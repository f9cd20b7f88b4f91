-------------------------------- MODULE Market -------------------------------
(***************************************************************************)
(* The secondary market of one token: the orders and the cap table in the  *)
(* database, the pages that list, and the requests that settle.            *)
(*                                                                         *)
(* A request of the server (settle-trade, offer-shares, sync) awaits the   *)
(* database and the chain many times, and other requests run in between:   *)
(* req[r].pc names what it does next, one action is what happens up to the *)
(* next await.  Any await may throw; a call may also have been carried out *)
(* although its answer is lost (`Goes').  Nothing undoes the earlier ones. *)
(*                                                                         *)
(* The cap table is a JSON list of holders.  A wallet that is not in it, or *)
(* is in it with 0, holds 0 in every use, and no wallet but the issuer can *)
(* be in it twice (an offer of the issuer to itself), so it is a function  *)
(* here: of the wallets, and of `Twin' while there is a second entry of the *)
(* issuer.  Who looks a wallet up finds its first entry.                   *)
(* Of a register_holder transaction only its acceptance by a node is       *)
(* modelled (`sent'): nothing here depends on what the chain does with it. *)
(***************************************************************************)
EXTENDS Naturals, FiniteSets, Functions

CONSTANTS Wallets,
          Issuer,        \* the wallet that minted the token, tok.owner
          None,          \* the empty string of an unset column
          Twin,          \* the issuer's second entry in the cap table
          Whole,         \* 10000 bps
          Sizes,         \* the bps that users type into the forms
          Orders,        \* bound: the ids of the orders ever created
          Requests       \* bound: the requests ever sent

ASSUME WalletsAssumption == IsFiniteSet(Wallets) /\ Issuer \in Wallets
ASSUME NoneAssumption    == None \notin Wallets /\ None \notin Orders
ASSUME TwinAssumption    == Twin \notin Wallets
ASSUME SizesAssumption   == Whole \in Nat /\ Sizes \subseteq Nat
ASSUME BoundsAssumption  == IsFiniteSet(Orders) /\ IsFiniteSet(Requests)

VARIABLES order,         \* the table of orders
          holders,       \* the cap table: entry -> bps
          req,           \* the requests, with what they read before an await
          view,          \* what the trade page of a wallet has loaded
          selling,       \* wallet -> bps of a listing being created, or 0
          calm           \* history: none of the disturbances of Conserved yet

vars == <<order, holders, req, view, selling, calm>>
pages == <<view, selling>>

Ended == {"new", "done", "refused", "failed"}
SettleSteps == {"pay", "read", "agentPay", "buyer", "payment", "book",
                "regBuyer", "regSeller", "write", "fill"}
OfferSteps == {"kyc", "offerIssuer", "offerInvestor", "offerRead", "offerWrite"}

\* The cap tables: one entry of each wallet, or two of the issuer.
Tables == [Wallets -> Nat] \cup [Wallets \cup {Twin} -> Nat]
Owner(e) == IF e = Twin THEN Issuer ELSE e

NewRequest == [pc |-> "new", order |-> None, who |-> None, bps |-> 0,
               paid |-> FALSE, snap |-> [w \in Wallets |-> 0],
               sent |-> {}, booked |-> FALSE]
NoOrder == [status |-> "absent", seller |-> None, bps |-> 0, buyer |-> None, paid |-> FALSE]

Monus(m, n) == IF m > n THEN m - n ELSE 0

InFlight(r) == req[r].pc \notin Ended
Alone == \A r \in Requests : ~InFlight(r)

\* The open orders of a wallet in bps: alreadyListedBps of the trade page.
OpenOrders(w) == {o \in Orders : order[o].status = "open" /\ order[o].seller = w}
Bps(S) == SumFunctionOnSet([o \in Orders |-> order[o].bps], S)
Listed(w) == Bps(OpenOrders(w))

\* What a wallet has offered and still holds: without the orders whose shares
\* are moved already, and with the listing that is being created.
OnOffer(w) == {o \in OpenOrders(w) :
                  \A r \in Requests : req[r].order = o => req[r].pc # "fill"}
Owed(w) == Bps(OnOffer(w)) + selling[w]

-----------------------------------------------------------------------------
(* Steps of a request.                                                     *)

\* The request becomes `next' and goes on at pc, or dies because the answer
\* to the call it just made is lost.
Goes(r, next, pc) ==
    \E p \in {pc, "failed"} : req' = [req EXCEPT ![r] = [next EXCEPT !.pc = p]]

At(r, pc) == req[r].pc = pc
Lives(r) == req'[r].pc # "failed"

\* submitRegisterHolder: the node accepts a transaction that sets w's weight.
Registers(r, w, pc) ==
    /\ Goes(r, [req[r] EXCEPT !.sent = @ \cup {w}], pc)
    /\ UNCHANGED <<order, holders, pages, calm>>

\* An await throws before the call had an effect, or it throws on the server:
\* nothing is rolled back.  The books are wrong if that is between the cap
\* table and the order.
Fail(r) ==
    /\ InFlight(r)
    /\ req' = [req EXCEPT ![r].pc = "failed"]
    /\ calm' = (calm /\ ~At(r, "fill"))
    /\ UNCHANGED <<order, holders, pages>>

-----------------------------------------------------------------------------
(* settle-trade.                                                           *)

\* handleBuy of the trade page: the listing was open when the page loaded.
\* The page pays first; the route also accepts a call without a payment.
Buy(r, w, o) ==
    /\ At(r, "new")
    /\ order[o].status # "absent"
    /\ order[o].seller # w
    /\ \E p \in {"pay", "read"} :
          req' = [req EXCEPT ![r] = [@ EXCEPT !.pc = p, !.order = o, !.who = w,
                                              !.bps = order[o].bps]]
    /\ calm' = (calm /\ Alone)
    /\ UNCHANGED <<order, holders, pages>>

\* The payment of the page (make-x402-payment) or of the route itself.
Pays(r, pc, next) ==
    /\ At(r, pc)
    /\ Goes(r, [req[r] EXCEPT !.paid = TRUE], next)
    /\ UNCHANGED <<order, holders, pages, calm>>

Pay(r) == Pays(r, "pay", "read")
AgentPay(r) == Pays(r, "agentPay", "buyer")

\* "Order already settled": the only look at the status.
ReadOrder(r) ==
    /\ At(r, "read")
    /\ Goes(r, req[r], IF order[req[r].order].status # "open" THEN "refused"
                       ELSE IF req[r].paid THEN "buyer" ELSE "agentPay")
    /\ UNCHANGED <<order, holders, pages, calm>>

\* Slips of the next step: the first buyer stays on record, or the order is
\* marked filled at once.
RecordFirstBuyer(r) ==
    /\ At(r, "buyer")
    /\ order' = [order EXCEPT ![req[r].order].buyer = IF @ = None THEN req[r].who ELSE @]
    /\ Goes(r, req[r], "payment")
    /\ UNCHANGED <<holders, pages, calm>>

RecordBuyerFilled(r) ==
    /\ At(r, "buyer")
    /\ order' = [order EXCEPT ![req[r].order] =
                    [@ EXCEPT !.buyer = req[r].who, !.status = "filled"]]
    /\ Goes(r, req[r], "payment")
    /\ UNCHANGED <<holders, pages, calm>>

\* updateOrder sends one UPDATE per column.
RecordBuyer(r) ==
    /\ At(r, "buyer")
    /\ order' = [order EXCEPT ![req[r].order].buyer = req[r].who]
    /\ Goes(r, req[r], "payment")
    /\ UNCHANGED <<holders, pages, calm>>

\* A slip of RecordPayment: nothing is written.
RecordNoPayment(r) ==
    /\ At(r, "payment")
    /\ Goes(r, req[r], "book")
    /\ UNCHANGED <<order, holders, pages, calm>>

RecordPayment(r) ==
    /\ At(r, "payment")
    /\ order' = [order EXCEPT ![req[r].order].paid = TRUE]
    /\ Goes(r, req[r], "book")
    /\ UNCHANGED <<holders, pages, calm>>

ReadBook(r) ==
    /\ At(r, "book")
    /\ Goes(r, [req[r] EXCEPT !.snap = holders], "regBuyer")
    /\ UNCHANGED <<order, holders, pages, calm>>

Seller(r) == order[req[r].order].seller

\* sellerNewBps, from the cap table as it was read.
SellerLeft(r) == Monus(req[r].snap[Seller(r)], req[r].bps)

\* The buyer's weight on the chain becomes the size of the order, whatever it
\* had (the cap table adds), and the seller's what it has left.
RegisterBuyer(r) ==
    /\ At(r, "regBuyer")
    /\ Registers(r, req[r].who, "regSeller")

RegisterSeller(r) ==
    /\ At(r, "regSeller")
    /\ Registers(r, Seller(r), "write")

\* updatedHolders, again from the cap table as it was read: a map over the
\* entries, so both of the issuer change alike (and two slips: the seller keeps
\* its share, the buyer loses what it had).
SettledNoDebit(r) ==
    [e \in DOMAIN req[r].snap |->
        req[r].snap[e] + IF Owner(e) = req[r].who THEN req[r].bps ELSE 0]
SettledBuyerSet(r) ==
    [e \in DOMAIN req[r].snap |->
        IF Owner(e) = Seller(r) THEN SellerLeft(r)
        ELSE IF Owner(e) = req[r].who THEN req[r].bps ELSE req[r].snap[e]]
Settled(r) ==
    [e \in DOMAIN req[r].snap |->
        IF Owner(e) = Seller(r) THEN SellerLeft(r)
        ELSE req[r].snap[e] + IF Owner(e) = req[r].who THEN req[r].bps ELSE 0]

WriteBook(r) ==
    /\ At(r, "write")
    /\ holders' = Settled(r)
    /\ Goes(r, [req[r] EXCEPT !.booked = TRUE], "fill")
    /\ calm' = (calm /\ Lives(r))
    /\ UNCHANGED <<order, pages>>

\* The page of the buyer then reloads the listings, if the answer arrives.
Fill(r) ==
    /\ At(r, "fill")
    /\ order' = [order EXCEPT ![req[r].order].status = "filled"]
    /\ Goes(r, req[r], "done")
    /\ \E seen \in {view[req[r].who].listed, Listed(req[r].who)} :
          view' = [view EXCEPT ![req[r].who].listed = seen]
    /\ UNCHANGED <<holders, selling, calm>>

-----------------------------------------------------------------------------
(* offer-shares.                                                           *)

\* The issuer offers b to a wallet, possibly its own.  The new cap table adds up
\* if nobody else holds anything by then, covers the orders if these two have
\* none, and has one entry of each if it is another wallet.
Offer(r, w, b) ==
    /\ At(r, "new")
    /\ 0 < b /\ b < Whole
    /\ req' = [req EXCEPT ![r] = [@ EXCEPT !.pc = "kyc", !.who = w, !.bps = b]]
    /\ calm' = (calm /\ Alone /\ w # Issuer /\ \A v \in Wallets :
                   IF v \in {Issuer, w} THEN Owed(v) = 0 ELSE holders[v] = 0)
    /\ UNCHANGED <<order, holders, pages>>

\* The check, the submission and the confirmation of missing KYC entries.
AwaitKyc(r) ==
    /\ At(r, "kyc")
    /\ Goes(r, req[r], "offerIssuer")
    /\ UNCHANGED <<order, holders, pages, calm>>

OfferIssuer(r) ==
    /\ At(r, "offerIssuer")
    /\ Registers(r, Issuer, "offerInvestor")

OfferInvestor(r) ==
    /\ At(r, "offerInvestor")
    /\ Registers(r, req[r].who, "offerRead")

OfferRead(r) ==
    /\ At(r, "offerRead")
    /\ Goes(r, [req[r] EXCEPT !.snap = holders], "offerWrite")
    /\ UNCHANGED <<order, holders, pages, calm>>

\* The entries of the issuer and of the investor are replaced, by what is not
\* offered and what is (two of the issuer if it offers to itself); the other
\* holders stay.
Offered(r) ==
    LET entries == IF req[r].who = Issuer THEN Wallets \cup {Twin} ELSE Wallets
        new     == IF req[r].who = Issuer THEN Twin ELSE req[r].who
    IN  [e \in entries |-> CASE e = Issuer -> Whole - req[r].bps
                             [] e = new    -> req[r].bps
                             [] OTHER      -> req[r].snap[e]]

OfferWrite(r) ==
    /\ At(r, "offerWrite")
    /\ holders' = Offered(r)
    /\ Goes(r, [req[r] EXCEPT !.booked = TRUE], "done")
    /\ UNCHANGED <<order, pages, calm>>

-----------------------------------------------------------------------------
(* sync: reads the tokens, asks the chain about every deploy, and writes    *)
(* the tokens back with the holders it read.  The flag syncInProgress is    *)
(* one per server instance, so it keeps no two requests apart.              *)

Sync(r) ==
    /\ At(r, "new")
    /\ req' = [req EXCEPT ![r] = [@ EXCEPT !.pc = "syncWrite", !.snap = holders]]
    /\ calm' = (calm /\ Alone)
    /\ UNCHANGED <<order, holders, pages>>

SyncWrite(r) ==
    /\ At(r, "syncWrite")
    /\ holders' = req[r].snap
    /\ Goes(r, req[r], "done")
    /\ UNCHANGED <<order, pages, calm>>

-----------------------------------------------------------------------------
(* The pages.                                                              *)

\* A load of the trade page: if the listings do not arrive, none are shown.
\* (Without the assets the page offers nothing to sell, as before the load.)
LoadPage(w) ==
    /\ \E l \in {0, Listed(w)} :
          view' = [view EXCEPT ![w] = [holding |-> holders[w], listed |-> l]]
    /\ UNCHANGED <<order, holders, req, selling, calm>>

\* maxSellBps
Sellable(w) == Monus(view[w].holding, view[w].listed)

\* handleSell of the trade page, and the route it calls refuses 0.
Sell(w, b) ==
    /\ selling[w] = 0
    /\ 0 < b /\ b <= Sellable(w)
    /\ selling' = [selling EXCEPT ![w] = b]
    /\ calm' = (calm /\ Alone /\ view[w] = [holding |-> holders[w], listed |-> Listed(w)])
    /\ UNCHANGED <<order, holders, req, view>>

\* handleList of the asset page looks at no holding.
SellFromAssetPage(b) ==
    /\ selling[Issuer] = 0
    /\ 0 < b /\ b < Whole
    /\ selling' = [selling EXCEPT ![Issuer] = b]
    /\ calm' = (calm /\ Alone /\ Owed(Issuer) + b <= holders[Issuer])
    /\ UNCHANGED <<order, holders, req, view>>

\* escrow-list-agent: the agent lists on the escrow contract, then the order is
\* stored; the trade page reloads the listings if the answer arrives.
CreateOrder(w, o) ==
    /\ selling[w] > 0
    /\ order[o] = NoOrder
    /\ order' = [order EXCEPT ![o] = [NoOrder EXCEPT !.status = "open", !.seller = w,
                                                     !.bps = selling[w]]]
    /\ \E seen \in {view[w].listed, Listed(w) + selling[w]} :
          view' = [view EXCEPT ![w].listed = seen]
    /\ selling' = [selling EXCEPT ![w] = 0]
    /\ UNCHANGED <<holders, req, calm>>

ListingFails(w) ==
    /\ selling[w] > 0
    /\ selling' = [selling EXCEPT ![w] = 0]
    /\ UNCHANGED <<order, holders, req, view, calm>>

\* The button of the orders page, shown for an order that was open when the
\* page loaded; PATCH orders/[id] looks at no status.
Cancel(o) ==
    /\ order[o].status \in {"open", "filled"}
    /\ order' = [order EXCEPT ![o].status = "cancelled"]
    /\ UNCHANGED <<holders, req, pages, calm>>

-----------------------------------------------------------------------------
\* After the mint: the issuer holds everything, in the database and on chain.
Init ==
    /\ order = [o \in Orders |-> NoOrder]
    /\ holders = [w \in Wallets |-> IF w = Issuer THEN Whole ELSE 0]
    /\ req = [r \in Requests |-> NewRequest]
    /\ view = [w \in Wallets |-> [holding |-> 0, listed |-> 0]]
    /\ selling = [w \in Wallets |-> 0]
    /\ calm = TRUE

Settle(r) ==
    \/ Pay(r) \/ ReadOrder(r) \/ AgentPay(r) \/ RecordBuyer(r) \/ RecordPayment(r)
    \/ ReadBook(r) \/ RegisterBuyer(r) \/ RegisterSeller(r) \/ WriteBook(r) \/ Fill(r)

OfferShares(r) ==
    AwaitKyc(r) \/ OfferIssuer(r) \/ OfferInvestor(r) \/ OfferRead(r) \/ OfferWrite(r)

Next ==
    \/ \E r \in Requests, w \in Wallets, o \in Orders : Buy(r, w, o)
    \/ \E r \in Requests, w \in Wallets, b \in Sizes : Offer(r, w, b)
    \/ \E r \in Requests : Sync(r)
    \/ \E r \in Requests : Settle(r) \/ OfferShares(r) \/ SyncWrite(r) \/ Fail(r)
    \/ \E w \in Wallets : LoadPage(w) \/ ListingFails(w)
    \/ \E w \in Wallets, b \in Sizes : Sell(w, b)
    \/ \E b \in Sizes : SellFromAssetPage(b)
    \/ \E w \in Wallets, o \in Orders : CreateOrder(w, o)
    \/ \E o \in Orders : Cancel(o)

Spec == Init /\ [][Next]_vars

-----------------------------------------------------------------------------
\* The rows of the tables, the locals of the requests, what the pages show.
TypeOK ==
    /\ order \in [Orders -> [status : {"absent", "open", "filled", "cancelled"},
                             seller : Wallets \cup {None}, bps : Nat,
                             buyer : Wallets \cup {None}, paid : BOOLEAN]]
    /\ holders \in Tables
    /\ req \in [Requests -> [pc : Ended \cup SettleSteps \cup OfferSteps \cup {"syncWrite"},
                             order : Orders \cup {None}, who : Wallets \cup {None},
                             bps : Nat, paid : BOOLEAN, snap : Tables,
                             sent : SUBSET Wallets, booked : BOOLEAN]]
    /\ view \in [Wallets -> [holding : Nat, listed : Nat]]
    /\ selling \in [Wallets -> Nat]
    /\ calm \in BOOLEAN

\* No weight moves on the chain for an order without a recorded payment, by
\* whichever request and whatever failed before (settle-trade, lines 52-72).
PaidBeforeRegistered ==
    \A r \in Requests :
        req[r].order # None /\ req[r].sent # {} => order[req[r].order].paid

\* An order is only filled if one request alone did all the rest of the
\* settlement: both registrations accepted and the cap table written.  Failed
\* requests and the pieces of several never add up to a filled order.
Backs(r, o) ==
    /\ req[r].order = o
    /\ req[r].sent = {req[r].who, order[o].seller}
    /\ req[r].booked

FilledIsBacked ==
    \A o \in Orders : order[o].status = "filled" => \E r \in Requests : Backs(r, o)

\* In a calm market the buyer recorded with a filled order is the one who got
\* the shares, also after earlier buyers failed half way.
BuyerOfRecord ==
    calm => \A o \in Orders : order[o].status = "filled" =>
        \E r \in Requests : req[r].order = o /\ req[r].booked /\ req[r].who = order[o].buyer

\* What can spoil the cap table is what `calm' records: overlapping requests, a
\* listing made while one runs, from a page that is out of date or without a
\* look at the holding, an offer when others hold, one of the issuer to itself,
\* and a failure between the cap table and the order.  Failures anywhere else and cancellations at any
\* moment do no harm: it adds up, and every wallet holds what it has on offer.
Conserved ==
    calm => /\ SumFunction(holders) = Whole
            /\ \A w \in Wallets : Owed(w) <= holders[w]

\* In a calm market without offers the cap table is what the trades made it: no
\* purchase is lost or counted twice, neither by a failed request and its
\* repetition nor by a sync that writes back what it read.
Moved(R) == SumFunctionOnSet([r \in Requests |-> req[r].bps], R)
Booked == {r \in Requests : req[r].booked}
TradesAreKept ==
    calm /\ (\A r \in Booked : req[r].order # None) =>
        \A w \in Wallets :
            holders[w] + Moved({r \in Booked : Seller(r) = w})
              = (IF w = Issuer THEN Whole ELSE 0) + Moved({r \in Booked : req[r].who = w})

\* settle-trade line 50, "Order already settled": shares move once per order.
SettledOnce ==
    \A r, s \in Requests :
        r # s /\ req[r].order # None /\ req[r].order = req[s].order =>
            ~(req[r].booked /\ req[s].booked)
=============================================================================
