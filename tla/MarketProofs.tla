---------------------------- MODULE MarketProofs -----------------------------
(***************************************************************************)
(* Proofs about the market, for any number of wallets, orders and          *)
(* requests.  First the settlement of orders, under any interleaving and   *)
(* any failures; then the cap table of a calm market.                      *)
(***************************************************************************)
EXTENDS Market, Sums, TLAPS

(***************************************************************************)
(* The types of the tables and requests.  (What the pages show is a sum    *)
(* over the open orders and takes no part in what follows.)                *)
(***************************************************************************)
Order == [status : {"absent", "open", "filled", "cancelled"}, seller : Wallets \cup {None},
          bps : Nat, buyer : Wallets \cup {None}, paid : BOOLEAN]

Request == [pc : Ended \cup SettleSteps \cup OfferSteps \cup {"syncWrite"},
            order : Orders \cup {None}, who : Wallets \cup {None}, bps : Nat,
            paid : BOOLEAN, snap : Tables, sent : SUBSET Wallets,
            booked : BOOLEAN]

TablesOK ==
    /\ order \in [Orders -> Order]
    /\ holders \in Tables
    /\ req \in [Requests -> Request]
    /\ selling \in [Wallets -> Nat]

\* A request for an order has a buyer, and the order exists; what it has done
\* follows from where it is.
BeforeChain == {"pay", "read", "agentPay", "buyer", "payment", "book", "regBuyer"}
AfterPayment == {"book", "regBuyer", "regSeller", "write", "fill"}

RequestOK(r) ==
    /\ At(r, "new") => req[r].order = None /\ req[r].sent = {}
    /\ req[r].pc \in OfferSteps \cup {"syncWrite"} => req[r].order = None
    /\ req[r].pc \in OfferSteps => req[r].bps <= Whole /\ req[r].who \in Wallets
    /\ req[r].pc \in SettleSteps => req[r].order # None
    /\ req[r].order # None => /\ order[req[r].order].status # "absent"
                              /\ req[r].who \in Wallets
    /\ req[r].pc \in BeforeChain => req[r].sent = {}
    /\ req[r].pc \in AfterPayment => order[req[r].order].paid
    /\ At(r, "regSeller") => req[r].sent = {req[r].who}
    /\ req[r].pc \in {"write", "fill"} => req[r].sent = {req[r].who, Seller(r)}
    /\ At(r, "fill") => req[r].booked

SettleInv ==
    /\ TablesOK
    /\ \A o \in Orders : order[o].status # "absent" => order[o].seller \in Wallets
    /\ \A r \in Requests : RequestOK(r)
    /\ PaidBeforeRegistered
    /\ FilledIsBacked

Steps == Ended \cup SettleSteps \cup OfferSteps \cup {"syncWrite"}

-----------------------------------------------------------------------------
(***************************************************************************)
(* What a step may do to the orders without disturbing anybody else.       *)
(***************************************************************************)
OrdersKept ==
    /\ order' \in [Orders -> Order]
    /\ \A o \in Orders : order[o].status # "absent" =>
           /\ order'[o].status # "absent"
           /\ order'[o].seller = order[o].seller
           /\ order[o].paid => order'[o].paid
    /\ \A o \in Orders : order'[o].status # "absent" => order'[o].seller \in Wallets

\* The steps of request r: it is enough to look at r, at the orders and at the
\* types of what was written.
LEMMA RequestStep ==
    ASSUME SettleInv, NEW r \in Requests, NEW next \in Request,
           req' = [req EXCEPT ![r] = next],
           OrdersKept,
           holders' \in Tables,
           selling' \in [Wallets -> Nat],
           RequestOK(r)',
           next.order # None /\ next.sent # {} => order'[next.order].paid,
           \A o \in Orders : Backs(r, o) => Backs(r, o)',
           \A o \in Orders : order'[o].status = "filled" =>
               order[o].status = "filled" \/ Backs(r, o)'
    PROVE  SettleInv'
<1>1. TablesOK'
  BY DEF SettleInv, TablesOK, OrdersKept
<1>2. \A s \in Requests \ {r} : req'[s] = req[s]
  BY DEF SettleInv, TablesOK
<1>3. ASSUME NEW s \in Requests \ {r} PROVE RequestOK(s)'
  <2>1. RequestOK(s) /\ req'[s] = req[s] /\ req[s] \in Request
    BY <1>2 DEF SettleInv, TablesOK
  <2>2. CASE req[s].order = None
    BY <2>1, <2>2 DEF RequestOK, At, Request, BeforeChain, AfterPayment, OfferSteps, SettleSteps
  <2>3. CASE req[s].order # None
    <3>1. req[s].order \in Orders /\ order[req[s].order].status # "absent"
      BY <2>1, <2>3 DEF RequestOK, Request
    <3>2. /\ order'[req[s].order].status # "absent"
          /\ order'[req[s].order].seller = order[req[s].order].seller
          /\ order[req[s].order].paid => order'[req[s].order].paid
      BY <3>1 DEF OrdersKept
    <3> QED
      BY <2>1, <2>3, <3>1, <3>2 DEF RequestOK, At, Seller
  <2> QED
    BY <2>2, <2>3
<1>4. \A s \in Requests : RequestOK(s)'
  BY <1>3
<1>5. PaidBeforeRegistered'
  <2> SUFFICES ASSUME NEW s \in Requests, req'[s].order # None, req'[s].sent # {}
               PROVE  order'[req'[s].order].paid
    BY DEF PaidBeforeRegistered
  <2>1. CASE s = r
    BY <2>1 DEF SettleInv, TablesOK
  <2>2. CASE s # r
    <3>1. req'[s] = req[s] /\ order[req[s].order].paid /\ req[s] \in Request
      BY <1>2, <2>2 DEF SettleInv, PaidBeforeRegistered, TablesOK
    <3>2. req[s].order \in Orders /\ order[req[s].order].status # "absent"
      BY <3>1 DEF SettleInv, RequestOK, Request
    <3> QED
      BY <3>1, <3>2 DEF OrdersKept
  <2> QED
    BY <2>1, <2>2
<1>6. FilledIsBacked'
  <2> SUFFICES ASSUME NEW o \in Orders, order'[o].status = "filled"
               PROVE  \E s \in Requests : Backs(s, o)'
    BY DEF FilledIsBacked
  <2>1. CASE Backs(r, o)'
    BY <2>1
  <2>2. CASE order[o].status = "filled"
    <3>1. PICK s \in Requests : Backs(s, o)
      BY <2>2 DEF SettleInv, FilledIsBacked
    <3>2. CASE s = r
      BY <3>1, <3>2
    <3>3. CASE s # r
      <4>1. req'[s] = req[s] /\ order'[o].seller = order[o].seller
        BY <1>2, <2>2, <3>3 DEF OrdersKept
      <4> QED
        BY <3>1, <4>1 DEF Backs
    <3> QED
      BY <3>2, <3>3
  <2> QED
    BY <2>1, <2>2
<1> QED
  BY <1>1, <1>4, <1>5, <1>6 DEF SettleInv, OrdersKept

\* The steps of the pages: no request changes.
LEMMA PageStep ==
    ASSUME SettleInv, OrdersKept, req' = req,
           holders' = holders, selling' \in [Wallets -> Nat],
           \A o \in Orders : order'[o].status = "filled" => order[o].status = "filled"
    PROVE  SettleInv'
<1>1. TablesOK'
  BY DEF SettleInv, TablesOK, OrdersKept
<1>2. ASSUME NEW s \in Requests PROVE RequestOK(s)'
  <2>1. RequestOK(s) /\ req'[s] = req[s] /\ req[s] \in Request
    BY DEF SettleInv, TablesOK
  <2>2. CASE req[s].order = None
    BY <2>1, <2>2 DEF RequestOK, At, Request, BeforeChain, AfterPayment, OfferSteps, SettleSteps
  <2>3. CASE req[s].order # None
    <3>1. req[s].order \in Orders /\ order[req[s].order].status # "absent"
      BY <2>1, <2>3 DEF RequestOK, Request
    <3>2. /\ order'[req[s].order].status # "absent"
          /\ order'[req[s].order].seller = order[req[s].order].seller
          /\ order[req[s].order].paid => order'[req[s].order].paid
      BY <3>1 DEF OrdersKept
    <3> QED
      BY <2>1, <2>3, <3>1, <3>2 DEF RequestOK, At, Seller
  <2> QED
    BY <2>2, <2>3
<1>3. PaidBeforeRegistered'
  <2> SUFFICES ASSUME NEW s \in Requests, req[s].order # None, req[s].sent # {}
               PROVE  order'[req[s].order].paid
    BY DEF PaidBeforeRegistered
  <2>1. req[s].order \in Orders /\ order[req[s].order].status # "absent"
    BY DEF SettleInv, TablesOK, RequestOK, Request
  <2> QED
    BY <2>1 DEF SettleInv, PaidBeforeRegistered, OrdersKept
<1>4. FilledIsBacked'
  <2> SUFFICES ASSUME NEW o \in Orders, order'[o].status = "filled"
               PROVE  \E s \in Requests : Backs(s, o)'
    BY DEF FilledIsBacked
  <2>1. PICK s \in Requests : Backs(s, o)
    BY DEF SettleInv, FilledIsBacked
  <2>2. order'[o].seller = order[o].seller
    BY DEF OrdersKept
  <2> QED
    BY <2>1, <2>2 DEF Backs
<1> QED
  BY <1>1, <1>2, <1>3, <1>4 DEF SettleInv, OrdersKept

-----------------------------------------------------------------------------
\* What `Goes' leaves: r becomes next, with its pc at the next step or dead.
LEMMA GoesTo ==
    ASSUME TablesOK, NEW r \in Requests, NEW next, NEW pc \in Steps,
           next \in Request, Goes(r, next, pc)
    PROVE  \E p \in {pc, "failed"} :
               /\ [next EXCEPT !.pc = p] \in Request
               /\ req' = [req EXCEPT ![r] = [next EXCEPT !.pc = p]]
BY DEF Goes, Request, Steps, Ended

\* A cap table has an entry of every wallet, and its entries are numbers.
LEMMA TableEntries ==
    ASSUME NEW t \in Tables
    PROVE  /\ DOMAIN t \in {Wallets, Wallets \cup {Twin}}
           /\ Wallets \subseteq DOMAIN t
           /\ \A e \in DOMAIN t : t[e] \in Nat
           /\ \A f : DOMAIN f = DOMAIN t /\ f = [e \in DOMAIN t |-> f[e]]
                       /\ (\A e \in DOMAIN t : f[e] \in Nat) => f \in Tables
BY DEF Tables

\* sellerNewBps is a number of bps, as Math.max(0, ...) in the code says.
LEMMA SellerLeftType ==
    ASSUME TablesOK, NEW r \in Requests, req[r].order # None,
           Seller(r) \in Wallets
    PROVE  SellerLeft(r) \in Nat
<1>1. req[r].snap \in Tables /\ req[r].bps \in Nat
  BY DEF TablesOK, Request
<1>2. req[r].snap[Seller(r)] \in Nat
  BY <1>1, TableEntries
<1> QED
  BY <1>1, <1>2 DEF SellerLeft, Monus

\* Init and every step keep the invariant.
LEMMA SettleInit == Init => SettleInv
BY WalletsAssumption, SizesAssumption, NoneAssumption
   DEF Init, SettleInv, TablesOK, Order, Request, NoOrder, NewRequest, Ended, RequestOK,
       At, BeforeChain, AfterPayment, SettleSteps, OfferSteps, PaidBeforeRegistered,
       FilledIsBacked, Tables

\* A step that does not touch the table of orders keeps it.
LEMMA OrdersUnchanged == SettleInv /\ order' = order => OrdersKept
BY DEF SettleInv, TablesOK, OrdersKept

\* The beginning of a settlement.
LEMMA BuyKeeps ==
    ASSUME SettleInv, NEW r \in Requests, NEW w \in Wallets, NEW o \in Orders, Buy(r, w, o)
    PROVE  SettleInv'
<1>1. PICK p \in {"pay", "read"} :
          req' = [req EXCEPT ![r] = [req[r] EXCEPT !.pc = p, !.order = o, !.who = w,
                                                   !.bps = order[o].bps]]
  BY DEF Buy
<1> DEFINE next == [req[r] EXCEPT !.pc = p, !.order = o, !.who = w, !.bps = order[o].bps]
<1>2. next \in Request
  BY DEF SettleInv, TablesOK, Request, Order, SettleSteps
<1>3. OrdersKept /\ order' = order /\ holders' = holders /\ selling' = selling
  BY OrdersUnchanged DEF Buy, pages
<1>4. req[r].order = None /\ req[r].sent = {} /\ o # None /\ order[o].status # "absent"
  BY NoneAssumption DEF Buy, SettleInv, RequestOK, At
<1>5. req'[r] = next /\ next.sent = {} /\ next.pc = p /\ next.order = o /\ next.who = w
  BY <1>1, <1>4 DEF SettleInv, TablesOK, Request
<1>6. RequestOK(r)'
  BY <1>3, <1>4, <1>5 DEF RequestOK, At, BeforeChain, AfterPayment, SettleSteps, OfferSteps
<1>7. \A oo \in Orders : ~Backs(r, oo)
  BY <1>4 , NoneAssumption DEF Backs
<1> HIDE DEF next
<1> QED
  BY <1>1, <1>2, <1>3, <1>5, <1>6, <1>7, RequestStep DEF SettleInv, TablesOK, next

\* A step that goes on to pc or dies: only the record with the new pc has to be
\* looked at, as a dead request is bound by little.
LEMMA Progress ==
    ASSUME SettleInv, NEW r \in Requests, NEW next \in Request, NEW pc \in Steps,
           Goes(r, next, pc),
           OrdersKept, holders' \in Tables, selling' \in [Wallets -> Nat],
           next.order = req[r].order, next.who = req[r].who,
           next.order # None /\ next.sent # {} => order'[next.order].paid,
           req'[r] = [next EXCEPT !.pc = pc] => RequestOK(r)',
           \A o \in Orders : Backs(r, o) => next.sent = req[r].sent /\ next.booked,
           \A o \in Orders : order'[o].status = "filled" =>
               \/ order[o].status = "filled"
               \/ next.order = o /\ next.booked /\ next.sent = {next.who, order'[o].seller}
    PROVE  SettleInv'
<1>1. PICK p \in {pc, "failed"} :
          /\ [next EXCEPT !.pc = p] \in Request
          /\ req' = [req EXCEPT ![r] = [next EXCEPT !.pc = p]]
  BY GoesTo DEF SettleInv
<1> DEFINE rec == [next EXCEPT !.pc = p]
<1>2. /\ req'[r] = rec /\ rec.pc = p /\ rec.order = next.order /\ rec.who = next.who
      /\ rec.sent = next.sent /\ rec.booked = next.booked
  BY <1>1 DEF SettleInv, TablesOK, Request
<1>3. RequestOK(r)'
  <2>1. CASE p = pc
    BY <1>1, <1>2, <2>1
  <2>2. CASE p = "failed"
    <3>1. req[r].order # None => req[r].order \in Orders /\ order[req[r].order].status # "absent"
                                 /\ req[r].who \in Wallets
      BY DEF SettleInv, TablesOK, RequestOK, Request
    <3>2. req'[r].order # None => order'[req'[r].order].status # "absent" /\ req'[r].who \in Wallets
      BY <1>2, <3>1 DEF OrdersKept
    <3> QED
      BY <1>2, <2>2, <3>2 DEF RequestOK, At, BeforeChain, AfterPayment, SettleSteps, OfferSteps
  <2> QED
    BY <2>1, <2>2
<1>4. \A o \in Orders : Backs(r, o) => Backs(r, o)'
  <2> SUFFICES ASSUME NEW o \in Orders, Backs(r, o) PROVE Backs(r, o)'
    OBVIOUS
  <2>1. order[o].status # "absent"
    BY NoneAssumption DEF Backs, SettleInv, RequestOK
  <2> QED
    BY <1>2, <2>1 DEF Backs, OrdersKept
<1>5. \A o \in Orders : order'[o].status = "filled" => order[o].status = "filled" \/ Backs(r, o)'
  BY <1>2 DEF Backs
<1>6. rec.order # None /\ rec.sent # {} => order'[rec.order].paid
  BY <1>2
<1>7. rec \in Request /\ req' = [req EXCEPT ![r] = rec]
  BY <1>1
<1> HIDE DEF rec
<1> QED
  BY <1>3, <1>4, <1>5, <1>6, <1>7, RequestStep

-----------------------------------------------------------------------------
(***************************************************************************)
(* The steps of settle-trade.                                              *)
(***************************************************************************)
\* Steps that touch neither the tables nor what is sent.
LEMMA QuietStep ==
    ASSUME SettleInv, NEW r \in Requests, NEW next \in Request, NEW pc \in Steps,
           Goes(r, next, pc), UNCHANGED <<order, holders, pages>>,
           next.order = req[r].order, next.who = req[r].who, next.bps = req[r].bps,
           next.sent = req[r].sent, next.booked = req[r].booked,
           req'[r] = [next EXCEPT !.pc = pc] => RequestOK(r)'
    PROVE  SettleInv'
<1>1. OrdersKept /\ holders' = holders /\ selling' = selling
  BY OrdersUnchanged DEF pages
<1>2. next.order # None /\ next.sent # {} => order'[next.order].paid
  BY DEF SettleInv, PaidBeforeRegistered
<1>3. \A o \in Orders : Backs(r, o) => next.booked
  BY DEF Backs
<1> QED
  BY <1>1, <1>2, <1>3, Progress DEF SettleInv, TablesOK

\* A payment, by the page or by the agent, only marks the request as paid.
LEMMA PaysKeeps ==
    ASSUME SettleInv, NEW r \in Requests, Pay(r) \/ AgentPay(r)
    PROVE  SettleInv'
<1>1. PICK pc \in {"read", "buyer"} :
          /\ Goes(r, [req[r] EXCEPT !.paid = TRUE], pc)
          /\ req[r].pc \in {"pay", "agentPay"}
          /\ UNCHANGED <<order, holders, pages>>
  BY DEF Pay, AgentPay, Pays, At
<1> DEFINE next == [req[r] EXCEPT !.paid = TRUE]
<1>2. next \in Request /\ pc \in Steps /\ req[r] \in Request
  BY DEF SettleInv, TablesOK, Request, Steps, SettleSteps
<1>3. ASSUME req'[r] = [next EXCEPT !.pc = pc] PROVE RequestOK(r)'
  BY <1>1, <1>2, <1>3 DEF SettleInv, RequestOK, At, BeforeChain, AfterPayment, SettleSteps,
     OfferSteps, Request
<1>4. /\ next.order = req[r].order /\ next.who = req[r].who /\ next.bps = req[r].bps
      /\ next.sent = req[r].sent /\ next.booked = req[r].booked
  BY <1>2 DEF Request
<1> QED
  BY <1>1, <1>2, <1>3, <1>4, QuietStep

\* The look at the status only decides where the request goes on.
LEMMA ReadOrderKeeps ==
    ASSUME SettleInv, NEW r \in Requests, ReadOrder(r)
    PROVE  SettleInv'
<1>1. PICK pc \in {"refused", "buyer", "agentPay"} : Goes(r, req[r], pc)
  BY DEF ReadOrder
<1>2. At(r, "read") /\ UNCHANGED <<order, holders, pages>>
  BY DEF ReadOrder
<1>3. req[r] \in Request /\ pc \in Steps
  BY DEF SettleInv, TablesOK, Steps, SettleSteps, Ended
<1>4. ASSUME req'[r] = [req[r] EXCEPT !.pc = pc] PROVE RequestOK(r)'
  BY <1>2, <1>3, <1>4 DEF SettleInv, RequestOK, At, BeforeChain, AfterPayment, SettleSteps,
     OfferSteps, Request
<1> QED
  BY <1>1, <1>2, <1>3, <1>4, QuietStep

\* Where a request for an order stands.
LEMMA OrderOf ==
    ASSUME SettleInv, NEW r \in Requests, req[r].pc \in SettleSteps
    PROVE  /\ req[r] \in Request /\ req[r].order \in Orders /\ req[r].who \in Wallets
           /\ order[req[r].order] \in Order
           /\ order[req[r].order].status # "absent"
           /\ Seller(r) \in Wallets
           /\ RequestOK(r)
BY NoneAssumption DEF SettleInv, TablesOK, RequestOK, Request, Seller

\* UPDATEs that leave a row's seller and status alone, and do not unset its payment.
LEMMA RowKept ==
    ASSUME SettleInv, NEW o \in Orders, NEW row \in Order, order[o].status # "absent",
           order' = [order EXCEPT ![o] = row],
           row.status # "absent", row.seller = order[o].seller, order[o].paid => row.paid
    PROVE  OrdersKept
BY DEF SettleInv, TablesOK, OrdersKept

\* Recording a buyer changes neither seller, status nor payment.
LEMMA RecordBuyerKeeps ==
    ASSUME SettleInv, NEW r \in Requests, RecordBuyer(r)
    PROVE  SettleInv'
<1> DEFINE o == req[r].order
           row == [order[o] EXCEPT !.buyer = req[r].who]
<1>1. /\ At(r, "buyer") /\ req[r].pc \in SettleSteps
      /\ holders' = holders /\ selling' = selling
      /\ Goes(r, req[r], "payment")
      /\ order' = [order EXCEPT ![o] = row]
  BY DEF RecordBuyer, At, SettleSteps, pages
<1>2. /\ req[r] \in Request /\ o \in Orders /\ req[r].who \in Wallets
      /\ order[o] \in Order /\ order[o].status # "absent" /\ RequestOK(r)
  BY <1>1, OrderOf
<1>3. row \in Order /\ row.status = order[o].status /\ row.seller = order[o].seller
      /\ row.paid = order[o].paid
  BY <1>2 DEF Order
<1> HIDE DEF row
<1>4. OrdersKept
  BY <1>1, <1>2, <1>3, RowKept
<1>5. \A oo \in Orders : order'[oo].status = "filled" => order[oo].status = "filled"
  BY <1>1, <1>2, <1>3 DEF SettleInv, TablesOK
<1>6. ASSUME req'[r] = [req[r] EXCEPT !.pc = "payment"] PROVE RequestOK(r)'
  BY <1>1, <1>2, <1>4, <1>6 DEF RequestOK, At, BeforeChain, AfterPayment, SettleSteps,
     OfferSteps, Request, OrdersKept
<1>7. req[r].sent = {} /\ "payment" \in Steps
  BY <1>1, <1>2 DEF RequestOK, At, BeforeChain, Steps, SettleSteps
<1>8. \A oo \in Orders : Backs(r, oo) => req[r].booked
  BY DEF Backs
<1> QED
  BY <1>1, <1>2, <1>4, <1>5, <1>6, <1>7, <1>8, Progress DEF SettleInv, TablesOK

\* Recording the payment is what allows the registrations that follow.
LEMMA RecordPaymentKeeps ==
    ASSUME SettleInv, NEW r \in Requests, RecordPayment(r)
    PROVE  SettleInv'
<1> DEFINE o == req[r].order
           row == [order[o] EXCEPT !.paid = TRUE]
<1>1. /\ At(r, "payment") /\ req[r].pc \in SettleSteps
      /\ holders' = holders /\ selling' = selling
      /\ Goes(r, req[r], "book")
      /\ order' = [order EXCEPT ![o] = row]
  BY DEF RecordPayment, At, SettleSteps, pages
<1>2. /\ req[r] \in Request /\ o \in Orders /\ req[r].who \in Wallets
      /\ order[o] \in Order /\ order[o].status # "absent" /\ RequestOK(r)
  BY <1>1, OrderOf
<1>3. row \in Order /\ row.status = order[o].status /\ row.seller = order[o].seller
      /\ row.paid
  BY <1>2 DEF Order
<1> HIDE DEF row
<1>4. OrdersKept
  BY <1>1, <1>2, <1>3, RowKept
<1>5. /\ order'[o].paid
      /\ \A oo \in Orders : order'[oo].status = "filled" => order[oo].status = "filled"
  BY <1>1, <1>2, <1>3 DEF SettleInv, TablesOK
<1>6. ASSUME req'[r] = [req[r] EXCEPT !.pc = "book"] PROVE RequestOK(r)'
  BY <1>1, <1>2, <1>4, <1>5, <1>6 DEF RequestOK, At, BeforeChain, AfterPayment, SettleSteps,
     OfferSteps, Request, OrdersKept
<1>7. req[r].sent = {} /\ "book" \in Steps
  BY <1>1, <1>2 DEF RequestOK, At, BeforeChain, Steps, SettleSteps
<1>8. \A oo \in Orders : Backs(r, oo) => req[r].booked
  BY DEF Backs
<1> QED
  BY <1>1, <1>2, <1>4, <1>5, <1>6, <1>7, <1>8, Progress DEF SettleInv, TablesOK

\* Reading the cap table changes only what the request remembers.
LEMMA ReadBookKeeps ==
    ASSUME SettleInv, NEW r \in Requests, ReadBook(r)
    PROVE  SettleInv'
<1> DEFINE next == [req[r] EXCEPT !.snap = holders]
<1>1. At(r, "book") /\ Goes(r, next, "regBuyer") /\ UNCHANGED <<order, holders, pages>>
  BY DEF ReadBook
<1>2. /\ next \in Request /\ req[r] \in Request /\ "regBuyer" \in Steps
      /\ next.order = req[r].order /\ next.who = req[r].who /\ next.bps = req[r].bps
      /\ next.sent = req[r].sent /\ next.booked = req[r].booked
  BY DEF SettleInv, TablesOK, Request, Steps, SettleSteps
<1>3. ASSUME req'[r] = [next EXCEPT !.pc = "regBuyer"] PROVE RequestOK(r)'
  BY <1>1, <1>2, <1>3 DEF SettleInv, RequestOK, At, BeforeChain, AfterPayment, SettleSteps,
     OfferSteps, Request
<1> QED
  BY <1>1, <1>2, <1>3, QuietStep

\* The first registration: the payment of its order is on record.
LEMMA RegisterBuyerKeeps ==
    ASSUME SettleInv, NEW r \in Requests, RegisterBuyer(r)
    PROVE  SettleInv'
<1> DEFINE next == [req[r] EXCEPT !.sent = @ \cup {req[r].who}]
<1>1. /\ At(r, "regBuyer") /\ req[r].pc \in SettleSteps
      /\ Goes(r, next, "regSeller") /\ UNCHANGED <<order, holders, pages>>
  BY DEF RegisterBuyer, Registers, At, SettleSteps
<1>2. /\ req[r] \in Request /\ req[r].order \in Orders /\ req[r].who \in Wallets
      /\ RequestOK(r)
  BY <1>1, OrderOf
<1>3. req[r].sent = {} /\ order[req[r].order].paid
  BY <1>1, <1>2 DEF RequestOK, At, BeforeChain, AfterPayment
<1>4. /\ next \in Request /\ next.order = req[r].order /\ next.who = req[r].who
      /\ next.sent = {req[r].who} /\ "regSeller" \in Steps
  BY <1>2, <1>3 DEF Request, Steps, SettleSteps
<1>5. OrdersKept /\ order' = order /\ holders' = holders /\ selling' = selling
  BY <1>1, OrdersUnchanged DEF pages
<1>6. ASSUME req'[r] = [next EXCEPT !.pc = "regSeller"] PROVE RequestOK(r)'
  <2>1. /\ req'[r].pc = "regSeller" /\ req'[r].order = req[r].order
        /\ req'[r].who = req[r].who /\ req'[r].sent = {req[r].who}
    BY <1>2, <1>3, <1>6 DEF Request
  <2>2. order[req[r].order].status # "absent"
    BY <1>1, OrderOf
  <2> QED
    BY <1>2, <1>3, <1>5, <2>1, <2>2, NoneAssumption
       DEF RequestOK, At, BeforeChain, AfterPayment, SettleSteps, OfferSteps
<1>7. \A oo \in Orders : ~Backs(r, oo)
  BY <1>3 DEF Backs
<1> HIDE DEF next
<1> QED
  BY <1>1, <1>3, <1>4, <1>5, <1>6, <1>7, Progress DEF SettleInv, TablesOK

\* The second registration: now both parties of the order are sent.
LEMMA RegisterSellerKeeps ==
    ASSUME SettleInv, NEW r \in Requests, RegisterSeller(r)
    PROVE  SettleInv'
<1> DEFINE next == [req[r] EXCEPT !.sent = @ \cup {Seller(r)}]
<1>1. /\ At(r, "regSeller") /\ req[r].pc \in SettleSteps
      /\ Goes(r, next, "write") /\ UNCHANGED <<order, holders, pages>>
  BY DEF RegisterSeller, Registers, At, SettleSteps
<1>2. /\ req[r] \in Request /\ req[r].order \in Orders /\ req[r].who \in Wallets
      /\ RequestOK(r) /\ Seller(r) \in Wallets
  BY <1>1, OrderOf
<1>3. req[r].sent = {req[r].who} /\ order[req[r].order].paid
  BY <1>1, <1>2 DEF RequestOK, At, AfterPayment
<1>4. /\ next \in Request /\ next.order = req[r].order /\ next.who = req[r].who
      /\ next.sent = {req[r].who, Seller(r)} /\ next.booked = req[r].booked
      /\ "write" \in Steps
  BY <1>2, <1>3 DEF Request, Steps, SettleSteps
<1>5. OrdersKept /\ order' = order /\ holders' = holders /\ selling' = selling
  BY <1>1, OrdersUnchanged DEF pages
<1>6. ASSUME req'[r] = [next EXCEPT !.pc = "write"] PROVE RequestOK(r)'
  <2>1. /\ req'[r].pc = "write" /\ req'[r].order = req[r].order
        /\ req'[r].who = req[r].who /\ req'[r].sent = {req[r].who, Seller(r)}
    BY <1>2, <1>3, <1>6 DEF Request
  <2>2. order[req[r].order].status # "absent" /\ Seller(r)' = Seller(r)
    BY <1>1, <1>5, <2>1, OrderOf DEF Seller
  <2> QED
    BY <1>2, <1>3, <1>5, <2>1, <2>2, NoneAssumption
       DEF RequestOK, At, BeforeChain, AfterPayment, SettleSteps, OfferSteps
<1>7. \A oo \in Orders : Backs(r, oo) => next.sent = req[r].sent /\ next.booked
  BY <1>3, <1>4 DEF Backs, Seller
<1> HIDE DEF next
<1> QED
  BY <1>1, <1>3, <1>4, <1>5, <1>6, <1>7, Progress DEF SettleInv, TablesOK

\* The cap table is written after both registrations.
LEMMA WriteBookKeeps ==
    ASSUME SettleInv, NEW r \in Requests, WriteBook(r)
    PROVE  SettleInv'
<1> DEFINE next == [req[r] EXCEPT !.booked = TRUE]
<1>1. /\ At(r, "write") /\ req[r].pc \in SettleSteps /\ holders' = Settled(r)
      /\ Goes(r, next, "fill") /\ UNCHANGED <<order, pages>>
  BY DEF WriteBook, At, SettleSteps
<1>2. /\ req[r] \in Request /\ req[r].order \in Orders /\ req[r].who \in Wallets
      /\ RequestOK(r) /\ Seller(r) \in Wallets /\ order[req[r].order].status # "absent"
  BY <1>1, OrderOf
<1>3. req[r].sent = {req[r].who, Seller(r)} /\ order[req[r].order].paid
  BY <1>1, <1>2 DEF RequestOK, At, AfterPayment
<1>4. /\ next \in Request /\ next.order = req[r].order /\ next.who = req[r].who
      /\ next.sent = req[r].sent /\ next.booked /\ "fill" \in Steps
  BY <1>2 DEF Request, Steps, SettleSteps
<1>5. OrdersKept /\ order' = order /\ selling' = selling
  BY <1>1, OrdersUnchanged DEF pages
<1>6. holders' \in Tables
  <2>1. SellerLeft(r) \in Nat
    BY <1>2, NoneAssumption, SellerLeftType DEF SettleInv
  <2>2. req[r].snap \in Tables /\ req[r].bps \in Nat
    BY <1>2 DEF Request
  <2> HIDE DEF next
  <2>3. \A e \in DOMAIN req[r].snap : Settled(r)[e] \in Nat
    BY <2>1, <2>2, TableEntries DEF Settled
  <2>4. Settled(r) = [e \in DOMAIN req[r].snap |-> Settled(r)[e]]
        /\ DOMAIN Settled(r) = DOMAIN req[r].snap
    BY DEF Settled
  <2> QED
    BY <1>1, <2>2, <2>3, <2>4, TableEntries
<1>7. ASSUME req'[r] = [next EXCEPT !.pc = "fill"] PROVE RequestOK(r)'
  <2>1. /\ req'[r].pc = "fill" /\ req'[r].order = req[r].order /\ req'[r].booked
        /\ req'[r].who = req[r].who /\ req'[r].sent = {req[r].who, Seller(r)}
    BY <1>2, <1>3, <1>7 DEF Request
  <2>2. Seller(r)' = Seller(r)
    BY <1>5, <2>1 DEF Seller
  <2> QED
    BY <1>2, <1>3, <1>5, <2>1, <2>2, NoneAssumption
       DEF RequestOK, At, BeforeChain, AfterPayment, SettleSteps, OfferSteps
<1> HIDE DEF next
<1> QED
  BY <1>1, <1>3, <1>4, <1>5, <1>6, <1>7, Progress DEF SettleInv, TablesOK

\* The step that fills the order: r itself backs it.
LEMMA FillKeeps ==
    ASSUME SettleInv, NEW r \in Requests, Fill(r)
    PROVE  SettleInv'
<1> DEFINE o == req[r].order
           row == [order[o] EXCEPT !.status = "filled"]
<1>1. /\ At(r, "fill") /\ req[r].pc \in SettleSteps
      /\ holders' = holders /\ selling' = selling
      /\ Goes(r, req[r], "done")
      /\ order' = [order EXCEPT ![o] = row]
  BY DEF Fill, At, SettleSteps
<1>2. /\ req[r] \in Request /\ o \in Orders /\ req[r].who \in Wallets
      /\ order[o] \in Order /\ order[o].status # "absent" /\ RequestOK(r)
  BY <1>1, OrderOf
<1>3. row \in Order /\ row.status = "filled" /\ row.seller = order[o].seller
      /\ row.paid = order[o].paid
  BY <1>2 DEF Order
<1> HIDE DEF row
<1>4. OrdersKept
  BY <1>1, <1>2, <1>3, RowKept
<1>5. \A oo \in Orders \ {o} : order'[oo] = order[oo]
  BY <1>1 DEF SettleInv, TablesOK
<1>6. order'[o] = row
  BY <1>1, <1>2 DEF SettleInv, TablesOK
<1>7. req[r].sent = {req[r].who, order'[o].seller} /\ req[r].booked /\ order'[o].paid
  BY <1>1, <1>2, <1>3, <1>6 DEF RequestOK, At, Seller, AfterPayment
<1>8. ASSUME req'[r] = [req[r] EXCEPT !.pc = "done"] PROVE RequestOK(r)'
  <2>1. req'[r].pc = "done" /\ req'[r].order = o /\ req'[r].who = req[r].who
    BY <1>2, <1>8 DEF Request
  <2> QED
    BY <1>2, <1>3, <1>6, <2>1
       DEF RequestOK, At, BeforeChain, AfterPayment, SettleSteps, OfferSteps
<1>9. "done" \in Steps
  BY DEF Steps, Ended
<1> HIDE DEF o
<1> QED
  BY <1>1, <1>2, <1>4, <1>5, <1>7, <1>8, <1>9, Progress DEF SettleInv, TablesOK, o

-----------------------------------------------------------------------------
(***************************************************************************)
(* offer-shares, sync and failures: no order is involved.                  *)
(***************************************************************************)
\* A request without an order can neither back nor break one.
LEMMA OrderlessStep ==
    ASSUME SettleInv, NEW r \in Requests, NEW next \in Request,
           req' = [req EXCEPT ![r] = next],
           order' = order, holders' \in Tables, selling' = selling,
           req[r].order = None, next.order = None,
           next.pc \in OfferSteps \cup {"syncWrite", "done", "failed"},
           next.pc \in OfferSteps => next.bps <= Whole /\ next.who \in Wallets,
           next.pc = "kyc" => next.sent = {}
    PROVE  SettleInv'
<1>1. OrdersKept
  BY OrdersUnchanged
<1>2. req'[r] = next
  BY DEF SettleInv, TablesOK
<1>3. RequestOK(r)'
  BY <1>2 DEF RequestOK, At, BeforeChain, AfterPayment, SettleSteps, OfferSteps
<1>4. \A o \in Orders : ~Backs(r, o)
  BY NoneAssumption DEF Backs
<1> QED
  BY <1>1, <1>3, <1>4, RequestStep DEF SettleInv, TablesOK

\* A request at one of those steps has no order.
LEMMA Orderless ==
    ASSUME SettleInv, NEW r \in Requests,
           req[r].pc \in OfferSteps \cup {"syncWrite", "new"}
    PROVE  /\ req[r] \in Request /\ req[r].order = None
           /\ req[r].pc \in OfferSteps => req[r].bps <= Whole /\ req[r].who \in Wallets
BY DEF SettleInv, TablesOK, RequestOK, At

\* An offer begins without an order and with less than the whole.
LEMMA OfferKeeps ==
    ASSUME SettleInv, NEW r \in Requests, NEW w \in Wallets, NEW b \in Sizes, Offer(r, w, b)
    PROVE  SettleInv'
<1> DEFINE next == [req[r] EXCEPT !.pc = "kyc", !.who = w, !.bps = b]
<1>1. /\ At(r, "new") /\ b < Whole /\ req' = [req EXCEPT ![r] = next]
      /\ order' = order /\ holders' = holders /\ selling' = selling
  BY DEF Offer, pages
<1>2. b \in Nat /\ b <= Whole
  BY <1>1, SizesAssumption
<1>3. req[r] \in Request /\ req[r].order = None /\ req[r].sent = {}
  BY <1>1, Orderless DEF SettleInv, RequestOK, At
<1>4. /\ next \in Request /\ next.order = None /\ next.pc = "kyc" /\ next.sent = {}
      /\ next.bps = b /\ next.who = w
  BY <1>2, <1>3 DEF Request, OfferSteps
<1> HIDE DEF next
<1> QED
  BY <1>1, <1>2, <1>3, <1>4, OrderlessStep DEF SettleInv, TablesOK, OfferSteps

\* The steps of a request that goes on without an order.
LEMMA OrderlessProgress ==
    ASSUME SettleInv, NEW r \in Requests, NEW next \in Request,
           NEW pc \in (OfferSteps \ {"kyc"}) \cup {"syncWrite", "done"},
           Goes(r, next, pc),
           order' = order, holders' \in Tables, selling' = selling,
           req[r].order = None, next.order = None,
           pc \in OfferSteps => next.bps <= Whole /\ next.who \in Wallets
    PROVE  SettleInv'
<1>1. pc \in Steps
  BY DEF Steps, Ended
<1>2. PICK p \in {pc, "failed"} :
          /\ [next EXCEPT !.pc = p] \in Request
          /\ req' = [req EXCEPT ![r] = [next EXCEPT !.pc = p]]
  BY <1>1, GoesTo DEF SettleInv
<1> DEFINE rec == [next EXCEPT !.pc = p]
<1>3. rec.pc = p /\ rec.order = None /\ rec.bps = next.bps /\ rec.who = next.who
  BY DEF Request
<1>4. rec \in Request /\ req' = [req EXCEPT ![r] = rec]
  BY <1>2
<1>5. /\ rec.pc \in OfferSteps \cup {"syncWrite", "done", "failed"}
      /\ rec.pc \in OfferSteps => rec.bps <= Whole /\ rec.who \in Wallets
      /\ rec.pc # "kyc"
  BY <1>3 DEF OfferSteps
<1> HIDE DEF rec
<1> QED
  BY <1>3, <1>4, <1>5, OrderlessStep

\* Every later step of an offer.
LEMMA OfferSharesKeeps ==
    ASSUME SettleInv, NEW r \in Requests, OfferShares(r)
    PROVE  SettleInv'
<1>1. CASE AwaitKyc(r)
  <2>1. req[r].pc \in OfferSteps /\ "offerIssuer" \in OfferSteps \ {"kyc"}
    BY <1>1 DEF AwaitKyc, At, OfferSteps
  <2>2. req[r] \in Request /\ req[r].order = None /\ req[r].bps <= Whole /\ req[r].who \in Wallets
    BY <2>1, Orderless
  <2> QED
    BY <1>1, <2>1, <2>2, OrderlessProgress DEF AwaitKyc, pages, SettleInv, TablesOK
<1>2. CASE OfferIssuer(r) \/ OfferInvestor(r)
  <2>1. PICK w \in {Issuer, req[r].who}, pc \in {"offerInvestor", "offerRead"} :
            /\ Goes(r, [req[r] EXCEPT !.sent = @ \cup {w}], pc)
            /\ req[r].pc \in OfferSteps
            /\ UNCHANGED <<order, holders, pages>>
            /\ pc = "offerInvestor" => w = Issuer
            /\ pc = "offerRead" => req[r].pc = "offerInvestor"
    BY <1>2 DEF OfferIssuer, OfferInvestor, Registers, At, OfferSteps
  <2>2. req[r] \in Request /\ req[r].order = None /\ req[r].bps <= Whole /\ req[r].who \in Wallets
    BY <2>1, Orderless
  <2>3. Issuer \in Wallets /\ pc \in OfferSteps \ {"kyc"}
    BY WalletsAssumption DEF OfferSteps
  <2> DEFINE next == [req[r] EXCEPT !.sent = @ \cup {w}]
  <2>4. w \in Wallets
    BY <2>2, <2>3
  <2>5. next \in Request /\ next.order = None /\ next.bps <= Whole /\ next.who \in Wallets
    BY <2>2, <2>4 DEF Request
  <2> HIDE DEF next
  <2> QED
    BY <2>1, <2>2, <2>3, <2>5, OrderlessProgress DEF pages, SettleInv, TablesOK, next
<1>3. CASE OfferRead(r)
  <2> DEFINE next == [req[r] EXCEPT !.snap = holders]
  <2>1. /\ req[r].pc \in OfferSteps /\ "offerWrite" \in OfferSteps \ {"kyc"}
        /\ Goes(r, next, "offerWrite") /\ UNCHANGED <<order, holders, pages>>
    BY <1>3 DEF OfferRead, At, OfferSteps
  <2>2. req[r] \in Request /\ req[r].order = None /\ req[r].bps <= Whole /\ req[r].who \in Wallets
    BY <2>1, Orderless
  <2>3. next \in Request /\ next.order = None /\ next.bps <= Whole /\ next.who \in Wallets
    BY <2>2 DEF Request, SettleInv, TablesOK
  <2> HIDE DEF next
  <2> QED
    BY <2>1, <2>2, <2>3, OrderlessProgress DEF pages, SettleInv, TablesOK
<1>4. CASE OfferWrite(r)
  <2> DEFINE next == [req[r] EXCEPT !.booked = TRUE]
  <2>1. /\ req[r].pc \in OfferSteps /\ holders' = Offered(r)
        /\ Goes(r, next, "done") /\ UNCHANGED <<order, pages>>
    BY <1>4 DEF OfferWrite, At, OfferSteps
  <2>2. req[r] \in Request /\ req[r].order = None /\ req[r].bps <= Whole /\ req[r].who \in Wallets
    BY <2>1, Orderless
  <2>3. next \in Request /\ next.order = None /\ next.bps <= Whole /\ next.who \in Wallets
    BY <2>2 DEF Request
  <2>4. req[r].snap \in Tables /\ req[r].bps \in Nat
    BY <2>2 DEF Request
  <2>5. Whole - req[r].bps \in Nat
    BY <2>2, <2>4, SizesAssumption
  <2>6. holders' \in Tables
    <3>1. \A e \in Wallets : req[r].snap[e] \in Nat
      BY <2>4, TableEntries
    <3>2. CASE req[r].who = Issuer
      <4>1. /\ DOMAIN Offered(r) = Wallets \cup {Twin}
            /\ Offered(r) = [e \in Wallets \cup {Twin} |-> Offered(r)[e]]
            /\ \A e \in Wallets \cup {Twin} : Offered(r)[e] \in Nat
        BY <2>4, <2>5, <3>1, <3>2 DEF Offered
      <4> QED BY <2>1, <4>1 DEF Tables
    <3>3. CASE req[r].who # Issuer
      <4>1. /\ DOMAIN Offered(r) = Wallets
            /\ Offered(r) = [e \in Wallets |-> Offered(r)[e]]
            /\ \A e \in Wallets : Offered(r)[e] \in Nat
        BY <2>4, <2>5, <3>1, <3>3 DEF Offered
      <4> QED BY <2>1, <4>1 DEF Tables
    <3> QED BY <3>2, <3>3
  <2> HIDE DEF next
  <2> QED
    BY <2>1, <2>2, <2>3, <2>6, OrderlessProgress DEF pages, OfferSteps
<1> QED
  BY <1>1, <1>2, <1>3, <1>4 DEF OfferShares

\* sync writes back a cap table it read.
LEMMA SyncKeeps ==
    ASSUME SettleInv, NEW r \in Requests, Sync(r) \/ SyncWrite(r)
    PROVE  SettleInv'
<1>1. CASE Sync(r)
  <2> DEFINE next == [req[r] EXCEPT !.pc = "syncWrite", !.snap = holders]
  <2>1. /\ req[r].pc = "new" /\ req' = [req EXCEPT ![r] = next]
        /\ order' = order /\ holders' = holders /\ selling' = selling
    BY <1>1 DEF Sync, pages, At
  <2>2. req[r] \in Request /\ req[r].order = None
    BY <2>1, Orderless
  <2>3. next \in Request /\ next.order = None /\ next.pc = "syncWrite"
    BY <2>2 DEF Request, SettleInv, TablesOK
  <2> HIDE DEF next
  <2> QED
    BY <2>1, <2>2, <2>3, OrderlessStep DEF SettleInv, TablesOK, OfferSteps
<1>2. CASE SyncWrite(r)
  <2>1. /\ req[r].pc = "syncWrite" /\ holders' = req[r].snap
        /\ Goes(r, req[r], "done") /\ UNCHANGED <<order, pages>>
    BY <1>2 DEF SyncWrite, At
  <2>2. req[r] \in Request /\ req[r].order = None
    BY <2>1, Orderless
  <2>3. holders' \in Tables
    BY <2>1, <2>2 DEF Request
  <2> QED
    BY <2>1, <2>2, <2>3, OrderlessProgress DEF pages, OfferSteps
<1> QED
  BY <1>1, <1>2

\* A dead request keeps its order and what it had sent and booked.
LEMMA FailKeeps ==
    ASSUME SettleInv, NEW r \in Requests, Fail(r)
    PROVE  SettleInv'
<1>1. /\ req' = [req EXCEPT ![r].pc = "failed"]
      /\ UNCHANGED <<order, holders, pages>>
  BY DEF Fail
<1>2. req[r] \in Request /\ "failed" \in Steps
  BY DEF SettleInv, TablesOK, Steps, Ended
<1>3. Goes(r, req[r], "failed")
  BY <1>1, <1>2 DEF Goes, SettleInv, TablesOK
<1>4. ASSUME req'[r] = [req[r] EXCEPT !.pc = "failed"] PROVE RequestOK(r)'
  BY <1>1, <1>2, <1>4 DEF SettleInv, RequestOK, At, BeforeChain, AfterPayment, SettleSteps,
     OfferSteps, Request
<1> QED
  BY <1>1, <1>2, <1>3, <1>4, QuietStep

-----------------------------------------------------------------------------
(***************************************************************************)
(* The pages.                                                              *)
(***************************************************************************)
LEMMA PagesKeep ==
    ASSUME SettleInv, NEW w \in Wallets,
           \/ LoadPage(w) \/ ListingFails(w)
           \/ \E b \in Sizes : Sell(w, b) \/ SellFromAssetPage(b)
    PROVE  SettleInv'
<1>1. order' = order /\ req' = req /\ holders' = holders
  BY DEF LoadPage, ListingFails, Sell, SellFromAssetPage
<1>2. \/ selling' = selling
      \/ \E x \in Wallets, n \in Nat : selling' = [selling EXCEPT ![x] = n]
  <2>1. CASE LoadPage(w)
    BY <2>1 DEF LoadPage
  <2>2. CASE ListingFails(w)
    BY <2>2 DEF ListingFails
  <2>3. CASE \E b \in Sizes : Sell(w, b) \/ SellFromAssetPage(b)
    <3>1. PICK b \in Sizes : Sell(w, b) \/ SellFromAssetPage(b)
      BY <2>3
    <3>2. \E x \in Wallets : selling' = [selling EXCEPT ![x] = b]
      BY <3>1, WalletsAssumption DEF Sell, SellFromAssetPage
    <3> QED BY <3>2, SizesAssumption
  <2> QED BY <2>1, <2>2, <2>3
<1>3. selling' \in [Wallets -> Nat]
  BY <1>2 DEF SettleInv, TablesOK
<1> QED
  BY <1>1, <1>3, OrdersUnchanged, PageStep

\* A new row: open, so neither filled nor paid for.
LEMMA CreateOrderKeeps ==
    ASSUME SettleInv, NEW w \in Wallets, NEW o \in Orders, CreateOrder(w, o)
    PROVE  SettleInv'
<1> DEFINE row == [NoOrder EXCEPT !.status = "open", !.seller = w, !.bps = selling[w]]
<1>1. /\ order[o].status = "absent" /\ order' = [order EXCEPT ![o] = row]
      /\ req' = req /\ holders' = holders /\ selling' = [selling EXCEPT ![w] = 0]
  BY DEF CreateOrder, NoOrder
<1>2. row \in Order /\ row.status = "open" /\ row.seller = w
  BY DEF Order, NoOrder, SettleInv, TablesOK
<1> HIDE DEF row
<1>3. OrdersKept /\ \A oo \in Orders : order'[oo].status = "filled" => order[oo].status = "filled"
  BY <1>1, <1>2 DEF SettleInv, TablesOK, OrdersKept
<1> QED
  BY <1>1, <1>3, PageStep DEF SettleInv, TablesOK

\* A cancelled order is not filled, and keeps its payment.
LEMMA CancelKeeps ==
    ASSUME SettleInv, NEW o \in Orders, Cancel(o)
    PROVE  SettleInv'
<1> DEFINE row == [order[o] EXCEPT !.status = "cancelled"]
<1>1. /\ order[o].status # "absent" /\ order' = [order EXCEPT ![o] = row]
      /\ req' = req /\ holders' = holders /\ selling' = selling
  BY DEF Cancel, pages
<1>2. order[o] \in Order
  BY DEF SettleInv, TablesOK
<1>3. row \in Order /\ row.status = "cancelled" /\ row.seller = order[o].seller
      /\ row.paid = order[o].paid
  BY <1>2 DEF Order
<1> HIDE DEF row
<1>4. OrdersKept
  BY <1>1, <1>3, RowKept
<1>5. \A oo \in Orders : order'[oo].status = "filled" => order[oo].status = "filled"
  BY <1>1, <1>3 DEF SettleInv, TablesOK
<1> QED
  BY <1>1, <1>4, <1>5, PageStep DEF SettleInv, TablesOK

-----------------------------------------------------------------------------
\* The invariant is inductive.
LEMMA SettleStep == SettleInv /\ [Next]_vars => SettleInv'
<1> SUFFICES ASSUME SettleInv, [Next]_vars PROVE SettleInv'
  OBVIOUS
<1>1. ASSUME NEW r \in Requests, Settle(r) PROVE SettleInv'
  BY <1>1, PaysKeeps, ReadOrderKeeps, RecordBuyerKeeps, RecordPaymentKeeps, ReadBookKeeps,
     RegisterBuyerKeeps, RegisterSellerKeeps, WriteBookKeeps, FillKeeps DEF Settle
<1>2. ASSUME NEW r \in Requests, NEW w \in Wallets, NEW o \in Orders, Buy(r, w, o)
      PROVE  SettleInv'
  BY <1>2, BuyKeeps
<1>3. ASSUME NEW r \in Requests, NEW w \in Wallets, NEW b \in Sizes, Offer(r, w, b)
      PROVE  SettleInv'
  BY <1>3, OfferKeeps
<1>4. ASSUME NEW r \in Requests,
             OfferShares(r) \/ Sync(r) \/ SyncWrite(r) \/ Fail(r)
      PROVE  SettleInv'
  BY <1>4, OfferSharesKeeps, SyncKeeps, FailKeeps
<1>5. ASSUME NEW w \in Wallets, LoadPage(w) \/ ListingFails(w) PROVE SettleInv'
  BY <1>5, PagesKeep
<1>6. ASSUME NEW w \in Wallets, NEW b \in Sizes, Sell(w, b) \/ SellFromAssetPage(b)
      PROVE  SettleInv'
  BY <1>6, PagesKeep
<1>7. ASSUME NEW w \in Wallets, NEW o \in Orders, CreateOrder(w, o) PROVE SettleInv'
  BY <1>7, CreateOrderKeeps
<1>8. ASSUME NEW o \in Orders, Cancel(o) PROVE SettleInv'
  BY <1>8, CancelKeeps
<1>9. ASSUME UNCHANGED vars PROVE SettleInv'
  BY <1>9, OrdersUnchanged, PageStep DEF vars, SettleInv, TablesOK
<1> QED
  BY <1>1, <1>2, <1>3, <1>4, <1>5, <1>6, <1>7, <1>8, <1>9, WalletsAssumption DEF Next

\* However requests overlap and wherever they fail, no weight moves on the chain
\* for an order that has no payment on record (settle-trade, lines 52-72).
THEOREM SettlementPaid == Spec => []PaidBeforeRegistered
<1>1. SettleInv => PaidBeforeRegistered
  BY DEF SettleInv
<1> QED
  BY SettleInit, SettleStep, <1>1, PTL DEF Spec

\* A filled order always has one request that alone did the whole settlement:
\* both registrations accepted, the cap table written (settle-trade, 52-92).
THEOREM FilledBacked == Spec => []FilledIsBacked
<1>1. SettleInv => FilledIsBacked
  BY DEF SettleInv
<1> QED
  BY SettleInit, SettleStep, <1>1, PTL DEF Spec

-----------------------------------------------------------------------------
(***************************************************************************)
(* What a calm market keeps, proved for any number of wallets, orders and  *)
(* requests: the buyer of record, a cap table that adds up and covers what *)
(* is on offer, and no trade lost or counted twice.                        *)
(*                                                                         *)
(* `calm' says that none of the disturbances has happened that really do   *)
(* spoil the cap table (Market.tla names them).  What is left: failures    *)
(* and lost answers at every await but one, cancellations at any moment,   *)
(* requests that repeat what failed, listings and offers.                  *)
(*                                                                         *)
(* The properties are not inductive.  The invariant adds that one request  *)
(* is in flight, that what it has read is still so (Follows), and that the *)
(* shares it is about to move are there, also when the order it settles is *)
(* cancelled meanwhile and its seller may offer them again (Secured).      *)
(***************************************************************************)

\* From the look at the status on: the order was open then.
Chosen == {"agentPay", "buyer", "payment", "book", "regBuyer", "regSeller", "write", "fill"}

\* The buyer is on record.
AfterBuyer == {"payment", "book", "regBuyer", "regSeller", "write", "fill"}

\* The request holds the cap table it has read.
WithBook == {"regBuyer", "regSeller", "write", "offerWrite", "syncWrite"}

OneInFlight == \A r, s \in Requests : InFlight(r) /\ InFlight(s) => r = s

\* What a request in flight relies on.
Follows(r) ==
    /\ req[r].pc \in ({"new"} \cup SettleSteps \cup OfferSteps \cup {"syncWrite"}) \ {"fill"}
          => ~req[r].booked
    /\ req[r].pc \in WithBook => req[r].snap = holders
    /\ req[r].pc \in SettleSteps => /\ req[r].bps = order[req[r].order].bps
                                    /\ req[r].who # Seller(r)
    /\ req[r].pc \in Chosen => order[req[r].order].status \in {"open", "cancelled"}
    /\ req[r].pc \in AfterBuyer => order[req[r].order].buyer = req[r].who

\* The shares that a request in flight will move are there.
Secured(r) ==
    /\ req[r].pc \in Chosen \ {"fill"} /\ order[req[r].order].status = "cancelled"
          => Owed(Seller(r)) + req[r].bps <= holders[Seller(r)]
    /\ req[r].pc \in OfferSteps =>
          /\ req[r].who # Issuer
          /\ \A v \in Wallets : IF v \in {Issuer, req[r].who} THEN Owed(v) = 0 ELSE holders[v] = 0

\* The parts of the properties that a calm market has.
BuyersKnown ==
    \A o \in Orders : order[o].status = "filled" =>
        \E r \in Requests : req[r].order = o /\ req[r].booked /\ req[r].who = order[o].buyer

AddsUp ==
    /\ holders \in [Wallets -> Nat]      \* one entry each
    /\ SumFunction(holders) = Whole
    /\ \A w \in Wallets : Owed(w) <= holders[w]

\* The purchases of a wallet, or from it, among the requests.
Bought(w) == {r \in Booked : req[r].who = w}
Sold(w) == {r \in Booked : Seller(r) = w}

Balanced ==
    (\A r \in Booked : req[r].order # None) =>
        \A w \in Wallets : holders[w] + Moved(Sold(w))
                             = (IF w = Issuer THEN Whole ELSE 0) + Moved(Bought(w))

\* All of it.
Well == /\ OneInFlight
        /\ \A r \in Requests : Follows(r) /\ Secured(r)
        /\ BuyersKnown /\ AddsUp /\ Balanced

CalmInv == calm => Well

-----------------------------------------------------------------------------
(***************************************************************************)
(* The sums.                                                               *)
(***************************************************************************)
\* What a wallet has on offer is a sum of natural numbers.
LEMMA OwedType ==
    ASSUME SettleInv, NEW w \in Wallets
    PROVE  /\ OnOffer(w) \subseteq Orders /\ IsFiniteSet(OnOffer(w))
           /\ \A o \in OnOffer(w) : [x \in Orders |-> order[x].bps][o] = order[o].bps
                                    /\ order[o].bps \in Nat
           /\ Bps(OnOffer(w)) \in Nat
           /\ Owed(w) \in Nat
           /\ \A o \in OnOffer(w) : order[o].bps <= Owed(w)
<1> DEFINE f == [x \in Orders |-> order[x].bps]
<1>1. OnOffer(w) \subseteq Orders /\ IsFiniteSet(OnOffer(w))
  BY BoundsAssumption, FS_Subset DEF OnOffer, OpenOrders
<1>2. \A o \in OnOffer(w) : f[o] = order[o].bps /\ f[o] \in Nat
  BY <1>1 DEF SettleInv, TablesOK, Order
<1> HIDE DEF f
<1>3. SumFunctionOnSet(f, OnOffer(w)) \in Int /\ SumFunctionOnSet(f, OnOffer(w)) >= 0
  <2>1. \A o \in OnOffer(w) : f[o] \in Int /\ f[o] >= 0
    BY <1>2
  <2> QED BY <1>1, <2>1, SumType
<1>4. \A o \in OnOffer(w) : f[o] <= SumFunctionOnSet(f, OnOffer(w))
  BY <1>1, <1>2, SumCovers
<1>5. Bps(OnOffer(w)) = SumFunctionOnSet(f, OnOffer(w))
  BY DEF Bps, f
<1>6. selling[w] \in Nat
  BY DEF SettleInv, TablesOK
<1>7. Owed(w) \in Nat /\ \A o \in OnOffer(w) : order[o].bps <= Owed(w)
  BY <1>2, <1>3, <1>4, <1>5, <1>6 DEF Owed
<1> QED BY <1>1, <1>2, <1>3, <1>5, <1>7 DEF f

\* The same orders on offer, with the same sizes, add up to the same.
LEMMA BpsSame ==
    ASSUME SettleInv, NEW w \in Wallets,
           OnOffer(w)' = OnOffer(w),
           \A o \in OnOffer(w) : order'[o].bps = order[o].bps
    PROVE  Bps(OnOffer(w))' = Bps(OnOffer(w))
<1> DEFINE f == [x \in Orders |-> order[x].bps]
           g == [x \in Orders |-> order'[x].bps]
<1>1. IsFiniteSet(OnOffer(w)) /\ OnOffer(w) \subseteq Orders
  BY OwedType
<1>2. \A o \in OnOffer(w) : f[o] = g[o]
  BY <1>1
<1>3. Bps(OnOffer(w)) = SumFunctionOnSet(f, OnOffer(w))
  BY DEF Bps
<1>4. Bps(OnOffer(w))' = SumFunctionOnSet(g, OnOffer(w))
  BY DEF Bps
<1> HIDE DEF f, g
<1> QED BY <1>1, <1>2, <1>3, <1>4, SumOfSame

\* Nothing about the offers changes as long as no request enters or leaves `fill'.
LEMMA OwedSame ==
    ASSUME SettleInv, selling' = selling,
           \A o \in Orders : /\ order'[o].status = order[o].status
                             /\ order'[o].seller = order[o].seller
                             /\ order'[o].bps = order[o].bps,
           NEW r \in Requests, NEW rec \in Request, req' = [req EXCEPT ![r] = rec],
           req[r].pc # "fill", rec.pc # "fill",
           NEW w \in Wallets
    PROVE  Owed(w)' = Owed(w)
<1>1. \A s \in Requests : req'[s] = IF s = r THEN rec ELSE req[s]
  BY DEF SettleInv, TablesOK
<1>2. OnOffer(w)' = OnOffer(w)
  BY <1>1 DEF OnOffer, OpenOrders
<1>3. Bps(OnOffer(w))' = Bps(OnOffer(w))
  <2>1. \A o \in OnOffer(w) : order'[o].bps = order[o].bps
    BY OwedType
  <2> QED BY <1>2, <2>1, BpsSame
<1> QED BY <1>3 DEF Owed

\* What some requests bought is a sum of natural numbers.
LEMMA MovedType ==
    ASSUME SettleInv, NEW R \in SUBSET Requests
    PROVE  /\ IsFiniteSet(R)
           /\ \A r \in R : [x \in Requests |-> req[x].bps][r] = req[r].bps
                           /\ req[r].bps \in Nat
           /\ Moved(R) \in Nat
<1> DEFINE f == [x \in Requests |-> req[x].bps]
<1>1. IsFiniteSet(R)
  BY BoundsAssumption, FS_Subset
<1>2. \A r \in R : f[r] = req[r].bps /\ f[r] \in Nat
  BY DEF SettleInv, TablesOK, Request
<1> HIDE DEF f
<1>3. \A r \in R : f[r] \in Int /\ f[r] >= 0
  BY <1>2
<1>4. SumFunctionOnSet(f, R) \in Int /\ SumFunctionOnSet(f, R) >= 0
  BY <1>1, <1>3, SumType
<1> QED BY <1>1, <1>2, <1>4 DEF f, Moved

\* It stays as long as those requests keep their sizes.
LEMMA MovedSame ==
    ASSUME SettleInv, NEW R \in SUBSET Requests, \A r \in R : req'[r].bps = req[r].bps
    PROVE  SumFunctionOnSet([x \in Requests |-> req'[x].bps], R) = Moved(R)
<1> DEFINE f == [x \in Requests |-> req[x].bps]
           g == [x \in Requests |-> req'[x].bps]
<1>1. \A r \in R : f[r] = g[r]
  OBVIOUS
<1>2. Moved(R) = SumFunctionOnSet(f, R)
  BY DEF Moved
<1> HIDE DEF f, g
<1>3. SumFunctionOnSet(g, R) = Moved(R)
  BY <1>1, <1>2, MovedType, SumOfSame
<1> QED BY <1>3 DEF g

\* The balance is that of the same purchases.
LEMMA BalancedFrame ==
    ASSUME SettleInv, Balanced, holders' = holders,
           \A r \in Requests : /\ req'[r].booked = req[r].booked
                               /\ req[r].booked => /\ req'[r].order = req[r].order
                                                   /\ req'[r].who = req[r].who
                                                   /\ req'[r].bps = req[r].bps,
           \A o \in Orders : order[o].status # "absent" => order'[o].seller = order[o].seller
    PROVE  Balanced'
<1> SUFFICES ASSUME \A r \in Booked' : req'[r].order # None, NEW w \in Wallets
             PROVE  holders'[w] + Moved(Sold(w))'
                      = (IF w = Issuer THEN Whole ELSE 0) + Moved(Bought(w))'
  BY DEF Balanced
<1>1. Booked' = Booked /\ \A r \in Booked : req[r].order # None
  BY DEF Booked
<1>2. \A r \in Booked : Seller(r)' = Seller(r)
  <2> TAKE r \in Booked
  <2>1. r \in Requests /\ req[r].booked /\ req'[r].order = req[r].order
    BY DEF Booked
  <2>2. req[r].order \in Orders /\ order[req[r].order].status # "absent"
    BY <1>1, <2>1 DEF SettleInv, TablesOK, Request, RequestOK
  <2> QED BY <2>1, <2>2 DEF Seller
<1>3. Sold(w)' = Sold(w) /\ Bought(w)' = Bought(w)
  BY <1>1, <1>2 DEF Sold, Bought, Booked
<1>4. /\ Sold(w) \subseteq Requests /\ Bought(w) \subseteq Requests
      /\ \A r \in Sold(w) \cup Bought(w) : req'[r].bps = req[r].bps
  BY DEF Sold, Bought, Booked
<1>5. Moved(Sold(w))' = Moved(Sold(w))
  <2>1. Moved(Sold(w))' = SumFunctionOnSet([x \in Requests |-> req'[x].bps], Sold(w))
    BY <1>3 DEF Moved
  <2> QED BY <1>4, <2>1, MovedSame
<1>6. Moved(Bought(w))' = Moved(Bought(w))
  <2>1. Moved(Bought(w))' = SumFunctionOnSet([x \in Requests |-> req'[x].bps], Bought(w))
    BY <1>3 DEF Moved
  <2> QED BY <1>4, <2>1, MovedSame
<1> QED BY <1>1, <1>5, <1>6 DEF Balanced

-----------------------------------------------------------------------------
(***************************************************************************)
(* Steps of a request, in a calm market the only one in flight.            *)
(***************************************************************************)
\* The other requests are at rest and stay so.
LEMMA OthersRest ==
    ASSUME SettleInv, Well, NEW r \in Requests, InFlight(r) \/ Alone,
           NEW rec \in Request, req' = [req EXCEPT ![r] = rec]
    PROVE  /\ req'[r] = rec
           /\ \A s \in Requests \ {r} : req'[s] = req[s] /\ req[s].pc \in Ended
           /\ OneInFlight'
           /\ \A s \in Requests \ {r} : Follows(s)' /\ Secured(s)'
<1>1. req'[r] = rec /\ \A s \in Requests \ {r} : req'[s] = req[s]
  BY DEF SettleInv, TablesOK
<1>2. \A s \in Requests \ {r} : req[s].pc \in Ended
  BY DEF Well, OneInFlight, InFlight, Alone
<1>3. OneInFlight'
  BY <1>1, <1>2 DEF OneInFlight, InFlight
<1>4. ASSUME NEW s \in Requests \ {r} PROVE Follows(s)' /\ Secured(s)'
  <2>1. req'[s] = req[s] /\ req[s].pc \in Ended /\ Follows(s)
    BY <1>1, <1>2 DEF Well
  <2>2. Follows(s)'
    BY <2>1 DEF Follows, Ended, SettleSteps, OfferSteps, WithBook, Chosen, AfterBuyer
  <2>3. Secured(s)'
    BY <2>1 DEF Secured, Ended, OfferSteps, Chosen
  <2> QED BY <2>2, <2>3
<1> QED BY <1>1, <1>2, <1>3, <1>4

\* The buyers of filled orders stay known as long as booked requests and filled
\* orders keep what they say.
LEMMA BuyersFrame ==
    ASSUME BuyersKnown,
           \A r \in Requests : req[r].booked => /\ req'[r].booked
                                                /\ req'[r].order = req[r].order
                                                /\ req'[r].who = req[r].who,
           \A o \in Orders : order'[o].status = "filled" =>
               order[o].status = "filled" /\ order'[o].buyer = order[o].buyer
    PROVE  BuyersKnown'
<1> SUFFICES ASSUME NEW o \in Orders, order'[o].status = "filled"
             PROVE  \E r \in Requests : /\ req'[r].order = o /\ req'[r].booked
                                        /\ req'[r].who = order'[o].buyer
  BY DEF BuyersKnown
<1>1. PICK r \in Requests : req[r].order = o /\ req[r].booked /\ req[r].who = order[o].buyer
  BY DEF BuyersKnown
<1> QED BY <1>1

\* A step that moves no shares and neither begins nor ends the last step `fill'.
LEMMA QuietCalm ==
    ASSUME SettleInv, Well, NEW r \in Requests, InFlight(r) \/ Alone,
           NEW rec \in Request, req' = [req EXCEPT ![r] = rec],
           req[r].pc # "fill", rec.pc # "fill",
           holders' = holders, selling' = selling, OrdersKept,
           \A o \in Orders : /\ order'[o].status = order[o].status
                             /\ order'[o].seller = order[o].seller
                             /\ order'[o].bps = order[o].bps
                             /\ order[o].status = "filled" => order'[o].buyer = order[o].buyer,
           rec.booked = req[r].booked,
           req[r].booked => /\ rec.order = req[r].order /\ rec.who = req[r].who
                            /\ rec.bps = req[r].bps,
           Follows(r)',
           rec.pc \in Chosen => rec.order \in Orders,
           rec.pc \in Chosen /\ order[rec.order].status = "cancelled" =>
               /\ order[rec.order].seller \in Wallets
               /\ Owed(order[rec.order].seller) + rec.bps <= holders[order[rec.order].seller],
           rec.pc \in OfferSteps =>
               /\ rec.who # Issuer
               /\ \A v \in Wallets :
                      IF v \in {Issuer, rec.who} THEN Owed(v) = 0 ELSE holders[v] = 0
    PROVE  Well'
<1>1. /\ req'[r] = rec
      /\ \A s \in Requests \ {r} : req'[s] = req[s]
      /\ OneInFlight'
      /\ \A s \in Requests \ {r} : Follows(s)' /\ Secured(s)'
  BY OthersRest
<1>2. \A w \in Wallets : Owed(w)' = Owed(w)
  BY OwedSame
<1>3. Secured(r)'
  <2>1. ASSUME rec.pc \in Chosen \ {"fill"}, order'[rec.order].status = "cancelled"
        PROVE  Owed(Seller(r))' + rec.bps <= holders[Seller(r)']
    <3>1. rec.order \in Orders
      BY <2>1
    <3>2. Seller(r)' = order[rec.order].seller /\ order[rec.order].status = "cancelled"
      BY <1>1, <2>1, <3>1 DEF Seller
    <3>3. order[rec.order].seller \in Wallets
      BY <2>1, <3>2
    <3>4. Owed(Seller(r))' = Owed(order[rec.order].seller)
      BY <1>2, <3>2, <3>3
    <3> QED BY <2>1, <3>2, <3>4
  <2>2. rec.pc \in OfferSteps =>
            \A v \in Wallets : IF v \in {Issuer, rec.who} THEN Owed(v)' = 0 ELSE holders'[v] = 0
    BY <1>2
  <2> QED BY <1>1, <2>1, <2>2 DEF Secured
<1>4. \A s \in Requests : /\ req'[s].booked = req[s].booked
                          /\ req[s].booked => /\ req'[s].order = req[s].order
                                              /\ req'[s].who = req[s].who
                                              /\ req'[s].bps = req[s].bps
  BY <1>1
<1>5. BuyersKnown'
  BY <1>4, BuyersFrame DEF Well
<1>6. AddsUp'
  BY <1>2 DEF Well, AddsUp
<1>7. Balanced'
  BY <1>4, BalancedFrame DEF Well
<1> QED BY <1>1, <1>3, <1>5, <1>6, <1>7 DEF Well

\* A step of a request that goes on to pc, or dies, without moving shares.
LEMMA GoesCalm ==
    ASSUME SettleInv, Well, NEW r \in Requests, InFlight(r),
           NEW next \in Request, NEW pc \in Steps, Goes(r, next, pc),
           req[r].pc # "fill", pc \notin {"new", "fill"},
           holders' = holders, selling' = selling, OrdersKept,
           \A o \in Orders : /\ order'[o].status = order[o].status
                             /\ order'[o].seller = order[o].seller
                             /\ order'[o].bps = order[o].bps
                             /\ order[o].status = "filled" => order'[o].buyer = order[o].buyer,
           next.order = req[r].order, next.who = req[r].who, next.bps = req[r].bps,
           next.booked = req[r].booked,
           pc \in WithBook => next.snap = holders,
           pc \in SettleSteps => req[r].pc \in SettleSteps,
           pc \in Chosen => req[r].pc \in Chosen \/ order[req[r].order].status = "open",
           pc \in AfterBuyer => order'[req[r].order].buyer = req[r].who,
           pc \in OfferSteps => req[r].pc \in OfferSteps
    PROVE  Well'
<1>1. PICK p \in {pc, "failed"} :
          /\ [next EXCEPT !.pc = p] \in Request
          /\ req' = [req EXCEPT ![r] = [next EXCEPT !.pc = p]]
  BY GoesTo DEF SettleInv
<1> DEFINE rec == [next EXCEPT !.pc = p]
<1>2. /\ rec \in Request /\ req' = [req EXCEPT ![r] = rec]
      /\ rec.pc = p /\ rec.order = req[r].order /\ rec.who = req[r].who
      /\ rec.bps = req[r].bps /\ rec.booked = req[r].booked /\ rec.snap = next.snap
  BY <1>1 DEF Request
<1> HIDE DEF rec
<1>3. req[r] \in Request /\ Follows(r) /\ Secured(r) /\ RequestOK(r)
  BY DEF SettleInv, TablesOK, Well
<1>4. req[r].pc \in (SettleSteps \cup OfferSteps \cup {"syncWrite"}) \ {"fill"}
  BY <1>3 DEF Request, InFlight, Ended
<1>5. ~req[r].booked
  BY <1>3, <1>4 DEF Follows
<1>6. "failed" \notin WithBook \cup SettleSteps \cup Chosen \cup AfterBuyer \cup OfferSteps
      /\ Chosen \subseteq SettleSteps
  BY DEF WithBook, SettleSteps, Chosen, AfterBuyer, OfferSteps
<1>7. req'[r] = rec
  BY <1>2 DEF SettleInv, TablesOK
<1>8. req[r].pc \in SettleSteps => /\ req[r].order \in Orders /\ Seller(r) \in Wallets
  BY OrderOf
<1>9. Follows(r)'
  <2>1. rec.pc \in WithBook => rec.snap = holders'
    BY <1>2, <1>6
  <2>2. rec.pc \in SettleSteps => rec.bps = order'[rec.order].bps /\ rec.who # order'[rec.order].seller
    BY <1>2, <1>3, <1>6, <1>8 DEF Follows, Seller
  <2>3. rec.pc \in Chosen => order'[rec.order].status \in {"open", "cancelled"}
    BY <1>2, <1>3, <1>6, <1>8 DEF Follows
  <2>4. rec.pc \in AfterBuyer => order'[rec.order].buyer = rec.who
    BY <1>2, <1>6
  <2> QED BY <1>2, <1>5, <1>7, <2>1, <2>2, <2>3, <2>4 DEF Follows, Seller
<1>10. rec.pc \in Chosen => rec.order \in Orders
  BY <1>2, <1>6, <1>8
<1>11. rec.pc \in Chosen /\ order[rec.order].status = "cancelled" =>
               /\ order[rec.order].seller \in Wallets
               /\ Owed(order[rec.order].seller) + rec.bps <= holders[order[rec.order].seller]
  BY <1>2, <1>3, <1>6, <1>8 DEF Secured, Seller
<1>12. rec.pc \in OfferSteps =>
               /\ rec.who # Issuer
               /\ \A v \in Wallets :
                      IF v \in {Issuer, rec.who} THEN Owed(v) = 0 ELSE holders[v] = 0
  BY <1>2, <1>3, <1>6 DEF Secured
<1>13. rec.pc # "fill"
  BY <1>2
<1> QED BY <1>2, <1>9, <1>10, <1>11, <1>12, <1>13, QuietCalm

\* The same where the table of orders stays as it is.
LEMMA GoesCalmly ==
    ASSUME SettleInv, Well, NEW r \in Requests, InFlight(r),
           NEW next \in Request, NEW pc \in Steps, Goes(r, next, pc),
           req[r].pc # "fill", pc \notin {"new", "fill"},
           holders' = holders, selling' = selling, order' = order,
           next.order = req[r].order, next.who = req[r].who, next.bps = req[r].bps,
           next.booked = req[r].booked,
           pc \in WithBook => next.snap = holders,
           pc \in SettleSteps => req[r].pc \in SettleSteps,
           pc \in Chosen => req[r].pc \in Chosen \/ order[req[r].order].status = "open",
           pc \in AfterBuyer => req[r].pc \in AfterBuyer,
           pc \in OfferSteps => req[r].pc \in OfferSteps
    PROVE  Well'
<1>1. OrdersKept
  BY OrdersUnchanged
<1>2. pc \in AfterBuyer => order'[req[r].order].buyer = req[r].who
  BY DEF Well, Follows
<1> QED BY <1>1, <1>2, GoesCalm

\* The steps of a settlement that only read or only talk to the chain.
LEMMA SettleTalks ==
    ASSUME SettleInv, Well, NEW r \in Requests,
           \/ Pay(r) \/ AgentPay(r) \/ ReadOrder(r) \/ ReadBook(r)
           \/ RegisterBuyer(r) \/ RegisterSeller(r)
    PROVE  Well'
<1>1. req[r] \in Request /\ holders \in Tables
  BY DEF SettleInv, TablesOK
<1>2. CASE Pay(r) \/ AgentPay(r)
  <2>1. PICK pc \in {"read", "buyer"} :
            /\ Goes(r, [req[r] EXCEPT !.paid = TRUE], pc)
            /\ \/ pc = "read" /\ req[r].pc = "pay"
               \/ pc = "buyer" /\ req[r].pc = "agentPay"
            /\ UNCHANGED <<order, holders, selling>>
    BY <1>2 DEF Pay, AgentPay, Pays, At, pages
  <2> DEFINE next == [req[r] EXCEPT !.paid = TRUE]
  <2>2. /\ next \in Request /\ next.order = req[r].order /\ next.who = req[r].who
        /\ next.bps = req[r].bps /\ next.booked = req[r].booked
    BY <1>1 DEF Request
  <2>3. Goes(r, next, pc)
    BY <2>1
  <2> HIDE DEF next
  <2> QED
    BY <2>1, <2>2, <2>3, GoesCalmly DEF InFlight, Ended, Steps, SettleSteps, WithBook, Chosen,
       AfterBuyer, OfferSteps
<1>3. CASE ReadOrder(r)
  <2>1. PICK pc \in {"refused", "buyer", "agentPay"} :
            /\ Goes(r, req[r], pc) /\ req[r].pc = "read"
            /\ pc # "refused" => order[req[r].order].status = "open"
            /\ UNCHANGED <<order, holders, selling>>
    BY <1>3 DEF ReadOrder, At, pages
  <2> QED
    BY <1>1, <2>1, GoesCalmly DEF InFlight, Ended, Steps, SettleSteps, WithBook, Chosen,
       AfterBuyer, OfferSteps
<1>4. CASE ReadBook(r)
  <2> DEFINE next == [req[r] EXCEPT !.snap = holders]
  <2>1. /\ Goes(r, next, "regBuyer") /\ req[r].pc = "book"
        /\ UNCHANGED <<order, holders, selling>>
    BY <1>4 DEF ReadBook, At, pages
  <2>2. /\ next \in Request /\ next.order = req[r].order /\ next.who = req[r].who
        /\ next.bps = req[r].bps /\ next.booked = req[r].booked /\ next.snap = holders
    BY <1>1 DEF Request
  <2> HIDE DEF next
  <2> QED
    BY <2>1, <2>2, GoesCalmly DEF InFlight, Ended, Steps, SettleSteps, WithBook, Chosen,
       AfterBuyer, OfferSteps
<1>5. CASE RegisterBuyer(r) \/ RegisterSeller(r)
  <2>1. PICK w \in {req[r].who, Seller(r)}, pc \in {"regSeller", "write"} :
            /\ Goes(r, [req[r] EXCEPT !.sent = @ \cup {w}], pc)
            /\ \/ pc = "regSeller" /\ req[r].pc = "regBuyer"
               \/ pc = "write" /\ req[r].pc = "regSeller"
            /\ UNCHANGED <<order, holders, selling>>
    BY <1>5 DEF RegisterBuyer, RegisterSeller, Registers, At, pages
  <2> DEFINE next == [req[r] EXCEPT !.sent = @ \cup {w}]
  <2>2. w \in Wallets /\ req[r].snap = holders
    <3>1. req[r].pc \in SettleSteps /\ req[r].pc \in WithBook
      BY <2>1 DEF SettleSteps, WithBook
    <3> QED BY <3>1, OrderOf DEF Well, Follows
  <2>3. /\ next \in Request /\ next.order = req[r].order /\ next.who = req[r].who
        /\ next.bps = req[r].bps /\ next.booked = req[r].booked /\ next.snap = holders
    BY <1>1, <2>2 DEF Request
  <2>4. Goes(r, next, pc)
    BY <2>1
  <2> HIDE DEF next
  <2> QED
    BY <2>1, <2>3, <2>4, GoesCalmly DEF InFlight, Ended, Steps, SettleSteps, WithBook, Chosen,
       AfterBuyer, OfferSteps
<1> QED BY <1>2, <1>3, <1>4, <1>5

\* The steps of an offer before its last, and a sync that writes back what it read.
LEMMA OfferTalks ==
    ASSUME SettleInv, Well, NEW r \in Requests,
           \/ AwaitKyc(r) \/ OfferIssuer(r) \/ OfferInvestor(r) \/ OfferRead(r) \/ SyncWrite(r)
    PROVE  Well'
<1>1. req[r] \in Request /\ holders \in Tables
  BY DEF SettleInv, TablesOK
<1>2. CASE AwaitKyc(r)
  <2>1. /\ Goes(r, req[r], "offerIssuer") /\ req[r].pc = "kyc"
        /\ UNCHANGED <<order, holders, selling>>
    BY <1>2 DEF AwaitKyc, At, pages
  <2> QED
    BY <1>1, <2>1, GoesCalmly DEF InFlight, Ended, Steps, SettleSteps, WithBook, Chosen,
       AfterBuyer, OfferSteps
<1>3. CASE OfferIssuer(r) \/ OfferInvestor(r)
  <2>1. PICK w \in {req[r].who, Issuer}, pc \in {"offerInvestor", "offerRead"} :
            /\ Goes(r, [req[r] EXCEPT !.sent = @ \cup {w}], pc)
            /\ \/ pc = "offerInvestor" /\ req[r].pc = "offerIssuer"
               \/ pc = "offerRead" /\ req[r].pc = "offerInvestor"
            /\ UNCHANGED <<order, holders, selling>>
    BY <1>3 DEF OfferIssuer, OfferInvestor, Registers, At, pages
  <2> DEFINE next == [req[r] EXCEPT !.sent = @ \cup {w}]
  <2>2. w \in Wallets
    <3>1. req[r].pc \in OfferSteps
      BY <2>1 DEF OfferSteps
    <3> QED BY <3>1, Orderless, WalletsAssumption
  <2>3. /\ next \in Request /\ next.order = req[r].order /\ next.who = req[r].who
        /\ next.bps = req[r].bps /\ next.booked = req[r].booked
    BY <1>1, <2>2 DEF Request
  <2>4. Goes(r, next, pc)
    BY <2>1
  <2> HIDE DEF next
  <2> QED
    BY <2>1, <2>3, <2>4, GoesCalmly DEF InFlight, Ended, Steps, SettleSteps, WithBook, Chosen,
       AfterBuyer, OfferSteps
<1>4. CASE OfferRead(r)
  <2> DEFINE next == [req[r] EXCEPT !.snap = holders]
  <2>1. /\ Goes(r, next, "offerWrite") /\ req[r].pc = "offerRead"
        /\ UNCHANGED <<order, holders, selling>>
    BY <1>4 DEF OfferRead, At, pages
  <2>2. /\ next \in Request /\ next.order = req[r].order /\ next.who = req[r].who
        /\ next.bps = req[r].bps /\ next.booked = req[r].booked /\ next.snap = holders
    BY <1>1 DEF Request
  <2> HIDE DEF next
  <2> QED
    BY <2>1, <2>2, GoesCalmly DEF InFlight, Ended, Steps, SettleSteps, WithBook, Chosen,
       AfterBuyer, OfferSteps
<1>5. CASE SyncWrite(r)
  <2>1. /\ Goes(r, req[r], "done") /\ req[r].pc = "syncWrite" /\ holders' = req[r].snap
        /\ UNCHANGED <<order, selling>>
    BY <1>5 DEF SyncWrite, At, pages
  <2>2. holders' = holders
    BY <2>1 DEF Well, Follows, WithBook
  <2> QED
    BY <1>1, <2>1, <2>2, GoesCalmly DEF InFlight, Ended, Steps, SettleSteps, WithBook, Chosen,
       AfterBuyer, OfferSteps
<1> QED BY <1>2, <1>3, <1>4, <1>5

\* A failure anywhere but between the cap table and the order.
LEMMA FailCalm ==
    ASSUME SettleInv, Well, NEW r \in Requests, Fail(r), calm'
    PROVE  Well'
<1>1. /\ req' = [req EXCEPT ![r].pc = "failed"] /\ InFlight(r) /\ req[r].pc # "fill"
      /\ UNCHANGED <<order, holders, selling>>
  BY DEF Fail, At, pages
<1>2. req[r] \in Request /\ "failed" \in Steps
  BY DEF SettleInv, TablesOK, Steps, Ended
<1>3. Goes(r, req[r], "failed")
  BY <1>1, <1>2 DEF Goes, SettleInv, TablesOK
<1> QED
  BY <1>1, <1>2, <1>3, GoesCalmly DEF SettleSteps, WithBook, Chosen, AfterBuyer, OfferSteps

\* The buyer and the payment are recorded with an order that is not filled.
LEMMA RecordsCalm ==
    ASSUME SettleInv, Well, NEW r \in Requests, RecordBuyer(r) \/ RecordPayment(r)
    PROVE  Well'
<1> DEFINE o == req[r].order
       row == IF RecordBuyer(r) THEN [order[o] EXCEPT !.buyer = req[r].who]
                                ELSE [order[o] EXCEPT !.paid = TRUE]
       pc == IF RecordBuyer(r) THEN "payment" ELSE "book"
<1>1. /\ order' = [order EXCEPT ![o] = row]
      /\ Goes(r, req[r], pc) /\ UNCHANGED <<holders, selling>>
      /\ \/ /\ pc = "payment" /\ req[r].pc = "buyer"
            /\ row = [order[o] EXCEPT !.buyer = req[r].who]
         \/ /\ pc = "book" /\ req[r].pc = "payment"
            /\ row = [order[o] EXCEPT !.paid = TRUE]
  BY DEF RecordBuyer, RecordPayment, At, pages
<1> HIDE DEF row, pc
<1>2. req[r].pc \in SettleSteps /\ InFlight(r) /\ req[r].pc \in Chosen /\ req[r].pc # "fill"
  BY <1>1 DEF SettleSteps, InFlight, Ended, Chosen
<1>3. /\ req[r] \in Request /\ o \in Orders /\ req[r].who \in Wallets
      /\ order[o] \in Order /\ order[o].status # "absent" /\ Follows(r)
  BY <1>2, OrderOf DEF Well
<1>4. /\ row \in Order /\ row.status = order[o].status /\ row.seller = order[o].seller
      /\ row.bps = order[o].bps /\ row.buyer \in {order[o].buyer, req[r].who}
      /\ order[o].paid => row.paid
      /\ row.buyer = req[r].who
  <2>1. req[r].pc = "payment" => order[o].buyer = req[r].who
    BY <1>3 DEF Follows, AfterBuyer
  <2> QED BY <1>1, <1>3, <2>1 DEF Order
<1>5. order[o].status # "filled"
  BY <1>2, <1>3 DEF Follows
<1>6. order'[o] = row /\ \A x \in Orders \ {o} : order'[x] = order[x]
  BY <1>1, <1>3 DEF SettleInv, TablesOK
<1>7. OrdersKept
  BY <1>1, <1>3, <1>4, RowKept
<1>8. \A x \in Orders : /\ order'[x].status = order[x].status
                        /\ order'[x].seller = order[x].seller
                        /\ order'[x].bps = order[x].bps
                        /\ order[x].status = "filled" => order'[x].buyer = order[x].buyer
  BY <1>4, <1>5, <1>6
<1>9. order'[o].buyer = req[r].who
  BY <1>4, <1>6
<1>10. pc \in Steps /\ pc \notin {"new", "fill"} /\ pc \notin WithBook /\ pc \notin OfferSteps
  BY <1>1 DEF Steps, SettleSteps, WithBook, OfferSteps
<1>11. Goes(r, req[r], pc) /\ holders' = holders /\ selling' = selling
  BY <1>1
<1> QED BY <1>2, <1>3, <1>7, <1>8, <1>9, <1>10, <1>11, GoesCalm

\* A purchase of an order begins while nothing else runs.
LEMMA BuyCalm ==
    ASSUME SettleInv, Well, NEW r \in Requests, NEW w \in Wallets, NEW o \in Orders,
           Buy(r, w, o), calm'
    PROVE  Well'
<1>1. PICK p \in {"pay", "read"} :
          req' = [req EXCEPT ![r] = [@ EXCEPT !.pc = p, !.order = o, !.who = w,
                                              !.bps = order[o].bps]]
  BY DEF Buy
<1> DEFINE rec == [req[r] EXCEPT !.pc = p, !.order = o, !.who = w, !.bps = order[o].bps]
<1>2. /\ req[r] \in Request /\ req[r].pc = "new" /\ Alone /\ Follows(r)
      /\ order[o] \in Order /\ order[o].seller # w
      /\ UNCHANGED <<order, holders, selling>>
  BY DEF Buy, At, pages, SettleInv, TablesOK, Well
<1>3. ~req[r].booked
  BY <1>2 DEF Follows
<1>4. /\ rec \in Request /\ rec.pc = p /\ rec.order = o /\ rec.who = w
      /\ rec.bps = order[o].bps /\ rec.booked = req[r].booked /\ ~rec.booked
  BY <1>2, <1>3 DEF Request, Order, SettleSteps
<1>5. req' = [req EXCEPT ![r] = rec]
  BY <1>1, <1>2 DEF SettleInv, TablesOK
<1> HIDE DEF rec
<1>6. req'[r] = rec
  BY <1>5 DEF SettleInv, TablesOK
<1>7. p \notin WithBook \cup Chosen \cup AfterBuyer \cup OfferSteps
  BY DEF WithBook, Chosen, AfterBuyer, OfferSteps
<1>8. Follows(r)'
  BY <1>2, <1>4, <1>6, <1>7 DEF Follows, Seller
<1>9. OrdersKept
  BY <1>2, OrdersUnchanged
<1> QED BY <1>2, <1>3, <1>4, <1>5, <1>7, <1>8, <1>9, QuietCalm

\* An offer begins while nothing else runs, and its shares are secured.
LEMMA OfferCalm ==
    ASSUME SettleInv, Well, NEW r \in Requests, NEW w \in Wallets, NEW b \in Sizes,
           Offer(r, w, b), calm'
    PROVE  Well'
<1> DEFINE rec == [req[r] EXCEPT !.pc = "kyc", !.who = w, !.bps = b]
<1>1. /\ req[r] \in Request /\ req[r].pc = "new" /\ Alone /\ Follows(r)
      /\ w # Issuer /\ b \in Nat
      /\ \A v \in Wallets : IF v \in {Issuer, w} THEN Owed(v) = 0 ELSE holders[v] = 0
      /\ UNCHANGED <<order, holders, selling>>
  BY SizesAssumption DEF Offer, At, pages, SettleInv, TablesOK, Well
<1>2. ~req[r].booked
  BY <1>1 DEF Follows
<1>3. rec \in Request /\ rec.pc = "kyc" /\ rec.who = w /\ rec.booked = req[r].booked /\ ~rec.booked
  BY <1>1, <1>2 DEF Request, OfferSteps
<1>4. req' = [req EXCEPT ![r] = rec]
  BY DEF Offer, SettleInv, TablesOK
<1> HIDE DEF rec
<1>5. req'[r] = rec
  BY <1>4 DEF SettleInv, TablesOK
<1>6. "kyc" \notin WithBook \cup Chosen \cup AfterBuyer \cup SettleSteps
  BY DEF WithBook, Chosen, AfterBuyer, SettleSteps
<1>7. Follows(r)'
  BY <1>3, <1>5, <1>6 DEF Follows
<1>8. OrdersKept
  BY <1>1, OrdersUnchanged
<1> QED BY <1>1, <1>2, <1>3, <1>4, <1>6, <1>7, <1>8, QuietCalm

\* A sync begins while nothing else runs and reads the cap table.
LEMMA SyncCalm ==
    ASSUME SettleInv, Well, NEW r \in Requests, Sync(r), calm'
    PROVE  Well'
<1> DEFINE rec == [req[r] EXCEPT !.pc = "syncWrite", !.snap = holders]
<1>1. /\ req[r] \in Request /\ req[r].pc = "new" /\ Alone /\ Follows(r)
      /\ holders \in Tables
      /\ UNCHANGED <<order, holders, selling>>
  BY DEF Sync, At, pages, SettleInv, TablesOK, Well
<1>2. ~req[r].booked
  BY <1>1 DEF Follows
<1>3. rec \in Request /\ rec.pc = "syncWrite" /\ rec.snap = holders
      /\ rec.booked = req[r].booked /\ ~rec.booked
  BY <1>1, <1>2 DEF Request
<1>4. req' = [req EXCEPT ![r] = rec]
  BY DEF Sync, SettleInv, TablesOK
<1> HIDE DEF rec
<1>5. req'[r] = rec
  BY <1>4 DEF SettleInv, TablesOK
<1>6. "syncWrite" \notin Chosen \cup AfterBuyer \cup SettleSteps \cup OfferSteps
  BY DEF Chosen, AfterBuyer, SettleSteps, OfferSteps
<1>7. Follows(r)'
  BY <1>1, <1>3, <1>5, <1>6 DEF Follows
<1>8. OrdersKept
  BY <1>1, OrdersUnchanged
<1> QED BY <1>1, <1>2, <1>3, <1>4, <1>6, <1>7, <1>8, QuietCalm

\* The cap table of an offer: the issuer and the investor share the whole.
LEMMA OfferWriteCalm ==
    ASSUME SettleInv, Well, NEW r \in Requests, OfferWrite(r)
    PROVE  Well'
<1> DEFINE next == [req[r] EXCEPT !.booked = TRUE]
<1>1. /\ req[r] \in Request /\ req[r].pc = "offerWrite" /\ Follows(r) /\ Secured(r)
      /\ holders \in [Wallets -> Nat] /\ holders' = Offered(r)
      /\ UNCHANGED <<order, selling>> /\ Goes(r, next, "done")
  BY DEF OfferWrite, At, pages, SettleInv, TablesOK, Well, AddsUp
<1>2. req[r].pc \in OfferSteps /\ InFlight(r) /\ "done" \in Steps
  BY <1>1 DEF OfferSteps, InFlight, Ended, Steps
<1> DEFINE w == req[r].who
           b == req[r].bps
<1>3. /\ w \in Wallets /\ b \in Nat /\ b <= Whole /\ req[r].order = None
      /\ w # Issuer /\ Issuer \in Wallets
      /\ \A v \in Wallets : IF v \in {Issuer, w} THEN Owed(v) = 0 ELSE holders[v] = 0
      /\ req[r].snap = holders /\ ~req[r].booked
  BY <1>1, <1>2, Orderless, WalletsAssumption
     DEF Secured, Follows, WithBook, Request, SettleInv, RequestOK
<1>4. PICK p \in {"done", "failed"} : req' = [req EXCEPT ![r] = [next EXCEPT !.pc = p]]
  BY <1>1 DEF Goes
<1> DEFINE rec == [next EXCEPT !.pc = p]
<1>5. /\ rec \in Request /\ rec.pc = p /\ rec.order = None /\ rec.booked
      /\ req' = [req EXCEPT ![r] = rec]
  BY <1>1, <1>3, <1>4 DEF Request, Ended
<1> HIDE DEF next, rec
<1>6. /\ req'[r] = rec
      /\ \A s \in Requests \ {r} : req'[s] = req[s] /\ req[s].pc \in Ended
      /\ OneInFlight'
      /\ \A s \in Requests \ {r} : Follows(s)' /\ Secured(s)'
  BY <1>2, <1>5, OthersRest
<1>7. p \notin WithBook \cup Chosen \cup AfterBuyer \cup SettleSteps \cup OfferSteps \cup {"new", "syncWrite"}
  BY DEF WithBook, Chosen, AfterBuyer, SettleSteps, OfferSteps
<1>8. Follows(r)' /\ Secured(r)'
  BY <1>5, <1>6, <1>7 DEF Follows, Secured
<1>9. BuyersKnown'
  <2>1. \A o \in Orders : order'[o].status = "filled" =>
               order[o].status = "filled" /\ order'[o].buyer = order[o].buyer
    BY <1>1
  <2>2. \A s \in Requests : req[s].booked => /\ req'[s].booked /\ req'[s].order = req[s].order
                                             /\ req'[s].who = req[s].who
    BY <1>3, <1>6
  <2> QED BY <2>1, <2>2, BuyersFrame DEF Well
<1>10. \A v \in Wallets : holders'[v] = IF v = Issuer THEN Whole - b ELSE IF v = w THEN b ELSE 0
  <2>1. holders' = [e \in Wallets |-> CASE e = Issuer -> Whole - b [] e = w -> b
                                       [] OTHER -> holders[e]]
    BY <1>1, <1>3 DEF Offered
  <2> QED BY <1>1, <1>3, <2>1
<1>11. \A v \in Wallets : Owed(v)' = Owed(v)
  <2>1. rec.pc # "fill" /\ req[r].pc # "fill"
    BY <1>1, <1>5
  <2> QED BY <1>1, <1>5, <2>1, OwedSame
<1>12. \A v \in Wallets : Owed(v)' <= holders'[v]
  <2> TAKE v \in Wallets
  <2>1. CASE v \in {Issuer, w}
    <3>1. Owed(v)' = 0 /\ Whole - b >= 0 /\ b >= 0
      BY <1>3, <1>11, <2>1, SizesAssumption
    <3> QED BY <1>10, <2>1, <3>1
  <2>2. CASE v \notin {Issuer, w}
    <3>1. holders[v] = 0 /\ holders'[v] = 0 /\ Owed(v) <= holders[v]
      BY <1>3, <1>10, <2>2 DEF Well, AddsUp
    <3> QED BY <1>11, <3>1
  <2> QED BY <2>1, <2>2
<1>13. SumFunction(holders') = Whole
  <2> DEFINE h == holders'
  <2>1. DOMAIN h = Wallets /\ SumFunction(h) = SumFunctionOnSet(h, Wallets)
    BY <1>1, <1>3 DEF SumFunction, SumFunctionOnSet, FoldFunction, Offered
  <2>2. \A v \in Wallets : h[v] = IF v = Issuer THEN Whole - b ELSE IF v = w THEN b ELSE 0
    BY <1>10
  <2> HIDE DEF h
  <2>3. \A v \in Wallets : h[v] \in Int
    BY <1>3, <2>2, SizesAssumption
  <2>4. IsFiniteSet(Wallets) /\ IsFiniteSet(Wallets \ {Issuer})
    BY WalletsAssumption, FS_RemoveElement
  <2>5. SumFunctionOnSet(h, Wallets) = h[Issuer] + SumFunctionOnSet(h, Wallets \ {Issuer})
    BY <1>3, <2>3, <2>4, SumSplit
  <2>6. SumFunctionOnSet(h, Wallets \ {Issuer}) = h[w] + SumFunctionOnSet(h, (Wallets \ {Issuer}) \ {w})
    <3>1. w \in Wallets \ {Issuer} /\ \A v \in Wallets \ {Issuer} : h[v] \in Int
      BY <1>3, <2>3
    <3> QED BY <2>4, <3>1, SumSplit
  <2>7. SumFunctionOnSet(h, (Wallets \ {Issuer}) \ {w}) = 0
    <3> DEFINE T == (Wallets \ {Issuer}) \ {w}
    <3>1. IsFiniteSet(T)
      BY <2>4, FS_RemoveElement
    <3>2. {} \in SUBSET T /\ (\A v \in T : h[v] \in Int) /\ \A v \in T \ {} : h[v] = 0
      BY <2>2, <2>3
    <3> HIDE DEF T
    <3>3. SumFunctionOnSet(h, T) = SumFunctionOnSet(h, {})
      BY <3>1, <3>2, SumOfPart
    <3>4. SumFunctionOnSet(h, T) = 0
      BY <3>3, SumOfNone
    <3> QED BY <3>4 DEF T
  <2>8. h[Issuer] = Whole - b /\ h[w] = b
    BY <1>3, <2>2
  <2>9. SumFunction(h) = Whole
    BY <1>3, <2>1, <2>5, <2>6, <2>7, <2>8, SizesAssumption
  <2> QED BY <2>9 DEF h
<1>14. AddsUp'
  <2>1. \A v \in Wallets : holders'[v] \in Nat
    BY <1>3, <1>10, SizesAssumption
  <2>2. DOMAIN holders' = Wallets /\ holders' = [e \in Wallets |-> holders'[e]]
    BY <1>1, <1>3 DEF Offered
  <2> QED BY <1>12, <1>13, <2>1, <2>2 DEF AddsUp
<1>15. Balanced'
  BY <1>5, <1>6 DEF Balanced, Booked
<1> QED BY <1>6, <1>8, <1>9, <1>14, <1>15 DEF Well

\* An order leaves the offers of its seller, with its shares.
LEMMA BpsLess ==
    ASSUME SettleInv, NEW w \in Wallets, NEW o \in OnOffer(w),
           OnOffer(w)' = OnOffer(w) \ {o},
           \A x \in OnOffer(w) \ {o} : order'[x].bps = order[x].bps
    PROVE  Bps(OnOffer(w)) = order[o].bps + Bps(OnOffer(w))'
<1> DEFINE S == OnOffer(w)
           f == [x \in Orders |-> order[x].bps]
           g == [x \in Orders |-> order'[x].bps]
<1>1. /\ S \subseteq Orders /\ IsFiniteSet(S)
      /\ \A x \in S : f[x] = order[x].bps /\ order[x].bps \in Nat
  BY OwedType
<1>2. Bps(OnOffer(w)) = SumFunctionOnSet(f, S) /\ Bps(OnOffer(w))' = SumFunctionOnSet(g, S \ {o})
  BY DEF Bps
<1>3. \A x \in S \ {o} : f[x] = g[x]
  BY <1>1
<1> HIDE DEF f, g, S
<1>4. o \in S /\ (\A x \in S : f[x] \in Int) /\ IsFiniteSet(S \ {o})
  BY <1>1, FS_RemoveElement DEF S
<1>5. SumFunctionOnSet(f, S) = f[o] + SumFunctionOnSet(f, S \ {o})
  BY <1>1, <1>4, SumSplit
<1>6. SumFunctionOnSet(f, S \ {o}) = SumFunctionOnSet(g, S \ {o})
  BY <1>3, <1>4, SumOfSame
<1> QED BY <1>1, <1>2, <1>4, <1>5, <1>6

\* One more purchase among some.
LEMMA MovedOneMore ==
    ASSUME SettleInv, NEW R \in SUBSET Requests, NEW r \in Requests \ R
    PROVE  Moved(R \cup {r}) = req[r].bps + Moved(R)
<1> DEFINE f == [x \in Requests |-> req[x].bps]
<1>1. IsFiniteSet(R) /\ R \cup {r} \in SUBSET Requests
  BY MovedType
<1>2. \A x \in R \cup {r} : f[x] = req[x].bps /\ req[x].bps \in Nat
  BY <1>1, MovedType
<1> HIDE DEF f
<1>3. SumFunctionOnSet(f, R \cup {r}) = f[r] + SumFunctionOnSet(f, R)
  <2>1. \A x \in R \cup {r} : f[x] \in Int
    BY <1>2
  <2> QED BY <1>1, <2>1, SumOfOneMore
<1>4. f[r] = req[r].bps
  BY <1>2
<1> QED BY <1>3, <1>4 DEF Moved, f

\* What moves from one wallet to another does not change the sum.
LEMMA SumOfTransfer ==
    ASSUME NEW S, IsFiniteSet(S), NEW f, \A x \in S : f[x] \in Int,
           NEW s \in S, NEW w \in S, s # w, NEW b \in Int,
           NEW g, g[s] = f[s] - b, g[w] = f[w] + b, \A x \in S \ {s, w} : g[x] = f[x]
    PROVE  SumFunctionOnSet(g, S) = SumFunctionOnSet(f, S)
<1> DEFINE T == S \ {s}
           U == T \ {w}
<1>1. IsFiniteSet(T) /\ IsFiniteSet(U) /\ w \in T /\ \A x \in U : x \in S \ {s, w}
  BY FS_RemoveElement
<1>2. \A x \in S : g[x] \in Int
  <2> TAKE x \in S
  <2>1. f[x] \in Int
    OBVIOUS
  <2>2. x = s \/ x = w \/ g[x] = f[x]
    OBVIOUS
  <2> QED BY <2>1, <2>2
<1>3. \A x \in T : f[x] \in Int /\ g[x] \in Int
  BY <1>2
<1>4. SumFunctionOnSet(f, S) = f[s] + SumFunctionOnSet(f, T)
  BY SumSplit
<1>5. SumFunctionOnSet(g, S) = g[s] + SumFunctionOnSet(g, T)
  BY <1>2, SumSplit
<1> HIDE DEF T
<1>6. SumFunctionOnSet(f, T) = f[w] + SumFunctionOnSet(f, U)
  BY <1>1, <1>3, SumSplit
<1>7. SumFunctionOnSet(g, T) = g[w] + SumFunctionOnSet(g, U)
  BY <1>1, <1>3, SumSplit
<1>8. SumFunctionOnSet(f, U) = SumFunctionOnSet(g, U)
  <2> HIDE DEF U
  <2> QED BY <1>1, SumOfSame
<1>9. SumFunctionOnSet(f, U) \in Int
  <2>1. \A x \in U : f[x] \in Int
    BY <1>1
  <2> HIDE DEF U
  <2> QED BY <1>1, <2>1, SumType
<1>10. f[s] \in Int /\ f[w] \in Int
  OBVIOUS
<1> HIDE DEF U
<1> QED BY <1>4, <1>5, <1>6, <1>7, <1>8, <1>9, <1>10

\* The shares of the order that a settlement is about to move are there.
LEMMA SharesAreThere ==
    ASSUME SettleInv, Well, NEW r \in Requests, req[r].pc = "write"
    PROVE  /\ req[r].order \in Orders /\ req[r].who \in Wallets /\ Seller(r) \in Wallets
           /\ req[r].who # Seller(r) /\ req[r].snap = holders /\ ~req[r].booked
           /\ req[r].bps \in Nat /\ req[r].bps = order[req[r].order].bps
           /\ \A s \in Requests : req[s].pc # "fill"
           /\ \/ /\ req[r].order \in OnOffer(Seller(r))
                 /\ Owed(Seller(r)) <= holders[Seller(r)]
              \/ /\ order[req[r].order].status = "cancelled"
                 /\ Owed(Seller(r)) + req[r].bps <= holders[Seller(r)]
           /\ req[r].bps <= holders[Seller(r)]
<1> DEFINE o == req[r].order
           s == Seller(r)
<1>1. /\ req[r].pc \in SettleSteps /\ req[r].pc \in WithBook /\ req[r].pc \in Chosen \ {"fill"}
      /\ InFlight(r)
  BY DEF SettleSteps, WithBook, Chosen, InFlight, Ended
<1>2. o \in Orders /\ req[r].who \in Wallets /\ s \in Wallets /\ req[r].bps \in Nat
  BY <1>1, OrderOf DEF Request
<1>3. /\ req[r].who # s /\ req[r].snap = holders /\ ~req[r].booked
      /\ req[r].bps = order[o].bps /\ order[o].status \in {"open", "cancelled"}
  BY <1>1 DEF Well, Follows
<1>4. \A q \in Requests : req[q].pc # "fill"
  <2> SUFFICES ASSUME NEW q \in Requests, req[q].pc = "fill" PROVE FALSE
    OBVIOUS
  <2>1. InFlight(q)
    BY DEF InFlight, Ended
  <2> QED BY <1>1, <2>1 DEF Well, OneInFlight
<1>5. Owed(s) \in Nat /\ holders[s] \in Nat /\ Owed(s) <= holders[s]
      /\ \A x \in OnOffer(s) : order[x].bps <= Owed(s)
  BY <1>2, OwedType DEF Well, AddsUp, SettleInv, TablesOK
<1>6. CASE order[o].status = "open"
  <2>1. o \in OnOffer(s)
    BY <1>2, <1>4, <1>6 DEF OnOffer, OpenOrders, Seller
  <2>2. req[r].bps <= holders[s]
    BY <1>2, <1>3, <1>5, <2>1
  <2> QED BY <1>2, <1>3, <1>4, <1>5, <2>1, <2>2
<1>7. CASE order[o].status = "cancelled"
  <2>1. Owed(s) + req[r].bps <= holders[s]
    BY <1>1, <1>7 DEF Well, Secured
  <2>2. req[r].bps <= holders[s]
    BY <1>2, <1>5, <2>1
  <2> QED BY <1>2, <1>3, <1>4, <1>7, <2>1, <2>2
<1> QED BY <1>3, <1>6, <1>7

\* The cap table is written: the shares of one order move, once.
LEMMA WriteBookCalm ==
    ASSUME SettleInv, Well, NEW r \in Requests, WriteBook(r), calm'
    PROVE  Well'
<1> DEFINE o == req[r].order
           w == req[r].who
           b == req[r].bps
           rec == [[req[r] EXCEPT !.booked = TRUE] EXCEPT !.pc = "fill"]
<1>1. /\ req[r] \in Request /\ req[r].pc = "write" /\ InFlight(r) /\ Follows(r)
      /\ holders \in [Wallets -> Nat] /\ holders' = Settled(r)
      /\ UNCHANGED <<order, selling>>
  BY DEF WriteBook, At, pages, SettleInv, TablesOK, Well, AddsUp, InFlight, Ended
<1>0. PICK s \in Wallets : s = Seller(r)
  BY <1>1, SharesAreThere
<1>2. /\ o \in Orders /\ w \in Wallets /\ s = Seller(r) /\ w # s /\ req[r].snap = holders
      /\ ~req[r].booked /\ b \in Nat /\ b = order[o].bps
      /\ \A q \in Requests : req[q].pc # "fill"
      /\ \/ o \in OnOffer(s) /\ Owed(s) <= holders[s]
         \/ order[o].status = "cancelled" /\ Owed(s) + b <= holders[s]
      /\ b <= holders[s]
  BY <1>0, <1>1, SharesAreThere
<1>3. req' = [req EXCEPT ![r] = rec]
  <2>1. PICK p \in {"fill", "failed"} :
            req' = [req EXCEPT ![r] = [[req[r] EXCEPT !.booked = TRUE] EXCEPT !.pc = p]]
    BY DEF WriteBook, Goes
  <2>2. req'[r].pc = p
    BY <1>1, <2>1 DEF SettleInv, TablesOK, Request
  <2>3. p = "fill"
    BY <2>2 DEF WriteBook, Lives
  <2> QED BY <2>1, <2>3
<1>4. /\ rec \in Request /\ rec.pc = "fill" /\ rec.order = o /\ rec.who = w /\ rec.bps = b
      /\ rec.booked
  BY <1>1 DEF Request, SettleSteps
<1> HIDE DEF rec
<1>5. /\ req'[r] = rec
      /\ \A q \in Requests \ {r} : req'[q] = req[q] /\ req[q].pc \in Ended
      /\ OneInFlight'
      /\ \A q \in Requests \ {r} : Follows(q)' /\ Secured(q)'
  BY <1>1, <1>3, <1>4, OthersRest
<1>6. Follows(r)'
  BY <1>1, <1>2, <1>4, <1>5
     DEF Follows, Seller, WithBook, SettleSteps, OfferSteps, Chosen, AfterBuyer
<1>7. Secured(r)'
  BY <1>4, <1>5 DEF Secured, OfferSteps
<1>8. BuyersKnown'
  <2>1. \A x \in Orders : order'[x].status = "filled" =>
               order[x].status = "filled" /\ order'[x].buyer = order[x].buyer
    BY <1>1
  <2>2. \A q \in Requests : req[q].booked => /\ req'[q].booked /\ req'[q].order = req[q].order
                                             /\ req'[q].who = req[q].who
    BY <1>2, <1>5
  <2> QED BY <2>1, <2>2, BuyersFrame DEF Well
<1>9. /\ holders'[s] = holders[s] - b /\ holders'[w] = holders[w] + b
      /\ \A v \in Wallets \ {s, w} : holders'[v] = holders[v]
      /\ DOMAIN holders' = Wallets /\ holders' = [e \in Wallets |-> holders'[e]]
  <2>1. SellerLeft(r) = holders[s] - b
    BY <1>1, <1>2 DEF SellerLeft, Monus
  <2>2. holders' = [v \in Wallets |-> IF v = s THEN holders[s] - b
                                       ELSE holders[v] + IF v = w THEN b ELSE 0]
    <3>1. \A v \in Wallets : Owner(v) = v
      BY TwinAssumption DEF Owner
    <3>2. DOMAIN req[r].snap = Wallets
      BY <1>1, <1>2
    <3> QED BY <1>2, <2>1, <3>1, <3>2, <1>1 DEF Settled
  <2> QED BY <1>1, <1>2, <2>2
<1>10. SumFunction(holders') = Whole
  <2> DEFINE h == holders'
  <2>1. /\ SumFunction(h) = SumFunctionOnSet(h, Wallets)
        /\ SumFunction(holders) = SumFunctionOnSet(holders, Wallets)
    BY <1>1, <1>9 DEF SumFunction, SumFunctionOnSet, FoldFunction
  <2>2. SumFunctionOnSet(h, Wallets) = SumFunctionOnSet(holders, Wallets)
    <3>1. h[s] = holders[s] - b /\ h[w] = holders[w] + b /\ b \in Int
          /\ \A v \in Wallets \ {s, w} : h[v] = holders[v]
      BY <1>2, <1>9
    <3>2. (\A v \in Wallets : holders[v] \in Int) /\ IsFiniteSet(Wallets)
      BY <1>1, WalletsAssumption
    <3> HIDE DEF h, w, b
    <3>3. s \in Wallets /\ w \in Wallets /\ s # w
      BY <1>2
    <3> QED BY <3>1, <3>2, <3>3, SumOfTransfer
  <2> QED BY <2>1, <2>2 DEF Well, AddsUp
<1>11. \A v \in Wallets : OnOffer(v)' = OnOffer(v) \ {o}
  <2> TAKE v \in Wallets
  <2>1. OnOffer(v) = OpenOrders(v) /\ OpenOrders(v)' = OpenOrders(v)
    BY <1>1, <1>2 DEF OnOffer, OpenOrders
  <2>2. ASSUME NEW x \in OpenOrders(v)
        PROVE  (\A q \in Requests : req'[q].order = x => req'[q].pc # "fill") <=> x # o
    <3>1. CASE x = o
      BY <1>4, <1>5, <3>1
    <3>2. CASE x # o
      BY <1>2, <1>4, <1>5, <3>2
    <3> QED BY <3>1, <3>2
  <2> QED BY <2>1, <2>2 DEF OnOffer
<1>12. \A v \in Wallets \ {s} : Owed(v)' = Owed(v)
  <2> TAKE v \in Wallets \ {s}
  <2>1. o \notin OnOffer(v)
    BY <1>2 DEF OnOffer, OpenOrders, Seller
  <2>2. OnOffer(v)' = OnOffer(v) /\ \A x \in OnOffer(v) : order'[x].bps = order[x].bps
    BY <1>1, <1>11, <2>1
  <2>3. Bps(OnOffer(v))' = Bps(OnOffer(v))
    BY <2>2, BpsSame
  <2> QED BY <1>1, <2>3 DEF Owed
<1>13. Owed(s)' <= holders'[s]
  <2>1. holders[s] \in Nat /\ Owed(s) \in Nat /\ Bps(OnOffer(s)) \in Nat /\ selling[s] \in Nat
    BY <1>1, <1>2, OwedType DEF SettleInv, TablesOK
  <2>2. OnOffer(s)' = OnOffer(s) \ {o} /\ \A x \in OnOffer(s) : order'[x].bps = order[x].bps
    BY <1>1, <1>2, <1>11
  <2>3. /\ Owed(s) = Bps(OnOffer(s)) + selling[s]
        /\ Owed(s)' = Bps(OnOffer(s))' + selling[s]
    BY <1>1 DEF Owed
  <2>4. CASE o \in OnOffer(s) /\ Owed(s) <= holders[s]
    <3>1. Bps(OnOffer(s)) = b + Bps(OnOffer(s))'
      <4> HIDE DEF o, b
      <4>1. s \in Wallets /\ b = order[o].bps
        BY <1>2
      <4> QED BY <2>2, <2>4, <4>1, BpsLess
    <3> DEFINE left == Bps(OnOffer(s))'
               had == Bps(OnOffer(s))
    <3>2. had = b + left /\ had + selling[s] <= holders[s] /\ Owed(s)' = left + selling[s]
          /\ holders'[s] = holders[s] - b
      BY <1>9, <2>3, <2>4, <3>1
    <3>3. left \in Nat
      <4>1. SettleInv'
        BY WriteBookKeeps
      <4>2. IsFiniteSet(OnOffer(s) \ {o}) /\ OnOffer(s) \ {o} \subseteq Orders
        BY <1>2, OwedType, FS_RemoveElement
      <4> DEFINE g == [x \in Orders |-> order'[x].bps]
      <4>3. \A x \in OnOffer(s) \ {o} : g[x] \in Int /\ g[x] >= 0
        BY <4>1, <4>2 DEF SettleInv, TablesOK, Order
      <4>4. left = SumFunctionOnSet(g, OnOffer(s) \ {o})
        BY <2>2 DEF Bps
      <4> HIDE DEF g, left
      <4> QED BY <4>2, <4>3, <4>4, SumType
    <3> HIDE DEF left, had, b
    <3>4. holders[s] \in Nat /\ selling[s] \in Nat /\ b \in Nat
      BY <1>2, <2>1
    <3>5. left + selling[s] <= holders[s] - b
      BY <3>2, <3>3, <3>4
    <3> QED BY <3>2, <3>5
  <2>5. CASE order[o].status = "cancelled" /\ Owed(s) + b <= holders[s]
    <3>1. o \notin OnOffer(s)
      BY <2>5 DEF OnOffer, OpenOrders
    <3>2. OnOffer(s)' = OnOffer(s)
      BY <2>2, <3>1
    <3>3. Bps(OnOffer(s))' = Bps(OnOffer(s))
      <4> HIDE DEF o
      <4>1. s \in Wallets
        BY <1>2
      <4> QED BY <2>2, <3>2, <4>1, BpsSame
    <3>4. Owed(s)' = Owed(s)
      BY <2>3, <3>3
    <3>5. Owed(s) <= holders[s] - b
      BY <1>2, <2>1, <2>5
    <3> QED BY <1>9, <3>4, <3>5
  <2> QED BY <1>2, <2>4, <2>5
<1>14. \A v \in Wallets : Owed(v)' <= holders'[v]
  <2> TAKE v \in Wallets
  <2>1. CASE v = s
    BY <1>13, <2>1
  <2>2. CASE v # s
    <3>1. Owed(v)' = Owed(v) /\ Owed(v) <= holders[v]
      BY <1>12, <2>2 DEF Well, AddsUp
    <3>2. v = w => holders'[v] = holders[v] + b
      BY <1>9
    <3>3. v # w => holders'[v] = holders[v]
      BY <1>9, <2>2
    <3>4. Owed(v) \in Nat /\ holders[v] \in Nat /\ b \in Nat
      BY <1>1, <1>2, OwedType
    <3>5. Owed(v) <= holders[v] + b
      BY <3>1, <3>4
    <3> QED BY <3>1, <3>2, <3>3, <3>5
  <2> QED BY <2>1, <2>2
<1>15. AddsUp'
  <2>1. \A v \in Wallets : holders'[v] \in Nat
    BY <1>1, <1>2, <1>9
  <2> QED BY <1>9, <1>10, <1>14, <2>1 DEF AddsUp
<1>16. Balanced'
  <2> SUFFICES ASSUME \A q \in Booked' : req'[q].order # None, NEW v \in Wallets
               PROVE  holders'[v] + Moved(Sold(v))'
                        = (IF v = Issuer THEN Whole ELSE 0) + Moved(Bought(v))'
    BY DEF Balanced
  <2>1. Booked' = Booked \cup {r} /\ r \notin Booked
        /\ \A q \in Booked : req[q].order # None /\ req'[q] = req[q] /\ q \in Requests
    BY <1>2, <1>4, <1>5 DEF Booked
  <2>2. /\ Sold(v) \subseteq Requests /\ Bought(v) \subseteq Requests
        /\ r \notin Sold(v) /\ r \notin Bought(v)
    BY <2>1 DEF Sold, Bought
  <2>3. /\ Sold(v)' = IF v = s THEN Sold(v) \cup {r} ELSE Sold(v)
        /\ Bought(v)' = IF v = w THEN Bought(v) \cup {r} ELSE Bought(v)
    <3>1. \A q \in Booked : Seller(q)' = Seller(q) /\ req'[q].who = req[q].who
      BY <1>1, <2>1 DEF Seller
    <3>2. Seller(r)' = s /\ req'[r].who = w
      BY <1>1, <1>2, <1>4, <1>5 DEF Seller
    <3> QED BY <2>1, <3>1, <3>2 DEF Sold, Bought
  <2>4. \A R \in SUBSET Requests :
            SumFunctionOnSet([x \in Requests |-> req'[x].bps], R) = Moved(R)
    <3> TAKE R \in SUBSET Requests
    <3>1. \A q \in R : req'[q].bps = req[q].bps
      BY <1>4, <1>5
    <3> QED BY <3>1, MovedSame
  <2>5. Moved(Sold(v))' = IF v = s THEN b + Moved(Sold(v)) ELSE Moved(Sold(v))
    <3>1. Moved(Sold(v))' = SumFunctionOnSet([x \in Requests |-> req'[x].bps], Sold(v)')
      BY DEF Moved
    <3>2. Sold(v)' \in SUBSET Requests
      BY <2>2, <2>3
    <3>3. SumFunctionOnSet([x \in Requests |-> req'[x].bps], Sold(v)') = Moved(Sold(v)')
      BY <2>4, <3>2
    <3>4. Moved(Sold(v) \cup {r}) = b + Moved(Sold(v))
      BY <2>2, MovedOneMore
    <3> QED BY <2>3, <3>1, <3>3, <3>4
  <2>6. Moved(Bought(v))' = IF v = w THEN b + Moved(Bought(v)) ELSE Moved(Bought(v))
    <3>1. Moved(Bought(v))' = SumFunctionOnSet([x \in Requests |-> req'[x].bps], Bought(v)')
      BY DEF Moved
    <3>2. Bought(v)' \in SUBSET Requests
      BY <2>2, <2>3
    <3>3. SumFunctionOnSet([x \in Requests |-> req'[x].bps], Bought(v)') = Moved(Bought(v)')
      BY <2>4, <3>2
    <3>4. Moved(Bought(v) \cup {r}) = b + Moved(Bought(v))
      BY <2>2, MovedOneMore
    <3> QED BY <2>3, <3>1, <3>3, <3>4
  <2>7. holders[v] + Moved(Sold(v)) = (IF v = Issuer THEN Whole ELSE 0) + Moved(Bought(v))
    BY <2>1 DEF Well, Balanced
  <2>8. holders'[v] = IF v = s THEN holders[v] - b ELSE IF v = w THEN holders[v] + b ELSE holders[v]
    BY <1>9
  <2>9. Moved(Sold(v)) \in Nat /\ Moved(Bought(v)) \in Nat /\ holders[v] \in Nat /\ b \in Nat
    BY <1>1, <1>2, <2>2, MovedType
  <2>10. s # w
    BY <1>2
  <2> DEFINE start == IF v = Issuer THEN Whole ELSE 0
             out == Moved(Sold(v))
             in == Moved(Bought(v))
             out1 == Moved(Sold(v))'
             in1 == Moved(Bought(v))'
  <2>11. start \in Nat
    BY SizesAssumption
  <2>12. holders[v] + out = start + in
    BY <2>7
  <2> HIDE DEF start, out, in, out1, in1
  <2>13. holders'[v] + out1 = start + in1
    <3> HIDE DEF w, b
    <3>1. out \in Nat /\ in \in Nat /\ holders[v] \in Nat /\ b \in Nat
      BY <2>9 DEF out, in
    <3>2. /\ out1 = IF v = s THEN b + out ELSE out
          /\ in1 = IF v = w THEN b + in ELSE in
      BY <2>5, <2>6 DEF out, in, out1, in1
    <3> QED BY <2>8, <2>10, <2>11, <2>12, <3>1, <3>2
  <2> QED BY <2>13 DEF start, out1, in1
<1> QED BY <1>5, <1>6, <1>7, <1>8, <1>15, <1>16 DEF Well

\* The order is marked: its buyer is on record and has the shares.
LEMMA FillCalm ==
    ASSUME SettleInv, Well, NEW r \in Requests, Fill(r)
    PROVE  Well'
<1> DEFINE o == req[r].order
<1>1. /\ req[r] \in Request /\ req[r].pc = "fill" /\ InFlight(r) /\ Follows(r) /\ req[r].booked
      /\ req[r].pc \in SettleSteps /\ req[r].pc \in AfterBuyer
      /\ order' = [order EXCEPT ![o].status = "filled"]
      /\ UNCHANGED <<holders, selling>> /\ Goes(r, req[r], "done")
  BY DEF Fill, At, SettleInv, RequestOK, TablesOK, Well, InFlight, Ended, SettleSteps, AfterBuyer
<1>2. o \in Orders /\ order \in [Orders -> Order] /\ order[o].buyer = req[r].who
  BY <1>1, OrderOf DEF SettleInv, TablesOK, Follows
<1>3. /\ order'[o].status = "filled"
      /\ \A x \in Orders : /\ order'[x].bps = order[x].bps /\ order'[x].seller = order[x].seller
                           /\ order'[x].buyer = order[x].buyer
                           /\ x # o => order'[x] = order[x]
  BY <1>1, <1>2 DEF Order
<1>4. PICK p \in {"done", "failed"} : req' = [req EXCEPT ![r] = [req[r] EXCEPT !.pc = p]]
  BY <1>1 DEF Goes
<1> DEFINE rec == [req[r] EXCEPT !.pc = p]
<1>5. /\ rec \in Request /\ rec.pc = p /\ rec.order = o /\ rec.who = req[r].who
      /\ rec.bps = req[r].bps /\ rec.booked = req[r].booked
      /\ req' = [req EXCEPT ![r] = rec]
  BY <1>1, <1>4 DEF Request, Ended
<1> HIDE DEF rec
<1>6. /\ req'[r] = rec
      /\ \A q \in Requests \ {r} : req'[q] = req[q] /\ req[q].pc \in Ended
      /\ OneInFlight'
      /\ \A q \in Requests \ {r} : Follows(q)' /\ Secured(q)'
  BY <1>1, <1>5, OthersRest
<1>7. p \notin WithBook \cup Chosen \cup AfterBuyer \cup SettleSteps \cup OfferSteps \cup {"new", "syncWrite"}
  BY DEF WithBook, Chosen, AfterBuyer, SettleSteps, OfferSteps
<1>8. Follows(r)' /\ Secured(r)'
  BY <1>5, <1>6, <1>7 DEF Follows, Secured
<1>9. \A q \in Requests : /\ req'[q].booked = req[q].booked /\ req'[q].order = req[q].order
                          /\ req'[q].who = req[q].who /\ req'[q].bps = req[q].bps
  BY <1>5, <1>6
<1>10. BuyersKnown'
  <2> SUFFICES ASSUME NEW x \in Orders, order'[x].status = "filled"
               PROVE  \E q \in Requests : /\ req'[q].order = x /\ req'[q].booked
                                          /\ req'[q].who = order'[x].buyer
    BY DEF BuyersKnown
  <2>1. CASE x = o
    BY <1>1, <1>2, <1>3, <1>9, <2>1
  <2>2. CASE x # o
    <3>1. order[x].status = "filled" /\ order'[x].buyer = order[x].buyer
      BY <1>3, <2>2
    <3>2. PICK q \in Requests : /\ req[q].order = x /\ req[q].booked
                                /\ req[q].who = order[x].buyer
      BY <3>1 DEF Well, BuyersKnown
    <3> QED BY <1>9, <3>1, <3>2
  <2> QED BY <2>1, <2>2
<1>11. \A v \in Wallets : Owed(v)' = Owed(v)
  <2> TAKE v \in Wallets
  <2>1. OnOffer(v)' = OnOffer(v)
    <3>1. o \notin OnOffer(v) /\ o \notin OnOffer(v)'
      BY <1>1, <1>3 DEF OnOffer, OpenOrders
    <3>2. \A x \in Orders \ {o} : \A q \in Requests :
              (req'[q].order = x => req'[q].pc # "fill") <=> (req[q].order = x => req[q].pc # "fill")
      BY <1>5, <1>6
    <3>3. \A x \in Orders \ {o} : x \in OnOffer(v)' <=> x \in OnOffer(v)
      BY <1>3, <3>2 DEF OnOffer, OpenOrders
    <3>4. OnOffer(v) \subseteq Orders /\ OnOffer(v)' \subseteq Orders
      BY DEF OnOffer, OpenOrders
    <3> QED BY <3>1, <3>3, <3>4
  <2>2. \A x \in OnOffer(v) : order'[x].bps = order[x].bps
    BY <1>3, OwedType
  <2>3. Bps(OnOffer(v))' = Bps(OnOffer(v))
    BY <2>1, <2>2, BpsSame
  <2> QED BY <1>1, <2>3 DEF Owed
<1>12. AddsUp'
  BY <1>1, <1>11 DEF Well, AddsUp
<1>13. Balanced'
  <2>1. \A x \in Orders : order[x].status # "absent" => order'[x].seller = order[x].seller
    BY <1>3
  <2>2. holders' = holders
    BY <1>1
  <2> QED BY <1>9, <2>1, <2>2, BalancedFrame DEF Well
<1> QED BY <1>6, <1>8, <1>10, <1>12, <1>13 DEF Well

-----------------------------------------------------------------------------
(***************************************************************************)
(* Steps of the pages: no request and no holder changes.                   *)
(***************************************************************************)
\* It is enough that what is on offer stays covered, with the request in
\* flight counted in if its order is cancelled under its feet.
LEMMA PagesCalm ==
    ASSUME SettleInv, Well, req' = req, holders' = holders,
           \A o \in Orders : order[o].status # "absent" =>
               /\ order'[o].seller = order[o].seller /\ order'[o].bps = order[o].bps
               /\ order'[o].buyer = order[o].buyer
               /\ order'[o].status \in {order[o].status, "cancelled"},
           \A o \in Orders : order[o].status = "absent" => order'[o].status # "filled",
           \A v \in Wallets : Owed(v)' \in Nat /\ Owed(v)' <= holders[v],
           Alone \/ \A v \in Wallets : Owed(v)' <= Owed(v),
           \A r \in Requests, s \in Wallets :
               (/\ req[r].pc \in Chosen \ {"fill"} /\ s = Seller(r)
                /\ order'[req[r].order].status = "cancelled"
                /\ order[req[r].order].status # "cancelled")
                  => Owed(s)' + req[r].bps <= holders[s]
    PROVE  Well'
<1>1. OneInFlight'
  BY DEF Well, OneInFlight, InFlight
<1>2. ASSUME NEW r \in Requests PROVE Follows(r)' /\ Secured(r)'
  <2>1. Follows(r) /\ Secured(r) /\ req[r] \in Request /\ req'[r] = req[r]
    BY DEF Well, SettleInv, TablesOK
  <2>2. CASE req[r].pc \notin SettleSteps \cup OfferSteps
    <3>1. Follows(r)'
      BY <2>1, <2>2 DEF Follows, SettleSteps, OfferSteps, Chosen, AfterBuyer
    <3>2. Secured(r)'
      BY <2>1, <2>2 DEF Secured, SettleSteps, OfferSteps, Chosen
    <3> QED BY <3>1, <3>2
  <2>3. CASE req[r].pc \in OfferSteps
    <3>1. Follows(r)'
      BY <2>1, <2>3 DEF Follows, SettleSteps, OfferSteps, Chosen, AfterBuyer
    <3>2. req[r].pc \notin Chosen /\ ~Alone
      BY <2>3 DEF OfferSteps, Chosen, Alone, InFlight, Ended
    <3>3. \A v \in Wallets : Owed(v) = 0 => Owed(v)' = 0
      BY <3>2
    <3> QED BY <2>1, <2>3, <3>1, <3>2, <3>3 DEF Secured
  <2>4. CASE req[r].pc \in SettleSteps
    <3> DEFINE o == req[r].order
    <3>1. /\ o \in Orders /\ order[o].status # "absent" /\ Seller(r) \in Wallets
          /\ req[r].pc \notin OfferSteps /\ ~Alone
      BY <2>4, OrderOf DEF SettleSteps, OfferSteps, Alone, InFlight, Ended
    <3>2. /\ order'[o].seller = order[o].seller /\ order'[o].bps = order[o].bps
          /\ order'[o].buyer = order[o].buyer
          /\ order'[o].status \in {order[o].status, "cancelled"}
      BY <3>1
    <3>3. Follows(r)'
      BY <2>1, <2>4, <3>1, <3>2 DEF Follows, Seller
    <3>4. PICK s \in Wallets : s = Seller(r)
      BY <3>1
    <3>5. Seller(r)' = s
      BY <2>1, <3>2, <3>4 DEF Seller
    <3>6. ASSUME req[r].pc \in Chosen \ {"fill"}, order'[o].status = "cancelled"
          PROVE  Owed(s)' + req[r].bps <= holders[s]
      <4>1. CASE order[o].status = "cancelled"
        <5>1. Owed(s) + req[r].bps <= holders[s]
          BY <2>1, <3>4, <3>6, <4>1 DEF Secured
        <5>2. Owed(s)' <= Owed(s) /\ Owed(s)' \in Nat /\ Owed(s) \in Nat /\ req[r].bps \in Nat
              /\ holders[s] \in Nat
          BY <2>1, <3>1, OwedType DEF Request, SettleInv, TablesOK, Well, AddsUp
        <5> QED BY <5>1, <5>2
      <4>2. CASE order[o].status # "cancelled"
        BY <3>4, <3>6, <4>2
      <4> QED BY <4>1, <4>2
    <3>7. Secured(r)'
      <4>1. req'[r].pc \notin OfferSteps
        BY <2>1, <3>1
      <4>2. ASSUME req'[r].pc \in Chosen \ {"fill"}, order'[req'[r].order].status = "cancelled"
            PROVE  Owed(Seller(r))' + req'[r].bps <= holders'[Seller(r)']
        <5>1. Owed(s)' + req[r].bps <= holders[s]
          BY <2>1, <3>6, <4>2
        <5>2. Owed(Seller(r))' = Owed(s)'
          BY <3>5
        <5> QED BY <2>1, <3>5, <5>1, <5>2
      <4> QED BY <4>1, <4>2 DEF Secured
    <3> QED BY <3>3, <3>7
  <2> QED BY <2>2, <2>3, <2>4
<1>3. BuyersKnown'
  <2>1. \A o \in Orders : order'[o].status = "filled" =>
               order[o].status = "filled" /\ order'[o].buyer = order[o].buyer
    OBVIOUS
  <2> QED BY <2>1, BuyersFrame DEF Well
<1>4. AddsUp'
  BY DEF Well, AddsUp
<1>5. Balanced'
  BY BalancedFrame DEF Well
<1> QED BY <1>1, <1>2, <1>3, <1>4, <1>5 DEF Well

\* What is on offer does not change with the listings that are being created.
LEMMA ListingsCalm ==
    ASSUME SettleInv, Well, req' = req, holders' = holders, order' = order,
           selling' \in [Wallets -> Nat],
           \A v \in Wallets : \/ selling'[v] <= selling[v]
                              \/ Alone /\ Bps(OnOffer(v)) + selling'[v] <= holders[v]
    PROVE  Well'
<1>1. \A v \in Wallets : /\ Owed(v)' = Bps(OnOffer(v)) + selling'[v]
                         /\ Owed(v) = Bps(OnOffer(v)) + selling[v]
  <2> TAKE v \in Wallets
  <2>1. OnOffer(v)' = OnOffer(v)
    BY DEF OnOffer, OpenOrders
  <2>2. Bps(OnOffer(v))' = Bps(OnOffer(v))
    BY <2>1, BpsSame
  <2> QED BY <2>2 DEF Owed
<1>2. \A v \in Wallets : /\ Bps(OnOffer(v)) \in Nat /\ selling[v] \in Nat /\ selling'[v] \in Nat
                         /\ holders[v] \in Nat /\ Owed(v) <= holders[v]
  BY OwedType DEF SettleInv, TablesOK, Well, AddsUp
<1>3. \A v \in Wallets : Owed(v)' \in Nat /\ Owed(v)' <= holders[v]
  <2> TAKE v \in Wallets
  <2> DEFINE had == Bps(OnOffer(v))
  <2>1. /\ had \in Nat /\ selling[v] \in Nat /\ selling'[v] \in Nat
        /\ holders[v] \in Nat /\ had + selling[v] <= holders[v]
        /\ selling'[v] <= selling[v] \/ had + selling'[v] <= holders[v]
    BY <1>1, <1>2
  <2> HIDE DEF had
  <2>2. had + selling'[v] \in Nat /\ had + selling'[v] <= holders[v]
    BY <2>1
  <2> QED BY <1>1, <2>2 DEF had
<1>4. Alone \/ \A v \in Wallets : Owed(v)' <= Owed(v)
  <2> SUFFICES ASSUME ~Alone, NEW v \in Wallets PROVE Owed(v)' <= Owed(v)
    OBVIOUS
  <2>1. selling'[v] <= selling[v]
    OBVIOUS
  <2> QED BY <1>1, <1>2, <2>1
<1>5. \A r \in Requests, s \in Wallets :
               (/\ req[r].pc \in Chosen \ {"fill"} /\ s = Seller(r)
                /\ order'[req[r].order].status = "cancelled"
                /\ order[req[r].order].status # "cancelled")
                  => Owed(s)' + req[r].bps <= holders[s]
  OBVIOUS
<1>6. /\ \A o \in Orders : order[o].status # "absent" =>
               /\ order'[o].seller = order[o].seller /\ order'[o].bps = order[o].bps
               /\ order'[o].buyer = order[o].buyer
               /\ order'[o].status \in {order[o].status, "cancelled"}
      /\ \A o \in Orders : order[o].status = "absent" => order'[o].status # "filled"
  OBVIOUS
<1> QED BY <1>3, <1>4, <1>5, <1>6, PagesCalm

\* A listing is made of shares that are held and not on offer yet.
LEMMA SellCalm ==
    ASSUME SettleInv, Well, NEW w \in Wallets, NEW b \in Sizes, calm',
           Sell(w, b) \/ (w = Issuer /\ SellFromAssetPage(b))
    PROVE  Well'
<1>1. /\ selling' = [selling EXCEPT ![w] = b] /\ selling[w] = 0 /\ Alone /\ b \in Nat
      /\ UNCHANGED <<order, holders, req>> /\ selling \in [Wallets -> Nat] /\ holders[w] \in Nat
      /\ selling' \in [Wallets -> Nat]
  BY SizesAssumption DEF Sell, SellFromAssetPage, SettleInv, TablesOK, Well, AddsUp
<1>2. Bps(OnOffer(w)) \in Nat /\ Owed(w) = Bps(OnOffer(w)) + 0
  BY <1>1, OwedType DEF Owed
<1>3. Bps(OnOffer(w)) + b <= holders[w]
  <2>1. CASE Sell(w, b)
    <3>1. OnOffer(w) = OpenOrders(w)
      <4>1. \A r \in Requests : req[r].pc # "fill"
        BY <1>1 DEF Alone, InFlight, Ended
      <4> QED BY <4>1 DEF OnOffer
    <3>2. /\ 0 < b /\ b <= Monus(holders[w], Listed(w))
          /\ Listed(w) = Bps(OnOffer(w))
      <4>1. view[w] = [holding |-> holders[w], listed |-> Listed(w)]
        BY <2>1 DEF Sell
      <4>2. view[w].holding = holders[w] /\ view[w].listed = Listed(w)
        BY <4>1
      <4>3. 0 < b /\ b <= Sellable(w)
        BY <2>1 DEF Sell
      <4>4. Listed(w) = Bps(OnOffer(w))
        BY <3>1 DEF Listed
      <4> QED BY <4>2, <4>3, <4>4 DEF Sellable
    <3> DEFINE l == Listed(w)
    <3>3. l \in Nat /\ l = Bps(OnOffer(w)) /\ b <= Monus(holders[w], l) /\ 0 < b
      BY <1>2, <3>2
    <3> HIDE DEF l
    <3>4. l + b <= holders[w]
      BY <1>1, <3>3 DEF Monus
    <3> QED BY <3>3, <3>4
  <2>2. CASE w = Issuer /\ SellFromAssetPage(b)
    <3>1. Owed(w) + b <= holders[w]
      BY <2>2 DEF SellFromAssetPage
    <3>2. Owed(w) = Bps(OnOffer(w))
      BY <1>2
    <3> QED BY <3>1, <3>2
  <2> QED BY <2>1, <2>2
<1>4. \A v \in Wallets : \/ selling'[v] <= selling[v]
                         \/ Alone /\ Bps(OnOffer(v)) + selling'[v] <= holders[v]
  <2> TAKE v \in Wallets
  <2>1. CASE v = w
    BY <1>1, <1>3, <2>1
  <2>2. CASE v # w
    <3>1. selling'[v] = selling[v] /\ selling[v] \in Nat
      BY <1>1, <2>2
    <3> QED BY <3>1
  <2> QED BY <2>1, <2>2
<1> QED BY <1>1, <1>4, ListingsCalm

\* A listing that fails frees its shares, and a load of the page changes nothing here.
LEMMA LoadCalm ==
    ASSUME SettleInv, Well,
           (\E w \in Wallets : LoadPage(w) \/ ListingFails(w)) \/ UNCHANGED vars
    PROVE  Well'
<1>1. /\ UNCHANGED <<order, holders, req>> /\ selling \in [Wallets -> Nat]
      /\ \E w \in Wallets : selling' \in {selling, [selling EXCEPT ![w] = 0]}
  BY WalletsAssumption DEF LoadPage, ListingFails, vars, pages, SettleInv, TablesOK
<1>2. selling' \in [Wallets -> Nat] /\ \A v \in Wallets : selling'[v] <= selling[v]
  <2>1. PICK w \in Wallets : selling' \in {selling, [selling EXCEPT ![w] = 0]}
    BY <1>1
  <2>2. \A v \in Wallets : selling[v] \in Nat /\ selling'[v] \in {selling[v], 0}
    BY <1>1, <2>1
  <2> QED BY <1>1, <2>1, <2>2
<1> QED BY <1>1, <1>2, ListingsCalm

\* A listing becomes an order, and is as much on offer as before.
LEMMA CreateOrderCalm ==
    ASSUME SettleInv, Well, NEW w \in Wallets, NEW o \in Orders, CreateOrder(w, o)
    PROVE  Well'
<1> DEFINE b == selling[w]
           row == [NoOrder EXCEPT !.status = "open", !.seller = w, !.bps = b]
<1>1. /\ order[o].status = "absent" /\ order' = [order EXCEPT ![o] = row]
      /\ req' = req /\ holders' = holders /\ selling' = [selling EXCEPT ![w] = 0]
      /\ order \in [Orders -> Order] /\ selling \in [Wallets -> Nat] /\ holders \in [Wallets -> Nat]
  BY DEF CreateOrder, NoOrder, SettleInv, TablesOK, Well, AddsUp
<1>2. row.status = "open" /\ row.seller = w /\ row.bps = b /\ b \in Nat
  BY <1>1 DEF NoOrder
<1> HIDE DEF row
<1>3. order'[o] = row /\ \A x \in Orders \ {o} : order'[x] = order[x]
  BY <1>1
<1>4. \A r \in Requests : req[r].order # o
  BY <1>1, NoneAssumption DEF SettleInv, RequestOK
<1>5. \A v \in Wallets : o \notin OnOffer(v)
  BY <1>1 DEF OnOffer, OpenOrders
<1>6. \A v \in Wallets : OnOffer(v)' = IF v = w THEN OnOffer(v) \cup {o} ELSE OnOffer(v)
  <2> TAKE v \in Wallets
  <2>1. \A x \in Orders \ {o} : x \in OnOffer(v)' <=> x \in OnOffer(v)
    BY <1>1, <1>3 DEF OnOffer, OpenOrders
  <2>2. o \in OnOffer(v)' <=> v = w
    BY <1>1, <1>2, <1>3, <1>4 DEF OnOffer, OpenOrders
  <2>3. OnOffer(v) \subseteq Orders /\ OnOffer(v)' \subseteq Orders
    BY DEF OnOffer, OpenOrders
  <2> QED BY <1>5, <2>1, <2>2, <2>3
<1>7. \A v \in Wallets : \A x \in OnOffer(v) : order'[x].bps = order[x].bps
  BY <1>3, <1>5, OwedType
<1>8. Bps(OnOffer(w))' = b + Bps(OnOffer(w))
  <2> DEFINE S == OnOffer(w)
             f == [x \in Orders |-> order[x].bps]
             g == [x \in Orders |-> order'[x].bps]
  <2>1. /\ S \subseteq Orders /\ IsFiniteSet(S) /\ o \notin S
        /\ \A x \in S : f[x] = order[x].bps /\ order[x].bps \in Nat
    BY <1>5, OwedType
  <2>2. Bps(OnOffer(w)) = SumFunctionOnSet(f, S)
    BY DEF Bps
  <2>3. Bps(OnOffer(w))' = SumFunctionOnSet(g, S \cup {o})
    BY <1>6 DEF Bps
  <2>4. g[o] = b /\ \A x \in S : g[x] = f[x]
    BY <1>2, <1>3, <1>7, <2>1
  <2> HIDE DEF S, f, g
  <2>5. \A x \in S \cup {o} : g[x] \in Int
    BY <1>2, <2>1, <2>4
  <2>6. SumFunctionOnSet(g, S \cup {o}) = g[o] + SumFunctionOnSet(g, S)
    BY <2>1, <2>5, SumOfOneMore
  <2>7. SumFunctionOnSet(g, S) = SumFunctionOnSet(f, S)
    BY <2>1, <2>4, SumOfSame
  <2> QED BY <2>2, <2>3, <2>4, <2>6, <2>7
<1>9. \A v \in Wallets : Owed(v)' = Owed(v)
  <2> TAKE v \in Wallets
  <2>1. CASE v = w
    <3>1. Bps(OnOffer(w)) \in Nat /\ Owed(w) = Bps(OnOffer(w)) + b
      BY OwedType DEF Owed
    <3>2. Owed(w)' = Bps(OnOffer(w))' + 0
      BY <1>1 DEF Owed
    <3> DEFINE had == Bps(OnOffer(w))
               has == Bps(OnOffer(w))'
    <3>3. had \in Nat /\ Owed(w) = had + b /\ Owed(w)' = has + 0 /\ has = b + had
      BY <1>8, <3>1, <3>2
    <3> HIDE DEF had, has, b
    <3>4. Owed(w)' = Owed(w)
      BY <1>2, <3>3
    <3> QED BY <2>1, <3>4
  <2>2. CASE v # w
    <3>1. OnOffer(v)' = OnOffer(v) /\ selling'[v] = selling[v]
      BY <1>1, <1>6, <2>2
    <3>2. Bps(OnOffer(v))' = Bps(OnOffer(v))
      BY <1>7, <3>1, BpsSame
    <3> QED BY <3>1, <3>2 DEF Owed
  <2> QED BY <2>1, <2>2
<1>10. \A v \in Wallets : Owed(v)' \in Nat /\ Owed(v)' <= holders[v] /\ Owed(v)' <= Owed(v)
  BY <1>9, OwedType DEF Well, AddsUp
<1>11. \A r \in Requests, s \in Wallets :
           (/\ req[r].pc \in Chosen \ {"fill"} /\ s = Seller(r)
            /\ order'[req[r].order].status = "cancelled"
            /\ order[req[r].order].status # "cancelled")
              => Owed(s)' + req[r].bps <= holders[s]
  <2> SUFFICES ASSUME NEW r \in Requests, req[r].pc \in Chosen,
                      order'[req[r].order].status = "cancelled",
                      order[req[r].order].status # "cancelled"
               PROVE  FALSE
    OBVIOUS
  <2>1. req[r].pc \in SettleSteps
    BY DEF Chosen, SettleSteps
  <2>2. req[r].order \in Orders \ {o}
    BY <1>4, <2>1, OrderOf
  <2> QED BY <1>3, <2>2
<1>12. /\ \A x \in Orders : order[x].status # "absent" =>
               /\ order'[x].seller = order[x].seller /\ order'[x].bps = order[x].bps
               /\ order'[x].buyer = order[x].buyer
               /\ order'[x].status \in {order[x].status, "cancelled"}
       /\ \A x \in Orders : order[x].status = "absent" => order'[x].status # "filled"
  BY <1>1, <1>2, <1>3
<1> QED BY <1>1, <1>10, <1>11, <1>12, PagesCalm

\* A cancelled order is on offer no more; who is buying it meanwhile gets it.
LEMMA CancelCalm ==
    ASSUME SettleInv, Well, NEW o \in Orders, Cancel(o)
    PROVE  Well'
<1>1. /\ order[o].status \in {"open", "filled"}
      /\ order' = [order EXCEPT ![o].status = "cancelled"]
      /\ req' = req /\ holders' = holders /\ selling' = selling
      /\ order \in [Orders -> Order] /\ holders \in [Wallets -> Nat] /\ selling \in [Wallets -> Nat]
  BY DEF Cancel, pages, SettleInv, TablesOK, Well, AddsUp
<1>2. /\ order'[o].status = "cancelled"
      /\ \A x \in Orders : /\ order'[x].seller = order[x].seller /\ order'[x].bps = order[x].bps
                           /\ order'[x].buyer = order[x].buyer
                           /\ x # o => order'[x] = order[x]
  BY <1>1 DEF Order
<1>3. \A v \in Wallets : OnOffer(v)' = OnOffer(v) \ {o}
  <2> TAKE v \in Wallets
  <2>1. \A x \in Orders \ {o} : x \in OnOffer(v)' <=> x \in OnOffer(v)
    BY <1>1, <1>2 DEF OnOffer, OpenOrders
  <2>2. o \notin OnOffer(v)'
    BY <1>2 DEF OnOffer, OpenOrders
  <2>3. OnOffer(v) \subseteq Orders /\ OnOffer(v)' \subseteq Orders
    BY DEF OnOffer, OpenOrders
  <2> QED BY <2>1, <2>2, <2>3
<1>4. \A v \in Wallets : \A x \in OnOffer(v) : order'[x].bps = order[x].bps
  BY <1>2, OwedType
<1>5. \A v \in Wallets :
          /\ Owed(v)' \in Nat /\ Owed(v)' <= Owed(v)
          /\ o \in OnOffer(v) => Owed(v)' + order[o].bps <= Owed(v)
  <2> TAKE v \in Wallets
  <2>1. Owed(v) \in Nat /\ Bps(OnOffer(v)) \in Nat /\ selling[v] \in Nat /\ order[o].bps \in Nat
    BY <1>1, OwedType DEF Order
  <2>2. Owed(v) = Bps(OnOffer(v)) + selling[v] /\ Owed(v)' = Bps(OnOffer(v))' + selling[v]
    BY <1>1 DEF Owed
  <2>3. CASE o \notin OnOffer(v)
    <3>1. OnOffer(v)' = OnOffer(v)
      BY <1>3, <2>3
    <3>2. Bps(OnOffer(v))' = Bps(OnOffer(v))
      BY <1>4, <3>1, BpsSame
    <3>3. Owed(v)' = Owed(v)
      BY <2>2, <3>2
    <3> QED BY <2>1, <2>3, <3>3
  <2>4. CASE o \in OnOffer(v)
    <3> DEFINE had == Bps(OnOffer(v))
               left == Bps(OnOffer(v))'
               g == [x \in Orders |-> order'[x].bps]
               S == OnOffer(v) \ {o}
    <3>1. had = order[o].bps + left
      <4>1. OnOffer(v)' = OnOffer(v) \ {o} /\ \A x \in OnOffer(v) \ {o} : order'[x].bps = order[x].bps
        BY <1>3, <1>4
      <4> QED BY <2>4, <4>1, BpsLess
    <3>2. left \in Nat
      <4>1. IsFiniteSet(S) /\ S \subseteq Orders
        BY OwedType, FS_RemoveElement
      <4>2. \A x \in S : g[x] \in Int /\ g[x] >= 0
        BY <1>1, <1>2, <4>1 DEF Order
      <4>3. left = SumFunctionOnSet(g, S)
        BY <1>3 DEF Bps
      <4> HIDE DEF g, left, S
      <4> QED BY <4>1, <4>2, <4>3, SumType
    <3>3. Owed(v) = had + selling[v] /\ Owed(v)' = left + selling[v]
      BY <2>2
    <3> HIDE DEF had, left, g, S
    <3>4. Owed(v)' \in Nat /\ Owed(v)' + order[o].bps = Owed(v)
      BY <2>1, <3>1, <3>2, <3>3
    <3>5. Owed(v)' <= Owed(v)
      BY <2>1, <3>4
    <3> QED BY <2>1, <3>4, <3>5
  <2> QED BY <2>3, <2>4
<1>6. \A v \in Wallets : Owed(v)' <= holders[v]
  <2> TAKE v \in Wallets
  <2>1. Owed(v)' <= Owed(v) /\ Owed(v) <= holders[v] /\ Owed(v)' \in Nat /\ Owed(v) \in Nat
        /\ holders[v] \in Nat
    BY <1>1, <1>5, OwedType DEF Well, AddsUp
  <2> QED BY <2>1
<1>7. ASSUME NEW r \in Requests, NEW s \in Wallets,
             req[r].pc \in Chosen \ {"fill"}, s = Seller(r),
             order'[req[r].order].status = "cancelled",
             order[req[r].order].status # "cancelled"
      PROVE  Owed(s)' + req[r].bps <= holders[s]
  <2>1. req[r].pc \in SettleSteps /\ InFlight(r)
    BY <1>7 DEF Chosen, SettleSteps, InFlight, Ended
  <2>2. req[r].order = o
    BY <1>2, <1>7, <2>1, OrderOf
  <2>3. order[o].status = "open" /\ req[r].bps = order[o].bps
    BY <1>7, <2>1, <2>2 DEF Well, Follows
  <2>4. \A q \in Requests : req[q].pc # "fill"
    <3> SUFFICES ASSUME NEW q \in Requests, req[q].pc = "fill" PROVE FALSE
      OBVIOUS
    <3>1. InFlight(q)
      BY DEF InFlight, Ended
    <3> QED BY <1>7, <2>1, <3>1 DEF Well, OneInFlight
  <2>5. o \in OnOffer(s)
    BY <1>7, <2>2, <2>3, <2>4 DEF OnOffer, OpenOrders, Seller
  <2>6. Owed(s)' + order[o].bps <= Owed(s) /\ Owed(s) <= holders[s]
    BY <1>5, <2>5 DEF Well, AddsUp
  <2>7. Owed(s)' \in Nat /\ Owed(s) \in Nat /\ order[o].bps \in Nat /\ holders[s] \in Nat
    BY <1>1, <1>5, OwedType DEF Order
  <2> QED BY <2>3, <2>6, <2>7
<1>8. \A r \in Requests, s \in Wallets :
          (/\ req[r].pc \in Chosen \ {"fill"} /\ s = Seller(r)
           /\ order'[req[r].order].status = "cancelled"
           /\ order[req[r].order].status # "cancelled")
             => Owed(s)' + req[r].bps <= holders[s]
  BY <1>7
<1>9. /\ \A x \in Orders : order[x].status # "absent" =>
              /\ order'[x].seller = order[x].seller /\ order'[x].bps = order[x].bps
              /\ order'[x].buyer = order[x].buyer
              /\ order'[x].status \in {order[x].status, "cancelled"}
      /\ \A x \in Orders : order[x].status = "absent" => order'[x].status # "filled"
  BY <1>1, <1>2
<1> QED BY <1>1, <1>5, <1>6, <1>8, <1>9, PagesCalm

-----------------------------------------------------------------------------
(***************************************************************************)
(* The invariant of the calm market, and the theorems.                     *)
(***************************************************************************)
\* At the mint the issuer holds everything and nothing is on offer.
LEMMA CalmInit == Init => CalmInv
<1> SUFFICES ASSUME Init PROVE Well
  BY DEF CalmInv
<1>1. SettleInv
  BY SettleInit
<1>2. /\ \A r \in Requests : req[r] = NewRequest
      /\ \A o \in Orders : order[o] = NoOrder
      /\ holders = [w \in Wallets |-> IF w = Issuer THEN Whole ELSE 0]
      /\ selling = [w \in Wallets |-> 0]
  BY DEF Init
<1>3. \A r \in Requests : req[r].pc = "new" /\ ~req[r].booked
  BY <1>2 DEF NewRequest
<1>4. OneInFlight /\ Booked = {} /\ \A r \in Requests : Follows(r) /\ Secured(r)
  BY <1>3 DEF OneInFlight, InFlight, Ended, Booked, Follows, Secured, WithBook, SettleSteps,
     OfferSteps, Chosen, AfterBuyer
<1>5. BuyersKnown
  BY <1>2 DEF BuyersKnown, NoOrder
<1>6. \A w \in Wallets : Owed(w) = 0
  <2> TAKE w \in Wallets
  <2>1. OnOffer(w) = {}
    BY <1>2 DEF OnOffer, OpenOrders, NoOrder
  <2>2. Bps(OnOffer(w)) = 0
    BY <2>1, SumOfNone DEF Bps
  <2> QED BY <1>2, <2>2 DEF Owed
<1>7. SumFunction(holders) = Whole
  <2>1. DOMAIN holders = Wallets /\ SumFunction(holders) = SumFunctionOnSet(holders, Wallets)
    BY <1>2 DEF SumFunction, SumFunctionOnSet, FoldFunction
  <2>2. (\A w \in Wallets : holders[w] \in Int) /\ holders[Issuer] = Whole
        /\ \A w \in Wallets \ {Issuer} : holders[w] = 0
    BY <1>2, SizesAssumption, WalletsAssumption
  <2>3. SumFunctionOnSet(holders, Wallets)
          = holders[Issuer] + SumFunctionOnSet(holders, Wallets \ {Issuer})
    BY <2>2, WalletsAssumption, SumSplit
  <2>4. SumFunctionOnSet(holders, Wallets \ {Issuer}) = 0
    <3> DEFINE T == Wallets \ {Issuer}
    <3>1. IsFiniteSet(T)
      BY WalletsAssumption, FS_RemoveElement
    <3>2. {} \in SUBSET T /\ (\A v \in T : holders[v] \in Int) /\ \A v \in T \ {} : holders[v] = 0
      BY <2>2
    <3> HIDE DEF T
    <3>3. SumFunctionOnSet(holders, T) = SumFunctionOnSet(holders, {})
      BY <3>1, <3>2, SumOfPart
    <3>4. SumFunctionOnSet(holders, T) = 0
      BY <3>3, SumOfNone
    <3> QED BY <3>4 DEF T
  <2> QED BY <2>1, <2>2, <2>3, <2>4, SizesAssumption
<1>8. AddsUp
  <2>1. holders \in [Wallets -> Nat] /\ \A w \in Wallets : holders[w] \in Nat
    BY SizesAssumption DEF Init
  <2> QED BY <1>6, <1>7, <2>1 DEF AddsUp
<1>9. Balanced
  <2> SUFFICES ASSUME NEW w \in Wallets
               PROVE  holders[w] + Moved(Sold(w))
                        = (IF w = Issuer THEN Whole ELSE 0) + Moved(Bought(w))
    BY DEF Balanced
  <2>1. Sold(w) = {} /\ Bought(w) = {}
    BY <1>4 DEF Sold, Bought
  <2>2. Moved(Sold(w)) = 0 /\ Moved(Bought(w)) = 0
    BY <2>1, SumOfNone DEF Moved
  <2> QED BY <1>2, <2>2, SizesAssumption
<1> QED BY <1>4, <1>5, <1>8, <1>9 DEF Well

\* A disturbance is never forgotten, and without one every step keeps the rest.
LEMMA CalmStep == SettleInv /\ CalmInv /\ [Next]_vars => CalmInv'
<1> SUFFICES ASSUME SettleInv, CalmInv, [Next]_vars, calm' PROVE Well'
  BY DEF CalmInv
<1>1. Well
  <2>1. calm
    BY DEF Next, Buy, Offer, Sync, Settle, Pay, AgentPay, Pays, ReadOrder, RecordBuyer,
       RecordPayment, ReadBook, RegisterBuyer, RegisterSeller, Registers, WriteBook, Fill,
       OfferShares, AwaitKyc, OfferIssuer, OfferInvestor, OfferRead, OfferWrite, SyncWrite,
       Fail, LoadPage, ListingFails, Sell, SellFromAssetPage, CreateOrder, Cancel, vars
  <2> QED BY <2>1 DEF CalmInv
<1>2. ASSUME NEW r \in Requests, Settle(r) PROVE Well'
  BY <1>1, <1>2, SettleTalks, RecordsCalm, WriteBookCalm, FillCalm DEF Settle
<1>3. ASSUME NEW r \in Requests, NEW w \in Wallets, NEW o \in Orders, Buy(r, w, o) PROVE Well'
  BY <1>1, <1>3, BuyCalm
<1>4. ASSUME NEW r \in Requests, NEW w \in Wallets, NEW b \in Sizes, Offer(r, w, b) PROVE Well'
  BY <1>1, <1>4, OfferCalm
<1>5. ASSUME NEW r \in Requests, OfferShares(r) \/ Sync(r) \/ SyncWrite(r) \/ Fail(r) PROVE Well'
  BY <1>1, <1>5, OfferTalks, OfferWriteCalm, SyncCalm, FailCalm DEF OfferShares
<1>6. ASSUME NEW w \in Wallets, LoadPage(w) \/ ListingFails(w) PROVE Well'
  BY <1>1, <1>6, LoadCalm
<1>7. ASSUME NEW w \in Wallets, NEW b \in Sizes, Sell(w, b) PROVE Well'
  BY <1>1, <1>7, SellCalm
<1>8. ASSUME NEW b \in Sizes, SellFromAssetPage(b) PROVE Well'
  <2>1. PICK w \in Wallets : w = Issuer
    BY WalletsAssumption
  <2> QED BY <1>1, <1>8, <2>1, SellCalm
<1>9. ASSUME NEW w \in Wallets, NEW o \in Orders, CreateOrder(w, o) PROVE Well'
  BY <1>1, <1>9, CreateOrderCalm
<1>10. ASSUME NEW o \in Orders, Cancel(o) PROVE Well'
  BY <1>1, <1>10, CancelCalm
<1>11. ASSUME UNCHANGED vars PROVE Well'
  BY <1>1, <1>11, LoadCalm
<1> QED
  BY <1>2, <1>3, <1>4, <1>5, <1>6, <1>7, <1>8, <1>9, <1>10, <1>11 DEF Next

\* Both invariants hold throughout.
LEMMA AlwaysWell == Spec => [](SettleInv /\ CalmInv)
<1>1. Init => SettleInv /\ CalmInv
  BY SettleInit, CalmInit
<1>2. SettleInv /\ CalmInv /\ [Next]_vars => (SettleInv /\ CalmInv)'
  BY SettleStep, CalmStep
<1> QED BY <1>1, <1>2, PTL DEF Spec

\* Whatever failed before and whatever is cancelled meanwhile, the buyer on
\* record with a filled order is the one who got its shares (settle-trade).
THEOREM BuyerIsKnown == Spec => []BuyerOfRecord
<1>1. CalmInv => BuyerOfRecord
  BY DEF CalmInv, Well, BuyersKnown, BuyerOfRecord
<1> QED BY <1>1, AlwaysWell, PTL

\* The cap table always adds up to the whole, and every wallet holds what it
\* has on offer: settlements, failed ones, cancellations, offers and syncs.
THEOREM CapTableAddsUp == Spec => []Conserved
<1>1. CalmInv => Conserved
  BY DEF CalmInv, Well, AddsUp, Conserved
<1> QED BY <1>1, AlwaysWell, PTL

\* Without offers the cap table is what the trades made of it: none is lost and
\* none counts twice.
THEOREM TradesCount == Spec => []TradesAreKept
<1>1. CalmInv => TradesAreKept
  <2> SUFFICES ASSUME Balanced, \A r \in Booked : req[r].order # None, NEW w \in Wallets
               PROVE  holders[w] + Moved({r \in Booked : Seller(r) = w})
                        = (IF w = Issuer THEN Whole ELSE 0)
                            + Moved({r \in Booked : req[r].who = w})
    BY DEF CalmInv, Well, TradesAreKept
  <2> QED BY DEF Balanced, Sold, Bought
<1> QED BY <1>1, AlwaysWell, PTL
=============================================================================
