----------------------------- MODULE TradeEscrow -----------------------------
(***************************************************************************)
(* The trade escrow contract (contracts/trade-escrow/src/main.rs): sellers *)
(* list a weight in basis points at a price, a buyer pays the price into   *)
(* the escrow purse, is registered with the yield distributor by a call to *)
(* that contract, and the escrow pays the seller.                          *)
(*                                                                         *)
(* Transactions are serial, and every entry point but buy is one step.     *)
(* buy gives up control in the middle, when it calls the yield contract:   *)
(* it is split there into BuyLock (everything up to the call) and          *)
(* BuyRelease (everything after it), with a frame on `stack' for what the  *)
(* code keeps in its local variables meanwhile.  The contract called is    *)
(* whatever hash the installer passed.  It may revert, which undoes the    *)
(* whole transaction, and if Reentrant it may call this contract back      *)
(* before it returns; get_caller is then still the account that started    *)
(* the transaction.                                                        *)
(***************************************************************************)
EXTENDS Integers, Sequences, FiniteSets, Functions

CONSTANTS Accounts,
          Admin,          \* the installer
          NoAccount,      \* "no buyer recorded"
          Weights,        \* the bps arguments of list
          Prices,         \* the price_cspr arguments of list
          Amounts,        \* the amount arguments of buy
          PriceModulus,   \* 2^256: price_bytes keeps the low 32 bytes only
          Funds,          \* what every account owns at the start
          Rights,         \* the weights registered at the start
          MaxListings,    \* bound: listings created over a behaviour
          MaxDepth,       \* bound: buys nested in one transaction
          Reentrant       \* may the yield contract call back?

ASSUME AccountsAssumption  == /\ IsFiniteSet(Accounts) /\ Admin \in Accounts
                              /\ NoAccount \notin Accounts
ASSUME ArgumentsAssumption == /\ Weights \subseteq Nat /\ Prices \subseteq Nat
                              /\ Amounts \subseteq Nat
ASSUME ModulusAssumption   == PriceModulus \in Nat \ {0}
ASSUME StartAssumption     == Funds \in Nat /\ Rights \in [Accounts -> Nat]
ASSUME BoundsAssumption    == MaxListings \in Nat /\ MaxDepth \in Nat
ASSUME ReentrantAssumption == Reentrant \in BOOLEAN

VARIABLES listings,       \* LST-0, LST-1, ...: what the listings map holds
          escrow,         \* the balance of escrow_purse
          cash,           \* account -> the balance of its main purse
          shares,         \* account -> its weight at the yield contract
          stack,          \* the buys in progress, the innermost first
          origin,         \* who started the transaction in progress
          saved           \* the chain's state before that transaction

Current == [listings |-> listings, escrow |-> escrow, cash |-> cash, shares |-> shares]

vars == <<listings, escrow, cash, shares, stack, origin, saved>>

OPEN == 0
PENDING == 1
FILLED == 2
CANCELLED == 3

Idle == stack = <<>>

\* An entry point runs as a transaction of its own, or is called back.
MayCall(caller) == Idle \/ (Reentrant /\ caller = origin)

\* The end of an entry point: a transaction of its own is committed.
Return ==
    /\ saved' = IF Idle THEN Current' ELSE saved
    /\ UNCHANGED <<stack, origin>>

Listed(i) == i \in 1..Len(listings)

SetStatus(i, status) == [listings EXCEPT ![i].status = status]

-----------------------------------------------------------------------------
(* The checks and updates of the entry points, some preceded by slips of   *)
(* it that the properties below must notice and no action uses.            *)

AnyAmount(i, amount) == TRUE
PaysPrice(i, amount) == amount >= listings[i].price

\* The re-entrancy guard of buy: the listing is pending, for this buyer.
LockedWhenAnswered(i, buyer) == [listings EXCEPT ![i].buyer = buyer]
Locked(i, buyer) == [listings EXCEPT ![i].status = PENDING, ![i].buyer = buyer]

\* A transfer out of the escrow purse, for buy and for refund.
Covered(amount) == escrow >= amount

Debit(amount) == escrow - amount

\* What buy pays the seller: all that was locked, also what exceeds the price.
PayPrice(f) == listings[f.id].price
Payment(f) == f.amount

MayCancel(caller, i) == caller = listings[i].seller

-----------------------------------------------------------------------------
Init ==
    /\ listings = <<>>
    /\ escrow = 0
    /\ cash = [a \in Accounts |-> Funds]
    /\ shares = Rights
    /\ stack = <<>>
    /\ origin = NoAccount
    /\ saved = Current

\* Nobody checks that the seller has the weight it offers.
List(caller, bps, price) ==
    /\ MayCall(caller)
    /\ Len(listings) < MaxListings
    /\ bps # 0
    /\ price # 0
    /\ listings' = Append(listings,
                          [seller |-> caller, bps |-> bps, price |-> price % PriceModulus,
                           status |-> OPEN, buyer |-> NoAccount, paid |-> 0])
    /\ UNCHANGED <<escrow, cash, shares>>
    /\ Return

\* buy up to the call of register_holder.
BuyLock(caller, i, amount) ==
    /\ MayCall(caller)
    /\ Len(stack) < MaxDepth
    /\ Listed(i)
    /\ listings[i].status = OPEN
    /\ caller # listings[i].seller
    /\ PaysPrice(i, amount)
    /\ cash[caller] >= amount
    /\ listings' = Locked(i, caller)
    /\ cash' = [cash EXCEPT ![caller] = @ - amount]
    /\ escrow' = escrow + amount
    /\ stack' = <<[id |-> i, seller |-> listings[i].seller, bps |-> listings[i].bps,
                   amount |-> amount]>> \o stack
    /\ origin' = caller
    /\ UNCHANGED <<shares, saved>>

\* The yield contract has registered the buyer and returned; the rest of buy.
\* (paid is history: what the seller received for the listing.)
BuyRelease ==
    /\ ~Idle
    /\ LET f == Head(stack) IN
       /\ Covered(Payment(f))
       /\ shares' = [shares EXCEPT ![origin] = f.bps]
       /\ escrow' = Debit(Payment(f))
       /\ cash' = [cash EXCEPT ![f.seller] = @ + Payment(f)]
       /\ listings' = [listings EXCEPT ![f.id].status = FILLED, ![f.id].paid = @ + Payment(f)]
    /\ stack' = Tail(stack)
    /\ origin' = IF Len(stack) = 1 THEN NoAccount ELSE origin
    /\ saved' = IF Len(stack) = 1 THEN Current' ELSE saved

\* The yield contract, a nested entry point or the payment to the seller
\* reverts, and with it the transaction.
Revert ==
    /\ ~Idle
    /\ listings' = saved.listings
    /\ escrow' = saved.escrow
    /\ cash' = saved.cash
    /\ shares' = saved.shares
    /\ stack' = <<>>
    /\ origin' = NoAccount
    /\ UNCHANGED saved

Cancel(caller, i) ==
    /\ MayCall(caller)
    /\ Listed(i)
    /\ MayCancel(caller, i)
    /\ listings[i].status = OPEN
    /\ listings' = SetStatus(i, CANCELLED)
    /\ UNCHANGED <<escrow, cash, shares>>
    /\ Return

\* The price goes back, not the amount that was locked.
Refund(caller, i) ==
    /\ MayCall(caller)
    /\ caller = Admin
    /\ Listed(i)
    /\ listings[i].buyer # NoAccount
    /\ listings[i].status = PENDING
    /\ Covered(listings[i].price)
    /\ escrow' = Debit(listings[i].price)
    /\ cash' = [cash EXCEPT ![listings[i].buyer] = @ + listings[i].price]
    /\ listings' = SetStatus(i, CANCELLED)
    /\ UNCHANGED shares
    /\ Return

Ids == 1..MaxListings

Next ==
    \/ \E c \in Accounts, bps \in Weights, price \in Prices : List(c, bps, price)
    \/ \E c \in Accounts, i \in Ids, amount \in Amounts : BuyLock(c, i, amount)
    \/ BuyRelease
    \/ Revert
    \/ \E c \in Accounts, i \in Ids : Cancel(c, i)
    \/ \E c \in Accounts, i \in Ids : Refund(c, i)

Spec == Init /\ [][Next]_vars

-----------------------------------------------------------------------------
ListingRecords ==
    [seller : Accounts, bps : Nat, price : Nat, status : {OPEN, PENDING, FILLED, CANCELLED},
     buyer : Accounts \cup {NoAccount}, paid : Nat]

Frames == [id : Ids, seller : Accounts, bps : Nat, amount : Nat]

States == [listings : Seq(ListingRecords), escrow : Nat, cash : [Accounts -> Nat],
           shares : [Accounts -> Nat]]

\* The types of the contract's cells and of its local variables.
TypeOK ==
    /\ Current \in States
    /\ saved \in States
    /\ stack \in Seq(Frames)
    /\ origin \in Accounts \cup {NoAccount}

\* Between transactions nothing is half done: no listing is pending, no mote is
\* in escrow, whatever the yield contract did while it had control.
SettledWhenIdle ==
    Idle => /\ escrow = 0
            /\ \A i \in 1..Len(listings) : listings[i].status # PENDING

\* main.rs:9: while a buy of a listing is in progress nobody else buys it, and
\* its seller cannot withdraw it; only the admin's refund can (and only when
\* the admin is the buyer's own transaction).
HeldMidTrade ==
    /\ \A j, k \in 1..Len(stack) : j # k => stack[j].id # stack[k].id
    /\ \A k \in 1..Len(stack) :
          LET l == listings[stack[k].id] IN
          \/ l.status = PENDING /\ l.buyer = origin
          \/ l.status = CANCELLED /\ origin = Admin

\* What a committed sale costs and what a listing that is not sold costs: the
\* seller of a filled listing got at least the price, once, and nobody paid for
\* any other listing.
SoldIsPaid ==
    Idle => \A i \in 1..Len(listings) :
                LET l == listings[i] IN
                IF l.status = FILLED THEN /\ l.paid >= l.price
                                          /\ l.paid \in Amounts
                                          /\ l.buyer \notin {NoAccount, l.seller}
                                     ELSE l.paid = 0 /\ l.buyer = NoAccount

\* The book of offers that the chain shows between transactions.
Book ==
    LET shown(l) ==
            [seller |-> l.seller, bps |-> l.bps, price |-> l.price, buyer |-> l.buyer,
             is |-> CASE l.status = OPEN -> "open" [] l.status = FILLED -> "sold"
                      [] l.status = CANCELLED -> "withdrawn" [] OTHER -> "pending"]
    IN [i \in 1..Len(saved.listings) |-> shown(saved.listings[i])]

Swap == INSTANCE AtomicSwap WITH book <- Book, cash <- saved.cash, shares <- saved.shares

\* As long as the yield contract does not call back, a trade is atomic: what the
\* chain shows changes as the abstract swap allows, one sale at a time, although
\* buy takes several steps and may be undone in the middle.
ImplementsSwap == Swap!Spec
=============================================================================
