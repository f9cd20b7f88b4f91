-------------------------- MODULE TradeEscrowProofs --------------------------
(***************************************************************************)
(* Proofs about the trade escrow, for any number of accounts and listings, *)
(* any nesting of buys and any behaviour of the yield contract: what holds *)
(* between transactions and in the middle of one, and that the escrow      *)
(* implements the atomic swap when it is not called back.                  *)
(*                                                                         *)
(* The inductive invariant says who holds which listing: every buy on the  *)
(* stack has one listing in hand, locked for the account that started the  *)
(* transaction, all other listings are committed, and the escrow purse has *)
(* at most what the buys on the stack paid into it.  So nothing is in hand *)
(* or in escrow when the stack is empty, and what a revert goes back to is *)
(* such a state too.                                                       *)
(***************************************************************************)
EXTENDS TradeEscrow, Sums, SequenceTheorems

\* The listings that the buys of a stack hold, and for which amount each.
HeldIn(s) == {s[k].id : k \in 1..Len(s)}

Distinct(s) == \A j, k \in 1..Len(s) : j # k => s[j].id # s[k].id

AmountsIn(s) ==
    [i \in Ids |-> IF i \in HeldIn(s)
                   THEN s[CHOOSE k \in 1..Len(s) : s[k].id = i].amount
                   ELSE 0]

\* A stack t with one more buy f on top of s: what is held for f comes on top.
LEMMA Stacked ==
  ASSUME NEW s \in Seq(Frames), NEW t \in Seq(Frames), NEW f \in Frames,
         Distinct(s), f.id \notin HeldIn(s),
         Len(t) = Len(s) + 1, t[1] = f, \A k \in 1..Len(s) : t[k + 1] = s[k]
  PROVE  /\ Distinct(t)
         /\ HeldIn(t) = HeldIn(s) \cup {f.id}
         /\ AmountsIn(s)[f.id] = 0
         /\ AmountsIn(t)[f.id] = f.amount
         /\ \A i \in Ids \ {f.id} : AmountsIn(t)[i] = AmountsIn(s)[i]
<1>1. /\ Len(s) \in Nat
      /\ \A k \in 1..Len(t) : k # 1 => k - 1 \in 1..Len(s) /\ t[k] = s[k - 1]
  <2>1. Len(s) \in Nat
    BY LenProperties
  <2>2. \A k \in 1..Len(t) : k # 1 => k - 1 \in 1..Len(s) /\ (k - 1) + 1 = k
    BY <2>1
  <2> QED BY <2>1, <2>2
<1>2. \A k \in 1..Len(s) : k + 1 \in 1..Len(t) /\ t[k + 1] = s[k]
  BY <1>1
<1>3. 1 \in 1..Len(t)
  BY <1>1
<1>4. HeldIn(t) = HeldIn(s) \cup {f.id}
  BY <1>1, <1>2, <1>3 DEF HeldIn
<1>5. Distinct(t)
  <2> SUFFICES ASSUME NEW j \in 1..Len(t), NEW k \in 1..Len(t), j # k
               PROVE  t[j].id # t[k].id
    BY DEF Distinct
  <2>1. CASE j = 1
    BY <1>1, <2>1 DEF HeldIn
  <2>2. CASE k = 1
    BY <1>1, <2>2 DEF HeldIn
  <2>3. CASE j # 1 /\ k # 1
    <3>1. /\ j - 1 \in 1..Len(s) /\ k - 1 \in 1..Len(s) /\ j - 1 # k - 1
          /\ t[j] = s[j - 1] /\ t[k] = s[k - 1]
      BY <1>1, <2>3
    <3> QED BY <3>1 DEF Distinct
  <2> QED BY <2>1, <2>2, <2>3
<1>6. f.id \in Ids
  BY DEF Frames
<1>7. \A i \in HeldIn(t) : \A k \in 1..Len(t) :
         t[k].id = i => (CHOOSE m \in 1..Len(t) : t[m].id = i) = k
  BY <1>5 DEF Distinct
<1>8. \A i \in HeldIn(s) : \A k \in 1..Len(s) :
         s[k].id = i => (CHOOSE m \in 1..Len(s) : s[m].id = i) = k
  BY DEF Distinct
<1>9. AmountsIn(s)[f.id] = 0
  BY <1>6 DEF AmountsIn
<1>10. AmountsIn(t)[f.id] = f.amount
  <2>1. 1 \in 1..Len(t) /\ f.id \in HeldIn(t)
    BY <1>3, <1>4
  <2>2. (CHOOSE m \in 1..Len(t) : t[m].id = f.id) = 1
    BY <1>7, <2>1
  <2> QED BY <1>6, <2>1, <2>2 DEF AmountsIn
<1>11. ASSUME NEW i \in Ids \ {f.id} PROVE AmountsIn(t)[i] = AmountsIn(s)[i]
  <2>1. CASE i \in HeldIn(s)
    <3>1. PICK k \in 1..Len(s) : s[k].id = i
      BY <2>1 DEF HeldIn
    <3>2. k + 1 \in 1..Len(t) /\ t[k + 1].id = i
      BY <1>1, <1>2, <3>1
    <3>3. (CHOOSE m \in 1..Len(t) : t[m].id = i) = k + 1
      BY <1>4, <1>7, <2>1, <3>2
    <3>4. (CHOOSE m \in 1..Len(s) : s[m].id = i) = k
      BY <1>8, <2>1, <3>1
    <3>5. AmountsIn(s)[i] = s[k].amount
      BY <2>1, <3>4 DEF AmountsIn
    <3>6. AmountsIn(t)[i] = t[k + 1].amount
      BY <1>4, <2>1, <3>3 DEF AmountsIn
    <3> QED BY <1>2, <3>1, <3>5, <3>6
  <2>2. CASE i \notin HeldIn(s)
    BY <1>4, <2>2 DEF AmountsIn
  <2> QED BY <2>1, <2>2
<1> QED BY <1>4, <1>5, <1>9, <1>10, <1>11

\* buy puts a frame on top of the stack.
LEMMA Pushed ==
  ASSUME NEW s \in Seq(Frames), NEW f \in Frames, NEW t, t = <<f>> \o s
  PROVE  /\ t \in Seq(Frames) /\ t # <<>>
         /\ Len(t) = Len(s) + 1
         /\ t[1] = f
         /\ \A k \in 1..Len(s) : t[k + 1] = s[k]
<1>1. /\ t \in Seq(Frames)
      /\ Len(t) = Len(s) + 1
      /\ Len(s) \in Nat
      /\ \A k \in 1..(Len(s) + 1) : t[k] = IF k <= 1 THEN f ELSE s[k - 1]
  <2>1. /\ <<f>> \in Seq(Frames)
        /\ Len(<<f>>) = 1
        /\ <<f>>[1] = f
        /\ Len(s) \in Nat
    OBVIOUS
  <2>2. \A k \in 1..(1 + Len(s)) : (<<f>> \o s)[k] = IF k <= 1 THEN <<f>>[k] ELSE s[k - 1]
    BY <2>1, ConcatProperties, SMT
  <2>3. t \in Seq(Frames) /\ Len(t) = Len(s) + 1
    BY <2>1, ConcatProperties, SMT
  <2> QED BY <2>1, <2>2, <2>3
<1>2. \A k \in 1..Len(s) : t[k + 1] = s[k]
  BY <1>1
<1>3. t[1] = f /\ t # <<>>
  BY <1>1
<1> QED BY <1>1, <1>2, <1>3

\* A buy that ends takes its amount out again.
LEMMA Popped ==
  ASSUME NEW s \in Seq(Frames), Distinct(s), s # <<>>
  PROVE  /\ Tail(s) \in Seq(Frames)
         /\ Distinct(Tail(s))
         /\ Head(s) \in Frames
         /\ Head(s).id \in HeldIn(s)
         /\ HeldIn(Tail(s)) = HeldIn(s) \ {Head(s).id}
         /\ AmountsIn(s)[Head(s).id] = Head(s).amount
         /\ AmountsIn(Tail(s))[Head(s).id] = 0
         /\ \A i \in Ids \ {Head(s).id} : AmountsIn(Tail(s))[i] = AmountsIn(s)[i]
         /\ Head(s) = s[1]
         /\ Len(s) \in Nat /\ Len(s) >= 1
         /\ Len(Tail(s)) = Len(s) - 1
         /\ \A k \in 1..Len(Tail(s)) : Tail(s)[k] = s[k + 1]
<1> DEFINE f == Head(s)
           t == Tail(s)
<1>1. /\ f \in Frames
      /\ t \in Seq(Frames)
      /\ Len(t) = Len(s) - 1
      /\ \A k \in 1..Len(t) : t[k] = s[k + 1]
  BY HeadTailProperties
<1>2. f = s[1]
  OBVIOUS
<1>3. Len(s) \in Nat /\ Len(s) >= 1 /\ Len(t) \in Nat
  BY EmptySeq, LenProperties
<1>5. /\ Distinct(t)
      /\ f.id \notin HeldIn(t)
  <2>1. \A k \in 1..Len(t) : k + 1 \in 1..Len(s) /\ k + 1 # 1 /\ t[k] = s[k + 1]
    BY <1>1, <1>3
  <2>2. 1 \in 1..Len(s)
    BY <1>3
  <2>3. \A j, k \in 1..Len(t) : j # k => j + 1 # k + 1
    BY <1>3
  <2> HIDE DEF f, t
  <2>4. \A k \in 1..Len(t) : s[k + 1].id # s[1].id
    BY <2>1, <2>2 DEF Distinct
  <2>5. f.id \notin HeldIn(t)
    BY <1>2, <2>1, <2>4 DEF HeldIn
  <2>6. ASSUME NEW j \in 1..Len(t), NEW k \in 1..Len(t), j # k
        PROVE  t[j].id # t[k].id
    <3>1. s[j + 1].id # s[k + 1].id
      BY <2>1, <2>3, <2>6 DEF Distinct
    <3> QED BY <2>1, <3>1
  <2> QED BY <2>5, <2>6 DEF Distinct
<1>6. /\ HeldIn(s) = HeldIn(t) \cup {f.id}
      /\ AmountsIn(t)[f.id] = 0
      /\ AmountsIn(s)[f.id] = f.amount
      /\ \A i \in Ids \ {f.id} : AmountsIn(s)[i] = AmountsIn(t)[i]
  <2>1. f \in Frames /\ t \in Seq(Frames)
    BY <1>1
  <2> HIDE DEF f, t
  <2>2. Len(s) = Len(t) + 1 /\ s[1] = f /\ \A k \in 1..Len(t) : s[k + 1] = t[k]
    BY <1>1, <1>2, <1>3
  <2> QED BY <2>1, <2>2, <1>5, Stacked
<1> HIDE DEF f, t
<1>7. /\ f.id \in HeldIn(s) /\ HeldIn(t) = HeldIn(s) \ {f.id}
      /\ \A i \in Ids \ {f.id} : AmountsIn(t)[i] = AmountsIn(s)[i]
  BY <1>5, <1>6
<1> QED BY <1>1, <1>2, <1>3, <1>5, <1>6, <1>7 DEF f, t

\* What is held is a natural number, and nothing when no buy is in progress.
LEMMA HeldSum ==
  ASSUME NEW s \in Seq(Frames), Distinct(s)
  PROVE  /\ IsFiniteSet(Ids)
         /\ \A i \in Ids : AmountsIn(s)[i] \in Nat
         /\ SumFunctionOnSet(AmountsIn(s), Ids) \in Int
         /\ SumFunctionOnSet(AmountsIn(s), Ids) >= 0
         /\ s = <<>> => SumFunctionOnSet(AmountsIn(s), Ids) = 0
<1>1. IsFiniteSet(Ids)
  BY BoundsAssumption, FS_Interval DEF Ids
<1>2. \A i \in Ids : AmountsIn(s)[i] \in Nat
  <2> TAKE i \in Ids
  <2>1. CASE i \in HeldIn(s)
    <3>1. PICK k \in 1..Len(s) : k = CHOOSE m \in 1..Len(s) : s[m].id = i
      BY <2>1 DEF HeldIn
    <3>2. s[k] \in Frames
      BY ElementOfSeq
    <3>3. s[k].amount \in Nat
      BY <3>2 DEF Frames
    <3> QED BY <2>1, <3>1, <3>3 DEF AmountsIn
  <2>2. CASE i \notin HeldIn(s)
    BY <2>2 DEF AmountsIn
  <2> QED BY <2>1, <2>2
<1>3. SumFunctionOnSet(AmountsIn(s), Ids) \in Int /\ SumFunctionOnSet(AmountsIn(s), Ids) >= 0
  <2>1. \A i \in Ids : AmountsIn(s)[i] \in Int /\ AmountsIn(s)[i] >= 0
    BY <1>2
  <2> QED BY <1>1, <2>1, SumType
<1>4. s = <<>> => SumFunctionOnSet(AmountsIn(s), Ids) = 0
  <2> HAVE s = <<>>
  <2>1. HeldIn(s) = {}
    BY EmptySeq DEF HeldIn
  <2>2. \A i \in Ids : AmountsIn(s)[i] = 0 /\ AmountsIn(s)[i] \in Int
    BY <2>1 DEF AmountsIn
  <2>3. SumFunctionOnSet(AmountsIn(s), Ids) = SumFunctionOnSet(AmountsIn(s), {})
    BY <1>1, <2>2, SumOfPart
  <2> QED BY <2>3, SumOfNone
<1> QED BY <1>1, <1>2, <1>3, <1>4

-----------------------------------------------------------------------------
(* The inductive invariant.                                                *)

\* A listing nothing is in progress for.
Committed(l) ==
    IF l.status = FILLED THEN /\ l.paid >= l.price
                              /\ l.paid \in Amounts
                              /\ l.buyer \notin {NoAccount, l.seller}
                         ELSE l.status # PENDING /\ l.paid = 0 /\ l.buyer = NoAccount

\* A listing l that a buy f has locked in a transaction that o started.
InHand(o, f, l) ==
    /\ f.seller = l.seller /\ l.paid = 0
    /\ l.price <= f.amount /\ f.amount \in Amounts
    /\ l.buyer = o /\ o \in Accounts \ {l.seller}
    /\ l.status = PENDING \/ (l.status = CANCELLED /\ o = Admin)

\* The buys in progress and the listings they hold.
TradesInHand ==
    /\ Distinct(stack)
    /\ \A k \in 1..Len(stack) : /\ stack[k].id \in 1..Len(listings)
                                /\ InHand(origin, stack[k], listings[stack[k].id])
    /\ \A i \in 1..Len(listings) : i \in HeldIn(stack) \/ Committed(listings[i])

\* The escrow purse never holds more than the buys in progress paid into it.
EscrowIsLocked == escrow <= SumFunctionOnSet(AmountsIn(stack), Ids)

Now == /\ Current \in States
       /\ stack \in Seq(Frames)
       /\ origin \in Accounts \cup {NoAccount}
       /\ TradesInHand
       /\ EscrowIsLocked

\* What a revert goes back to.
Settled(s) == /\ s \in States
              /\ s.escrow = 0
              /\ \A i \in 1..Len(s.listings) : Committed(s.listings[i])

Inv == /\ Now
       /\ Settled(saved)
       /\ Idle => saved = Current

\* What Now says of the variables one by one.
LEMMA NowTypes ==
  ASSUME Now
  PROVE  /\ listings \in Seq(ListingRecords) /\ escrow \in Nat
         /\ cash \in [Accounts -> Nat] /\ shares \in [Accounts -> Nat]
         /\ Len(listings) \in Nat
         /\ \A i \in 1..Len(listings) : listings[i] \in ListingRecords
<1>1. listings \in Seq(ListingRecords) /\ escrow \in Nat
      /\ cash \in [Accounts -> Nat] /\ shares \in [Accounts -> Nat]
  BY DEF Now, Current, States
<1> QED BY <1>1, ElementOfSeq, LenProperties

\* Between transactions nothing is held, so the state is one to go back to.
LEMMA NowIsSettled ==
  ASSUME Now, Idle
  PROVE  Settled(Current)
<1>1. Len(stack) = 0 /\ HeldIn(stack) = {}
  BY EmptySeq DEF Idle, HeldIn
<1>2. escrow <= 0
  BY HeldSum DEF Now, Idle, EscrowIsLocked, TradesInHand
<1>3. escrow = 0
  BY <1>2, NowTypes
<1> QED BY <1>1, <1>3 DEF Now, Settled, Current, TradesInHand

\* A listing that is rewritten, and the others.
LEMMA Rewritten ==
  ASSUME Now, NEW i \in 1..Len(listings), NEW e \in ListingRecords,
         listings' = [listings EXCEPT ![i] = e]
  PROVE  /\ listings' \in Seq(ListingRecords)
         /\ Len(listings') = Len(listings)
         /\ listings'[i] = e
         /\ \A j \in 1..Len(listings) \ {i} : listings'[j] = listings[j]
<1>1. listings \in Seq(ListingRecords)
  BY NowTypes
<1> QED BY <1>1, ExceptSeq

\* A new listing is committed, and the others stay what they were.
LEMMA ListStep ==
  ASSUME Inv, NEW c \in Accounts, NEW bps \in Weights, NEW price \in Prices,
         List(c, bps, price)
  PROVE  Now'
<1> DEFINE e == [seller |-> c, bps |-> bps, price |-> price % PriceModulus,
                 status |-> OPEN, buyer |-> NoAccount, paid |-> 0]
<1>1. Now /\ UNCHANGED <<escrow, cash, shares, stack, origin>>
  BY DEF Inv, List, Return
<1>2. e \in ListingRecords
  <2>1. bps \in Nat /\ price \in Nat /\ PriceModulus \in Nat \ {0}
    BY ArgumentsAssumption, ModulusAssumption
  <2>2. price % PriceModulus \in Nat
    BY <2>1
  <2> QED BY <2>1, <2>2 DEF ListingRecords, OPEN
<1>3. Committed(e)
  BY DEF Committed, OPEN, FILLED, PENDING
<1>4. listings' = Append(listings, e)
  BY DEF List
<1> HIDE DEF e
<1>5. /\ listings' \in Seq(ListingRecords)
      /\ Len(listings') = Len(listings) + 1
      /\ \A j \in 1..Len(listings) : listings'[j] = listings[j]
      /\ listings'[Len(listings) + 1] = e
  BY <1>1, <1>2, <1>4, NowTypes, AppendProperties
<1>6. Current' \in States
  BY <1>1, <1>5, NowTypes DEF Current, States
<1>7. \A j \in 1..Len(listings') :
         j \in 1..Len(listings) \/ j = Len(listings) + 1
  BY <1>1, <1>5, NowTypes
<1>8. \A j \in 1..Len(listings) : j \in 1..Len(listings')
  BY <1>1, <1>5, NowTypes
<1>9. TradesInHand'
  BY <1>1, <1>3, <1>5, <1>7, <1>8 DEF Now, TradesInHand, InHand
<1> QED BY <1>1, <1>6, <1>9 DEF Now, EscrowIsLocked

\* What is locked while a listing is open is not that listing.
LEMMA OpenIsFree ==
  ASSUME Now, NEW i \in 1..Len(listings), listings[i].status = OPEN
  PROVE  i \notin HeldIn(stack) /\ listings[i].paid = 0 /\ listings[i].buyer = NoAccount
<1>1. i \notin HeldIn(stack)
  BY DEF Now, TradesInHand, InHand, HeldIn, OPEN, PENDING, CANCELLED
<1> QED BY <1>1 DEF Now, TradesInHand, Committed, OPEN, FILLED

\* buy takes an open listing in hand and adds to the escrow what it locks for it.
LEMMA BuyLockStep ==
  ASSUME Inv, NEW c \in Accounts, NEW i \in Ids, NEW amount \in Amounts,
         BuyLock(c, i, amount)
  PROVE  Now'
<1> DEFINE l == listings[i]
           e == [l EXCEPT !.status = PENDING, !.buyer = c]
           f == [id |-> i, seller |-> l.seller, bps |-> l.bps, amount |-> amount]
<1>1. /\ Now /\ i \in 1..Len(listings) /\ l.status = OPEN
      /\ c # l.seller /\ amount >= l.price /\ cash[c] >= amount
      /\ cash' = [cash EXCEPT ![c] = @ - amount]
      /\ escrow' = escrow + amount
      /\ stack' = <<f>> \o stack /\ origin' = c /\ shares' = shares
      /\ Idle \/ c = origin
  BY DEF Inv, BuyLock, Listed, PaysPrice, MayCall
<1>2. l \in ListingRecords /\ amount \in Nat
  BY <1>1, NowTypes, ArgumentsAssumption
<1>3. /\ e \in ListingRecords
      /\ e.seller = l.seller /\ e.price = l.price /\ e.paid = l.paid
      /\ e.buyer = c /\ e.status = PENDING
  BY <1>2 DEF ListingRecords, PENDING
<1>4. listings' = [listings EXCEPT ![i] = e]
  BY DEF BuyLock, Locked
<1>5. /\ f \in Frames /\ f.id = i /\ f.seller = l.seller /\ f.amount = amount
  BY <1>2 DEF Frames, ListingRecords
<1>6. i \notin HeldIn(stack) /\ l.paid = 0
  BY <1>1, OpenIsFree
<1> HIDE DEF e, f, l
<1>7. /\ listings' \in Seq(ListingRecords)
      /\ Len(listings') = Len(listings)
      /\ listings'[i] = e
      /\ \A j \in 1..Len(listings) \ {i} : listings'[j] = listings[j]
  BY <1>1, <1>3, <1>4, Rewritten
<1>8. stack \in Seq(Frames) /\ Distinct(stack)
  BY <1>1 DEF Now, TradesInHand
<1>9. /\ stack' \in Seq(Frames)
      /\ Len(stack') = Len(stack) + 1
      /\ stack'[1] = f
      /\ \A k \in 1..Len(stack) : stack'[k + 1] = stack[k]
      /\ Len(stack) \in Nat
  BY <1>1, <1>5, <1>8, Pushed, LenProperties
<1>10. /\ Distinct(stack')
       /\ HeldIn(stack') = HeldIn(stack) \cup {i}
       /\ AmountsIn(stack)[i] = 0
       /\ AmountsIn(stack')[i] = amount
       /\ \A j \in Ids \ {i} : AmountsIn(stack')[j] = AmountsIn(stack)[j]
  BY <1>5, <1>6, <1>8, <1>9, Stacked
<1>11. \A k \in 1..Len(stack) : /\ stack[k].id \in 1..Len(listings) \ {i}
                                /\ InHand(origin, stack[k], listings[stack[k].id])
                                /\ origin' = origin
  BY <1>1, <1>6, EmptySeq DEF Now, TradesInHand, HeldIn, Idle
<1>12. TradesInHand'
  <2>1. InHand(c, f, e)
    BY <1>1, <1>3, <1>5, <1>6 DEF InHand
  <2>2. ASSUME NEW k \in 1..Len(stack')
        PROVE  /\ stack'[k].id \in 1..Len(listings')
               /\ InHand(origin', stack'[k], listings'[stack'[k].id])
    <3>1. CASE k = 1
      BY <1>1, <1>5, <1>7, <1>9, <2>1, <3>1
    <3>2. CASE k # 1
      <4>1. k - 1 \in 1..Len(stack) /\ (k - 1) + 1 = k
        BY <1>9, <3>2
      <4>2. stack'[k] = stack[k - 1]
        BY <1>9, <4>1
      <4> QED BY <1>7, <1>11, <4>1, <4>2 DEF InHand
    <3> QED BY <3>1, <3>2
  <2>3. \A j \in 1..Len(listings') : j \in HeldIn(stack') \/ Committed(listings'[j])
    BY <1>1, <1>7, <1>10 DEF Now, TradesInHand
  <2> QED BY <1>10, <2>2, <2>3 DEF TradesInHand
<1>13. EscrowIsLocked'
  <2> DEFINE old == SumFunctionOnSet(AmountsIn(stack), Ids)
             new == SumFunctionOnSet(AmountsIn(stack'), Ids)
  <2>1. old \in Int /\ IsFiniteSet(Ids) /\ \A j \in Ids : AmountsIn(stack)[j] \in Int
    BY <1>8, HeldSum
  <2>2. new = old - 0 + amount
    BY <1>2, <1>10, <2>1, SumOfChanged
  <2>3. escrow <= old /\ escrow \in Nat
    BY <1>1, NowTypes DEF Now, EscrowIsLocked
  <2> HIDE DEF old, new
  <2>4. escrow' <= new
    BY <1>1, <1>2, <2>1, <2>2, <2>3
  <2> QED BY <2>4 DEF EscrowIsLocked, new
<1>14. Current' \in States
  <2>1. escrow \in Nat /\ cash \in [Accounts -> Nat] /\ shares \in [Accounts -> Nat]
    BY <1>1, NowTypes
  <2>2. escrow' \in Nat /\ cash' \in [Accounts -> Nat]
    BY <1>1, <1>2, <2>1
  <2> QED BY <1>1, <1>7, <2>1, <2>2 DEF Current, States
<1> QED BY <1>1, <1>9, <1>12, <1>13, <1>14 DEF Now

\* The end of buy commits its listing and takes out of escrow what it locked.
LEMMA BuyReleaseStep ==
  ASSUME Inv, BuyRelease
  PROVE  Now'
<1> DEFINE f == Head(stack)
           l == listings[f.id]
           e == [l EXCEPT !.status = FILLED, !.paid = @ + f.amount]
<1>1. /\ Now /\ stack # <<>> /\ escrow >= f.amount
      /\ shares' = [shares EXCEPT ![origin] = f.bps]
      /\ escrow' = escrow - f.amount
      /\ cash' = [cash EXCEPT ![f.seller] = @ + f.amount]
      /\ stack' = Tail(stack)
      /\ origin' = IF Len(stack) = 1 THEN NoAccount ELSE origin
      /\ stack \in Seq(Frames) /\ Distinct(stack)
  BY DEF Inv, BuyRelease, Idle, Covered, Payment, Debit, Now, TradesInHand
<1>2. listings' = [listings EXCEPT ![f.id] = e]
  BY DEF BuyRelease, Payment
<1> HIDE DEF f
<1>3. /\ stack' \in Seq(Frames) /\ Distinct(stack') /\ f \in Frames
      /\ HeldIn(stack') = HeldIn(stack) \ {f.id}
      /\ AmountsIn(stack)[f.id] = f.amount
      /\ AmountsIn(stack')[f.id] = 0
      /\ \A j \in Ids \ {f.id} : AmountsIn(stack')[j] = AmountsIn(stack)[j]
      /\ f = stack[1] /\ Len(stack) \in Nat /\ Len(stack) >= 1
      /\ Len(stack') = Len(stack) - 1
      /\ \A k \in 1..Len(stack') : stack'[k] = stack[k + 1]
  BY <1>1, Popped DEF f
<1>4. f.id \in Ids /\ f.amount \in Nat /\ f.bps \in Nat /\ f.seller \in Accounts
  BY <1>3 DEF Frames
<1>5. f.id \in 1..Len(listings) /\ InHand(origin, f, l)
  <2>1. 1 \in 1..Len(stack)
    BY <1>3
  <2> QED BY <1>1, <1>3, <2>1 DEF Now, TradesInHand
<1>6. l \in ListingRecords
  BY <1>1, <1>5, NowTypes
<1> HIDE DEF l
<1>7. /\ e \in ListingRecords /\ e.status = FILLED /\ e.paid = f.amount
      /\ e.price = l.price /\ e.buyer = origin /\ e.seller = l.seller
  <2>1. l.paid = 0 /\ l.buyer = origin
    BY <1>5 DEF InHand
  <2>2. l.paid + f.amount = f.amount /\ f.amount \in Nat
    BY <1>4, <2>1
  <2>3. e = [l EXCEPT !.status = FILLED, !.paid = f.amount]
    BY <2>2
  <2> HIDE DEF e
  <2> QED BY <1>6, <2>1, <2>2, <2>3 DEF ListingRecords, FILLED
<1> HIDE DEF e
<1>8. Committed(e)
  BY <1>5, <1>7, AccountsAssumption DEF Committed, InHand
<1>9. /\ listings' \in Seq(ListingRecords)
      /\ Len(listings') = Len(listings)
      /\ listings'[f.id] = e
      /\ \A j \in 1..Len(listings) \ {f.id} : listings'[j] = listings[j]
  BY <1>1, <1>2, <1>5, <1>7, Rewritten
<1>10. TradesInHand'
  <2>1. ASSUME NEW k \in 1..Len(stack')
        PROVE  /\ stack'[k].id \in 1..Len(listings')
               /\ InHand(origin', stack'[k], listings'[stack'[k].id])
    <3>1. k + 1 \in 1..Len(stack) /\ stack'[k] = stack[k + 1] /\ Len(stack) # 1
      BY <1>3
    <3>2. stack'[k].id # f.id
      BY <1>3 DEF HeldIn
    <3>3. origin' = origin
      BY <1>1, <3>1
    <3> QED BY <1>1, <1>9, <3>1, <3>2, <3>3 DEF Now, TradesInHand
  <2>2. \A j \in 1..Len(listings') : j \in HeldIn(stack') \/ Committed(listings'[j])
    BY <1>1, <1>3, <1>8, <1>9 DEF Now, TradesInHand
  <2> QED BY <1>3, <2>1, <2>2 DEF TradesInHand
<1>11. EscrowIsLocked'
  <2> DEFINE old == SumFunctionOnSet(AmountsIn(stack), Ids)
             new == SumFunctionOnSet(AmountsIn(stack'), Ids)
  <2>1. old \in Int /\ IsFiniteSet(Ids) /\ \A j \in Ids : AmountsIn(stack)[j] \in Int
    BY <1>1, HeldSum
  <2>2. /\ AmountsIn(stack)[f.id] = f.amount /\ AmountsIn(stack')[f.id] = 0
        /\ \A j \in Ids \ {f.id} : AmountsIn(stack')[j] = AmountsIn(stack)[j]
    BY <1>3
  <2>5. new = old - f.amount + 0
    BY <1>4, <2>1, <2>2, SumOfChanged
  <2>3. escrow <= old /\ escrow \in Nat
    BY <1>1, NowTypes DEF Now, EscrowIsLocked
  <2> HIDE DEF old, new
  <2>4. escrow' <= new
    BY <1>1, <1>4, <2>1, <2>5, <2>3
  <2> QED BY <2>4 DEF EscrowIsLocked, new
<1>12. Current' \in States
  <2>1. escrow \in Nat /\ cash \in [Accounts -> Nat] /\ shares \in [Accounts -> Nat]
    BY <1>1, NowTypes
  <2>2. escrow' \in Nat
    BY <1>1, <1>4, <2>1
  <2>3. cash' \in [Accounts -> Nat]
    BY <1>1, <1>4, <2>1
  <2>4. shares' \in [Accounts -> Nat]
    BY <1>1, <1>4, <2>1
  <2> QED BY <1>9, <2>2, <2>3, <2>4 DEF Current, States
<1>13. origin' \in Accounts \cup {NoAccount}
  BY <1>1 DEF Now
<1> QED BY <1>3, <1>10, <1>11, <1>12, <1>13 DEF Now

\* A revert goes back to a state in which nothing is in hand.
LEMMA RevertStep ==
  ASSUME Inv, Revert
  PROVE  Now'
<1>1. /\ Settled(saved) /\ listings' = saved.listings /\ escrow' = saved.escrow
      /\ cash' = saved.cash /\ shares' = saved.shares
      /\ stack' = <<>> /\ origin' = NoAccount
  BY DEF Inv, Revert
<1>2. /\ saved.listings \in Seq(ListingRecords) /\ saved.escrow \in Nat
      /\ saved.cash \in [Accounts -> Nat] /\ saved.shares \in [Accounts -> Nat]
      /\ saved.escrow = 0
  BY <1>1 DEF Settled, States
<1>3. stack' \in Seq(Frames) /\ Len(stack') = 0 /\ Distinct(stack')
  BY <1>1, EmptySeq DEF Distinct
<1>4. TradesInHand'
  BY <1>1, <1>3 DEF TradesInHand, Settled
<1>5. EscrowIsLocked'
  BY <1>1, <1>2, <1>3, HeldSum DEF EscrowIsLocked
<1> QED BY <1>1, <1>2, <1>3, <1>4, <1>5 DEF Now, Current, States

\* Only an open listing is cancelled, so it stays committed.
LEMMA CancelStep ==
  ASSUME Inv, NEW c \in Accounts, NEW i \in Ids, Cancel(c, i)
  PROVE  Now'
<1> DEFINE e == [listings[i] EXCEPT !.status = CANCELLED]
<1>1. /\ Now /\ UNCHANGED <<escrow, cash, shares, stack, origin>>
      /\ i \in 1..Len(listings) /\ listings[i].status = OPEN
      /\ listings' = [listings EXCEPT ![i] = e]
  BY DEF Inv, Cancel, Return, Listed, SetStatus
<1>2. listings[i] \in ListingRecords
  BY <1>1, NowTypes
<1>3. i \notin HeldIn(stack) /\ listings[i].paid = 0 /\ listings[i].buyer = NoAccount
  BY <1>1, OpenIsFree
<1>4. e \in ListingRecords /\ Committed(e)
  BY <1>2, <1>3 DEF ListingRecords, Committed, CANCELLED, FILLED, PENDING
<1> HIDE DEF e
<1>5. /\ listings' \in Seq(ListingRecords)
      /\ Len(listings') = Len(listings)
      /\ listings'[i] = e
      /\ \A j \in 1..Len(listings) \ {i} : listings'[j] = listings[j]
  BY <1>1, <1>4, Rewritten
<1>6. \A k \in 1..Len(stack) : stack[k].id # i
  BY <1>3 DEF HeldIn
<1>7. TradesInHand'
  BY <1>1, <1>4, <1>5, <1>6 DEF Now, TradesInHand
<1>8. Current' \in States
  BY <1>1, <1>5, NowTypes DEF Current, States
<1> QED BY <1>1, <1>7, <1>8 DEF Now, EscrowIsLocked

\* A refund needs a pending listing, so the admin's own buy has it in hand.
LEMMA RefundStep ==
  ASSUME Inv, NEW c \in Accounts, NEW i \in Ids, Refund(c, i)
  PROVE  Now'
<1> DEFINE l == listings[i]
           e == [l EXCEPT !.status = CANCELLED]
<1>1. /\ Now /\ UNCHANGED <<shares, stack, origin>>
      /\ c = Admin /\ (Idle \/ c = origin)
      /\ i \in 1..Len(listings) /\ l.status = PENDING /\ l.buyer # NoAccount
      /\ escrow >= l.price /\ escrow' = escrow - l.price
      /\ cash' = [cash EXCEPT ![l.buyer] = @ + l.price]
      /\ listings' = [listings EXCEPT ![i] = e]
  BY DEF Inv, Refund, Return, Listed, SetStatus, MayCall, Covered, Debit
<1>2. /\ l \in ListingRecords /\ l.price \in Nat /\ l.buyer \in Accounts
  BY <1>1, NowTypes DEF ListingRecords
<1>3. i \in HeldIn(stack)
  BY <1>1 DEF Now, TradesInHand, Committed, PENDING, FILLED
<1>4. origin = Admin
  <2>1. ~Idle
    BY <1>3, EmptySeq DEF HeldIn, Idle
  <2> QED BY <1>1, <2>1
<1>5. /\ e \in ListingRecords /\ e.status = CANCELLED /\ e.seller = l.seller
      /\ e.price = l.price /\ e.buyer = l.buyer /\ e.paid = l.paid
  BY <1>2 DEF ListingRecords, CANCELLED
<1> HIDE DEF e, l
<1>6. /\ listings' \in Seq(ListingRecords)
      /\ Len(listings') = Len(listings)
      /\ listings'[i] = e
      /\ \A j \in 1..Len(listings) \ {i} : listings'[j] = listings[j]
  BY <1>1, <1>5, Rewritten
<1>7. TradesInHand'
  <2>1. ASSUME NEW k \in 1..Len(stack)
        PROVE  InHand(origin, stack[k], listings'[stack[k].id])
    <3>1. stack[k].id \in 1..Len(listings) /\ InHand(origin, stack[k], listings[stack[k].id])
      BY <1>1 DEF Now, TradesInHand
    <3>2. CASE stack[k].id = i
      <4>1. InHand(origin, stack[k], l)
        BY <3>1, <3>2 DEF l
      <4>2. InHand(origin, stack[k], e)
        BY <1>4, <1>5, <4>1 DEF InHand
      <4> QED BY <1>6, <3>2, <4>2
    <3>3. CASE stack[k].id # i
      BY <1>6, <3>1, <3>3
    <3> QED BY <3>2, <3>3
  <2>2. \A j \in 1..Len(listings') : j \in HeldIn(stack) \/ Committed(listings'[j])
    BY <1>1, <1>3, <1>6 DEF Now, TradesInHand
  <2> QED BY <1>1, <1>6, <2>1, <2>2 DEF Now, TradesInHand
<1>8. escrow \in Nat /\ cash \in [Accounts -> Nat] /\ shares \in [Accounts -> Nat]
  BY <1>1, NowTypes
<1>9. Current' \in States
  <2>1. escrow' \in Nat /\ cash' \in [Accounts -> Nat]
    BY <1>1, <1>2, <1>8
  <2> QED BY <1>1, <1>6, <1>8, <2>1 DEF Current, States
<1>10. EscrowIsLocked'
  <2> DEFINE old == SumFunctionOnSet(AmountsIn(stack), Ids)
  <2>1. old \in Int /\ escrow <= old
    BY <1>1, HeldSum DEF Now, TradesInHand, EscrowIsLocked
  <2> HIDE DEF old
  <2>2. escrow' <= old
    BY <1>1, <1>2, <1>8, <2>1
  <2> QED BY <1>1, <2>2 DEF EscrowIsLocked, old
<1> QED BY <1>1, <1>7, <1>9, <1>10 DEF Now

\* Every step keeps what holds now; what a revert goes back to changes only
\* when a transaction ends, to a state in which nothing is half done.
LEMMA InvStep ==
  ASSUME Inv, [Next]_vars
  PROVE  Inv'
<1>1. CASE UNCHANGED vars
  <2>1. Current' = Current
    BY <1>1 DEF vars, Current
  <2> QED BY <1>1, <2>1 DEF vars, Inv, Now, TradesInHand, EscrowIsLocked, Idle
<1>2. ASSUME Now', (saved' = saved /\ ~Idle') \/ (saved' = Current' /\ Idle')
      PROVE  Inv'
  <2>1. Idle' => Settled(Current)'
    BY <1>2, NowIsSettled, PTL
  <2>2. Settled(saved')
    BY <1>2, <2>1 DEF Inv
  <2> QED BY <1>2, <2>2 DEF Inv
<1>3. ASSUME Now', Return
      PROVE  Inv'
  <2>1. (saved' = saved /\ ~Idle') \/ (saved' = Current' /\ Idle')
    BY <1>3 DEF Return, Idle
  <2> QED BY <1>2, <1>3, <2>1
<1>4. ASSUME NEW c \in Accounts, NEW bps \in Weights, NEW price \in Prices,
             List(c, bps, price)
      PROVE  Inv'
  BY <1>3, <1>4, ListStep DEF List
<1>5. ASSUME NEW c \in Accounts, NEW i \in Ids, NEW amount \in Amounts,
             BuyLock(c, i, amount)
      PROVE  Inv'
  <2>1. stack' # <<>>
    <3> DEFINE f == [id |-> i, seller |-> listings[i].seller, bps |-> listings[i].bps,
                     amount |-> amount]
    <3>1. stack' = <<f>> \o stack /\ stack \in Seq(Frames)
      BY <1>5 DEF BuyLock, Inv, Now
    <3>2. f \in Frames
      <4>1. listings[i] \in ListingRecords /\ amount \in Nat
        BY <1>5, NowTypes, ArgumentsAssumption DEF BuyLock, Listed, Inv
      <4> QED BY <4>1 DEF Frames, ListingRecords
    <3> HIDE DEF f
    <3> QED BY <3>1, <3>2, Pushed
  <2> QED BY <1>2, <1>5, <2>1, BuyLockStep DEF BuyLock, Idle
<1>6. CASE BuyRelease
  <2>1. /\ stack' = Tail(stack) /\ saved' = IF Len(stack) = 1 THEN Current' ELSE saved
        /\ stack \in Seq(Frames) /\ stack # <<>> /\ Distinct(stack)
    BY <1>6 DEF BuyRelease, Inv, Now, TradesInHand, Idle
  <2>2. Len(stack) \in Nat /\ Len(stack') = Len(stack) - 1 /\ stack' \in Seq(Frames)
    BY <2>1, Popped
  <2>3. stack' = <<>> <=> Len(stack) = 1
    BY <2>2, EmptySeq
  <2> QED BY <1>2, <1>6, <2>1, <2>3, BuyReleaseStep DEF Idle
<1>7. CASE Revert
  <2>1. Current' = saved' /\ Idle'
    <3>1. saved \in States
      BY DEF Inv, Settled
    <3>2. saved = [listings |-> saved.listings, escrow |-> saved.escrow,
                   cash |-> saved.cash, shares |-> saved.shares]
      BY <3>1 DEF States
    <3> QED BY <1>7, <3>2 DEF Revert, Current, Idle
  <2> QED BY <1>2, <1>7, <2>1, RevertStep
<1>8. ASSUME NEW c \in Accounts, NEW i \in Ids, Cancel(c, i)
      PROVE  Inv'
  BY <1>3, <1>8, CancelStep DEF Cancel
<1>9. ASSUME NEW c \in Accounts, NEW i \in Ids, Refund(c, i)
      PROVE  Inv'
  BY <1>3, <1>9, RefundStep DEF Refund
<1> QED BY <1>1, <1>4, <1>5, <1>6, <1>7, <1>8, <1>9 DEF Next

\* Nothing is listed at the start.
LEMMA InitInv == Init => Inv
<1> SUFFICES ASSUME Init PROVE Inv
  OBVIOUS
<1>1. /\ stack \in Seq(Frames) /\ Len(stack) = 0 /\ stack = <<>>
      /\ listings \in Seq(ListingRecords) /\ Len(listings) = 0
  BY EmptySeq DEF Init
<1>2. Current \in States /\ saved = Current
  BY <1>1, StartAssumption DEF Init, Current, States
<1>3. Distinct(stack) /\ TradesInHand
  BY <1>1 DEF Distinct, TradesInHand
<1>4. EscrowIsLocked
  BY <1>1, <1>3, HeldSum DEF Init, EscrowIsLocked
<1>5. Now
  BY <1>1, <1>2, <1>3, <1>4 DEF Now, Init
<1> QED BY <1>1, <1>2, <1>5, NowIsSettled DEF Inv, Idle

\* The invariant holds in every reachable state.
LEMMA Invariance == Spec => []Inv
<1>1. Init => Inv
  BY InitInv
<1>2. Inv /\ [Next]_vars => Inv'
  BY InvStep
<1> QED BY <1>1, <1>2, PTL DEF Spec

\* The cells of the contract and the local variables of buy keep their types.
THEOREM TypesHold == Spec => []TypeOK
<1>1. Inv => TypeOK
  BY DEF Inv, Now, Settled, TypeOK
<1> QED BY <1>1, Invariance, PTL

\* main.rs: whatever the yield contract does while buy has handed control to it,
\* a transaction leaves no listing pending and not a mote in the escrow purse.
THEOREM NothingHalfDone == Spec => []SettledWhenIdle
<1>1. Inv => SettledWhenIdle
  <2> SUFFICES ASSUME Inv, Idle
               PROVE  escrow = 0 /\ \A i \in 1..Len(listings) : listings[i].status # PENDING
    BY DEF SettledWhenIdle
  <2>1. Settled(Current)
    BY NowIsSettled DEF Inv
  <2>2. escrow = 0 /\ \A i \in 1..Len(listings) : Committed(listings[i])
    BY <2>1 DEF Settled, Current
  <2> QED BY <2>2 DEF Committed, PENDING, FILLED
<1> QED BY <1>1, Invariance, PTL

\* The re-entrancy guard of buy: nobody else buys a listing while a buy of it is
\* in progress, and only the admin's own refund takes it away.
THEOREM LockHolds == Spec => []HeldMidTrade
<1>1. Inv => HeldMidTrade
  BY DEF Inv, Now, TradesInHand, InHand, Distinct, HeldMidTrade
<1> QED BY <1>1, Invariance, PTL

\* A committed sale paid the seller at least the price, in one of the amounts
\* buy was called with, and no listing that is not sold was paid for.
THEOREM SalesArePaid == Spec => []SoldIsPaid
<1>1. Inv => SoldIsPaid
  <2> SUFFICES ASSUME Inv, Idle PROVE \A i \in 1..Len(listings) : Committed(listings[i])
    BY DEF SoldIsPaid, Committed
  <2>1. Settled(Current)
    BY NowIsSettled DEF Inv
  <2> QED BY <2>1 DEF Settled, Current
<1> QED BY <1>1, Invariance, PTL

-----------------------------------------------------------------------------
(* The escrow implements the atomic swap, step by step.                    *)

\* The book that a sequence of listings shows.
Shown(l) ==
    [seller |-> l.seller, bps |-> l.bps, price |-> l.price, buyer |-> l.buyer,
     is |-> CASE l.status = OPEN -> "open" [] l.status = FILLED -> "sold"
              [] l.status = CANCELLED -> "withdrawn" [] OTHER -> "pending"]

BookOf(ls) == [i \in 1..Len(ls) |-> Shown(ls[i])]

Offers == {Shown(l) : l \in ListingRecords}

\* The book of the refinement mapping, before and after a step.
LEMMA BookIsBookOf ==
  /\ Book = BookOf(saved.listings)
  /\ Book' = BookOf(saved'.listings)
BY DEF Book, BookOf, Shown

\* The book has an offer for each listing.
LEMMA BookType ==
  ASSUME NEW ls \in Seq(ListingRecords)
  PROVE  /\ BookOf(ls) \in Seq(Offers)
         /\ Len(BookOf(ls)) = Len(ls)
         /\ Len(ls) \in Nat
         /\ \A i \in 1..Len(ls) : BookOf(ls)[i] = Shown(ls[i])
<1>1. Len(ls) \in Nat /\ \A i \in 1..Len(ls) : ls[i] \in ListingRecords
  BY LenProperties, ElementOfSeq
<1>2. BookOf(ls) \in [1..Len(ls) -> Offers]
  BY <1>1 DEF BookOf, Offers
<1>3. BookOf(ls) \in Seq(Offers)
  BY <1>1, <1>2, SeqDef
<1>4. DOMAIN BookOf(ls) = 1..Len(ls) /\ DOMAIN BookOf(ls) = 1..Len(BookOf(ls))
  BY <1>2, <1>3, LenProperties
<1>5. Len(BookOf(ls)) = Len(ls)
  <2>1. Len(BookOf(ls)) \in Nat
    BY <1>3, LenProperties
  <2> QED BY <1>1, <1>4, <2>1
<1> QED BY <1>1, <1>3, <1>5 DEF BookOf

\* One more listing is one more offer.
LEMMA BookAppended ==
  ASSUME NEW ls \in Seq(ListingRecords), NEW e \in ListingRecords
  PROVE  BookOf(Append(ls, e)) = Append(BookOf(ls), Shown(e))
<1> DEFINE t == Append(ls, e)
           u == Append(BookOf(ls), Shown(e))
<1>1. /\ t \in Seq(ListingRecords) /\ Len(t) = Len(ls) + 1
      /\ \A i \in 1..Len(ls) : t[i] = ls[i]
      /\ t[Len(ls) + 1] = e
  BY AppendProperties
<1>2. Shown(e) \in Offers
  BY DEF Offers
<1>3. /\ BookOf(ls) \in Seq(Offers) /\ Len(BookOf(ls)) = Len(ls) /\ Len(ls) \in Nat
      /\ \A i \in 1..Len(ls) : BookOf(ls)[i] = Shown(ls[i])
  BY BookType
<1>4. /\ u \in Seq(Offers) /\ Len(u) = Len(ls) + 1
      /\ \A i \in 1..Len(ls) : u[i] = BookOf(ls)[i]
      /\ u[Len(ls) + 1] = Shown(e)
  BY <1>2, <1>3, AppendProperties
<1> HIDE DEF t, u
<1>5. /\ BookOf(t) \in Seq(Offers) /\ Len(BookOf(t)) = Len(t)
      /\ \A i \in 1..Len(t) : BookOf(t)[i] = Shown(t[i])
  BY <1>1, BookType
<1>6. \A i \in 1..Len(u) : BookOf(t)[i] = u[i]
  <2> TAKE i \in 1..Len(u)
  <2>1. i \in 1..Len(ls) \/ i = Len(ls) + 1
    BY <1>3, <1>4
  <2> QED BY <1>1, <1>3, <1>4, <1>5, <2>1
<1>7. BookOf(t) = u
  BY <1>1, <1>4, <1>5, <1>6, SeqEqual
<1> QED BY <1>7 DEF t, u

\* A listing that is rewritten is an offer that is.
LEMMA BookRewritten ==
  ASSUME NEW ls \in Seq(ListingRecords), NEW t \in Seq(ListingRecords),
         NEW i \in 1..Len(ls), NEW e \in ListingRecords,
         Len(t) = Len(ls), t[i] = e, \A j \in 1..Len(ls) \ {i} : t[j] = ls[j]
  PROVE  BookOf(t) = [BookOf(ls) EXCEPT ![i] = Shown(e)]
BY DEF BookOf

\* A transaction whose buy has come as far as the call: o has locked its money
\* for the listing of f, and nothing else differs from the state before it.
LockApplied(o, f, before, ls, c, sh) ==
    LET l == before.listings[f.id] IN
    /\ f.id \in 1..Len(before.listings) /\ l.status = OPEN
    /\ f.seller = l.seller /\ f.bps = l.bps
    /\ Len(ls) = Len(before.listings)
    /\ ls[f.id] = [l EXCEPT !.status = PENDING, !.buyer = o]
    /\ \A j \in 1..Len(ls) \ {f.id} : ls[j] = before.listings[j]
    /\ c = [before.cash EXCEPT ![o] = @ - f.amount]
    /\ before.cash[o] >= f.amount
    /\ sh = before.shares

AloneMidTrade ==
    ~Idle => /\ Len(stack) = 1
             /\ LockApplied(origin, stack[1], saved, listings, cash, shares)

\* Without calls back only the end of buy and a revert happen in the middle.
LEMMA AloneStep ==
  ASSUME ~Reentrant, Inv, AloneMidTrade, [Next]_vars
  PROVE  AloneMidTrade'
<1>1. CASE UNCHANGED vars
  BY <1>1 DEF vars, AloneMidTrade, Idle
<1>2. ASSUME Idle', Inv' PROVE AloneMidTrade'
  BY <1>2 DEF AloneMidTrade
<1>3. ASSUME Idle, stack' = stack PROVE AloneMidTrade'
  BY <1>3 DEF AloneMidTrade, Idle
<1>4. ASSUME NEW c \in Accounts, NEW bps \in Weights, NEW price \in Prices,
             List(c, bps, price)
      PROVE  AloneMidTrade'
  BY <1>3, <1>4 DEF List, MayCall, Return
<1>5. ASSUME NEW c \in Accounts, NEW i \in Ids, NEW amount \in Amounts,
             BuyLock(c, i, amount)
      PROVE  AloneMidTrade'
  <2> DEFINE l == listings[i]
             e == [l EXCEPT !.status = PENDING, !.buyer = c]
             f == [id |-> i, seller |-> l.seller, bps |-> l.bps, amount |-> amount]
  <2>1. /\ Idle /\ i \in 1..Len(listings) /\ l.status = OPEN
        /\ cash[c] >= amount /\ cash' = [cash EXCEPT ![c] = @ - amount]
        /\ stack' = <<f>> \o stack /\ origin' = c /\ shares' = shares /\ saved' = saved
        /\ Now /\ stack \in Seq(Frames) /\ stack = <<>>
        /\ saved = Current
    BY <1>5 DEF BuyLock, Listed, MayCall, Inv, Now, Idle
  <2>2. listings' = [listings EXCEPT ![i] = e]
    BY <1>5 DEF BuyLock, Locked
  <2>3. l \in ListingRecords /\ amount \in Nat
    BY <2>1, NowTypes, ArgumentsAssumption
  <2>4. f \in Frames /\ e \in ListingRecords
    BY <2>3 DEF Frames, ListingRecords, PENDING
  <2>5. /\ f.id = i /\ f.seller = l.seller /\ f.bps = l.bps /\ f.amount = amount
    OBVIOUS
  <2>6. /\ saved.listings = listings /\ saved.cash = cash /\ saved.shares = shares
    BY <2>1 DEF Current
  <2>7. /\ Len(listings') = Len(listings) /\ listings'[i] = e
        /\ \A j \in 1..Len(listings) \ {i} : listings'[j] = listings[j]
    <3> HIDE DEF e, f
    <3> QED BY <2>1, <2>2, <2>4, Rewritten
  <2>8. Len(stack') = 1 /\ stack'[1] = f
    <3> HIDE DEF e, f
    <3>1. Len(stack') = Len(stack) + 1 /\ stack'[1] = f
      BY <2>1, <2>4, Pushed
    <3> QED BY <2>1, <3>1, EmptySeq
  <2>9. LockApplied(c, f, saved, listings', cash', shares')
    BY <2>1, <2>5, <2>6, <2>7 DEF LockApplied
  <2> HIDE DEF e, f
  <2> QED BY <2>1, <2>8, <2>9 DEF AloneMidTrade
<1>6. CASE BuyRelease
  <2>1. stack # <<>> /\ stack \in Seq(Frames) /\ Distinct(stack) /\ Len(stack) = 1
        /\ stack' = Tail(stack)
    BY <1>6 DEF BuyRelease, Idle, Inv, Now, TradesInHand, AloneMidTrade
  <2>2. Len(stack') = 0 /\ stack' \in Seq(Frames)
    BY <2>1, Popped
  <2>3. Idle'
    BY <2>2, EmptySeq DEF Idle
  <2> QED BY <1>2, <2>3, InvStep
<1>7. CASE Revert
  BY <1>2, <1>7, InvStep DEF Revert, Idle
<1>8. ASSUME NEW c \in Accounts, NEW i \in Ids, Cancel(c, i)
      PROVE  AloneMidTrade'
  BY <1>3, <1>8 DEF Cancel, MayCall, Return
<1>9. ASSUME NEW c \in Accounts, NEW i \in Ids, Refund(c, i)
      PROVE  AloneMidTrade'
  BY <1>3, <1>9 DEF Refund, MayCall, Return
<1> QED BY <1>1, <1>4, <1>5, <1>6, <1>7, <1>8, <1>9 DEF Next

\* What the abstract swap sees of a step that leaves `saved' alone: nothing.
LEMMA SavedKept ==
  ASSUME saved' = saved
  PROVE  UNCHANGED Swap!svars
BY DEF Swap!svars, Book

\* A listing becomes an offer of the book; its price is small enough to be kept.
LEMMA ListIsOffer ==
  ASSUME ~Reentrant, Prices \subseteq 0..(PriceModulus - 1), Inv,
         NEW c \in Accounts, NEW bps \in Weights, NEW price \in Prices,
         List(c, bps, price)
  PROVE  Swap!Offer(c, bps, price)
<1> DEFINE e == [seller |-> c, bps |-> bps, price |-> price,
                 status |-> OPEN, buyer |-> NoAccount, paid |-> 0]
<1>1. price % PriceModulus = price
  <2>1. PriceModulus * 0 + price = price /\ price \in 0..(PriceModulus - 1)
    BY ModulusAssumption
  <2>2. (PriceModulus * 0 + price) % PriceModulus = price
    BY <2>1, ModulusAssumption, RemainderUnique
  <2> QED BY <2>1, <2>2
<1>2. /\ saved = Current /\ saved' = Current'
      /\ listings' = Append(listings, e) /\ UNCHANGED <<cash, shares>>
      /\ bps # 0 /\ price # 0
      /\ listings \in Seq(ListingRecords)
  BY <1>1, NowTypes DEF Inv, List, MayCall, Return
<1>3. bps \in Nat /\ price \in Nat
  BY ArgumentsAssumption
<1>4. e \in ListingRecords
  BY <1>3 DEF ListingRecords, OPEN
<1>5. Shown(e) = [seller |-> c, bps |-> bps, price |-> price,
                  is |-> "open", buyer |-> NoAccount]
  BY DEF Shown, OPEN, FILLED, CANCELLED
<1>6. saved.listings = listings /\ saved'.listings = listings'
      /\ saved'.cash = saved.cash /\ saved'.shares = saved.shares
  BY <1>2 DEF Current
<1> HIDE DEF e
<1>7. BookOf(listings') = Append(BookOf(listings), Shown(e))
  BY <1>2, <1>4, BookAppended
<1>8. Book' = Append(Book, [seller |-> c, bps |-> bps, price |-> price,
                            is |-> "open", buyer |-> NoAccount])
  BY <1>5, <1>6, <1>7, BookIsBookOf
<1> QED BY <1>2, <1>3, <1>6, <1>8 DEF Swap!Offer

\* cancel withdraws the offer.
LEMMA CancelIsWithdraw ==
  ASSUME ~Reentrant, Inv, NEW c \in Accounts, NEW i \in Ids, Cancel(c, i)
  PROVE  i \in 1..Len(Book) /\ Swap!Withdraw(i)
<1> DEFINE l == listings[i]
           e == [l EXCEPT !.status = CANCELLED]
<1>1. /\ saved = Current /\ saved' = Current'
      /\ listings' = [listings EXCEPT ![i] = e] /\ UNCHANGED <<cash, shares>>
      /\ i \in 1..Len(listings) /\ l.status = OPEN
      /\ Now
  BY DEF Inv, Cancel, MayCall, Return, Listed, SetStatus
<1>2. listings \in Seq(ListingRecords) /\ l \in ListingRecords
  BY <1>1, NowTypes
<1>3. e \in ListingRecords
  BY <1>2 DEF ListingRecords, CANCELLED
<1>4. /\ Shown(l).is = "open"
      /\ Shown(e) = [Shown(l) EXCEPT !.is = "withdrawn"]
  <2>1. /\ e.seller = l.seller /\ e.bps = l.bps /\ e.price = l.price
        /\ e.buyer = l.buyer /\ e.status = CANCELLED
    BY <1>2 DEF ListingRecords
  <2> HIDE DEF e, l
  <2>2. Shown(l) = [seller |-> l.seller, bps |-> l.bps, price |-> l.price,
                    buyer |-> l.buyer, is |-> "open"]
    BY <1>1 DEF Shown, OPEN, FILLED, CANCELLED
  <2>3. Shown(e) = [seller |-> l.seller, bps |-> l.bps, price |-> l.price,
                    buyer |-> l.buyer, is |-> "withdrawn"]
    BY <2>1 DEF Shown, OPEN, FILLED, CANCELLED
  <2> QED BY <2>2, <2>3
<1>5. saved.listings = listings /\ saved'.listings = listings'
      /\ saved'.cash = saved.cash /\ saved'.shares = saved.shares
  BY <1>1 DEF Current
<1> HIDE DEF e, l
<1>6. /\ listings' \in Seq(ListingRecords) /\ Len(listings') = Len(listings)
      /\ listings'[i] = e
      /\ \A j \in 1..Len(listings) \ {i} : listings'[j] = listings[j]
  BY <1>1, <1>3, Rewritten
<1>7. BookOf(listings') = [BookOf(listings) EXCEPT ![i] = Shown(e)]
  <2>1. i \in 1..Len(listings)
    BY <1>1
  <2> QED BY <2>1, <1>2, <1>3, <1>6, BookRewritten
<1>8. /\ Len(BookOf(listings)) = Len(listings)
      /\ BookOf(listings)[i] = Shown(l)
  BY <1>1, <1>2, BookType DEF l
<1>9. /\ Book = BookOf(listings) /\ Book' = BookOf(listings')
  BY <1>5, BookIsBookOf
<1>10. Book' = [Book EXCEPT ![i].is = "withdrawn"]
  BY <1>4, <1>7, <1>8, <1>9
<1> QED BY <1>1, <1>4, <1>5, <1>8, <1>9, <1>10 DEF Swap!Withdraw

\* The end of buy is the sale, with the money and the weight it moves.
LEMMA BuyReleaseIsSell ==
  ASSUME Inv, AloneMidTrade, BuyRelease
  PROVE  \E i \in 1..Len(Book), b \in Accounts, amount \in Amounts : Swap!Sell(i, b, amount)
<1> DEFINE f == stack[1]
           i == f.id
           o == origin
           l == saved.listings[i]
           m == listings[i]
           e == [m EXCEPT !.status = FILLED, !.paid = @ + f.amount]
<1>1. /\ Now /\ stack # <<>> /\ stack \in Seq(Frames) /\ Distinct(stack) /\ Head(stack) = f
      /\ Len(stack) = 1 /\ LockApplied(o, f, saved, listings, cash, shares)
  <2>1. Now /\ stack # <<>> /\ stack \in Seq(Frames) /\ Distinct(stack)
    BY DEF BuyRelease, Idle, Inv, Now, TradesInHand
  <2> QED BY <2>1, Popped DEF AloneMidTrade, Idle
<1>2. /\ saved' = Current'
      /\ shares' = [shares EXCEPT ![o] = f.bps]
      /\ cash' = [cash EXCEPT ![f.seller] = @ + f.amount]
      /\ listings' = [listings EXCEPT ![i] = e]
  BY <1>1 DEF BuyRelease, Payment
<1>3. /\ f \in Frames /\ i \in 1..Len(listings) /\ InHand(o, f, m)
  <2>1. 1 \in 1..Len(stack)
    BY <1>1
  <2> QED BY <1>1, <2>1, Popped DEF Now, TradesInHand
<1>4. /\ i \in 1..Len(saved.listings) /\ l.status = OPEN
      /\ f.seller = l.seller /\ f.bps = l.bps
      /\ Len(listings) = Len(saved.listings)
      /\ m = [l EXCEPT !.status = PENDING, !.buyer = o]
      /\ \A j \in 1..Len(listings) \ {i} : listings[j] = saved.listings[j]
      /\ cash = [saved.cash EXCEPT ![o] = @ - f.amount]
      /\ saved.cash[o] >= f.amount
      /\ shares = saved.shares
  BY <1>1 DEF LockApplied
<1>5. /\ saved.listings \in Seq(ListingRecords) /\ l \in ListingRecords
      /\ saved.cash \in [Accounts -> Nat]
  <2>1. saved.listings \in Seq(ListingRecords) /\ saved.cash \in [Accounts -> Nat]
    BY DEF Inv, Settled, States
  <2> QED BY <1>4, <2>1, ElementOfSeq
<1>6. f.amount \in Amounts /\ f.amount \in Nat /\ o \in Accounts /\ o # l.seller
      /\ l.price <= f.amount
  BY <1>3, <1>4, <1>5, ArgumentsAssumption DEF InHand, ListingRecords
<1>7. m \in ListingRecords
  BY <1>1, <1>3, NowTypes
<1>8. /\ e \in ListingRecords /\ e.seller = l.seller /\ e.bps = l.bps
      /\ e.price = l.price /\ e.buyer = o /\ e.status = FILLED
  <2>1. m.paid + f.amount = f.amount
    BY <1>3, <1>6 DEF InHand
  <2>2. e = [m EXCEPT !.status = FILLED, !.paid = f.amount]
    BY <2>1
  <2>3. m.seller = l.seller /\ m.bps = l.bps /\ m.price = l.price /\ m.buyer = o
    BY <1>4, <1>5 DEF ListingRecords
  <2> HIDE DEF e, m
  <2> QED BY <1>6, <1>7, <2>2, <2>3 DEF ListingRecords, FILLED
<1>9. /\ Shown(l).is = "open" /\ Shown(l).seller = l.seller
      /\ Shown(l).price = l.price /\ Shown(l).bps = l.bps
      /\ Shown(e) = [Shown(l) EXCEPT !.is = "sold", !.buyer = o]
  <2> HIDE DEF e, l, o
  <2>1. Shown(l) = [seller |-> l.seller, bps |-> l.bps, price |-> l.price,
                    buyer |-> l.buyer, is |-> "open"]
    BY <1>4 DEF Shown, OPEN, FILLED, CANCELLED
  <2>2. Shown(e) = [seller |-> l.seller, bps |-> l.bps, price |-> l.price,
                    buyer |-> o, is |-> "sold"]
    BY <1>8 DEF Shown, OPEN, FILLED, CANCELLED
  <2> DEFINE r == Shown(l)
  <2>3. r.is = "open" /\ r.seller = l.seller /\ r.price = l.price /\ r.bps = l.bps
    BY <2>1
  <2>4. [r EXCEPT !.is = "sold", !.buyer = o]
          = [seller |-> l.seller, bps |-> l.bps, price |-> l.price,
             buyer |-> o, is |-> "sold"]
    <3>1. [r EXCEPT !.is = "sold", !.buyer = o] = [[r EXCEPT !.is = "sold"] EXCEPT !.buyer = o]
      OBVIOUS
    <3>2. [r EXCEPT !.is = "sold"]
            = [seller |-> l.seller, bps |-> l.bps, price |-> l.price,
               buyer |-> l.buyer, is |-> "sold"]
      BY <2>1
    <3>3. [[seller |-> l.seller, bps |-> l.bps, price |-> l.price,
            buyer |-> l.buyer, is |-> "sold"] EXCEPT !.buyer = o]
            = [seller |-> l.seller, bps |-> l.bps, price |-> l.price,
               buyer |-> o, is |-> "sold"]
      OBVIOUS
    <3> QED BY <3>1, <3>2, <3>3
  <2> QED BY <2>2, <2>3, <2>4
<1> HIDE DEF e, l, m, i, f, o
<1>10. /\ listings' \in Seq(ListingRecords) /\ Len(listings') = Len(listings)
       /\ listings'[i] = e
       /\ \A j \in 1..Len(listings) \ {i} : listings'[j] = listings[j]
  BY <1>1, <1>2, <1>3, <1>8, Rewritten
<1>11. BookOf(listings') = [BookOf(saved.listings) EXCEPT ![i] = Shown(e)]
  BY <1>4, <1>5, <1>8, <1>10, BookRewritten
<1>12. /\ Len(BookOf(saved.listings)) = Len(saved.listings)
       /\ BookOf(saved.listings)[i] = Shown(l)
  BY <1>4, <1>5, BookType DEF l
<1>13. /\ Book = BookOf(saved.listings) /\ Book' = BookOf(listings')
       /\ saved'.cash = cash' /\ saved'.shares = shares'
  BY <1>2, BookIsBookOf DEF Current
<1>14. Book' = [Book EXCEPT ![i].is = "sold", ![i].buyer = o]
  BY <1>9, <1>11, <1>12, <1>13
<1>15. saved'.cash = [saved.cash EXCEPT ![o] = @ - f.amount, ![l.seller] = @ + f.amount]
  BY <1>2, <1>4, <1>13
<1>16. saved'.shares = [saved.shares EXCEPT ![o] = l.bps]
  BY <1>2, <1>4, <1>13
<1>17. Swap!Sell(i, o, f.amount)
  BY <1>4, <1>6, <1>9, <1>12, <1>13, <1>14, <1>15, <1>16 DEF Swap!Sell
<1> QED BY <1>4, <1>6, <1>12, <1>13, <1>17

\* As long as the yield contract does not call back, and prices fit the 32 bytes
\* that are kept of them, the chain shows only whole trades: buy, although it
\* takes several steps and may be undone in the middle, is the atomic swap.
THEOREM TradesAreAtomic ==
  ASSUME ~Reentrant, Prices \subseteq 0..(PriceModulus - 1)
  PROVE  Spec => ImplementsSwap
<1>1. Init => Swap!Init
  <2> SUFFICES ASSUME Init PROVE Swap!Init
    OBVIOUS
  <2>1. /\ saved.listings = <<>> /\ saved.cash = [a \in Accounts |-> Funds]
        /\ saved.shares = Rights
    BY DEF Init, Current
  <2>2. <<>> \in Seq(ListingRecords) /\ Len(<<>>) = 0
    BY EmptySeq
  <2>3. BookOf(<<>>) \in Seq(Offers) /\ Len(BookOf(<<>>)) = 0
    BY <2>2, BookType
  <2>4. Book = <<>>
    BY <2>1, <2>3, EmptySeq, BookIsBookOf
  <2> QED BY <2>1, <2>4 DEF Swap!Init
<1>2. Init => AloneMidTrade
  BY DEF Init, AloneMidTrade, Idle
<1>3. Inv /\ AloneMidTrade /\ [Next]_vars => AloneMidTrade'
  BY AloneStep
<1>4. Inv /\ AloneMidTrade /\ [Next]_vars => [Swap!Next]_(Swap!svars)
  <2> SUFFICES ASSUME Inv, AloneMidTrade, [Next]_vars
               PROVE  [Swap!Next]_(Swap!svars)
    OBVIOUS
  <2>1. ASSUME saved' = saved PROVE [Swap!Next]_(Swap!svars)
    BY <2>1, SavedKept
  <2>2. CASE UNCHANGED vars
    BY <2>1, <2>2 DEF vars
  <2>3. ASSUME NEW c \in Accounts, NEW bps \in Weights, NEW price \in Prices,
               List(c, bps, price)
        PROVE  [Swap!Next]_(Swap!svars)
    BY <2>3, ListIsOffer DEF Swap!Next
  <2>4. ASSUME NEW c \in Accounts, NEW i \in Ids, NEW amount \in Amounts,
               BuyLock(c, i, amount)
        PROVE  [Swap!Next]_(Swap!svars)
    BY <2>1, <2>4 DEF BuyLock
  <2>5. CASE BuyRelease
    BY <2>5, BuyReleaseIsSell DEF Swap!Next
  <2>6. CASE Revert
    BY <2>1, <2>6 DEF Revert
  <2>7. ASSUME NEW c \in Accounts, NEW i \in Ids, Cancel(c, i)
        PROVE  [Swap!Next]_(Swap!svars)
    BY <2>7, CancelIsWithdraw DEF Swap!Next
  <2>8. ASSUME NEW c \in Accounts, NEW i \in Ids, Refund(c, i)
        PROVE  [Swap!Next]_(Swap!svars)
    <3>1. Idle /\ i \in 1..Len(listings) /\ listings[i].status = PENDING
      BY <2>8 DEF Refund, MayCall, Listed
    <3>2. Committed(listings[i])
      BY <3>1, NowIsSettled DEF Inv, Settled, Current
    <3> QED BY <3>1, <3>2 DEF Committed, PENDING, FILLED
  <2> QED BY <2>2, <2>3, <2>4, <2>5, <2>6, <2>7, <2>8 DEF Next
<1> QED BY <1>1, <1>2, <1>3, <1>4, Invariance, PTL DEF Spec, ImplementsSwap, Swap!Spec
=============================================================================
