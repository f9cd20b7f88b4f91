----------------------------- MODULE AtomicSwap ------------------------------
(***************************************************************************)
(* What the trade escrow promises its users: an offer is open, sold or     *)
(* withdrawn; a sale takes the money from the buyer, gives it to the       *)
(* seller and registers the offered weight for the buyer, all in one step; *)
(* there is no escrow, no pending state and no refund to be seen.          *)
(***************************************************************************)
EXTENDS Integers, Sequences

CONSTANTS Accounts, Weights, Prices, Amounts, Funds, Rights, NoAccount

VARIABLES book,           \* the offers made so far
          cash,           \* account -> motes
          shares          \* account -> registered weight

svars == <<book, cash, shares>>

Init ==
    /\ book = <<>>
    /\ cash = [a \in Accounts |-> Funds]
    /\ shares = Rights

Offer(a, bps, price) ==
    /\ bps > 0 /\ price > 0
    /\ book' = Append(book, [seller |-> a, bps |-> bps, price |-> price,
                             is |-> "open", buyer |-> NoAccount])
    /\ UNCHANGED <<cash, shares>>

Withdraw(i) ==
    /\ book[i].is = "open"
    /\ book' = [book EXCEPT ![i].is = "withdrawn"]
    /\ UNCHANGED <<cash, shares>>

Sell(i, b, amount) ==
    /\ book[i].is = "open"
    /\ b # book[i].seller
    /\ book[i].price <= amount /\ amount <= cash[b]
    /\ book' = [book EXCEPT ![i].is = "sold", ![i].buyer = b]
    /\ cash' = [cash EXCEPT ![b] = @ - amount, ![book[i].seller] = @ + amount]
    /\ shares' = [shares EXCEPT ![b] = book[i].bps]

Next ==
    \/ \E a \in Accounts, bps \in Weights, price \in Prices : Offer(a, bps, price)
    \/ \E i \in 1..Len(book) :
          \/ Withdraw(i)
          \/ \E b \in Accounts, amount \in Amounts : Sell(i, b, amount)

Spec == Init /\ [][Next]_svars
=============================================================================
