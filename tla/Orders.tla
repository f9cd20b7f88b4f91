-------------------------------- MODULE Orders --------------------------------
(***************************************************************************)
(* The orders table (lib/db.ts) under everything that writes it: the       *)
(* routes that list an order, the two routes that sell one, escrow-buy and *)
(* settle-trade, and the cancel button of the orders page.  Every UPDATE   *)
(* is a statement of its own, awaited before the next.                     *)
(*                                                                         *)
(* Market models a settlement in full; here it is what its statements do   *)
(* to the row of the order.  A hash stands for the buyer whose transaction *)
(* it names, or for the listing.                                           *)
(***************************************************************************)
CONSTANTS OrderIds, Buyers, Requests, NoRow

VARIABLES row,        \* the table
          purchase,   \* the purchases in flight
          shown,      \* the orders the orders page shows as open
          buyerOf,    \* history: the buyer last told that an order is his, or "nobody"
          disturbed   \* history: orders with a disturbance, see SaleIsRecorded

vars == <<row, purchase, shown, buyerOf, disturbed>>

Idle == [pc |-> "idle", route |-> "", id |-> NoRow, buyer |-> "nobody"]
Of(r) == purchase[r].id
Buyer(r) == purchase[r].buyer
At(r, route, pc) == purchase[r].route = route /\ purchase[r].pc = pc
Goes(r, pc) == purchase' = [purchase EXCEPT ![r].pc = pc]
Ends(r) == purchase' = [purchase EXCEPT ![r] = Idle]
Buying(id) == {r \in Requests : Of(r) = id}
Marks(id, condition) == disturbed' = IF condition THEN disturbed \cup {id} ELSE disturbed
-----------------------------------------------------------------------------
(* Orders come from a listing transaction whose hash the caller passes on,  *)
(* or from anybody who posts one.                                           *)

createOrder(id, hash) ==
    /\ row[id] = NoRow
    /\ row' = [row EXCEPT ![id] = [status |-> "open", buyer |-> "nobody", hash |-> hash]]
    /\ UNCHANGED <<purchase, shown, buyerOf, disturbed>>

EscrowList(id) == createOrder(id, "listing")
PostOrder(id) == createOrder(id, "none")

\* The orders page asks once, when it is opened.
LoadOrders ==
    /\ shown' = {id \in OrderIds : row[id] # NoRow /\ row[id].status = "open"}
    /\ UNCHANGED <<row, purchase, buyerOf, disturbed>>

\* Whatever has become of the order since.
Cancel(id) ==
    /\ id \in shown
    /\ row' = [row EXCEPT ![id].status = "cancelled"]
    /\ shown' = shown \ {id}
    /\ Marks(id, buyerOf[id] # "nobody" \/ Buying(id) # {})
    /\ UNCHANGED <<purchase, buyerOf>>

-----------------------------------------------------------------------------
(* The two routes that sell.  settle-trade looks at the status first and     *)
(* names the buyer before it does anything; escrow-buy does neither.         *)

Begins(r, route, pc, id, buyer) ==
    /\ purchase[r] = Idle /\ row[id] # NoRow
    /\ purchase' = [purchase EXCEPT ![r] = [pc |-> pc, route |-> route, id |-> id, buyer |-> buyer]]
    /\ Marks(id, Buying(id) # {})
    /\ UNCHANGED <<row, shown, buyerOf>>

EscrowBuy(r, id, buyer) == Begins(r, "escrow", "put", id, buyer)

\* A payment that the page has made already is not made again.
SettleTrade(r, id, buyer) ==
    /\ row[id] # NoRow /\ row[id].status = "open"
    /\ Begins(r, "settle", "pay", id, buyer) \/ Begins(r, "settle", "buyer", id, buyer)

\* The transactions are submitted; nobody waits for them to be executed.
Submitted(r) ==
    /\ At(r, "escrow", "put") \/ At(r, "settle", "pay") \/ At(r, "settle", "register")
    /\ Goes(r, CASE purchase[r].pc = "pay" -> "buyer" [] OTHER -> "status")
    /\ UNCHANGED <<row, shown, buyerOf, disturbed>>

UpdateStatus(r) ==
    /\ purchase[r].pc = "status"
    /\ row' = [row EXCEPT ![Of(r)].status = "filled"]
    /\ Goes(r, IF purchase[r].route = "escrow" THEN "buyer" ELSE "hash")
    /\ Marks(Of(r), buyerOf[Of(r)] # "nobody")         \* sold again
    /\ UNCHANGED <<shown, buyerOf>>

UpdateBuyer(r) ==
    /\ purchase[r].pc = "buyer"
    /\ row' = [row EXCEPT ![Of(r)].buyer = Buyer(r)]
    /\ Goes(r, IF purchase[r].route = "escrow" THEN "hash" ELSE "register")
    /\ UNCHANGED <<shown, buyerOf, disturbed>>

\* The last statement; the buyer is told that the purchase is complete.
UpdateHash(r) ==
    /\ purchase[r].pc = "hash"
    /\ row' = [row EXCEPT ![Of(r)].hash = Buyer(r)]
    /\ buyerOf' = [buyerOf EXCEPT ![Of(r)] = Buyer(r)]
    /\ Ends(r)
    /\ UNCHANGED <<shown, disturbed>>

\* A call fails: settle-trade answers an error, escrow-buy looks at the order first.
Fails(r) ==
    /\ purchase[r] # Idle
    /\ IF purchase[r].route = "escrow" /\ purchase[r].pc \notin {"look", "reopen"}
       THEN Goes(r, "look") ELSE Ends(r)
    /\ UNCHANGED <<row, shown, buyerOf, disturbed>>

\* (A slip: the error path does not look.)
LookAway(r) ==
    /\ At(r, "escrow", "look")
    /\ Goes(r, "reopen")
    /\ UNCHANGED <<row, shown, buyerOf, disturbed>>

Look(r) ==
    /\ At(r, "escrow", "look")
    /\ IF row[Of(r)].status = "open" THEN Goes(r, "reopen") ELSE Ends(r)
    /\ UNCHANGED <<row, shown, buyerOf, disturbed>>

Reopen(r) ==
    /\ At(r, "escrow", "reopen")
    /\ row' = [row EXCEPT ![Of(r)].status = "open"]
    /\ Ends(r)
    /\ UNCHANGED <<shown, buyerOf, disturbed>>

\* The server goes away in the middle of a purchase.
Dies(r) ==
    /\ purchase[r] # Idle
    /\ Ends(r)
    /\ UNCHANGED <<row, shown, buyerOf, disturbed>>

-----------------------------------------------------------------------------
Init ==
    /\ row = [id \in OrderIds |-> NoRow]
    /\ purchase = [r \in Requests |-> Idle]
    /\ shown = {}
    /\ buyerOf = [id \in OrderIds |-> "nobody"]
    /\ disturbed = {}

Next ==
    \/ \E id \in OrderIds : EscrowList(id) \/ PostOrder(id) \/ Cancel(id)
    \/ LoadOrders
    \/ \E r \in Requests, id \in OrderIds, b \in Buyers : EscrowBuy(r, id, b) \/ SettleTrade(r, id, b)
    \/ \E r \in Requests : \/ Submitted(r) \/ UpdateStatus(r) \/ UpdateBuyer(r) \/ UpdateHash(r)
                           \/ Fails(r) \/ Look(r) \/ Reopen(r) \/ Dies(r)

Spec == Init /\ [][Next]_vars
-----------------------------------------------------------------------------
\* Once a buyer was told that a purchase is complete, the order is filled, in his
\* name and with the hash of his transaction, whichever purchases of others failed or
\* died in the middle before or after it; unless two purchases of the order were ever
\* in flight at the same time, it was cancelled from a page that still showed it open,
\* or it was sold again (escrow-buy does not ask whether an order is open).
SaleIsRecorded ==
    \A id \in OrderIds \ disturbed :
        buyerOf[id] # "nobody" =>
            row[id] = [status |-> "filled", buyer |-> buyerOf[id], hash |-> buyerOf[id]]
=============================================================================
