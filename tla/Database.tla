------------------------------ MODULE Database -------------------------------
(***************************************************************************)
(* The three parts of the database, each with a specification of its own:  *)
(* the tokens, the proposals with their votes, and the orders.  No         *)
(* statement touches two of them but the settlement, which Market models.  *)
(***************************************************************************)
EXTENDS TokenStore

CONSTANTS Voters, Names, Instances, Tabs, OrderIds, Buyers, Requests
VARIABLES proposals, votes, instance, tab, uncounted,
          row, purchase, shown, buyerOf, disturbed

V == INSTANCE Votes
O == INSTANCE Orders

voteVars == <<proposals, votes, instance, tab, uncounted>>
orderVars == <<row, purchase, shown, buyerOf, disturbed>>

\* The tallies of the proposals count every vote once, whatever its voter holds (Votes.tla).
TalliesCountVotes == V!TalliesCountVotes

\* An order that a buyer was told is his is recorded as his (Orders.tla).
SaleIsRecorded == O!SaleIsRecorded
=============================================================================
