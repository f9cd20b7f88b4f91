-------------------------------- MODULE Votes --------------------------------
(***************************************************************************)
(* The votes the application keeps in its database: proposals and votes    *)
(* tables, the server instances that create and seed them, castVote at its *)
(* awaits, and the governance page that votes on what it has loaded.       *)
(* A transaction to the governance contract goes first; that it is         *)
(* accepted is all the application looks at (the contract is Governance).  *)
(***************************************************************************)
EXTENDS Naturals, Sequences, FiniteSets

CONSTANTS Voters, Names,       \* wallets; ids drawn for new proposals
          Instances, Tabs      \* bounds: server instances, and votes in flight

VARIABLES proposals,           \* the table, oldest first
          votes,               \* its primary key is proposal and voter
          instance,            \* how far migrate() is
          tab,                 \* the handlers of the page that are casting a vote
          uncounted            \* history: votes whose tally was never updated

vars == <<proposals, votes, instance, tab, uncounted>>

Choices == {"for", "against"}
Proposal(id, status, for, against, quorum) ==
    [id |-> id, status |-> status, for |-> for, against |-> against, quorum |-> quorum]

\* In the order of created_at, which is not the order of their numbers.
Seeds == << Proposal("PROP-003", "Passed", 201, 45, 100),
            Proposal("PROP-001", "Active", 142, 38, 79),
            Proposal("PROP-002", "Active", 89, 12, 56) >>

Row(id) == CHOOSE i \in DOMAIN proposals : proposals[i].id = id
HasRow(id) == \E i \in DOMAIN proposals : proposals[i].id = id
Voted(id, voter) == \E v \in votes : v.id = id /\ v.voter = voter
Warm == \E i \in Instances : instance[i] = "warm"

Idle == [pc |-> "idle", voter |-> "", id |-> "", choice |-> "for"]
Busy(t, pc) == tab[t].pc = pc
Goes(t, pc) == tab' = [tab EXCEPT ![t].pc = pc]
Ends(t) == tab' = [tab EXCEPT ![t] = Idle]
-----------------------------------------------------------------------------
(* The start of an instance.  Both of two that start together may count 0   *)
(* proposals; the insert of the second is refused, and its request fails.   *)

CountProposals(i) ==
    /\ instance[i] = "cold"
    /\ instance' = [instance EXCEPT ![i] = IF proposals = <<>> THEN "empty" ELSE "warm"]
    /\ UNCHANGED <<proposals, votes, tab, uncounted>>

InsertSeeds(i) ==
    /\ instance[i] = "empty"
    /\ IF proposals = <<>>
       THEN proposals' = Seeds /\ instance' = [instance EXCEPT ![i] = "warm"]
       ELSE UNCHANGED proposals /\ instance' = [instance EXCEPT ![i] = "cold"]
    /\ UNCHANGED <<votes, tab, uncounted>>

-----------------------------------------------------------------------------
(* The page.                                                                *)

\* The buttons are there for active proposals without a vote of one's own, as they were
\* when the page loaded.  That may be long ago: it shows any active proposal.
loadProposals == {proposals[i].id : i \in {j \in DOMAIN proposals : proposals[j].status = "Active"}}

Click(t, id, voter, choice) ==
    /\ Warm /\ Busy(t, "idle")
    /\ tab' = [tab EXCEPT ![t] = [pc |-> "chain", voter |-> voter, id |-> id, choice |-> choice]]
    /\ UNCHANGED <<proposals, votes, instance, uncounted>>

\* The popup and governance/submit; either may fail, and then nothing is recorded.
SubmitVote(t) ==
    /\ Busy(t, "chain")
    /\ Goes(t, "check") \/ Ends(t)
    /\ UNCHANGED <<proposals, votes, instance, uncounted>>

CheckVote(t) ==
    /\ Busy(t, "check") /\ Warm
    /\ IF HasRow(tab[t].id) /\ proposals[Row(tab[t].id)].status = "Active" /\ ~Voted(tab[t].id, tab[t].voter)
       THEN Goes(t, "insert") ELSE Ends(t)
    /\ UNCHANGED <<proposals, votes, instance, uncounted>>

\* The primary key refuses a second vote that passed the check.  (A slip: the
\* conflict is ignored, and the tally is updated.)
InsertAnyway(t) ==
    /\ Busy(t, "insert")
    /\ votes' = IF Voted(tab[t].id, tab[t].voter) THEN votes
                ELSE votes \cup {[id |-> tab[t].id, voter |-> tab[t].voter, choice |-> tab[t].choice]}
    /\ Goes(t, "tally")
    /\ UNCHANGED <<proposals, instance, uncounted>>

InsertVote(t) ==
    /\ Busy(t, "insert")
    /\ IF Voted(tab[t].id, tab[t].voter)
       THEN Ends(t) /\ UNCHANGED votes
       ELSE /\ votes' = votes \cup {[id |-> tab[t].id, voter |-> tab[t].voter, choice |-> tab[t].choice]}
            /\ Goes(t, "tally")
    /\ UNCHANGED <<proposals, instance, uncounted>>

Tallied(p, choice) ==
    [p EXCEPT !.for = IF choice = "for" THEN @ + 1 ELSE @,
              !.against = IF choice = "against" THEN @ + 1 ELSE @,
              !.quorum = IF @ + 1 < 100 THEN @ + 1 ELSE 100]

UpdateTally(t) ==
    LET r == Row(tab[t].id) IN
    /\ Busy(t, "tally")
    /\ proposals' = [proposals EXCEPT ![r] = Tallied(proposals[r], tab[t].choice)]
    /\ Ends(t)
    /\ UNCHANGED <<votes, instance, uncounted>>

\* The instance dies between two statements: no transaction holds them together.
VoteDies(t) ==
    /\ tab[t].pc \in {"check", "insert", "tally"}
    /\ Ends(t)
    /\ uncounted' = IF Busy(t, "tally")
                    THEN uncounted \cup {[id |-> tab[t].id, voter |-> tab[t].voter]} ELSE uncounted
    /\ UNCHANGED <<proposals, votes, instance>>

\* A proposal is announced and sent to the chain; its row gets a number drawn at
\* random, and the page does not look at the answer when that number is taken.
submitProposal(name) ==
    /\ Warm
    /\ proposals' = IF HasRow(name) THEN proposals
                    ELSE Append(proposals, Proposal(name, "Active", 0, 0, 0))
    /\ UNCHANGED <<votes, instance, tab, uncounted>>

-----------------------------------------------------------------------------
Init ==
    /\ proposals = <<>> /\ votes = {}
    /\ instance = [i \in Instances |-> "cold"]
    /\ tab = [t \in Tabs |-> Idle]
    /\ uncounted = {}

Next ==
    \/ \E i \in Instances : CountProposals(i) \/ InsertSeeds(i)
    \/ \E t \in Tabs : \/ SubmitVote(t) \/ CheckVote(t) \/ InsertVote(t) \/ UpdateTally(t) \/ VoteDies(t)
                       \/ \E id \in loadProposals, voter \in Voters, choice \in Choices : Click(t, id, voter, choice)
    \/ \E name \in Names : submitProposal(name)

Spec == Init /\ [][Next]_vars
-----------------------------------------------------------------------------
\* Votes for which the tally is still to be updated, or never will be.
Pending(id) == Cardinality({t \in Tabs : Busy(t, "tally") /\ tab[t].id = id})
               + Cardinality({u \in uncounted : u.id = id})
CastOn(id) == {v \in votes : v.id = id}
SeedOf(p) == IF \E i \in DOMAIN Seeds : Seeds[i].id = p.id
             THEN Seeds[CHOOSE i \in DOMAIN Seeds : Seeds[i].id = p.id]
             ELSE Proposal(p.id, "Active", 0, 0, 0)

\* The tallies count every vote once, and as one: castVote (db.ts:289-293) does not ask
\* what the voter holds, although the page says that "Token holdings determine voting
\* power" (governance/page.tsx:113).  Two statements, several tabs of one voter and
\* several instances keep the rows of votes and the numbers of proposals in step,
\* but for the votes whose update was lost with its instance; the quorum follows.
TalliesCountVotes ==
    \A i \in DOMAIN proposals :
        LET p == proposals[i]
            s == SeedOf(p)
            counted == (p.for - s.for) + (p.against - s.against) IN
        /\ counted + Pending(p.id) = Cardinality(CastOn(p.id))
        /\ p.for - s.for <= Cardinality({v \in CastOn(p.id) : v.choice = "for"})
        /\ p.quorum = IF s.quorum + counted < 100 THEN s.quorum + counted ELSE 100
=============================================================================
