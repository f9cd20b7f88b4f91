------------------------------- MODULE MCAgents -------------------------------
(***************************************************************************)
(* Small instances of the two agents and of the panel.  A behaviour is one *)
(* of a single part, and the others stay where they start.                 *)
(***************************************************************************)
EXTENDS Agents, TLC

CONSTANTS admin, bob, i1, a, b, w1
VARIABLES which

MCAccounts == {admin, bob}
MCHolders == (a :> {w1}) @@ (b :> {w1})

ASSUME C!ConstantsAssumption

AllValid == attested = [id \in Ids |-> "valid"]
MCInit ==
    /\ AgentInit /\ C!Init /\ P!Init
    /\ \/ which = "yield" /\ AllValid /\ state = "off"
       \/ which = "compliance" /\ up /\ state = "off"
       \/ which = "panel" /\ up /\ AllValid
MCNext ==
    \/ which = "yield" /\ AgentNext /\ UNCHANGED <<which, complianceVars, panelVars>>
    \/ which = "compliance" /\ C!Next /\ UNCHANGED <<which, agentVars, panelVars>>
    \/ which = "panel" /\ P!Next /\ UNCHANGED <<which, agentVars, complianceVars>>
\* Nothing that is bound to happen is enabled in an agent that stays; a panel is open
\* only in its own behaviours (StatusPanel's Fairness, with that condition).
Open(Step(_), q) == which = "panel" /\ Step(q)
PanelFairness == \A q \in Asks : /\ WF_panelVars(Open(P!FetchStatus, q))
                                 /\ WF_panelVars(Open(P!GetState, q))
                                 /\ WF_panelVars(Open(P!SetState, q))
MCSpec == /\ MCInit /\ [][MCNext]_<<which, agentVars, complianceVars, panelVars>>
          /\ AgentFairness /\ C!Fairness /\ PanelFairness

\* The panel shows an agent that stays as it is, as it is (StatusPanel.tla).
PanelSettles == which = "panel" => P!PanelSettles
=============================================================================
