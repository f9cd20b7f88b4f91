------------------------------ MODULE StatusPanel ------------------------------
(***************************************************************************)
(* The panel of an agent: the agent page and the compliance page show what *)
(* the server last told them, ask again every five seconds without waiting *)
(* for the last answer, and post the opposite of what they show.  Answers  *)
(* may be lost and may arrive out of order.                                *)
(***************************************************************************)
EXTENDS Naturals

CONSTANTS Asks,         \* bound: questions on their way at a time
          MaxLost       \* bound: answers that never arrive

VARIABLES state,        \* what the server knows
          shows,        \* what the panel shows, or "nothing"
          ask,          \* the questions of the interval
          button,       \* the request of the button that was pressed
          lost          \* how many answers were lost

vars == <<state, shows, ask, button, lost>>

NoAsk == [pc |-> "idle", value |-> "off"]
NoButton == [pc |-> "idle", what |-> "tick", value |-> "off"]
-----------------------------------------------------------------------------
(* The interval.                                                             *)

\* (A slip: the page asks when it is mounted, and never again.)
FetchOnce(a) ==
    /\ ask[a] = NoAsk /\ shows = "nothing"
    /\ ask' = [ask EXCEPT ![a].pc = "asked"]
    /\ UNCHANGED <<state, shows, button, lost>>

FetchStatus(a) ==
    /\ ask[a] = NoAsk
    /\ ask' = [ask EXCEPT ![a].pc = "asked"]
    /\ UNCHANGED <<state, shows, button, lost>>

GetState(a) ==
    /\ ask[a].pc = "asked"
    /\ ask' = [ask EXCEPT ![a] = [pc |-> "answered", value |-> state]]
    /\ UNCHANGED <<state, shows, button, lost>>

SetState(a) ==
    /\ ask[a].pc = "answered"
    /\ shows' = ask[a].value
    /\ ask' = [ask EXCEPT ![a] = NoAsk]
    /\ UNCHANGED <<state, button, lost>>

Unanswered(a) ==
    /\ ask[a] # NoAsk /\ lost < MaxLost
    /\ ask' = [ask EXCEPT ![a] = NoAsk]
    /\ lost' = lost + 1
    /\ UNCHANGED <<state, shows, button>>

-----------------------------------------------------------------------------
(* The buttons: one request at a time, answered with the state after it.     *)

HandleToggle ==
    /\ button = NoButton /\ shows # "nothing"
    /\ button' = [pc |-> "posted", what |-> IF shows = "on" THEN "stop" ELSE "start", value |-> "off"]
    /\ UNCHANGED <<state, shows, ask, lost>>

HandleTick ==
    /\ button = NoButton
    /\ button' = [pc |-> "posted", what |-> "tick", value |-> "off"]
    /\ UNCHANGED <<state, shows, ask, lost>>

\* start and stop do nothing when there is nothing to do.
Post ==
    /\ button.pc = "posted"
    /\ state' = CASE button.what = "start" -> "on"
                 [] button.what = "stop" -> "off"
                 [] button.what = "tick" -> state
    /\ button' = [button EXCEPT !.pc = "answered", !.value = state']
    /\ UNCHANGED <<shows, ask, lost>>

Acknowledge ==
    /\ button.pc = "answered"
    /\ shows' = button.value
    /\ button' = NoButton
    /\ UNCHANGED <<state, ask, lost>>

Unacknowledged ==
    /\ button # NoButton /\ lost < MaxLost
    /\ button' = NoButton
    /\ lost' = lost + 1
    /\ UNCHANGED <<state, shows, ask>>

\* Another tab, or the server that starts anew.
Elsewhere ==
    /\ state' = IF state = "on" THEN "off" ELSE "on"
    /\ UNCHANGED <<shows, ask, button, lost>>

-----------------------------------------------------------------------------
Init ==
    /\ state \in {"on", "off"} /\ shows = "nothing"
    /\ ask = [a \in Asks |-> NoAsk]
    /\ button = NoButton
    /\ lost = 0

Asking(a) == FetchStatus(a) \/ GetState(a) \/ SetState(a) \/ Unanswered(a)
Next ==
    \/ \E a \in Asks : Asking(a)
    \/ HandleToggle \/ HandleTick \/ Post \/ Acknowledge \/ Unacknowledged
    \/ Elsewhere

\* The interval fires as long as the page is open; an answer that is not lost arrives.
Fairness == \A a \in Asks : WF_vars(FetchStatus(a)) /\ WF_vars(GetState(a)) /\ WF_vars(SetState(a))
Spec == Init /\ [][Next]_vars /\ Fairness
-----------------------------------------------------------------------------
\* Once an agent stays as it is, the panel shows it as it is and does not go back on
\* that, although older answers overtake newer ones and nothing numbers them.
PanelSettles == \A s \in {"on", "off"} : <>[](state = s) => <>[](shows = s)
=============================================================================
