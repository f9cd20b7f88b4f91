------------------------------ MODULE Settings ------------------------------
(***************************************************************************)
(* The settings table and the page that edits it.  The page starts from    *)
(* defaults, is told the stored settings later, and always sends its whole *)
(* form; the server writes what it is sent one key after the other.        *)
(***************************************************************************)
EXTENDS Naturals, Sequences

CONSTANTS MaxForms,    \* bound: loads of the page, in any browser
          MaxSaves     \* bound: requests to save

VARIABLES stored,      \* the table: a function of the keys it has a row for
          form,        \* the pages, in the order they were loaded
          save         \* the requests, in the order they were sent

\* Two of the eight settings, in the order they are written: one that is on by
\* default and belongs to the agent, and one of the others.
Keys == <<"emailReports", "autonomousYield">>
AgentKeys == {"autonomousYield"}
DEFAULTS == [k \in {"emailReports", "autonomousYield"} |-> k = "autonomousYield"]

Overlay(rows) == [k \in DOMAIN DEFAULTS |-> IF k \in DOMAIN rows THEN rows[k] ELSE DEFAULTS[k]]
getSettings == Overlay(stored)

\* `toggled' is what the user of the page has set; `overtaken' says that another
\* save wrote after the page's answer was read.
Fresh == [phase |-> "asking", shown |-> DEFAULTS, answer |-> DEFAULTS,
          toggled |-> {}, saving |-> FALSE, overtaken |-> FALSE]
Over == [pc |-> "over", page |-> 0, body |-> DEFAULTS, next |-> 1, toggled |-> {},
         waited |-> FALSE, informed |-> FALSE, overtaken |-> FALSE]

\* Bound: nothing is opened or set that can not be saved any more.
MaySave == Len(save) < MaxSaves
-----------------------------------------------------------------------------
\* A page that is loaded again is another one.
Open ==
    /\ Len(form) < MaxForms /\ MaySave
    /\ form' = Append(form, Fresh)
    /\ UNCHANGED <<stored, save>>

GetSettings(f) ==
    /\ form[f].phase = "asking" /\ MaySave
    /\ form' = [form EXCEPT ![f].phase = "answered", ![f].answer = getSettings]
    /\ UNCHANGED <<stored, save>>

\* (A slip: the setters of the page name every setting but one.)
ToldMost(page) == [page.answer EXCEPT !["emailReports"] = page.shown["emailReports"]]
Told(page) == page.answer

\* The answer replaces whatever was toggled while it was on its way, or is lost.
Answered(f) ==
    /\ form[f].phase = "answered"
    /\ \/ form' = [form EXCEPT ![f].phase = "told", ![f].shown = Told(form[f]), ![f].answer = DEFAULTS]
       \/ form' = [form EXCEPT ![f].phase = "untold", ![f].answer = DEFAULTS]
    /\ UNCHANGED <<stored, save>>

Toggle(f, k) ==
    /\ k \notin form[f].toggled /\ MaySave                  \* bound: once on a page
    /\ form' = [form EXCEPT ![f].shown[k] = ~@, ![f].toggled = @ \cup {k}]
    /\ UNCHANGED <<stored, save>>

\* A request with what the page shows.
Request(f, page, waited) ==
    /\ MaySave
    /\ save' = Append(save, [pc |-> "writing", page |-> f, body |-> page.shown, next |-> 1,
                 toggled |-> page.toggled, waited |-> waited, informed |-> page.phase = "told",
                 overtaken |-> page.overtaken])

\* Save Changes: one at a time on a page.
handleSave(f) ==
    /\ ~form[f].saving
    /\ form' = [form EXCEPT ![f].saving = TRUE]
    /\ Request(f, form[f], TRUE)
    /\ UNCHANGED stored

\* Revoke Agent Access sends at once, whatever is under way, and waits for nothing.
Revoke(f) ==
    LET page == [form[f] EXCEPT !.shown = [k \in DOMAIN @ |-> @[k] /\ k \notin AgentKeys],
                                !.toggled = @ \cup AgentKeys] IN
    /\ form' = [form EXCEPT ![f] = page]
    /\ Request(f, page, FALSE)
    /\ UNCHANGED stored

\* What a save of page f that was told the settings writes is news to the others.
Overtakes(s, f) == form[f].phase \in {"answered", "told"} /\ ~(save[s].page = f /\ save[s].informed)

\* One key of one request; the keys of others come in between.
WriteKey(s) ==
    LET k == Keys[save[s].next] IN
    /\ save[s].pc = "writing" /\ save[s].next <= Len(Keys)
    /\ stored' = [j \in DOMAIN stored \cup {k} |-> IF j = k THEN save[s].body[k] ELSE stored[j]]
    /\ save' = [r \in DOMAIN save |->
                  IF r = s THEN [save[s] EXCEPT !.next = @ + 1]
                  ELSE IF save[r].pc = "writing" THEN [save[r] EXCEPT !.overtaken = TRUE] ELSE save[r]]
    /\ form' = [f \in DOMAIN form |-> IF Overtakes(s, f) THEN [form[f] EXCEPT !.overtaken = TRUE] ELSE form[f]]

\* The end of a request, at any of its statements: the page does not look at the
\* answer, and without one its button stays disabled.
Ends(s) ==
    /\ save[s].pc = "writing"
    /\ save' = [save EXCEPT ![s] = Over]
    /\ \/ UNCHANGED form
       \/ /\ save[s].waited
          /\ form' = [form EXCEPT ![save[s].page].saving = FALSE]
    /\ UNCHANGED stored
-----------------------------------------------------------------------------
Init ==
    /\ stored = [k \in {} |-> FALSE]
    /\ form = <<>>
    /\ save = <<>>

Next ==
    \/ Open
    \/ \E f \in DOMAIN form : \/ GetSettings(f) \/ Answered(f) \/ handleSave(f) \/ Revoke(f)
                              \/ \E k \in DOMAIN DEFAULTS : Toggle(f, k)
    \/ \E s \in DOMAIN save : WriteKey(s) \/ Ends(s)

vars == <<stored, form, save>>
Spec == Init /\ [][Next]_vars

\* Saving changes a setting only if the user of that page has set it, although the
\* page sends all of them: unless it was saved before the page was told what is
\* stored, or another save wrote after the page was told.
OnlyWhatWasSet ==
    [][\A k \in DOMAIN DEFAULTS : Overlay(stored')[k] # Overlay(stored)[k] =>
          \E s \in DOMAIN save : /\ save'[s].next = save[s].next + 1 /\ k = Keys[save[s].next]
                                 /\ \/ k \in save[s].toggled
                                    \/ ~save[s].informed
                                    \/ save[s].overtaken]_stored
=============================================================================
