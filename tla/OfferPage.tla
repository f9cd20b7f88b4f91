------------------------------- MODULE OfferPage -------------------------------
(***************************************************************************)
(* The offer form of an asset page and the route it listens to: the route  *)
(* offer-shares sends an event after each thing it has done, the page       *)
(* marks its five steps by them.  The route goes on in the background when  *)
(* the stream breaks, until it tries to send and is told so, which ends it. *)
(***************************************************************************)
EXTENDS Naturals, Sequences

CONSTANTS MaxOffers     \* bound: presses of the button

VARIABLES hasRow,       \* whether the database knows the token
          onChain,      \* whether the yield contract is configured
          verified,     \* whether the chain has all three accounts whitelisted
          server,       \* offer -> where its request is, and what it has done
          events,       \* offer -> the events on their way to the page
          link,         \* offer -> "open", "broken" (seen by the page), "cancelled" (by both)
          current,      \* the offer that the page shows, 0 when it shows none
          steps, result \* the marks of its steps, and the message below them

vars == <<hasRow, onChain, verified, server, events, link, current, steps, result>>
chain == <<hasRow, onChain, verified>>
page == <<current, steps, result>>

Offers == 1..MaxOffers

CHECK == 1
WHITELIST == 2
CONFIRM == 3
SHARES == 4
FINALISE == 5

Started == [s \in CHECK..FINALISE |-> IF s = CHECK THEN "active" ELSE "waiting"]
Blank == [s \in CHECK..FINALISE |-> "waiting"]
Halted == [s \in CHECK..FINALISE |-> IF steps[s] = "active" THEN "error" ELSE steps[s]]

\* A step that is done makes the next one active, whatever that is.
markStep(s, mark) == [i \in CHECK..FINALISE |-> IF i = s THEN mark
                                                ELSE IF i = s + 1 /\ mark = "done" THEN "active"
                                                ELSE steps[i]]
Marked(event) ==
    CASE event \in {"checking", "someVerified"} -> markStep(CHECK, "done")
      [] event = "allVerified" -> markStep(CHECK, "skipped")
      [] event = "submitting" -> markStep(WHITELIST, "active")
      [] event = "submitted" -> markStep(WHITELIST, "done")
      [] event = "waiting" -> markStep(CONFIRM, "active")
      [] event = "confirmed" -> markStep(CONFIRM, "done")
      [] event = "registering" -> markStep(SHARES, "active")
      [] event \in {"issuer", "investor"} -> markStep(SHARES, "done")
      [] event = "done" -> markStep(FINALISE, "done")
      [] event = "error" -> Halted
-----------------------------------------------------------------------------
(* The route.                                                                *)

At(o, pc) == server[o].pc = pc

\* It does something, moves on and says so; if the stream is known to be cancelled,
\* sending throws, and so does the report of that error.
Does(o, done, pc, said) ==
    /\ server' = [server EXCEPT ![o] = [pc |-> IF link[o] = "cancelled" THEN "over" ELSE pc,
                                        done |-> @.done \cup done]]
    /\ events' = IF link[o] = "open" THEN [events EXCEPT ![o] = @ \o said] ELSE events
    /\ UNCHANGED <<hasRow, onChain, link, page>>

IsKyc(o) ==
    /\ At(o, "kyc")
    /\ \/ verified /\ Does(o, {"kyc"}, "issuer", <<"allVerified", "registering">>)
       \/ Does(o, {}, "submit", <<"someVerified", "submitting">>)      \* or a question failed
    /\ UNCHANGED verified

SubmitSetKyc(o) ==
    /\ At(o, "submit")
    /\ Does(o, {}, "confirm", <<"submitted", "waiting">>)
    /\ UNCHANGED verified

WaitForDeploy(o) ==
    /\ At(o, "confirm")
    /\ verified' = TRUE
    /\ Does(o, {"kyc"}, "issuer", <<"confirmed", "registering">>)

RegisterIssuer(o) ==
    /\ At(o, "issuer")
    /\ Does(o, {"issuer"}, "investor", <<"issuer">>)
    /\ UNCHANGED verified

RegisterInvestor(o) ==
    /\ At(o, "investor")
    /\ Does(o, {"investor"}, "table", <<"investor">>)
    /\ UNCHANGED verified

Saved == IF hasRow THEN {"table"} ELSE {}

\* (A slip: the page is told before the table is written.)
ToldFirst(o) ==
    /\ At(o, "table")
    /\ Does(o, {}, "late", <<"done">>)
    /\ UNCHANGED verified

UpsertToken(o) ==
    /\ At(o, "table")
    /\ Does(o, Saved, "over", <<"done">>)
    /\ UNCHANGED verified

\* Without a yield contract there is nothing but the table.
Fallback(o) ==
    /\ At(o, "begin") /\ ~onChain
    /\ Does(o, Saved, "over", <<"done">>)
    /\ UNCHANGED verified

Begin(o) ==
    /\ At(o, "begin") /\ onChain
    /\ Does(o, {}, "kyc", <<"checking">>)
    /\ UNCHANGED verified

\* A wrong argument, a call that is refused, a whitelisting that is not confirmed.
Throws(o) ==
    /\ server[o].pc \notin {"idle", "over"}
    /\ Does(o, {}, "over", <<"error">>)
    /\ UNCHANGED verified

-----------------------------------------------------------------------------
(* The page.                                                                 *)

HandleOffer(o) ==
    /\ current = 0 /\ At(o, "idle")
    /\ \A p \in Offers : p < o => ~At(p, "idle")
    /\ current' = o /\ steps' = Started /\ result' = "none"
    /\ server' = [server EXCEPT ![o].pc = "begin"]
    /\ UNCHANGED <<chain, events, link>>

\* An error ends the wait, the other events only mark.
Receive ==
    /\ current # 0 /\ events[current] # <<>>
    /\ LET event == Head(events[current]) IN
       /\ steps' = Marked(event)
       /\ IF event = "error" THEN result' = "error" /\ current' = 0 ELSE UNCHANGED <<current, result>>
    /\ events' = [events EXCEPT ![current] = Tail(@)]
    /\ UNCHANGED <<chain, server, link>>

\* The route has closed the stream, or the page finds it broken; without a completion
\* event, and when the reader fails, that is an error.
StreamEnds ==
    /\ current # 0 /\ events[current] = <<>>
    /\ IF link[current] = "open"
       THEN At(current, "over") /\ result' = IF steps[FINALISE] = "done" THEN "ok" ELSE "error"
       ELSE result' = "error"
    /\ steps' = IF result' = "ok" THEN steps ELSE Halted
    /\ current' = 0
    /\ UNCHANGED <<chain, server, events, link>>

\* The stream breaks between the two: what was on its way is lost.
Breaks(o) ==
    /\ link[o] = "open" /\ ~At(o, "idle")
    /\ link' = [link EXCEPT ![o] = "broken"]
    /\ events' = [events EXCEPT ![o] = <<>>]
    /\ UNCHANGED <<chain, server, page>>

\* The page is closed or loaded again; the request is cancelled with it.
Leave ==
    /\ current' = 0 /\ steps' = Blank /\ result' = "none"
    /\ IF current = 0 THEN UNCHANGED <<link, events>>
       ELSE /\ link' = [link EXCEPT ![current] = "cancelled"]
            /\ events' = [events EXCEPT ![current] = <<>>]
    /\ UNCHANGED <<chain, server>>

\* The server learns that nobody listens any more.
Cancelled(o) ==
    /\ link[o] = "broken"
    /\ link' = [link EXCEPT ![o] = "cancelled"]
    /\ UNCHANGED <<chain, server, events, page>>

\* The compliance agent revokes one of the three.
Revoked ==
    /\ verified /\ verified' = FALSE
    /\ UNCHANGED <<hasRow, onChain, server, events, link, page>>

-----------------------------------------------------------------------------
Init ==
    /\ hasRow \in BOOLEAN /\ onChain \in BOOLEAN /\ verified \in BOOLEAN
    /\ server = [o \in Offers |-> [pc |-> "idle", done |-> {}]]
    /\ events = [o \in Offers |-> <<>>]
    /\ link = [o \in Offers |-> "open"]
    /\ current = 0 /\ steps = Blank /\ result = "none"

Serve(o) ==
    \/ Begin(o) \/ Fallback(o) \/ IsKyc(o) \/ SubmitSetKyc(o) \/ WaitForDeploy(o)
    \/ RegisterIssuer(o) \/ RegisterInvestor(o) \/ UpsertToken(o) \/ Throws(o)
Next ==
    \/ \E o \in Offers : Serve(o) \/ HandleOffer(o) \/ Breaks(o) \/ Cancelled(o)
    \/ Receive \/ StreamEnds \/ Leave \/ Revoked
Spec == Init /\ [][Next]_vars
-----------------------------------------------------------------------------
\* What the form shows of the last offer, last of those that were started.
Last == IF \A o \in Offers : At(o, "idle") THEN 0
        ELSE CHOOSE o \in Offers : ~At(o, "idle") /\ \A p \in Offers : ~At(p, "idle") => p <= o
Done == server[Last].done

\* The form never claims what was not done, however the stream breaks, the page is
\* loaded again and the route fails: a confirmed whitelisting was confirmed; shares
\* that are marked as registered are at least the issuer's (the investor's may still
\* fail); an offer that is complete is on the chain, if there is a yield contract, and
\* in the database, if that has the token.  And after an error no step is left spinning.
ShownIsDone ==
    /\ steps[CONFIRM] = "done" => "kyc" \in Done
    /\ steps[SHARES] = "done" => "issuer" \in Done
    /\ result = "ok" \/ steps[FINALISE] = "done" =>
          /\ onChain => {"kyc", "issuer", "investor"} \subseteq Done
          /\ hasRow => "table" \in Done
    /\ result = "error" => \A s \in CHECK..FINALISE : steps[s] # "active"
=============================================================================
