------------------------------ MODULE AutoNamer ------------------------------
(***************************************************************************)
(* The title of a branch (auto_namer.py, and the call of it in             *)
(* api/sessions.py): one prompt to a loom session of its own under a       *)
(* timeout, and a generated title whenever that does not give one.         *)
(***************************************************************************)
EXTENDS Backends

CONSTANT Branches      \* supply of branch requests that need a title

VARIABLE names         \* branch -> progress of naming it

NoName == [step |-> "idle", result |-> None, loom |-> "none", timedOut |-> FALSE]

NameRow == [step : {"idle", "asking", "closing", "hung", "titled"},
            result : {"auto", "fallback", None},
            loom : {"none", "open", "closed", "left"}, timedOut : BOOLEAN]

NameAt(b, step) == names[b].step = step

Rename(b, row) == names' = [names EXCEPT ![b] = row] /\ UNCHANGED config

\* With no backend at all the namer is the one that only makes up a title.  Any failure
\* of the other, before or after it has opened a session, is caught by the handler.
NameBranch(b, pin) ==
  /\ NameAt(b, "idle")
  /\ config # None
  /\ Rename(b, IF Enabled(config) /\ Startable(config, pin)
                 THEN [NoName EXCEPT !.step = "asking", !.loom = "open"]
                 ELSE [NoName EXCEPT !.step = "titled", !.result = "fallback"])

\* A usable title.
NameAnswered(b) ==
  NameAt(b, "asking") /\ Rename(b, [names[b] EXCEPT !.step = "closing", !.result = "auto"])

\* An error chunk, a title that is too short, or an exception.
NameFailed(b) ==
  NameAt(b, "asking") /\ Rename(b, [names[b] EXCEPT !.step = "closing", !.result = "fallback"])

\* The finally of _run_one_shot, on every way out.  An error of close() is only logged: the
\* session may be left open.
CloseOneShot(b) ==
  /\ NameAt(b, "closing")
  /\ \E loom \in {"closed", "left"} :
       Rename(b, [names[b] EXCEPT !.step = "titled", !.loom = loom])

\* close() of the loom session does not return by itself.
CloseHangs(b) == NameAt(b, "closing") /\ Rename(b, [names[b] EXCEPT !.step = "hung"])

\* Mutant: the timeout is that of the answer, and the session is closed outside it.
TimeoutOfAnswer(b) ==
  /\ NameAt(b, "asking")
  /\ Rename(b, [names[b] EXCEPT !.step = "closing", !.result = "fallback", !.timedOut = TRUE])

\* wait_for cancels _run_one_shot, once.  Waiting for the answer it goes on to the finally,
\* and wait_for waits for that; in the finally, close() is cut short and may leave its
\* session open.
NameTimesOut(b) ==
  LET cut == [names[b] EXCEPT !.result = "fallback", !.timedOut = TRUE] IN
  /\ ~names[b].timedOut
  /\ \/ NameAt(b, "asking") /\ Rename(b, [cut EXCEPT !.step = "closing"])
     \/ /\ names[b].step \in {"closing", "hung"}
        /\ Rename(b, [cut EXCEPT !.step = "titled", !.loom = "left"])

BranchAgain(b) == NameAt(b, "titled") /\ Rename(b, NoName)

NamerStep(b) ==
  NameAnswered(b) \/ NameFailed(b) \/ NameTimesOut(b) \/ CloseOneShot(b) \/ CloseHangs(b)

NamerNext(pins) ==
  \E b \in Branches :
    \/ \E pin \in pins : NameBranch(b, pin)
    \/ NamerStep(b) \/ BranchAgain(b)

-----------------------------------------------------------------------------
(* Properties *)

\* A branch that has its title has called close() on the loom session it opened for it,
\* and the title is an agent's only if one was asked.
NamerTriesClose ==
  \A b \in Branches : NameAt(b, "titled") =>
    /\ names[b].loom # "open"
    /\ names[b].result = "auto" => names[b].loom # "none"

\* While the process runs, a branch that asks an agent for its title gets one: an agent
\* that is silent or a close() that hangs holds it up no longer than the timeout, and what
\* may hold it up for ever is a close() that hangs behind the timeout, which wait_for
\* (auto_namer.py:128) goes on waiting for.
BranchIsNamed ==
  \A b \in Branches :
    [](NameAt(b, "asking") =>
         <>(NameAt(b, "titled") \/ NameAt(b, "idle") \/ (NameAt(b, "hung") /\ names[b].timedOut)))

=============================================================================
