------------------------------- MODULE Curator -------------------------------
(***************************************************************************)
(* POST /api/curator/query (api/curator.py, curator.py): build a context   *)
(* from the sessions of a scope, open a loom session and stream its        *)
(* answer.  The loom session is opened before the response is returned and *)
(* closed by the generator that streams it.  The walk that resolves the    *)
(* scope is in ForkGraph; what is in the context no property looks at.     *)
(***************************************************************************)
EXTENDS Backends

CONSTANT Queries       \* supply of curator requests

VARIABLES
  memory,       \* "noop", "distill" or "closed": the memory service
  asks          \* query -> its handler and response; what is not needed again is forgotten

NoAsk == [step |-> "idle", mode |-> "raw", backend |-> None, loom |-> "none"]

AskRow == [step : {"idle", "scoped", "asked", "ready", "streaming", "closing", "ended",
                  "abandoned"},
           mode : {"raw", "distill"}, backend : Backends \cup {None},
           loom : {"none", "open", "closed", "left"}]

AskAt(q, step) == asks[q].step = step

Answer(q, ask) == asks' = [asks EXCEPT ![q] = ask] /\ UNCHANGED <<config, memory>>

\* The requested backend is not held against the allowed list.
Ask(q, mode, requested) ==
  /\ AskAt(q, "idle")
  /\ config # None /\ Enabled(config)
  /\ ResolveBackend(config, requested) # None
  /\ Answer(q, [NoAsk EXCEPT !.step = "scoped", !.mode = mode,
                             !.backend = ResolveBackend(config, requested)])

\* A distilled context needs a memory service; without one the request is refused.
BuildContext(q) ==
  /\ AskAt(q, "scoped")
  /\ Answer(q, IF asks[q].mode = "distill" /\ memory = "noop" THEN NoAsk
               ELSE [asks[q] EXCEPT !.step = "asked", !.mode = "raw"])

OpenLoom(q) ==
  /\ AskAt(q, "asked")
  /\ Answer(q, IF CwdFor(config, asks[q].backend) = None THEN NoAsk
               ELSE [asks[q] EXCEPT !.step = "ready", !.backend = None, !.loom = "open"])

\* The scope is not found, or the client is gone before the handler has a response.
Refuse(q) ==
  /\ asks[q].step \in {"scoped", "asked"}
  /\ Answer(q, NoAsk)

\* The first item of the body is asked for: the generator has started.
Iterate(q) == AskAt(q, "ready") /\ Answer(q, [asks[q] EXCEPT !.step = "streaming"])

\* The client is gone before that: a generator that never started has no finally.
Abandon(q) == AskAt(q, "ready") /\ Answer(q, [asks[q] EXCEPT !.step = "abandoned"])

\* Mutant: the loom session is closed behind the loop, not in a finally.
StopUnlessCut(q) ==
  AskAt(q, "streaming") /\ \E next \in {"closing", "ended"} : Answer(q, [asks[q] EXCEPT !.step = next])

\* The answer ends, loom fails, or the client goes away.
Stop(q) == AskAt(q, "streaming") /\ Answer(q, [asks[q] EXCEPT !.step = "closing"])

\* close() does its work, or it raises, which is only logged, or is cut short because the
\* request was cancelled: then the session may be left open.  A close() that hangs is this
\* step not being taken.
CloseLoom(q) ==
  /\ AskAt(q, "closing")
  /\ \E loom \in {"closed", "left"} : Answer(q, [asks[q] EXCEPT !.step = "ended", !.loom = loom])

AskAgain(q) == AskAt(q, "ended") /\ Answer(q, NoAsk)

CuratorNext ==
  \E q \in Queries :
    \/ \E mode \in {"raw", "distill"}, requested \in Backends \cup {None} : Ask(q, mode, requested)
    \/ BuildContext(q) \/ OpenLoom(q) \/ Refuse(q) \/ Iterate(q) \/ Abandon(q)
    \/ Stop(q) \/ CloseLoom(q) \/ AskAgain(q)

\* A response that is over has called close() on its loom session, unless its body was
\* never asked for.
CuratorTriesClose ==
  \A q \in Queries : asks[q].step \in {"idle", "scoped", "asked", "ended"} => asks[q].loom # "open"

=============================================================================
