------------------------------- MODULE Server -------------------------------
(***************************************************************************)
(* The life of a server process (server.py): what its lifespan opens and   *)
(* closes, the sessions it accepts under its configuration and keeps over  *)
(* restarts, the agent runs that resolve a backend from both, and the      *)
(* curator and the namer at work beside them.                              *)
(*                                                                         *)
(* The server is uvicorn's: it starts to serve when the lifespan has       *)
(* yielded, finishes the requests in progress before the lifespan goes on, *)
(* and exits when the lifespan raises or ends.                             *)
(***************************************************************************)
EXTENDS Curator, AutoNamer

CONSTANTS
  SessionIds,   \* supply of session ids
  Configs       \* the configurations the operator starts the server with

ASSUME ServerAssumption == Configs \subseteq Config /\ None \notin Configs

VARIABLES
  phase,        \* where the lifespan is
  package,      \* stratoclave-distill is installed
  pools,        \* connection pools that are open
  pins,         \* session -> its agent_backend, for the sessions that exist
  vetted,       \* sessions whose backend was accepted under this configuration
  looms         \* session -> the backend of its warm loom session

lifespanVars == <<phase, package, pools>>
sessionVars == <<pins, vetted, looms>>
serverVars == <<config, memory, asks, names, lifespanVars, sessionVars>>

Sessions == DOMAIN pins

NoLoom == [s \in SessionIds |-> None]

ServerTypeOK ==
  /\ config \in Configs \cup {None}
  /\ memory \in {"noop", "distill", "closed"}
  /\ asks \in [Queries -> AskRow]
  /\ names \in [Branches -> NameRow]
  /\ phase \in {"down", "resolver", "memory", "engine", "serving", "failed",
                "close runner", "close memory", "close resolver", "dispose"}
  /\ package \in BOOLEAN
  /\ pools \subseteq {"resolver", "memory", "engine"}
  /\ Sessions \subseteq SessionIds
  /\ pins \in [Sessions -> Backends \cup {None}]
  /\ vetted \subseteq Sessions
  /\ looms \in [SessionIds -> Backends \cup {None}]

ServerInit ==
  /\ phase = "down" /\ package \in BOOLEAN /\ pools = {}
  /\ config = None /\ memory = "noop"
  /\ asks = [q \in Queries |-> NoAsk]
  /\ names = [b \in Branches |-> NoName]
  /\ pins = << >> /\ vetted = {} /\ looms = NoLoom

-----------------------------------------------------------------------------
(* Startup *)

Lifespan(from, to, opened) ==
  /\ phase = from
  /\ phase' = to
  /\ pools' = pools \cup opened
  /\ UNCHANGED <<config, asks, names, package, sessionVars>>

\* A configuration that is not valid raises before there is a server.  A new process has no
\* requests.
Boot(c) ==
  /\ phase = "down"
  /\ Valid(c)
  /\ config' = c /\ phase' = "resolver"
  /\ memory' = "noop" /\ vetted' = {}
  /\ asks' = [q \in Queries |-> NoAsk]
  /\ names' = [b \in Branches |-> NoName]
  /\ UNCHANGED <<package, pools, pins, looms>>

OpenResolver ==
  /\ phase = "resolver"
  /\ config.resolver = "distill" => package
  /\ Lifespan("resolver", "memory", IF config.resolver = "distill" THEN {"resolver"} ELSE {})
  /\ UNCHANGED memory

\* The package is imported by from_config, behind the handler for ImportError.
OpenMemory ==
  /\ phase = "memory"
  /\ config.distill => package
  /\ Lifespan("memory", "engine", IF config.distill THEN {"memory"} ELSE {})
  /\ memory' = IF config.distill THEN "distill" ELSE "noop"

CreateEngine == Lifespan("engine", "serving", {"engine"}) /\ UNCHANGED memory

\* create_async_engine raises: the URL is malformed or its driver is not installed.  The
\* lifespan is not inside its try yet, and closes nothing that it has opened.
FailEngine == Lifespan("engine", "failed", {}) /\ UNCHANGED memory

\* The step of the startup that is next opens a pool of its own.
UsesDistill ==
  \/ phase = "resolver" /\ config.resolver = "distill"
  \/ phase = "memory" /\ config.distill

\* The database cannot be reached, the package is missing, or the pipelines cannot be
\* wired: from_config closes the pool it has opened, and nothing else is closed.
FailStartup ==
  /\ UsesDistill
  /\ Lifespan(phase, "failed", {})
  /\ UNCHANGED memory

-----------------------------------------------------------------------------
(* Shutdown, and the end of the process *)

Drained ==
  /\ \A q \in Queries : asks[q].step \in {"idle", "ended", "abandoned"}
  /\ \A b \in Branches : names[b].step \in {"idle", "titled"}

Shutdown ==
  /\ phase = "serving"
  /\ Drained
  /\ phase' = "close runner"
  /\ UNCHANGED <<config, memory, asks, names, package, pools, sessionVars>>

\* The agent sessions are closed, and an error of one does not keep the next open.
CloseRunner ==
  /\ phase = "close runner"
  /\ phase' = "close memory"
  /\ looms' = NoLoom
  /\ UNCHANGED <<config, memory, asks, names, package, pools, pins, vetted>>

\* Mutant: an error of the pool is not caught.
CloseMemoryOrRaise ==
  /\ phase = "close memory"
  /\ \/ phase' = "close resolver" /\ pools' = pools \ {"memory"}
     \/ memory = "distill" /\ phase' = "down" /\ pools' = pools
  /\ memory' = IF memory = "distill" THEN "closed" ELSE memory
  /\ config' = IF phase' = "down" THEN None ELSE config
  /\ UNCHANGED <<asks, names, package, sessionVars>>

CloseMemory ==
  /\ phase = "close memory"
  /\ phase' = "close resolver"
  /\ pools' = pools \ {"memory"}
  /\ memory' = IF memory = "distill" THEN "closed" ELSE memory
  /\ UNCHANGED <<config, asks, names, package, sessionVars>>

CloseResolver ==
  /\ phase = "close resolver"
  /\ phase' = "dispose"
  /\ pools' = pools \ {"resolver"}
  /\ UNCHANGED <<config, memory, asks, names, package, sessionVars>>

Dispose ==
  /\ phase = "dispose"
  /\ phase' = "down" /\ config' = None
  /\ pools' = pools \ {"engine"}
  /\ UNCHANGED <<memory, asks, names, package, sessionVars>>

\* The process is killed, or exits because its startup failed.  What it held goes with
\* it; the rows of the sessions stay, and the operator may install the package.
Exit ==
  /\ phase # "down"
  /\ phase' = "down" /\ config' = None /\ pools' = {} /\ memory' = "noop" /\ looms' = NoLoom
  /\ asks' = [q \in Queries |-> NoAsk]
  /\ names' = [b \in Branches |-> NoName]
  /\ package' \in BOOLEAN
  /\ UNCHANGED <<pins, vetted>>

-----------------------------------------------------------------------------
(* Sessions and agent runs *)

CreateSession(s, requested) ==
  /\ phase = "serving" /\ s \notin Sessions
  /\ Accepted(config, requested)
  /\ pins' = [x \in Sessions \cup {s} |-> IF x = s THEN requested ELSE pins[x]]
  /\ vetted' = vetted \cup {s}
  /\ UNCHANGED <<config, memory, asks, names, lifespanVars, looms>>

\* Mutant: a fork is pinned to the session it came from, not to its backend.
ForkPinnedToParent(s, parent, requested) ==
  /\ phase = "serving" /\ s \notin Sessions /\ parent \in Sessions
  /\ Accepted(config, requested)
  /\ pins' = [x \in Sessions \cup {s} |->
                IF x # s THEN pins[x] ELSE IF requested = None THEN parent ELSE requested]
  /\ vetted' = vetted
  /\ UNCHANGED <<config, memory, asks, names, lifespanVars, looms>>

\* A fork that names no backend has its parent's, which may have been accepted by an
\* earlier configuration.
ForkSession(s, parent, requested) ==
  LET pin == IF requested = None THEN pins[parent] ELSE requested IN
  /\ phase = "serving" /\ s \notin Sessions /\ parent \in Sessions
  /\ Accepted(config, requested)
  /\ pins' = [x \in Sessions \cup {s} |-> IF x = s THEN pin ELSE pins[x]]
  /\ vetted' = IF requested # None \/ parent \in vetted THEN vetted \cup {s} ELSE vetted
  /\ UNCHANGED <<config, memory, asks, names, lifespanVars, looms>>

\* _ensure_session of a run that was accepted: a warm session is used again; with no
\* backend or no directory it raises, and nothing changes.
StartRun(s) ==
  /\ phase = "serving" /\ s \in Sessions
  /\ Enabled(config) /\ Startable(config, pins[s])
  /\ looms' = [looms EXCEPT ![s] = IF @ # None THEN @ ELSE ResolveBackend(config, pins[s])]
  /\ UNCHANGED <<config, memory, asks, names, lifespanVars, pins, vetted>>

-----------------------------------------------------------------------------
ServerNext ==
  \/ \E c \in Configs : Boot(c)
  \/ OpenResolver \/ OpenMemory \/ CreateEngine \/ FailStartup \/ FailEngine
  \/ Shutdown \/ CloseRunner \/ CloseMemory \/ CloseResolver \/ Dispose \/ Exit
  \/ \E s \in SessionIds, requested \in Backends \cup {None} :
       \/ CreateSession(s, requested)
       \/ \E parent \in SessionIds : ForkSession(s, parent, requested)
  \/ \E s \in SessionIds : StartRun(s)
  \/ phase = "serving" /\ CuratorNext /\ UNCHANGED <<names, lifespanVars, sessionVars>>
  \/ /\ phase = "serving"
     /\ NamerNext({pins[s] : s \in Sessions})
     /\ UNCHANGED <<memory, asks, lifespanVars, sessionVars>>

\* The timer of the namer fires, and a close() that does not hang returns.  Nothing is
\* assumed of the agents or of the clients.
Fairness ==
  \A b \in Branches :
    /\ WF_serverVars(NameTimesOut(b) /\ UNCHANGED <<memory, asks, lifespanVars, sessionVars>>)
    /\ WF_serverVars(CloseOneShot(b) /\ UNCHANGED <<memory, asks, lifespanVars, sessionVars>>)

ServerSpec == ServerInit /\ [][ServerNext]_serverVars /\ Fairness

-----------------------------------------------------------------------------
(* Properties *)

\* The picker's default is what an unpinned session runs on: GET /agent/backends and the
\* three copies of the resolution agree, and no default is shown where they would raise.
DefaultIsAdvertised ==
  config # None => AdvertisedDefault(config) = ResolveBackend(config, None)

\* What a request was promised when its session was accepted, its runs get: a pinned
\* session can start, on its own backend and not inside a git checkout unless that was
\* allowed, and a session that is not pinned can start if a default is advertised.
VettedSessionsStart ==
  config # None =>
    \A s \in vetted :
      /\ pins[s] # None => /\ Startable(config, pins[s])
                           /\ pins[s] \in ResolvedBackends(config)
      /\ pins[s] = None /\ AdvertisedDefault(config) # None => Startable(config, None)

VettedSessionsIsolated ==
  \A s \in vetted :
    /\ config # None /\ looms[s] # None
    /\ config.isolation = "per_session" /\ ~config.gitOK
    => CwdFor(config, looms[s]) = "plain"

\* A lifespan that ends in good order has closed every pool, whatever fails on the way.  A
\* startup that fails leaves the pools of its earlier steps open, but never the engine's.
PoolsReleased ==
  /\ phase = "down" => pools = {}
  /\ phase = "failed" => pools \subseteq {"resolver", "memory"}

\* A query whose response was started and a branch name that is over have called close() on
\* their loom sessions, whichever way they ended (an answer, an error, a timeout, a cancelled
\* request), and a server that shuts down has left out only the responses that were never
\* asked for.  Whether close() then did its work is not said: it may raise or be cut short.
CloseIsTried ==
  /\ CuratorTriesClose /\ NamerTriesClose
  /\ phase # "serving" => \A q \in Queries : asks[q].loom = "open" => asks[q].step = "abandoned"

=============================================================================
