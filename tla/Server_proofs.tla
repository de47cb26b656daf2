--------------------------- MODULE Server_proofs ---------------------------
(* The invariants of Server, for every set of configurations, sessions,    *)
(* queries and branches.                                                   *)
EXTENDS Server, FiniteSetTheorems, TLAPS

USE BackendsAssumption, ServerAssumption

-----------------------------------------------------------------------------
(* Resolution of a backend *)

\* What ResolveBackend returns for a request that names no backend.
LEMMA OnlyAllowedChosen ==
  ASSUME NEW S, Cardinality(S) = 1
  PROVE  (CHOOSE b \in S : TRUE) \in S
<1>1. S # {}
  BY FS_EmptySet
<1> QED BY <1>1

LEMMA ResolvedType ==
  ASSUME NEW c \in Config
  PROVE  ResolvedBackends(c) \subseteq Backends
BY DEF ResolvedBackends, Config

\* A backend that is resolved for a request the API accepts is one of the resolved ones.
LEMMA ResolveInResolved ==
  ASSUME NEW c \in Config, Valid(c), NEW r \in ResolvedBackends(c) \cup {None},
         ResolveBackend(c, r) # None
  PROVE  ResolveBackend(c, r) \in ResolvedBackends(c)
<1>1. CASE r # None
  BY <1>1 DEF ResolveBackend
<1>2. CASE r = None /\ c.backend # None
  <2>1. ResolveBackend(c, r) = c.backend
    BY <1>2 DEF ResolveBackend
  <2>2. c.backend \in ResolvedBackends(c)
    BY <1>2 DEF Valid, ResolvedBackends
  <2> QED BY <2>1, <2>2
<1>3. CASE r = None /\ c.backend = None
  <2>1. ResolveBackend(c, r) = IF Cardinality(ResolvedBackends(c)) = 1
                                 THEN CHOOSE b \in ResolvedBackends(c) : TRUE ELSE None
    BY <1>3 DEF ResolveBackend
  <2>2. Cardinality(ResolvedBackends(c)) = 1
    BY <2>1
  <2> QED BY <2>1, <2>2, OnlyAllowedChosen
<1> QED BY <1>1, <1>2, <1>3

LEMMA ResolveType ==
  ASSUME NEW c \in Config, NEW r \in Backends \cup {None}
  PROVE  ResolveBackend(c, r) \in Backends \cup {None}
<1>1. c.backend \in Backends \cup {None}
  BY DEF Config
<1>2. CASE r # None \/ c.backend # None
  BY <1>1, <1>2 DEF ResolveBackend
<1>3. CASE r = None /\ c.backend = None
  <2>1. ResolveBackend(c, r) = IF Cardinality(ResolvedBackends(c)) = 1
                                 THEN CHOOSE b \in ResolvedBackends(c) : TRUE ELSE None
    BY <1>3 DEF ResolveBackend
  <2> QED BY <2>1, OnlyAllowedChosen, ResolvedType
<1> QED BY <1>2, <1>3

\* The three copies of the resolution agree with the endpoint that shows the default.
LEMMA AdvertisedResolves ==
  ASSUME NEW c PROVE AdvertisedDefault(c) = ResolveBackend(c, None)
<1>1. CASE c.backend # None
  BY <1>1 DEF AdvertisedDefault, ResolveBackend
<1>2. CASE c.backend = None
  BY <1>2 DEF AdvertisedDefault, ResolveBackend
<1> QED BY <1>1, <1>2

\* Every backend of a valid configuration has a directory.
LEMMA ResolvedHaveDirectory ==
  ASSUME NEW c \in Config, Valid(c), NEW b \in ResolvedBackends(c)
  PROVE  CwdFor(c, b) # None
<1>1. CASE c.allowed # {}
  BY <1>1 DEF Valid, ResolvedBackends
<1>2. CASE c.allowed = {}
  BY <1>2 DEF Valid, ResolvedBackends
<1> QED BY <1>1, <1>2

-----------------------------------------------------------------------------
(* The invariant *)

\* The pools that can be open where the lifespan is.
PoolsInv ==
  /\ phase \in {"down", "resolver"} => pools = {}
  /\ phase = "memory" => pools \subseteq {"resolver"}
  /\ phase \in {"engine", "failed"} => pools \subseteq {"resolver", "memory"}
  /\ phase = "close resolver" => "memory" \notin pools
  /\ phase = "dispose" => pools \subseteq {"engine"}

\* The configuration is valid, what it accepted is one of its backends, and a warm loom
\* session has the backend that the running configuration resolves, with a directory.
SessionInv ==
  /\ config = None <=> phase = "down"
  /\ config # None => Valid(config)
  /\ config # None => \A s \in vetted : pins[s] \in ResolvedBackends(config) \cup {None}
  /\ phase \notin {"serving", "close runner"} => looms = NoLoom
  /\ \A s \in SessionIds : looms[s] # None /\ config # None =>
       /\ s \in Sessions
       /\ Startable(config, pins[s])
       /\ looms[s] = ResolveBackend(config, pins[s])

ServerInv == ServerTypeOK /\ PoolsInv /\ SessionInv /\ CloseIsTried

LEMMA ConfigType == ServerTypeOK /\ config # None => config \in Config
BY DEF ServerTypeOK

LEMMA ServerInitInv == ServerInit => ServerInv
<1> SUFFICES ASSUME ServerInit PROVE ServerInv
  OBVIOUS
<1> USE DEF ServerInit
<1>1. ServerTypeOK
  BY DEF ServerTypeOK, Sessions, NoLoom, NoAsk, AskRow, NoName, NameRow
<1>2. PoolsInv
  BY DEF PoolsInv
<1>3. SessionInv
  BY DEF SessionInv, NoLoom
<1>4. CloseIsTried
  BY DEF CloseIsTried, CuratorTriesClose, NamerTriesClose, NoAsk, NoName, NameAt
<1> QED BY <1>1, <1>2, <1>3, <1>4 DEF ServerInv

-----------------------------------------------------------------------------
(* Startup and shutdown *)

StartupStep ==
  (\E c \in Configs : Boot(c)) \/ OpenResolver \/ OpenMemory \/ CreateEngine \/ FailStartup \/ FailEngine

ShutdownStep ==
  Shutdown \/ CloseRunner \/ CloseMemory \/ CloseResolver \/ Dispose \/ Exit

LEMMA StartupInv == ServerInv /\ StartupStep => ServerInv'
<1> SUFFICES ASSUME ServerInv, StartupStep PROVE ServerInv'
  OBVIOUS
<1> USE DEF ServerInv
<1>1. ASSUME NEW c \in Configs, Boot(c) PROVE ServerInv'
  <2>1. ServerTypeOK'
    <3>1. asks' \in [Queries -> AskRow]
      BY <1>1 DEF Boot, NoAsk, AskRow
    <3>2. names' \in [Branches -> NameRow]
      BY <1>1 DEF Boot, NoName, NameRow
    <3> QED BY <1>1, <3>1, <3>2 DEF Boot, ServerTypeOK, Sessions
  <2>2. PoolsInv'
    BY <1>1 DEF Boot, PoolsInv
  <2>3. SessionInv'
    BY <1>1 DEF Boot, SessionInv, NoLoom
  <2>4. CloseIsTried'
    BY <1>1 DEF Boot, CloseIsTried, CuratorTriesClose, NamerTriesClose, NoAsk, NoName, NameAt
  <2> QED BY <2>1, <2>2, <2>3, <2>4
<1>2. ASSUME OpenResolver \/ OpenMemory \/ CreateEngine \/ FailStartup \/ FailEngine PROVE ServerInv'
  <2>1. UNCHANGED <<config, asks, names, package, sessionVars>>
    BY <1>2 DEF OpenResolver, OpenMemory, CreateEngine, FailStartup, FailEngine, Lifespan
  <2>2. ServerTypeOK'
    BY <1>2, <2>1 DEF OpenResolver, OpenMemory, CreateEngine, FailStartup, FailEngine, Lifespan, UsesDistill,
                      ServerTypeOK, Sessions, sessionVars
  <2>3. PoolsInv'
    BY <1>2, <2>1 DEF OpenResolver, OpenMemory, CreateEngine, FailStartup, FailEngine, Lifespan, UsesDistill,
                      PoolsInv
  <2>4. SessionInv'
    <3>1. looms = NoLoom /\ UNCHANGED looms /\ phase # "down" /\ phase' # "down"
      BY <1>2, <2>1 DEF OpenResolver, OpenMemory, CreateEngine, FailStartup, FailEngine, Lifespan, UsesDistill,
                        SessionInv, sessionVars
    <3> QED BY <3>1, <2>1 DEF SessionInv, sessionVars, NoLoom
  <2>5. CloseIsTried'
    <3>1. phase # "serving"
      BY <1>2 DEF OpenResolver, OpenMemory, CreateEngine, FailStartup, FailEngine, Lifespan,
                  UsesDistill
    <3> QED BY <2>1, <3>1 DEF CloseIsTried, CuratorTriesClose, NamerTriesClose, NameAt
  <2> QED BY <2>2, <2>3, <2>4, <2>5
<1> QED BY <1>1, <1>2 DEF StartupStep

LEMMA ShutdownInv == ServerInv /\ ShutdownStep => ServerInv'
<1> SUFFICES ASSUME ServerInv, ShutdownStep PROVE ServerInv'
  OBVIOUS
<1> USE DEF ServerInv
<1>1. ServerTypeOK'
  <2> USE DEF ServerTypeOK, Sessions, sessionVars
  <2>1. CASE Shutdown
    BY <2>1 DEF Shutdown
  <2>2. CASE CloseRunner
    BY <2>2 DEF CloseRunner, NoLoom
  <2>3. CASE CloseMemory
    BY <2>3 DEF CloseMemory
  <2>4. CASE CloseResolver \/ Dispose
    BY <2>4 DEF CloseResolver, Dispose
  <2>5. CASE Exit
    <3>1. asks' \in [Queries -> AskRow]
      BY <2>5 DEF Exit, NoAsk, AskRow
    <3>2. names' \in [Branches -> NameRow]
      BY <2>5 DEF Exit, NoName, NameRow
    <3> QED BY <2>5, <3>1, <3>2 DEF Exit, NoLoom
  <2> QED BY <2>1, <2>2, <2>3, <2>4, <2>5 DEF ShutdownStep
<1>2. PoolsInv'
  <2>1. CASE Shutdown
    BY <2>1 DEF Shutdown, PoolsInv
  <2>2. CASE CloseRunner
    BY <2>2 DEF CloseRunner, PoolsInv
  <2>3. CASE CloseMemory
    BY <2>3 DEF CloseMemory, PoolsInv
  <2>4. CASE CloseResolver \/ Dispose
    BY <2>4 DEF CloseResolver, Dispose, PoolsInv, ServerTypeOK
  <2>5. CASE Exit
    BY <2>5 DEF Exit, PoolsInv
  <2> QED BY <2>1, <2>2, <2>3, <2>4, <2>5 DEF ShutdownStep
<1>3. SessionInv'
  <2>1. CASE Shutdown
    BY <2>1 DEF Shutdown, SessionInv, sessionVars, Sessions
  <2>2. CASE ~Shutdown
    <3>1. /\ looms' = NoLoom /\ UNCHANGED <<pins, vetted>>
          /\ config' = IF phase' = "down" THEN None ELSE config
          /\ phase # "down"
      BY <2>2 DEF ShutdownStep, CloseRunner, CloseMemory, CloseResolver, Dispose, Exit, SessionInv,
                  sessionVars
    <3> QED BY <3>1 DEF SessionInv, NoLoom
  <2> QED BY <2>1, <2>2
<1>4. CloseIsTried'
  <2>1. CASE Exit
    BY <2>1 DEF Exit, CloseIsTried, CuratorTriesClose, NamerTriesClose, NoAsk, NoName, NameAt
  <2>2. CASE Shutdown
    BY <2>2 DEF Shutdown, Drained, CloseIsTried, CuratorTriesClose, NamerTriesClose, NameAt
  <2>3. CASE CloseRunner \/ CloseMemory \/ CloseResolver \/ Dispose
    <3>1. UNCHANGED <<asks, names>> /\ phase # "serving"
      BY <2>3 DEF CloseRunner, CloseMemory, CloseResolver, Dispose
    <3> QED BY <3>1 DEF CloseIsTried, CuratorTriesClose, NamerTriesClose, NameAt
  <2> QED BY <2>1, <2>2, <2>3 DEF ShutdownStep
<1> QED BY <1>1, <1>2, <1>3, <1>4

-----------------------------------------------------------------------------
(* Sessions and runs *)

\* A row for a new session, pinned to what the configuration accepted or to what a vetted
\* parent has, leaves every conjunct as it was.
LEMMA NewSessionInv ==
  ASSUME ServerInv, phase = "serving",
         NEW s \in SessionIds, s \notin Sessions,
         NEW pin \in Backends \cup {None},
         pins' = [x \in Sessions \cup {s} |-> IF x = s THEN pin ELSE pins[x]],
         vetted' \in {vetted, vetted \cup {s}},
         s \in vetted' /\ config # None => pin \in ResolvedBackends(config) \cup {None},
         UNCHANGED <<config, memory, asks, names, lifespanVars, looms>>
  PROVE  ServerInv'
<1> USE DEF ServerInv, lifespanVars
<1>1. ServerTypeOK'
  BY DEF ServerTypeOK, Sessions
<1>2. PoolsInv'
  BY DEF PoolsInv
<1>3. SessionInv'
  <2>1. s \notin vetted
    BY DEF ServerTypeOK
  <2>2. \A x \in Sessions : pins'[x] = pins[x] /\ x \in Sessions'
    BY DEF Sessions
  <2>3. config' # None => \A x \in vetted' : pins'[x] \in ResolvedBackends(config') \cup {None}
    BY <2>1, <2>2 DEF SessionInv, ServerTypeOK
  <2>4. \A x \in SessionIds : looms'[x] # None /\ config' # None =>
          /\ x \in Sessions'
          /\ Startable(config', pins'[x])
          /\ looms'[x] = ResolveBackend(config', pins'[x])
    BY <2>2 DEF SessionInv
  <2> QED BY <2>3, <2>4 DEF SessionInv, NoLoom
<1>4. CloseIsTried'
  BY DEF CloseIsTried, CuratorTriesClose, NamerTriesClose, NameAt
<1> QED BY <1>1, <1>2, <1>3, <1>4

LEMMA CreateSessionInv ==
  ASSUME ServerInv, NEW s \in SessionIds, NEW requested \in Backends \cup {None},
         CreateSession(s, requested)
  PROVE  ServerInv'
<1>1. requested \in ResolvedBackends(config) \cup {None}
  BY DEF CreateSession, Accepted
<1> QED BY <1>1, NewSessionInv DEF CreateSession

LEMMA ForkSessionInv ==
  ASSUME ServerInv, NEW s \in SessionIds, NEW parent \in SessionIds,
         NEW requested \in Backends \cup {None}, ForkSession(s, parent, requested)
  PROVE  ServerInv'
<1> DEFINE pin == IF requested = None THEN pins[parent] ELSE requested
<1>1. pin \in Backends \cup {None}
  BY DEF ForkSession, ServerInv, ServerTypeOK
<1>2. s \notin vetted
  BY DEF ForkSession, ServerInv, ServerTypeOK
<1>3. s \in vetted' /\ config # None => pin \in ResolvedBackends(config) \cup {None}
  BY <1>2 DEF ForkSession, Accepted, ServerInv, SessionInv
<1>4. vetted' \in {vetted, vetted \cup {s}}
  BY DEF ForkSession
<1> HIDE DEF pin
<1>5. pins' = [x \in Sessions \cup {s} |-> IF x = s THEN pin ELSE pins[x]]
  BY DEF ForkSession, pin
<1> QED BY <1>1, <1>3, <1>4, <1>5, NewSessionInv DEF ForkSession

LEMMA StartRunInv ==
  ASSUME ServerInv, NEW s \in SessionIds, StartRun(s)
  PROVE  ServerInv'
<1> USE DEF ServerInv, lifespanVars
<1>1. UNCHANGED <<config, memory, asks, names, phase, package, pools, pins, vetted>>
  BY DEF StartRun
<1>2. looms' = [looms EXCEPT ![s] = IF @ # None THEN @ ELSE ResolveBackend(config, pins[s])]
  BY DEF StartRun
<1>3. s \in Sessions /\ Startable(config, pins[s]) /\ phase = "serving"
  BY DEF StartRun
<1>4. looms \in [SessionIds -> Backends \cup {None}] /\ pins[s] \in Backends \cup {None}
  BY <1>3 DEF ServerTypeOK
<1>5. ServerTypeOK'
  <2>1. ResolveBackend(config, pins[s]) \in Backends \cup {None}
    BY <1>3, <1>4, ResolveType, ConfigType DEF SessionInv
  <2>2. looms' \in [SessionIds -> Backends \cup {None}]
    BY <2>1, <1>2, <1>4
  <2> QED BY <2>2, <1>1 DEF ServerTypeOK, Sessions
<1>6. PoolsInv'
  BY <1>1 DEF PoolsInv
<1>7. SessionInv'
  BY <1>1, <1>2, <1>3, <1>4 DEF SessionInv, Sessions
<1>8. CloseIsTried'
  BY <1>1 DEF CloseIsTried, CuratorTriesClose, NamerTriesClose, NameAt
<1> QED BY <1>5, <1>6, <1>7, <1>8

-----------------------------------------------------------------------------
(* The curator and the namer *)

CuratorStep == phase = "serving" /\ CuratorNext /\ UNCHANGED <<names, lifespanVars, sessionVars>>

NamerStepInServer ==
  /\ phase = "serving"
  /\ NamerNext({pins[s] : s \in Sessions})
  /\ UNCHANGED <<memory, asks, lifespanVars, sessionVars>>

LEMMA CuratorFrame ==
  ASSUME CuratorNext PROVE UNCHANGED <<config, memory>>
BY DEF CuratorNext, Ask, BuildContext, OpenLoom, Refuse, Iterate, Abandon, Stop, CloseLoom,
       AskAgain, Answer

\* A step of one query gives it a row of the right type that keeps its promise about looms.
LEMMA AskRowStep ==
  ASSUME asks \in [Queries -> AskRow], config \in Config, NEW q \in Queries,
         asks[q].step \in {"idle", "scoped", "asked", "ended"} => asks[q].loom # "open",
         \/ \E mode \in {"raw", "distill"}, requested \in Backends \cup {None} : Ask(q, mode, requested)
         \/ BuildContext(q) \/ OpenLoom(q) \/ Refuse(q) \/ Iterate(q) \/ Abandon(q)
         \/ Stop(q) \/ CloseLoom(q) \/ AskAgain(q)
  PROVE  \E row \in AskRow :
           /\ asks' = [asks EXCEPT ![q] = row]
           /\ row.step \in {"idle", "scoped", "asked", "ended"} => row.loom # "open"
<1>1. NoAsk \in AskRow /\ NoAsk.loom # "open" /\ asks[q] \in AskRow
  BY DEF NoAsk, AskRow
<1>2. ASSUME NEW mode \in {"raw", "distill"}, NEW requested \in Backends \cup {None},
             Ask(q, mode, requested)
      PROVE  \E row \in AskRow :
               /\ asks' = [asks EXCEPT ![q] = row]
               /\ row.step \in {"idle", "scoped", "asked", "ended"} => row.loom # "open"
  <2>1. ResolveBackend(config, requested) \in Backends \cup {None}
    BY ResolveType
  <2> DEFINE row == [NoAsk EXCEPT !.step = "scoped", !.mode = mode,
                                  !.backend = ResolveBackend(config, requested)]
  <2>2. row \in AskRow /\ row.loom # "open"
    BY <2>1 DEF NoAsk, AskRow
  <2>3. asks' = [asks EXCEPT ![q] = row]
    BY <1>2 DEF Ask, Answer
  <2> QED BY <2>2, <2>3
<1>3. CASE BuildContext(q)
  <2> DEFINE row == IF asks[q].mode = "distill" /\ memory = "noop" THEN NoAsk
                  ELSE [asks[q] EXCEPT !.step = "asked", !.mode = "raw"]
  <2>1. row \in AskRow
    BY <1>1, <1>3 DEF AskRow, NoAsk
  <2>2. row.step \in {"idle", "scoped", "asked", "ended"} => row.loom # "open"
    BY <1>1, <1>3 DEF AskAt, BuildContext, AskRow, NoAsk
  <2>3. asks' = [asks EXCEPT ![q] = row]
    BY <1>3 DEF BuildContext, Answer
  <2> QED BY <2>1, <2>2, <2>3
<1>4. CASE OpenLoom(q)
  <2> DEFINE row == IF CwdFor(config, asks[q].backend) = None THEN NoAsk
                  ELSE [asks[q] EXCEPT !.step = "ready", !.backend = None, !.loom = "open"]
  <2>1. row \in AskRow
    BY <1>1, <1>4 DEF AskRow, NoAsk
  <2>2. row.step \in {"idle", "scoped", "asked", "ended"} => row.loom # "open"
    BY <1>1, <1>4 DEF AskAt, OpenLoom, AskRow, NoAsk
  <2>3. asks' = [asks EXCEPT ![q] = row]
    BY <1>4 DEF OpenLoom, Answer
  <2> QED BY <2>1, <2>2, <2>3
<1>5. CASE Refuse(q) \/ AskAgain(q)
  BY <1>1, <1>5 DEF Refuse, AskAgain, Answer
<1>6. ASSUME NEW step \in {"streaming", "abandoned", "closing"},
             asks' = [asks EXCEPT ![q] = [asks[q] EXCEPT !.step = step]]
      PROVE  \E row \in AskRow :
               /\ asks' = [asks EXCEPT ![q] = row]
               /\ row.step \in {"idle", "scoped", "asked", "ended"} => row.loom # "open"
  <2> DEFINE row == [asks[q] EXCEPT !.step = step]
  <2>1. row \in AskRow /\ row.step = step
    BY <1>1 DEF AskRow
  <2> QED BY <1>6, <2>1
<1>7. CASE Iterate(q) \/ Abandon(q) \/ Stop(q)
  BY <1>6, <1>7 DEF Iterate, Abandon, Stop, Answer
<1>8. CASE CloseLoom(q)
  <2>1. PICK loom \in {"closed", "left"} :
          asks' = [asks EXCEPT ![q] = [asks[q] EXCEPT !.step = "ended", !.loom = loom]]
    BY <1>8 DEF CloseLoom, Answer
  <2> DEFINE row == [asks[q] EXCEPT !.step = "ended", !.loom = loom]
  <2>2. row \in AskRow /\ row.loom # "open"
    BY <1>1 DEF AskRow
  <2> QED BY <2>1, <2>2
<1> QED BY <1>2, <1>3, <1>4, <1>5, <1>7, <1>8

LEMMA CuratorInv == ServerInv /\ CuratorStep => ServerInv'
<1> SUFFICES ASSUME ServerInv, CuratorStep PROVE ServerInv'
  OBVIOUS
<1> USE DEF ServerInv
<1>1. UNCHANGED <<config, memory, names, phase, package, pools, pins, vetted, looms>>
  BY CuratorFrame DEF CuratorStep, lifespanVars, sessionVars
<1>2. config \in Config
  BY ConfigType DEF CuratorStep, SessionInv
<1>3. asks \in [Queries -> AskRow] /\ CuratorTriesClose
  BY DEF ServerTypeOK, CloseIsTried
<1>4. PICK q \in Queries :
         \/ \E mode \in {"raw", "distill"}, requested \in Backends \cup {None} : Ask(q, mode, requested)
         \/ BuildContext(q) \/ OpenLoom(q) \/ Refuse(q) \/ Iterate(q) \/ Abandon(q)
         \/ Stop(q) \/ CloseLoom(q) \/ AskAgain(q)
  BY DEF CuratorStep, CuratorNext
<1>5. PICK row \in AskRow :
        /\ asks' = [asks EXCEPT ![q] = row]
        /\ row.step \in {"idle", "scoped", "asked", "ended"} => row.loom # "open"
  BY <1>2, <1>3, <1>4, AskRowStep DEF CuratorTriesClose
<1>6. asks' \in [Queries -> AskRow] /\ CuratorTriesClose'
  BY <1>3, <1>5 DEF CuratorTriesClose
<1>7. ServerTypeOK'
  BY <1>1, <1>6 DEF ServerTypeOK, Sessions
<1>8. PoolsInv' /\ SessionInv'
  BY <1>1 DEF PoolsInv, SessionInv, Sessions
<1>9. NamerTriesClose'
  BY <1>1 DEF CloseIsTried, NamerTriesClose, NameAt
<1>10. phase' = "serving"
  BY <1>1 DEF CuratorStep
<1> QED BY <1>6, <1>7, <1>8, <1>9, <1>10 DEF CloseIsTried

LEMMA NameRowStep ==
  ASSUME names \in [Branches -> NameRow], NEW b \in Branches, NEW P,
         NamerTriesClose,
         (\E pin \in P : NameBranch(b, pin)) \/ NamerStep(b) \/ BranchAgain(b)
  PROVE  \E row \in NameRow :
           /\ names' = [names EXCEPT ![b] = row]
           /\ row.step = "titled" =>
                row.loom # "open" /\ (row.result = "auto" => row.loom # "none")
<1> DEFINE Good(row) == row.step = "titled" =>
                          row.loom # "open" /\ (row.result = "auto" => row.loom # "none")
<1>1. names[b] \in NameRow /\ NoName \in NameRow /\ Good(NoName)
  BY DEF NameRow, NoName
<1>2. ASSUME NEW pin \in P, NameBranch(b, pin)
      PROVE  \E row \in NameRow : names' = [names EXCEPT ![b] = row] /\ Good(row)
  <2> DEFINE row == IF Enabled(config) /\ Startable(config, pin)
                      THEN [NoName EXCEPT !.step = "asking", !.loom = "open"]
                      ELSE [NoName EXCEPT !.step = "titled", !.result = "fallback"]
  <2>1. row \in NameRow
    BY DEF NameRow, NoName
  <2>2. Good(row)
    BY DEF NoName
  <2>3. names' = [names EXCEPT ![b] = row]
    BY <1>2 DEF NameBranch, Rename
  <2> QED BY <2>1, <2>2, <2>3
<1>3. ASSUME NEW result \in {"auto", "fallback"},
             names' = [names EXCEPT ![b] = [names[b] EXCEPT !.step = "closing", !.result = result]]
      PROVE  \E row \in NameRow : names' = [names EXCEPT ![b] = row] /\ Good(row)
  <2> DEFINE row == [names[b] EXCEPT !.step = "closing", !.result = result]
  <2>1. row \in NameRow /\ Good(row)
    BY <1>1 DEF NameRow
  <2> QED BY <1>3, <2>1
<1>4. CASE NameAnswered(b) \/ NameFailed(b)
  BY <1>3, <1>4 DEF NameAnswered, NameFailed, Rename
<1>5. CASE CloseOneShot(b)
  <2>1. PICK loom \in {"closed", "left"} :
          names' = [names EXCEPT ![b] = [names[b] EXCEPT !.step = "titled", !.loom = loom]]
    BY <1>5 DEF CloseOneShot, Rename
  <2> DEFINE row == [names[b] EXCEPT !.step = "titled", !.loom = loom]
  <2>2. row \in NameRow /\ Good(row)
    BY <1>1 DEF NameRow
  <2> QED BY <2>1, <2>2
<1>6. CASE BranchAgain(b)
  BY <1>1, <1>6 DEF BranchAgain, Rename
<1>7. CASE CloseHangs(b)
  <2> DEFINE row == [names[b] EXCEPT !.step = "hung"]
  <2>1. row \in NameRow /\ Good(row)
    BY <1>1 DEF NameRow
  <2>2. names' = [names EXCEPT ![b] = row]
    BY <1>7 DEF CloseHangs, Rename
  <2> QED BY <2>1, <2>2
<1>8. CASE NameTimesOut(b)
  <2> DEFINE cut == [names[b] EXCEPT !.result = "fallback", !.timedOut = TRUE]
  <2> DEFINE asking == [cut EXCEPT !.step = "closing"]
  <2> DEFINE closing == [cut EXCEPT !.step = "titled", !.loom = "left"]
  <2>1. asking \in NameRow /\ Good(asking)
    BY <1>1 DEF NameRow
  <2>2. closing \in NameRow /\ Good(closing)
    BY <1>1 DEF NameRow
  <2>3. names' = [names EXCEPT ![b] = asking] \/ names' = [names EXCEPT ![b] = closing]
    BY <1>8 DEF NameTimesOut, Rename
  <2> HIDE DEF asking, closing
  <2> QED BY <2>1, <2>2, <2>3
<1> QED BY <1>2, <1>4, <1>5, <1>6, <1>7, <1>8 DEF NamerStep

LEMMA NamerInv == ServerInv /\ NamerStepInServer => ServerInv'
<1> SUFFICES ASSUME ServerInv, NamerStepInServer PROVE ServerInv'
  OBVIOUS
<1> USE DEF ServerInv
<1>1. UNCHANGED <<config, memory, asks, phase, package, pools, pins, vetted, looms>>
  BY DEF NamerStepInServer, NamerNext, NameBranch, NamerStep, NameAnswered, NameFailed,
         NameTimesOut, CloseOneShot, CloseHangs, BranchAgain, Rename, lifespanVars, sessionVars
<1>2. names \in [Branches -> NameRow] /\ NamerTriesClose
  BY DEF ServerTypeOK, CloseIsTried
<1> DEFINE P == {pins[s] : s \in Sessions}
<1>3. PICK b \in Branches : (\E pin \in P : NameBranch(b, pin)) \/ NamerStep(b) \/ BranchAgain(b)
  BY DEF NamerStepInServer, NamerNext
<1> HIDE DEF P
<1>4. PICK row \in NameRow :
        /\ names' = [names EXCEPT ![b] = row]
        /\ row.step = "titled" =>
             row.loom # "open" /\ (row.result = "auto" => row.loom # "none")
  BY <1>2, <1>3, NameRowStep
<1>5. names' \in [Branches -> NameRow] /\ NamerTriesClose'
  BY <1>2, <1>4 DEF NamerTriesClose, NameAt
<1>6. ServerTypeOK'
  BY <1>1, <1>5 DEF ServerTypeOK, Sessions
<1>7. PoolsInv' /\ SessionInv'
  BY <1>1 DEF PoolsInv, SessionInv, Sessions
<1>8. CuratorTriesClose'
  BY <1>1 DEF CloseIsTried, CuratorTriesClose
<1>9. phase' = "serving"
  BY <1>1 DEF NamerStepInServer
<1> QED BY <1>5, <1>6, <1>7, <1>8, <1>9 DEF CloseIsTried

-----------------------------------------------------------------------------
(* Theorems *)

LEMMA ServerStutter == ServerInv /\ UNCHANGED serverVars => ServerInv'
BY DEF serverVars, lifespanVars, sessionVars, ServerInv, ServerTypeOK, Sessions, PoolsInv,
       SessionInv, CloseIsTried, CuratorTriesClose, NamerTriesClose, NameAt

LEMMA ServerStep == ServerInv /\ [ServerNext]_serverVars => ServerInv'
<1> SUFFICES ASSUME ServerInv, [ServerNext]_serverVars PROVE ServerInv'
  OBVIOUS
<1>1. CASE StartupStep
  BY <1>1, StartupInv
<1>2. CASE ShutdownStep
  BY <1>2, ShutdownInv
<1>3. ASSUME NEW s \in SessionIds, NEW requested \in Backends \cup {None},
             \/ CreateSession(s, requested)
             \/ \E parent \in SessionIds : ForkSession(s, parent, requested)
      PROVE  ServerInv'
  BY <1>3, CreateSessionInv, ForkSessionInv
<1>4. ASSUME NEW s \in SessionIds, StartRun(s) PROVE ServerInv'
  BY <1>4, StartRunInv
<1>5. CASE CuratorStep
  BY <1>5, CuratorInv
<1>6. CASE NamerStepInServer
  BY <1>6, NamerInv
<1>7. CASE UNCHANGED serverVars
  BY <1>7, ServerStutter
<1> QED
  BY <1>1, <1>2, <1>3, <1>4, <1>5, <1>6, <1>7
     DEF ServerNext, StartupStep, ShutdownStep, CuratorStep, NamerStepInServer

\* The inductive invariant of a server, over any number of starts, stops and kills.
THEOREM ServerInvariant == ServerSpec => []ServerInv
<1> QED BY ServerInitInv, ServerStep, PTL DEF ServerSpec

\* The lifespan, the sessions and the requests keep their types (server.py).
THEOREM ServerTypeCorrect == ServerSpec => []ServerTypeOK
<1>1. ServerInv => ServerTypeOK
  BY DEF ServerInv
<1> QED BY <1>1, ServerInvariant, PTL

\* The default that GET /agent/backends shows is the one a run resolves, for every
\* configuration (api/agent.py, agent_runner.py, curator.py, auto_namer.py).
THEOREM DefaultsAgree == ServerSpec => []DefaultIsAdvertised
<1>1. DefaultIsAdvertised
  BY AdvertisedResolves DEF DefaultIsAdvertised
<1> QED BY <1>1, PTL

LEMMA ServerInvVetted == ServerInv => VettedSessionsStart
<1> SUFFICES ASSUME ServerInv, config # None, NEW s \in vetted
    PROVE /\ pins[s] # None => /\ Startable(config, pins[s])
                               /\ pins[s] \in ResolvedBackends(config)
          /\ pins[s] = None /\ AdvertisedDefault(config) # None => Startable(config, None)
  BY DEF VettedSessionsStart
<1>1. config \in Config /\ Valid(config) /\ pins[s] \in ResolvedBackends(config) \cup {None}
  BY ConfigType DEF ServerInv, SessionInv
<1>2. ASSUME NEW r \in ResolvedBackends(config) \cup {None}, ResolveBackend(config, r) # None
      PROVE  Startable(config, r)
  BY <1>1, <1>2, ResolveInResolved, ResolvedHaveDirectory DEF Startable
<1>3. pins[s] # None => ResolveBackend(config, pins[s]) = pins[s]
  BY DEF ResolveBackend
<1>4. AdvertisedDefault(config) = ResolveBackend(config, None)
  BY AdvertisedResolves
<1> QED BY <1>1, <1>2, <1>3, <1>4

\* A session whose backend was accepted can start on it, whatever its ancestors were pinned
\* to by earlier configurations (api/sessions.py, config.py).
THEOREM AcceptedSessionsStart == ServerSpec => []VettedSessionsStart
<1> QED BY ServerInvVetted, ServerInvariant, PTL

LEMMA ServerInvIsolated == ServerInv => VettedSessionsIsolated
<1> SUFFICES ASSUME ServerInv, NEW s \in vetted, config # None, looms[s] # None,
                    config.isolation = "per_session", ~config.gitOK
             PROVE  CwdFor(config, looms[s]) = "plain"
  BY DEF VettedSessionsIsolated
<1>1. config \in Config /\ Valid(config) /\ pins[s] \in ResolvedBackends(config) \cup {None}
  BY ConfigType DEF ServerInv, SessionInv
<1>2. s \in SessionIds /\ looms[s] = ResolveBackend(config, pins[s])
  BY DEF ServerInv, ServerTypeOK, SessionInv
<1>3. looms[s] \in ResolvedBackends(config) /\ looms[s] \in Backends
  BY <1>1, <1>2, ResolveInResolved, ResolvedType
<1>4. CwdFor(config, looms[s]) \notin {"git", None}
  BY <1>1, <1>3, ResolvedHaveDirectory DEF Valid, Isolated
<1>5. CwdFor(config, looms[s]) \in Dirs
  BY <1>1, <1>3 DEF Config, CwdFor
<1> QED BY <1>4, <1>5 DEF Dirs

\* Under per-session isolation the agent of an accepted session never works inside a git
\* checkout that was not allowed (config.py).
THEOREM AcceptedSessionsIsolated == ServerSpec => []VettedSessionsIsolated
<1> QED BY ServerInvIsolated, ServerInvariant, PTL

\* Whatever fails during a start or a stop, a lifespan that ends in good order has closed
\* every pool, and a startup that fails never has the engine's pool open (server.py).
THEOREM PoolsClosed == ServerSpec => []PoolsReleased
<1>1. ServerInv => PoolsReleased
  BY DEF ServerInv, PoolsInv, PoolsReleased
<1> QED BY <1>1, ServerInvariant, PTL

\* A query or a branch name that is over has called close() on its loom session, unless it
\* is a response that was never asked for (curator.py, auto_namer.py).
THEOREM OneShotsTryClose == ServerSpec => []CloseIsTried
<1>1. ServerInv => CloseIsTried
  BY DEF ServerInv
<1> QED BY <1>1, ServerInvariant, PTL

=============================================================================
