---------------------------- MODULE SessionStore ----------------------------
(***************************************************************************)
(* The five tables of stratoclave-atelier (groups, sessions, versions,     *)
(* events, snapshot_queries) behind the Store protocol, as InMemoryStore   *)
(* implements it: one lock, so every operation is one atomic action.  The  *)
(* module docstring of db/memory.py calls that implementation the          *)
(* executable specification of the protocol; this module is the abstract   *)
(* specification the other modules build on or refine.                     *)
(*                                                                         *)
(* A call that raises NotFoundError or ConflictError changes nothing, so   *)
(* it is a guard that does not hold.  Titles, names, colours and payloads  *)
(* are left out unless an operation could lose them.                       *)
(***************************************************************************)
EXTENDS Naturals, Sequences, FiniteSets

CONSTANTS
  SessionIds,   \* supply of uuid4 session ids
  GroupIds,     \* supply of uuid4 group ids; a deleted id never comes back
  VersionIds,   \* supply of uuid4 version ids
  QueryIds,     \* supply of uuid4 snapshot-query ids
  Backends,     \* names a session's agent_backend may hold
  Titles,       \* normalised titles
  Statuses,     \* "active", "frozen", "archived"
  Kinds,        \* event kinds
  MaxSeq,       \* bound: largest seq an event or a range is given
  None          \* Python's None

ASSUME StoreAssumption ==
  /\ None \notin SessionIds \cup GroupIds \cup VersionIds \cup Backends
  /\ None \notin Nat
  /\ "active" \in Statuses
  /\ MaxSeq \in Nat

VARIABLES
  groups,      \* group id -> "unused", "present" or "deleted"
  sessions,    \* session id -> row, for the ids that have a row
  versions,    \* version id -> row, for the ids that have a row
  events,      \* session id -> its rows of the events table, in order
  nextSeq,     \* session id -> the next seq to allocate
  queries      \* snapshot-query id -> row

storeVars == <<groups, sessions, versions, events, nextSeq, queries>>

-----------------------------------------------------------------------------
SessionRow == [group   : GroupIds \cup {None},
               title   : Titles,
               parent  : SessionIds \cup {None},
               version : VersionIds \cup {None},
               forkSeq : Nat \cup {None},
               status  : Statuses,
               backend : Backends \cup {None}]

VersionRow == [session : SessionIds, start : Nat, end : Nat, turnCount : Nat]

EventRow == [seq : Nat, kind : Kinds]

QueryRow == [source : SessionIds, target : VersionIds]

TypeOK ==
  /\ groups \in [GroupIds -> {"unused", "present", "deleted"}]
  /\ DOMAIN sessions \subseteq SessionIds
  /\ sessions \in [DOMAIN sessions -> SessionRow]
  /\ DOMAIN versions \subseteq VersionIds
  /\ versions \in [DOMAIN versions -> VersionRow]
  /\ events \in [DOMAIN sessions -> Seq(EventRow)]
  /\ nextSeq \in [DOMAIN sessions -> Nat]
  /\ DOMAIN queries \subseteq QueryIds
  /\ queries \in [DOMAIN queries -> QueryRow]

Insert(table, id, row) ==
  [x \in DOMAIN table \cup {id} |-> IF x = id THEN row ELSE table[x]]

Present(g) == groups[g] = "present"

\* Mutant: an id that is in use already.
ReusedId(id, supply, table) == id \in supply

\* uuid4(), or gen_random_uuid() in Postgres.
NewId(id, supply, table) == id \in supply \ DOMAIN table

Init ==
  /\ groups = [g \in GroupIds |-> "unused"]
  /\ sessions = << >>
  /\ versions = << >>
  /\ events = << >>
  /\ nextSeq = << >>
  /\ queries = << >>

-----------------------------------------------------------------------------
(* Groups *)

CreateGroup(g) ==
  /\ groups[g] = "unused"
  /\ groups' = [groups EXCEPT ![g] = "present"]
  /\ UNCHANGED <<sessions, versions, events, nextSeq, queries>>

\* Mutant: the sessions of the group keep pointing at it.
DeleteGroupOnly(g) ==
  /\ Present(g)
  /\ groups' = [groups EXCEPT ![g] = "deleted"]
  /\ UNCHANGED <<sessions, versions, events, nextSeq, queries>>

\* Sessions still pointing at the group are detached in the same step.
DeleteGroup(g) ==
  /\ Present(g)
  /\ groups' = [groups EXCEPT ![g] = "deleted"]
  /\ sessions' = [s \in DOMAIN sessions |->
                    IF sessions[s].group = g
                      THEN [sessions[s] EXCEPT !.group = None]
                      ELSE sessions[s]]
  /\ UNCHANGED <<versions, events, nextSeq, queries>>

UpdateSessionGroup(s, g) ==
  /\ s \in DOMAIN sessions
  /\ sessions[s].parent = None
  /\ g # None => Present(g)
  /\ sessions' = [sessions EXCEPT ![s].group = g]
  /\ UNCHANGED <<groups, versions, events, nextSeq, queries>>

-----------------------------------------------------------------------------
(* Sessions *)

\* Mutant: the fork point is only kept from lying past the end of the version.
ForkPointFromZero(parent, version, forkSeq) ==
  version # None =>
    /\ version \in DOMAIN versions
    /\ versions[version].session = parent
    /\ forkSeq # None
    /\ forkSeq <= versions[version].end

\* The checks create_session makes on the fork point.
ForkPointOK(parent, version, forkSeq) ==
  version # None =>
    /\ version \in DOMAIN versions
    /\ versions[version].session = parent
    /\ forkSeq # None
    /\ versions[version].start <= forkSeq
    /\ forkSeq <= versions[version].end

\* Mutants: a fork falls back to the server's default, or is given its parent's id.
DefaultBackend(parent, backend) == backend
ParentAsBackend(parent, backend) == IF backend = None /\ parent # None THEN parent ELSE backend

\* A fork that names no backend takes its parent's.
InheritedBackend(parent, backend) ==
  IF backend = None /\ parent # None THEN sessions[parent].backend ELSE backend

CreateSession(s, g, parent, version, forkSeq, title, backend) ==
  /\ NewId(s, SessionIds, sessions)
  /\ g # None => Present(g)
  /\ parent # None => parent \in DOMAIN sessions
  /\ ForkPointOK(parent, version, forkSeq)
  /\ sessions' = Insert(sessions, s,
                   [group   |-> g,
                    title   |-> title,
                    parent  |-> parent,
                    version |-> version,
                    forkSeq |-> forkSeq,
                    status  |-> "active",
                    backend |-> InheritedBackend(parent, backend)])
  /\ events' = Insert(events, s, << >>)
  /\ nextSeq' = Insert(nextSeq, s, 0)
  /\ UNCHANGED <<groups, versions, queries>>

\* Mutant: rebuilding the row by hand leaves out a column.
TitleLosesBackend(s, title) ==
  /\ s \in DOMAIN sessions
  /\ sessions' = [sessions EXCEPT ![s].title = title, ![s].backend = None]
  /\ UNCHANGED <<groups, versions, events, nextSeq, queries>>

UpdateSessionStatus(s, status) ==
  /\ s \in DOMAIN sessions
  /\ sessions' = [sessions EXCEPT ![s].status = status]
  /\ UNCHANGED <<groups, versions, events, nextSeq, queries>>

UpdateSessionTitle(s, title) ==
  /\ s \in DOMAIN sessions
  /\ sessions' = [sessions EXCEPT ![s].title = title]
  /\ UNCHANGED <<groups, versions, events, nextSeq, queries>>

-----------------------------------------------------------------------------
(* Versions, events and snapshot queries *)

\* The store does not compare the range with the session's log: the freeze
\* pipeline is trusted to pass seqs it has just read.
CreateVersion(v, s, start, end) ==
  /\ NewId(v, VersionIds, versions)
  /\ s \in DOMAIN sessions
  /\ start <= end
  /\ versions' = Insert(versions, v,
                   [session |-> s, start |-> start, end |-> end,
                    turnCount |-> end - start + 1])
  /\ UNCHANGED <<groups, sessions, events, nextSeq, queries>>

\* Mutant: the counter is read again after it was advanced.
AppendAtNextSeq(s, kind) ==
  /\ s \in DOMAIN sessions
  /\ nextSeq[s] <= MaxSeq
  /\ events' = [events EXCEPT ![s] = Append(@, [seq |-> nextSeq[s] + 1, kind |-> kind])]
  /\ nextSeq' = [nextSeq EXCEPT ![s] = @ + 1]
  /\ UNCHANGED <<groups, sessions, versions, queries>>

\* The status of the session is not looked at here.
AppendEvent(s, kind) ==
  /\ s \in DOMAIN sessions
  /\ nextSeq[s] <= MaxSeq
  /\ events' = [events EXCEPT ![s] = Append(@, [seq |-> nextSeq[s], kind |-> kind])]
  /\ nextSeq' = [nextSeq EXCEPT ![s] = @ + 1]
  /\ UNCHANGED <<groups, sessions, versions, queries>>

CreateSnapshotQuery(q, s, v) ==
  /\ NewId(q, QueryIds, queries)
  /\ s \in DOMAIN sessions
  /\ v \in DOMAIN versions
  /\ queries' = Insert(queries, q, [source |-> s, target |-> v])
  /\ UNCHANGED <<groups, sessions, versions, events, nextSeq>>

-----------------------------------------------------------------------------
(* The call shapes of the API: POST /sessions creates a root, POST /fork   *)
(* and POST /branch create a fork with both halves of its fork point.      *)

CreateRoot(s, g, title, backend) ==
  CreateSession(s, g, None, None, None, title, backend)

CreateFork(s, g, parent, version, forkSeq, title, backend) ==
  /\ parent # None /\ version # None /\ forkSeq # None
  /\ CreateSession(s, g, parent, version, forkSeq, title, backend)

GroupOps ==
  \E g \in GroupIds :
    \/ CreateGroup(g)
    \/ DeleteGroup(g)
    \/ \E s \in SessionIds, to \in {g, None} : UpdateSessionGroup(s, to)

SessionOps ==
  \E s \in SessionIds, title \in Titles :
    \/ UpdateSessionTitle(s, title)
    \/ \E status \in Statuses : UpdateSessionStatus(s, status)
    \/ \E g \in GroupIds \cup {None}, backend \in Backends \cup {None} :
         \/ CreateRoot(s, g, title, backend)
         \/ \E parent \in SessionIds, v \in VersionIds, n \in 0..MaxSeq :
              CreateFork(s, g, parent, v, n, title, backend)

LogOps ==
  \E s \in SessionIds :
    \/ \E kind \in Kinds : AppendEvent(s, kind)
    \/ \E v \in VersionIds, start \in 0..MaxSeq, end \in 0..MaxSeq :
         CreateVersion(v, s, start, end)
    \/ \E q \in QueryIds, v \in VersionIds : CreateSnapshotQuery(q, s, v)

Next == GroupOps \/ SessionOps \/ LogOps

Spec == Init /\ [][Next]_storeVars

-----------------------------------------------------------------------------
(* Properties *)

\* The fork relation is well founded: every set of sessions has a member
\* whose parent is outside it.  fork_graph.py and curator.py walk parent
\* links and rely on there being no cycle.
ForkDagWellFounded ==
  \A S \in SUBSET DOMAIN sessions :
    S # {} => \E s \in S : sessions[s].parent \notin S

\* A fork's version is a version of its parent, and its fork_seq lies in
\* that version's range, for as long as the fork exists.
ForkPointInVersion ==
  \A s \in DOMAIN sessions :
    sessions[s].version # None =>
      /\ sessions[s].version \in DOMAIN versions
      /\ versions[sessions[s].version].session = sessions[s].parent
      /\ sessions[s].forkSeq \in versions[sessions[s].version].start ..
                                 versions[sessions[s].version].end

\* No session points at a group that was deleted (or never created).
GroupRefsPresent ==
  \A s \in DOMAIN sessions :
    sessions[s].group # None => Present(sessions[s].group)

\* A fork of a session pinned to a backend is itself pinned: it can never
\* fall back to whatever the server's default is when it next runs.
PinnedForksStayPinned ==
  \A s \in DOMAIN sessions :
    /\ sessions[s].parent # None
    /\ sessions[sessions[s].parent].backend # None
    => sessions[s].backend # None

\* The log of a session is the gapless run of seqs below nextSeq.
LogGapless ==
  \A s \in DOMAIN sessions :
    /\ Len(events[s]) = nextSeq[s]
    /\ \A i \in 1..Len(events[s]) : events[s][i].seq = i - 1

\* Whatever happens to a session later, it stays, and its lineage and its backend
\* are what they were when it was created, although its row is rebuilt field by
\* field in four places of db/memory.py.  Its group is not part of this.
LineageImmutable ==
  [][\A s \in DOMAIN sessions :
       /\ s \in DOMAIN sessions'
       /\ sessions'[s].parent = sessions[s].parent
       /\ sessions'[s].version = sessions[s].version
       /\ sessions'[s].forkSeq = sessions[s].forkSeq
       /\ sessions'[s].backend = sessions[s].backend
    ]_storeVars

\* Versions, events and audit rows are written once: a log only grows at its
\* end and no row of the other two tables is changed or removed.
HistoryWriteOnce ==
  [][/\ \A v \in DOMAIN versions :
          v \in DOMAIN versions' /\ versions'[v] = versions[v]
     /\ \A q \in DOMAIN queries :
          q \in DOMAIN queries' /\ queries'[q] = queries[q]
     /\ \A s \in DOMAIN sessions :
          /\ Len(events[s]) <= Len(events'[s])
          /\ SubSeq(events'[s], 1, Len(events[s])) = events[s]
    ]_storeVars

=============================================================================
