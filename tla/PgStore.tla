------------------------------- MODULE PgStore -------------------------------
(***************************************************************************)
(* AsyncpgStore (db/asyncpg_store.py) over Postgres at READ COMMITTED.     *)
(* A transaction takes row locks one after the other, as its statements    *)
(* and the foreign keys of the schema ask for them, and its writes are     *)
(* seen by the others when it commits.  create_session and                 *)
(* create_snapshot_query make their checks on other connections first.     *)
(*                                                                         *)
(* Postgres is external: a lock is granted when no other transaction holds *)
(* a conflicting one (the order among waiters is left open), a statement   *)
(* sees what is committed when it runs, and any transaction may be rolled  *)
(* back.  A call that names a session or version that is not there fails   *)
(* at its first statement and is left out; groups may go at any time.      *)
(* The module implements SessionStore.                                     *)
(***************************************************************************)
EXTENDS Naturals, Sequences, FiniteSets

CONSTANTS SessionIds, GroupIds, VersionIds, QueryIds, Backends, Titles, Statuses, Kinds,
          MaxSeq, None,
          Txns          \* supply of connections, each with one call at a time

VARIABLES
  groups, sessions, versions, events, queries,   \* the committed rows
  txns          \* connection -> the call that uses it

tables == <<groups, sessions, versions, events, queries>>
pgVars == <<tables, txns>>

\* SELECT COALESCE(MAX(seq) + 1, 0)
NextSeq(log) ==
  IF log = << >> THEN 0
  ELSE LET seqs == {log[i].seq : i \in DOMAIN log}
       IN  (CHOOSE n \in seqs : \A m \in seqs : m <= n) + 1

Store == INSTANCE SessionStore WITH nextSeq <- [s \in DOMAIN events |-> NextSeq(events[s])]

ASSUME PgAssumption ==
  /\ SessionIds \cap GroupIds = {}
  /\ None \notin SessionIds \cup GroupIds \cup VersionIds \cup Backends
  /\ None \notin Titles \cup Statuses \cup Kinds \cup Nat
  /\ "active" \in Statuses
  /\ MaxSeq \in Nat

-----------------------------------------------------------------------------
(* Row locks *)

Modes == {"key share", "no key update", "update"}

Lock == [row : SessionIds \cup GroupIds, mode : Modes]

KeyShare(row) == [row |-> row, mode |-> "key share"]
NoKeyUpdate(row) == [row |-> row, mode |-> "no key update"]
ForUpdate(row) == [row |-> row, mode |-> "update"]

Conflicts(l, m) ==
  /\ l.row = m.row
  /\ \/ l.mode = "update" \/ m.mode = "update"
     \/ l.mode = "no key update" /\ m.mode = "no key update"

Ops == {"none", "update group", "delete group", "move", "create session", "set status",
        "set title", "create version", "append", "create query"}

\* The locals of a call; what it does not use is None.  A call that is at "write" has
\* run its last statement once wait is empty, and commits next.
Txn == [op : Ops, step : {"idle", "lock", "read", "write"},
        session : SessionIds \cup {None}, group : GroupIds \cup {None},
        version : VersionIds \cup {None}, from : Nat \cup {None}, to : Nat \cup {None},
        value : Titles \cup Statuses \cup Kinds \cup {None}, backend : Backends \cup {None},
        wait : Seq(Lock), held : SUBSET Lock]

Idle == [op |-> "none", step |-> "idle", session |-> None, group |-> None, version |-> None,
         from |-> None, to |-> None, value |-> None, backend |-> None,
         wait |-> << >>, held |-> {}]

PgTypeOK == Store!TypeOK /\ txns \in [Txns -> Txn]

PgInit == Store!Init /\ txns = [t \in Txns |-> Idle]

At(t, op, step) == txns[t].op = op /\ txns[t].step = step /\ txns[t].wait = << >>

Begin(t, call) ==
  /\ txns[t] = Idle
  /\ txns' = [txns EXCEPT ![t] = call]
  /\ UNCHANGED tables

Exists(row) == row \in GroupIds => Store!Present(row)

TakeLock(t) ==
  /\ txns[t].wait # << >>
  /\ LET l == Head(txns[t].wait) IN
       /\ Exists(l.row)
       /\ \A u \in Txns \ {t} : \A m \in txns[u].held : ~Conflicts(l, m)
       /\ txns' = [txns EXCEPT ![t].wait = Tail(@), ![t].held = @ \cup {l}]
  /\ UNCHANGED tables

\* The row a statement or a foreign key needs is gone (NotFoundError), the call is
\* refused, the connection is lost, or Postgres ends a deadlock.
Rollback(t) ==
  /\ txns[t] # Idle
  /\ txns' = [txns EXCEPT ![t] = Idle]
  /\ UNCHANGED tables

Done(t) == txns' = [txns EXCEPT ![t] = Idle]

-----------------------------------------------------------------------------
(* Groups *)

\* A single INSERT that no other transaction can wait for.
CreateGroup(g) == Store!CreateGroup(g) /\ UNCHANGED txns

\* Names and colours are not modelled; what matters is the lock.
UpdateGroup(t, g) ==
  /\ Store!Present(g)
  /\ Begin(t, [Idle EXCEPT !.op = "update group", !.step = "write", !.group = g,
                           !.wait = <<NoKeyUpdate(g)>>])

CommitUpdateGroup(t) == At(t, "update group", "write") /\ Done(t) /\ UNCHANGED tables

DeleteGroup(t, g) ==
  /\ Store!Present(g)
  /\ Begin(t, [Idle EXCEPT !.op = "delete group", !.step = "lock", !.group = g,
                           !.wait = <<ForUpdate(g)>>])

Members(g) == {s \in DOMAIN sessions : sessions[s].group = g}

Orders(S) == {q \in [1..Cardinality(S) -> S] : {q[i] : i \in DOMAIN q} = S}

\* ON DELETE SET NULL: an UPDATE of the sessions that are in the group now.
DetachMembers(t) ==
  /\ At(t, "delete group", "lock")
  /\ \E q \in Orders(Members(txns[t].group)) :
       txns' = [txns EXCEPT ![t].step = "write", ![t].wait = [i \in DOMAIN q |-> NoKeyUpdate(q[i])]]
  /\ UNCHANGED tables

\* A row that left the group while the UPDATE waited for it is passed over.
CommitDelete(t) ==
  LET g == txns[t].group IN
  /\ At(t, "delete group", "write")
  /\ groups' = [groups EXCEPT ![g] = "deleted"]
  /\ sessions' = [s \in DOMAIN sessions |->
                    IF sessions[s].group = g /\ NoKeyUpdate(s) \in txns[t].held
                      THEN [sessions[s] EXCEPT !.group = None]
                      ELSE sessions[s]]
  /\ Done(t)
  /\ UNCHANGED <<versions, events, queries>>

MoveSession(t, s, g) ==
  /\ s \in DOMAIN sessions
  /\ Begin(t, [Idle EXCEPT !.op = "move", !.step = "lock", !.session = s, !.group = g,
                           !.wait = <<ForUpdate(s)>>])

\* Mutant: the old and the new group are locked, to keep them from changing.
WriteGroupLockingBoth(t) ==
  LET call == txns[t]
      old == sessions[call.session].group
  IN
  /\ At(t, "move", "lock")
  /\ sessions[call.session].parent = None
  /\ txns' = [txns EXCEPT ![t].step = "write",
                          ![t].wait = (IF old = None THEN << >> ELSE <<ForUpdate(old)>>) \o
                                      (IF call.group \in {None, old} THEN << >>
                                       ELSE <<ForUpdate(call.group)>>)]
  /\ UNCHANGED tables

\* The foreign key is checked only when the value changes.
WriteGroup(t) ==
  LET call == txns[t] IN
  /\ At(t, "move", "lock")
  /\ sessions[call.session].parent = None
  /\ txns' = [txns EXCEPT ![t].step = "write",
                          ![t].wait = IF call.group \in {None, sessions[call.session].group}
                                        THEN << >> ELSE <<KeyShare(call.group)>>]
  /\ UNCHANGED tables

CommitMove(t) ==
  /\ At(t, "move", "write")
  /\ sessions' = [sessions EXCEPT ![txns[t].session].group = txns[t].group]
  /\ Done(t)
  /\ UNCHANGED <<groups, versions, events, queries>>

-----------------------------------------------------------------------------
(* Sessions *)

\* _validate_fork reads the version on a connection of its own.
CreateSession(t, g, parent, version, forkSeq, title, backend) ==
  /\ parent # None => parent \in DOMAIN sessions
  /\ Store!ForkPointOK(parent, version, forkSeq)
  /\ Begin(t, [Idle EXCEPT !.op = "create session", !.step = "read", !.session = parent,
                           !.group = g, !.version = version, !.from = forkSeq,
                           !.value = title, !.backend = backend])

\* Mutant: the group is looked up before the INSERT, without a lock.
ParentKeyOnly(g, parent) == IF parent = None THEN << >> ELSE <<KeyShare(parent)>>

\* Versions are never updated or deleted, so that the third key never waits.
ForeignKeys(g, parent) ==
  CASE g = None /\ parent = None -> << >>
    [] g # None /\ parent = None -> <<KeyShare(g)>>
    [] g = None /\ parent # None -> <<KeyShare(parent)>>
    [] OTHER -> <<KeyShare(g), KeyShare(parent)>>

\* Mutant: the parent's id is taken for its backend.
InheritParent(t) ==
  LET call == txns[t] IN
  /\ At(t, "create session", "read")
  /\ txns' = [txns EXCEPT ![t].step = "write", ![t].backend = call.session,
                          ![t].wait = ForeignKeys(call.group, call.session)]
  /\ UNCHANGED tables

\* The parent's backend is read on another connection; then the INSERT runs.
InsertSession(t) ==
  LET call == txns[t] IN
  /\ At(t, "create session", "read")
  /\ txns' = [txns EXCEPT ![t].step = "write",
                          ![t].backend = Store!InheritedBackend(call.session, call.backend),
                          ![t].wait = ForeignKeys(call.group, call.session)]
  /\ UNCHANGED tables

CommitSession(t, s) ==
  LET call == txns[t] IN
  /\ At(t, "create session", "write")
  /\ Store!NewId(s, SessionIds, sessions)
  /\ sessions' = Store!Insert(sessions, s,
                   [group |-> call.group, title |-> call.value, parent |-> call.session,
                    version |-> call.version, forkSeq |-> call.from, status |-> "active",
                    backend |-> call.backend])
  /\ events' = Store!Insert(events, s, << >>)
  /\ Done(t)
  /\ UNCHANGED <<groups, versions, queries>>

UpdateSession(t, s, op, value) ==
  /\ s \in DOMAIN sessions
  /\ Begin(t, [Idle EXCEPT !.op = op, !.step = "write", !.session = s, !.value = value,
                           !.wait = <<NoKeyUpdate(s)>>])

CommitStatus(t) ==
  /\ At(t, "set status", "write")
  /\ sessions' = [sessions EXCEPT ![txns[t].session].status = txns[t].value]
  /\ Done(t)
  /\ UNCHANGED <<groups, versions, events, queries>>

CommitTitle(t) ==
  /\ At(t, "set title", "write")
  /\ sessions' = [sessions EXCEPT ![txns[t].session].title = txns[t].value]
  /\ Done(t)
  /\ UNCHANGED <<groups, versions, events, queries>>

-----------------------------------------------------------------------------
(* Versions, events and snapshot queries *)

CreateVersion(t, s, start, end) ==
  /\ s \in DOMAIN sessions
  /\ start <= end
  /\ Begin(t, [Idle EXCEPT !.op = "create version", !.step = "write", !.session = s,
                           !.from = start, !.to = end, !.wait = <<KeyShare(s)>>])

CommitVersion(t, v) ==
  LET call == txns[t] IN
  /\ At(t, "create version", "write")
  /\ Store!NewId(v, VersionIds, versions)
  /\ versions' = Store!Insert(versions, v,
                   [session |-> call.session, start |-> call.from, end |-> call.to,
                    turnCount |-> call.to - call.from + 1])
  /\ Done(t)
  /\ UNCHANGED <<groups, sessions, events, queries>>

\* Mutant: a plain SELECT, and the foreign key's lock when the event is inserted.
AppendUnlocked(t, s, kind) ==
  /\ s \in DOMAIN sessions
  /\ Begin(t, [Idle EXCEPT !.op = "append", !.step = "lock", !.session = s, !.value = kind])

\* SELECT 1 ... FOR UPDATE
AppendEvent(t, s, kind) ==
  /\ s \in DOMAIN sessions
  /\ Begin(t, [Idle EXCEPT !.op = "append", !.step = "lock", !.session = s, !.value = kind,
                           !.wait = <<ForUpdate(s)>>])

ReadNextSeq(t) ==
  /\ At(t, "append", "lock")
  /\ NextSeq(events[txns[t].session]) <= MaxSeq
  /\ txns' = [txns EXCEPT ![t].step = "write", ![t].from = NextSeq(events[txns[t].session])]
  /\ UNCHANGED tables

TakenSeqs(s) == {events[s][i].seq : i \in DOMAIN events[s]}

\* UNIQUE (session_id, seq)
CommitEvent(t) ==
  LET call == txns[t] IN
  /\ At(t, "append", "write")
  /\ call.from \notin TakenSeqs(call.session)
  /\ events' = [events EXCEPT ![call.session] =
                  Append(@, [seq |-> call.from, kind |-> call.value])]
  /\ Done(t)
  /\ UNCHANGED <<groups, sessions, versions, queries>>

CreateSnapshotQuery(t, s, v) ==
  /\ s \in DOMAIN sessions
  /\ v \in DOMAIN versions
  /\ Begin(t, [Idle EXCEPT !.op = "create query", !.step = "write", !.session = s,
                           !.version = v, !.wait = <<KeyShare(s)>>])

CommitQuery(t, q) ==
  /\ At(t, "create query", "write")
  /\ Store!NewId(q, QueryIds, queries)
  /\ queries' = Store!Insert(queries, q, [source |-> txns[t].session, target |-> txns[t].version])
  /\ Done(t)
  /\ UNCHANGED <<groups, sessions, versions, events>>

-----------------------------------------------------------------------------
GroupCalls(t) ==
  \/ \E g \in GroupIds : UpdateGroup(t, g) \/ DeleteGroup(t, g)
  \/ \E s \in SessionIds, g \in GroupIds \cup {None} : MoveSession(t, s, g)
  \/ CommitUpdateGroup(t) \/ DetachMembers(t) \/ CommitDelete(t)
  \/ WriteGroup(t) \/ CommitMove(t)

SessionCalls(t) ==
  \/ \E g \in GroupIds \cup {None}, title \in Titles, backend \in Backends \cup {None} :
       \/ CreateSession(t, g, None, None, None, title, backend)
       \/ \E parent \in SessionIds, v \in VersionIds, n \in 0..MaxSeq :
            CreateSession(t, g, parent, v, n, title, backend)
  \/ \E s \in SessionIds :
       \/ \E title \in Titles : UpdateSession(t, s, "set title", title)
       \/ \E status \in Statuses : UpdateSession(t, s, "set status", status)
       \/ CommitSession(t, s)
  \/ InsertSession(t) \/ CommitStatus(t) \/ CommitTitle(t)

LogCalls(t) ==
  \/ \E s \in SessionIds :
       \/ \E kind \in Kinds : AppendEvent(t, s, kind)
       \/ \E start, end \in 0..MaxSeq : CreateVersion(t, s, start, end)
       \/ \E v \in VersionIds : CreateSnapshotQuery(t, s, v)
  \/ ReadNextSeq(t) \/ CommitEvent(t)
  \/ \E v \in VersionIds : CommitVersion(t, v)
  \/ \E q \in QueryIds : CommitQuery(t, q)

PgNext ==
  \/ \E g \in GroupIds : CreateGroup(g)
  \/ \E t \in Txns :
       TakeLock(t) \/ Rollback(t) \/ GroupCalls(t) \/ SessionCalls(t) \/ LogCalls(t)

PgSpec == PgInit /\ [][PgNext]_pgVars

-----------------------------------------------------------------------------
(* Properties *)

\* What the other modules rely on: seen through its commits, AsyncpgStore is the store
\* that SessionStore specifies, although it checks fork points and backends outside its
\* transactions and detaches the sessions of a deleted group one row at a time.
ImplementsStore == Store!Spec

\* An append that holds its row lock has a seq nobody else has or will get: the UNIQUE
\* constraint, whose violation append_event does not catch, is never hit.
AppendNeverCollides ==
  \A t \in Txns : At(t, "append", "write") =>
    /\ txns[t].from \notin TakenSeqs(txns[t].session)
    /\ \A u \in Txns \ {t} :
         ~(At(u, "append", "write") /\ txns[u].session = txns[t].session)

BlockedBy(t, u) ==
  /\ t # u
  /\ txns[t].wait # << >>
  /\ \E m \in txns[u].held : Conflicts(Head(txns[t].wait), m)

\* Calls can only wait for each other in a circle when one of them deletes a group:
\* appends, forks, renames, versions and moves alone never deadlock, in any number.
DeadlockNeedsDelete ==
  \A D \in SUBSET Txns :
    /\ D # {}
    /\ \A t \in D : \E u \in D : BlockedBy(t, u)
    => \E t \in D : txns[t].op = "delete group"

=============================================================================
