---------------------------- MODULE PgStore_proofs ----------------------------
(* Proofs about PgStore for any number of transactions, sessions and groups: *)
(* what a call holds and waits for, that appends never collide, which calls  *)
(* can deadlock, and that the commits implement SessionStore.                *)
EXTENDS PgStore, FiniteSetTheorems, TLAPS

\* The call takes the one lock l and nothing else.
One(c, l) ==
  \/ c.wait = <<l>> /\ c.held = {}
  \/ c.wait = << >> /\ c.held = {l}

\* delete_group, behind its own row lock: every member of the group is locked
\* or waited for, and nobody can join.
Sweeping(c) ==
  /\ ForUpdate(c.group) \in c.held
  /\ \A l \in c.held : l = ForUpdate(c.group) \/ \E s \in SessionIds : l = NoKeyUpdate(s)
  /\ \A i \in DOMAIN c.wait : \E s \in SessionIds : c.wait[i] = NoKeyUpdate(s)
  /\ \A s \in Members(c.group) :
       NoKeyUpdate(s) \in c.held \/ \E i \in DOMAIN c.wait : c.wait[i] = NoKeyUpdate(s)

DeleteOK(c) ==
  /\ c.group \in GroupIds
  /\ \/ c.step = "lock" /\ One(c, ForUpdate(c.group))
     \/ c.step = "write" /\ Sweeping(c)

\* update_session_group, behind the lock of its session: the new group is
\* locked, or is the one the session is in, or is None.
Moving(c) ==
  /\ sessions[c.session].parent = None
  /\ \/ c.group \in GroupIds /\ c.wait = <<KeyShare(c.group)>> /\ c.held = {ForUpdate(c.session)}
     \/ /\ c.group \in GroupIds /\ c.wait = << >>
        /\ c.held = {ForUpdate(c.session), KeyShare(c.group)}
     \/ /\ c.wait = << >> /\ c.held = {ForUpdate(c.session)}
        /\ c.group \in {None, sessions[c.session].group}

MoveOK(c) ==
  /\ c.session \in DOMAIN sessions
  /\ \/ c.step = "lock" /\ One(c, ForUpdate(c.session))
     \/ c.step = "write" /\ Moving(c)

\* create_session: the fork point stays valid and the parent's backend the same
\* while the INSERT waits for its keys.
Inserting(c) ==
  /\ c.session # None /\ c.backend = None => sessions[c.session].backend = None
  /\ \/ c.wait = ForeignKeys(c.group, c.session) /\ c.held = {}
     \/ /\ c.wait = <<KeyShare(c.session)>> /\ c.session # None
        /\ c.group \in GroupIds /\ c.held = {KeyShare(c.group)}
     \/ /\ c.wait = << >>
        /\ c.group # None => KeyShare(c.group) \in c.held

CreateOK(c) ==
  /\ c.value \in Titles
  /\ \/ c.session = None /\ c.version = None /\ c.from = None
     \/ /\ c.session \in DOMAIN sessions /\ c.version \in VersionIds /\ c.from \in 0..MaxSeq
        /\ Store!ForkPointOK(c.session, c.version, c.from)
  /\ \/ c.step = "read" /\ c.wait = << >> /\ c.held = {}
     \/ c.step = "write" /\ Inserting(c)

AppendOK(c) ==
  /\ c.session \in DOMAIN sessions /\ c.value \in Kinds
  /\ \/ c.step = "lock" /\ One(c, ForUpdate(c.session))
     \/ /\ c.step = "write" /\ c.wait = << >> /\ c.held = {ForUpdate(c.session)}
        /\ c.from = Len(events[c.session]) /\ c.from <= MaxSeq

\* What a call relies on until it commits.
CallOK(c) ==
  /\ c \in Txn
  /\ \A l \in c.held : l.row \in GroupIds => Store!Present(l.row)
  /\ c.op = "none" => c = Idle
  /\ c.op = "update group" => c.group \in GroupIds /\ One(c, NoKeyUpdate(c.group))
  /\ c.op = "delete group" => DeleteOK(c)
  /\ c.op = "move" => MoveOK(c)
  /\ c.op = "create session" => CreateOK(c)
  /\ c.op = "set title" =>
       c.session \in DOMAIN sessions /\ c.value \in Titles /\ One(c, NoKeyUpdate(c.session))
  /\ c.op = "set status" =>
       c.session \in DOMAIN sessions /\ c.value \in Statuses /\ One(c, NoKeyUpdate(c.session))
  /\ c.op = "create version" =>
       /\ c.session \in DOMAIN sessions /\ One(c, KeyShare(c.session))
       /\ c.from \in 0..MaxSeq /\ c.to \in 0..MaxSeq /\ c.from <= c.to
  /\ c.op = "append" => AppendOK(c)
  /\ c.op = "create query" =>
       /\ c.session \in DOMAIN sessions /\ One(c, KeyShare(c.session))
       /\ c.version \in DOMAIN versions

TablesOK ==
  /\ groups \in [GroupIds -> {"unused", "present", "deleted"}]
  /\ DOMAIN sessions \subseteq SessionIds
  /\ sessions \in [DOMAIN sessions -> Store!SessionRow]
  /\ DOMAIN versions \subseteq VersionIds
  /\ versions \in [DOMAIN versions -> Store!VersionRow]
  /\ events \in [DOMAIN sessions -> Seq(Store!EventRow)]
  /\ DOMAIN queries \subseteq QueryIds
  /\ queries \in [DOMAIN queries -> Store!QueryRow]

LogShape == \A s \in DOMAIN sessions : \A i \in 1..Len(events[s]) : events[s][i].seq = i - 1

GroupRefs == \A s \in DOMAIN sessions :
  sessions[s].group # None => Store!Present(sessions[s].group)

Exclusive ==
  \A t, u \in Txns : t # u =>
    \A l \in txns[t].held, m \in txns[u].held : ~Conflicts(l, m)

PgInv ==
  /\ TablesOK
  /\ IsFiniteSet(DOMAIN sessions)
  /\ LogShape
  /\ GroupRefs
  /\ txns \in [Txns -> Txn]
  /\ Exclusive
  /\ \A t \in Txns : CallOK(txns[t])

LEMMA IdleType == Idle \in Txn
BY DEF Idle, Txn, Ops

LEMMA IdleOK == CallOK(Idle)
BY IdleType DEF CallOK, Idle

\* A log in order is numbered by its positions, so its next seq is its length.
LEMMA NextSeqIsLen ==
  ASSUME NEW log \in Seq(Store!EventRow), \A i \in 1..Len(log) : log[i].seq = i - 1
  PROVE  NextSeq(log) = Len(log)
<1>1. CASE log = << >>
  BY <1>1 DEF NextSeq
<1>2. CASE log # << >>
  <2> DEFINE seqs == {log[i].seq : i \in DOMAIN log}
  <2>1. Len(log) \in Nat /\ Len(log) > 0 /\ DOMAIN log = 1..Len(log)
    BY <1>2
  <2>2. \A n \in seqs : n \in Nat /\ n <= Len(log) - 1
    BY <2>1
  <2>3. Len(log) - 1 \in seqs
    BY <2>1
  <2> DEFINE top == CHOOSE n \in seqs : \A m \in seqs : m <= n
  <2> HIDE DEF seqs
  <2>4. \A n : n \in seqs /\ (\A m \in seqs : m <= n) => n = Len(log) - 1
    BY <2>1, <2>2, <2>3
  <2>5. top = Len(log) - 1
    BY <2>2, <2>3, <2>4
  <2>6. NextSeq(log) = top + 1
    BY <1>2 DEF NextSeq, seqs
  <2> HIDE DEF top
  <2>7. QED
    BY <2>1, <2>5, <2>6
<1>3. QED
  BY <1>1, <1>2

-----------------------------------------------------------------------------
(* What one call may do to the others *)

\* The rows that call c has locked keep what it relies on.
Keeps(c) ==
  /\ \A l \in c.held : l.row \in GroupIds /\ Store!Present(l.row) => Store!Present(l.row)'
  /\ \A s \in DOMAIN sessions : ForUpdate(s) \in c.held =>
       sessions'[s].group = sessions[s].group /\ events'[s] = events[s]
  /\ \A g \in GroupIds : ForUpdate(g) \in c.held => Members(g)' \subseteq Members(g)

\* Rows stay, and so do the columns that are written once.
RowsStay ==
  /\ DOMAIN sessions \subseteq DOMAIN sessions'
  /\ \A s \in DOMAIN sessions : /\ sessions'[s].parent = sessions[s].parent
                                /\ sessions'[s].backend = sessions[s].backend
  /\ DOMAIN versions \subseteq DOMAIN versions'
  /\ \A v \in DOMAIN versions : versions'[v] = versions[v]

LEMMA OthersKeep ==
  ASSUME NEW t \in Txns, CallOK(txns[t]), TablesOK, TablesOK',
         txns'[t] = txns[t], RowsStay, Keeps(txns[t])
  PROVE  CallOK(txns[t])'
<1> DEFINE c == txns[t]
<1>1. c \in Txn /\ \A l \in c.held : l.row \in GroupIds => Store!Present(l.row)'
  BY DEF CallOK, Keeps
<1>2. c.op = "delete group" => DeleteOK(txns[t])'
  <2> SUFFICES ASSUME c.op = "delete group"
               PROVE  DeleteOK(txns[t])'
    OBVIOUS
  <2>1. DeleteOK(txns[t])
    BY DEF CallOK
  <2>2. CASE c.step = "lock"
    BY <2>1, <2>2 DEF DeleteOK, One
  <2>3. CASE c.step = "write"
    <3>1. Sweeping(c) /\ c.group \in GroupIds
      BY <2>1, <2>3 DEF DeleteOK
    <3>2. Members(c.group)' \subseteq Members(c.group)
      BY <3>1 DEF Sweeping, Keeps
    <3>3. Sweeping(txns[t])'
      BY <3>1, <3>2 DEF Sweeping
    <3>4. QED
      BY <2>3, <3>1, <3>3 DEF DeleteOK
  <2>4. QED
    BY <2>1, <2>2, <2>3 DEF DeleteOK
<1>3. c.op = "move" => MoveOK(txns[t])'
  BY DEF CallOK, Keeps, RowsStay, MoveOK, One, Moving
<1>4. c.op = "create session" => CreateOK(txns[t])'
  BY DEF CallOK, RowsStay, CreateOK, Inserting, Store!ForkPointOK
<1>5. c.op = "append" => AppendOK(txns[t])'
  BY DEF CallOK, Keeps, RowsStay, AppendOK, One
<1>6. c.op = "update group" => c.group \in GroupIds /\ One(c, NoKeyUpdate(c.group))
  BY DEF CallOK
<1>7. c.op = "none" => c = Idle
  BY DEF CallOK
<1>8. c.op = "set title" =>
        c.session \in DOMAIN sessions' /\ c.value \in Titles /\ One(c, NoKeyUpdate(c.session))
  BY DEF CallOK, RowsStay
<1>9. c.op = "set status" =>
        c.session \in DOMAIN sessions' /\ c.value \in Statuses /\ One(c, NoKeyUpdate(c.session))
  BY DEF CallOK, RowsStay
<1>10. c.op = "create version" =>
        /\ c.session \in DOMAIN sessions' /\ One(c, KeyShare(c.session))
        /\ c.from \in 0..MaxSeq /\ c.to \in 0..MaxSeq /\ c.from <= c.to
  BY DEF CallOK, RowsStay
<1>11. c.op = "create query" =>
        /\ c.session \in DOMAIN sessions' /\ One(c, KeyShare(c.session))
        /\ c.version \in DOMAIN versions'
  BY DEF CallOK, RowsStay
<1>12. QED
  BY <1>1, <1>2, <1>3, <1>4, <1>5, <1>6, <1>7, <1>8, <1>9, <1>10, <1>11 DEF CallOK

\* A step of one call keeps the invariant if its own part and the tables do,
\* it takes no lock, and it does not disturb what the others rely on.
LEMMA StepKeeps ==
  ASSUME PgInv, NEW t \in Txns,
         TablesOK', IsFiniteSet(DOMAIN sessions)', LogShape', GroupRefs', RowsStay,
         txns' \in [Txns -> Txn], txns'[t].held \subseteq txns[t].held,
         CallOK(txns[t])',
         \A u \in Txns \ {t} : txns'[u] = txns[u] /\ Keeps(txns[u])
  PROVE  PgInv'
<1>1. \A u \in Txns : txns'[u].held \subseteq txns[u].held
  OBVIOUS
<1>2. Exclusive'
  BY <1>1 DEF PgInv, Exclusive, Conflicts
<1>3. \A u \in Txns : CallOK(txns[u])'
  BY OthersKeep DEF PgInv
<1>4. QED
  BY <1>2, <1>3 DEF PgInv

\* The same when the step writes nothing.
LEMMA LocalStep ==
  ASSUME PgInv, UNCHANGED tables, NEW t \in Txns,
         txns' = [txns EXCEPT ![t] = txns'[t]],
         txns'[t].held \subseteq txns[t].held, CallOK(txns[t])'
  PROVE  PgInv'
<1>1. TablesOK' /\ IsFiniteSet(DOMAIN sessions)' /\ LogShape' /\ GroupRefs'
  BY DEF PgInv, TablesOK, LogShape, GroupRefs, tables, Store!Present
<1>2. RowsStay /\ \A u \in Txns : Keeps(txns[u])
  BY DEF RowsStay, Keeps, tables, Members, Store!Present
<1>3. txns' \in [Txns -> Txn] /\ \A u \in Txns \ {t} : txns'[u] = txns[u]
  BY DEF PgInv, CallOK
<1>4. QED
  BY <1>1, <1>2, <1>3, StepKeeps

-----------------------------------------------------------------------------
(* How a call begins and ends *)

LEMMA RollbackInv ==
  ASSUME PgInv, NEW t \in Txns, UNCHANGED tables, Done(t)
  PROVE  PgInv'
<1>1. txns'[t] = Idle
  BY DEF PgInv, Done
<1>2. CallOK(txns[t])'
  BY <1>1, IdleType DEF CallOK, Idle
<1>3. txns' = [txns EXCEPT ![t] = txns'[t]]
  BY <1>1 DEF Done
<1>4. txns'[t].held = {}
  BY <1>1 DEF Idle
<1>5. QED
  BY <1>2, <1>3, <1>4, LocalStep

LEMMA BeginInv ==
  ASSUME PgInv, NEW t \in Txns, NEW call, Begin(t, call), call.held = {}, CallOK(txns[t])'
  PROVE  PgInv'
<1>1. txns'[t] = call
  BY DEF PgInv, Begin
<1>2. QED
  BY <1>1, LocalStep DEF Begin

LEMMA LockTypes ==
  /\ \A s \in SessionIds \cup GroupIds :
       /\ KeyShare(s) \in Lock /\ NoKeyUpdate(s) \in Lock /\ ForUpdate(s) \in Lock
  /\ \A s : KeyShare(s).row = s /\ NoKeyUpdate(s).row = s /\ ForUpdate(s).row = s
  /\ \A s : /\ KeyShare(s).mode = "key share"
            /\ NoKeyUpdate(s).mode = "no key update"
            /\ ForUpdate(s).mode = "update"
BY DEF KeyShare, NoKeyUpdate, ForUpdate, Lock, Modes

LEMMA OneLock ==
  ASSUME NEW l \in Lock
  PROVE  /\ <<l>> \in Seq(Lock) /\ <<l>> # << >> /\ Head(<<l>>) = l /\ Tail(<<l>>) = << >>
         /\ << >> \in Seq(Lock) /\ Len(<<l>>) = 1
OBVIOUS

LEMMA NoLock ==
  /\ DOMAIN << >> = {}
  /\ \A a, b : <<a>> # << >> /\ <<a, b>> # << >> /\ Head(<<a>>) = a
OBVIOUS

LEMMA UpdateGroupInv ==
  ASSUME PgInv, NEW t \in Txns, NEW g \in GroupIds, UpdateGroup(t, g)
  PROVE  PgInv'
<1> DEFINE call == [Idle EXCEPT !.op = "update group", !.step = "write", !.group = g,
                           !.wait = <<NoKeyUpdate(g)>>]
<1>1. call \in Txn
  BY LockTypes, OneLock DEF Idle, Txn, Ops
<1>2. txns'[t] = call
  BY DEF PgInv, UpdateGroup, Begin
<1>3. CallOK(txns[t])'
  BY <1>1, <1>2 DEF CallOK, Idle, One
<1>4. QED
  BY <1>3, BeginInv DEF UpdateGroup, Idle

LEMMA DeleteGroupInv ==
  ASSUME PgInv, NEW t \in Txns, NEW g \in GroupIds, DeleteGroup(t, g)
  PROVE  PgInv'
<1> DEFINE call == [Idle EXCEPT !.op = "delete group", !.step = "lock", !.group = g,
                           !.wait = <<ForUpdate(g)>>]
<1>1. call \in Txn
  BY LockTypes, OneLock DEF Idle, Txn, Ops
<1>2. txns'[t] = call
  BY DEF PgInv, DeleteGroup, Begin
<1>3. CallOK(txns[t])'
  BY <1>1, <1>2 DEF CallOK, Idle, DeleteOK, One
<1>4. QED
  BY <1>3, BeginInv DEF DeleteGroup, Idle

LEMMA MoveSessionInv ==
  ASSUME PgInv, NEW t \in Txns, NEW s \in SessionIds, NEW g \in GroupIds \cup {None},
         MoveSession(t, s, g)
  PROVE  PgInv'
<1> DEFINE call == [Idle EXCEPT !.op = "move", !.step = "lock", !.session = s, !.group = g,
                           !.wait = <<ForUpdate(s)>>]
<1>1. call \in Txn
  BY LockTypes, OneLock DEF Idle, Txn, Ops
<1>2. txns'[t] = call
  BY DEF PgInv, MoveSession, Begin
<1>3. s \in DOMAIN sessions'
  BY DEF MoveSession, Begin, tables
<1>4. MoveOK(txns[t])'
  BY <1>2, <1>3 DEF Idle, MoveOK, One
<1>5. CallOK(txns[t])'
  BY <1>1, <1>2, <1>4 DEF CallOK, Idle
<1>6. QED
  BY <1>5, BeginInv DEF MoveSession, Idle

LEMMA CreateSessionInv ==
  ASSUME PgInv, NEW t \in Txns, NEW g \in GroupIds \cup {None}, NEW title \in Titles,
         NEW backend \in Backends \cup {None},
         NEW p, NEW v, NEW n,
         \/ p = None /\ v = None /\ n = None
         \/ p \in SessionIds /\ v \in VersionIds /\ n \in 0..MaxSeq,
         CreateSession(t, g, p, v, n, title, backend)
  PROVE  PgInv'
<1> DEFINE call == [Idle EXCEPT !.op = "create session", !.step = "read", !.session = p,
                           !.group = g, !.version = v, !.from = n,
                           !.value = title, !.backend = backend]
<1>0. p \in SessionIds \cup {None} /\ v \in VersionIds \cup {None} /\ n \in Nat \cup {None}
  BY PgAssumption
<1>1. call \in Txn
  BY <1>0, IdleType DEF Txn, Ops
<1>2. txns'[t] = call /\ UNCHANGED tables
  BY DEF PgInv, CreateSession, Begin
<1>3. CreateOK(txns[t])'
  BY <1>2, PgAssumption DEF Idle, CreateOK, CreateSession, tables, Store!ForkPointOK
<1>4. CallOK(txns[t])'
  BY <1>1, <1>2, <1>3 DEF CallOK, Idle
<1>5. QED
  BY <1>4, BeginInv DEF CreateSession, Idle

LEMMA UpdateSessionInv ==
  ASSUME PgInv, NEW t \in Txns, NEW s \in SessionIds, NEW op, NEW value,
         \/ op = "set title" /\ value \in Titles
         \/ op = "set status" /\ value \in Statuses,
         UpdateSession(t, s, op, value)
  PROVE  PgInv'
<1> DEFINE call == [Idle EXCEPT !.op = op, !.step = "write", !.session = s, !.value = value,
                           !.wait = <<NoKeyUpdate(s)>>]
<1>1. call \in Txn
  BY LockTypes, OneLock DEF Idle, Txn, Ops
<1>2. txns'[t] = call /\ UNCHANGED tables
  BY DEF PgInv, UpdateSession, Begin
<1>3. CallOK(txns[t])'
  BY <1>1, <1>2 DEF CallOK, Idle, One, UpdateSession, tables
<1>4. QED
  BY <1>3, BeginInv DEF UpdateSession, Idle

LEMMA CreateVersionInv ==
  ASSUME PgInv, NEW t \in Txns, NEW s \in SessionIds,
         NEW start \in 0..MaxSeq, NEW end \in 0..MaxSeq, CreateVersion(t, s, start, end)
  PROVE  PgInv'
<1> DEFINE call == [Idle EXCEPT !.op = "create version", !.step = "write", !.session = s,
                           !.from = start, !.to = end, !.wait = <<KeyShare(s)>>]
<1>0. start \in Nat /\ end \in Nat
  BY PgAssumption
<1>1. call \in Txn
  BY <1>0, LockTypes, OneLock DEF Idle, Txn, Ops
<1>2. txns'[t] = call /\ UNCHANGED tables
  BY DEF PgInv, CreateVersion, Begin
<1>3. CallOK(txns[t])'
  BY <1>1, <1>2 DEF CallOK, Idle, One, CreateVersion, tables
<1>4. QED
  BY <1>3, BeginInv DEF CreateVersion, Idle

LEMMA AppendEventInv ==
  ASSUME PgInv, NEW t \in Txns, NEW s \in SessionIds, NEW kind \in Kinds,
         AppendEvent(t, s, kind)
  PROVE  PgInv'
<1> DEFINE call == [Idle EXCEPT !.op = "append", !.step = "lock", !.session = s, !.value = kind,
                           !.wait = <<ForUpdate(s)>>]
<1>1. call \in Txn
  BY LockTypes, OneLock DEF Idle, Txn, Ops
<1>2. txns'[t] = call /\ UNCHANGED tables
  BY DEF PgInv, AppendEvent, Begin
<1>3. CallOK(txns[t])'
  BY <1>1, <1>2 DEF CallOK, Idle, AppendOK, One, AppendEvent, tables
<1>4. QED
  BY <1>3, BeginInv DEF AppendEvent, Idle

LEMMA CreateSnapshotQueryInv ==
  ASSUME PgInv, NEW t \in Txns, NEW s \in SessionIds, NEW v \in VersionIds,
         CreateSnapshotQuery(t, s, v)
  PROVE  PgInv'
<1> DEFINE call == [Idle EXCEPT !.op = "create query", !.step = "write", !.session = s,
                           !.version = v, !.wait = <<KeyShare(s)>>]
<1>1. call \in Txn
  BY LockTypes, OneLock DEF Idle, Txn, Ops
<1>2. txns'[t] = call /\ UNCHANGED tables
  BY DEF PgInv, CreateSnapshotQuery, Begin
<1>3. CallOK(txns[t])'
  BY <1>1, <1>2 DEF CallOK, Idle, One, CreateSnapshotQuery, tables
<1>4. QED
  BY <1>3, BeginInv DEF CreateSnapshotQuery, Idle

-----------------------------------------------------------------------------
(* Taking a lock *)

LEMMA TakeLockShape ==
  ASSUME PgInv, NEW t \in Txns, TakeLock(t)
  PROVE  /\ UNCHANGED tables
         /\ txns'[t].wait = Tail(txns[t].wait)
         /\ txns'[t].held = txns[t].held \cup {Head(txns[t].wait)}
         /\ txns'[t].op = txns[t].op /\ txns'[t].step = txns[t].step
         /\ txns'[t].session = txns[t].session /\ txns'[t].group = txns[t].group
         /\ txns'[t].version = txns[t].version /\ txns'[t].from = txns[t].from
         /\ txns'[t].to = txns[t].to /\ txns'[t].value = txns[t].value
         /\ txns'[t].backend = txns[t].backend
         /\ txns[t].wait # << >> /\ txns[t].wait \in Seq(Lock)
         /\ txns'[t] \in Txn
         /\ \A u \in Txns \ {t} : txns'[u] = txns[u]
         /\ Head(txns[t].wait) \in Lock
         /\ Head(txns[t].wait).row \in GroupIds => Store!Present(Head(txns[t].wait).row)
         /\ \A u \in Txns \ {t} : \A m \in txns[u].held : ~Conflicts(Head(txns[t].wait), m)
         /\ txns' \in [Txns -> Txn]
<1> DEFINE c == txns[t]
           d == [c EXCEPT !.wait = Tail(c.wait), !.held = @ \cup {Head(c.wait)}]
<1>1. c \in Txn /\ c.wait \in Seq(Lock) /\ c.wait # << >> /\ c.held \subseteq Lock
  BY DEF PgInv, TakeLock, Txn
<1>2. Head(c.wait) \in Lock /\ Tail(c.wait) \in Seq(Lock)
  BY <1>1
<1>3. d \in Txn
  BY <1>1, <1>2 DEF Txn
<1>4. txns' = [txns EXCEPT ![t] = d]
  BY DEF TakeLock
<1>5. txns'[t] = d /\ txns' \in [Txns -> Txn] /\ \A u \in Txns \ {t} : txns'[u] = txns[u]
  BY <1>3, <1>4 DEF PgInv
<1>6. /\ d.wait = Tail(c.wait) /\ d.held = c.held \cup {Head(c.wait)}
      /\ d.op = c.op /\ d.step = c.step /\ d.session = c.session /\ d.group = c.group
      /\ d.version = c.version /\ d.from = c.from /\ d.to = c.to /\ d.value = c.value
      /\ d.backend = c.backend
  BY <1>1 DEF Txn
<1> HIDE DEF d
<1>7. QED
  BY <1>1, <1>2, <1>3, <1>5, <1>6 DEF TakeLock, Exists

LEMMA TakeLockExclusive ==
  ASSUME PgInv, NEW t \in Txns, TakeLock(t)
  PROVE  Exclusive'
<1>1. txns'[t].held = txns[t].held \cup {Head(txns[t].wait)}
  BY TakeLockShape
<1>2. \A u \in Txns \ {t} : txns'[u] = txns[u]
  BY TakeLockShape
<1>3. \A u \in Txns \ {t} : \A m \in txns[u].held :
        ~Conflicts(Head(txns[t].wait), m) /\ ~Conflicts(m, Head(txns[t].wait))
  BY TakeLockShape DEF Conflicts
<1>4. SUFFICES ASSUME NEW a \in Txns, NEW b \in Txns, a # b,
                      NEW l \in txns'[a].held, NEW m \in txns'[b].held
               PROVE  ~Conflicts(l, m)
  BY DEF Exclusive, Conflicts
<1>5. \A v, w \in Txns : v # w => \A x \in txns[v].held, y \in txns[w].held : ~Conflicts(x, y)
  BY DEF PgInv, Exclusive
<1>6. CASE a # t /\ b # t
  <2>1. l \in txns[a].held /\ m \in txns[b].held
    BY <1>2, <1>6
  <2>2. QED
    BY <1>4, <1>5, <2>1
<1>7. CASE a = t
  <2>1. b \in Txns \ {t} /\ m \in txns[b].held
    BY <1>2, <1>4, <1>7
  <2>2. l \in txns[a].held \/ l = Head(txns[t].wait)
    BY <1>1, <1>7
  <2>3. QED
    BY <1>3, <1>4, <1>5, <2>1, <2>2
<1>8. CASE b = t
  <2>1. a \in Txns \ {t} /\ l \in txns[a].held
    BY <1>2, <1>4, <1>8
  <2>2. m \in txns[b].held \/ m = Head(txns[t].wait)
    BY <1>1, <1>8
  <2>3. QED
    BY <1>3, <1>4, <1>5, <2>1, <2>2
<1>9. QED
  BY <1>6, <1>7, <1>8

LEMMA TakeOne ==
  ASSUME PgInv, NEW t \in Txns, TakeLock(t), NEW l \in Lock, One(txns[t], l)
  PROVE  One(txns'[t], l)
<1>1. txns[t].wait = <<l>> /\ txns[t].held = {}
  BY TakeLockShape DEF One
<1>2. Head(txns[t].wait) = l /\ Tail(txns[t].wait) = << >>
  BY <1>1
<1>3. txns'[t].wait = << >> /\ txns'[t].held = {l}
  BY <1>1, <1>2, TakeLockShape
<1>4. QED
  BY <1>3 DEF One

LEMMA TakeLockDelete ==
  ASSUME PgInv, NEW t \in Txns, TakeLock(t), DeleteOK(txns[t])
  PROVE  DeleteOK(txns[t])'
<1> DEFINE c == txns[t]
           d == txns'[t]
<1>1. /\ d.step = c.step /\ d.group = c.group /\ d.wait = Tail(c.wait)
      /\ d.held = c.held \cup {Head(c.wait)} /\ c.wait \in Seq(Lock) /\ c.wait # << >>
  BY TakeLockShape
<1>2. UNCHANGED tables
  BY TakeLockShape
<1>3. CASE c.step = "lock"
  BY <1>1, <1>3, TakeOne, LockTypes DEF DeleteOK
<1>4. CASE c.step = "write"
  <2>1. Sweeping(c) /\ c.group \in GroupIds
    BY <1>4 DEF DeleteOK
  <2>2. /\ DOMAIN c.wait = 1..Len(c.wait) /\ Head(c.wait) = c.wait[1] /\ 1 \in DOMAIN c.wait
        /\ DOMAIN d.wait = 1..(Len(c.wait) - 1)
        /\ \A i \in DOMAIN d.wait : i + 1 \in DOMAIN c.wait /\ d.wait[i] = c.wait[i + 1]
        /\ \A i \in DOMAIN c.wait : i # 1 => i - 1 \in DOMAIN d.wait /\ d.wait[i - 1] = c.wait[i]
    BY <1>1
  <2>3. ForUpdate(d.group) \in d.held
    BY <1>1, <2>1 DEF Sweeping
  <2>4. \A l \in d.held : l = ForUpdate(d.group) \/ \E s \in SessionIds : l = NoKeyUpdate(s)
    BY <1>1, <2>1, <2>2 DEF Sweeping
  <2>5. \A i \in DOMAIN d.wait : \E s \in SessionIds : d.wait[i] = NoKeyUpdate(s)
    BY <2>1, <2>2 DEF Sweeping
  <2>6. \A s \in Members(c.group) :
          NoKeyUpdate(s) \in d.held \/ \E i \in DOMAIN d.wait : d.wait[i] = NoKeyUpdate(s)
    <3> SUFFICES ASSUME NEW s \in Members(c.group), NoKeyUpdate(s) \notin d.held
                 PROVE  \E i \in DOMAIN d.wait : d.wait[i] = NoKeyUpdate(s)
      OBVIOUS
    <3>1. PICK i \in DOMAIN c.wait : c.wait[i] = NoKeyUpdate(s)
      BY <1>1, <2>1 DEF Sweeping
    <3>2. i # 1
      BY <1>1, <2>2, <3>1
    <3>3. QED
      BY <2>2, <3>1, <3>2
  <2>7. Sweeping(txns[t])'
    BY <1>1, <1>2, <2>3, <2>4, <2>5, <2>6 DEF Sweeping, Members, tables
  <2>8. QED
    BY <1>1, <1>4, <2>1, <2>7 DEF DeleteOK
<1>5. QED
  BY <1>3, <1>4 DEF DeleteOK

LEMMA TakeLockMove ==
  ASSUME PgInv, NEW t \in Txns, TakeLock(t), MoveOK(txns[t])
  PROVE  MoveOK(txns[t])'
<1> DEFINE c == txns[t]
           d == txns'[t]
<1>1. /\ d.step = c.step /\ d.group = c.group /\ d.session = c.session
      /\ d.wait = Tail(c.wait) /\ d.held = c.held \cup {Head(c.wait)} /\ c.wait # << >>
      /\ UNCHANGED tables
  BY TakeLockShape
<1>2. c.session \in DOMAIN sessions /\ c.session \in SessionIds
  BY DEF MoveOK, PgInv, TablesOK
<1>3. CASE c.step = "lock"
  BY <1>1, <1>2, <1>3, TakeOne, LockTypes DEF MoveOK, tables
<1>4. CASE c.step = "write"
  <2>1. /\ sessions[c.session].parent = None /\ c.group \in GroupIds
        /\ c.wait = <<KeyShare(c.group)>> /\ c.held = {ForUpdate(c.session)}
    BY <1>1, <1>4 DEF MoveOK, Moving
  <2>2. d.wait = << >> /\ d.held = {ForUpdate(c.session), KeyShare(c.group)}
    BY <1>1, <2>1
  <2>3. QED
    BY <1>1, <1>2, <1>4, <2>1, <2>2 DEF MoveOK, Moving, tables
<1>5. QED
  BY <1>3, <1>4 DEF MoveOK

LEMMA TakeLockCreate ==
  ASSUME PgInv, NEW t \in Txns, TakeLock(t), CreateOK(txns[t])
  PROVE  CreateOK(txns[t])'
<1> DEFINE c == txns[t]
           d == txns'[t]
<1>1. /\ d.step = c.step /\ d.group = c.group /\ d.session = c.session
      /\ d.version = c.version /\ d.from = c.from /\ d.value = c.value /\ d.backend = c.backend
      /\ d.wait = Tail(c.wait) /\ d.held = c.held \cup {Head(c.wait)} /\ c.wait # << >>
  BY TakeLockShape
<1>2. UNCHANGED tables
  BY TakeLockShape
<1>3. c.step = "write" /\ Inserting(c)
  BY <1>1 DEF CreateOK
<1>4. c \in Txn
  BY DEF PgInv
<1> SUFFICES Inserting(txns[t])'
  BY <1>1, <1>2, <1>3 DEF CreateOK, Store!ForkPointOK, tables
<1>5. CASE c.held = {} /\ c.wait = ForeignKeys(c.group, c.session)
  <2>1. CASE c.group # None /\ c.session = None
    <3>1. c.wait = <<KeyShare(c.group)>>
      BY <1>5, <2>1 DEF ForeignKeys
    <3>2. d.wait = << >> /\ KeyShare(c.group) \in d.held
      BY <1>1, <3>1
    <3>3. QED
      BY <1>1, <1>2, <1>3, <3>2 DEF Inserting, tables
  <2>2. CASE c.group = None /\ c.session # None
    <3>1. c.wait = <<KeyShare(c.session)>>
      BY <1>5, <2>2 DEF ForeignKeys
    <3>2. d.wait = << >>
      BY <1>1, <3>1
    <3>3. QED
      BY <1>1, <1>2, <1>3, <2>2, <3>2 DEF Inserting, tables
  <2>3. CASE c.group # None /\ c.session # None
    <3>1. c.wait = <<KeyShare(c.group), KeyShare(c.session)>>
      BY <1>5, <2>3 DEF ForeignKeys
    <3>2. d.wait = <<KeyShare(c.session)>> /\ d.held = {KeyShare(c.group)}
      BY <1>1, <1>5, <3>1
    <3>3. c.group \in GroupIds
      BY <1>4, <2>3 DEF Txn
    <3>4. QED
      BY <1>1, <1>2, <1>3, <2>3, <3>2, <3>3 DEF Inserting, tables
  <2>4. c.group # None \/ c.session # None
    BY <1>1, <1>5 DEF ForeignKeys
  <2>5. QED
    BY <2>1, <2>2, <2>3, <2>4
<1>6. CASE /\ c.wait = <<KeyShare(c.session)>> /\ c.session # None
           /\ c.group \in GroupIds /\ c.held = {KeyShare(c.group)}
  <2>1. d.wait = << >> /\ KeyShare(c.group) \in d.held
    BY <1>1, <1>6
  <2>2. QED
    BY <1>1, <1>2, <1>3, <2>1 DEF Inserting, tables
<1>7. QED
  BY <1>1, <1>3, <1>5, <1>6 DEF Inserting

LEMMA TakeLockInv ==
  ASSUME PgInv, NEW t \in Txns, TakeLock(t)
  PROVE  PgInv'
<1> DEFINE c == txns[t]
           d == txns'[t]
<1>1. CallOK(c) /\ c \in Txn
  BY DEF PgInv
<1>2. UNCHANGED tables
  BY TakeLockShape
<1>3. /\ d.op = c.op /\ d.step = c.step /\ d.session = c.session /\ d.group = c.group
      /\ d.version = c.version /\ d.from = c.from /\ d.to = c.to /\ d.value = c.value
      /\ d \in Txn /\ c.wait # << >>
  BY TakeLockShape
<1>4. \A l \in d.held : l.row \in GroupIds => Store!Present(l.row)'
  <2>1. \A l \in d.held : l.row \in GroupIds => Store!Present(l.row)
    BY <1>1, TakeLockShape DEF CallOK
  <2>2. QED
    BY <1>2, <2>1 DEF tables, Store!Present
<1>5. c.op # "none"
  <2>1. Idle.wait = << >>
    BY DEF Idle
  <2>2. QED
    BY <1>1, <1>3, <2>1 DEF CallOK
<1>6. c.op = "update group" => One(d, NoKeyUpdate(d.group))
  BY <1>1, <1>3, TakeOne, LockTypes DEF CallOK
<1>7. c.op = "delete group" => DeleteOK(txns[t])'
  BY <1>1, TakeLockDelete DEF CallOK
<1>8. c.op = "move" => MoveOK(txns[t])'
  BY <1>1, TakeLockMove DEF CallOK
<1>9. c.op = "create session" => CreateOK(txns[t])'
  BY <1>1, TakeLockCreate DEF CallOK
<1>10. c.session \in DOMAIN sessions => c.session \in SessionIds
  BY DEF PgInv, TablesOK
<1>11. c.op \in {"set title", "set status"} => One(d, NoKeyUpdate(d.session))
  BY <1>1, <1>3, <1>10, TakeOne, LockTypes DEF CallOK
<1>12. c.op \in {"create version", "create query"} => One(d, KeyShare(d.session))
  BY <1>1, <1>3, <1>10, TakeOne, LockTypes DEF CallOK
<1>13. c.op = "append" => AppendOK(txns[t])'
  <2> SUFFICES ASSUME c.op = "append"
               PROVE  AppendOK(txns[t])'
    OBVIOUS
  <2>1. AppendOK(c) /\ c.step = "lock" /\ One(c, ForUpdate(c.session))
    BY <1>1, <1>3 DEF CallOK, AppendOK
  <2>2. One(d, ForUpdate(d.session))
    BY <1>3, <1>10, <2>1, TakeOne, LockTypes DEF AppendOK
  <2>3. QED
    BY <1>2, <1>3, <2>1, <2>2 DEF AppendOK, tables
<1>14. CallOK(txns[t])'
  <2>1. /\ c.op = "set title" => c.session \in DOMAIN sessions /\ c.value \in Titles
        /\ c.op = "set status" => c.session \in DOMAIN sessions /\ c.value \in Statuses
        /\ c.op = "update group" => c.group \in GroupIds
        /\ c.op = "create version" => /\ c.session \in DOMAIN sessions
                                      /\ c.from \in 0..MaxSeq /\ c.to \in 0..MaxSeq
                                      /\ c.from <= c.to
        /\ c.op = "create query" => c.session \in DOMAIN sessions /\ c.version \in DOMAIN versions
    BY <1>1 DEF CallOK
  <2>2. QED
    BY <1>2, <1>3, <1>4, <1>5, <1>6, <1>7, <1>8, <1>9, <1>11, <1>12, <1>13, <2>1
       DEF CallOK, tables
<1>15. \A u \in Txns \ {t} : CallOK(txns[u])'
  <2>1. RowsStay /\ \A u \in Txns : Keeps(txns[u])
    BY <1>2 DEF RowsStay, Keeps, tables, Members, Store!Present
  <2>2. TablesOK /\ TablesOK'
    BY <1>2 DEF PgInv, TablesOK, tables
  <2>3. \A u \in Txns \ {t} : txns'[u] = txns[u]
    BY TakeLockShape
  <2>4. QED
    BY <2>1, <2>2, <2>3, OthersKeep DEF PgInv
<1>16. /\ TablesOK' /\ IsFiniteSet(DOMAIN sessions)' /\ LogShape' /\ GroupRefs'
  BY <1>2 DEF PgInv, TablesOK, LogShape, GroupRefs, tables, Store!Present
<1>17. QED
  BY <1>14, <1>15, <1>16, TakeLockExclusive, TakeLockShape DEF PgInv

-----------------------------------------------------------------------------
(* Steps of a call that write nothing yet *)

LEMMA CommitUpdateGroupInv ==
  ASSUME PgInv, NEW t \in Txns, CommitUpdateGroup(t)
  PROVE  PgInv'
BY RollbackInv DEF CommitUpdateGroup, Done

LEMMA WriteGroupInv ==
  ASSUME PgInv, NEW t \in Txns, WriteGroup(t)
  PROVE  PgInv'
<1> DEFINE c == txns[t]
           d == txns'[t]
           keys == IF c.group \in {None, sessions[c.session].group}
                     THEN << >> ELSE <<KeyShare(c.group)>>
<1>1. c \in Txn /\ CallOK(c) /\ c.op = "move" /\ c.step = "lock" /\ c.wait = << >>
  BY DEF PgInv, WriteGroup, At
<1>2. c.session \in DOMAIN sessions /\ c.held = {ForUpdate(c.session)}
  BY <1>1 DEF CallOK, MoveOK, One
<1>3. keys \in Seq(Lock)
  BY <1>1, LockTypes, OneLock DEF Txn
<1> HIDE DEF keys
<1>4. /\ d.op = c.op /\ d.step = "write" /\ d.session = c.session /\ d.group = c.group
      /\ d.wait = keys /\ d.held = c.held /\ d \in Txn
  <2>1. txns' = [txns EXCEPT ![t] = [c EXCEPT !.step = "write", !.wait = keys]]
    BY DEF WriteGroup, keys
  <2>2. d = [c EXCEPT !.step = "write", !.wait = keys]
    BY <2>1 DEF PgInv
  <2>3. QED
    BY <1>1, <1>3, <2>2 DEF Txn
<1>5. sessions[c.session].parent = None /\ UNCHANGED tables
  BY DEF WriteGroup
<1>6. MoveOK(txns[t])'
  BY <1>1, <1>2, <1>4, <1>5 DEF MoveOK, Moving, tables, keys, Txn
<1>7. CallOK(txns[t])'
  BY <1>1, <1>4, <1>5, <1>6 DEF CallOK, tables, Store!Present
<1>8. QED
  BY <1>4, <1>5, <1>7, LocalStep DEF WriteGroup

LEMMA DetachMembersInv ==
  ASSUME PgInv, NEW t \in Txns, DetachMembers(t)
  PROVE  PgInv'
<1> DEFINE c == txns[t]
           d == txns'[t]
<1>1. c \in Txn /\ CallOK(c) /\ c.op = "delete group" /\ c.step = "lock" /\ c.wait = << >>
  BY DEF PgInv, DetachMembers, At
<1>2. c.group \in GroupIds /\ c.held = {ForUpdate(c.group)}
  <2>1. DeleteOK(c)
    BY <1>1 DEF CallOK
  <2>2. c.group \in GroupIds /\ One(c, ForUpdate(c.group))
    BY <1>1, <2>1 DEF DeleteOK
  <2>3. QED
    BY <1>1, <2>2, LockTypes, OneLock DEF One
<1>3. PICK q \in Orders(Members(c.group)) :
        txns' = [txns EXCEPT ![t].step = "write", ![t].wait = [i \in DOMAIN q |-> NoKeyUpdate(q[i])]]
  BY DEF DetachMembers
<1> DEFINE keys == [i \in DOMAIN q |-> NoKeyUpdate(q[i])]
<1>4. /\ q \in [1..Cardinality(Members(c.group)) -> Members(c.group)]
      /\ {q[i] : i \in DOMAIN q} = Members(c.group)
      /\ Cardinality(Members(c.group)) \in Nat
      /\ Members(c.group) \subseteq SessionIds
  <2>1. Members(c.group) \subseteq DOMAIN sessions /\ DOMAIN sessions \subseteq SessionIds
    BY DEF PgInv, TablesOK, Members
  <2>2. Cardinality(Members(c.group)) \in Nat
    BY <2>1, FS_Subset, FS_CardinalityType DEF PgInv
  <2>3. QED
    BY <2>1, <2>2 DEF Orders
<1>5. /\ keys \in Seq(Lock) /\ DOMAIN keys = DOMAIN q
      /\ \A i \in DOMAIN q : q[i] \in SessionIds /\ keys[i] = NoKeyUpdate(q[i])
  <2>1. \A i \in DOMAIN q : q[i] \in SessionIds /\ NoKeyUpdate(q[i]) \in Lock
    BY <1>4, LockTypes
  <2>2. DOMAIN keys = DOMAIN q /\ \A i \in DOMAIN q : keys[i] = NoKeyUpdate(q[i])
    OBVIOUS
  <2>3. keys \in [1..Cardinality(Members(c.group)) -> Lock]
    BY <1>4, <2>1
  <2>4. QED
    BY <1>4, <2>1, <2>2, <2>3
<1> HIDE DEF keys
<1>6. d = [c EXCEPT !.step = "write", !.wait = keys]
  <2>1. txns' = [txns EXCEPT ![t] = [c EXCEPT !.step = "write", !.wait = keys]]
    BY <1>3 DEF keys
  <2>2. QED
    BY <2>1 DEF PgInv
<1>7. /\ d.op = c.op /\ d.step = "write" /\ d.group = c.group
      /\ d.wait = keys /\ d.held = c.held /\ d \in Txn
  BY <1>1, <1>5, <1>6 DEF Txn
<1>8. UNCHANGED tables
  BY DEF DetachMembers
<1>9. Sweeping(d)
  <2>1. \A s \in Members(c.group) : \E i \in DOMAIN q : q[i] = s
    BY <1>4
  <2>2. \A s \in Members(c.group) : \E i \in DOMAIN d.wait : d.wait[i] = NoKeyUpdate(s)
    BY <1>5, <1>7, <2>1
  <2>3. QED
    BY <1>2, <1>5, <1>7, <2>2 DEF Sweeping
<1>10. Sweeping(txns[t])'
  BY <1>8, <1>9 DEF Sweeping, tables, Members
<1>11. CallOK(txns[t])'
  BY <1>1, <1>2, <1>7, <1>8, <1>10 DEF CallOK, DeleteOK, tables, Store!Present
<1>12. QED
  BY <1>3, <1>7, <1>8, <1>11, LocalStep

LEMMA InsertSessionInv ==
  ASSUME PgInv, NEW t \in Txns, InsertSession(t)
  PROVE  PgInv'
<1> DEFINE c == txns[t]
           d == txns'[t]
           b == Store!InheritedBackend(c.session, c.backend)
           keys == ForeignKeys(c.group, c.session)
<1>1. c \in Txn /\ CallOK(c) /\ c.op = "create session" /\ c.step = "read"
  BY DEF PgInv, InsertSession, At
<1>2. CreateOK(c) /\ c.held = {}
  BY <1>1 DEF CallOK, CreateOK
<1>3. \/ c.session = None
      \/ c.session \in DOMAIN sessions /\ c.session \in SessionIds
  <2>1. c.session = None \/ c.session \in DOMAIN sessions
    BY <1>2 DEF CreateOK
  <2>2. DOMAIN sessions \subseteq SessionIds
    BY DEF PgInv, TablesOK
  <2>3. QED
    BY <2>1, <2>2
<1>4. b \in Backends \cup {None}
  BY <1>1, <1>3 DEF Store!InheritedBackend, PgInv, TablesOK, Store!SessionRow, Txn
<1>5. keys \in Seq(Lock)
  <2>1. /\ c.group # None => KeyShare(c.group) \in Lock
        /\ c.session # None => KeyShare(c.session) \in Lock
    BY <1>1, LockTypes DEF Txn
  <2>2. << >> \in Seq(Lock)
    BY <1>1, <1>2 DEF Txn, PgInv, InsertSession, At
  <2>3. QED
    BY <2>1, <2>2 DEF ForeignKeys
<1>6. c.session # None /\ b = None => sessions[c.session].backend = None
  BY DEF Store!InheritedBackend
<1> HIDE DEF b, keys
<1>7. d = [c EXCEPT !.step = "write", !.backend = b, !.wait = keys]
  <2>1. txns' = [txns EXCEPT ![t] = [c EXCEPT !.step = "write", !.backend = b, !.wait = keys]]
    BY DEF InsertSession, b, keys
  <2>2. QED
    BY <2>1 DEF PgInv
<1>8. /\ d.op = c.op /\ d.step = "write" /\ d.group = c.group /\ d.session = c.session
      /\ d.version = c.version /\ d.from = c.from /\ d.value = c.value /\ d.backend = b
      /\ d.wait = keys /\ d.held = c.held /\ d \in Txn
  BY <1>1, <1>4, <1>5, <1>7 DEF Txn
<1>9. UNCHANGED tables
  BY DEF InsertSession
<1>10. Inserting(txns[t])'
  BY <1>2, <1>6, <1>8, <1>9 DEF Inserting, tables, keys
<1>11. CreateOK(txns[t])'
  BY <1>2, <1>8, <1>9, <1>10 DEF CreateOK, tables, Store!ForkPointOK
<1>12. CallOK(txns[t])'
  BY <1>1, <1>2, <1>8, <1>11 DEF CallOK
<1>13. QED
  BY <1>8, <1>9, <1>12, LocalStep DEF InsertSession

LEMMA ReadNextSeqInv ==
  ASSUME PgInv, NEW t \in Txns, ReadNextSeq(t)
  PROVE  PgInv'
<1> DEFINE c == txns[t]
           d == txns'[t]
           n == NextSeq(events[c.session])
<1>1. c \in Txn /\ CallOK(c) /\ c.op = "append" /\ c.step = "lock" /\ c.wait = << >>
  BY DEF PgInv, ReadNextSeq, At
<1>2. /\ c.session \in DOMAIN sessions /\ c.value \in Kinds
      /\ c.held = {ForUpdate(c.session)}
  BY <1>1 DEF CallOK, AppendOK, One
<1>3. n = Len(events[c.session]) /\ n \in Nat /\ n <= MaxSeq
  <2>1. /\ events[c.session] \in Seq(Store!EventRow)
        /\ \A i \in 1..Len(events[c.session]) : events[c.session][i].seq = i - 1
    BY <1>2 DEF PgInv, TablesOK, LogShape
  <2>2. QED
    BY <2>1, NextSeqIsLen DEF ReadNextSeq
<1> HIDE DEF n
<1>4. d = [c EXCEPT !.step = "write", !.from = n]
  <2>1. txns' = [txns EXCEPT ![t] = [c EXCEPT !.step = "write", !.from = n]]
    BY DEF ReadNextSeq, n
  <2>2. QED
    BY <2>1 DEF PgInv
<1>5. /\ d.op = c.op /\ d.step = "write" /\ d.session = c.session /\ d.value = c.value
      /\ d.from = n /\ d.wait = << >> /\ d.held = c.held /\ d \in Txn
  BY <1>1, <1>3, <1>4 DEF Txn
<1>6. UNCHANGED tables
  BY DEF ReadNextSeq
<1>7. AppendOK(txns[t])'
  BY <1>2, <1>3, <1>5, <1>6 DEF AppendOK, tables
<1>8. CallOK(txns[t])'
  BY <1>1, <1>5, <1>6, <1>7 DEF CallOK, tables, Store!Present
<1>9. QED
  BY <1>5, <1>6, <1>8, LocalStep DEF ReadNextSeq

-----------------------------------------------------------------------------
(* Commits *)

LEMMA CommitKeeps ==
  ASSUME PgInv, NEW t \in Txns, Done(t),
         TablesOK', IsFiniteSet(DOMAIN sessions)', LogShape', GroupRefs', RowsStay,
         \A u \in Txns \ {t} : Keeps(txns[u])
  PROVE  PgInv'
<1>1. txns'[t] = Idle /\ \A u \in Txns \ {t} : txns'[u] = txns[u]
  BY DEF PgInv, Done
<1>2. CallOK(txns[t])'
  BY <1>1, IdleType DEF CallOK, Idle
<1>3. txns' \in [Txns -> Txn]
  BY IdleType DEF PgInv, Done
<1>4. txns'[t].held \subseteq txns[t].held
  BY <1>1 DEF Idle
<1>5. QED
  BY <1>1, <1>2, <1>3, <1>4, StepKeeps

\* A lock that t holds keeps the others from a conflicting one.
LEMMA HeldAlone ==
  ASSUME PgInv, NEW t \in Txns, NEW u \in Txns \ {t},
         NEW l \in txns[t].held, NEW m \in txns[u].held, l.row = m.row
  PROVE  l.mode # "update" /\ m.mode # "update"
<1>1. ~Conflicts(l, m)
  BY DEF PgInv, Exclusive
<1>2. QED
  BY <1>1 DEF Conflicts

LEMMA CommitRow ==
  ASSUME PgInv, NEW t \in Txns, Done(t), NEW s \in DOMAIN sessions,
         NEW row \in Store!SessionRow,
         sessions' = [sessions EXCEPT ![s] = row],
         UNCHANGED <<groups, versions, events, queries>>,
         row.parent = sessions[s].parent, row.backend = sessions[s].backend,
         row.group # None => Store!Present(row.group),
         row.group = sessions[s].group \/
           /\ ForUpdate(s) \in txns[t].held
           /\ row.group # None => KeyShare(row.group) \in txns[t].held
  PROVE  PgInv'
<1>1. TablesOK' /\ IsFiniteSet(DOMAIN sessions)' /\ LogShape'
  BY DEF PgInv, TablesOK, LogShape
<1>2. GroupRefs'
  BY DEF PgInv, GroupRefs, Store!Present
<1>3. RowsStay
  BY DEF RowsStay
<1>4. ASSUME NEW u \in Txns \ {t}
      PROVE  Keeps(txns[u])
  <2>1. \A r \in DOMAIN sessions : r # s => sessions'[r] = sessions[r]
    OBVIOUS
  <2>2. sessions'[s] = row
    OBVIOUS
  <2>3. CASE row.group = sessions[s].group
    BY <2>1, <2>2, <2>3 DEF Keeps, Members, Store!Present
  <2>4. CASE /\ ForUpdate(s) \in txns[t].held
             /\ row.group # None => KeyShare(row.group) \in txns[t].held
    <3>1. ForUpdate(s) \notin txns[u].held
      BY <2>4, HeldAlone, LockTypes
    <3>2. \A g \in GroupIds : ForUpdate(g) \in txns[u].held => row.group # g
      <4> SUFFICES ASSUME NEW g \in GroupIds, ForUpdate(g) \in txns[u].held, row.group = g
                   PROVE  FALSE
        OBVIOUS
      <4>1. KeyShare(g) \in txns[t].held
        BY <2>4, PgAssumption
      <4>2. QED
        <5>1. KeyShare(g).row = ForUpdate(g).row /\ ForUpdate(g).mode = "update"
          BY LockTypes
        <5>2. QED
          BY <4>1, <5>1, HeldAlone
    <3>3. \A g \in GroupIds : ForUpdate(g) \in txns[u].held => Members(g)' \subseteq Members(g)
      BY <2>1, <2>2, <3>2 DEF Members
    <3>4. QED
      BY <2>1, <3>1, <3>3 DEF Keeps, Store!Present
  <2>5. QED
    BY <2>3, <2>4
<1>5. QED
  BY <1>1, <1>2, <1>3, <1>4, CommitKeeps

LEMMA RowTypes ==
  ASSUME PgInv, NEW s \in DOMAIN sessions
  PROVE  /\ \A g \in GroupIds \cup {None} :
              LET row == [sessions[s] EXCEPT !.group = g] IN
              /\ row \in Store!SessionRow /\ row.group = g
              /\ row.parent = sessions[s].parent /\ row.backend = sessions[s].backend
         /\ \A status \in Statuses :
              LET row == [sessions[s] EXCEPT !.status = status] IN
              /\ row \in Store!SessionRow /\ row.group = sessions[s].group
              /\ row.parent = sessions[s].parent /\ row.backend = sessions[s].backend
         /\ \A title \in Titles :
              LET row == [sessions[s] EXCEPT !.title = title] IN
              /\ row \in Store!SessionRow /\ row.group = sessions[s].group
              /\ row.parent = sessions[s].parent /\ row.backend = sessions[s].backend
<1>1. sessions[s] \in Store!SessionRow
  BY DEF PgInv, TablesOK
<1>2. QED
  BY <1>1 DEF Store!SessionRow

LEMMA CommitStatusInv ==
  ASSUME PgInv, NEW t \in Txns, CommitStatus(t)
  PROVE  PgInv'
<1> DEFINE c == txns[t]
           s == c.session
           row == [sessions[s] EXCEPT !.status = c.value]
<1>1. c.session \in DOMAIN sessions /\ c.value \in Statuses
  BY DEF PgInv, CallOK, CommitStatus, At
<1>2. /\ row \in Store!SessionRow /\ row.group = sessions[s].group
      /\ row.parent = sessions[s].parent /\ row.backend = sessions[s].backend
  BY <1>1, RowTypes
<1>3. sessions' = [sessions EXCEPT ![s] = row]
  BY DEF CommitStatus
<1>4. row.group # None => Store!Present(row.group)
  BY <1>1, <1>2 DEF PgInv, GroupRefs
<1> HIDE DEF row
<1>5. QED
  BY <1>1, <1>2, <1>3, <1>4, CommitRow DEF CommitStatus

LEMMA CommitTitleInv ==
  ASSUME PgInv, NEW t \in Txns, CommitTitle(t)
  PROVE  PgInv'
<1> DEFINE c == txns[t]
           s == c.session
           row == [sessions[s] EXCEPT !.title = c.value]
<1>1. c.session \in DOMAIN sessions /\ c.value \in Titles
  BY DEF PgInv, CallOK, CommitTitle, At
<1>2. /\ row \in Store!SessionRow /\ row.group = sessions[s].group
      /\ row.parent = sessions[s].parent /\ row.backend = sessions[s].backend
  BY <1>1, RowTypes
<1>3. sessions' = [sessions EXCEPT ![s] = row]
  BY DEF CommitTitle
<1>4. row.group # None => Store!Present(row.group)
  BY <1>1, <1>2 DEF PgInv, GroupRefs
<1> HIDE DEF row
<1>5. QED
  BY <1>1, <1>2, <1>3, <1>4, CommitRow DEF CommitTitle

\* update_session_group: the group a session moves to is there when it moves.
LEMMA CommitMoveFacts ==
  ASSUME PgInv, NEW t \in Txns, CommitMove(t)
  PROVE  /\ txns[t].session \in DOMAIN sessions
         /\ txns[t].group \in GroupIds \cup {None}
         /\ sessions[txns[t].session].parent = None
         /\ ForUpdate(txns[t].session) \in txns[t].held
         /\ txns[t].group # None => Store!Present(txns[t].group)
         /\ \/ txns[t].group = sessions[txns[t].session].group
            \/ txns[t].group # None => KeyShare(txns[t].group) \in txns[t].held
<1> DEFINE c == txns[t]
<1>1. c \in Txn /\ CallOK(c) /\ c.op = "move" /\ c.step = "write" /\ c.wait = << >>
  BY DEF PgInv, CommitMove, At
<1>2. c.session \in DOMAIN sessions /\ Moving(c)
  BY <1>1 DEF CallOK, MoveOK
<1>3. c.group \in GroupIds \cup {None}
  BY <1>1 DEF Txn
<1>4. \/ /\ c.group \in GroupIds
         /\ c.held = {ForUpdate(c.session), KeyShare(c.group)}
      \/ c.held = {ForUpdate(c.session)} /\ c.group \in {None, sessions[c.session].group}
  BY <1>1, <1>2, LockTypes, OneLock DEF Moving
<1>5. c.group # None => Store!Present(c.group)
  BY <1>1, <1>2, <1>4, LockTypes DEF CallOK, PgInv, GroupRefs
<1>6. QED
  BY <1>2, <1>3, <1>4, <1>5 DEF Moving

LEMMA CommitMoveInv ==
  ASSUME PgInv, NEW t \in Txns, CommitMove(t)
  PROVE  PgInv'
<1> DEFINE c == txns[t]
           s == c.session
           row == [sessions[s] EXCEPT !.group = c.group]
<1>1. s \in DOMAIN sessions /\ c.group \in GroupIds \cup {None}
  BY CommitMoveFacts
<1>2. /\ row \in Store!SessionRow /\ row.group = c.group
      /\ row.parent = sessions[s].parent /\ row.backend = sessions[s].backend
  BY <1>1, RowTypes
<1>3. sessions' = [sessions EXCEPT ![s] = row]
  BY DEF CommitMove
<1>4. \/ row.group = sessions[s].group
      \/ /\ ForUpdate(s) \in txns[t].held
         /\ row.group # None => KeyShare(row.group) \in txns[t].held
  BY <1>2, CommitMoveFacts
<1>5. row.group # None => Store!Present(row.group)
  BY <1>2, CommitMoveFacts
<1> HIDE DEF row
<1>6. QED
  BY <1>1, <1>2, <1>3, <1>4, <1>5, CommitRow DEF CommitMove

\* delete_group: every session that is in the group when it goes is detached.
LEMMA CommitDeleteFacts ==
  ASSUME PgInv, NEW t \in Txns, CommitDelete(t)
  PROVE  /\ txns[t].group \in GroupIds
         /\ ForUpdate(txns[t].group) \in txns[t].held
         /\ Store!Present(txns[t].group)
         /\ \A s \in Members(txns[t].group) : NoKeyUpdate(s) \in txns[t].held
         /\ sessions' = [s \in DOMAIN sessions |->
                           IF s \in Members(txns[t].group)
                             THEN [sessions[s] EXCEPT !.group = None] ELSE sessions[s]]
<1> DEFINE c == txns[t]
<1>1. CallOK(c) /\ c.op = "delete group" /\ c.step = "write" /\ c.wait = << >>
  BY DEF PgInv, CommitDelete, At
<1>2. c.group \in GroupIds /\ Sweeping(c)
  BY <1>1 DEF CallOK, DeleteOK
<1>3. \A s \in Members(c.group) : NoKeyUpdate(s) \in c.held
  <2>1. DOMAIN c.wait = {}
    BY <1>1, NoLock
  <2>2. QED
    BY <1>2, <2>1 DEF Sweeping
<1>4. ForUpdate(c.group) \in c.held /\ Store!Present(c.group)
  BY <1>1, <1>2, LockTypes DEF Sweeping, CallOK
<1>5. QED
  BY <1>2, <1>3, <1>4 DEF CommitDelete, Members

LEMMA CommitDeleteInv ==
  ASSUME PgInv, NEW t \in Txns, CommitDelete(t)
  PROVE  PgInv'
<1> DEFINE g == txns[t].group
<1>1. /\ g \in GroupIds /\ groups' = [groups EXCEPT ![g] = "deleted"]
      /\ UNCHANGED <<versions, events, queries>>
  BY CommitDeleteFacts DEF CommitDelete
<1>2. /\ DOMAIN sessions' = DOMAIN sessions
      /\ \A s \in DOMAIN sessions : /\ sessions'[s] \in Store!SessionRow
                                    /\ sessions'[s].parent = sessions[s].parent
                                    /\ sessions'[s].backend = sessions[s].backend
      /\ \A s \in Members(g) : sessions'[s].group = None
      /\ \A s \in DOMAIN sessions \ Members(g) : sessions'[s] = sessions[s]
  <2>1. \A s \in DOMAIN sessions :
          /\ sessions[s] \in Store!SessionRow
          /\ [sessions[s] EXCEPT !.group = None] \in Store!SessionRow
          /\ [sessions[s] EXCEPT !.group = None].parent = sessions[s].parent
          /\ [sessions[s] EXCEPT !.group = None].backend = sessions[s].backend
          /\ [sessions[s] EXCEPT !.group = None].group = None
    BY DEF PgInv, TablesOK, Store!SessionRow
  <2>2. QED
    BY <2>1, CommitDeleteFacts DEF Members
<1>3. sessions' \in [DOMAIN sessions -> Store!SessionRow]
  BY <1>2, CommitDeleteFacts
<1>4. TablesOK' /\ IsFiniteSet(DOMAIN sessions)'
  BY <1>1, <1>2, <1>3 DEF PgInv, TablesOK
<1>5. LogShape' /\ RowsStay
  BY <1>1, <1>2 DEF PgInv, LogShape, RowsStay
<1>6. GroupRefs'
  BY <1>1, <1>2 DEF PgInv, TablesOK, GroupRefs, Members, Store!Present
<1>7. ASSUME NEW u \in Txns \ {t}
      PROVE  Keeps(txns[u])
  <2>1. \A l \in txns[u].held : l.row # g
    <3>1. ForUpdate(g) \in txns[t].held /\ ForUpdate(g).row = g /\ ForUpdate(g).mode = "update"
      BY CommitDeleteFacts, LockTypes
    <3>2. QED
      BY <3>1, HeldAlone
  <2>2. \A l \in txns[u].held :
          l.row \in GroupIds /\ Store!Present(l.row) => Store!Present(l.row)'
    BY <1>1, <2>1 DEF PgInv, TablesOK, Store!Present
  <2>3. \A s \in DOMAIN sessions : ForUpdate(s) \in txns[u].held => s \notin Members(g)
    <3> SUFFICES ASSUME NEW s \in Members(g), ForUpdate(s) \in txns[u].held
                 PROVE  FALSE
      OBVIOUS
    <3>1. NoKeyUpdate(s) \in txns[t].held
      BY CommitDeleteFacts
    <3>2. NoKeyUpdate(s).row = ForUpdate(s).row /\ ForUpdate(s).mode = "update"
      BY LockTypes
    <3>3. QED
      BY <3>1, <3>2, HeldAlone
  <2>4. \A s \in DOMAIN sessions : ForUpdate(s) \in txns[u].held =>
          sessions'[s].group = sessions[s].group /\ events'[s] = events[s]
    BY <1>1, <1>2, <2>3
  <2>5. \A h \in GroupIds : Members(h)' \subseteq Members(h)
    BY <1>2, PgAssumption DEF Members
  <2>6. QED
    BY <2>2, <2>4, <2>5 DEF Keeps
<1>8. QED
  BY <1>4, <1>5, <1>6, <1>7, CommitKeeps DEF CommitDelete

\* create_session: the row that is inserted is well formed and its group is there.
NewRow(c) == [group |-> c.group, title |-> c.value, parent |-> c.session,
              version |-> c.version, forkSeq |-> c.from, status |-> "active",
              backend |-> c.backend]

LEMMA CommitSessionFacts ==
  ASSUME PgInv, NEW t \in Txns, NEW s \in SessionIds, CommitSession(t, s)
  PROVE  /\ CreateOK(txns[t]) /\ Inserting(txns[t]) /\ txns[t] \in Txn
         /\ NewRow(txns[t]) \in Store!SessionRow
         /\ s \notin DOMAIN sessions
         /\ sessions' = Store!Insert(sessions, s, NewRow(txns[t]))
         /\ txns[t].group # None => /\ KeyShare(txns[t].group) \in txns[t].held
                                    /\ Store!Present(txns[t].group)
<1> DEFINE c == txns[t]
<1>1. /\ c \in Txn /\ CallOK(c) /\ c.op = "create session" /\ c.step = "write"
      /\ c.wait = << >> /\ s \notin DOMAIN sessions
      /\ sessions' = Store!Insert(sessions, s, NewRow(c))
  BY DEF PgInv, CommitSession, At, Store!NewId, NewRow
<1>2. CreateOK(c) /\ Inserting(c)
  BY <1>1 DEF CallOK, CreateOK
<1>3. c.group # None => KeyShare(c.group) \in c.held
  <2>1. \/ c.wait = ForeignKeys(c.group, c.session) /\ c.held = {}
        \/ c.wait = <<KeyShare(c.session)>>
        \/ c.group # None => KeyShare(c.group) \in c.held
    BY <1>2 DEF Inserting
  <2>2. c.wait # <<KeyShare(c.session)>>
    BY <1>1, NoLock
  <2>3. c.group # None => c.wait # ForeignKeys(c.group, c.session)
    BY <1>1, NoLock DEF ForeignKeys
  <2>4. QED
    BY <2>1, <2>2, <2>3
<1>4. c.group # None => Store!Present(c.group)
  BY <1>1, <1>3, LockTypes DEF CallOK, Txn
<1>5. NewRow(c) \in Store!SessionRow
  <2>1. /\ c.value \in Titles /\ c.group \in GroupIds \cup {None}
        /\ c.session \in SessionIds \cup {None} /\ c.version \in VersionIds \cup {None}
        /\ c.from \in Nat \cup {None} /\ c.backend \in Backends \cup {None}
    BY <1>1, <1>2 DEF CreateOK, Txn
  <2>2. QED
    BY <2>1, PgAssumption DEF NewRow, Store!SessionRow
<1>6. QED
  BY <1>1, <1>2, <1>3, <1>4, <1>5

LEMMA CommitSessionInv ==
  ASSUME PgInv, NEW t \in Txns, NEW s \in SessionIds, CommitSession(t, s)
  PROVE  PgInv'
<1> DEFINE row == NewRow(txns[t])
<1>1. /\ row \in Store!SessionRow /\ row.group = txns[t].group
      /\ s \notin DOMAIN sessions
      /\ sessions' = Store!Insert(sessions, s, row)
      /\ events' = Store!Insert(events, s, << >>)
      /\ UNCHANGED <<groups, versions, queries>>
  BY CommitSessionFacts DEF CommitSession, NewRow
<1> HIDE DEF row
<1>2. /\ DOMAIN sessions' = DOMAIN sessions \cup {s} /\ sessions'[s] = row
      /\ \A r \in DOMAIN sessions : sessions'[r] = sessions[r]
  BY <1>1 DEF Store!Insert
<1>3. DOMAIN events = DOMAIN sessions
  BY DEF PgInv, TablesOK
<1>4. events'[s] = << >> /\ \A r \in DOMAIN sessions : events'[r] = events[r]
  BY <1>1, <1>3 DEF Store!Insert
<1>5. IsFiniteSet(DOMAIN sessions')
  BY <1>2, FS_AddElement DEF PgInv
<1>6. sessions' \in [DOMAIN sessions' -> Store!SessionRow]
  BY <1>1, <1>2 DEF PgInv, TablesOK, Store!Insert
<1>7. events' \in [DOMAIN sessions' -> Seq(Store!EventRow)]
  BY <1>1, <1>2, <1>3 DEF PgInv, TablesOK, Store!Insert
<1>8. TablesOK'
  BY <1>1, <1>2, <1>6, <1>7 DEF PgInv, TablesOK
<1>9. LogShape'
  BY <1>2, <1>4 DEF PgInv, LogShape
<1>10. GroupRefs' /\ RowsStay
  BY <1>1, <1>2, CommitSessionFacts DEF PgInv, GroupRefs, RowsStay, Store!Present
<1>11. ASSUME NEW u \in Txns \ {t}
       PROVE  Keeps(txns[u])
  <2>1. ASSUME NEW g \in GroupIds, ForUpdate(g) \in txns[u].held
        PROVE  row.group # g
    <3>1. KeyShare(g).row = ForUpdate(g).row /\ ForUpdate(g).mode = "update"
      BY LockTypes
    <3>2. KeyShare(g) \notin txns[t].held
      BY <2>1, <3>1, HeldAlone
    <3>3. QED
      BY <1>1, <3>2, CommitSessionFacts, PgAssumption
  <2>2. \A g \in GroupIds : ForUpdate(g) \in txns[u].held => Members(g)' \subseteq Members(g)
    BY <1>2, <2>1 DEF Members
  <2>3. QED
    BY <1>1, <1>2, <1>4, <2>2 DEF Keeps, Store!Present
<1>12. QED
  BY <1>5, <1>8, <1>9, <1>10, <1>11, CommitKeeps DEF CommitSession

LEMMA CommitVersionInv ==
  ASSUME PgInv, NEW t \in Txns, NEW v \in VersionIds, CommitVersion(t, v)
  PROVE  PgInv'
<1> DEFINE c == txns[t]
           row == [session |-> c.session, start |-> c.from, end |-> c.to,
                   turnCount |-> c.to - c.from + 1]
<1>1. /\ c.session \in DOMAIN sessions /\ c.from \in 0..MaxSeq /\ c.to \in 0..MaxSeq
      /\ c.from <= c.to
  BY DEF PgInv, CallOK, CommitVersion, At
<1>2. row \in Store!VersionRow
  BY <1>1, PgAssumption DEF PgInv, TablesOK, Store!VersionRow
<1>3. versions' = Store!Insert(versions, v, row) /\ v \notin DOMAIN versions
  BY DEF CommitVersion, Store!NewId
<1> HIDE DEF row
<1>4. UNCHANGED <<groups, sessions, events, queries>>
  BY DEF CommitVersion
<1>5. /\ DOMAIN versions \subseteq DOMAIN versions'
      /\ \A w \in DOMAIN versions : versions'[w] = versions[w]
  BY <1>3 DEF Store!Insert
<1>6. TablesOK'
  BY <1>2, <1>3, <1>4 DEF PgInv, TablesOK, Store!Insert
<1>7. IsFiniteSet(DOMAIN sessions)' /\ LogShape' /\ GroupRefs'
  BY <1>4 DEF PgInv, LogShape, GroupRefs, Store!Present
<1>8. RowsStay /\ \A u \in Txns : Keeps(txns[u])
  BY <1>4, <1>5 DEF RowsStay, Keeps, Members, Store!Present
<1>9. QED
  BY <1>6, <1>7, <1>8, CommitKeeps DEF CommitVersion

LEMMA CommitQueryInv ==
  ASSUME PgInv, NEW t \in Txns, NEW q \in QueryIds, CommitQuery(t, q)
  PROVE  PgInv'
<1> DEFINE c == txns[t]
           row == [source |-> c.session, target |-> c.version]
<1>1. c.session \in DOMAIN sessions /\ c.version \in DOMAIN versions
  BY DEF PgInv, CallOK, CommitQuery, At
<1>2. row \in Store!QueryRow
  BY <1>1 DEF PgInv, TablesOK, Store!QueryRow
<1>3. queries' = Store!Insert(queries, q, row)
  BY DEF CommitQuery
<1> HIDE DEF row
<1>4. UNCHANGED <<groups, sessions, versions, events>>
  BY DEF CommitQuery
<1>5. TablesOK'
  BY <1>2, <1>3, <1>4 DEF PgInv, TablesOK, Store!Insert
<1>6. IsFiniteSet(DOMAIN sessions)' /\ LogShape' /\ GroupRefs'
  BY <1>4 DEF PgInv, LogShape, GroupRefs, Store!Present
<1>7. RowsStay /\ \A u \in Txns : Keeps(txns[u])
  BY <1>4 DEF RowsStay, Keeps, Members, Store!Present
<1>8. QED
  BY <1>5, <1>6, <1>7, CommitKeeps DEF CommitQuery

LEMMA CommitEventFacts ==
  ASSUME PgInv, NEW t \in Txns, CommitEvent(t)
  PROVE  /\ txns[t].session \in DOMAIN sessions
         /\ ForUpdate(txns[t].session) \in txns[t].held
         /\ txns[t].from = Len(events[txns[t].session]) /\ txns[t].from <= MaxSeq
         /\ events[txns[t].session] \in Seq(Store!EventRow)
         /\ [seq |-> txns[t].from, kind |-> txns[t].value] \in Store!EventRow
         /\ txns[t].value \in Kinds
<1> DEFINE c == txns[t]
<1>1. AppendOK(c) /\ c.step = "write"
  BY DEF PgInv, CallOK, CommitEvent, At
<1>2. /\ c.session \in DOMAIN sessions /\ c.value \in Kinds
      /\ ForUpdate(c.session) \in c.held
      /\ c.from = Len(events[c.session]) /\ c.from <= MaxSeq
  BY <1>1 DEF AppendOK
<1>3. events[c.session] \in Seq(Store!EventRow)
  BY <1>2 DEF PgInv, TablesOK
<1>4. QED
  BY <1>2, <1>3 DEF Store!EventRow

LEMMA CommitEventInv ==
  ASSUME PgInv, NEW t \in Txns, CommitEvent(t)
  PROVE  PgInv'
<1> DEFINE c == txns[t]
           s == c.session
           row == [seq |-> c.from, kind |-> c.value]
<1>1. /\ s \in DOMAIN sessions /\ ForUpdate(s) \in c.held /\ row \in Store!EventRow
      /\ row.seq = Len(events[s]) /\ events[s] \in Seq(Store!EventRow)
  BY CommitEventFacts
<1>2. /\ events' = [events EXCEPT ![s] = Append(@, row)]
      /\ UNCHANGED <<groups, sessions, versions, queries>>
  BY DEF CommitEvent
<1> HIDE DEF row
<1>3. DOMAIN events = DOMAIN sessions
  BY DEF PgInv, TablesOK
<1>4. /\ events'[s] = Append(events[s], row)
      /\ \A r \in DOMAIN sessions : r # s => events'[r] = events[r]
  BY <1>1, <1>2, <1>3
<1>5. Append(events[s], row) \in Seq(Store!EventRow)
  BY <1>1
<1>6. TablesOK'
  BY <1>2, <1>5 DEF PgInv, TablesOK
<1>7. LogShape'
  <2>1. \A i \in 1..Len(Append(events[s], row)) : Append(events[s], row)[i].seq = i - 1
    BY <1>1 DEF PgInv, LogShape
  <2>2. QED
    BY <1>2, <1>4, <2>1 DEF PgInv, LogShape
<1>8. IsFiniteSet(DOMAIN sessions)' /\ GroupRefs' /\ RowsStay
  BY <1>2 DEF PgInv, GroupRefs, RowsStay, Store!Present
<1>9. ASSUME NEW u \in Txns \ {t}
      PROVE  Keeps(txns[u])
  <2>1. ForUpdate(s).row = ForUpdate(s).row /\ ForUpdate(s).mode = "update"
    BY LockTypes
  <2>2. ForUpdate(s) \notin txns[u].held
    BY <1>1, <2>1, HeldAlone
  <2>3. QED
    BY <1>2, <1>4, <2>2 DEF Keeps, Members, Store!Present
<1>10. QED
  BY <1>6, <1>7, <1>8, <1>9, CommitKeeps DEF CommitEvent

LEMMA CreateGroupInv ==
  ASSUME PgInv, NEW g \in GroupIds, CreateGroup(g)
  PROVE  PgInv'
<1>1. /\ groups[g] = "unused" /\ groups' = [groups EXCEPT ![g] = "present"]
      /\ UNCHANGED <<sessions, versions, events, queries, txns>>
  BY DEF CreateGroup, Store!CreateGroup
<1>2. \A h \in GroupIds : Store!Present(h) => Store!Present(h)'
  BY <1>1 DEF PgInv, TablesOK, Store!Present
<1>3. TablesOK' /\ IsFiniteSet(DOMAIN sessions)' /\ LogShape' /\ Exclusive'
      /\ txns' \in [Txns -> Txn]
  BY <1>1 DEF PgInv, TablesOK, LogShape, Exclusive
<1>4. GroupRefs'
  BY <1>1, <1>2 DEF PgInv, TablesOK, GroupRefs, Store!SessionRow
<1>5. RowsStay /\ \A u \in Txns : Keeps(txns[u])
  BY <1>1, <1>2 DEF RowsStay, Keeps, Members
<1>6. \A u \in Txns : CallOK(txns[u])'
  BY <1>1, <1>3, <1>5, OthersKeep DEF PgInv
<1>7. QED
  BY <1>3, <1>4, <1>6 DEF PgInv

-----------------------------------------------------------------------------
(* The invariant *)

LEMMA GroupCallsInv ==
  ASSUME PgInv, NEW t \in Txns, GroupCalls(t)
  PROVE  PgInv'
BY UpdateGroupInv, DeleteGroupInv, MoveSessionInv, CommitUpdateGroupInv, DetachMembersInv,
   CommitDeleteInv, WriteGroupInv, CommitMoveInv DEF GroupCalls

LEMMA SessionCallsInv ==
  ASSUME PgInv, NEW t \in Txns, SessionCalls(t)
  PROVE  PgInv'
<1>1. ASSUME NEW g \in GroupIds \cup {None}, NEW title \in Titles,
             NEW backend \in Backends \cup {None},
             \/ CreateSession(t, g, None, None, None, title, backend)
             \/ \E parent \in SessionIds, v \in VersionIds, n \in 0..MaxSeq :
                  CreateSession(t, g, parent, v, n, title, backend)
      PROVE  PgInv'
  BY <1>1, CreateSessionInv
<1>2. ASSUME NEW s \in SessionIds,
             \/ \E title \in Titles : UpdateSession(t, s, "set title", title)
             \/ \E status \in Statuses : UpdateSession(t, s, "set status", status)
             \/ CommitSession(t, s)
      PROVE  PgInv'
  BY <1>2, UpdateSessionInv, CommitSessionInv
<1>3. CASE InsertSession(t) \/ CommitStatus(t) \/ CommitTitle(t)
  BY <1>3, InsertSessionInv, CommitStatusInv, CommitTitleInv
<1>4. QED
  BY <1>1, <1>2, <1>3 DEF SessionCalls

LEMMA LogCallsInv ==
  ASSUME PgInv, NEW t \in Txns, LogCalls(t)
  PROVE  PgInv'
BY AppendEventInv, CreateVersionInv, CreateSnapshotQueryInv, ReadNextSeqInv, CommitEventInv,
   CommitVersionInv, CommitQueryInv DEF LogCalls

LEMMA PgInit_PgInv == PgInit => PgInv
<1> SUFFICES ASSUME PgInit
             PROVE  PgInv
  OBVIOUS
<1>1. TablesOK /\ LogShape /\ GroupRefs
  BY NoLock DEF PgInit, Store!Init, TablesOK, LogShape, GroupRefs
<1>2. IsFiniteSet(DOMAIN sessions)
  BY NoLock, FS_EmptySet DEF PgInit, Store!Init
<1>3. \A t \in Txns : txns[t] = Idle /\ txns[t].held = {}
  BY DEF PgInit, Idle
<1>4. txns \in [Txns -> Txn]
  BY IdleType DEF PgInit
<1>5. QED
  BY <1>1, <1>2, <1>3, <1>4, IdleOK DEF PgInv, Exclusive

LEMMA PgNext_PgInv == PgInv /\ [PgNext]_pgVars => PgInv'
<1> SUFFICES ASSUME PgInv, [PgNext]_pgVars
             PROVE  PgInv'
  OBVIOUS
<1>1. ASSUME NEW g \in GroupIds, CreateGroup(g)
      PROVE  PgInv'
  BY <1>1, CreateGroupInv
<1>2. ASSUME NEW t \in Txns, TakeLock(t)
      PROVE  PgInv'
  BY <1>2, TakeLockInv
<1>3. ASSUME NEW t \in Txns, Rollback(t)
      PROVE  PgInv'
  BY <1>3, RollbackInv DEF Rollback, Done
<1>4. ASSUME NEW t \in Txns, GroupCalls(t) \/ SessionCalls(t) \/ LogCalls(t)
      PROVE  PgInv'
  BY <1>4, GroupCallsInv, SessionCallsInv, LogCallsInv
<1>5. CASE UNCHANGED pgVars
  <2>1. UNCHANGED tables /\ UNCHANGED txns
    BY <1>5 DEF pgVars
  <2>2. RowsStay /\ \A u \in Txns : Keeps(txns[u])
    BY <2>1 DEF RowsStay, Keeps, tables, Members, Store!Present
  <2>3. TablesOK' /\ IsFiniteSet(DOMAIN sessions)' /\ LogShape' /\ GroupRefs' /\ Exclusive'
        /\ txns' \in [Txns -> Txn]
    BY <2>1 DEF PgInv, TablesOK, LogShape, GroupRefs, Exclusive, tables, Store!Present
  <2>4. \A u \in Txns : CallOK(txns[u])'
    BY <2>1, <2>2, <2>3, OthersKeep DEF PgInv
  <2>5. QED
    BY <2>3, <2>4 DEF PgInv
<1>6. QED
  BY <1>1, <1>2, <1>3, <1>4, <1>5 DEF PgNext

THEOREM PgInvariant == PgSpec => []PgInv
<1>1. QED
  BY PgInit_PgInv, PgNext_PgInv, PTL DEF PgSpec

-----------------------------------------------------------------------------
(* What follows from it *)

\* Every call's locals and every row have their types.
THEOREM PgTypeCorrect == PgSpec => []PgTypeOK
<1>1. PgInv => PgTypeOK
  <2> SUFFICES ASSUME PgInv
               PROVE  PgTypeOK
    OBVIOUS
  <2>1. DOMAIN events = DOMAIN sessions
    BY DEF PgInv, TablesOK
  <2>2. \A s \in DOMAIN events : NextSeq(events[s]) \in Nat
    BY <2>1, NextSeqIsLen DEF PgInv, TablesOK, LogShape
  <2>3. [s \in DOMAIN events |-> NextSeq(events[s])] \in [DOMAIN sessions -> Nat]
    BY <2>1, <2>2
  <2>4. QED
    BY <2>3 DEF PgInv, TablesOK, PgTypeOK, Store!TypeOK
<1>2. QED
  BY <1>1, PgInvariant, PTL

\* append_event never meets its UNIQUE constraint, whatever runs at the same time.
THEOREM AppendsNeverCollide == PgSpec => []AppendNeverCollides
<1>1. PgInv => AppendNeverCollides
  <2> SUFFICES ASSUME PgInv, NEW t \in Txns, At(t, "append", "write")
               PROVE  /\ txns[t].from \notin TakenSeqs(txns[t].session)
                      /\ \A u \in Txns \ {t} :
                           ~(At(u, "append", "write") /\ txns[u].session = txns[t].session)
    BY DEF AppendNeverCollides
  <2>1. ASSUME NEW u \in Txns, At(u, "append", "write")
        PROVE  /\ txns[u].session \in DOMAIN sessions
               /\ ForUpdate(txns[u].session) \in txns[u].held
               /\ txns[u].from = Len(events[txns[u].session])
    BY <2>1 DEF PgInv, CallOK, AppendOK, At
  <2>2. txns[t].from \notin TakenSeqs(txns[t].session)
    <3>1. /\ events[txns[t].session] \in Seq(Store!EventRow)
          /\ \A i \in 1..Len(events[txns[t].session]) : events[txns[t].session][i].seq = i - 1
      BY <2>1 DEF PgInv, TablesOK, LogShape
    <3>2. \A i \in DOMAIN events[txns[t].session] :
            events[txns[t].session][i].seq # Len(events[txns[t].session])
      BY <3>1
    <3>3. QED
      BY <2>1, <3>2 DEF TakenSeqs
  <2>3. ASSUME NEW u \in Txns \ {t}, At(u, "append", "write"),
               txns[u].session = txns[t].session
        PROVE  FALSE
    <3>1. /\ ForUpdate(txns[t].session) \in txns[t].held
          /\ ForUpdate(txns[t].session) \in txns[u].held
      BY <2>1, <2>3
    <3>2. ForUpdate(txns[t].session).mode = "update"
      BY LockTypes
    <3>3. QED
      BY <3>1, <3>2, HeldAlone
  <2>4. QED
    BY <2>2, <2>3
<1>2. QED
  BY <1>1, PgInvariant, PTL

\* A call that waits while it holds a lock, other than a delete_group, is a move
\* waiting for its new group or a fork waiting for its parent.
LEMMA WaitingHolders ==
  ASSUME PgInv, NEW t \in Txns, txns[t].wait # << >>, txns[t].op # "delete group",
         NEW m \in txns[t].held
  PROVE  \/ /\ \E s \in SessionIds : m = ForUpdate(s)
            /\ \E g \in GroupIds : Head(txns[t].wait) = KeyShare(g)
         \/ /\ \E g \in GroupIds : m = KeyShare(g)
            /\ \E s \in SessionIds : Head(txns[t].wait) = KeyShare(s)
<1> DEFINE c == txns[t]
<1>1. CallOK(c) /\ c \in Txn /\ c.wait # << >> /\ c.held # {}
  BY DEF PgInv
<1>2. DOMAIN sessions \subseteq SessionIds
  BY DEF PgInv, TablesOK
<1>3. c.op \in {"move", "create session"}
  <2>1. \A l : ~One(c, l)
    BY <1>1 DEF One
  <2>2. c.op # "none"
    <3>1. Idle.wait = << >>
      BY DEF Idle
    <3>2. QED
      BY <1>1, <3>1 DEF CallOK
  <2>3. c.op # "append"
    BY <1>1, <2>1 DEF CallOK, AppendOK
  <2>4. c.op \in Ops
    BY <1>1 DEF Txn
  <2>5. QED
    BY <1>1, <2>1, <2>2, <2>3, <2>4 DEF CallOK, Ops
<1>4. CASE c.op = "move"
  <2>1. MoveOK(c) /\ ~One(c, ForUpdate(c.session))
    BY <1>1, <1>4 DEF CallOK, One
  <2>2. /\ c.session \in SessionIds /\ c.group \in GroupIds
        /\ c.wait = <<KeyShare(c.group)>> /\ c.held = {ForUpdate(c.session)}
    BY <1>1, <1>2, <2>1 DEF MoveOK, Moving
  <2>3. m = ForUpdate(c.session)
    BY <2>2
  <2>4. Head(c.wait) = KeyShare(c.group)
    BY <2>2, NoLock
  <2>5. QED
    BY <2>2, <2>3, <2>4
<1>5. CASE c.op = "create session"
  <2>1. CreateOK(c) /\ Inserting(c)
    BY <1>1, <1>5 DEF CallOK, CreateOK
  <2>2. /\ c.wait = <<KeyShare(c.session)>> /\ c.session # None
        /\ c.group \in GroupIds /\ c.held = {KeyShare(c.group)}
    BY <1>1, <2>1 DEF Inserting
  <2>3. c.session \in SessionIds
    BY <1>2, <2>1, <2>2 DEF CreateOK
  <2>4. m = KeyShare(c.group)
    BY <2>2, NoLock
  <2>5. Head(c.wait) = KeyShare(c.session)
    BY <2>2, NoLock
  <2>6. QED
    BY <2>2, <2>3, <2>4, <2>5
<1>6. QED
  BY <1>3, <1>4, <1>5

\* Whatever the number of connections, a set of calls that all wait for each other
\* has a delete_group in it.
THEOREM DeadlocksNeedDelete == PgSpec => []DeadlockNeedsDelete
<1>1. PgInv => DeadlockNeedsDelete
  <2> SUFFICES ASSUME PgInv, NEW D \in SUBSET Txns, D # {},
                      \A t \in D : \E u \in D : BlockedBy(t, u),
                      \A t \in D : txns[t].op # "delete group"
               PROVE  FALSE
    BY DEF DeadlockNeedsDelete
  <2>1. \A t \in D : txns[t].wait # << >>
    BY DEF BlockedBy
  \* Nobody in D waits for a group: only a delete_group holds one exclusively.
  <2>2. ASSUME NEW t \in D, NEW g \in GroupIds, Head(txns[t].wait) = KeyShare(g)
        PROVE  FALSE
    <3>1a. PICK u \in D : \E m \in txns[u].held : Conflicts(KeyShare(g), m)
      BY <2>2 DEF BlockedBy
    <3>1. PICK m \in txns[u].held : Conflicts(KeyShare(g), m)
      BY <3>1a
    <3>2. m.row = g /\ m.mode = "update"
      BY <3>1, LockTypes DEF Conflicts
    <3>3. \/ \E s \in SessionIds : m = ForUpdate(s)
          \/ \E h \in GroupIds : m = KeyShare(h)
      BY <2>1, WaitingHolders
    <3>4. \A h : m # KeyShare(h)
      BY <3>2, LockTypes
    <3>5. \A s \in SessionIds : m # ForUpdate(s)
      <4> SUFFICES ASSUME NEW s \in SessionIds, m = ForUpdate(s)
                   PROVE  FALSE
        OBVIOUS
      <4>1. m.row = s
        BY LockTypes
      <4>2. QED
        BY <3>2, <4>1, PgAssumption
    <3>6. QED
      BY <3>3, <3>4, <3>5
  \* So nobody holds a session exclusively while it waits: moves wait for groups.
  <2>3. ASSUME NEW t \in D, NEW s \in SessionIds, Head(txns[t].wait) = KeyShare(s)
        PROVE  FALSE
    <3>1a. PICK u \in D : \E m \in txns[u].held : Conflicts(KeyShare(s), m)
      BY <2>3 DEF BlockedBy
    <3>1. PICK m \in txns[u].held : Conflicts(KeyShare(s), m)
      BY <3>1a
    <3>2. m.row = s /\ m.mode = "update"
      BY <3>1, LockTypes DEF Conflicts
    <3>3. \A g : m # KeyShare(g)
      BY <3>2, LockTypes
    <3>4. \E g \in GroupIds : Head(txns[u].wait) = KeyShare(g)
      BY <2>1, <3>3, WaitingHolders
    <3>5. QED
      BY <2>2, <3>4
  <2>4. PICK t \in D : TRUE
    OBVIOUS
  <2>5a. PICK u \in D : \E m \in txns[u].held : Conflicts(Head(txns[t].wait), m)
    BY DEF BlockedBy
  <2>5. PICK m \in txns[u].held : Conflicts(Head(txns[t].wait), m)
    BY <2>5a
  <2>6. \/ \E g \in GroupIds : Head(txns[u].wait) = KeyShare(g)
        \/ \E s \in SessionIds : Head(txns[u].wait) = KeyShare(s)
    BY <2>1, WaitingHolders
  <2>7. QED
    BY <2>2, <2>3, <2>6
<1>2. QED
  BY <1>1, PgInvariant, PTL

-----------------------------------------------------------------------------
(* The refinement: commits are the steps of SessionStore, the rest is hidden *)

seqs == [s \in DOMAIN events |-> NextSeq(events[s])]

LEMMA Hidden ==
  ASSUME UNCHANGED tables
  PROVE  UNCHANGED Store!storeVars
BY DEF tables, Store!storeVars

LEMMA DeleteRefines ==
  ASSUME PgInv, NEW t \in Txns, CommitDelete(t)
  PROVE  Store!Next
<1> DEFINE g == txns[t].group
<1>1. g \in GroupIds /\ Store!Present(g)
  BY CommitDeleteFacts
<1>2. sessions' = [s \in DOMAIN sessions |->
                     IF sessions[s].group = g THEN [sessions[s] EXCEPT !.group = None]
                                              ELSE sessions[s]]
  BY CommitDeleteFacts DEF Members
<1>3. Store!DeleteGroup(g)
  BY <1>1, <1>2 DEF CommitDelete, Store!DeleteGroup
<1>4. QED
  BY <1>1, <1>3 DEF Store!Next, Store!GroupOps

LEMMA MoveRefines ==
  ASSUME PgInv, NEW t \in Txns, CommitMove(t)
  PROVE  Store!Next \/ UNCHANGED Store!storeVars
<1> DEFINE s == txns[t].session
           g == txns[t].group
<1>1. Store!UpdateSessionGroup(s, g)
  BY CommitMoveFacts DEF CommitMove, Store!UpdateSessionGroup
<1>2. s \in SessionIds /\ s \in DOMAIN sessions /\ g \in GroupIds \cup {None}
  BY CommitMoveFacts DEF PgInv, TablesOK
<1>3. CASE GroupIds # {}
  <2>1. \E h \in GroupIds : g \in {h, None}
    BY <1>2, <1>3
  <2>2. QED
    BY <1>1, <1>2, <2>1 DEF Store!Next, Store!GroupOps
<1>4. CASE GroupIds = {}
  <2>1. g = None
    BY <1>2, <1>4
  <2>2. sessions[s] \in Store!SessionRow
    BY <1>2 DEF PgInv, TablesOK
  <2>3. sessions[s].group = None
    BY <1>4, <2>2 DEF Store!SessionRow
  <2>4. [sessions[s] EXCEPT !.group = None] = sessions[s]
    BY <2>2, <2>3 DEF Store!SessionRow
  <2>5. sessions' = [sessions EXCEPT ![s] = sessions[s]]
    BY <2>1, <2>4 DEF CommitMove
  <2>6. sessions' = sessions
    BY <1>2, <2>5 DEF PgInv, TablesOK
  <2>7. QED
    BY <2>6 DEF CommitMove, Store!storeVars
<1>5. QED
  BY <1>3, <1>4

LEMMA SessionRefines ==
  ASSUME PgInv, NEW t \in Txns, NEW s \in SessionIds, CommitSession(t, s)
  PROVE  Store!Next
<1> DEFINE c == txns[t]
<1>1. CreateOK(c) /\ Inserting(c) /\ c \in Txn
  BY CommitSessionFacts
<1>2. /\ s \notin DOMAIN sessions /\ DOMAIN events = DOMAIN sessions
      /\ c.group # None => Store!Present(c.group)
  BY CommitSessionFacts DEF PgInv, TablesOK
<1>3. seqs' = Store!Insert(seqs, s, 0)
  <2>1. events' = Store!Insert(events, s, << >>)
    BY DEF CommitSession
  <2>2. /\ DOMAIN events' = DOMAIN events \cup {s} /\ events'[s] = << >>
        /\ \A r \in DOMAIN events : events'[r] = events[r]
    BY <1>2, <2>1 DEF Store!Insert
  <2>3. NextSeq(<< >>) = 0
    BY DEF NextSeq
  <2>4. seqs' = [r \in DOMAIN events \cup {s} |-> NextSeq(events'[r])]
    BY <2>2 DEF seqs
  <2>5. DOMAIN seqs = DOMAIN events /\ \A r \in DOMAIN events : seqs[r] = NextSeq(events[r])
    BY DEF seqs
  <2>6. QED
    BY <1>2, <2>2, <2>3, <2>4, <2>5 DEF Store!Insert
<1>4. Store!InheritedBackend(c.session, c.backend) = c.backend
  BY <1>1 DEF Inserting, Store!InheritedBackend
<1>5. Store!CreateSession(s, c.group, c.session, c.version, c.from, c.value, c.backend)
  <2>1. c.session # None => c.session \in DOMAIN sessions
    BY <1>1 DEF CreateOK
  <2>2. Store!ForkPointOK(c.session, c.version, c.from)
    BY <1>1 DEF CreateOK, Store!ForkPointOK
  <2>3. QED
    BY <1>2, <1>3, <1>4, <2>1, <2>2 DEF CommitSession, Store!CreateSession, seqs
<1>6. /\ c.value \in Titles /\ c.group \in GroupIds \cup {None}
      /\ c.backend \in Backends \cup {None}
  BY <1>1 DEF CreateOK, Txn
<1>7. CASE c.session = None /\ c.version = None /\ c.from = None
  <2>1. Store!CreateRoot(s, c.group, c.value, c.backend)
    BY <1>5, <1>7 DEF Store!CreateRoot
  <2>2. QED
    BY <1>6, <2>1 DEF Store!Next, Store!SessionOps
<1>8. CASE /\ c.session \in DOMAIN sessions /\ c.version \in VersionIds
           /\ c.from \in 0..MaxSeq
  <2>1. c.session \in SessionIds
    BY <1>8 DEF PgInv, TablesOK
  <2>2. c.session # None /\ c.version # None /\ c.from # None
    BY <1>8, <2>1, PgAssumption
  <2>3. Store!CreateFork(s, c.group, c.session, c.version, c.from, c.value, c.backend)
    BY <1>5, <2>2 DEF Store!CreateFork
  <2>4. QED
    BY <1>6, <1>8, <2>1, <2>3 DEF Store!Next, Store!SessionOps
<1>9. QED
  BY <1>1, <1>7, <1>8 DEF CreateOK

LEMMA ColumnRefines ==
  ASSUME PgInv, NEW t \in Txns, CommitStatus(t) \/ CommitTitle(t)
  PROVE  Store!Next
<1> DEFINE c == txns[t]
<1>1. /\ c.session \in DOMAIN sessions /\ c.session \in SessionIds
      /\ sessions[c.session].title \in Titles
  <2>1. c.session \in DOMAIN sessions
    BY DEF PgInv, CallOK, CommitStatus, CommitTitle, At
  <2>2. QED
    BY <2>1 DEF PgInv, TablesOK, Store!SessionRow
<1>2. CASE CommitStatus(t)
  <2>1. c.value \in Statuses
    BY <1>2 DEF PgInv, CallOK, CommitStatus, At
  <2>2. Store!UpdateSessionStatus(c.session, c.value)
    BY <1>1, <1>2 DEF CommitStatus, Store!UpdateSessionStatus
  <2>3. QED
    BY <1>1, <2>1, <2>2 DEF Store!Next, Store!SessionOps
<1>3. CASE CommitTitle(t)
  <2>1. c.value \in Titles
    BY <1>3 DEF PgInv, CallOK, CommitTitle, At
  <2>2. Store!UpdateSessionTitle(c.session, c.value)
    BY <1>1, <1>3 DEF CommitTitle, Store!UpdateSessionTitle
  <2>3. QED
    BY <1>1, <2>1, <2>2 DEF Store!Next, Store!SessionOps
<1>4. QED
  BY <1>2, <1>3

LEMMA EventRefines ==
  ASSUME PgInv, NEW t \in Txns, CommitEvent(t)
  PROVE  Store!Next
<1> DEFINE c == txns[t]
           s == c.session
           row == [seq |-> c.from, kind |-> c.value]
<1>1. /\ s \in DOMAIN sessions /\ s \in SessionIds /\ c.value \in Kinds
      /\ events[s] \in Seq(Store!EventRow) /\ row \in Store!EventRow
      /\ c.from = Len(events[s]) /\ c.from <= MaxSeq
      /\ DOMAIN events = DOMAIN sessions
  BY CommitEventFacts DEF PgInv, TablesOK
<1>2. events' = [events EXCEPT ![s] = Append(@, row)]
  BY DEF CommitEvent
<1>3. NextSeq(events[s]) = c.from
  BY <1>1, NextSeqIsLen DEF PgInv, LogShape
<1>4. NextSeq(Append(events[s], row)) = c.from + 1
  <2>1. /\ Append(events[s], row) \in Seq(Store!EventRow)
        /\ Len(Append(events[s], row)) = c.from + 1
        /\ \A i \in 1..Len(Append(events[s], row)) : Append(events[s], row)[i].seq = i - 1
    BY <1>1 DEF PgInv, LogShape
  <2>2. QED
    BY <2>1, NextSeqIsLen
<1>5. seqs' = [seqs EXCEPT ![s] = seqs[s] + 1] /\ seqs[s] = c.from
  <2>1. /\ DOMAIN events' = DOMAIN events /\ events'[s] = Append(events[s], row)
        /\ \A r \in DOMAIN events : r # s => events'[r] = events[r]
    BY <1>1, <1>2
  <2>2. seqs[s] = c.from
    BY <1>1, <1>3 DEF seqs
  <2>3. QED
    BY <1>1, <1>4, <2>1, <2>2 DEF seqs
<1>6. Store!AppendEvent(s, c.value)
  BY <1>1, <1>2, <1>5 DEF CommitEvent, Store!AppendEvent, seqs
<1>7. QED
  BY <1>1, <1>6 DEF Store!Next, Store!LogOps

LEMMA RowRefines ==
  ASSUME PgInv, NEW t \in Txns,
         \/ \E v \in VersionIds : CommitVersion(t, v)
         \/ \E q \in QueryIds : CommitQuery(t, q)
  PROVE  Store!Next
<1> DEFINE c == txns[t]
<1>1. ASSUME NEW v \in VersionIds, CommitVersion(t, v)
      PROVE  Store!Next
  <2>1. /\ c.session \in DOMAIN sessions /\ c.from \in 0..MaxSeq /\ c.to \in 0..MaxSeq
        /\ c.from <= c.to
    BY <1>1 DEF PgInv, CallOK, CommitVersion, At
  <2>2. Store!CreateVersion(v, c.session, c.from, c.to)
    BY <1>1, <2>1 DEF CommitVersion, Store!CreateVersion
  <2>3. c.session \in SessionIds
    BY <2>1 DEF PgInv, TablesOK
  <2>4. QED
    BY <2>1, <2>2, <2>3 DEF Store!Next, Store!LogOps
<1>2. ASSUME NEW q \in QueryIds, CommitQuery(t, q)
      PROVE  Store!Next
  <2>1. c.session \in DOMAIN sessions /\ c.version \in DOMAIN versions
    BY <1>2 DEF PgInv, CallOK, CommitQuery, At
  <2>2. Store!CreateSnapshotQuery(q, c.session, c.version)
    BY <1>2, <2>1 DEF CommitQuery, Store!CreateSnapshotQuery
  <2>3. c.session \in SessionIds /\ c.version \in VersionIds
    BY <2>1 DEF PgInv, TablesOK
  <2>4. QED
    BY <2>2, <2>3 DEF Store!Next, Store!LogOps
<1>3. QED
  BY <1>1, <1>2

LEMMA StepRefines ==
  ASSUME PgInv, [PgNext]_pgVars
  PROVE  Store!Next \/ UNCHANGED Store!storeVars
<1>1. ASSUME NEW g \in GroupIds, CreateGroup(g)
      PROVE  Store!Next
  BY <1>1 DEF CreateGroup, Store!Next, Store!GroupOps
<1>2. ASSUME NEW t \in Txns, TakeLock(t) \/ Rollback(t)
      PROVE  UNCHANGED tables
  BY <1>2 DEF TakeLock, Rollback
<1>3. ASSUME NEW t \in Txns, GroupCalls(t)
      PROVE  Store!Next \/ UNCHANGED Store!storeVars
  <2>1. UNCHANGED tables \/ CommitDelete(t) \/ CommitMove(t)
    BY <1>3 DEF GroupCalls, UpdateGroup, DeleteGroup, MoveSession, Begin, CommitUpdateGroup,
                DetachMembers, WriteGroup
  <2>2. QED
    BY <2>1, Hidden, DeleteRefines, MoveRefines
<1>4. ASSUME NEW t \in Txns, SessionCalls(t)
      PROVE  Store!Next \/ UNCHANGED Store!storeVars
  <2>1. \/ UNCHANGED tables \/ CommitStatus(t) \/ CommitTitle(t)
        \/ \E s \in SessionIds : CommitSession(t, s)
    BY <1>4 DEF SessionCalls, CreateSession, UpdateSession, Begin, InsertSession
  <2>2. QED
    BY <2>1, Hidden, SessionRefines, ColumnRefines
<1>5. ASSUME NEW t \in Txns, LogCalls(t)
      PROVE  Store!Next \/ UNCHANGED Store!storeVars
  <2>1. \/ UNCHANGED tables \/ CommitEvent(t)
        \/ \E v \in VersionIds : CommitVersion(t, v)
        \/ \E q \in QueryIds : CommitQuery(t, q)
    BY <1>5 DEF LogCalls, AppendEvent, CreateVersion, CreateSnapshotQuery, Begin, ReadNextSeq
  <2>2. QED
    BY <2>1, Hidden, EventRefines, RowRefines
<1>6. CASE UNCHANGED pgVars
  BY <1>6, Hidden DEF pgVars
<1>7. QED
  BY <1>1, <1>2, <1>3, <1>4, <1>5, <1>6, Hidden DEF PgNext

\* Seen through its commits, AsyncpgStore is the store that SessionStore specifies.
THEOREM PgImplementsStore == PgSpec => ImplementsStore
<1>1. PgInit => Store!Init
  BY DEF PgInit
<1>2. PgInv /\ [PgNext]_pgVars => [Store!Next]_(Store!storeVars)
  BY StepRefines
<1>3. QED
  BY <1>1, <1>2, PgInvariant, PTL DEF PgSpec, ImplementsStore, Store!Spec

-----------------------------------------------------------------------------
(* The rows themselves.  The prover cannot carry a theorem of SessionStore *)
(* over the substitution for nextSeq, so the lineage is followed through   *)
(* the commits: four of them rewrite a row, one adds a session, one adds a *)
(* version.                                                                *)

RowLineage(s) == /\ sessions'[s].parent = sessions[s].parent
                 /\ sessions'[s].version = sessions[s].version
                 /\ sessions'[s].forkSeq = sessions[s].forkSeq
                 /\ sessions'[s].backend = sessions[s].backend

ParentsPresent ==
  \A s \in DOMAIN sessions : sessions[s].parent \in DOMAIN sessions \cup {None}

PgLineage == /\ ParentsPresent
             /\ Store!ForkDagWellFounded
             /\ Store!ForkPointInVersion
             /\ Store!PinnedForksStayPinned

\* No commit takes a session or a version away, or changes what one descends from.
RewritesRows == DOMAIN sessions' = DOMAIN sessions /\ \A s \in DOMAIN sessions : RowLineage(s)

KeepsVersions ==
  DOMAIN versions \subseteq DOMAIN versions' /\ \A v \in DOMAIN versions : versions'[v] = versions[v]

LEMMA CommitsRewriteRows ==
  ASSUME PgInv, NEW t \in Txns,
         CommitDelete(t) \/ CommitMove(t) \/ CommitStatus(t) \/ CommitTitle(t)
  PROVE  RewritesRows
<1>0. \A s \in DOMAIN sessions : sessions[s] \in Store!SessionRow
  BY DEF PgInv, TablesOK
<1>1. CASE CommitDelete(t)
  BY <1>0, <1>1 DEF CommitDelete, RewritesRows, RowLineage, Store!SessionRow
<1>2. CASE CommitMove(t)
  BY <1>0, <1>2 DEF CommitMove, RewritesRows, RowLineage, Store!SessionRow
<1>3. CASE CommitStatus(t)
  BY <1>0, <1>3 DEF CommitStatus, RewritesRows, RowLineage, Store!SessionRow
<1>4. CASE CommitTitle(t)
  BY <1>0, <1>4 DEF CommitTitle, RewritesRows, RowLineage, Store!SessionRow
<1>5. QED
  BY <1>1, <1>2, <1>3, <1>4

\* What a step does to the tables of sessions and versions.
LEMMA StepRows ==
  ASSUME PgInv, [PgNext]_pgVars
  PROVE  \/ RewritesRows /\ KeepsVersions
         \/ \E t \in Txns, s \in SessionIds : CommitSession(t, s)
<1>0. UNCHANGED <<sessions, versions>> => RewritesRows /\ KeepsVersions
  BY DEF RewritesRows, RowLineage, KeepsVersions
<1>1. ASSUME NEW t \in Txns,
             CommitDelete(t) \/ CommitMove(t) \/ CommitStatus(t) \/ CommitTitle(t)
      PROVE  RewritesRows /\ KeepsVersions
  <2>1. UNCHANGED versions
    BY <1>1 DEF CommitDelete, CommitMove, CommitStatus, CommitTitle
  <2>2. QED
    BY <1>1, <2>1, CommitsRewriteRows DEF KeepsVersions
<1>2. ASSUME NEW t \in Txns, NEW v \in VersionIds, CommitVersion(t, v)
      PROVE  RewritesRows /\ KeepsVersions
  <2>1. v \notin DOMAIN versions /\ UNCHANGED sessions
    BY <1>2 DEF CommitVersion, Store!NewId
  <2>2. KeepsVersions
    BY <1>2, <2>1 DEF CommitVersion, Store!Insert, KeepsVersions
  <2>3. QED
    BY <2>1, <2>2 DEF RewritesRows, RowLineage
<1>3. ASSUME NEW t \in Txns, GroupCalls(t)
      PROVE  RewritesRows /\ KeepsVersions
  <2>1. UNCHANGED tables \/ CommitDelete(t) \/ CommitMove(t)
    BY <1>3 DEF GroupCalls, UpdateGroup, DeleteGroup, MoveSession, Begin, CommitUpdateGroup,
                DetachMembers, WriteGroup
  <2>2. QED
    BY <1>0, <1>1, <2>1 DEF tables
<1>4. ASSUME NEW t \in Txns, SessionCalls(t)
      PROVE  \/ RewritesRows /\ KeepsVersions
             \/ \E s \in SessionIds : CommitSession(t, s)
  <2>1. \/ UNCHANGED tables \/ CommitStatus(t) \/ CommitTitle(t)
        \/ \E s \in SessionIds : CommitSession(t, s)
    BY <1>4 DEF SessionCalls, CreateSession, UpdateSession, Begin, InsertSession
  <2>2. QED
    BY <1>0, <1>1, <2>1 DEF tables
<1>5. ASSUME NEW t \in Txns, LogCalls(t)
      PROVE  RewritesRows /\ KeepsVersions
  <2>1. UNCHANGED <<sessions, versions>> \/ \E v \in VersionIds : CommitVersion(t, v)
    BY <1>5 DEF LogCalls, AppendEvent, CreateVersion, CreateSnapshotQuery, Begin, ReadNextSeq,
                CommitEvent, CommitQuery, tables
  <2>2. QED
    BY <1>0, <1>2, <2>1
<1>6. ASSUME NEW t \in Txns, TakeLock(t) \/ Rollback(t)
      PROVE  UNCHANGED <<sessions, versions>>
  BY <1>6 DEF TakeLock, Rollback, tables
<1>7. ASSUME NEW g \in GroupIds, CreateGroup(g)
      PROVE  UNCHANGED <<sessions, versions>>
  BY <1>7 DEF CreateGroup, Store!CreateGroup
<1>8. CASE UNCHANGED pgVars
  BY <1>0, <1>8 DEF pgVars, tables
<1>9. QED
  BY <1>0, <1>3, <1>4, <1>5, <1>6, <1>7, <1>8 DEF PgNext

LEMMA RewriteLineage ==
  ASSUME PgInv, PgLineage, RewritesRows, KeepsVersions
  PROVE  PgLineage'
<1>0. \A s \in DOMAIN sessions : sessions[s].parent \in DOMAIN sessions \cup {None}
  BY DEF PgLineage, ParentsPresent
<1>1. ParentsPresent'
  BY <1>0 DEF ParentsPresent, RewritesRows, RowLineage
<1>2. Store!ForkDagWellFounded'
  BY DEF PgLineage, Store!ForkDagWellFounded, RewritesRows, RowLineage
<1>3. Store!ForkPointInVersion'
  BY DEF PgLineage, Store!ForkPointInVersion, RewritesRows, RowLineage, KeepsVersions
<1>4. Store!PinnedForksStayPinned'
  BY <1>0 DEF PgLineage, Store!PinnedForksStayPinned, RewritesRows, RowLineage
<1>5. QED
  BY <1>1, <1>2, <1>3, <1>4 DEF PgLineage

\* A new session is nobody's parent yet, and what the checks found on other connections
\* still holds when it is inserted.
LEMMA InsertLineage ==
  ASSUME PgInv, PgLineage, NEW t \in Txns, NEW s \in SessionIds, CommitSession(t, s)
  PROVE  PgLineage'
<1> DEFINE c == txns[t]
           p == c.session
<1>1. /\ s \notin DOMAIN sessions /\ UNCHANGED versions
      /\ DOMAIN sessions' = DOMAIN sessions \cup {s}
      /\ \A x \in DOMAIN sessions : sessions'[x] = sessions[x]
      /\ sessions'[s].parent = p /\ sessions'[s].version = c.version
      /\ sessions'[s].forkSeq = c.from /\ sessions'[s].backend = c.backend
  BY CommitSessionFacts DEF CommitSession, Store!Insert, NewRow
<1>2. /\ p \in DOMAIN sessions \cup {None}
      /\ p # None /\ c.backend = None => sessions[p].backend = None
      /\ c.version # None => Store!ForkPointOK(p, c.version, c.from) /\ c.from \in Nat
  BY CommitSessionFacts, PgAssumption DEF CreateOK, Inserting
<1>3. None # s /\ None \notin DOMAIN sessions
  BY PgAssumption DEF PgInv, TablesOK
<1>4. \A x \in DOMAIN sessions : sessions[x].parent \in DOMAIN sessions \cup {None}
  BY DEF PgLineage, ParentsPresent
<1> HIDE DEF p, c
<1>5. p # s
  BY <1>1, <1>2, <1>3
<1>6. ParentsPresent'
  BY <1>1, <1>2, <1>4 DEF ParentsPresent
<1>7. Store!ForkDagWellFounded'
  <2> SUFFICES ASSUME NEW S \in SUBSET (DOMAIN sessions \cup {s}), S # {}
               PROVE  \E x \in S : sessions'[x].parent \notin S
    BY <1>1 DEF Store!ForkDagWellFounded
  <2>1. CASE S = {s}
    BY <1>1, <1>5, <2>1
  <2>2. CASE S # {s}
    <3>1. S \ {s} \in SUBSET DOMAIN sessions /\ S \ {s} # {}
      BY <2>2
    <3>2. PICK x \in S \ {s} : sessions[x].parent \notin S \ {s}
      BY <3>1 DEF PgLineage, Store!ForkDagWellFounded
    <3>3. sessions[x].parent # s
      BY <1>1, <1>3, <1>4, <3>1, <3>2
    <3>4. QED
      BY <1>1, <3>1, <3>2, <3>3
  <2>3. QED
    BY <2>1, <2>2
<1>8. Store!ForkPointInVersion'
  <2> SUFFICES ASSUME NEW x \in DOMAIN sessions \cup {s}, sessions'[x].version # None
               PROVE  /\ sessions'[x].version \in DOMAIN versions
                      /\ versions[sessions'[x].version].session = sessions'[x].parent
                      /\ sessions'[x].forkSeq \in versions[sessions'[x].version].start ..
                                                  versions[sessions'[x].version].end
    BY <1>1 DEF Store!ForkPointInVersion
  <2>1. CASE x \in DOMAIN sessions
    BY <1>1, <2>1 DEF PgLineage, Store!ForkPointInVersion
  <2>2. CASE x = s
    <3>1. /\ c.version \in DOMAIN versions /\ versions[c.version].session = p
          /\ versions[c.version].start <= c.from /\ c.from <= versions[c.version].end
          /\ c.from \in Nat
      BY <1>1, <1>2, <2>2 DEF Store!ForkPointOK
    <3>2. versions[c.version].start \in Nat /\ versions[c.version].end \in Nat
      BY <3>1 DEF PgInv, TablesOK, Store!VersionRow
    <3>3. QED
      BY <1>1, <2>2, <3>1, <3>2
  <2>3. QED
    BY <2>1, <2>2
<1>9. Store!PinnedForksStayPinned'
  <2> SUFFICES ASSUME NEW x \in DOMAIN sessions \cup {s}, sessions'[x].parent # None,
                      sessions'[sessions'[x].parent].backend # None
               PROVE  sessions'[x].backend # None
    BY <1>1 DEF Store!PinnedForksStayPinned
  <2>1. CASE x \in DOMAIN sessions
    BY <1>1, <1>4, <2>1 DEF PgLineage, Store!PinnedForksStayPinned
  <2>2. CASE x = s
    BY <1>1, <1>2, <1>5, <2>2
  <2>3. QED
    BY <2>1, <2>2
<1>10. QED
  BY <1>6, <1>7, <1>8, <1>9 DEF PgLineage

\* In the database, however transactions interleave and roll back: no cycle of parent links,
\* no fork outside a version of its parent, no unpinned fork of a pinned session.
THEOREM PgKeepsLineage ==
  PgSpec => [](Store!ForkDagWellFounded /\ Store!ForkPointInVersion /\ Store!PinnedForksStayPinned)
<1>1. PgInit => PgLineage
  BY DEF PgInit, Store!Init, PgLineage, ParentsPresent, Store!ForkDagWellFounded,
         Store!ForkPointInVersion, Store!PinnedForksStayPinned
<1>2. PgInv /\ PgLineage /\ [PgNext]_pgVars => PgLineage'
  BY StepRows, RewriteLineage, InsertLineage
<1>3. PgLineage => Store!ForkDagWellFounded /\ Store!ForkPointInVersion /\ Store!PinnedForksStayPinned
  BY DEF PgLineage
<1>4. QED
  BY <1>1, <1>2, <1>3, PgInvariant, PTL DEF PgSpec

\* No interleaving leaves a hole in a log or a reference to a group that is gone.
THEOREM PgKeepsRows == PgSpec => [](Store!LogGapless /\ Store!GroupRefsPresent)
<1>1. PgInv => Store!LogGapless /\ Store!GroupRefsPresent
  <2> SUFFICES ASSUME PgInv PROVE Store!LogGapless /\ Store!GroupRefsPresent
    OBVIOUS
  <2>1. \A s \in DOMAIN sessions : NextSeq(events[s]) = Len(events[s])
    BY NextSeqIsLen DEF PgInv, TablesOK, LogShape
  <2>2. DOMAIN events = DOMAIN sessions
    BY DEF PgInv, TablesOK
  <2>3. QED
    BY <2>1, <2>2 DEF PgInv, LogShape, GroupRefs, Store!LogGapless, Store!GroupRefsPresent
<1>2. QED
  BY <1>1, PgInvariant, PTL

\* A commit never changes where a session was forked from or what it is pinned to, and
\* never takes a session or a version away.
THEOREM PgLineageImmutable ==
  PgSpec => [][/\ \A s \in DOMAIN sessions : s \in DOMAIN sessions' /\ RowLineage(s)
               /\ KeepsVersions]_pgVars
<1>1. PgInv /\ [PgNext]_pgVars
        => [/\ \A s \in DOMAIN sessions : s \in DOMAIN sessions' /\ RowLineage(s)
            /\ KeepsVersions]_pgVars
  <2>1. ASSUME NEW t \in Txns, NEW s \in SessionIds, PgInv, CommitSession(t, s)
        PROVE  /\ \A x \in DOMAIN sessions : x \in DOMAIN sessions' /\ RowLineage(x)
               /\ KeepsVersions
    BY <2>1, CommitSessionFacts DEF CommitSession, Store!Insert, RowLineage, KeepsVersions
  <2>2. QED
    BY <2>1, StepRows DEF RewritesRows
<1>2. QED
  BY <1>1, PgInvariant, PTL DEF PgSpec

=============================================================================
