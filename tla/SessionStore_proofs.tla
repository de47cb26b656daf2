------------------------- MODULE SessionStore_proofs -------------------------
(* Proofs about SessionStore for every supply of ids and every bound.      *)
EXTENDS SessionStore, WellFoundedInduction, TLAPS

USE DEF NewId

\* Induction over numbers is done with the smallest counterexample.
LEMMA Smallest ==
  ASSUME NEW T \in SUBSET Nat, T # {}
  PROVE  \E m \in T : \A x \in T : m <= x
<1> DEFINE less == {p \in Nat \X Nat : p[1] < p[2]}
<1>1. IsWellFoundedOn(less, Nat)
  BY NatLessThanWellFounded DEF OpToRel
<1> HIDE DEF less
<1>2. PICK m \in T : \A x \in T : <<x, m>> \notin less
  BY <1>1, WFMin
<1>3. \A x \in T : ~(x < m)
  BY <1>2 DEF less
<1>4. QED
  BY <1>3

-----------------------------------------------------------------------------
(* Type correctness *)

\* A row stays a row when one of its mutable columns is set.
LEMMA RowUpdateType ==
  ASSUME NEW row \in SessionRow
  PROVE  /\ \A g \in GroupIds \cup {None} : [row EXCEPT !.group = g] \in SessionRow
         /\ \A t \in Titles : [row EXCEPT !.title = t] \in SessionRow
         /\ \A status \in Statuses : [row EXCEPT !.status = status] \in SessionRow
BY DEF SessionRow

\* Replacing one row by a row leaves a table of rows.
LEMMA TableUpdateType ==
  ASSUME NEW s \in DOMAIN sessions, NEW row \in SessionRow,
         sessions \in [DOMAIN sessions -> SessionRow]
  PROVE  [sessions EXCEPT ![s] = row] \in [DOMAIN sessions -> SessionRow]
OBVIOUS

LEMMA CreateSessionType ==
  ASSUME TypeOK,
         NEW s \in SessionIds, NEW g \in GroupIds \cup {None},
         NEW p \in SessionIds \cup {None}, NEW v \in VersionIds \cup {None},
         NEW n \in Nat \cup {None}, NEW t \in Titles, NEW b \in Backends \cup {None},
         CreateSession(s, g, p, v, n, t, b)
  PROVE  TypeOK'
<1> DEFINE row == [group   |-> g, title |-> t, parent |-> p, version |-> v,
                   forkSeq |-> n, status |-> "active",
                   backend |-> InheritedBackend(p, b)]
<1>1. InheritedBackend(p, b) \in Backends \cup {None}
  BY StoreAssumption DEF InheritedBackend, CreateSession, TypeOK, SessionRow
<1>2. row \in SessionRow
  BY <1>1, StoreAssumption DEF SessionRow
<1> HIDE DEF row
<1>3. sessions' = Insert(sessions, s, row)
  BY DEF CreateSession, row
<1>4. /\ DOMAIN sessions' \subseteq SessionIds
      /\ sessions' \in [DOMAIN sessions' -> SessionRow]
  BY <1>2, <1>3 DEF TypeOK, Insert
<1>5. events' \in [DOMAIN sessions' -> Seq(EventRow)]
  BY <1>3 DEF TypeOK, Insert, CreateSession
<1>6. nextSeq' \in [DOMAIN sessions' -> Nat]
  BY <1>3 DEF TypeOK, Insert, CreateSession
<1>7. QED
  BY <1>4, <1>5, <1>6 DEF TypeOK, CreateSession

LEMMA GroupOpsType == TypeOK /\ GroupOps => TypeOK'
<1> SUFFICES ASSUME TypeOK, NEW g \in GroupIds,
                    \/ CreateGroup(g)
                    \/ DeleteGroup(g)
                    \/ \E s \in SessionIds, to \in {g, None} : UpdateSessionGroup(s, to)
             PROVE  TypeOK'
  BY DEF GroupOps
<1>1. CASE CreateGroup(g)
  BY <1>1 DEF TypeOK, CreateGroup
<1>2. CASE DeleteGroup(g)
  <2>1. sessions' \in [DOMAIN sessions -> SessionRow]
    <3>1. \A s \in DOMAIN sessions : [sessions[s] EXCEPT !.group = None] \in SessionRow
      BY RowUpdateType DEF TypeOK
    <3>2. QED
      BY <1>2, <3>1 DEF TypeOK, DeleteGroup
  <2>2. QED
    BY <1>2, <2>1 DEF TypeOK, DeleteGroup
<1>3. ASSUME NEW s \in SessionIds, NEW to \in {g, None}, UpdateSessionGroup(s, to)
      PROVE  TypeOK'
  <2> DEFINE row == [sessions[s] EXCEPT !.group = to]
  <2>a. s \in DOMAIN sessions /\ sessions' = [sessions EXCEPT ![s] = row]
    BY <1>3 DEF UpdateSessionGroup
  <2>b. row \in SessionRow
    BY <2>a, RowUpdateType DEF TypeOK
  <2>1. sessions' \in [DOMAIN sessions -> SessionRow]
    BY <2>a, <2>b, TableUpdateType DEF TypeOK
  <2>2. QED
    BY <1>3, <2>1 DEF TypeOK, UpdateSessionGroup
<1>4. QED
  BY <1>1, <1>2, <1>3

LEMMA SessionOpsType == TypeOK /\ SessionOps => TypeOK'
<1> SUFFICES ASSUME TypeOK, NEW s \in SessionIds, NEW t \in Titles,
                    \/ UpdateSessionTitle(s, t)
                    \/ \E status \in Statuses : UpdateSessionStatus(s, status)
                    \/ \E g \in GroupIds \cup {None}, b \in Backends \cup {None} :
                         \/ CreateRoot(s, g, t, b)
                         \/ \E p \in SessionIds, v \in VersionIds, n \in 0..MaxSeq :
                              CreateFork(s, g, p, v, n, t, b)
             PROVE  TypeOK'
  BY DEF SessionOps
<1>1. CASE UpdateSessionTitle(s, t)
  <2> DEFINE row == [sessions[s] EXCEPT !.title = t]
  <2>a. s \in DOMAIN sessions /\ sessions' = [sessions EXCEPT ![s] = row]
    BY <1>1 DEF UpdateSessionTitle
  <2>b. row \in SessionRow
    BY <2>a, RowUpdateType DEF TypeOK
  <2>1. sessions' \in [DOMAIN sessions -> SessionRow]
    BY <2>a, <2>b, TableUpdateType DEF TypeOK
  <2>2. QED
    BY <1>1, <2>1 DEF TypeOK, UpdateSessionTitle
<1>2. ASSUME NEW status \in Statuses, UpdateSessionStatus(s, status)
      PROVE  TypeOK'
  <2> DEFINE row == [sessions[s] EXCEPT !.status = status]
  <2>a. s \in DOMAIN sessions /\ sessions' = [sessions EXCEPT ![s] = row]
    BY <1>2 DEF UpdateSessionStatus
  <2>b. row \in SessionRow
    BY <2>a, RowUpdateType DEF TypeOK
  <2>1. sessions' \in [DOMAIN sessions -> SessionRow]
    BY <2>a, <2>b, TableUpdateType DEF TypeOK
  <2>2. QED
    BY <1>2, <2>1 DEF TypeOK, UpdateSessionStatus
<1>3. ASSUME NEW g \in GroupIds \cup {None}, NEW b \in Backends \cup {None},
             CreateRoot(s, g, t, b)
      PROVE  TypeOK'
  BY <1>3, CreateSessionType DEF CreateRoot
<1>4. ASSUME NEW g \in GroupIds \cup {None}, NEW b \in Backends \cup {None},
             NEW p \in SessionIds, NEW v \in VersionIds, NEW n \in 0..MaxSeq,
             CreateFork(s, g, p, v, n, t, b)
      PROVE  TypeOK'
  <2>1. n \in Nat
    BY StoreAssumption
  <2>2. QED
    BY <1>4, <2>1, CreateSessionType DEF CreateFork
<1>5. QED
  BY <1>1, <1>2, <1>3, <1>4

LEMMA LogOpsType == TypeOK /\ LogOps => TypeOK'
<1> SUFFICES ASSUME TypeOK, NEW s \in SessionIds,
                    \/ \E kind \in Kinds : AppendEvent(s, kind)
                    \/ \E v \in VersionIds, start \in 0..MaxSeq, end \in 0..MaxSeq :
                         CreateVersion(v, s, start, end)
                    \/ \E q \in QueryIds, v \in VersionIds : CreateSnapshotQuery(q, s, v)
             PROVE  TypeOK'
  BY DEF LogOps
<1>1. ASSUME NEW kind \in Kinds, AppendEvent(s, kind)
      PROVE  TypeOK'
  <2>1. [seq |-> nextSeq[s], kind |-> kind] \in EventRow
    BY <1>1 DEF TypeOK, AppendEvent, EventRow
  <2>2. Append(events[s], [seq |-> nextSeq[s], kind |-> kind]) \in Seq(EventRow)
    BY <1>1, <2>1 DEF TypeOK, AppendEvent
  <2>3. events' \in [DOMAIN sessions -> Seq(EventRow)]
    BY <1>1, <2>2 DEF TypeOK, AppendEvent
  <2>4. nextSeq' \in [DOMAIN sessions -> Nat]
    BY <1>1 DEF TypeOK, AppendEvent
  <2>5. QED
    BY <1>1, <2>3, <2>4 DEF TypeOK, AppendEvent
<1>2. ASSUME NEW v \in VersionIds, NEW start \in 0..MaxSeq, NEW end \in 0..MaxSeq,
             CreateVersion(v, s, start, end)
      PROVE  TypeOK'
  <2> DEFINE row == [session |-> s, start |-> start, end |-> end,
                     turnCount |-> end - start + 1]
  <2>1. row \in VersionRow
    BY <1>2, StoreAssumption DEF VersionRow, CreateVersion
  <2> HIDE DEF row
  <2>2. versions' = Insert(versions, v, row)
    BY <1>2 DEF CreateVersion, row
  <2>3. QED
    BY <1>2, <2>1, <2>2 DEF TypeOK, Insert, CreateVersion
<1>3. ASSUME NEW q \in QueryIds, NEW v \in VersionIds, CreateSnapshotQuery(q, s, v)
      PROVE  TypeOK'
  BY <1>3 DEF TypeOK, Insert, CreateSnapshotQuery, QueryRow
<1>4. QED
  BY <1>1, <1>2, <1>3

\* Every reachable state of the store is well typed, for every supply of ids.
THEOREM StoreTypeCorrect == Spec => []TypeOK
<1>1. Init => TypeOK
  BY DEF Init, TypeOK
<1>2. TypeOK /\ [Next]_storeVars => TypeOK'
  <2> SUFFICES ASSUME TypeOK, [Next]_storeVars
               PROVE  TypeOK'
    OBVIOUS
  <2>1. CASE UNCHANGED storeVars
    BY <2>1 DEF TypeOK, storeVars
  <2>2. QED
    BY <2>1, GroupOpsType, SessionOpsType, LogOpsType DEF Next
<1>3. QED
  BY <1>1, <1>2, PTL DEF Spec

-----------------------------------------------------------------------------
(* The fork DAG.  ForkDagWellFounded is inductive only together with the   *)
(* fact that every parent has a row: a fresh session then cannot be        *)
(* anybody's parent yet.                                                   *)

ParentsPresent ==
  \A s \in DOMAIN sessions : sessions[s].parent \in DOMAIN sessions \cup {None}

LineageInv ==
  ParentsPresent /\ ForkDagWellFounded /\ ForkPointInVersion /\ PinnedForksStayPinned

\* What a step that creates no session and no version may change of a row.
KeepsLineage ==
  /\ DOMAIN sessions' = DOMAIN sessions
  /\ versions' = versions
  /\ \A s \in DOMAIN sessions :
       /\ sessions'[s].parent = sessions[s].parent
       /\ sessions'[s].version = sessions[s].version
       /\ sessions'[s].forkSeq = sessions[s].forkSeq
       /\ sessions'[s].backend = sessions[s].backend

LEMMA KeepsLineageInv == TypeOK /\ LineageInv /\ KeepsLineage => LineageInv'
<1> SUFFICES ASSUME TypeOK, LineageInv, KeepsLineage
             PROVE  LineageInv'
  OBVIOUS
<1>0. \A s \in DOMAIN sessions : sessions[s].parent \in DOMAIN sessions \cup {None}
  BY DEF LineageInv, ParentsPresent
<1>1. ParentsPresent'
  BY <1>0 DEF ParentsPresent, KeepsLineage
<1>2. ForkDagWellFounded'
  BY DEF LineageInv, ForkDagWellFounded, KeepsLineage
<1>3. ForkPointInVersion'
  BY DEF LineageInv, ForkPointInVersion, KeepsLineage
<1>4. PinnedForksStayPinned'
  BY <1>0 DEF LineageInv, PinnedForksStayPinned, KeepsLineage
<1>5. QED
  BY <1>1, <1>2, <1>3, <1>4 DEF LineageInv

\* Any set of sessions that contains the new one either is that one alone,
\* whose parent is older, or has an older member that will do.
LEMMA CreateSessionLineage ==
  ASSUME TypeOK, LineageInv,
         NEW s \in SessionIds, NEW g \in GroupIds \cup {None},
         NEW p \in SessionIds \cup {None}, NEW v \in VersionIds \cup {None},
         NEW n \in Nat \cup {None}, NEW t \in Titles, NEW b \in Backends \cup {None},
         CreateSession(s, g, p, v, n, t, b)
  PROVE  LineageInv'
<1>1. /\ s \notin DOMAIN sessions
      /\ DOMAIN sessions' = DOMAIN sessions \cup {s}
      /\ sessions'[s].parent = p
      /\ sessions'[s].version = v
      /\ sessions'[s].forkSeq = n
      /\ sessions'[s].backend = InheritedBackend(p, b)
      /\ \A x \in DOMAIN sessions : sessions'[x] = sessions[x]
      /\ versions' = versions
      /\ p # None => p \in DOMAIN sessions
      /\ ForkPointOK(p, v, n)
  BY DEF CreateSession, Insert
<1>2. p \in DOMAIN sessions \cup {None} /\ p # s
  BY <1>1, StoreAssumption
<1>3. \A x \in DOMAIN sessions : sessions[x].parent \in DOMAIN sessions \cup {None}
  BY DEF LineageInv, ParentsPresent
<1>4. ParentsPresent'
  BY <1>1, <1>2, <1>3 DEF ParentsPresent
<1>5. ForkDagWellFounded'
  <2> SUFFICES ASSUME NEW S \in SUBSET (DOMAIN sessions \cup {s}), S # {}
               PROVE  \E x \in S : sessions'[x].parent \notin S
    BY <1>1 DEF ForkDagWellFounded
  <2> DEFINE old == S \ {s}
  <2>1. CASE old = {}
    BY <2>1, <1>1, <1>2
  <2>2. CASE old # {}
    <3>1. old \in SUBSET DOMAIN sessions
      OBVIOUS
    <3>2. PICK x \in old : sessions[x].parent \notin old
      BY <2>2, <3>1 DEF LineageInv, ForkDagWellFounded
    <3>3. sessions[x].parent # s
      BY <1>1, <1>3, <3>1, <3>2, StoreAssumption
    <3>4. QED
      BY <1>1, <3>1, <3>2, <3>3
  <2>3. QED
    BY <2>1, <2>2
<1>6. ForkPointInVersion'
  <2> SUFFICES ASSUME NEW x \in DOMAIN sessions \cup {s}, sessions'[x].version # None
               PROVE  /\ sessions'[x].version \in DOMAIN versions
                      /\ versions[sessions'[x].version].session = sessions'[x].parent
                      /\ sessions'[x].forkSeq \in versions[sessions'[x].version].start ..
                                                  versions[sessions'[x].version].end
    BY <1>1 DEF ForkPointInVersion
  <2>1. CASE x \in DOMAIN sessions
    BY <2>1, <1>1 DEF LineageInv, ForkPointInVersion
  <2>2. CASE x = s
    <3>1. /\ v \in DOMAIN versions
          /\ versions[v].session = p
          /\ n # None
          /\ versions[v].start <= n
          /\ n <= versions[v].end
      BY <2>2, <1>1 DEF ForkPointOK
    <3>2. versions[v].start \in Nat /\ versions[v].end \in Nat /\ n \in Nat
      BY <3>1 DEF TypeOK, VersionRow
    <3>3. QED
      BY <2>2, <1>1, <3>1, <3>2
  <2>3. QED
    BY <2>1, <2>2
<1>7. PinnedForksStayPinned'
  <2> SUFFICES ASSUME NEW x \in DOMAIN sessions \cup {s},
                      sessions'[x].parent # None,
                      sessions'[sessions'[x].parent].backend # None
               PROVE  sessions'[x].backend # None
    BY <1>1 DEF PinnedForksStayPinned
  <2>1. CASE x \in DOMAIN sessions
    BY <2>1, <1>1, <1>3 DEF LineageInv, PinnedForksStayPinned
  <2>2. CASE x = s
    BY <2>2, <1>1, <1>2 DEF InheritedBackend
  <2>3. QED
    BY <2>1, <2>2
<1>8. QED
  BY <1>4, <1>5, <1>6, <1>7 DEF LineageInv

LEMMA CreateVersionLineage ==
  ASSUME TypeOK, LineageInv, NEW v \in VersionIds, NEW s \in SessionIds,
         NEW start \in Nat, NEW end \in Nat, CreateVersion(v, s, start, end)
  PROVE  LineageInv'
<1>1. /\ sessions' = sessions
      /\ DOMAIN versions' = DOMAIN versions \cup {v}
      /\ \A w \in DOMAIN versions : versions'[w] = versions[w]
  BY DEF CreateVersion, Insert
<1>2. ParentsPresent' /\ ForkDagWellFounded' /\ PinnedForksStayPinned'
  BY <1>1 DEF LineageInv, ParentsPresent, ForkDagWellFounded, PinnedForksStayPinned
<1>3. ForkPointInVersion'
  BY <1>1 DEF LineageInv, ForkPointInVersion
<1>4. QED
  BY <1>2, <1>3 DEF LineageInv

LEMMA RowUpdatesKeepLineage ==
  ASSUME TypeOK, NEW s \in SessionIds,
         \/ \E g \in GroupIds : CreateGroup(g) \/ DeleteGroup(g)
         \/ \E g \in GroupIds \cup {None} : UpdateSessionGroup(s, g)
         \/ \E t \in Titles : UpdateSessionTitle(s, t)
         \/ \E status \in Statuses : UpdateSessionStatus(s, status)
         \/ \E kind \in Kinds : AppendEvent(s, kind)
         \/ \E q \in QueryIds, v \in VersionIds : CreateSnapshotQuery(q, s, v)
  PROVE  KeepsLineage
<1>1. CASE \E g \in GroupIds : CreateGroup(g) \/ DeleteGroup(g)
  <2>1. ASSUME NEW g \in GroupIds, CreateGroup(g) PROVE KeepsLineage
    BY <2>1 DEF CreateGroup, KeepsLineage
  <2>2. ASSUME NEW g \in GroupIds, DeleteGroup(g) PROVE KeepsLineage
    BY <2>2 DEF DeleteGroup, KeepsLineage, TypeOK, SessionRow
  <2>3. QED
    BY <1>1, <2>1, <2>2
<1>2. ASSUME NEW g \in GroupIds \cup {None}, UpdateSessionGroup(s, g)
      PROVE  KeepsLineage
  BY <1>2 DEF UpdateSessionGroup, KeepsLineage, TypeOK, SessionRow
<1>3. ASSUME NEW t \in Titles, UpdateSessionTitle(s, t)
      PROVE  KeepsLineage
  BY <1>3 DEF UpdateSessionTitle, KeepsLineage, TypeOK, SessionRow
<1>4. ASSUME NEW status \in Statuses, UpdateSessionStatus(s, status)
      PROVE  KeepsLineage
  BY <1>4 DEF UpdateSessionStatus, KeepsLineage, TypeOK, SessionRow
<1>5. ASSUME NEW kind \in Kinds, AppendEvent(s, kind)
      PROVE  KeepsLineage
  BY <1>5 DEF AppendEvent, KeepsLineage
<1>6. ASSUME NEW q \in QueryIds, NEW v \in VersionIds, CreateSnapshotQuery(q, s, v)
      PROVE  KeepsLineage
  BY <1>6 DEF CreateSnapshotQuery, KeepsLineage
<1>7. QED
  BY <1>1, <1>2, <1>3, <1>4, <1>5, <1>6

\* One step of the store, seen from the lineage: it keeps every row's
\* lineage, creates a session, or creates a version.
LEMMA StepKinds ==
  ASSUME TypeOK, Next
  PROVE  \/ KeepsLineage
         \/ \E s \in SessionIds, g \in GroupIds \cup {None}, p \in SessionIds \cup {None},
               v \in VersionIds \cup {None}, n \in Nat \cup {None}, t \in Titles,
               b \in Backends \cup {None} : CreateSession(s, g, p, v, n, t, b)
         \/ \E v \in VersionIds, s \in SessionIds, start \in Nat, end \in Nat :
               CreateVersion(v, s, start, end)
<1>1. CASE GroupOps
  <2> SUFFICES ASSUME NEW g \in GroupIds,
                      \/ CreateGroup(g)
                      \/ DeleteGroup(g)
                      \/ \E s \in SessionIds, to \in {g, None} : UpdateSessionGroup(s, to)
               PROVE  KeepsLineage
    BY <1>1 DEF GroupOps
  <2>1. CASE CreateGroup(g)
    BY <2>1 DEF CreateGroup, KeepsLineage
  <2>2. CASE DeleteGroup(g)
    BY <2>2 DEF DeleteGroup, KeepsLineage, TypeOK, SessionRow
  <2>3. ASSUME NEW s \in SessionIds, NEW to \in {g, None}, UpdateSessionGroup(s, to)
        PROVE  KeepsLineage
    BY <2>3, RowUpdatesKeepLineage
  <2>4. QED
    BY <2>1, <2>2, <2>3
<1>2. CASE SessionOps
  <2> SUFFICES ASSUME NEW s \in SessionIds, NEW t \in Titles,
                      \/ UpdateSessionTitle(s, t)
                      \/ \E status \in Statuses : UpdateSessionStatus(s, status)
                      \/ \E g \in GroupIds \cup {None}, b \in Backends \cup {None} :
                           \/ CreateRoot(s, g, t, b)
                           \/ \E p \in SessionIds, v \in VersionIds, n \in 0..MaxSeq :
                                CreateFork(s, g, p, v, n, t, b)
               PROVE  \/ KeepsLineage
                      \/ \E g \in GroupIds \cup {None}, p \in SessionIds \cup {None},
                           v \in VersionIds \cup {None}, n \in Nat \cup {None},
                           b \in Backends \cup {None} : CreateSession(s, g, p, v, n, t, b)
    BY <1>2 DEF SessionOps
  <2> DEFINE Creates == \E g \in GroupIds \cup {None}, p \in SessionIds \cup {None},
                           v \in VersionIds \cup {None}, n \in Nat \cup {None},
                           b \in Backends \cup {None} : CreateSession(s, g, p, v, n, t, b)
  <2>1. ASSUME UpdateSessionTitle(s, t)
        PROVE  KeepsLineage
    BY <2>1, RowUpdatesKeepLineage
  <2>2. ASSUME NEW status \in Statuses, UpdateSessionStatus(s, status)
        PROVE  KeepsLineage
    BY <2>2, RowUpdatesKeepLineage
  <2>3. ASSUME NEW g \in GroupIds \cup {None}, NEW b \in Backends \cup {None},
               CreateRoot(s, g, t, b)
        PROVE  Creates
    BY <2>3 DEF CreateRoot
  <2>4. ASSUME NEW g \in GroupIds \cup {None}, NEW b \in Backends \cup {None},
               NEW p \in SessionIds, NEW v \in VersionIds, NEW n \in 0..MaxSeq,
               CreateFork(s, g, p, v, n, t, b)
        PROVE  Creates
    <3>1. n \in Nat /\ CreateSession(s, g, p, v, n, t, b)
      BY <2>4, StoreAssumption DEF CreateFork
    <3>2. QED
      BY <3>1
  <2>5. QED
    BY <2>1, <2>2, <2>3, <2>4
<1>3. CASE LogOps
  <2> SUFFICES ASSUME NEW s \in SessionIds,
                      \/ \E kind \in Kinds : AppendEvent(s, kind)
                      \/ \E v \in VersionIds, start \in 0..MaxSeq, end \in 0..MaxSeq :
                           CreateVersion(v, s, start, end)
                      \/ \E q \in QueryIds, v \in VersionIds : CreateSnapshotQuery(q, s, v)
               PROVE  \/ KeepsLineage
                      \/ \E v \in VersionIds, start \in Nat, end \in Nat :
                           CreateVersion(v, s, start, end)
    BY <1>3 DEF LogOps
  <2>1. CASE \E kind \in Kinds : AppendEvent(s, kind)
    <3>1. KeepsLineage
      BY <2>1, RowUpdatesKeepLineage
    <3>2. QED
      BY <3>1
  <2>2. ASSUME NEW v \in VersionIds, NEW start \in 0..MaxSeq, NEW end \in 0..MaxSeq,
               CreateVersion(v, s, start, end)
        PROVE  \E w \in VersionIds, first \in Nat, last \in Nat :
                 CreateVersion(w, s, first, last)
    <3>1. start \in Nat /\ end \in Nat
      BY StoreAssumption
    <3>2. QED
      BY <2>2, <3>1
  <2>3. CASE \E q \in QueryIds, v \in VersionIds : CreateSnapshotQuery(q, s, v)
    <3>1. KeepsLineage
      BY <2>3, RowUpdatesKeepLineage
    <3>2. QED
      BY <3>1
  <2>4. QED
    BY <2>1, <2>2, <2>3
<1>4. QED
  BY <1>1, <1>2, <1>3 DEF Next

LEMMA LineageStep == TypeOK /\ LineageInv /\ [Next]_storeVars => LineageInv'
<1> SUFFICES ASSUME TypeOK, LineageInv, [Next]_storeVars
             PROVE  LineageInv'
  OBVIOUS
<1>1. CASE UNCHANGED storeVars
  <2>1. KeepsLineage
    BY <1>1 DEF storeVars, KeepsLineage
  <2>2. QED
    BY <2>1, KeepsLineageInv
<1>2. CASE Next
  BY <1>2, StepKinds, KeepsLineageInv, CreateSessionLineage, CreateVersionLineage
<1>3. QED
  BY <1>1, <1>2

\* The fork DAG: no cycle can arise, every fork point lies in a version of the
\* parent, and a fork of a pinned session is pinned.
THEOREM StoreLineage ==
  Spec => [](ForkDagWellFounded /\ ForkPointInVersion /\ PinnedForksStayPinned)
<1>1. Init => LineageInv
  BY DEF Init, LineageInv, ParentsPresent, ForkDagWellFounded, ForkPointInVersion,
         PinnedForksStayPinned
<1>2. LineageInv => ForkDagWellFounded /\ ForkPointInVersion /\ PinnedForksStayPinned
  BY DEF LineageInv
<1>3. QED
  BY <1>1, <1>2, LineageStep, StoreTypeCorrect, PTL DEF Spec

-----------------------------------------------------------------------------
(* The log and the group references *)

RowsInv == LogGapless /\ GroupRefsPresent

LEMMA RowsGroupOps == TypeOK /\ RowsInv /\ GroupOps => RowsInv'
<1> SUFFICES ASSUME TypeOK, RowsInv, NEW g \in GroupIds,
                    \/ CreateGroup(g)
                    \/ DeleteGroup(g)
                    \/ \E s \in SessionIds, to \in {g, None} : UpdateSessionGroup(s, to)
             PROVE  RowsInv'
  BY DEF GroupOps
<1>1. LogGapless'
  BY DEF RowsInv, LogGapless, CreateGroup, DeleteGroup, UpdateSessionGroup
<1>2. CASE CreateGroup(g)
  BY <1>1, <1>2 DEF RowsInv, GroupRefsPresent, CreateGroup, Present, TypeOK
<1>3. CASE DeleteGroup(g)
  <2>1. \A s \in DOMAIN sessions :
          sessions'[s].group = IF sessions[s].group = g THEN None ELSE sessions[s].group
    BY <1>3 DEF DeleteGroup, TypeOK, SessionRow
  <2>2. GroupRefsPresent'
    BY <1>3, <2>1, StoreAssumption
       DEF RowsInv, GroupRefsPresent, DeleteGroup, Present, TypeOK, SessionRow
  <2>3. QED
    BY <1>1, <2>2 DEF RowsInv
<1>4. ASSUME NEW s \in SessionIds, NEW to \in {g, None}, UpdateSessionGroup(s, to)
      PROVE  RowsInv'
  <2>1. \A x \in DOMAIN sessions :
          sessions'[x].group = IF x = s THEN to ELSE sessions[x].group
    BY <1>4 DEF UpdateSessionGroup, TypeOK, SessionRow
  <2>2. GroupRefsPresent'
    BY <1>4, <2>1 DEF RowsInv, GroupRefsPresent, UpdateSessionGroup, Present
  <2>3. QED
    BY <1>1, <2>2 DEF RowsInv
<1>5. QED
  BY <1>2, <1>3, <1>4

LEMMA RowsCreateSession ==
  ASSUME TypeOK, RowsInv,
         NEW s \in SessionIds, NEW g \in GroupIds \cup {None},
         NEW p \in SessionIds \cup {None}, NEW v \in VersionIds \cup {None},
         NEW n \in Nat \cup {None}, NEW t \in Titles, NEW b \in Backends \cup {None},
         CreateSession(s, g, p, v, n, t, b)
  PROVE  RowsInv'
<1>1. LogGapless'
  BY DEF RowsInv, LogGapless, CreateSession, Insert, TypeOK
<1>2. /\ sessions'[s].group = g
      /\ g # None => Present(g)
      /\ DOMAIN sessions' = DOMAIN sessions \cup {s}
      /\ \A x \in DOMAIN sessions : sessions'[x] = sessions[x]
      /\ groups' = groups
  BY DEF CreateSession, Insert
<1>3. GroupRefsPresent'
  BY <1>2 DEF RowsInv, GroupRefsPresent, Present
<1>4. QED
  BY <1>1, <1>3 DEF RowsInv

LEMMA RowsSessionOps == TypeOK /\ RowsInv /\ SessionOps => RowsInv'
<1> SUFFICES ASSUME TypeOK, RowsInv, NEW s \in SessionIds, NEW t \in Titles,
                    \/ UpdateSessionTitle(s, t)
                    \/ \E status \in Statuses : UpdateSessionStatus(s, status)
                    \/ \E g \in GroupIds \cup {None}, b \in Backends \cup {None} :
                         \/ CreateRoot(s, g, t, b)
                         \/ \E p \in SessionIds, v \in VersionIds, n \in 0..MaxSeq :
                              CreateFork(s, g, p, v, n, t, b)
             PROVE  RowsInv'
  BY DEF SessionOps
<1>1. CASE UpdateSessionTitle(s, t)
  BY <1>1 DEF RowsInv, LogGapless, GroupRefsPresent, UpdateSessionTitle, Present, TypeOK,
              SessionRow
<1>2. ASSUME NEW status \in Statuses, UpdateSessionStatus(s, status)
      PROVE  RowsInv'
  BY <1>2 DEF RowsInv, LogGapless, GroupRefsPresent, UpdateSessionStatus, Present, TypeOK,
              SessionRow
<1>3. ASSUME NEW g \in GroupIds \cup {None}, NEW b \in Backends \cup {None},
             CreateRoot(s, g, t, b)
      PROVE  RowsInv'
  BY <1>3, RowsCreateSession DEF CreateRoot
<1>4. ASSUME NEW g \in GroupIds \cup {None}, NEW b \in Backends \cup {None},
             NEW p \in SessionIds, NEW v \in VersionIds, NEW n \in 0..MaxSeq,
             CreateFork(s, g, p, v, n, t, b)
      PROVE  RowsInv'
  <2>1. n \in Nat
    BY StoreAssumption
  <2>2. QED
    BY <1>4, <2>1, RowsCreateSession DEF CreateFork
<1>5. QED
  BY <1>1, <1>2, <1>3, <1>4

LEMMA RowsLogOps == TypeOK /\ RowsInv /\ LogOps => RowsInv'
<1> SUFFICES ASSUME TypeOK, RowsInv, NEW s \in SessionIds,
                    \/ \E kind \in Kinds : AppendEvent(s, kind)
                    \/ \E v \in VersionIds, start \in 0..MaxSeq, end \in 0..MaxSeq :
                         CreateVersion(v, s, start, end)
                    \/ \E q \in QueryIds, v \in VersionIds : CreateSnapshotQuery(q, s, v)
             PROVE  RowsInv'
  BY DEF LogOps
<1>1. GroupRefsPresent'
  BY DEF RowsInv, GroupRefsPresent, AppendEvent, CreateVersion, CreateSnapshotQuery, Present
<1>2. ASSUME NEW kind \in Kinds, AppendEvent(s, kind)
      PROVE  LogGapless'
  <2> DEFINE row == [seq |-> nextSeq[s], kind |-> kind]
  <2>1. /\ row \in EventRow
        /\ s \in DOMAIN sessions
        /\ events[s] \in Seq(EventRow)
        /\ nextSeq[s] \in Nat
        /\ Len(events[s]) = nextSeq[s]
    BY <1>2 DEF TypeOK, AppendEvent, EventRow, RowsInv, LogGapless
  <2>2. /\ Len(Append(events[s], row)) = nextSeq[s] + 1
        /\ \A i \in 1..Len(events[s]) : Append(events[s], row)[i] = events[s][i]
        /\ Append(events[s], row)[nextSeq[s] + 1] = row
    BY <2>1
  <2>3. \A i \in 1..(nextSeq[s] + 1) : Append(events[s], row)[i].seq = i - 1
    <3> SUFFICES ASSUME NEW i \in 1..(nextSeq[s] + 1)
                 PROVE  Append(events[s], row)[i].seq = i - 1
      OBVIOUS
    <3>1. CASE i = nextSeq[s] + 1
      BY <2>1, <2>2, <3>1
    <3>2. CASE i \in 1..nextSeq[s]
      BY <2>1, <2>2, <3>2 DEF RowsInv, LogGapless
    <3>3. QED
      BY <2>1, <3>1, <3>2
  <2>4. /\ events'[s] = Append(events[s], row)
        /\ nextSeq'[s] = nextSeq[s] + 1
        /\ \A x \in DOMAIN sessions \ {s} :
             events'[x] = events[x] /\ nextSeq'[x] = nextSeq[x]
        /\ sessions' = sessions
    BY <1>2 DEF AppendEvent, TypeOK
  <2> HIDE DEF row
  <2>5. SUFFICES ASSUME NEW x \in DOMAIN sessions
                 PROVE  /\ Len(events'[x]) = nextSeq'[x]
                        /\ \A i \in 1..Len(events'[x]) : events'[x][i].seq = i - 1
    BY <2>4 DEF LogGapless
  <2>6. CASE x = s
    BY <2>2, <2>3, <2>4, <2>6
  <2>7. CASE x # s
    BY <2>4, <2>7 DEF RowsInv, LogGapless
  <2>8. QED
    BY <2>6, <2>7
<1>3. CASE \E v \in VersionIds, start \in 0..MaxSeq, end \in 0..MaxSeq :
             CreateVersion(v, s, start, end)
  BY <1>1, <1>3 DEF RowsInv, LogGapless, CreateVersion
<1>4. CASE \E q \in QueryIds, v \in VersionIds : CreateSnapshotQuery(q, s, v)
  BY <1>1, <1>4 DEF RowsInv, LogGapless, CreateSnapshotQuery
<1>5. QED
  BY <1>1, <1>2, <1>3, <1>4 DEF RowsInv

\* Seqs are allocated without gaps, and no session refers to a missing group.
THEOREM StoreRows == Spec => [](LogGapless /\ GroupRefsPresent)
<1>1. Init => RowsInv
  BY DEF Init, RowsInv, LogGapless, GroupRefsPresent
<1>2. TypeOK /\ RowsInv /\ [Next]_storeVars => RowsInv'
  <2> SUFFICES ASSUME TypeOK, RowsInv, [Next]_storeVars
               PROVE  RowsInv'
    OBVIOUS
  <2>1. CASE UNCHANGED storeVars
    BY <2>1 DEF storeVars, RowsInv, LogGapless, GroupRefsPresent, Present
  <2>2. QED
    BY <2>1, RowsGroupOps, RowsSessionOps, RowsLogOps DEF Next
<1>3. RowsInv => LogGapless /\ GroupRefsPresent
  BY DEF RowsInv
<1>4. QED
  BY <1>1, <1>2, <1>3, StoreTypeCorrect, PTL DEF Spec

-----------------------------------------------------------------------------
(* What a step may never do to what is there *)

LEMMA StepKeepsLineage ==
  ASSUME TypeOK, Next
  PROVE  \A s \in DOMAIN sessions :
           /\ s \in DOMAIN sessions'
           /\ sessions'[s].parent = sessions[s].parent
           /\ sessions'[s].version = sessions[s].version
           /\ sessions'[s].forkSeq = sessions[s].forkSeq
           /\ sessions'[s].backend = sessions[s].backend
<1>1. CASE KeepsLineage
  BY <1>1 DEF KeepsLineage
<1>2. ASSUME NEW s, NEW g, NEW p, NEW v, NEW n, NEW t, NEW b, CreateSession(s, g, p, v, n, t, b)
      PROVE  \A x \in DOMAIN sessions : x \in DOMAIN sessions' /\ sessions'[x] = sessions[x]
  BY <1>2 DEF CreateSession, Insert
<1>3. ASSUME NEW v, NEW s, NEW start, NEW end, CreateVersion(v, s, start, end)
      PROVE  sessions' = sessions
  BY <1>3 DEF CreateVersion
<1> QED BY <1>1, <1>2, <1>3, StepKinds

\* Nothing that happens to a session later takes it away or changes its lineage or its
\* backend (db/memory.py).
THEOREM StoreLineageImmutable == Spec => LineageImmutable
<1>1. TypeOK /\ [Next]_storeVars =>
        [\A s \in DOMAIN sessions :
           /\ s \in DOMAIN sessions'
           /\ sessions'[s].parent = sessions[s].parent
           /\ sessions'[s].version = sessions[s].version
           /\ sessions'[s].forkSeq = sessions[s].forkSeq
           /\ sessions'[s].backend = sessions[s].backend]_storeVars
  BY StepKeepsLineage
<1>2. QED
  BY <1>1, StoreTypeCorrect, PTL DEF Spec, LineageImmutable

TablesWrittenOnce ==
  /\ \A v \in DOMAIN versions : v \in DOMAIN versions' /\ versions'[v] = versions[v]
  /\ \A q \in DOMAIN queries : q \in DOMAIN queries' /\ queries'[q] = queries[q]

LogsOnlyGrow ==
  \A s \in DOMAIN sessions :
    /\ Len(events[s]) <= Len(events'[s])
    /\ SubSeq(events'[s], 1, Len(events[s])) = events[s]

LEMMA StepWritesOnce ==
  ASSUME TypeOK, Next PROVE TablesWrittenOnce
<1>1. CASE GroupOps
  BY <1>1 DEF GroupOps, CreateGroup, DeleteGroup, UpdateSessionGroup, TablesWrittenOnce
<1>2. CASE SessionOps
  <2>1. ASSUME NEW s, NEW g, NEW p, NEW v, NEW n, NEW t, NEW b, CreateSession(s, g, p, v, n, t, b)
        PROVE  UNCHANGED <<versions, queries>>
    BY <2>1 DEF CreateSession
  <2>2. UNCHANGED <<versions, queries>>
    BY <1>2, <2>1 DEF SessionOps, UpdateSessionTitle, UpdateSessionStatus, CreateRoot, CreateFork
  <2> QED BY <2>2 DEF TablesWrittenOnce
<1>3. CASE LogOps
  <2>1. ASSUME NEW s, NEW kind, AppendEvent(s, kind) PROVE TablesWrittenOnce
    BY <2>1 DEF AppendEvent, TablesWrittenOnce
  <2>2. ASSUME NEW v, NEW s, NEW start, NEW end, CreateVersion(v, s, start, end)
        PROVE  TablesWrittenOnce
    BY <2>2 DEF CreateVersion, Insert, TablesWrittenOnce
  <2>3. ASSUME NEW q, NEW s, NEW v, CreateSnapshotQuery(q, s, v) PROVE TablesWrittenOnce
    BY <2>3 DEF CreateSnapshotQuery, Insert, TablesWrittenOnce
  <2> QED BY <1>3, <2>1, <2>2, <2>3 DEF LogOps
<1> QED BY <1>1, <1>2, <1>3 DEF Next

\* A sequence is a prefix of what an append makes of it.
LEMMA AppendKeepsPrefix ==
  ASSUME NEW log \in Seq(EventRow), NEW row \in EventRow
  PROVE  /\ SubSeq(log, 1, Len(log)) = log
         /\ Len(log) <= Len(Append(log, row))
         /\ SubSeq(Append(log, row), 1, Len(log)) = log
OBVIOUS

LEMMA StepGrowsLogs ==
  ASSUME TypeOK, Next PROVE LogsOnlyGrow
<1>1. ASSUME NEW s \in DOMAIN sessions, events'[s] = events[s]
      PROVE  /\ Len(events[s]) <= Len(events'[s])
             /\ SubSeq(events'[s], 1, Len(events[s])) = events[s]
  <2>1. events[s] \in Seq(EventRow)
    BY DEF TypeOK
  <2> QED BY <1>1, <2>1
<1>2. CASE UNCHANGED events
  BY <1>1, <1>2 DEF LogsOnlyGrow
<1>3. ASSUME NEW s, NEW g, NEW p, NEW v, NEW n, NEW t, NEW b, CreateSession(s, g, p, v, n, t, b)
      PROVE  LogsOnlyGrow
  <2>1. \A x \in DOMAIN sessions : events'[x] = events[x]
    BY <1>3 DEF CreateSession, Insert, TypeOK
  <2> QED BY <1>1, <2>1 DEF LogsOnlyGrow
<1>4. ASSUME NEW s, NEW kind \in Kinds, AppendEvent(s, kind)
      PROVE  LogsOnlyGrow
  <2> DEFINE row == [seq |-> nextSeq[s], kind |-> kind]
  <2>1. s \in DOMAIN sessions /\ events[s] \in Seq(EventRow) /\ row \in EventRow
    BY <1>4 DEF AppendEvent, TypeOK, EventRow
  <2>2. events' = [events EXCEPT ![s] = Append(events[s], row)]
    BY <1>4 DEF AppendEvent
  <2> HIDE DEF row
  <2>3. \A x \in DOMAIN sessions : events'[x] = IF x = s THEN Append(events[s], row) ELSE events[x]
    BY <2>1, <2>2 DEF TypeOK
  <2>4. ASSUME NEW x \in DOMAIN sessions
        PROVE  /\ Len(events[x]) <= Len(events'[x])
               /\ SubSeq(events'[x], 1, Len(events[x])) = events[x]
    BY <1>1, <2>1, <2>3, AppendKeepsPrefix
  <2> QED BY <2>4 DEF LogsOnlyGrow
<1>5. CASE GroupOps
  <2>1. UNCHANGED events
    BY <1>5 DEF GroupOps, CreateGroup, DeleteGroup, UpdateSessionGroup
  <2> QED BY <1>2, <2>1
<1>6. CASE SessionOps
  BY <1>2, <1>3, <1>6 DEF SessionOps, UpdateSessionTitle, UpdateSessionStatus, CreateRoot, CreateFork
<1>7. CASE LogOps
  BY <1>2, <1>4, <1>7 DEF LogOps, CreateVersion, CreateSnapshotQuery
<1> QED BY <1>5, <1>6, <1>7 DEF Next

\* Versions, events and audit rows are written once, and a log only grows at its end
\* (db/memory.py).
THEOREM StoreWritesOnce == Spec => HistoryWriteOnce
<1>1. TypeOK /\ [Next]_storeVars =>
        [/\ \A v \in DOMAIN versions :
              v \in DOMAIN versions' /\ versions'[v] = versions[v]
         /\ \A q \in DOMAIN queries :
              q \in DOMAIN queries' /\ queries'[q] = queries[q]
         /\ \A s \in DOMAIN sessions :
              /\ Len(events[s]) <= Len(events'[s])
              /\ SubSeq(events'[s], 1, Len(events[s])) = events[s]]_storeVars
  BY StepWritesOnce, StepGrowsLogs DEF TablesWrittenOnce, LogsOnlyGrow
<1>2. QED
  BY <1>1, StoreTypeCorrect, PTL DEF Spec, HistoryWriteOnce

=============================================================================
