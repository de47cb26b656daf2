--------------------------- MODULE ForkGraph_proofs ---------------------------
(* Proofs about ForkGraph, for any number of sessions, versions and readers:  *)
(* the graph joins up and is a tree however the tables change while it is     *)
(* read, and the walk to the root finds the lineage.                          *)
EXTENDS ForkGraph, SessionStore_proofs, FiniteSetTheorems

USE GraphAssumption

-----------------------------------------------------------------------------
(* Descendants *)

LEMMA SetInduction ==
  ASSUME NEW S, 0 \in S, \A n \in Nat : n \in S => n + 1 \in S
  PROVE  Nat \subseteq S
<1> SUFFICES ASSUME Nat \ S # {} PROVE FALSE
  OBVIOUS
<1>1. PICK m \in Nat \ S : \A x \in Nat \ S : m <= x
  BY Smallest
<1>2. m - 1 \in Nat /\ m - 1 \in S
  BY <1>1
<1> QED BY <1>1, <1>2

Children(S) == {x \in DOMAIN sessions : sessions[x].parent \in S}

\* f has the first m rounds of the search below s.
SearchRounds(s, m, f) ==
  f = [n \in 0..m |-> IF n = 0 THEN {s} ELSE f[n - 1] \cup Children(f[n - 1])]

LEMMA RoundsExist ==
  ASSUME NEW s, NEW m \in Nat
  PROVE  \E f : SearchRounds(s, m, f)
<1> DEFINE S == {k \in Nat : \E f : SearchRounds(s, k, f)}
<1>1. 0 \in S
  <2> DEFINE f == [n \in 0..0 |-> {s}]
  <2>1. SearchRounds(s, 0, f)
    BY DEF SearchRounds
  <2> QED BY <2>1
<1>2. ASSUME NEW k \in Nat, k \in S PROVE k + 1 \in S
  <2>1. PICK f : SearchRounds(s, k, f)
    BY <1>2
  <2> DEFINE g == [n \in 0..(k + 1) |-> IF n = k + 1 THEN f[k] \cup Children(f[k]) ELSE f[n]]
  <2>2. \A n \in 0..k : f[n] = IF n = 0 THEN {s} ELSE f[n - 1] \cup Children(f[n - 1])
    BY <2>1 DEF SearchRounds
  <2>3. \A n \in 0..(k + 1) : g[n] = IF n = 0 THEN {s} ELSE g[n - 1] \cup Children(g[n - 1])
    <3> SUFFICES ASSUME NEW n \in 0..(k + 1)
                 PROVE  g[n] = IF n = 0 THEN {s} ELSE g[n - 1] \cup Children(g[n - 1])
      OBVIOUS
    <3>1. CASE n = k + 1
      <4>1. g[n - 1] = f[k] /\ g[n] = f[k] \cup Children(f[k])
        BY <3>1
      <4> QED BY <3>1, <4>1
    <3>2. CASE n # k + 1 /\ n # 0
      <4>1. g[n - 1] = f[n - 1] /\ g[n] = f[n] /\ n \in 0..k
        BY <3>2
      <4> QED BY <2>2, <3>2, <4>1
    <3>3. CASE n = 0
      <4>1. 0 \in 0..k /\ 0 \in 0..(k + 1) /\ 0 # k + 1
        OBVIOUS
      <4>2. f[0] = {s}
        BY <2>2, <4>1
      <4>3. g[0] = f[0]
        BY <4>1
      <4> HIDE DEF g
      <4> QED BY <3>3, <4>2, <4>3
    <3> QED BY <3>1, <3>2, <3>3
  <2>4. SearchRounds(s, k + 1, g)
    BY <2>3 DEF SearchRounds
  <2> QED BY <2>4
<1> HIDE DEF S
<1>3. Nat \subseteq S
  BY <1>1, <1>2, SetInduction
<1> QED BY <1>3 DEF S

\* What the recursive function in Descendants is.
LEMMA DescendantRounds ==
  ASSUME NEW s, IsFiniteSet(DOMAIN sessions)
  PROVE  /\ Cardinality(DOMAIN sessions) \in Nat
         /\ \E f : /\ f[0] = {s}
                   /\ \A n \in 1..Cardinality(DOMAIN sessions) :
                        f[n] = f[n - 1] \cup Children(f[n - 1])
                   /\ Descendants(s) = f[Cardinality(DOMAIN sessions)]
<1> DEFINE rounds == Cardinality(DOMAIN sessions)
<1>1. rounds \in Nat
  BY FS_CardinalityType
<1> DEFINE seen[n \in 0..rounds] ==
             IF n = 0 THEN {s}
             ELSE seen[n - 1] \cup {x \in DOMAIN sessions : sessions[x].parent \in seen[n - 1]}
<1>2. \E f : f = [n \in 0..rounds |->
                    IF n = 0 THEN {s}
                    ELSE f[n - 1] \cup {x \in DOMAIN sessions : sessions[x].parent \in f[n - 1]}]
  <2>1. PICK f : SearchRounds(s, rounds, f)
    BY <1>1, RoundsExist
  <2>2. f = [n \in 0..rounds |->
               IF n = 0 THEN {s}
               ELSE f[n - 1] \cup {x \in DOMAIN sessions : sessions[x].parent \in f[n - 1]}]
    BY <2>1 DEF SearchRounds, Children
  <2> QED BY <2>2
<1>3. seen = [n \in 0..rounds |->
                IF n = 0 THEN {s}
                ELSE seen[n - 1] \cup {x \in DOMAIN sessions : sessions[x].parent \in seen[n - 1]}]
  BY <1>2
<1>4. Descendants(s) = seen[rounds]
  BY DEF Descendants
<1> HIDE DEF seen
<1>5. seen[0] = {s}
  BY <1>1, <1>3
<1>6. \A n \in 1..rounds : seen[n] = seen[n - 1] \cup Children(seen[n - 1])
  BY <1>1, <1>3 DEF Children
<1> QED BY <1>1, <1>4, <1>5, <1>6


LEMMA DescendantsIn ==
  ASSUME NEW s \in DOMAIN sessions, IsFiniteSet(DOMAIN sessions)
  PROVE  s \in Descendants(s) /\ Descendants(s) \subseteq DOMAIN sessions
<1> DEFINE rounds == Cardinality(DOMAIN sessions)
<1>1. PICK f : /\ f[0] = {s}
               /\ \A n \in 1..rounds : f[n] = f[n - 1] \cup Children(f[n - 1])
               /\ Descendants(s) = f[rounds]
  BY DescendantRounds
<1>2. rounds \in Nat
  BY DescendantRounds
<1> HIDE DEF rounds
<1> DEFINE S == {n \in Nat : n <= rounds => s \in f[n] /\ f[n] \subseteq DOMAIN sessions}
<1>3. 0 \in S
  BY <1>1
<1>4. ASSUME NEW n \in Nat, n \in S PROVE n + 1 \in S
  <2> SUFFICES ASSUME n + 1 <= rounds PROVE s \in f[n + 1] /\ f[n + 1] \subseteq DOMAIN sessions
    OBVIOUS
  <2>1. n + 1 \in 1..rounds /\ (n + 1) - 1 = n
    BY <1>2
  <2>2. f[n + 1] = f[n] \cup Children(f[n])
    BY <1>1, <2>1
  <2>3. s \in f[n] /\ f[n] \subseteq DOMAIN sessions
    BY <1>2, <1>4
  <2> QED BY <2>2, <2>3 DEF Children
<1> HIDE DEF S
<1>5. rounds \in S
  BY <1>2, <1>3, <1>4, SetInduction
<1> QED BY <1>1, <1>2, <1>5 DEF S

\* Every descendant but the root hangs on another one: the round before the one that found it.
LEMMA DescendantsHang ==
  ASSUME NEW s \in DOMAIN sessions, IsFiniteSet(DOMAIN sessions),
         NEW x \in Descendants(s), x # s
  PROVE  sessions[x].parent \in Descendants(s)
<1> DEFINE rounds == Cardinality(DOMAIN sessions)
<1>1. PICK f : /\ f[0] = {s}
               /\ \A n \in 1..rounds : f[n] = f[n - 1] \cup Children(f[n - 1])
               /\ Descendants(s) = f[rounds]
  BY DescendantRounds
<1>2. rounds \in Nat
  BY DescendantRounds
<1> HIDE DEF rounds
<1> DEFINE R == {n \in 0..rounds : x \in f[n]}
<1>3. rounds \in R /\ R \in SUBSET Nat
  BY <1>1, <1>2
<1>4. PICK m \in R : \A n \in R : m <= n
  BY <1>3, Smallest
<1>5. m # 0
  BY <1>1, <1>4
<1>6. m - 1 \in 0..rounds /\ m \in 1..rounds /\ x \notin f[m - 1]
  BY <1>2, <1>4, <1>5
<1>7. sessions[x].parent \in f[m - 1]
  BY <1>1, <1>4, <1>6 DEF Children
<1> DEFINE S == {n \in Nat : n <= rounds /\ m - 1 <= n => sessions[x].parent \in f[n]}
<1>8. 0 \in S
  BY <1>6, <1>7
<1>9. ASSUME NEW n \in Nat, n \in S PROVE n + 1 \in S
  <2> SUFFICES ASSUME n + 1 <= rounds, m - 1 <= n + 1 PROVE sessions[x].parent \in f[n + 1]
    OBVIOUS
  <2>1. CASE m - 1 = n + 1
    BY <1>7, <2>1
  <2>2. CASE m - 1 # n + 1
    <3>1. m - 1 <= n /\ n <= rounds /\ n + 1 \in 1..rounds /\ (n + 1) - 1 = n
      BY <1>2, <1>6, <2>2
    <3>2. sessions[x].parent \in f[n]
      BY <1>9, <3>1
    <3>3. f[n + 1] = f[n] \cup Children(f[n])
      BY <1>1, <3>1
    <3> QED BY <3>2, <3>3
  <2> QED BY <2>1, <2>2
<1> HIDE DEF S
<1>10. rounds \in S
  BY <1>2, <1>8, <1>9, SetInduction
<1>11. m - 1 <= rounds
  BY <1>2, <1>6
<1> QED BY <1>1, <1>2, <1>10, <1>11 DEF S

\* A round that finds nothing is the last one; until then each finds a session, so that
\* there are enough rounds.
LEMMA DescendantsClosed ==
  ASSUME NEW s \in DOMAIN sessions, IsFiniteSet(DOMAIN sessions)
  PROVE  Children(Descendants(s)) \subseteq Descendants(s)
<1> DEFINE rounds == Cardinality(DOMAIN sessions)
<1>1. PICK f : /\ f[0] = {s}
               /\ \A n \in 1..rounds : f[n] = f[n - 1] \cup Children(f[n - 1])
               /\ Descendants(s) = f[rounds]
  BY DescendantRounds
<1>2. rounds \in Nat
  BY DescendantRounds
<1> HIDE DEF rounds
<1> DEFINE Closed(n) == Children(f[n]) \subseteq f[n]
<1> DEFINE S == {n \in Nat : n <= rounds =>
                   /\ f[n] \subseteq DOMAIN sessions
                   /\ Closed(n) \/ Cardinality(f[n]) >= n + 1}
<1>3. 0 \in S
  BY <1>1, FS_Singleton
<1>4. ASSUME NEW n \in Nat, n \in S PROVE n + 1 \in S
  <2> SUFFICES ASSUME n + 1 <= rounds
               PROVE  /\ f[n + 1] \subseteq DOMAIN sessions
                      /\ Closed(n + 1) \/ Cardinality(f[n + 1]) >= (n + 1) + 1
    OBVIOUS
  <2>1. n + 1 \in 1..rounds /\ (n + 1) - 1 = n /\ n <= rounds
    BY <1>2
  <2>2. f[n + 1] = f[n] \cup Children(f[n])
    BY <1>1, <2>1
  <2>3. f[n] \subseteq DOMAIN sessions /\ (Closed(n) \/ Cardinality(f[n]) >= n + 1)
    BY <1>4, <2>1
  <2>4. f[n + 1] \subseteq DOMAIN sessions
    BY <2>2, <2>3 DEF Children
  <2>5. CASE Closed(n)
    <3>1. f[n + 1] = f[n]
      BY <2>2, <2>5
    <3> QED BY <2>4, <2>5, <3>1
  <2>6. CASE ~Closed(n)
    <3>1. PICK y \in Children(f[n]) : y \notin f[n]
      BY <2>6
    <3>2. IsFiniteSet(f[n]) /\ IsFiniteSet(f[n + 1])
      BY <2>3, <2>4, FS_Subset
    <3>3. Cardinality(f[n] \cup {y}) = Cardinality(f[n]) + 1
      BY <3>1, <3>2, FS_AddElement
    <3>4. Cardinality(f[n] \cup {y}) <= Cardinality(f[n + 1])
      BY <2>2, <3>1, <3>2, FS_Subset
    <3>5. Cardinality(f[n]) \in Nat /\ Cardinality(f[n + 1]) \in Nat
      BY <3>2, FS_CardinalityType
    <3>6. Cardinality(f[n + 1]) >= (n + 1) + 1
      BY <2>3, <2>6, <3>3, <3>4, <3>5
    <3> QED BY <2>4, <3>6
  <2> QED BY <2>5, <2>6
<1> HIDE DEF S
<1>5. rounds \in S
  BY <1>2, <1>3, <1>4, SetInduction
<1>6. f[rounds] \subseteq DOMAIN sessions /\ (Closed(rounds) \/ Cardinality(f[rounds]) >= rounds + 1)
  BY <1>2, <1>5 DEF S
<1>7. Cardinality(f[rounds]) <= rounds /\ Cardinality(f[rounds]) \in Nat
  BY <1>6, FS_Subset, FS_CardinalityType DEF rounds
<1> QED BY <1>1, <1>2, <1>6, <1>7


-----------------------------------------------------------------------------
(* The tables *)

\* A fork has both halves of its fork point.
ForkRows ==
  \A s \in DOMAIN sessions :
    sessions[s].parent # None => sessions[s].version # None /\ sessions[s].forkSeq # None

TablesInv == TypeOK /\ LineageInv /\ ForkRows /\ IsFiniteSet(DOMAIN sessions)

\* At most one session is new, and it is a root or has its fork point.
LEMMA StepAddsOne ==
  ASSUME TypeOK, Next
  PROVE  \E s : /\ DOMAIN sessions' \subseteq DOMAIN sessions \cup {s}
                /\ s \in DOMAIN sessions' \ DOMAIN sessions =>
                     \/ sessions'[s].parent = None
                     \/ sessions'[s].version # None /\ sessions'[s].forkSeq # None
<1>1. CASE DOMAIN sessions' = DOMAIN sessions
  BY <1>1
<1>2. CASE GroupOps
  <2>1. DOMAIN sessions' = DOMAIN sessions
    BY <1>2 DEF GroupOps, CreateGroup, DeleteGroup, UpdateSessionGroup
  <2> QED BY <1>1, <2>1
<1>3. CASE SessionOps
  <2>1. ASSUME NEW s \in SessionIds, NEW t, UpdateSessionTitle(s, t)
        PROVE  DOMAIN sessions' = DOMAIN sessions
    BY <2>1 DEF UpdateSessionTitle
  <2>2. ASSUME NEW s \in SessionIds, NEW status, UpdateSessionStatus(s, status)
        PROVE  DOMAIN sessions' = DOMAIN sessions
    BY <2>2 DEF UpdateSessionStatus
  <2>3. ASSUME NEW s, NEW g, NEW t, NEW b, CreateRoot(s, g, t, b)
        PROVE  \E x : /\ DOMAIN sessions' \subseteq DOMAIN sessions \cup {x}
                      /\ \/ sessions'[x].parent = None
                         \/ sessions'[x].version # None /\ sessions'[x].forkSeq # None
    <3>1. /\ DOMAIN sessions' = DOMAIN sessions \cup {s}
          /\ sessions'[s].parent = None
      BY <2>3 DEF CreateRoot, CreateSession, Insert
    <3> QED BY <3>1
  <2>4. ASSUME NEW s, NEW g, NEW p, NEW v, NEW n, NEW t, NEW b, CreateFork(s, g, p, v, n, t, b)
        PROVE  \E x : /\ DOMAIN sessions' \subseteq DOMAIN sessions \cup {x}
                      /\ \/ sessions'[x].parent = None
                         \/ sessions'[x].version # None /\ sessions'[x].forkSeq # None
    <3>1. /\ DOMAIN sessions' = DOMAIN sessions \cup {s}
          /\ sessions'[s].version # None /\ sessions'[s].forkSeq # None
      BY <2>4 DEF CreateFork, CreateSession, Insert
    <3> QED BY <3>1
  <2> QED BY <1>1, <1>3, <2>1, <2>2, <2>3, <2>4 DEF SessionOps
<1>4. CASE LogOps
  <2>1. sessions' = sessions
    BY <1>4 DEF LogOps, AppendEvent, CreateVersion, CreateSnapshotQuery
  <2> QED BY <1>1, <2>1
<1> QED BY <1>2, <1>3, <1>4 DEF Next

LEMMA StoreTypeStep == TypeOK /\ [Next]_storeVars => TypeOK'
<1>1. UNCHANGED storeVars /\ TypeOK => TypeOK'
  BY DEF TypeOK, storeVars
<1> QED BY <1>1, GroupOpsType, SessionOpsType, LogOpsType DEF Next

LEMMA TablesStep == TablesInv /\ Next => TablesInv'
<1> SUFFICES ASSUME TablesInv, Next PROVE TablesInv'
  OBVIOUS
<1> USE DEF TablesInv
<1>1. TypeOK' /\ LineageInv'
  BY StoreTypeStep, LineageStep
<1>2. PICK s : /\ DOMAIN sessions' \subseteq DOMAIN sessions \cup {s}
               /\ s \in DOMAIN sessions' \ DOMAIN sessions =>
                    \/ sessions'[s].parent = None
                    \/ sessions'[s].version # None /\ sessions'[s].forkSeq # None
  BY StepAddsOne
<1>3. IsFiniteSet(DOMAIN sessions')
  BY <1>2, FS_AddElement, FS_Subset
<1>4. ForkRows'
  BY <1>2, StepKeepsLineage DEF ForkRows
<1> QED BY <1>1, <1>3, <1>4

-----------------------------------------------------------------------------
(* What a reader has *)

Rows == UNION {[S -> SessionRow] : S \in SUBSET SessionIds}
Found == UNION {[V -> VersionRow] : V \in SUBSET VersionIds}

ReadRow ==
  [op : {"none", "list group", "list all", "versions", "walk"},
   target : SessionIds \cup GroupIds \cup {None},
   rows : Rows, pending : SUBSET SessionIds, found : Found,
   next : SessionIds \cup {None}, chain : Seq(SessionIds)]

\* What was read of a session is still its lineage, and of a version still its row.
StillTrue(read) ==
  /\ \A s \in DOMAIN read.rows :
       /\ s \in DOMAIN sessions
       /\ read.rows[s].parent = sessions[s].parent
       /\ read.rows[s].version = sessions[s].version
       /\ read.rows[s].forkSeq = sessions[s].forkSeq
  /\ \A v \in DOMAIN read.found : v \in DOMAIN versions /\ read.found[v] = versions[v]

\* The versions found are those of nodes, and of a node that has been asked about every one
\* that a child was forked from.
Listed(read) ==
  /\ read.pending \subseteq DOMAIN read.rows
  /\ \A v \in DOMAIN read.found : read.found[v].session \in DOMAIN read.rows
  /\ read.op = "versions" => \A s \in DOMAIN read.rows :
       read.rows[s].parent \in DOMAIN read.rows \ read.pending => read.rows[s].version \in DOMAIN read.found
  /\ read.op \in {"list group", "list all"} => read.found = << >> /\ read.pending = {}

Targeted(read) ==
  /\ read.op \in {"list all", "walk"} => read.target \in DOMAIN sessions
  /\ read.op = "list group" => read.target \in GroupIds /\ read.rows = << >>
  /\ read.op = "list all" => DOMAIN read.rows = {read.target}
  /\ read.op = "versions" /\ read.target \in SessionIds =>
       /\ read.target \in DOMAIN read.rows
       /\ \A s \in DOMAIN read.rows \ {read.target} : read.rows[s].parent \in DOMAIN read.rows

\* The chain is the lineage from the session read last down to the target, and the walk
\* goes on at that session's parent.
Walked(read) ==
  /\ read.next # None => read.next \in DOMAIN sessions
  /\ read.op = "walk" =>
       read.next = IF read.chain = << >> THEN read.target ELSE sessions[read.chain[1]].parent
  /\ \A i \in 1..Len(read.chain) : read.chain[i] \in DOMAIN sessions
  /\ Len(read.chain) > 0 => read.chain[Len(read.chain)] = read.target
  /\ \A i \in 2..Len(read.chain) : sessions[read.chain[i]].parent = read.chain[i - 1]

ReadOK(read) ==
  read \in ReadRow /\ StillTrue(read) /\ Listed(read) /\ Targeted(read) /\ Walked(read)

GraphInv ==
  /\ TablesInv
  /\ reads = [r \in Readers |-> reads[r]]
  /\ \A r \in Readers : ReadOK(reads[r])

LEMMA EmptyTable == DOMAIN << >> = {} /\ Len(<< >>) = 0
OBVIOUS

LEMMA NotWalkedYet ==
  ASSUME NEW read, read.chain = << >>,
         \/ read.next = None /\ read.op # "walk"
         \/ read.next = read.target /\ read.target \in DOMAIN sessions
  PROVE  Walked(read)
<1>1. Len(read.chain) = 0
  OBVIOUS
<1>2. 1..Len(read.chain) = {} /\ 2..Len(read.chain) = {}
  BY <1>1
<1> QED BY <1>1, <1>2 DEF Walked

LEMMA NoReadOK == ReadOK(NoRead)
<1>1. << >> \in Rows /\ << >> \in Found
  BY DEF Rows, Found
<1>2. NoRead \in ReadRow
  BY <1>1 DEF NoRead, ReadRow
<1>3. NoRead.next = None /\ NoRead.op # "walk" /\ NoRead.chain = << >>
  BY DEF NoRead
<1>4. Walked(NoRead)
  BY <1>3, NotWalkedYet
<1> QED BY <1>2, <1>4 DEF ReadOK, NoRead, StillTrue, Listed, Targeted

\* The other requests only add to what a reader has seen.
LEMMA OthersKeepRead ==
  ASSUME TablesInv, TablesInv', Next, NEW r \in Readers, ReadOK(reads[r]), UNCHANGED reads
  PROVE  ReadOK(reads[r])'
<1>1. \A s \in DOMAIN sessions :
        /\ s \in DOMAIN sessions'
        /\ sessions'[s].parent = sessions[s].parent
        /\ sessions'[s].version = sessions[s].version
        /\ sessions'[s].forkSeq = sessions[s].forkSeq
  BY StepKeepsLineage DEF TablesInv
<1>2. \A v \in DOMAIN versions : v \in DOMAIN versions' /\ versions'[v] = versions[v]
  BY StepWritesOnce DEF TablesInv, TablesWrittenOnce
<1>3. StillTrue(reads[r])'
  BY <1>1, <1>2 DEF ReadOK, StillTrue
<1>4. Listed(reads[r])' /\ Targeted(reads[r])'
  BY <1>1 DEF ReadOK, Listed, Targeted
<1>5. Walked(reads[r])'
  BY <1>1 DEF ReadOK, Walked
<1> QED BY <1>3, <1>4, <1>5 DEF ReadOK

\* A reader's step.
LEMMA OneReads ==
  ASSUME GraphInv, UNCHANGED storeVars, NEW r \in Readers, NEW row, ReadOK(row),
         reads' = [reads EXCEPT ![r] = row]
  PROVE  GraphInv'
<1>1. TablesInv'
  <2>1. TypeOK'
    BY StoreTypeStep DEF GraphInv, TablesInv
  <2>2. LineageInv'
    BY LineageStep DEF GraphInv, TablesInv
  <2>3. ForkRows' /\ IsFiniteSet(DOMAIN sessions')
    BY DEF GraphInv, TablesInv, ForkRows, storeVars
  <2> QED BY <2>1, <2>2, <2>3 DEF TablesInv
<1>2. reads' = [x \in Readers |-> reads'[x]] /\ \A x \in Readers : reads'[x] = IF x = r THEN row ELSE reads[x]
  BY DEF GraphInv
<1>3. \A x \in Readers : ReadOK(reads'[x])
  BY <1>2 DEF GraphInv
<1>4. \A x \in Readers : ReadOK(reads[x])'
  <2> SUFFICES ASSUME NEW x \in Readers PROVE ReadOK(reads[x])'
    OBVIOUS
  <2>1. UNCHANGED <<sessions, versions>> /\ ReadOK(reads'[x])
    BY <1>3 DEF storeVars
  <2>2. StillTrue(reads[x])'
    BY <2>1 DEF ReadOK, StillTrue
  <2>3. Listed(reads[x])' /\ (reads[x] \in ReadRow)'
    BY <2>1 DEF ReadOK, Listed
  <2>4. Targeted(reads[x])'
    BY <2>1 DEF ReadOK, Targeted
  <2>5. Walked(reads[x])'
    BY <2>1 DEF ReadOK, Walked
  <2> QED BY <2>2, <2>3, <2>4, <2>5 DEF ReadOK
<1> QED BY <1>1, <1>2, <1>4 DEF GraphInv


-----------------------------------------------------------------------------
(* The steps of a reader *)

LEMMA OnlyRows ==
  ASSUME TypeOK, NEW S \in SUBSET DOMAIN sessions
  PROVE  /\ Only(sessions, S) \in Rows /\ DOMAIN Only(sessions, S) = S
         /\ \A s \in S : Only(sessions, S)[s] = sessions[s]
<1>1. S \in SUBSET SessionIds /\ Only(sessions, S) \in [S -> SessionRow]
  BY DEF TypeOK, Only
<1> QED BY <1>1 DEF Rows, Only

LEMMA GroupGraphInv ==
  ASSUME GraphInv, NEW r \in Readers, NEW g \in GroupIds, GroupGraph(r, g)
  PROVE  GraphInv'
<1> DEFINE row == [NoRead EXCEPT !.op = "list group", !.target = g]
<1>1. row \in ReadRow /\ row.op = "list group" /\ row.target = g /\ row.rows = << >>
      /\ row.pending = {} /\ row.found = << >> /\ row.next = None /\ row.chain = << >>
  BY NoReadOK DEF ReadOK, ReadRow, NoRead
<1>2. reads' = [reads EXCEPT ![r] = row] /\ UNCHANGED storeVars
  BY DEF GroupGraph
<1> HIDE DEF row
<1>3. StillTrue(row) /\ Listed(row)
  BY <1>1, EmptyTable DEF StillTrue, Listed
<1>4. Targeted(row)
  BY <1>1 DEF Targeted
<1>5. Walked(row)
  <2>1. row.op # "walk"
    BY <1>1
  <2> QED BY <1>1, <2>1, NotWalkedYet
<1> QED BY <1>1, <1>2, <1>3, <1>4, <1>5, OneReads DEF ReadOK

LEMMA ListGroupInv ==
  ASSUME GraphInv, NEW r \in Readers, ListGroup(r)
  PROVE  GraphInv'
<1> DEFINE read == reads[r]
<1> DEFINE members == InGroup(read.target)
<1> DEFINE row == [read EXCEPT !.op = "versions", !.pending = members,
                               !.rows = Only(sessions, members)]
<1>1. ReadOK(read) /\ read.op = "list group" /\ TypeOK
  BY DEF GraphInv, TablesInv, ListGroup, Reading
<1>2. members \in SUBSET DOMAIN sessions
  BY DEF InGroup
<1>3. reads' = [reads EXCEPT ![r] = row] /\ UNCHANGED storeVars
  BY DEF ListGroup
<1> HIDE DEF read, members
<1>4. /\ Only(sessions, members) \in Rows /\ DOMAIN Only(sessions, members) = members
      /\ \A s \in members : Only(sessions, members)[s] = sessions[s]
      /\ members \in SUBSET SessionIds
  BY <1>1, <1>2, OnlyRows DEF TypeOK
<1>5. /\ row \in ReadRow /\ row.op = "versions" /\ row.target = read.target
      /\ row.pending = members /\ row.rows = Only(sessions, members)
      /\ row.found = << >> /\ row.next = read.next /\ row.chain = read.chain
  BY <1>1, <1>4 DEF ReadOK, ReadRow, Listed
<1> HIDE DEF row
<1>6. read.target \notin SessionIds
  BY <1>1 DEF ReadOK, Targeted
<1>7. StillTrue(row)
  BY <1>2, <1>4, <1>5 DEF StillTrue
<1>8. Listed(row)
  BY <1>4, <1>5 DEF Listed
<1>9. Targeted(row) /\ Walked(row)
  BY <1>1, <1>5, <1>6 DEF Targeted, Walked, ReadOK
<1> QED BY <1>3, <1>5, <1>7, <1>8, <1>9, OneReads DEF ReadOK

LEMMA SessionGraphInv ==
  ASSUME GraphInv, NEW r \in Readers, NEW s \in SessionIds, SessionGraph(r, s)
  PROVE  GraphInv'
<1> DEFINE row == [NoRead EXCEPT !.op = "list all", !.target = s, !.rows = Only(sessions, {s})]
<1>1. TypeOK /\ s \in DOMAIN sessions
  BY DEF GraphInv, TablesInv, SessionGraph
<1>2. /\ Only(sessions, {s}) \in Rows /\ DOMAIN Only(sessions, {s}) = {s}
      /\ Only(sessions, {s})[s] = sessions[s]
  BY <1>1, OnlyRows
<1>3. row \in ReadRow /\ row.op = "list all" /\ row.target = s /\ row.rows = Only(sessions, {s})
      /\ row.pending = {} /\ row.found = << >> /\ row.next = None /\ row.chain = << >>
  BY <1>2, NoReadOK DEF ReadOK, ReadRow, NoRead
<1>4. reads' = [reads EXCEPT ![r] = row] /\ UNCHANGED storeVars
  BY DEF SessionGraph
<1> HIDE DEF row
<1>5. StillTrue(row) /\ Listed(row)
  BY <1>1, <1>2, <1>3, EmptyTable DEF StillTrue, Listed
<1>6. Targeted(row)
  BY <1>1, <1>2, <1>3 DEF Targeted
<1>7. Walked(row)
  <2>1. row.op # "walk"
    BY <1>3
  <2> QED BY <1>3, <2>1, NotWalkedYet
<1> QED BY <1>3, <1>4, <1>5, <1>6, <1>7, OneReads DEF ReadOK

LEMMA ListSessionsInv ==
  ASSUME GraphInv, NEW r \in Readers, ListSessions(r)
  PROVE  GraphInv'
<1> DEFINE read == reads[r]
<1> DEFINE root == read.target
<1> DEFINE below == Descendants(root)
<1> DEFINE rows == [x \in below |-> IF x = root THEN read.rows[root] ELSE sessions[x]]
<1> DEFINE row == [read EXCEPT !.op = "versions", !.pending = below, !.rows = rows]
<1>1. ReadOK(read) /\ read.op = "list all" /\ TypeOK /\ IsFiniteSet(DOMAIN sessions)
  BY DEF GraphInv, TablesInv, ListSessions, Reading
<1>2. reads' = [reads EXCEPT ![r] = row] /\ UNCHANGED storeVars
  BY DEF ListSessions
<1> HIDE DEF read
<1>3. root \in DOMAIN sessions /\ DOMAIN read.rows = {root}
  BY <1>1 DEF ReadOK, Targeted
<1>4. /\ root \in below /\ below \subseteq DOMAIN sessions
      /\ \A x \in below \ {root} : sessions[x].parent \in below
  BY <1>1, <1>3, DescendantsIn, DescendantsHang
<1> HIDE DEF below
<1>5. /\ read.rows[root] \in SessionRow
      /\ read.rows[root].parent = sessions[root].parent
      /\ read.rows[root].version = sessions[root].version
      /\ read.rows[root].forkSeq = sessions[root].forkSeq
  <2>1. PICK S \in SUBSET SessionIds : read.rows \in [S -> SessionRow]
    BY <1>1 DEF ReadOK, ReadRow, Rows
  <2>2. read.rows[root] \in SessionRow
    BY <1>3, <2>1
  <2> QED BY <1>1, <1>3, <2>2 DEF ReadOK, StillTrue
<1>6. rows \in [below -> SessionRow] /\ below \in SUBSET SessionIds
  BY <1>1, <1>4, <1>5 DEF TypeOK
<1>7. rows \in Rows /\ DOMAIN rows = below
  BY <1>6 DEF Rows
<1>8. \A x \in below : /\ rows[x].parent = sessions[x].parent
                       /\ rows[x].version = sessions[x].version
                       /\ rows[x].forkSeq = sessions[x].forkSeq
  BY <1>5
<1> HIDE DEF rows
<1>9. /\ row \in ReadRow /\ row.op = "versions" /\ row.target = root /\ row.pending = below
      /\ row.rows = rows /\ row.found = << >>
      /\ row.next = read.next /\ row.chain = read.chain
  BY <1>1, <1>6, <1>7 DEF ReadOK, ReadRow, Listed
<1> HIDE DEF row
<1>10. StillTrue(row)
  BY <1>4, <1>7, <1>8, <1>9 DEF StillTrue
<1>11. Listed(row)
  BY <1>7, <1>9 DEF Listed
<1>12. Targeted(row)
  BY <1>4, <1>7, <1>8, <1>9 DEF Targeted
<1>13. Walked(row)
  BY <1>1, <1>9 DEF Walked, ReadOK
<1> QED BY <1>2, <1>9, <1>10, <1>11, <1>12, <1>13, OneReads DEF ReadOK

LEMMA ListVersionsInv ==
  ASSUME GraphInv, NEW r \in Readers, ListVersions(r)
  PROVE  GraphInv'
<1>1. PICK s \in reads[r].pending :
        reads' = [reads EXCEPT
                    ![r].pending = @ \ {s},
                    ![r].found = [v \in DOMAIN @ \cup VersionsOf({s}) |-> versions[v]]]
  BY DEF ListVersions
<1> DEFINE read == reads[r]
<1> DEFINE found == [v \in DOMAIN read.found \cup VersionsOf({s}) |-> versions[v]]
<1> DEFINE row == [read EXCEPT !.pending = read.pending \ {s}, !.found = found]
<1>2. ReadOK(read) /\ read.op = "versions" /\ TypeOK /\ LineageInv
  BY DEF GraphInv, TablesInv, ListVersions, Reading
<1>3. reads' = [reads EXCEPT ![r] = row] /\ UNCHANGED storeVars
  BY <1>1 DEF ListVersions
<1>4. s \in read.pending
  BY <1>1
<1> HIDE DEF read
<1>5. \A v \in DOMAIN read.found \cup VersionsOf({s}) : v \in DOMAIN versions
  BY <1>2 DEF ReadOK, StillTrue, VersionsOf
<1>6. found \in Found /\ DOMAIN found = DOMAIN read.found \cup VersionsOf({s})
      /\ \A v \in DOMAIN found : found[v] = versions[v]
  <2>1. DOMAIN found \in SUBSET VersionIds /\ found \in [DOMAIN found -> VersionRow]
    BY <1>2, <1>5 DEF TypeOK
  <2> QED BY <2>1 DEF Found
<1> HIDE DEF found
<1>7. /\ row \in ReadRow /\ row.op = "versions" /\ row.target = read.target
      /\ row.pending = read.pending \ {s} /\ row.rows = read.rows
      /\ row.found = found /\ row.next = read.next /\ row.chain = read.chain
  BY <1>2, <1>6 DEF ReadOK, ReadRow
<1> HIDE DEF row
<1>8. StillTrue(row)
  BY <1>2, <1>5, <1>6, <1>7 DEF StillTrue, ReadOK
<1>9. s \in DOMAIN read.rows
  BY <1>2, <1>4 DEF ReadOK, Listed
<1>10. \A v \in DOMAIN row.found : row.found[v].session \in DOMAIN row.rows
  BY <1>2, <1>6, <1>7, <1>9 DEF ReadOK, Listed, StillTrue, VersionsOf
<1>11. ASSUME NEW x \in DOMAIN row.rows, row.rows[x].parent \in DOMAIN row.rows \ row.pending
       PROVE  row.rows[x].version \in DOMAIN row.found
  <2>1. CASE row.rows[x].parent = s
    <3>1. /\ x \in DOMAIN sessions /\ s \in DOMAIN sessions
          /\ sessions[x].parent = s /\ row.rows[x].version = sessions[x].version
      BY <1>2, <1>7, <1>9, <2>1 DEF ReadOK, StillTrue
    <3>2. s # None
      BY <3>1, <1>2, StoreAssumption DEF TypeOK
    <3>3. sessions[x].version # None
      BY <3>1, <3>2 DEF GraphInv, TablesInv, ForkRows
    <3>4. sessions[x].version \in VersionsOf({s})
      BY <1>2, <3>1, <3>3 DEF LineageInv, ForkPointInVersion, VersionsOf
    <3> QED BY <1>6, <1>7, <3>1, <3>4
  <2>2. CASE row.rows[x].parent # s
    BY <1>2, <1>6, <1>7, <1>11, <2>2 DEF ReadOK, Listed
  <2> QED BY <2>1, <2>2
<1>12. Listed(row)
  BY <1>2, <1>7, <1>10, <1>11 DEF Listed, ReadOK
<1>13. Targeted(row) /\ Walked(row)
  BY <1>2, <1>7 DEF Targeted, Walked, ReadOK
<1> QED BY <1>3, <1>7, <1>8, <1>12, <1>13, OneReads DEF ReadOK


LEMMA BeginChainInv ==
  ASSUME GraphInv, NEW r \in Readers, NEW s \in SessionIds, BeginChain(r, s)
  PROVE  GraphInv'
<1> DEFINE row == [NoRead EXCEPT !.op = "walk", !.target = s, !.next = s]
<1>1. row \in ReadRow /\ row.op = "walk" /\ row.target = s /\ row.rows = << >>
      /\ row.pending = {} /\ row.found = << >> /\ row.next = s /\ row.chain = << >>
  BY NoReadOK DEF ReadOK, ReadRow, NoRead
<1>2. reads' = [reads EXCEPT ![r] = row] /\ UNCHANGED storeVars /\ s \in DOMAIN sessions
  BY DEF BeginChain
<1> HIDE DEF row
<1>3. StillTrue(row) /\ Listed(row)
  BY <1>1 DEF StillTrue, Listed
<1>4. Targeted(row)
  BY <1>1, <1>2 DEF Targeted
<1>5. Walked(row)
  BY <1>1, <1>2, NotWalkedYet
<1> QED BY <1>1, <1>2, <1>3, <1>4, <1>5, OneReads DEF ReadOK

\* What a chain is after a session is put in front of it.
LEMMA Prepend ==
  ASSUME NEW S, NEW chain \in Seq(S), NEW x \in S
  PROVE  /\ <<x>> \o chain \in Seq(S)
         /\ Len(<<x>> \o chain) = Len(chain) + 1
         /\ (<<x>> \o chain)[1] = x
         /\ \A i \in 2..(Len(chain) + 1) : (<<x>> \o chain)[i] = chain[i - 1]
OBVIOUS

LEMMA WalkChainInv ==
  ASSUME GraphInv, NEW r \in Readers, WalkChain(r)
  PROVE  GraphInv'
<1> DEFINE read == reads[r]
<1> DEFINE x == read.next
<1> DEFINE longer == <<x>> \o read.chain
<1> DEFINE row == [read EXCEPT !.chain = longer, !.next = sessions[x].parent]
<1>1. ReadOK(read) /\ read.op = "walk" /\ TypeOK /\ LineageInv /\ x # None
  BY DEF GraphInv, TablesInv, WalkChain, Reading
<1>2. reads' = [reads EXCEPT ![r] = row] /\ UNCHANGED storeVars
  BY DEF WalkChain
<1>3. x = IF read.chain = << >> THEN read.target ELSE sessions[read.chain[1]].parent
  BY <1>1 DEF ReadOK, Walked
<1> HIDE DEF read
<1>4. read.chain \in Seq(SessionIds) /\ read.target \in DOMAIN sessions
  BY <1>1 DEF ReadOK, ReadRow, Targeted
<1>5. read.chain # << >> => Len(read.chain) > 0 /\ read.chain[1] \in DOMAIN sessions
  BY <1>1, <1>4 DEF ReadOK, Walked
<1>6. /\ x \in DOMAIN sessions /\ x \in SessionIds
      /\ sessions[x].parent \in SessionIds \cup {None}
      /\ sessions[x].parent # None => sessions[x].parent \in DOMAIN sessions
  <2>1. x \in DOMAIN sessions
    BY <1>1 DEF ReadOK, Walked
  <2> QED BY <1>1, <2>1 DEF LineageInv, ParentsPresent, TypeOK, SessionRow
<1> HIDE DEF x
<1>7. /\ longer \in Seq(SessionIds)
      /\ Len(longer) = Len(read.chain) + 1
      /\ longer[1] = x
      /\ \A i \in 2..(Len(read.chain) + 1) : longer[i] = read.chain[i - 1]
  BY <1>4, <1>6, Prepend
<1> HIDE DEF longer
<1>8. /\ row \in ReadRow /\ row.op = "walk" /\ row.target = read.target
      /\ row.pending = read.pending /\ row.rows = read.rows
      /\ row.found = read.found /\ row.chain = longer
      /\ row.next = sessions[x].parent
  BY <1>1, <1>6, <1>7 DEF ReadOK, ReadRow
<1> HIDE DEF row
<1>9. StillTrue(row) /\ Listed(row) /\ Targeted(row)
  BY <1>1, <1>8 DEF ReadOK, StillTrue, Listed, Targeted
<1>10. Len(read.chain) \in Nat
  BY <1>4
<1>11. \A i \in 1..Len(longer) : longer[i] \in DOMAIN sessions
  <2> SUFFICES ASSUME NEW i \in 1..Len(longer) PROVE longer[i] \in DOMAIN sessions
    OBVIOUS
  <2>1. CASE i = 1
    BY <1>6, <1>7, <2>1
  <2>2. CASE i # 1
    <3>1. i \in 2..(Len(read.chain) + 1) /\ i - 1 \in 1..Len(read.chain)
      BY <1>7, <1>10, <2>2
    <3> QED BY <1>1, <1>7, <3>1 DEF ReadOK, Walked
  <2> QED BY <2>1, <2>2
<1>12. longer[Len(longer)] = read.target
  <2>1. CASE read.chain = << >>
    BY <1>3, <1>7, <2>1
  <2>2. CASE read.chain # << >>
    <3>1. Len(longer) \in 2..(Len(read.chain) + 1) /\ Len(longer) - 1 = Len(read.chain)
      BY <1>5, <1>7, <1>10, <2>2
    <3> QED BY <1>1, <1>5, <1>7, <2>2, <3>1 DEF ReadOK, Walked
  <2> QED BY <2>1, <2>2
<1>13. \A i \in 2..Len(longer) : sessions[longer[i]].parent = longer[i - 1]
  <2> SUFFICES ASSUME NEW i \in 2..Len(longer) PROVE sessions[longer[i]].parent = longer[i - 1]
    OBVIOUS
  <2>1. longer[i] = read.chain[i - 1] /\ Len(read.chain) > 0
    BY <1>7, <1>10
  <2>2. CASE i = 2
    <3>1. longer[1] = sessions[read.chain[1]].parent
      BY <1>3, <1>7, <2>1
    <3> QED BY <2>1, <2>2, <3>1
  <2>3. CASE i # 2
    <3>1. i - 1 \in 2..Len(read.chain) /\ i - 1 \in 2..(Len(read.chain) + 1)
      BY <1>7, <1>10, <2>3
    <3>2. sessions[read.chain[i - 1]].parent = read.chain[(i - 1) - 1]
      BY <1>1, <3>1 DEF ReadOK, Walked
    <3> QED BY <1>7, <2>1, <3>1, <3>2
  <2> QED BY <2>2, <2>3
<1>14. longer # << >>
  BY <1>7, <1>10, EmptyTable
<1>15. Walked(row)
  BY <1>6, <1>7, <1>8, <1>11, <1>12, <1>13, <1>14 DEF Walked
<1> QED BY <1>2, <1>8, <1>9, <1>15, OneReads DEF ReadOK

LEMMA GraphStep == GraphInv /\ [GraphNext]_graphVars => GraphInv'
<1> SUFFICES ASSUME GraphInv, [GraphNext]_graphVars PROVE GraphInv'
  OBVIOUS
<1>1. CASE Next /\ UNCHANGED reads
  <2>1. TablesInv /\ TablesInv'
    BY <1>1, TablesStep DEF GraphInv
  <2>2. ASSUME NEW r \in Readers PROVE ReadOK(reads[r])'
    BY <1>1, <2>1, OthersKeepRead DEF GraphInv
  <2> QED BY <1>1, <2>1, <2>2 DEF GraphInv
<1>2. ASSUME NEW r \in Readers, NEW g \in GroupIds, GroupGraph(r, g) PROVE GraphInv'
  BY <1>2, GroupGraphInv
<1>3. ASSUME NEW r \in Readers, NEW s \in SessionIds, SessionGraph(r, s) \/ BeginChain(r, s)
      PROVE  GraphInv'
  BY <1>3, SessionGraphInv, BeginChainInv
<1>4. ASSUME NEW r \in Readers, ListGroup(r) \/ ListSessions(r) \/ ListVersions(r) \/ WalkChain(r)
      PROVE  GraphInv'
  BY <1>4, ListGroupInv, ListSessionsInv, ListVersionsInv, WalkChainInv
<1>5. ASSUME NEW r \in Readers, Respond(r) PROVE GraphInv'
  BY <1>5, NoReadOK, OneReads DEF Respond
<1>6. CASE UNCHANGED graphVars
  <2>1. TablesInv'
    BY <1>6, StoreTypeStep, LineageStep DEF GraphInv, TablesInv, graphVars, storeVars, ForkRows
  <2>2. ASSUME NEW r \in Readers PROVE ReadOK(reads[r])'
    BY <1>6 DEF GraphInv, graphVars, storeVars, ReadOK, StillTrue, Listed, Targeted, Walked
  <2> QED BY <1>6, <2>1, <2>2 DEF GraphInv, graphVars
<1> QED BY <1>1, <1>2, <1>3, <1>4, <1>5, <1>6 DEF GraphNext, ReadStep

LEMMA GraphInitInv == GraphInit => GraphInv
<1> SUFFICES ASSUME GraphInit PROVE GraphInv
  OBVIOUS
<1>1. TypeOK /\ LineageInv /\ ForkRows
  BY DEF GraphInit, Init, TypeOK, LineageInv, ParentsPresent, ForkDagWellFounded,
         ForkPointInVersion, PinnedForksStayPinned, ForkRows
<1>2. IsFiniteSet(DOMAIN sessions)
  <2>1. DOMAIN sessions = {}
    BY DEF GraphInit, Init
  <2> QED BY <2>1, FS_EmptySet
<1> QED BY <1>1, <1>2, NoReadOK DEF GraphInit, GraphInv, TablesInv


-----------------------------------------------------------------------------
(* Theorems *)

\* The inductive invariant: what a reader holds is still true of the tables.
THEOREM GraphInvariant == GraphSpec => []GraphInv
<1> QED BY GraphInitInv, GraphStep, PTL DEF GraphSpec

\* Readers change no table, so everything proved of the store holds beside them.
THEOREM GraphImplementsStore == GraphSpec => Spec
<1>1. GraphInit => Init
  BY DEF GraphInit
<1>2. [GraphNext]_graphVars => [Next]_storeVars
  <2>1. ReadStep => UNCHANGED storeVars
    BY DEF ReadStep, GroupGraph, SessionGraph, BeginChain, ListGroup, ListSessions, ListVersions,
           WalkChain, Respond
  <2> QED BY <2>1 DEF GraphNext, graphVars
<1> QED BY <1>1, <1>2, PTL DEF GraphSpec, Spec

\* While any number of readers walk it, the lineage is acyclic, forks start where they may,
\* no session refers to a deleted group, and no row loses its parent, fork point or backend.
THEOREM GraphLineage ==
  GraphSpec => /\ [](ForkDagWellFounded /\ ForkPointInVersion /\ PinnedForksStayPinned)
               /\ []GroupRefsPresent
               /\ LineageImmutable
  BY GraphImplementsStore, StoreLineage, StoreRows, StoreLineageImmutable, PTL

LEMMA FunctionOfRows ==
  ASSUME NEW read \in ReadRow
  PROVE  /\ \A s \in DOMAIN read.rows : read.rows[s] \in SessionRow
         /\ \A v \in DOMAIN read.found : read.found[v] \in VersionRow
         /\ read.op \in {"none", "list group", "list all", "versions", "walk"}
         /\ read.target \in SessionIds \cup GroupIds \cup {None}
         /\ read.next \in SessionIds \cup {None}
         /\ read.chain \in Seq(SessionIds)
<1>1. PICK S \in SUBSET SessionIds : read.rows \in [S -> SessionRow]
  BY DEF ReadRow, Rows
<1>2. PICK V \in SUBSET VersionIds : read.found \in [V -> VersionRow]
  BY DEF ReadRow, Found
<1> QED BY <1>1, <1>2 DEF ReadRow

\* The tables and the readers keep their types, for any number of each (api/fork_graph.py).
THEOREM GraphTypeCorrect == GraphSpec => []GraphTypeOK
<1>1. GraphInv => GraphTypeOK
  <2> SUFFICES ASSUME GraphInv PROVE GraphTypeOK
    OBVIOUS
  <2>1. TypeOK
    BY DEF GraphInv, TablesInv
  <2>2. ASSUME NEW r \in Readers
        PROVE  /\ reads[r].op \in {"none", "list group", "list all", "versions", "walk"}
               /\ reads[r].target \in SessionIds \cup GroupIds \cup {None}
               /\ DOMAIN reads[r].rows \subseteq DOMAIN sessions
               /\ \A s \in DOMAIN reads[r].rows : reads[r].rows[s] \in SessionRow
               /\ reads[r].pending \subseteq DOMAIN reads[r].rows
               /\ DOMAIN reads[r].found \subseteq DOMAIN versions
               /\ \A v \in DOMAIN reads[r].found : reads[r].found[v] \in VersionRow
               /\ reads[r].next \in DOMAIN sessions \cup {None}
               /\ reads[r].chain \in Seq(DOMAIN sessions)
    <3>1. ReadOK(reads[r])
      BY DEF GraphInv
    <3>2. reads[r].chain \in Seq(SessionIds)
      BY <3>1, FunctionOfRows DEF ReadOK
    <3>3. \A i \in 1..Len(reads[r].chain) : reads[r].chain[i] \in DOMAIN sessions
      BY <3>1 DEF ReadOK, Walked
    <3>4. reads[r].chain \in Seq(DOMAIN sessions)
      BY <3>2, <3>3
    <3> QED BY <3>1, <3>4, FunctionOfRows DEF ReadOK, StillTrue, Listed, Walked
  <2> QED BY <2>1, <2>2 DEF GraphTypeOK
<1> QED BY <1>1, GraphInvariant, PTL

\* An edge and what it joins.
LEMMA EdgeOf ==
  ASSUME GraphInv, NEW r \in Readers, GraphReady(r), NEW e \in Edges(r)
  PROVE  \E s \in Nodes(r) :
           /\ e = Edge(s, reads[r].rows[s])
           /\ e.child = s /\ e.parent = reads[r].rows[s].parent
           /\ {e.parent, e.child} \subseteq Nodes(r)
           /\ e.via \in NodeVersions(r, e.parent)
           /\ e.forkSeq \in reads[r].found[e.via].start .. reads[r].found[e.via].end
<1>1. PICK s \in Nodes(r) :
        /\ e = Edge(s, reads[r].rows[s])
        /\ reads[r].rows[s].version # None
        /\ reads[r].rows[s].version \in DOMAIN reads[r].found
  BY DEF Edges
<1>2. ReadOK(reads[r]) /\ ForkPointInVersion
  BY DEF GraphInv, TablesInv, LineageInv
<1>3. /\ e.child = s /\ e.parent = reads[r].rows[s].parent
      /\ e.via = reads[r].rows[s].version /\ e.forkSeq = reads[r].rows[s].forkSeq
  BY <1>1 DEF Edge
<1>4. /\ s \in DOMAIN sessions /\ e.parent = sessions[s].parent
      /\ e.via = sessions[s].version /\ e.forkSeq = sessions[s].forkSeq
  BY <1>2, <1>3 DEF ReadOK, StillTrue, Nodes
<1>5. reads[r].found[e.via] = versions[e.via] /\ reads[r].found[e.via].session \in Nodes(r)
  BY <1>1, <1>2, <1>3 DEF ReadOK, StillTrue, Listed, Nodes
<1>6. versions[e.via].session = e.parent /\ e.forkSeq \in versions[e.via].start .. versions[e.via].end
  BY <1>1, <1>2, <1>3, <1>4 DEF ForkPointInVersion
<1> QED BY <1>1, <1>3, <1>5, <1>6 DEF NodeVersions

LEMMA EdgeFor ==
  ASSUME GraphInv, NEW r \in Readers, GraphReady(r),
         NEW s \in Nodes(r), reads[r].rows[s].parent \in Nodes(r)
  PROVE  Edge(s, reads[r].rows[s]) \in Edges(r)
<1>1. ReadOK(reads[r]) /\ ForkRows /\ TypeOK
  BY DEF GraphInv, TablesInv
<1>2. reads[r].op = "versions" /\ reads[r].pending = {}
  BY DEF GraphReady, Reading
<1>3. reads[r].rows[s].version \in DOMAIN reads[r].found
  BY <1>1, <1>2 DEF ReadOK, Listed, Nodes
<1>4. /\ s \in DOMAIN sessions
      /\ reads[r].rows[s].parent = sessions[s].parent
      /\ reads[r].rows[s].version = sessions[s].version
      /\ reads[r].rows[s].forkSeq = sessions[s].forkSeq
      /\ sessions[s].parent \in DOMAIN sessions
  BY <1>1 DEF ReadOK, StillTrue, Nodes
<1>5. sessions[s].parent # None
  BY <1>1, <1>4, StoreAssumption DEF TypeOK
<1>6. sessions[s].version # None /\ sessions[s].forkSeq # None
  BY <1>1, <1>4, <1>5 DEF ForkRows
<1> QED BY <1>3, <1>4, <1>5, <1>6 DEF Edges

LEMMA GraphInvJoins == GraphInv => EdgesJoinNodes
<1> SUFFICES ASSUME GraphInv, NEW r \in Readers, GraphReady(r)
    PROVE  /\ \A e \in Edges(r) :
                /\ {e.parent, e.child} \subseteq Nodes(r)
                /\ e.via \in NodeVersions(r, e.parent)
                /\ e.forkSeq \in reads[r].found[e.via].start .. reads[r].found[e.via].end
           /\ \A s \in Nodes(r) :
                reads[r].rows[s].parent \in Nodes(r) => \E e \in Edges(r) : e.child = s
  BY DEF EdgesJoinNodes
<1>1. ASSUME NEW e \in Edges(r)
      PROVE  /\ {e.parent, e.child} \subseteq Nodes(r)
             /\ e.via \in NodeVersions(r, e.parent)
             /\ e.forkSeq \in reads[r].found[e.via].start .. reads[r].found[e.via].end
  BY EdgeOf
<1>2. ASSUME NEW s \in Nodes(r), reads[r].rows[s].parent \in Nodes(r)
      PROVE  \E e \in Edges(r) : e.child = s
  <2>1. Edge(s, reads[r].rows[s]) \in Edges(r)
    BY <1>2, EdgeFor
  <2>2. Edge(s, reads[r].rows[s]).child = s
    BY DEF Edge
  <2> QED BY <2>1, <2>2
<1> QED BY <1>1, <1>2

\* Whatever is forked, moved and frozen while a graph is put together, it joins up
\* (fork_graph.py).
THEOREM GraphJoinsUp == GraphSpec => []EdgesJoinNodes
<1> QED BY GraphInvJoins, GraphInvariant, PTL

LEMMA GraphInvTree == GraphInv => SessionGraphIsTree
<1> SUFFICES ASSUME GraphInv, NEW r \in Readers, GraphReady(r), reads[r].target \in SessionIds
    PROVE  /\ reads[r].target \in Nodes(r)
           /\ {e.child : e \in Edges(r)} = Nodes(r) \ {reads[r].target}
           /\ Cardinality(Edges(r)) = Cardinality(Nodes(r)) - 1
  BY DEF SessionGraphIsTree
<1> DEFINE root == reads[r].target
<1> DEFINE rows == reads[r].rows
<1>1. ReadOK(reads[r]) /\ ForkDagWellFounded /\ IsFiniteSet(DOMAIN sessions)
  BY DEF GraphInv, TablesInv, LineageInv
<1>2. /\ root \in Nodes(r)
      /\ \A s \in Nodes(r) \ {root} : rows[s].parent \in Nodes(r)
  BY <1>1 DEF ReadOK, Targeted, GraphReady, Reading, Nodes
<1>3. /\ Nodes(r) \subseteq DOMAIN sessions
      /\ \A s \in Nodes(r) : rows[s].parent = sessions[s].parent
  BY <1>1 DEF ReadOK, StillTrue, Nodes
<1>4. rows[root].parent \notin Nodes(r)
  <2>1. Nodes(r) \in SUBSET DOMAIN sessions /\ Nodes(r) # {}
    BY <1>2, <1>3
  <2>2. PICK s \in Nodes(r) : sessions[s].parent \notin Nodes(r)
    BY <1>1, <2>1 DEF ForkDagWellFounded
  <2> QED BY <1>2, <1>3, <2>2
<1> DEFINE others == Nodes(r) \ {root}
<1> DEFINE edge == [s \in others |-> Edge(s, rows[s])]
<1>5. \A s \in others : edge[s] \in Edges(r) /\ edge[s].child = s
  <2> SUFFICES ASSUME NEW s \in others PROVE edge[s] \in Edges(r) /\ edge[s].child = s
    OBVIOUS
  <2>1. Edge(s, rows[s]) \in Edges(r)
    BY <1>2, EdgeFor
  <2> QED BY <2>1 DEF Edge
<1>6. \A e \in Edges(r) : e.child \in others /\ e = edge[e.child]
  <2> SUFFICES ASSUME NEW e \in Edges(r) PROVE e.child \in others /\ e = edge[e.child]
    OBVIOUS
  <2>1. PICK s \in Nodes(r) : /\ e = Edge(s, rows[s]) /\ e.child = s
                              /\ e.parent = rows[s].parent /\ e.parent \in Nodes(r)
    BY EdgeOf
  <2>2. s # root
    BY <1>4, <2>1
  <2> QED BY <2>1, <2>2
<1>7. {e.child : e \in Edges(r)} = others
  <2> HIDE DEF edge, others
  <2> QED BY <1>5, <1>6
<1>8. edge \in Bijection(others, Edges(r))
  <2>1. edge \in [others -> Edges(r)]
    BY <1>5
  <2>2. \A s, t \in others : edge[s] = edge[t] => s = t
    BY <1>5
  <2>3. \A e \in Edges(r) : \E s \in others : edge[s] = e
    BY <1>6
  <2> HIDE DEF edge, others
  <2> QED BY <2>1, <2>2, <2>3 DEF Bijection, Injection, Surjection, IsInjective
<1>9. IsFiniteSet(Nodes(r))
  BY <1>1, <1>3, FS_Subset
<1>10. IsFiniteSet(others) /\ Cardinality(others) = Cardinality(Nodes(r)) - 1
  BY <1>2, <1>9, FS_RemoveElement
<1>11. Cardinality(Edges(r)) = Cardinality(others)
  BY <1>8, <1>10, FS_Bijection DEF ExistsBijection
<1> QED BY <1>2, <1>7, <1>10, <1>11

\* The graph of a session is a tree below it, for any number of sessions (fork_graph.py,
\* api/fork_graph.py).
THEOREM SessionGraphsAreTrees == GraphSpec => []SessionGraphIsTree
<1> QED BY GraphInvTree, GraphInvariant, PTL

\* From any session of a chain on, each next one hangs on the one before.
LEMMA ChainDescends ==
  ASSUME GraphInv, NEW r \in Readers, reads[r].op = "walk",
         NEW i \in 1..Len(reads[r].chain)
  PROVE  reads[r].target \in Descendants(reads[r].chain[i])
<1> DEFINE chain == reads[r].chain
<1> DEFINE below == Descendants(chain[i])
<1>1. ReadOK(reads[r]) /\ IsFiniteSet(DOMAIN sessions)
  BY DEF GraphInv, TablesInv
<1>2. /\ \A j \in 1..Len(chain) : chain[j] \in DOMAIN sessions
      /\ Len(chain) > 0 => chain[Len(chain)] = reads[r].target
      /\ \A j \in 2..Len(chain) : sessions[chain[j]].parent = chain[j - 1]
      /\ Len(chain) \in Nat
  <2>1. chain \in Seq(SessionIds)
    BY <1>1, FunctionOfRows DEF ReadOK
  <2>2. Len(chain) \in Nat
    BY <2>1
  <2> QED BY <1>1, <2>2 DEF ReadOK, Walked
<1> HIDE DEF chain
<1>3. chain[i] \in below /\ Children(below) \subseteq below
  BY <1>1, <1>2, DescendantsIn, DescendantsClosed DEF chain
<1> HIDE DEF below
<1>4. i \in 1..Len(chain)
  BY DEF chain
<1> DEFINE S == {n \in Nat : i + n <= Len(chain) => chain[i + n] \in below}
<1>5. 0 \in S
  BY <1>3, <1>4
<1>6. ASSUME NEW n \in Nat, n \in S PROVE n + 1 \in S
  <2> SUFFICES ASSUME i + (n + 1) <= Len(chain) PROVE chain[i + (n + 1)] \in below
    OBVIOUS
  <2>1. /\ i + n <= Len(chain) /\ i + (n + 1) \in 2..Len(chain)
        /\ i + (n + 1) \in 1..Len(chain) /\ (i + (n + 1)) - 1 = i + n
    BY <1>2, <1>4
  <2>2. chain[i + n] \in below
    BY <1>6, <2>1
  <2>3. sessions[chain[i + (n + 1)]].parent = chain[i + n]
    BY <1>2, <2>1
  <2> QED BY <1>2, <1>3, <2>1, <2>2, <2>3 DEF Children
<1> HIDE DEF S
<1>7. Nat \subseteq S
  BY <1>5, <1>6, SetInduction
<1>8. Len(chain) - i \in Nat /\ i + (Len(chain) - i) = Len(chain) /\ Len(chain) > 0
  BY <1>2, <1>4
<1>9. chain[Len(chain)] \in below
  <2>1. Len(chain) - i \in S
    BY <1>7, <1>8
  <2>2. i + (Len(chain) - i) <= Len(chain) => chain[i + (Len(chain) - i)] \in below
    BY <2>1 DEF S
  <2>3. Len(chain) <= Len(chain)
    BY <1>2
  <2> QED BY <1>8, <2>2, <2>3
<1> QED BY <1>2, <1>8, <1>9 DEF below, chain

LEMMA GraphInvChain == GraphInv => ChainIsLineage
<1> SUFFICES ASSUME GraphInv, NEW r \in Readers, ChainReady(r)
    PROVE  /\ reads[r].chain[Len(reads[r].chain)] = reads[r].target
           /\ sessions[reads[r].chain[1]].parent = None
           /\ \A i \in 2..Len(reads[r].chain) :
                sessions[reads[r].chain[i]].parent = reads[r].chain[i - 1]
           /\ \A i \in DOMAIN reads[r].chain : reads[r].target \in Descendants(reads[r].chain[i])
  BY DEF ChainIsLineage
<1>1. reads[r].op = "walk" /\ reads[r].next = None
  BY DEF ChainReady, Reading
<1>2. /\ ReadOK(reads[r]) /\ reads[r].chain \in Seq(SessionIds)
      /\ reads[r].target \in SessionIds
  BY <1>1, FunctionOfRows DEF GraphInv, TablesInv, TypeOK, ReadOK, Targeted
<1>3. reads[r].chain # << >> /\ sessions[reads[r].chain[1]].parent = None
  BY <1>1, <1>2, StoreAssumption DEF ReadOK, Walked
<1>4. Len(reads[r].chain) > 0 /\ DOMAIN reads[r].chain = 1..Len(reads[r].chain)
  BY <1>2, <1>3
<1> QED BY <1>1, <1>2, <1>3, <1>4, ChainDescends DEF ReadOK, Walked

\* The curator's scope of a session is its lineage, and the search below any session of it
\* finds that session (curator.py, api/fork_graph.py).
THEOREM ChainsAreLineages == GraphSpec => []ChainIsLineage
<1> QED BY GraphInvChain, GraphInvariant, PTL

=============================================================================
