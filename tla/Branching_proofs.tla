--------------------------- MODULE Branching_proofs ---------------------------
(* Proofs about Branching for any number of requests, sessions, versions    *)
(* and events: it implements SessionStore, and whatever the requests do in  *)
(* between, a version holds its turns, has its blob unless a power loss has *)
(* taken it, and is forked at its end.                                      *)
EXTENDS Branching, SessionStore_proofs

-----------------------------------------------------------------------------
(* Smallest and largest elements *)

LEMMA MinMax ==
  ASSUME NEW n \in Nat, NEW T \in SUBSET (0..n), T # {}
  PROVE  /\ Min(T) \in T /\ Max(T) \in T
         /\ \A x \in T : Min(T) <= x /\ x <= Max(T)
<1>1. PICK m \in T : \A x \in T : m <= x
  BY Smallest
<1>2. PICK k \in {n - x : x \in T} : \A y \in {n - x : x \in T} : k <= y
  <2>1. {n - x : x \in T} \in SUBSET Nat /\ {n - x : x \in T} # {}
    OBVIOUS
  <2>2. QED
    BY <2>1, Smallest
<1>3. PICK h \in T : k = n - h
  OBVIOUS
<1>4. \A x \in T : x <= h
  BY <1>2, <1>3
<1>5. Min(T) \in T /\ \A x \in T : Min(T) <= x
  BY <1>1 DEF Min
<1>6. Max(T) \in T /\ \A x \in T : x <= Max(T)
  BY <1>4 DEF Max
<1>7. QED
  BY <1>5, <1>6

-----------------------------------------------------------------------------
(* The log only grows at its end *)

LogBound == \A s \in DOMAIN sessions : nextSeq[s] <= MaxSeq + 1

Grows ==
  /\ DOMAIN sessions \subseteq DOMAIN sessions'
  /\ \A s \in DOMAIN sessions : /\ Turns(s) \subseteq Turns(s)'
                                /\ \A n \in Turns(s)' \ Turns(s) : n \in Nat /\ n >= nextSeq[s]

LEMMA TurnsBelowNext ==
  ASSUME TypeOK, LogGapless, NEW s \in DOMAIN sessions, NEW n \in Turns(s)
  PROVE  n \in Nat /\ n < nextSeq[s]
<1>1. PICK i \in 1..Len(events[s]) : n = events[s][i].seq
  BY DEF Turns
<1>2. Len(events[s]) = nextSeq[s] /\ nextSeq[s] \in Nat /\ events[s][i].seq = i - 1
  BY DEF LogGapless, TypeOK
<1>3. QED
  BY <1>1, <1>2

LEMMA SameLogGrows ==
  ASSUME TypeOK, events' = events, sessions' = sessions
  PROVE  Grows
BY DEF Grows, Turns

LEMMA AppendGrows ==
  ASSUME TypeOK, LogGapless, LogBound, NEW s \in SessionIds, NEW kind \in Kinds,
         AppendEvent(s, kind)
  PROVE  Grows /\ LogBound'
<1> DEFINE row == [seq |-> nextSeq[s], kind |-> kind]
<1>1. /\ s \in DOMAIN sessions /\ sessions' = sessions
      /\ events[s] \in Seq(EventRow) /\ nextSeq[s] \in Nat /\ nextSeq[s] <= MaxSeq
      /\ events'[s] = Append(events[s], row)
      /\ \A r \in DOMAIN sessions \ {s} : events'[r] = events[r] /\ nextSeq'[r] = nextSeq[r]
      /\ nextSeq'[s] = nextSeq[s] + 1
  BY DEF AppendEvent, TypeOK
<1>2. /\ Len(events'[s]) = Len(events[s]) + 1
      /\ \A i \in 1..Len(events[s]) : events'[s][i] = events[s][i]
      /\ events'[s][Len(events[s]) + 1] = row
  BY <1>1
<1>3. Turns(s) \subseteq Turns(s)'
  BY <1>2 DEF Turns
<1>4. \A n \in Turns(s)' \ Turns(s) : n = nextSeq[s]
  <2> SUFFICES ASSUME NEW i \in 1..Len(events'[s]), events'[s][i].kind = "turn",
                      events'[s][i].seq \notin Turns(s)
               PROVE  events'[s][i].seq = nextSeq[s]
    BY DEF Turns
  <2>1. i = Len(events[s]) + 1
    BY <1>1, <1>2 DEF Turns
  <2>2. QED
    BY <1>2, <2>1
<1>5. \A r \in DOMAIN sessions \ {s} : Turns(r)' = Turns(r)
  BY <1>1 DEF Turns
<1>6. Grows
  BY <1>1, <1>3, <1>4, <1>5 DEF Grows
<1>7. LogBound'
  BY <1>1, StoreAssumption DEF LogBound
<1>8. QED
  BY <1>6, <1>7

-----------------------------------------------------------------------------
(* The invariant *)

\* The turns a call has chosen are all those of the log between their first and
\* their last, and none lies past the end the request asked for.
ChosenTurns(c) ==
  /\ c.session \in DOMAIN sessions
  /\ c.turns # {} /\ c.turns \subseteq Turns(c.session)
  /\ \A n \in Turns(c.session), a, b \in c.turns : a <= n /\ n <= b => n \in c.turns
  /\ c.end # None => \A n \in c.turns : n <= c.end

CallFacts(c) ==
  /\ c.step \in {"begun", "read", "stored", "frozen", "refused"} => c.session \in SessionIds
  /\ c.step \in {"read", "stored"} => ChosenTurns(c)
  /\ c.step = "stored" => Payload(c.session, c.turns) \in blobs
  /\ c.step = "frozen" =>
       /\ c.version \in DOMAIN versions
       /\ versions[c.version].session = c.session
       /\ c.end # None => versions[c.version].end <= c.end
  /\ c.step = "refused" =>
       /\ c.version \in DOMAIN versions
       /\ c.group = None => c.end # None /\ versions[c.version].end < c.end

VersionSessions == \A v \in DOMAIN versions : versions[v].session \in DOMAIN sessions

Blobs == SUBSET (SessionIds \X Nat)

\* The five tables, the blobs, and what the calls in progress know of them.
BranchInv ==
  /\ TypeOK /\ RowsInv /\ LineageInv /\ LogBound
  /\ blobs \subseteq Blobs /\ lost \subseteq Blobs /\ blobs \cap lost = {}
  /\ DOMAIN blobSha = DOMAIN versions
  /\ \A v \in DOMAIN blobSha : blobSha[v] \in Blobs
  /\ calls \in [Requests -> Call]
  /\ VersionSessions /\ VersionHasBlob /\ VersionHoldsItsTurns /\ ChildrenForkAtEnd
  /\ \A r \in Requests : CallFacts(calls[r])

LEMMA TurnsType ==
  ASSUME TypeOK, RowsInv, LogBound, NEW s \in DOMAIN sessions
  PROVE  Turns(s) \subseteq 0..MaxSeq
<1>1. nextSeq[s] \in Nat /\ nextSeq[s] <= MaxSeq + 1
  BY DEF TypeOK, LogBound
<1>2. \A n \in Turns(s) : n \in Nat /\ n < nextSeq[s]
  BY TurnsBelowNext DEF RowsInv
<1>3. QED
  BY <1>1, <1>2, StoreAssumption

LEMMA PayloadType ==
  ASSUME NEW s \in SessionIds, NEW T \in SUBSET Nat
  PROVE  Payload(s, T) \in Blobs
BY DEF Payload, Blobs

LEMMA NoCallFacts == NoCall \in Call /\ CallFacts(NoCall)
BY DEF NoCall, Call, CallFacts

\* A step that lets the log grow and leaves the versions and blobs there are alone
\* keeps what the calls know.
LEMMA CallFactsKeep ==
  ASSUME BranchInv, Grows, NEW r \in Requests, calls'[r] = calls[r],
         blobs \subseteq blobs', DOMAIN versions \subseteq DOMAIN versions',
         \A v \in DOMAIN versions : versions'[v] = versions[v]
  PROVE  CallFacts(calls[r])'
<1> DEFINE c == calls[r]
<1>0. CallFacts(c)
  BY DEF BranchInv
<1>1. ASSUME c.step \in {"read", "stored"}
      PROVE  ChosenTurns(calls[r])'
  <2>1. ChosenTurns(c)
    BY <1>0, <1>1 DEF CallFacts
  <2>2. \A b \in c.turns : b \in Nat /\ b < nextSeq[c.session]
    BY <2>1, TurnsBelowNext DEF ChosenTurns, BranchInv, RowsInv
  <2>3. ASSUME NEW n \in Turns(c.session)', NEW a \in c.turns, NEW b \in c.turns,
               a <= n, n <= b
        PROVE  n \in c.turns
    <3>1. nextSeq[c.session] \in Nat
      BY <2>1 DEF ChosenTurns, BranchInv, TypeOK
    <3>2. CASE n \in Turns(c.session)
      BY <2>1, <2>3, <3>2 DEF ChosenTurns
    <3>3. CASE n \notin Turns(c.session)
      <4>1. n \in Nat /\ n >= nextSeq[c.session]
        BY <2>1, <2>3, <3>3 DEF ChosenTurns, Grows
      <4>2. a \in Nat /\ b \in Nat /\ b < nextSeq[c.session]
        BY <2>2, <2>3
      <4>3. QED
        BY <2>3, <3>1, <4>1, <4>2
    <3>4. QED
      BY <3>2, <3>3
  <2>4. QED
    BY <2>1, <2>3 DEF ChosenTurns, Grows
<1>2. QED
  BY <1>0, <1>1 DEF CallFacts

Held(v) == {n \in Turns(versions[v].session) : versions[v].start <= n /\ n <= versions[v].end}

HoldsItsTurns(v) ==
  /\ blobSha[v] = Payload(versions[v].session, Held(v))
  /\ {versions[v].start, versions[v].end} \subseteq Held(v)

LEMMA VersionTurns == VersionHoldsItsTurns <=> \A v \in DOMAIN versions : HoldsItsTurns(v)
BY DEF VersionHoldsItsTurns, HoldsItsTurns, Held

\* What is appended later lies past the end of a version.
LEMMA VersionKeeps ==
  ASSUME BranchInv, Grows, NEW v \in DOMAIN versions,
         versions'[v] = versions[v], blobSha'[v] = blobSha[v]
  PROVE  HoldsItsTurns(v)'
<1> DEFINE s == versions[v].session
<1>1. HoldsItsTurns(v) /\ s \in DOMAIN sessions
  BY VersionTurns DEF BranchInv, VersionSessions
<1>2. versions[v].end \in Turns(s)
  BY <1>1 DEF HoldsItsTurns, Held
<1>3. versions[v].end \in Nat /\ versions[v].end < nextSeq[s] /\ nextSeq[s] \in Nat
  BY <1>1, <1>2, TurnsBelowNext DEF BranchInv, RowsInv, TypeOK
<1>4. \A n \in Turns(s)' : n <= versions[v].end => n \in Turns(s)
  BY <1>1, <1>3 DEF Grows
<1>5. Turns(s) \subseteq Turns(s)'
  BY <1>1 DEF Grows
<1>6. Held(v)' = Held(v)
  BY <1>4, <1>5 DEF Held
<1>7. QED
  BY <1>1, <1>6 DEF HoldsItsTurns

\* What a step may do to the blobs: only with every call can one disappear, and then the
\* blob of a version is known to be lost.
BlobsKept ==
  /\ blobs' \subseteq Blobs /\ lost' \subseteq Blobs /\ blobs' \cap lost' = {}
  /\ \A v \in DOMAIN versions : blobSha[v] \in blobs' \cup lost'
  /\ blobs \subseteq blobs' \/ \A r \in Requests : calls'[r] = NoCall

LEMMA SameBlobs ==
  ASSUME BranchInv, UNCHANGED <<blobs, lost>>
  PROVE  BlobsKept
BY DEF BranchInv, VersionHasBlob, BlobsKept

LEMMA Frame ==
  ASSUME BranchInv, TypeOK', RowsInv', LineageInv', LogBound', Grows, UNCHANGED <<versions, blobSha>>,
         BlobsKept \/ UNCHANGED <<blobs, lost>>, ChildrenForkAtEnd',
         calls' \in [Requests -> Call],
         \A r \in Requests : calls'[r] = calls[r] \/ CallFacts(calls[r])'
  PROVE  BranchInv'
<1>0. BlobsKept
  BY SameBlobs
<1>1. VersionHoldsItsTurns'
  <2>1. \A v \in DOMAIN versions : HoldsItsTurns(v)'
    BY VersionKeeps
  <2>2. QED
    BY <2>1, VersionTurns DEF VersionHoldsItsTurns, HoldsItsTurns, Held
<1>2. VersionSessions' /\ VersionHasBlob'
  BY <1>0 DEF BranchInv, VersionSessions, VersionHasBlob, Grows, BlobsKept
<1>3. \A r \in Requests : CallFacts(calls[r])'
  <2>1. CASE blobs \subseteq blobs'
    BY <2>1, CallFactsKeep
  <2>2. CASE \A r \in Requests : calls'[r] = NoCall
    BY <2>2 DEF CallFacts, NoCall
  <2>3. QED
    BY <1>0, <2>1, <2>2 DEF BlobsKept
<1>4. QED
  BY <1>0, <1>1, <1>2, <1>3 DEF BranchInv, BlobsKept

LEMMA StoreStep ==
  ASSUME TypeOK, RowsInv, LineageInv, Next \/ UNCHANGED storeVars
  PROVE  TypeOK' /\ RowsInv' /\ LineageInv'
<1>0. LineageInv'
  BY LineageStep
<1>1. CASE UNCHANGED storeVars
  BY <1>0, <1>1 DEF TypeOK, storeVars, RowsInv, LogGapless, GroupRefsPresent, Present
<1>2. CASE Next
  BY <1>0, <1>2, GroupOpsType, SessionOpsType, LogOpsType, RowsGroupOps, RowsSessionOps, RowsLogOps
     DEF Next
<1>3. QED
  BY <1>1, <1>2

\* A request that only looks at the tables.
LEMMA LocalFrame ==
  ASSUME BranchInv, UNCHANGED <<storeVars, blobSha>>,
         BlobsKept \/ UNCHANGED <<blobs, lost>>, calls' \in [Requests -> Call],
         \A r \in Requests : calls'[r] = calls[r] \/ CallFacts(calls[r])'
  PROVE  BranchInv'
<1>1. TypeOK' /\ RowsInv' /\ LineageInv'
  BY StoreStep DEF BranchInv
<1>2. LogBound' /\ ChildrenForkAtEnd' /\ UNCHANGED versions
  BY DEF BranchInv, LogBound, ChildrenForkAtEnd, storeVars
<1>3. Grows
  BY SameLogGrows DEF BranchInv, storeVars
<1>4. QED
  BY <1>1, <1>2, <1>3, Frame

-----------------------------------------------------------------------------
(* The steps of a request *)

LEMMA BeginFreezeInv ==
  ASSUME BranchInv, NEW r \in Requests, NEW s \in SessionIds,
         NEW start \in 0..MaxSeq \cup {None}, NEW end \in 0..MaxSeq \cup {None},
         BeginFreeze(r, s, start, end)
  PROVE  BranchInv'
<1> DEFINE call == [NoCall EXCEPT !.step = "begun", !.session = s, !.start = start, !.end = end]
<1>1. start \in Nat \cup {None} /\ end \in Nat \cup {None}
  BY StoreAssumption
<1>2. call \in Call
  BY <1>1, NoCallFacts DEF Call
<1>3. calls'[r] = call /\ calls' \in [Requests -> Call]
      /\ \A q \in Requests \ {r} : calls'[q] = calls[q]
  BY <1>2 DEF BranchInv, BeginFreeze
<1>4. CallFacts(calls[r])'
  BY <1>3 DEF CallFacts, NoCall
<1>5. QED
  BY <1>3, <1>4, LocalFrame DEF BeginFreeze, BranchInv

LEMMA BeginBranchInv ==
  ASSUME BranchInv, NEW r \in Requests, NEW s \in SessionIds,
         NEW start \in 0..MaxSeq \cup {None}, NEW end \in 0..MaxSeq \cup {None},
         NEW group \in GroupIds \cup {None}, NEW backend \in Backends \cup {None},
         BeginBranch(r, s, start, end, group, backend)
  PROVE  BranchInv'
<1> DEFINE g == IF group # None THEN group ELSE sessions[s].group
           b == IF backend # None THEN backend ELSE sessions[s].backend
           call == [NoCall EXCEPT !.step = "begun", !.branch = TRUE, !.session = s,
                                  !.start = start, !.end = end, !.group = g, !.backend = b]
<1>1. start \in Nat \cup {None} /\ end \in Nat \cup {None}
  BY StoreAssumption
<1>2. g \in GroupIds \cup {None} /\ b \in Backends \cup {None}
  BY DEF BeginBranch, BranchInv, TypeOK, SessionRow
<1> HIDE DEF g, b
<1>3. call \in Call
  BY <1>1, <1>2, NoCallFacts DEF Call
<1>4. calls' = [calls EXCEPT ![r] = call]
  BY DEF BeginBranch, g, b
<1>5. calls'[r] = call /\ calls' \in [Requests -> Call]
      /\ \A q \in Requests \ {r} : calls'[q] = calls[q]
  BY <1>3, <1>4 DEF BranchInv
<1>6. CallFacts(calls[r])'
  BY <1>5 DEF CallFacts, NoCall
<1>7. QED
  BY <1>5, <1>6, LocalFrame DEF BeginBranch, BranchInv

LEMMA ReadLogInv ==
  ASSUME BranchInv, NEW r \in Requests, ReadLog(r)
  PROVE  BranchInv'
<1> DEFINE c == calls[r]
           chosen == {n \in Turns(c.session) : InRange(n, c.start, c.end)}
           call == [c EXCEPT !.step = "read", !.start = None, !.turns = chosen]
<1>1. /\ c \in Call /\ c.step = "begun" /\ c.session \in DOMAIN sessions
      /\ c.session \in SessionIds
  BY DEF BranchInv, ReadLog, TypeOK
<1>2. Turns(c.session) \subseteq 0..MaxSeq
  BY <1>1, TurnsType DEF BranchInv
<1>3. chosen \subseteq Turns(c.session) /\ chosen \subseteq Nat
  BY <1>2, StoreAssumption
<1>4. \A n \in Turns(c.session), a, b \in chosen : a <= n /\ n <= b => n \in chosen
  <2>1. c.start \in Nat \cup {None} /\ c.end \in Nat \cup {None}
    BY <1>1 DEF Call
  <2>2. \A n \in Turns(c.session) : n \in Nat
    BY <1>2, StoreAssumption
  <2>3. QED
    BY <2>1, <2>2 DEF InRange
<1>5. c.end # None => \A n \in chosen : n <= c.end
  BY DEF InRange
<1>6. calls' = [calls EXCEPT ![r] = IF chosen = {} THEN NoCall ELSE call]
  BY DEF ReadLog
<1> HIDE DEF chosen
<1>7. call \in Call
  BY <1>1, <1>3 DEF Call
<1>8. /\ call.step = "read" /\ call.session = c.session /\ call.turns = chosen
      /\ call.end = c.end
  BY <1>1 DEF Call
<1> HIDE DEF call
<1>9. calls' \in [Requests -> Call] /\ \A q \in Requests \ {r} : calls'[q] = calls[q]
  BY <1>6, <1>7, NoCallFacts DEF BranchInv
<1>10. UNCHANGED <<storeVars, blobs, lost, blobSha>>
  BY DEF ReadLog
<1>11. CallFacts(calls[r])'
  <2>1. CASE chosen = {}
    <3>1. calls'[r] = NoCall
      BY <1>6, <2>1 DEF BranchInv
    <3>2. QED
      BY <3>1 DEF CallFacts, NoCall
  <2>2. CASE chosen # {}
    <3>1. calls'[r] = call
      BY <1>6, <2>2 DEF BranchInv
    <3>2. ChosenTurns(calls[r])'
      BY <1>1, <1>3, <1>4, <1>5, <1>8, <1>10, <2>2, <3>1 DEF ChosenTurns, Turns, storeVars
    <3>3. QED
      BY <1>1, <1>8, <3>1, <3>2 DEF CallFacts
  <2>3. QED
    BY <2>1, <2>2
<1>12. QED
  BY <1>9, <1>10, <1>11, LocalFrame DEF BranchInv

LEMMA WriteBlobInv ==
  ASSUME BranchInv, NEW r \in Requests, WriteBlob(r)
  PROVE  BranchInv'
<1> DEFINE c == calls[r]
<1>1. c \in Call /\ c.step = "read" /\ CallFacts(c) /\ ChosenTurns(c) /\ c.session \in SessionIds
  BY DEF BranchInv, WriteBlob, CallFacts
<1>2. Payload(c.session, c.turns) \in Blobs
  BY <1>1, PayloadType DEF Call
<1>3. /\ blobs' = blobs \cup {Payload(c.session, c.turns)}
      /\ lost' = lost \ {Payload(c.session, c.turns)}
  BY DEF WriteBlob
<1>4. calls' = [calls EXCEPT ![r] = [c EXCEPT !.step = "stored"]]
  BY DEF WriteBlob
<1>5. /\ [c EXCEPT !.step = "stored"] \in Call
      /\ [c EXCEPT !.step = "stored"].step = "stored"
      /\ [c EXCEPT !.step = "stored"].session = c.session
      /\ [c EXCEPT !.step = "stored"].turns = c.turns
      /\ [c EXCEPT !.step = "stored"].end = c.end
  BY <1>1 DEF Call
<1>6. calls' \in [Requests -> Call] /\ \A q \in Requests \ {r} : calls'[q] = calls[q]
  BY <1>4, <1>5 DEF BranchInv
<1>7. calls'[r].step = "stored" /\ calls'[r].session = c.session
      /\ calls'[r].turns = c.turns /\ calls'[r].end = c.end
  BY <1>4, <1>5 DEF BranchInv
<1>8. UNCHANGED <<storeVars, blobSha>>
  BY DEF WriteBlob
<1>9. ChosenTurns(calls[r])'
  BY <1>1, <1>7, <1>8 DEF ChosenTurns, Turns, storeVars
<1>10. CallFacts(calls[r])'
  BY <1>1, <1>3, <1>7, <1>9 DEF CallFacts
<1>11. BlobsKept
  BY <1>2, <1>3 DEF BranchInv, VersionHasBlob, BlobsKept
<1>12. QED
  BY <1>6, <1>8, <1>10, <1>11, LocalFrame DEF BranchInv

LEMMA RefuseChildInv ==
  ASSUME BranchInv, NEW r \in Requests, RefuseChild(r)
  PROVE  BranchInv'
<1> DEFINE c == calls[r]
<1>1. c \in Call /\ c.step = "frozen" /\ c.session \in SessionIds
  BY DEF BranchInv, RefuseChild, CallFacts
<1>2. calls' = [calls EXCEPT ![r] = [c EXCEPT !.step = "refused"]]
  BY DEF RefuseChild
<1>3. /\ [c EXCEPT !.step = "refused"] \in Call
      /\ [c EXCEPT !.step = "refused"].step = "refused"
      /\ \A f \in {"session", "version", "group", "end"} : [c EXCEPT !.step = "refused"][f] = c[f]
  BY <1>1 DEF Call
<1>4. calls' \in [Requests -> Call] /\ \A q \in Requests \ {r} : calls'[q] = calls[q]
  BY <1>2, <1>3 DEF BranchInv
<1>5. /\ calls'[r].step = "refused" /\ calls'[r].session = c.session
      /\ calls'[r].version = c.version /\ calls'[r].group = c.group /\ calls'[r].end = c.end
  BY <1>2, <1>3 DEF BranchInv
<1>6. /\ c.version \in DOMAIN versions /\ versions[c.version].session = c.session
      /\ c.end # None => versions[c.version].end <= c.end
      /\ c.end \in Nat \cup {None}
      /\ versions[c.version].start \in Nat /\ versions[c.version].end \in Nat
  BY <1>1 DEF BranchInv, CallFacts, TypeOK, VersionRow, Call
<1>7. versions[c.version].start <= versions[c.version].end
  BY <1>6, VersionTurns DEF BranchInv, HoldsItsTurns, Held
<1>8. ASSUME c.group = None
      PROVE  c.end # None /\ versions[c.version].end < c.end
  <2>1. ~ForkPointOK(c.session, c.version, ForkSeq(r))
    BY <1>8 DEF RefuseChild
  <2>2. ForkSeq(r) # None
    BY <1>6, StoreAssumption DEF ForkSeq
  <2>3. ForkSeq(r) # versions[c.version].end
    BY <1>6, <1>7, <2>1, <2>2 DEF ForkPointOK
  <2>4. CASE c.end = None
    BY <2>3, <2>4 DEF ForkSeq
  <2>5. CASE c.end # None
    <3>1. ForkSeq(r) = c.end
      BY <2>5 DEF ForkSeq
    <3>2. QED
      BY <1>6, <2>3, <2>5, <3>1
  <2>6. QED
    BY <2>4, <2>5
<1>9. CallFacts(calls[r])'
  BY <1>1, <1>5, <1>6, <1>8 DEF CallFacts, RefuseChild, storeVars
<1>10. QED
  BY <1>4, <1>9, LocalFrame DEF RefuseChild, BranchInv

LEMMA FailInv ==
  ASSUME BranchInv, NEW r \in Requests, Fail(r)
  PROVE  BranchInv'
<1>1. calls' \in [Requests -> Call] /\ \A q \in Requests \ {r} : calls'[q] = calls[q]
  BY NoCallFacts DEF BranchInv, Fail
<1>2. calls'[r] = NoCall
  BY DEF BranchInv, Fail
<1>3. CallFacts(calls[r])'
  BY <1>2 DEF CallFacts, NoCall
<1>4. QED
  BY <1>1, <1>3, LocalFrame DEF Fail, BranchInv

LEMMA PowerLossInv ==
  ASSUME BranchInv, PowerLoss
  PROVE  BranchInv'
<1>1. calls' \in [Requests -> Call] /\ \A r \in Requests : calls'[r] = NoCall
  BY NoCallFacts DEF PowerLoss
<1>2. \A r \in Requests : CallFacts(calls[r])'
  BY <1>1 DEF CallFacts, NoCall
<1>3. /\ blobs' \subseteq blobs
      /\ lost' = lost \cup ({blobSha[v] : v \in DOMAIN versions} \cap (blobs \ blobs'))
  BY DEF PowerLoss
<1>4. BlobsKept
  BY <1>1, <1>3 DEF BranchInv, VersionHasBlob, BlobsKept
<1>5. QED
  BY <1>1, <1>2, <1>4, LocalFrame DEF PowerLoss

\* The range of the version that a call is about to insert.
LEMMA ChosenRange ==
  ASSUME BranchInv, NEW r \in Requests, calls[r].step = "stored"
  PROVE  LET c == calls[r] IN
         /\ c.session \in DOMAIN sessions /\ c.session \in SessionIds
         /\ ChosenTurns(c) /\ Payload(c.session, c.turns) \in blobs
         /\ Min(c.turns) \in c.turns /\ LastTurn(r) \in c.turns
         /\ Min(c.turns) \in 0..MaxSeq /\ LastTurn(r) \in 0..MaxSeq
         /\ \A n \in c.turns : Min(c.turns) <= n /\ n <= LastTurn(r)
<1> DEFINE c == calls[r]
<1>1. CallFacts(c) /\ ChosenTurns(c) /\ c.session \in SessionIds
      /\ Payload(c.session, c.turns) \in blobs
  BY DEF BranchInv, CallFacts
<1>2. c.turns \in SUBSET (0..MaxSeq) /\ c.turns # {} /\ c.session \in DOMAIN sessions
  BY <1>1, TurnsType DEF ChosenTurns, BranchInv
<1>3. MaxSeq \in Nat
  BY StoreAssumption
<1>4. QED
  BY <1>1, <1>2, <1>3, MinMax DEF LastTurn

LEMMA InsertVersionInv ==
  ASSUME BranchInv, NEW r \in Requests, NEW v \in VersionIds, InsertVersion(r, v)
  PROVE  BranchInv'
<1> DEFINE c == calls[r]
           first == Min(c.turns)
           last == LastTurn(r)
           sha == Payload(c.session, c.turns)
           row == [session |-> c.session, start |-> first, end |-> last,
                   turnCount |-> last - first + 1]
<1>1. c \in Call /\ c.step = "stored"
  BY DEF BranchInv, InsertVersion
<1>2. /\ c.session \in DOMAIN sessions /\ c.session \in SessionIds /\ ChosenTurns(c)
      /\ sha \in blobs
      /\ first \in c.turns /\ last \in c.turns /\ first \in 0..MaxSeq /\ last \in 0..MaxSeq
      /\ \A n \in c.turns : first <= n /\ n <= last
  BY <1>1, ChosenRange
<1> HIDE DEF first, last
<1>3. CreateVersion(v, c.session, first, last)
  BY DEF InsertVersion, first, last
<1>4. /\ v \notin DOMAIN versions /\ versions' = Insert(versions, v, row)
      /\ blobSha' = Insert(blobSha, v, sha)
      /\ UNCHANGED <<groups, sessions, events, nextSeq, queries, blobs, lost>>
  BY <1>3 DEF CreateVersion, InsertVersion, NewId
<1> HIDE DEF row, sha
<1>5. /\ DOMAIN versions' = DOMAIN versions \cup {v} /\ versions'[v] = row
      /\ \A w \in DOMAIN versions : versions'[w] = versions[w]
      /\ DOMAIN blobSha' = DOMAIN versions' /\ blobSha'[v] = sha
      /\ \A w \in DOMAIN versions : blobSha'[w] = blobSha[w]
  BY <1>4 DEF Insert, BranchInv
<1>6. row.session = c.session /\ row.start = first /\ row.end = last
  BY DEF row
<1>7. TypeOK' /\ RowsInv' /\ LineageInv'
  <2>1. Next
    BY <1>2, <1>3 DEF Next, LogOps
  <2>2. QED
    BY <2>1, StoreStep DEF BranchInv
<1>8. LogBound' /\ Grows
  BY <1>4, SameLogGrows DEF BranchInv, LogBound
<1>9. HoldsItsTurns(v)'
  <2> PICK s \in SessionIds : s = c.session
    BY <1>2
  <2>1. Turns(s)' = Turns(s)
    BY <1>4 DEF Turns
  <2>2. c.turns \subseteq Turns(c.session)
    BY <1>2 DEF ChosenTurns
  <2>3. \A n \in Turns(c.session) : first <= n /\ n <= last => n \in c.turns
    BY <1>2 DEF ChosenTurns
  <2>4. {n \in Turns(c.session) : first <= n /\ n <= last} = c.turns
    BY <1>2, <2>2, <2>3
  <2>5. Held(v)' = c.turns
    BY <1>5, <1>6, <2>1, <2>4 DEF Held
  <2>6. QED
    BY <1>2, <1>5, <1>6, <2>5 DEF HoldsItsTurns, sha
<1>10. VersionHoldsItsTurns'
  <2>1. \A w \in DOMAIN versions : HoldsItsTurns(w)'
    BY <1>5, <1>8, VersionKeeps
  <2>2. QED
    BY <1>5, <1>9, <2>1, VersionTurns DEF VersionHoldsItsTurns, HoldsItsTurns, Held
<1>11. VersionHasBlob' /\ VersionSessions'
  BY <1>2, <1>4, <1>5, <1>6 DEF BranchInv, VersionHasBlob, VersionSessions
<1>12. ChildrenForkAtEnd'
  <2>1. \A s \in DOMAIN sessions : sessions[s].version # None =>
          sessions[s].version \in DOMAIN versions
    BY DEF BranchInv, LineageInv, ForkPointInVersion
  <2>2. QED
    BY <1>4, <1>5, <2>1 DEF BranchInv, ChildrenForkAtEnd
<1> DEFINE call == [c EXCEPT !.step = "frozen", !.version = v, !.turns = {}]
<1>13. /\ call \in Call /\ call.step = "frozen" /\ call.version = v
       /\ call.session = c.session /\ call.end = c.end
  BY <1>1 DEF Call
<1>14. calls' = [calls EXCEPT ![r] = IF c.branch THEN call ELSE NoCall]
  BY DEF InsertVersion
<1> HIDE DEF call
<1>15. calls' \in [Requests -> Call] /\ \A q \in Requests \ {r} : calls'[q] = calls[q]
  BY <1>13, <1>14, NoCallFacts DEF BranchInv
<1>16. CallFacts(calls[r])'
  <2>1. CASE ~c.branch
    <3>1. calls'[r] = NoCall
      BY <1>14, <2>1 DEF BranchInv
    <3>2. QED
      BY <3>1 DEF CallFacts, NoCall
  <2>2. CASE c.branch
    <3>1. calls'[r] = call
      BY <1>14, <2>2 DEF BranchInv
    <3>2. call.end # None => last <= call.end
      BY <1>2, <1>13 DEF ChosenTurns
    <3>3. QED
      BY <1>2, <1>5, <1>6, <1>13, <3>1, <3>2 DEF CallFacts
  <2>3. QED
    BY <2>1, <2>2
<1>17. \A q \in Requests : CallFacts(calls[q])'
  BY <1>4, <1>5, <1>8, <1>15, <1>16, CallFactsKeep
<1>18. \A w \in DOMAIN blobSha' : blobSha'[w] \in Blobs
  BY <1>2, <1>5 DEF BranchInv
<1>19. QED
  BY <1>4, <1>5, <1>7, <1>8, <1>10, <1>11, <1>12, <1>15, <1>17, <1>18 DEF BranchInv

\* The store accepts a child only at the end of the version frozen for it: an end the
\* request named lies past the last turn, and then outside the version, or is it.
LEMMA CreateChildInv ==
  ASSUME BranchInv, NEW r \in Requests, NEW child \in SessionIds, NEW title \in Titles,
         CreateChild(r, child, title)
  PROVE  BranchInv' /\ Next
<1> DEFINE c == calls[r]
           v == c.version
           n == ForkSeq(r)
<1>1. /\ c \in Call /\ c.step = "frozen" /\ c.session \in SessionIds
      /\ v \in DOMAIN versions /\ versions[v].session = c.session
      /\ c.end # None => versions[v].end <= c.end
  BY DEF BranchInv, CreateChild, CallFacts
<1>2. CreateFork(child, c.group, c.session, v, n, title, c.backend)
  BY DEF CreateChild
<1>3. v \in VersionIds /\ v # None
  BY <1>1, StoreAssumption DEF BranchInv, TypeOK
<1>4. n <= versions[v].end /\ n # None
  BY <1>2, <1>3 DEF CreateFork, CreateSession, ForkPointOK
<1>5. versions[v].end \in 0..MaxSeq
  <2>1. versions[v].end \in Turns(versions[v].session) /\ versions[v].session \in DOMAIN sessions
    BY <1>1, VersionTurns DEF BranchInv, HoldsItsTurns, Held, VersionSessions
  <2>2. QED
    BY <2>1, TurnsType DEF BranchInv
<1>6. n = versions[v].end
  <2>1. CASE c.end = None
    BY <2>1 DEF ForkSeq
  <2>2. CASE c.end # None
    <3>1. n = c.end /\ n \in Nat
      BY <1>1, <2>2 DEF ForkSeq, Call
    <3>2. QED
      BY <1>1, <1>4, <1>5, <2>2, <3>1, StoreAssumption
  <2>3. QED
    BY <2>1, <2>2
<1> HIDE DEF n
<1>7. Next
  <2>1. c.group \in GroupIds \cup {None} /\ c.backend \in Backends \cup {None}
    BY <1>1 DEF Call
  <2>2. QED
    BY <1>1, <1>2, <1>3, <1>5, <1>6, <2>1 DEF Next, SessionOps
<1>8. TypeOK' /\ RowsInv' /\ LineageInv'
  BY <1>7, StoreStep DEF BranchInv
<1>9. /\ child \notin DOMAIN sessions
      /\ DOMAIN sessions' = DOMAIN sessions \cup {child}
      /\ \A s \in DOMAIN sessions : sessions'[s] = sessions[s]
      /\ sessions'[child].version = v /\ sessions'[child].forkSeq = n
      /\ \A s \in DOMAIN sessions : events'[s] = events[s] /\ nextSeq'[s] = nextSeq[s]
      /\ nextSeq'[child] = 0
      /\ UNCHANGED <<versions, blobs, lost, blobSha>>
  BY <1>2 DEF CreateFork, CreateSession, Insert, NewId, BranchInv, TypeOK, CreateChild
<1>10. Grows
  BY <1>9 DEF Grows, Turns
<1>11. LogBound'
  BY <1>9, StoreAssumption DEF BranchInv, LogBound
<1>12. ChildrenForkAtEnd'
  BY <1>6, <1>9 DEF BranchInv, ChildrenForkAtEnd
<1>13. calls' \in [Requests -> Call] /\ \A q \in Requests \ {r} : calls'[q] = calls[q]
  BY NoCallFacts DEF BranchInv, CreateChild
<1>14. CallFacts(calls[r])'
  <2>1. calls'[r] = NoCall
    BY DEF BranchInv, CreateChild
  <2>2. QED
    BY <2>1 DEF CallFacts, NoCall
<1>15. BranchInv'
  BY <1>8, <1>9, <1>10, <1>11, <1>12, <1>13, <1>14, Frame DEF BranchInv
<1>16. QED
  BY <1>7, <1>15

LEMMA GroupOpsFrame ==
  ASSUME BranchInv, GroupOps
  PROVE  /\ UNCHANGED <<versions, events, nextSeq>>
         /\ DOMAIN sessions' = DOMAIN sessions
         /\ \A s \in DOMAIN sessions : /\ sessions'[s].version = sessions[s].version
                                       /\ sessions'[s].forkSeq = sessions[s].forkSeq
<1>1. PICK g \in GroupIds :
        \/ CreateGroup(g)
        \/ DeleteGroup(g)
        \/ \E s \in SessionIds, to \in {g, None} : UpdateSessionGroup(s, to)
  BY DEF GroupOps
<1>2. CASE CreateGroup(g)
  BY <1>2 DEF CreateGroup
<1>3. CASE DeleteGroup(g)
  BY <1>3 DEF DeleteGroup, BranchInv, TypeOK, SessionRow
<1>4. ASSUME NEW s \in SessionIds, NEW to \in {g, None}, UpdateSessionGroup(s, to)
      PROVE  /\ UNCHANGED <<versions, events, nextSeq>>
             /\ DOMAIN sessions' = DOMAIN sessions
             /\ \A x \in DOMAIN sessions : /\ sessions'[x].version = sessions[x].version
                                           /\ sessions'[x].forkSeq = sessions[x].forkSeq
  BY <1>4 DEF UpdateSessionGroup, BranchInv, TypeOK, SessionRow
<1>5. QED
  BY <1>1, <1>2, <1>3, <1>4

LEMMA OthersStore == OtherRequests => Next
BY DEF OtherRequests, Next, SessionOps, LogOps

LEMMA OtherRequestsInv ==
  ASSUME BranchInv, OtherRequests
  PROVE  BranchInv'
<1>1. TypeOK' /\ RowsInv' /\ LineageInv'
  BY OthersStore, StoreStep DEF BranchInv
<1>2. UNCHANGED <<blobs, lost, blobSha, calls>>
  BY DEF OtherRequests
<1> SUFFICES LogBound' /\ Grows /\ UNCHANGED versions /\ ChildrenForkAtEnd'
  BY <1>1, <1>2, Frame DEF BranchInv
<1>3. CASE GroupOps
  <2>1. LogBound' /\ ChildrenForkAtEnd' /\ UNCHANGED versions
    BY <1>3, GroupOpsFrame DEF BranchInv, LogBound, ChildrenForkAtEnd
  <2>2. Grows
    BY <1>3, GroupOpsFrame DEF Grows, Turns
  <2>3. QED
    BY <2>1, <2>2
<1>4. ASSUME NEW s \in SessionIds, NEW kind \in Kinds, AppendEvent(s, kind)
      PROVE  LogBound' /\ Grows /\ UNCHANGED versions /\ ChildrenForkAtEnd'
  <2>1. LogBound' /\ Grows
    BY <1>4, AppendGrows DEF BranchInv, RowsInv
  <2>2. UNCHANGED <<versions, sessions>>
    BY <1>4 DEF AppendEvent
  <2>3. QED
    BY <2>1, <2>2 DEF BranchInv, ChildrenForkAtEnd
<1>5. ASSUME NEW s \in SessionIds, NEW g \in GroupIds \cup {None}, NEW title \in Titles,
             NEW backend \in Backends \cup {None}, CreateRoot(s, g, title, backend)
      PROVE  LogBound' /\ Grows /\ UNCHANGED versions /\ ChildrenForkAtEnd'
  <2>1. /\ s \notin DOMAIN sessions
        /\ DOMAIN sessions' = DOMAIN sessions \cup {s}
        /\ \A x \in DOMAIN sessions : sessions'[x] = sessions[x]
        /\ sessions'[s].version = None
        /\ \A x \in DOMAIN sessions : events'[x] = events[x] /\ nextSeq'[x] = nextSeq[x]
        /\ nextSeq'[s] = 0
        /\ UNCHANGED versions
    BY <1>5 DEF CreateRoot, CreateSession, Insert, NewId, BranchInv, TypeOK
  <2>2. LogBound'
    BY <2>1, StoreAssumption DEF BranchInv, LogBound
  <2>3. Grows
    BY <2>1 DEF Grows, Turns
  <2>4. ChildrenForkAtEnd'
    BY <2>1 DEF BranchInv, ChildrenForkAtEnd
  <2>5. QED
    BY <2>1, <2>2, <2>3, <2>4
<1>6. QED
  BY <1>3, <1>4, <1>5 DEF OtherRequests

-----------------------------------------------------------------------------
(* Theorems *)

LEMMA InsertVersionStore ==
  ASSUME BranchInv, NEW r \in Requests, NEW v \in VersionIds, InsertVersion(r, v)
  PROVE  Next
<1>1. calls[r].step = "stored"
  BY DEF InsertVersion
<1>2. /\ calls[r].session \in SessionIds
      /\ Min(calls[r].turns) \in 0..MaxSeq /\ LastTurn(r) \in 0..MaxSeq
  BY <1>1, ChosenRange
<1>3. CreateVersion(v, calls[r].session, Min(calls[r].turns), LastTurn(r))
  BY DEF InsertVersion
<1>4. QED
  BY <1>2, <1>3 DEF Next, LogOps

LEMMA BranchStep ==
  ASSUME BranchInv, [BranchNext]_branchVars
  PROVE  BranchInv' /\ (Next \/ UNCHANGED storeVars)
<1>1. CASE OtherRequests
  BY <1>1, OtherRequestsInv, OthersStore
<1>2. ASSUME NEW r \in Requests, Freeze(r)
      PROVE  BranchInv' /\ (Next \/ UNCHANGED storeVars)
  <2>1. ASSUME NEW s \in SessionIds, NEW start \in 0..MaxSeq \cup {None},
               NEW end \in 0..MaxSeq \cup {None}, BeginFreeze(r, s, start, end)
        PROVE  BranchInv' /\ UNCHANGED storeVars
    BY <2>1, BeginFreezeInv DEF BeginFreeze
  <2>2. CASE ReadLog(r)
    BY <2>2, ReadLogInv DEF ReadLog
  <2>3. CASE WriteBlob(r)
    BY <2>3, WriteBlobInv DEF WriteBlob
  <2>4. ASSUME NEW v \in VersionIds, InsertVersion(r, v)
        PROVE  BranchInv' /\ Next
    BY <2>4, InsertVersionInv, InsertVersionStore
  <2>5. QED
    BY <1>2, <2>1, <2>2, <2>3, <2>4 DEF Freeze
<1>3. ASSUME NEW r \in Requests, Branch(r)
      PROVE  BranchInv' /\ (Next \/ UNCHANGED storeVars)
  <2>1. ASSUME NEW s \in SessionIds, NEW start \in 0..MaxSeq \cup {None},
               NEW end \in 0..MaxSeq \cup {None}, NEW group \in GroupIds \cup {None},
               NEW backend \in Backends \cup {None},
               BeginBranch(r, s, start, end, group, backend)
        PROVE  BranchInv' /\ UNCHANGED storeVars
    <3>1. BranchInv'
      BY <2>1, BeginBranchInv
    <3>2. UNCHANGED storeVars
      BY <2>1 DEF BeginBranch
    <3>3. QED
      BY <3>1, <3>2
  <2>2. ASSUME NEW child \in SessionIds, NEW title \in Titles, CreateChild(r, child, title)
        PROVE  BranchInv' /\ Next
    BY <2>2, CreateChildInv
  <2>3. CASE RefuseChild(r)
    BY <2>3, RefuseChildInv DEF RefuseChild
  <2>4. QED
    BY <1>3, <2>1, <2>2, <2>3 DEF Branch
<1>4. ASSUME NEW r \in Requests, Fail(r)
      PROVE  BranchInv' /\ UNCHANGED storeVars
  BY <1>4, FailInv DEF Fail
<1>5. CASE UNCHANGED branchVars
  <2>1. UNCHANGED storeVars /\ UNCHANGED <<blobs, lost, blobSha, calls>>
    BY <1>5 DEF branchVars, storeVars
  <2>2. QED
    BY <2>1, LocalFrame DEF BranchInv
<1>6. CASE PowerLoss
  BY <1>6, PowerLossInv DEF PowerLoss
<1>7. QED
  BY <1>1, <1>2, <1>3, <1>4, <1>5, <1>6 DEF BranchNext

LEMMA BranchInitial == BranchInit => BranchInv
<1> SUFFICES ASSUME BranchInit
             PROVE  BranchInv
  OBVIOUS
<1>1. TypeOK /\ RowsInv /\ LineageInv /\ LogBound
  BY DEF BranchInit, Init, TypeOK, RowsInv, LogGapless, GroupRefsPresent, LineageInv,
         ParentsPresent, ForkDagWellFounded, ForkPointInVersion, PinnedForksStayPinned, LogBound
<1>2. /\ DOMAIN blobSha = DOMAIN versions /\ DOMAIN versions = {} /\ DOMAIN sessions = {}
      /\ blobs = {} /\ lost = {}
  BY DEF BranchInit, Init
<1>3. VersionSessions /\ VersionHasBlob /\ VersionHoldsItsTurns /\ ChildrenForkAtEnd
  BY <1>2 DEF VersionSessions, VersionHasBlob, VersionHoldsItsTurns, ChildrenForkAtEnd
<1>4. calls \in [Requests -> Call] /\ \A r \in Requests : CallFacts(calls[r])
  BY NoCallFacts DEF BranchInit
<1>5. QED
  BY <1>1, <1>2, <1>3, <1>4 DEF BranchInv

THEOREM BranchInvariant == BranchSpec => []BranchInv
<1>1. BranchInv /\ [BranchNext]_branchVars => BranchInv'
  BY BranchStep
<1>2. QED
  BY <1>1, BranchInitial, PTL DEF BranchSpec

\* The handlers of /freeze and /branch, whatever their interleaving, use the store as
\* SessionStore allows: its theorems hold of every run of them.
THEOREM BranchImplementsStore == BranchSpec => Spec
<1>1. BranchInit => Init
  BY DEF BranchInit
<1>2. BranchInv /\ [BranchNext]_branchVars => [Next]_storeVars
  BY BranchStep
<1>3. QED
  BY <1>1, <1>2, BranchInvariant, PTL DEF BranchSpec, Spec

\* No interleaving of requests and no failure of one leaves a version row without its
\* blob: where it is gone, a power loss has taken it after the row was inserted.
THEOREM VersionsHaveBlobs == BranchSpec => [](BranchTypeOK /\ VersionHasBlob /\ CallInv)
<1>1. BranchInv => BranchTypeOK /\ VersionHasBlob /\ CallInv
  BY DEF BranchInv, BranchTypeOK, CallInv, CallFacts, Blobs
<1>2. QED
  BY <1>1, BranchInvariant, PTL

\* A version holds exactly the turns of its range, however many requests append to the
\* log while it is frozen.
THEOREM VersionsHoldTheirTurns == BranchSpec => []VersionHoldsItsTurns
<1>1. BranchInv => VersionHoldsItsTurns
  BY DEF BranchInv
<1>2. QED
  BY <1>1, BranchInvariant, PTL

\* A child of POST /branch forks at the end of the version frozen for it, and a branch
\* outside any group is turned away only for an end past that one.
THEOREM BranchesForkAtEnd == BranchSpec => []BranchForksAtEnd
<1>1. BranchInv => BranchForksAtEnd
  BY DEF BranchInv, BranchForksAtEnd, RefusedPastEnd, CallFacts, ForkSeq
<1>2. QED
  BY <1>1, BranchInvariant, PTL

\* What is proved of the store holds while any number of requests freeze and branch: the
\* logs they read are gapless, and nothing they or the others write is changed later.
THEOREM BranchKeepsHistory == BranchSpec => []LogGapless /\ HistoryWriteOnce
  BY BranchImplementsStore, StoreRows, StoreWritesOnce, PTL

\* The lineage the branches add to is that of a store that only forks at checked points.
THEOREM BranchKeepsLineage ==
  BranchSpec => [](ForkDagWellFounded /\ ForkPointInVersion /\ PinnedForksStayPinned)
  BY BranchImplementsStore, StoreLineage, PTL

-----------------------------------------------------------------------------
(* Branching at any event of a log that has turns only                     *)

Named(c) == c.end # None /\ c.end < nextSeq[c.session]

\* An event that a branch names is among the turns that are chosen for it, and so inside
\* the version that is frozen for it.
NamedIsFrozen(c) ==
  /\ c.step \in {"read", "stored", "frozen", "refused"} => c.session \in DOMAIN sessions
  /\ c.step \in {"read", "stored"} /\ Named(c) => c.end \in c.turns
  /\ c.step \in {"frozen", "refused"} /\ Named(c) => c.end <= versions[c.version].end

\* When every event is a turn, each seq of the log is one of its turns.
LEMMA AllTurns ==
  ASSUME TypeOK, RowsInv, Kinds = {"turn"}, NEW s \in DOMAIN sessions,
         NEW n \in Nat, n < nextSeq[s]
  PROVE  n \in Turns(s)
<1>1. /\ Len(events[s]) = nextSeq[s] /\ nextSeq[s] \in Nat
      /\ \A i \in 1..Len(events[s]) : events[s][i].seq = i - 1
      /\ events[s] \in Seq(EventRow)
  BY DEF TypeOK, RowsInv, LogGapless
<1>2. n + 1 \in 1..Len(events[s]) /\ (n + 1) - 1 = n
  BY <1>1
<1>3. events[s][n + 1].kind = "turn" /\ events[s][n + 1].seq = n
  <2>1. \A i \in 1..Len(events[s]) : events[s][i] \in EventRow
    BY <1>1
  <2>2. events[s][n + 1] \in EventRow
    BY <1>2, <2>1
  <2>3. QED
    BY <1>1, <1>2, <2>2 DEF EventRow
<1>4. QED
  BY <1>2, <1>3 DEF Turns

\* The tables around a call in progress, when no log grows meanwhile.
LEMMA QuietTables ==
  ASSUME BranchInv, BranchInv', Next \/ UNCHANGED storeVars, LogsRest,
         NEW r \in Requests, calls[r].step # "idle"
  PROVE  /\ \A s \in DOMAIN sessions : s \in DOMAIN sessions' /\ nextSeq'[s] = nextSeq[s]
         /\ \A v \in DOMAIN versions : v \in DOMAIN versions' /\ versions'[v] = versions[v]
<1>1. TypeOK /\ RowsInv /\ RowsInv'
  BY DEF BranchInv
<1>2. \A s \in DOMAIN sessions : s \in DOMAIN sessions'
  BY <1>1, StepKeepsLineage DEF storeVars
<1>3. \A v \in DOMAIN versions : v \in DOMAIN versions' /\ versions'[v] = versions[v]
  BY <1>1, StepWritesOnce DEF storeVars, TablesWrittenOnce
<1>4. ASSUME NEW s \in DOMAIN sessions
      PROVE  nextSeq'[s] = nextSeq[s]
  BY <1>1, <1>2 DEF LogsRest, RowsInv, LogGapless
<1>5. QED
  BY <1>2, <1>3, <1>4

\* A call whose row does not change, or changes only in its step.
LEMMA NamedStays ==
  ASSUME BranchInv, BranchInv', Next \/ UNCHANGED storeVars, LogsRest,
         NEW r \in Requests, NamedIsFrozen(calls[r]),
         \/ calls'[r] = calls[r]
         \/ /\ calls[r].step = "read" /\ calls'[r].step = "stored"
            /\ calls'[r].session = calls[r].session /\ calls'[r].end = calls[r].end
            /\ calls'[r].turns = calls[r].turns
         \/ /\ calls[r].step = "frozen" /\ calls'[r].step = "refused"
            /\ calls'[r].session = calls[r].session /\ calls'[r].end = calls[r].end
            /\ calls'[r].version = calls[r].version
  PROVE  NamedIsFrozen(calls[r])'
<1>1. calls[r].step \in {"frozen", "refused"} => calls[r].version \in DOMAIN versions
  BY DEF BranchInv, CallFacts
<1>2. CASE calls[r].step = "idle"
  BY <1>2 DEF NamedIsFrozen
<1>3. CASE calls[r].step # "idle"
  <2>1. /\ \A s \in DOMAIN sessions : s \in DOMAIN sessions' /\ nextSeq'[s] = nextSeq[s]
        /\ \A v \in DOMAIN versions : v \in DOMAIN versions' /\ versions'[v] = versions[v]
    BY <1>3, QuietTables
  <2>2. QED
    BY <1>1, <2>1 DEF NamedIsFrozen, Named
<1>4. QED
  BY <1>2, <1>3

LEMMA ReadLogNamed ==
  ASSUME BranchInv, Kinds = {"turn"}, NEW r \in Requests, ReadLog(r)
  PROVE  NamedIsFrozen(calls[r])'
<1> DEFINE c == calls[r]
           chosen == {n \in Turns(c.session) : InRange(n, c.start, c.end)}
           call == [c EXCEPT !.step = "read", !.start = None, !.turns = chosen]
<1>1. c \in Call /\ c.session \in DOMAIN sessions /\ TypeOK /\ RowsInv
  BY DEF BranchInv, ReadLog
<1>2. calls'[r] = IF chosen = {} THEN NoCall ELSE call
  BY DEF ReadLog, BranchInv
<1>3. UNCHANGED <<sessions, events, nextSeq, versions>>
  BY DEF ReadLog, storeVars
<1>4. CASE chosen = {}
  BY <1>2, <1>4 DEF NamedIsFrozen, NoCall
<1>5. CASE chosen # {}
  <2>1. /\ calls'[r].step = "read" /\ calls'[r].session = c.session
        /\ calls'[r].end = c.end /\ calls'[r].turns = chosen
    BY <1>1, <1>2, <1>5 DEF Call
  <2>2. ASSUME Named(c)
        PROVE  c.end \in chosen
    <3>1. c.end \in Nat /\ c.start \in Nat \cup {None} /\ c.end < nextSeq[c.session]
      BY <1>1, <2>2 DEF Named, Call
    <3>2. c.end \in Turns(c.session)
      BY <1>1, <3>1, AllTurns
    <3>3. PICK n \in chosen : TRUE
      BY <1>5
    <3>4. n \in Nat /\ InRange(n, c.start, c.end)
      BY <1>1, <3>3, TurnsBelowNext DEF RowsInv
    <3>5. InRange(c.end, c.start, c.end)
      BY <2>2, <3>1, <3>4 DEF InRange, Named
    <3>6. QED
      BY <3>2, <3>5
  <2> HIDE DEF chosen
  <2>3. QED
    BY <1>1, <1>3, <2>1, <2>2 DEF NamedIsFrozen, Named
<1>6. QED
  BY <1>4, <1>5

LEMMA InsertVersionNamed ==
  ASSUME BranchInv, NEW r \in Requests, NamedIsFrozen(calls[r]), NEW v \in VersionIds,
         InsertVersion(r, v)
  PROVE  NamedIsFrozen(calls[r])'
<1> DEFINE c == calls[r]
           call == [c EXCEPT !.step = "frozen", !.version = v, !.turns = {}]
<1>1. c \in Call /\ c.step = "stored"
  BY DEF BranchInv, InsertVersion
<1>2. /\ c.session \in DOMAIN sessions
      /\ \A n \in c.turns : n <= LastTurn(r)
  BY <1>1, ChosenRange
<1>3. calls'[r] = IF c.branch THEN call ELSE NoCall
  BY DEF InsertVersion, BranchInv
<1>4. versions'[v].end = LastTurn(r) /\ UNCHANGED <<sessions, nextSeq>>
  BY DEF InsertVersion, CreateVersion, Insert
<1>5. CASE ~c.branch
  BY <1>3, <1>5 DEF NamedIsFrozen, NoCall
<1>6. CASE c.branch
  <2>1. /\ calls'[r].step = "frozen" /\ calls'[r].session = c.session
        /\ calls'[r].end = c.end /\ calls'[r].version = v
    BY <1>1, <1>3, <1>6 DEF Call
  <2>2. Named(c) => c.end <= LastTurn(r)
    BY <1>1, <1>2 DEF NamedIsFrozen
  <2>3. QED
    BY <1>2, <1>4, <2>1, <2>2 DEF NamedIsFrozen, Named
<1>7. QED
  BY <1>5, <1>6

\* A call that has just begun, or is over, says nothing yet.
LEMMA NothingNamed ==
  ASSUME NEW r \in Requests, calls'[r].step \in {"idle", "begun"}
  PROVE  NamedIsFrozen(calls[r])'
BY DEF NamedIsFrozen

LEMMA NamedStep ==
  ASSUME BranchInv, BranchInv', Next \/ UNCHANGED storeVars, Kinds = {"turn"},
         [BranchNext /\ LogsRest]_branchVars,
         NEW r \in Requests, NamedIsFrozen(calls[r])
  PROVE  NamedIsFrozen(calls[r])'
<1>0. calls \in [Requests -> Call] /\ calls[r] \in Call
  BY DEF BranchInv
<1>1. CASE UNCHANGED branchVars
  BY <1>1 DEF branchVars, NamedIsFrozen, Named
<1>2. CASE LogsRest /\ calls'[r] = calls[r]
  BY <1>2, NamedStays
<1>3. ASSUME LogsRest, Freeze(r)
      PROVE  NamedIsFrozen(calls[r])'
  <2>1. ASSUME NEW s \in SessionIds, NEW start \in 0..MaxSeq \cup {None},
               NEW end \in 0..MaxSeq \cup {None}, BeginFreeze(r, s, start, end)
        PROVE  NamedIsFrozen(calls[r])'
    <3>1. calls'[r].step = "begun"
      BY <1>0, <2>1 DEF BeginFreeze, NoCall
    <3>2. QED
      BY <3>1, NothingNamed
  <2>2. CASE ReadLog(r)
    BY <2>2, ReadLogNamed
  <2>3. CASE WriteBlob(r)
    <3>1. calls[r].step = "read" /\ calls'[r] = [calls[r] EXCEPT !.step = "stored"]
      BY <1>0, <2>3 DEF WriteBlob
    <3>2. QED
      BY <1>0, <1>3, <3>1, NamedStays DEF Call
  <2>4. ASSUME NEW v \in VersionIds, InsertVersion(r, v)
        PROVE  NamedIsFrozen(calls[r])'
    BY <2>4, InsertVersionNamed
  <2>5. QED
    BY <1>3, <2>1, <2>2, <2>3, <2>4 DEF Freeze
<1>4. ASSUME LogsRest, Branch(r)
      PROVE  NamedIsFrozen(calls[r])'
  <2>1. ASSUME NEW s \in SessionIds, NEW start \in 0..MaxSeq \cup {None},
               NEW end \in 0..MaxSeq \cup {None}, NEW group \in GroupIds \cup {None},
               NEW backend \in Backends \cup {None},
               BeginBranch(r, s, start, end, group, backend)
        PROVE  NamedIsFrozen(calls[r])'
    <3>1. calls'[r].step = "begun"
      BY <1>0, <2>1 DEF BeginBranch, NoCall
    <3>2. QED
      BY <3>1, NothingNamed
  <2>2. ASSUME NEW child \in SessionIds, NEW title \in Titles, CreateChild(r, child, title)
        PROVE  NamedIsFrozen(calls[r])'
    <3>1. calls'[r].step = "idle"
      BY <1>0, <2>2 DEF CreateChild, NoCall
    <3>2. QED
      BY <3>1, NothingNamed
  <2>3. CASE RefuseChild(r)
    <3>1. calls[r].step = "frozen" /\ calls'[r] = [calls[r] EXCEPT !.step = "refused"]
      BY <1>0, <2>3 DEF RefuseChild
    <3>2. QED
      BY <1>0, <1>4, <3>1, NamedStays DEF Call
  <2>4. QED
    BY <1>4, <2>1, <2>2, <2>3 DEF Branch
<1>5. CASE Fail(r)
  <2>1. calls'[r].step = "idle"
    BY <1>0, <1>5 DEF Fail, NoCall
  <2>2. QED
    BY <2>1, NothingNamed
<1>6. OtherRequests => calls'[r] = calls[r]
  BY DEF OtherRequests
<1>7. CASE PowerLoss
  <2>1. calls'[r].step = "idle"
    BY <1>7 DEF PowerLoss, NoCall
  <2>2. QED
    BY <2>1, NothingNamed
<1>8. ASSUME NEW q \in Requests \ {r}, Freeze(q) \/ Branch(q) \/ Fail(q)
      PROVE  calls'[r] = calls[r]
  BY <1>0, <1>8 DEF Freeze, BeginFreeze, ReadLog, WriteBlob, InsertVersion, Branch, BeginBranch,
                    CreateChild, RefuseChild, Fail
<1>9. QED
  BY <1>1, <1>2, <1>3, <1>4, <1>5, <1>6, <1>7, <1>8 DEF BranchNext

\* What the documentation promises holds of a log in which every event is a turn, when
\* nothing is appended under the request: that replies are not frozen is all that stands
\* between the program and "branch from this turn".
THEOREM TurnsCanBeBranchedFrom ==
  ASSUME Kinds = {"turn"}
  PROVE  QuietSpec => []BranchFromThisTurn
<1> DEFINE Quiet == BranchInv /\ \A r \in Requests : NamedIsFrozen(calls[r])
<1>1. BranchInit => Quiet
  BY BranchInitial DEF BranchInit, NamedIsFrozen, NoCall
<1>2. Quiet /\ [BranchNext /\ LogsRest]_branchVars => Quiet'
  <2> SUFFICES ASSUME Quiet, [BranchNext /\ LogsRest]_branchVars
               PROVE  Quiet'
    OBVIOUS
  <2>1. BranchInv' /\ (Next \/ UNCHANGED storeVars)
    BY BranchStep
  <2>2. QED
    BY <2>1, NamedStep
<1>3. Quiet => BranchFromThisTurn
  <2> SUFFICES ASSUME Quiet, NEW r \in Requests,
                      calls[r].step = "refused", calls[r].group = None
               PROVE  calls[r].end >= nextSeq[calls[r].session]
    BY DEF BranchFromThisTurn
  <2>1. /\ calls[r].version \in DOMAIN versions
        /\ calls[r].end # None /\ versions[calls[r].version].end < calls[r].end
        /\ calls[r].session \in DOMAIN sessions
    BY DEF BranchInv, CallFacts, NamedIsFrozen
  <2>2. /\ versions[calls[r].version].end \in Nat /\ calls[r].end \in Nat
        /\ nextSeq[calls[r].session] \in Nat
    BY <2>1 DEF BranchInv, TypeOK, VersionRow, Call
  <2>3. Named(calls[r]) => calls[r].end <= versions[calls[r].version].end
    BY DEF NamedIsFrozen
  <2>4. QED
    BY <2>1, <2>2, <2>3 DEF Named
<1> HIDE DEF Quiet
<1>4. QED
  BY <1>1, <1>2, <1>3, PTL DEF QuietSpec

=============================================================================
