-------------------------- MODULE BlobStore_proofs --------------------------
(* Proofs about BlobStore for every set of writers and of contents.        *)
EXTENDS BlobStore, TLAPS

-----------------------------------------------------------------------------
(* The inductive invariant *)

Inv == BlobTypeOK /\ BlobInv

LEMMA BlobStart == BlobInit => Inv
BY DEF BlobInit, Inv, BlobTypeOK, BlobInv, Busy

LEMMA FileUpdate ==
  ASSUME NEW f \in File
  PROVE  /\ [f EXCEPT !.full = TRUE] \in File
         /\ [f EXCEPT !.full = TRUE].full
         /\ [f EXCEPT !.synced = TRUE] \in File
         /\ [f EXCEPT !.synced = TRUE].full = f.full
         /\ [f EXCEPT !.synced = TRUE].synced
         /\ [f EXCEPT !.sealed = TRUE] \in File
         /\ [f EXCEPT !.sealed = TRUE].full = f.full
         /\ [f EXCEPT !.sealed = TRUE].synced = f.synced
BY DEF File

\* What the steps that rewrite one file do to it.
LEMMA WriteTmpStep ==
  ASSUME Inv, NEW w \in Writers, WriteTmp(w)
  PROVE  /\ tmp' \in [Writers -> File \cup {Nothing}]
         /\ tmp'[w] # Nothing /\ tmp'[w].full
         /\ \A x \in Writers : x # w => tmp'[x] = tmp[x]
<1> DEFINE new == [tmp[w] EXCEPT !.full = TRUE]
<1>1. tmp[w] \in File /\ tmp \in [Writers -> File \cup {Nothing}]
  BY DEF Inv, BlobInv, BlobTypeOK, WriteTmp, Busy
<1>2. tmp' = [tmp EXCEPT ![w] = new]
  BY DEF WriteTmp
<1>3. new \in File /\ new.full
  BY <1>1, FileUpdate
<1> HIDE DEF new
<1>4. QED
  BY <1>1, <1>2, <1>3, BlobAssumption

LEMMA SyncTmpStep ==
  ASSUME Inv, NEW w \in Writers, SyncTmp(w)
  PROVE  /\ tmp' \in [Writers -> File \cup {Nothing}]
         /\ tmp'[w] # Nothing /\ tmp'[w].full /\ tmp'[w].synced
         /\ \A x \in Writers : x # w => tmp'[x] = tmp[x]
<1> DEFINE new == [tmp[w] EXCEPT !.synced = TRUE]
<1>1. tmp[w] \in File /\ tmp[w].full /\ tmp \in [Writers -> File \cup {Nothing}]
  BY DEF Inv, BlobInv, BlobTypeOK, SyncTmp, Busy
<1>2. tmp' = [tmp EXCEPT ![w] = new]
  BY DEF SyncTmp
<1>3. /\ new \in File
      /\ new.full
      /\ new.synced
  BY <1>1, FileUpdate
<1> HIDE DEF new
<1>4. QED
  BY <1>1, <1>2, <1>3, BlobAssumption

LEMMA SealStep ==
  ASSUME Inv, NEW w \in Writers, Seal(w)
  PROVE  /\ arg[w] \in Digests /\ final[arg[w]] # Nothing
         /\ final' \in [Digests -> File \cup {Nothing}]
         /\ final'[arg[w]] # Nothing /\ final'[arg[w]].full /\ final'[arg[w]].synced
         /\ \A d \in Digests : d # arg[w] => final'[d] = final[d]
<1> DEFINE new == [final[arg[w]] EXCEPT !.sealed = TRUE]
<1>1. /\ arg[w] \in Digests /\ final[arg[w]] \in File
      /\ final[arg[w]].full /\ final[arg[w]].synced
      /\ final \in [Digests -> File \cup {Nothing}]
  BY DEF Inv, BlobInv, BlobTypeOK, Seal, Busy
<1>2. final' = [final EXCEPT ![arg[w]] = new]
  BY DEF Seal
<1>3. /\ new \in File
      /\ new.full
      /\ new.synced
  BY <1>1, FileUpdate
<1> HIDE DEF new
<1>4. QED
  BY <1>1, <1>2, <1>3, BlobAssumption

LEMMA PowerLossStep ==
  ASSUME Inv, PowerLoss
  PROVE  /\ final' \in [Digests -> File \cup {Nothing}]
         /\ durable' \subseteq Digests
         /\ \A d \in Digests : final'[d] # Nothing =>
              final[d] # Nothing /\ final'[d].full /\ final'[d].synced
<1>1. PICK lost \in SUBSET ({d \in Digests : final[d] # Nothing} \ durable) :
        /\ final' \in [Digests -> File \cup {Nothing}]
        /\ \A d \in Digests :
             IF final[d] = Nothing \/ d \in lost THEN final'[d] = Nothing
                                                 ELSE final'[d] \in Survivors(final[d])
        /\ durable' = {d \in Digests : final'[d] # Nothing}
  BY DEF PowerLoss
<1>2. ASSUME NEW d \in Digests, final'[d] # Nothing
      PROVE  final[d] # Nothing /\ final'[d].full /\ final'[d].synced
  <2>1. final[d] # Nothing /\ final'[d] \in Survivors(final[d])
    BY <1>1, <1>2
  <2>2. final[d].full /\ final[d].synced
    BY <2>1 DEF Inv, BlobInv
  <2>3. QED
    BY <2>1, <2>2 DEF Survivors
<1>3. QED
  BY <1>1, <1>2

LEMMA BlobStep == Inv /\ [BlobNext]_blobVars => Inv'
<1> SUFFICES ASSUME Inv, [BlobNext]_blobVars
             PROVE  Inv'
  OBVIOUS
<1>1. ASSUME NEW w \in Writers, NEW d \in Digests, Write(w, d)
      PROVE  Inv'
  BY <1>1 DEF Inv, BlobTypeOK, BlobInv, Busy, Write
<1>2. ASSUME NEW w \in Writers, CheckExists(w)
      PROVE  Inv'
  BY <1>2 DEF Inv, BlobTypeOK, BlobInv, Busy, CheckExists
<1>3. ASSUME NEW w \in Writers, OpenTmp(w)
      PROVE  Inv'
  <2> DEFINE new == [full |-> FALSE, synced |-> FALSE, sealed |-> FALSE]
  <2>1. new \in File /\ tmp' = [tmp EXCEPT ![w] = new]
    BY <1>3 DEF OpenTmp, File
  <2> HIDE DEF new
  <2>2. tmp' \in [Writers -> File \cup {Nothing}] /\ tmp'[w] # Nothing
    BY <2>1, BlobAssumption DEF Inv, BlobTypeOK
  <2>3. \A x \in Writers : x # w => tmp'[x] = tmp[x]
    BY <2>1 DEF Inv, BlobTypeOK
  <2>4. QED
    BY <1>3, <2>2, <2>3 DEF Inv, BlobTypeOK, BlobInv, Busy, OpenTmp
<1>4. ASSUME NEW w \in Writers, WriteTmp(w)
      PROVE  Inv'
  BY <1>4, WriteTmpStep DEF Inv, BlobTypeOK, BlobInv, Busy, WriteTmp
<1>5. ASSUME NEW w \in Writers, SyncTmp(w)
      PROVE  Inv'
  BY <1>5, SyncTmpStep DEF Inv, BlobTypeOK, BlobInv, Busy, SyncTmp
<1>6. ASSUME NEW w \in Writers, Replace(w)
      PROVE  Inv'
  <2>1. tmp[w] \in File /\ tmp[w].full /\ tmp[w].synced /\ arg[w] \in Digests
    BY <1>6 DEF Inv, BlobTypeOK, BlobInv, Busy, Replace
  <2>2. BlobTypeOK'
    BY <1>6, <2>1 DEF Inv, BlobTypeOK, Busy, Replace
  <2>3. \A d \in Digests : final'[d] # Nothing => final'[d].full /\ final'[d].synced
    BY <1>6, <2>1 DEF Inv, BlobTypeOK, BlobInv, Replace
  <2>4. \A d \in Digests : final[d] # Nothing => final'[d] # Nothing
    BY <1>6, <2>1, BlobAssumption DEF Inv, BlobTypeOK, Replace
  <2>5. final'[arg[w]] # Nothing
    BY <1>6, <2>1, BlobAssumption DEF Inv, BlobTypeOK, Replace
  <2>6. QED
    BY <1>6, <2>1, <2>2, <2>3, <2>4, <2>5 DEF Inv, BlobTypeOK, BlobInv, Busy, Replace
<1>7. ASSUME NEW w \in Writers, Seal(w)
      PROVE  Inv'
  <2>1. BlobTypeOK'
    BY <1>7, SealStep DEF Inv, BlobTypeOK, Busy, Seal
  <2>2. \A d \in Digests : final[d] # Nothing => final'[d] # Nothing
    BY <1>7, SealStep
  <2>3. \A d \in Digests : final'[d] # Nothing => final'[d].full /\ final'[d].synced
    BY <1>7, SealStep DEF Inv, BlobInv
  <2>4. QED
    BY <1>7, <2>1, <2>2, <2>3 DEF Inv, BlobTypeOK, BlobInv, Busy, Seal
<1>8. ASSUME NEW w \in Writers, Raise(w)
      PROVE  Inv'
  BY <1>8 DEF Inv, BlobTypeOK, BlobInv, Busy, Raise
<1>9. ASSUME NEW d \in Digests, Settle(d)
      PROVE  Inv'
  BY <1>9 DEF Inv, BlobTypeOK, BlobInv, Busy, Settle
<1>10. CASE Crash
  BY <1>10 DEF Inv, BlobTypeOK, BlobInv, Busy, Crash, Stop
<1>11. CASE PowerLoss
  BY <1>11, PowerLossStep DEF Inv, BlobTypeOK, BlobInv, Busy, PowerLoss, Stop
<1>12. CASE UNCHANGED blobVars
  BY <1>12 DEF Inv, BlobTypeOK, BlobInv, blobVars
<1>13. QED
  BY <1>1, <1>2, <1>3, <1>4, <1>5, <1>6, <1>7, <1>8, <1>9, <1>10, <1>11, <1>12 DEF BlobNext

LEMMA BlobInvariant == BlobSpec => []Inv
BY BlobStart, BlobStep, PTL DEF BlobSpec

\* Every reachable state of the file store is well typed.
THEOREM BlobTypeCorrect == BlobSpec => []BlobTypeOK
BY BlobInvariant, PTL DEF Inv

\* What is at a final path is always a whole blob, whatever crashes happen.
THEOREM BlobNeverPartial == BlobSpec => []NeverPartial
<1>1. Inv => NeverPartial
  BY DEF Inv, BlobInv, NeverPartial
<1>2. QED
  BY <1>1, BlobInvariant, PTL

-----------------------------------------------------------------------------
(* The refinement of ContentStore *)

LEMMA ContentInit == BlobInit => Content!Init
BY DEF BlobInit, Content!Init, Stored, Status, Busy

LEMMA ContentStep == Inv /\ [BlobNext]_blobVars => [Content!Next]_(Content!contentVars)
<1> SUFFICES ASSUME Inv, [BlobNext]_blobVars
             PROVE  [Content!Next]_(Content!contentVars)
  OBVIOUS
<1> DEFINE status == [w \in Writers |-> Status(w)]
           stutter == UNCHANGED <<Stored, arg, status>>
<1>0. /\ Stored = {d \in Digests : final[d] # Nothing}
      /\ Stored' = {d \in Digests : final'[d] # Nothing}
      /\ pc \in [Writers -> Busy \cup {"idle", "returned", "raised"}]
      /\ tmp \in [Writers -> File \cup {Nothing}]
      /\ final \in [Digests -> File \cup {Nothing}]
  <2>1. Inv'
    BY BlobStep
  <2>2. QED
    BY <2>1 DEF Inv, BlobInv, BlobTypeOK, Stored
<1>1. ASSUME NEW w \in Writers, NEW d \in Digests, Write(w, d)
      PROVE  Content!Call(w, d)
  BY <1>0, <1>1 DEF Write, Content!Call, Status, Busy
<1>2. ASSUME NEW w \in Writers, CheckExists(w)
      PROVE  stutter \/ Content!Return(w)
  <2>1. arg[w] \in Digests
    BY <1>2 DEF Inv, BlobInv, CheckExists, Busy
  <2>2. CASE final[arg[w]] # Nothing
    BY <1>0, <1>2, <2>1, <2>2 DEF CheckExists, Content!Return, Status, Busy
  <2>3. CASE final[arg[w]] = Nothing
    <3>1. pc' = [pc EXCEPT ![w] = "open"] /\ UNCHANGED <<final, arg>>
      BY <1>2, <2>3 DEF CheckExists
    <3>2. \A x \in Writers : Status(x)' = Status(x)
      BY <1>0, <1>2, <3>1 DEF CheckExists, Status, Busy
    <3>3. QED
      BY <1>0, <3>1, <3>2
  <2>4. QED
    BY <2>2, <2>3
<1>3. ASSUME NEW w \in Writers, OpenTmp(w) \/ WriteTmp(w) \/ SyncTmp(w)
      PROVE  stutter
  <2>1. UNCHANGED <<final, arg>>
    BY <1>3 DEF OpenTmp, WriteTmp, SyncTmp
  <2>2. \A x \in Writers : Status(x)' = Status(x)
    BY <1>0, <1>3 DEF OpenTmp, WriteTmp, SyncTmp, Status, Busy
  <2>3. QED
    BY <1>0, <2>1, <2>2
<1>4. ASSUME NEW w \in Writers, Replace(w)
      PROVE  Content!TakeEffect(w)
  <2>1. tmp[w] # Nothing /\ arg[w] \in Digests
    BY <1>4 DEF Inv, BlobInv, Replace, Busy
  <2>2. final' = [final EXCEPT ![arg[w]] = tmp[w]] /\ UNCHANGED arg
    BY <1>4 DEF Replace
  <2>3. Stored' = Stored \cup {arg[w]}
    BY <1>0, <2>1, <2>2
  <2>4. \A x \in Writers : Status(x)' = Status(x)
    BY <1>0, <1>4 DEF Replace, Status, Busy
  <2>5. Status(w) = "running"
    BY <1>4 DEF Replace, Status, Busy
  <2>6. QED
    BY <2>2, <2>3, <2>4, <2>5 DEF Content!TakeEffect
<1>5. ASSUME NEW w \in Writers, Seal(w)
      PROVE  Content!Return(w)
  <2>1. Stored' = Stored /\ arg[w] \in Stored
    BY <1>0, <1>5, SealStep
  <2>2. status' = [status EXCEPT ![w] = "returned"]
    BY <1>0, <1>5 DEF Seal, Status, Busy
  <2>3. Status(w) = "running" /\ UNCHANGED arg
    BY <1>5 DEF Seal, Status, Busy
  <2>4. QED
    BY <2>1, <2>2, <2>3 DEF Content!Return
<1>6. ASSUME NEW w \in Writers, Raise(w)
      PROVE  Content!Raise(w)
  BY <1>0, <1>6 DEF Raise, Content!Raise, Status, Busy
<1>7. ASSUME NEW d \in Digests, Settle(d)
      PROVE  stutter
  BY <1>0, <1>7 DEF Settle, Status
<1>8. ASSUME Stop
      PROVE  status' = [w \in Writers |-> "idle"] /\ UNCHANGED arg
  BY <1>8 DEF Stop, Status, Busy
<1>9. CASE Crash
  <2>1. Content!Crash
    BY <1>0, <1>8, <1>9 DEF Crash, Content!Crash
  <2>2. QED
    BY <2>1 DEF Content!Next
<1>10. CASE PowerLoss
  <2>1. Stored' \subseteq Stored
    BY <1>0, <1>10, PowerLossStep
  <2>2. Content!PowerLoss
    BY <1>8, <1>10, <2>1 DEF PowerLoss, Content!PowerLoss
  <2>3. QED
    BY <2>2 DEF Content!Next
<1>11. CASE UNCHANGED blobVars
  BY <1>11 DEF blobVars, Content!contentVars, Stored, Status
<1>12. QED
  BY <1>1, <1>2, <1>3, <1>4, <1>5, <1>6, <1>7, <1>9, <1>10, <1>11
     DEF BlobNext, Content!Next, Content!contentVars

\* The file store implements the abstract content store: a write that returns has
\* stored its blob, and no crash of the process takes a stored blob away.
THEOREM BlobImplements == BlobSpec => ImplementsContentStore
<1>1. Inv /\ [BlobNext]_blobVars => [Content!Next]_(Content!contentVars)
  BY ContentStep
<1>2. QED
  BY ContentInit, <1>1, BlobInvariant, PTL DEF BlobSpec, ImplementsContentStore, Content!Spec
=============================================================================
