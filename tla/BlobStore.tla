------------------------------ MODULE BlobStore ------------------------------
(***************************************************************************)
(* FileBlobStore.write (blobs/store.py): threads of one process put blobs  *)
(* in one directory, and the process or the machine may stop between any   *)
(* two system calls.  A thread makes one system call per step.             *)
(*                                                                         *)
(* The temp file of a call carries the pid and 32 random bits.  Names are  *)
(* taken to be unique, so open("xb") never finds one in the way and the    *)
(* FileExistsError handler is never entered; a temp file left by a crash   *)
(* is never opened again, and is forgotten.                                *)
(***************************************************************************)
CONSTANTS
  Writers,     \* threads that run _write_sync
  Digests,     \* contents, named by their sha256
  Nothing      \* no file, no argument

\* A file: does it hold all its bytes, are they on the disk, is its mode 0444?
File == [full : BOOLEAN, synced : BOOLEAN, sealed : BOOLEAN]

ASSUME BlobAssumption == Nothing \notin Digests \cup File

VARIABLES
  final,       \* digest -> file at its final path, or Nothing
  durable,     \* digests whose directory entry would survive a power loss
  tmp,         \* writer -> its temp file, or Nothing
  pc,          \* writer -> the system call it makes next, or how it ended
  arg,         \* writer -> digest it writes
  existed      \* writer -> WriteResult.existed of its last call

blobVars == <<final, durable, tmp, pc, arg, existed>>

Busy == {"check", "open", "write", "sync", "replace", "seal"}

BlobTypeOK ==
  /\ final \in [Digests -> File \cup {Nothing}]
  /\ durable \subseteq Digests
  /\ tmp \in [Writers -> File \cup {Nothing}]
  /\ pc \in [Writers -> Busy \cup {"idle", "returned", "raised"}]
  /\ arg \in [Writers -> Digests \cup {Nothing}]
  /\ existed \in [Writers -> BOOLEAN]

BlobInit ==
  /\ final = [d \in Digests |-> Nothing]
  /\ durable = {}
  /\ tmp = [w \in Writers |-> Nothing]
  /\ pc = [w \in Writers |-> "idle"]
  /\ arg = [w \in Writers |-> Nothing]
  /\ existed = [w \in Writers |-> FALSE]

-----------------------------------------------------------------------------
(* _write_sync *)

Write(w, d) ==
  /\ pc[w] \notin Busy
  /\ pc' = [pc EXCEPT ![w] = "check"]
  /\ arg' = [arg EXCEPT ![w] = d]
  /\ UNCHANGED <<final, durable, tmp, existed>>

CheckExists(w) ==
  /\ pc[w] = "check"
  /\ IF final[arg[w]] # Nothing
       THEN /\ pc' = [pc EXCEPT ![w] = "returned"]
            /\ existed' = [existed EXCEPT ![w] = TRUE]
       ELSE /\ pc' = [pc EXCEPT ![w] = "open"]
            /\ UNCHANGED existed
  /\ UNCHANGED <<final, durable, tmp, arg>>

\* Mutant: the name is kept where the open file should be.
OpenByName(w) ==
  /\ pc[w] = "open"
  /\ tmp' = [tmp EXCEPT ![w] = arg[w]]
  /\ pc' = [pc EXCEPT ![w] = "write"]
  /\ UNCHANGED <<final, durable, arg, existed>>

OpenTmp(w) ==
  /\ pc[w] = "open"
  /\ tmp' = [tmp EXCEPT ![w] = [full |-> FALSE, synced |-> FALSE, sealed |-> FALSE]]
  /\ pc' = [pc EXCEPT ![w] = "write"]
  /\ UNCHANGED <<final, durable, arg, existed>>

\* Mutant: the file is renamed without having been synced.
SyncNothing(w) ==
  /\ pc[w] = "sync"
  /\ pc' = [pc EXCEPT ![w] = "replace"]
  /\ UNCHANGED <<final, durable, tmp, arg, existed>>

WriteTmp(w) ==
  /\ pc[w] = "write"
  /\ tmp' = [tmp EXCEPT ![w].full = TRUE]
  /\ pc' = [pc EXCEPT ![w] = "sync"]
  /\ UNCHANGED <<final, durable, arg, existed>>

SyncTmp(w) ==
  /\ pc[w] = "sync"
  /\ tmp' = [tmp EXCEPT ![w].synced = TRUE]
  /\ pc' = [pc EXCEPT ![w] = "replace"]
  /\ UNCHANGED <<final, durable, arg, existed>>

\* os.replace asks nobody whether the destination exists or is read-only.
Replace(w) ==
  /\ pc[w] = "replace"
  /\ final' = [final EXCEPT ![arg[w]] = tmp[w]]
  /\ tmp' = [tmp EXCEPT ![w] = Nothing]
  /\ pc' = [pc EXCEPT ![w] = "seal"]
  /\ UNCHANGED <<durable, arg, existed>>

Seal(w) ==
  /\ pc[w] = "seal"
  /\ final' = [final EXCEPT ![arg[w]].sealed = TRUE]
  /\ pc' = [pc EXCEPT ![w] = "returned"]
  /\ existed' = [existed EXCEPT ![w] = FALSE]
  /\ UNCHANGED <<durable, tmp, arg>>

\* Mutant: after an error the blob is removed along with the temp file.
RaiseRemovingBlob(w) ==
  /\ pc[w] \in Busy \ {"check"}
  /\ final' = [final EXCEPT ![arg[w]] = Nothing]
  /\ tmp' = [tmp EXCEPT ![w] = Nothing]
  /\ pc' = [pc EXCEPT ![w] = "raised"]
  /\ UNCHANGED <<durable, arg, existed>>

\* A system call raises OSError: the temp file is removed and the error goes up.
Raise(w) ==
  /\ pc[w] \in Busy \ {"check"}
  /\ tmp' = [tmp EXCEPT ![w] = Nothing]
  /\ pc' = [pc EXCEPT ![w] = "raised"]
  /\ UNCHANGED <<final, durable, arg, existed>>

-----------------------------------------------------------------------------
(* The process and the machine *)

\* The kernel writes a directory entry out in its own time.
Settle(d) ==
  /\ final[d] # Nothing
  /\ durable' = durable \cup {d}
  /\ UNCHANGED <<final, tmp, pc, arg, existed>>

Stop ==
  /\ tmp' = [w \in Writers |-> Nothing]
  /\ pc' = [w \in Writers |-> "idle"]
  /\ UNCHANGED <<arg, existed>>

Crash == Stop /\ UNCHANGED <<final, durable>>

\* After a power loss an entry that was not durable may be gone, bytes that were
\* not synced may be incomplete, and the chmod may not have reached the disk.
Survivors(file) ==
  {f \in File : (f.full => file.full) /\ (file.synced => f.full = file.full)
                /\ f.synced = f.full /\ (f.sealed => file.sealed)}

PowerLoss ==
  /\ Stop
  /\ \E lost \in SUBSET ({d \in Digests : final[d] # Nothing} \ durable) :
       /\ final' \in [Digests -> File \cup {Nothing}]
       /\ \A d \in Digests :
            IF final[d] = Nothing \/ d \in lost THEN final'[d] = Nothing
                                                ELSE final'[d] \in Survivors(final[d])
       /\ durable' = {d \in Digests : final'[d] # Nothing}

BlobNext ==
  \/ \E w \in Writers :
       \/ \E d \in Digests : Write(w, d)
       \/ CheckExists(w) \/ OpenTmp(w) \/ WriteTmp(w) \/ SyncTmp(w)
       \/ Replace(w) \/ Seal(w) \/ Raise(w)
  \/ \E d \in Digests : Settle(d)
  \/ Crash
  \/ PowerLoss

BlobSpec == BlobInit /\ [][BlobNext]_blobVars

-----------------------------------------------------------------------------
(* Properties *)

\* Crash or power loss, whatever is at a final path is the whole blob
\* (blobs/store.py:26-29).
NeverPartial == \A d \in Digests : final[d] # Nothing => final[d].full

\* Why: only a temp file that is complete and synced is ever renamed, and the
\* blob of a call that has renamed stays where it is.
BlobInv ==
  /\ \A d \in Digests : final[d] # Nothing => final[d].full /\ final[d].synced
  /\ \A w \in Writers :
       /\ pc[w] \in Busy => arg[w] \in Digests
       /\ pc[w] \in {"write", "sync", "replace"} => tmp[w] # Nothing
       /\ pc[w] \in {"sync", "replace"} => tmp[w].full
       /\ pc[w] = "replace" => tmp[w].synced
       /\ pc[w] = "seal" => final[arg[w]] # Nothing

\* The refinement: a blob is stored once the whole of it is at its final path.
Stored == {d \in Digests : final[d] # Nothing /\ final[d].full}

Status(w) == IF pc[w] \in Busy THEN "running" ELSE pc[w]

Content == INSTANCE ContentStore WITH
             stored <- Stored, status <- [w \in Writers |-> Status(w)]

\* A write that returns has stored its blob, for good, as ContentStore says.
ImplementsContentStore == Content!Spec

=============================================================================
