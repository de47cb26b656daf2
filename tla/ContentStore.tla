---------------------------- MODULE ContentStore ----------------------------
(***************************************************************************)
(* What a content-addressed blob store promises the callers of write():    *)
(* the abstract specification that BlobStore implements, and that the      *)
(* InMemoryBlobStore of the tests is literally.  A write takes effect at   *)
(* one point between its call and its return, a write that returns has     *)
(* taken effect, and nothing but a power loss takes a stored blob away.    *)
(***************************************************************************)
CONSTANTS
  Writers,     \* concurrent calls of write()
  Digests,     \* contents, named by their sha256
  Nothing      \* a writer that was never called

VARIABLES
  stored,      \* digests whose bytes a read() would return
  arg,         \* writer -> digest of its last call
  status       \* writer -> "idle", "running", "returned" or "raised"

contentVars == <<stored, arg, status>>

Init ==
  /\ stored = {}
  /\ arg = [w \in Writers |-> Nothing]
  /\ status = [w \in Writers |-> "idle"]

Call(w, d) ==
  /\ status[w] # "running"
  /\ arg' = [arg EXCEPT ![w] = d]
  /\ status' = [status EXCEPT ![w] = "running"]
  /\ UNCHANGED stored

TakeEffect(w) ==
  /\ status[w] = "running"
  /\ stored' = stored \cup {arg[w]}
  /\ UNCHANGED <<arg, status>>

Return(w) ==
  /\ status[w] = "running"
  /\ arg[w] \in stored
  /\ status' = [status EXCEPT ![w] = "returned"]
  /\ UNCHANGED <<stored, arg>>

\* An exception says nothing about whether the write took effect.
Raise(w) ==
  /\ status[w] = "running"
  /\ status' = [status EXCEPT ![w] = "raised"]
  /\ UNCHANGED <<stored, arg>>

Crash ==
  /\ status' = [w \in Writers |-> "idle"]
  /\ UNCHANGED <<stored, arg>>

PowerLoss ==
  /\ stored' \subseteq stored
  /\ status' = [w \in Writers |-> "idle"]
  /\ UNCHANGED arg

Next ==
  \/ \E w \in Writers :
       (\E d \in Digests : Call(w, d)) \/ TakeEffect(w) \/ Return(w) \/ Raise(w)
  \/ Crash
  \/ PowerLoss

Spec == Init /\ [][Next]_contentVars
=============================================================================
