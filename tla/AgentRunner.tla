----------------------------- MODULE AgentRunner -----------------------------
(***************************************************************************)
(* Agent runs on one session (agent_runner.py, api/agent_runs.py and the   *)
(* adopt endpoints of api/memory.py).  Each POST starts a background task, *)
(* and nothing keeps a second one from starting while the first streams:   *)
(* they share the warm loom session, the adopted memory block and the log. *)
(* A step is the code between two awaits.  The runner's lock is only held  *)
(* by code that does not await, so taking it never suspends a task.        *)
(*                                                                         *)
(* Loom is outside the repository: a stream yields any chunks, ends or     *)
(* raises at any time, and that is also all cancel() asks of it.           *)
(***************************************************************************)
EXTENDS Naturals, Sequences, FiniteSets

CONSTANTS
  Runs,           \* supply of background tasks
  Blocks,         \* supply of memory blocks a user adopts
  MaxChunks,      \* bound: chunks of one stream
  MemoryEnabled,  \* agent_memory_enabled, and the memory service is enabled
  StoreMayFail,   \* append_event may raise
  StartMayFail,   \* backend or cwd cannot be resolved, or loom cannot start
  None            \* Python's None

ASSUME RunnerAssumption ==
  /\ None \notin Blocks \cup Nat
  /\ MaxChunks \in Nat
  /\ {MemoryEnabled, StoreMayFail, StartMayFail} \subseteq BOOLEAN

VARIABLES
  step,        \* run -> how far the task has come
  loom,        \* run -> the loom session it has got, or None
  memory,      \* run -> the adopted block it has taken, or None
  chunks,      \* run -> chunks taken from the stream
  buffer,      \* run -> text_buffer: the number of texts in it
  warm,        \* the loom session in _sessions, or None
  pending,     \* the adopted block waiting for a run, or None
  adopted,     \* blocks that were ever adopted
  opened,      \* loom sessions created so far: 1..opened
  open,        \* loom sessions not closed
  server,      \* "up" or "down"
  log          \* events of the session, in order

runnerVars == <<step, loom, memory, chunks, buffer, warm, pending, adopted, opened, open,
                server, log>>

\* "unstarted" and "lost" are tasks that ended with an exception nobody reads.
Steps == {"idle", "scheduled", "recall", "prompt", "send", "stream", "failing",
          "done", "unstarted", "lost"}

Event == [run : Runs, kind : {"turn", "agent_chunk", "agent_turn", "agent_error"}, texts : Nat]

RunnerTypeOK ==
  /\ step \in [Runs -> Steps]
  /\ loom \in [Runs -> Nat \cup {None}]
  /\ memory \in [Runs -> Blocks \cup {None}]
  /\ chunks \in [Runs -> Nat]
  /\ buffer \in [Runs -> Nat]
  /\ warm \in Nat \cup {None}
  /\ pending \in Blocks \cup {None}
  /\ adopted \subseteq Blocks
  /\ opened \in Nat
  /\ open \subseteq Nat
  /\ server \in {"up", "down"}
  /\ log \in Seq(Event)

RunnerInit ==
  /\ step = [r \in Runs |-> "idle"]
  /\ loom = [r \in Runs |-> None]
  /\ memory = [r \in Runs |-> None]
  /\ chunks = [r \in Runs |-> 0]
  /\ buffer = [r \in Runs |-> 0]
  /\ warm = None /\ pending = None /\ adopted = {}
  /\ opened = 0 /\ open = {}
  /\ server = "up"
  /\ log = << >>

-----------------------------------------------------------------------------
(* The endpoints *)

Schedule(r) ==
  /\ server = "up"
  /\ step[r] = "idle"
  /\ step' = [step EXCEPT ![r] = "scheduled"]
  /\ UNCHANGED <<loom, memory, chunks, buffer, warm, pending, adopted, opened, open, server, log>>

\* Mutant: adoptions are kept in a list.
AdoptAll(b) ==
  /\ server = "up"
  /\ b \notin adopted
  /\ pending' = {b}
  /\ adopted' = adopted \cup {b}
  /\ UNCHANGED <<step, loom, memory, chunks, buffer, warm, opened, open, server, log>>

\* A later adoption overwrites the pending block.
AdoptMemory(b) ==
  /\ server = "up"
  /\ b \notin adopted
  /\ pending' = b
  /\ adopted' = adopted \cup {b}
  /\ UNCHANGED <<step, loom, memory, chunks, buffer, warm, opened, open, server, log>>

ClearPendingMemory ==
  /\ server = "up"
  /\ pending' = None
  /\ UNCHANGED <<step, loom, memory, chunks, buffer, warm, adopted, opened, open, server, log>>

-----------------------------------------------------------------------------
(* run() *)

\* Mutant: the dict was read before the lock was taken.
EnsureAfterStaleRead(r) ==
  /\ opened' = opened + 1
  /\ warm' = opened'
  /\ open' = open \cup {opened'}
  /\ loom' = [loom EXCEPT ![r] = opened']

\* The warm session, or a new one that becomes it.
EnsureSession(r) ==
  IF warm # None
    THEN loom' = [loom EXCEPT ![r] = warm] /\ UNCHANGED <<warm, opened, open>>
    ELSE /\ opened' = opened + 1
         /\ warm' = opened'
         /\ open' = open \cup {opened'}
         /\ loom' = [loom EXCEPT ![r] = opened']

\* Mutant: the pending block is looked at and not popped.
PeekMemory(r) ==
  /\ memory' = [memory EXCEPT ![r] = pending]
  /\ UNCHANGED pending
  /\ step' = [step EXCEPT ![r] = IF pending = None /\ MemoryEnabled THEN "recall" ELSE "prompt"]

\* An adopted block is consumed; without one the memory service may be asked.
TakeMemory(r) ==
  /\ memory' = [memory EXCEPT ![r] = pending]
  /\ pending' = None
  /\ step' = [step EXCEPT ![r] = IF pending = None /\ MemoryEnabled THEN "recall" ELSE "prompt"]

Start(r) ==
  /\ step[r] = "scheduled"
  /\ EnsureSession(r)
  /\ TakeMemory(r)
  /\ UNCHANGED <<chunks, buffer, adopted, server, log>>

\* _ensure_session raises, before anything was written.
CannotStart(r) ==
  /\ StartMayFail
  /\ step[r] = "scheduled"
  /\ warm = None
  /\ step' = [step EXCEPT ![r] = "unstarted"]
  /\ UNCHANGED <<loom, memory, chunks, buffer, warm, pending, adopted, opened, open, server, log>>

\* Whatever the memory service answers, or if it raises, the run goes on.
Recall(r) ==
  /\ step[r] = "recall"
  /\ step' = [step EXCEPT ![r] = "prompt"]
  /\ UNCHANGED <<loom, memory, chunks, buffer, warm, pending, adopted, opened, open, server, log>>

Publish(r, kind, texts) == log' = Append(log, [run |-> r, kind |-> kind, texts |-> texts])

\* _publish_event, or append_event raising in its place.
PublishOr(r, kind, texts, next, failed) ==
  \/ Publish(r, kind, texts) /\ step' = [step EXCEPT ![r] = next]
  \/ StoreMayFail /\ step' = [step EXCEPT ![r] = failed] /\ UNCHANGED log

Unchanging == UNCHANGED <<loom, memory, warm, pending, adopted, opened, open, server>>

\* Mutant: a user turn that could not be appended is logged and skipped.
AppendTurnBestEffort(r) ==
  /\ step[r] = "prompt"
  /\ PublishOr(r, "turn", 0, "send", "send")
  /\ UNCHANGED <<chunks, buffer>> /\ Unchanging

AppendUserTurn(r) ==
  /\ step[r] = "prompt"
  /\ PublishOr(r, "turn", 0, "send", "lost")
  /\ UNCHANGED <<chunks, buffer>> /\ Unchanging

SendMessage(r) ==
  /\ step[r] = "send"
  /\ \E next \in {"stream", "failing"} : step' = [step EXCEPT ![r] = next]
  /\ UNCHANGED <<chunks, buffer, log>> /\ Unchanging

\* Mutant: a chunk that could not be appended is logged and skipped.
HandleChunkBestEffort(r) ==
  /\ step[r] = "stream"
  /\ chunks[r] < MaxChunks
  /\ chunks' = [chunks EXCEPT ![r] = @ + 1]
  /\ \/ buffer' = [buffer EXCEPT ![r] = @ + 1] /\ PublishOr(r, "agent_chunk", 1, "stream", "stream")
     \/ UNCHANGED buffer /\ PublishOr(r, "agent_chunk", 0, "stream", "stream")
     \/ UNCHANGED buffer /\ PublishOr(r, "agent_error", 0, "stream", "stream")
     \/ UNCHANGED <<buffer, step, log>>
  /\ Unchanging

\* _handle_chunk.  A text goes to the buffer before its event is appended; an
\* error chunk is one more event, and the stream goes on; end_turn is nothing.
HandleChunk(r) ==
  /\ step[r] = "stream"
  /\ chunks[r] < MaxChunks
  /\ chunks' = [chunks EXCEPT ![r] = @ + 1]
  /\ \/ buffer' = [buffer EXCEPT ![r] = @ + 1] /\ PublishOr(r, "agent_chunk", 1, "stream", "failing")
     \/ UNCHANGED buffer /\ PublishOr(r, "agent_chunk", 0, "stream", "failing")
     \/ UNCHANGED buffer /\ PublishOr(r, "agent_error", 0, "stream", "failing")
     \/ UNCHANGED <<buffer, step, log>>
  /\ Unchanging

StreamRaises(r) ==
  /\ step[r] = "stream"
  /\ step' = [step EXCEPT ![r] = "failing"]
  /\ UNCHANGED <<chunks, buffer, log>> /\ Unchanging

AppendError(r) ==
  /\ step[r] = "failing"
  /\ PublishOr(r, "agent_error", 0, "done", "lost")
  /\ UNCHANGED <<chunks, buffer>> /\ Unchanging

\* The stream has ended.
AppendAgentTurn(r) ==
  /\ step[r] = "stream"
  /\ PublishOr(r, "agent_turn", buffer[r], "done", "lost")
  /\ UNCHANGED <<chunks, buffer>> /\ Unchanging

-----------------------------------------------------------------------------
(* Shutdown.  A task reaches its loom session in its first step, which is   *)
(* queued before the request that scheduled it has ended; the server waits *)
(* for the requests, so no task is still "scheduled" when it shuts down.    *)

Close ==
  /\ server = "up"
  /\ \A r \in Runs : step[r] # "scheduled"
  /\ server' = "down"
  /\ warm' = None
  /\ open' = open \ {warm}
  /\ UNCHANGED <<step, loom, memory, chunks, buffer, pending, adopted, opened, log>>

\* The event loop cancels what still runs; run() does not catch that.
Cancelled(r) ==
  /\ server = "down"
  /\ step[r] \in {"recall", "prompt", "send", "stream", "failing"}
  /\ step' = [step EXCEPT ![r] = "lost"]
  /\ UNCHANGED <<chunks, buffer, log>> /\ Unchanging

RunStep(r) ==
  \/ Start(r) \/ CannotStart(r) \/ Recall(r) \/ AppendUserTurn(r) \/ SendMessage(r)
  \/ HandleChunk(r) \/ StreamRaises(r) \/ AppendError(r) \/ AppendAgentTurn(r)

RunnerNext ==
  \/ \E r \in Runs : Schedule(r) \/ RunStep(r) \/ Cancelled(r)
  \/ \E b \in Blocks : AdoptMemory(b)
  \/ ClearPendingMemory
  \/ Close

RunnerSpec == RunnerInit /\ [][RunnerNext]_runnerVars

-----------------------------------------------------------------------------
(* Properties *)

\* The places of a run's events in the log.
Own(r) == {i \in DOMAIN log : log[i].run = r}

TextChunks(r) == {i \in Own(r) : log[i].kind = "agent_chunk" /\ log[i].texts = 1}

\* However the runs interleave, the events of one run tell a story: nothing before its
\* user turn and no second one, nothing after its summary, and a run that returned
\* normally ends with a summary or an error ("persist the user turn first ...").
RunStory ==
  \A r \in Runs :
    /\ \A i \in Own(r) : log[i].kind = "turn" <=> \A j \in Own(r) : i <= j
    /\ \A i \in Own(r) : log[i].kind = "agent_turn"
                           => step[r] = "done" /\ \A j \in Own(r) : j <= i
    /\ step[r] = "done" => \E i \in Own(r) : /\ log[i].kind \in {"agent_turn", "agent_error"}
                                             /\ \A j \in Own(r) : j <= i

\* A summary holds the texts of exactly the chunks the same run has in the log, other
\* runs' chunks between them and failed appends notwithstanding: text_buffer and the
\* log are two records of one stream.
SummaryMatches ==
  \A r \in Runs : \A i \in Own(r) :
    log[i].kind = "agent_turn" => log[i].texts = Cardinality(TextChunks(r))

\* An adopted block goes into at most one prompt, and never while it still waits; a run
\* that cannot start leaves it for the next one.
AdoptedOnce ==
  /\ \A r \in Runs : memory[r] # None =>
       /\ memory[r] # pending
       /\ step[r] \notin {"idle", "scheduled", "unstarted"}
       /\ \A s \in Runs \ {r} : memory[s] # memory[r]
  /\ \A r \in Runs : memory[r] # None => memory[r] \in adopted
  /\ pending # None => pending \in adopted

\* Every loom session that is open is the one close() will find, and every run streams
\* from one that was opened: concurrent first runs must not create two.
OneLoom ==
  /\ open = {warm} \ {None}
  /\ \A r \in Runs : loom[r] # None => loom[r] \in 1..opened
  /\ warm # None => warm = opened /\ opened > 0

\* "Errors raised by the backend are persisted as agent_error events and surfaced to the
\* caller" (agent_runner.py, run): an accepted run that ended has an event in the log.
FailedRunsReport ==
  \A r \in Runs : step[r] \in {"done", "unstarted"} => \E i \in DOMAIN log : log[i].run = r
=============================================================================
