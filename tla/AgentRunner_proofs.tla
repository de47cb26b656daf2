-------------------------- MODULE AgentRunner_proofs --------------------------
(* Proofs about AgentRunner for every set of runs and blocks and every bound. *)
EXTENDS AgentRunner, FiniteSetTheorems, TLAPS

LEMMA PublishTyped ==
  ASSUME RunnerTypeOK, NEW r \in Runs, NEW texts \in Nat,
         NEW kind \in {"turn", "agent_chunk", "agent_turn", "agent_error"},
         NEW next \in Steps, NEW failed \in Steps, PublishOr(r, kind, texts, next, failed)
  PROVE  log' \in Seq(Event) /\ step' \in [Runs -> Steps]
<1>1. [run |-> r, kind |-> kind, texts |-> texts] \in Event
  BY DEF Event
<1>2. CASE Publish(r, kind, texts) /\ step' = [step EXCEPT ![r] = next]
  BY <1>1, <1>2 DEF RunnerTypeOK, Publish
<1>3. CASE step' = [step EXCEPT ![r] = failed] /\ UNCHANGED log
  BY <1>3 DEF RunnerTypeOK
<1>4. QED
  BY <1>2, <1>3 DEF PublishOr

LEMMA RunnerTypeStep == RunnerTypeOK /\ [RunnerNext]_runnerVars => RunnerTypeOK'
<1> SUFFICES ASSUME RunnerTypeOK, [RunnerNext]_runnerVars PROVE RunnerTypeOK'
  OBVIOUS
<1>1. CASE UNCHANGED runnerVars
  BY <1>1 DEF RunnerTypeOK, runnerVars
<1>2. ASSUME NEW r \in Runs, Schedule(r) PROVE RunnerTypeOK'
  BY <1>2 DEF RunnerTypeOK, Schedule, Steps
<1>3. ASSUME NEW r \in Runs, Start(r) PROVE RunnerTypeOK'
  <2>1. /\ loom' \in [Runs -> Nat \cup {None}] /\ warm' \in Nat \cup {None}
        /\ opened' \in Nat /\ open' \subseteq Nat
    <3>1. CASE warm # None
      BY <1>3, <3>1 DEF RunnerTypeOK, Start, EnsureSession
    <3>2. CASE warm = None
      <4>1. /\ opened' = opened + 1 /\ warm' = opened' /\ open' = open \cup {opened'}
            /\ loom' = [loom EXCEPT ![r] = opened']
        BY <1>3, <3>2 DEF Start, EnsureSession
      <4>2. opened' \in Nat
        BY <4>1 DEF RunnerTypeOK
      <4>3. QED
        BY <4>1, <4>2 DEF RunnerTypeOK
    <3>3. QED
      BY <3>1, <3>2
  <2>2. /\ memory' \in [Runs -> Blocks \cup {None}] /\ pending' \in Blocks \cup {None}
        /\ step' \in [Runs -> Steps]
    BY <1>3 DEF RunnerTypeOK, Start, TakeMemory, Steps
  <2>3. QED
    BY <1>3, <2>1, <2>2 DEF RunnerTypeOK, Start
<1>4. ASSUME NEW r \in Runs, CannotStart(r) \/ Recall(r) PROVE RunnerTypeOK'
  BY <1>4 DEF RunnerTypeOK, CannotStart, Recall, Steps
<1>5. ASSUME NEW r \in Runs, AppendUserTurn(r) \/ AppendError(r) \/ AppendAgentTurn(r)
      PROVE  RunnerTypeOK'
  <2>1. buffer[r] \in Nat /\ {"send", "done", "lost"} \subseteq Steps /\ 0 \in Nat
    BY DEF RunnerTypeOK, Steps
  <2>2. log' \in Seq(Event) /\ step' \in [Runs -> Steps]
    BY <1>5, <2>1, PublishTyped DEF AppendUserTurn, AppendError, AppendAgentTurn
  <2>3. QED
    BY <1>5, <2>2 DEF RunnerTypeOK, AppendUserTurn, AppendError, AppendAgentTurn, Unchanging
<1>6. ASSUME NEW r \in Runs, SendMessage(r) \/ StreamRaises(r) \/ Cancelled(r) PROVE RunnerTypeOK'
  BY <1>6 DEF RunnerTypeOK, SendMessage, StreamRaises, Cancelled, Unchanging, Steps
<1>7. ASSUME NEW r \in Runs, HandleChunk(r) PROVE RunnerTypeOK'
  <2>1. chunks' \in [Runs -> Nat] /\ buffer' \in [Runs -> Nat]
    <3>1. chunks' = [chunks EXCEPT ![r] = @ + 1]
      BY <1>7 DEF HandleChunk
    <3>2. buffer' = buffer \/ buffer' = [buffer EXCEPT ![r] = @ + 1]
      BY <1>7 DEF HandleChunk
    <3>3. chunks' \in [Runs -> Nat]
      BY <3>1 DEF RunnerTypeOK
    <3>4. buffer' \in [Runs -> Nat]
      <4>1. buffer \in [Runs -> Nat]
        BY DEF RunnerTypeOK
      <4>2. CASE buffer' = buffer
        BY <4>1, <4>2
      <4>3. CASE buffer' = [buffer EXCEPT ![r] = @ + 1]
        BY <4>1, <4>3
      <4>4. QED
        BY <3>2, <4>2, <4>3
    <3>5. QED
      BY <3>3, <3>4
  <2>2. {"stream", "failing"} \subseteq Steps /\ 0 \in Nat /\ 1 \in Nat
    BY DEF Steps
  <2>3. log' \in Seq(Event) /\ step' \in [Runs -> Steps]
    <3>1. CASE UNCHANGED <<buffer, step, log>>
      BY <3>1 DEF RunnerTypeOK
    <3>2. CASE \/ PublishOr(r, "agent_chunk", 1, "stream", "failing")
               \/ PublishOr(r, "agent_chunk", 0, "stream", "failing")
               \/ PublishOr(r, "agent_error", 0, "stream", "failing")
      BY <3>2, <2>2, PublishTyped
    <3>3. QED
      BY <1>7, <3>1, <3>2 DEF HandleChunk
  <2>4. QED
    BY <1>7, <2>1, <2>3 DEF RunnerTypeOK, HandleChunk, Unchanging
<1>8. CASE Close \/ ClearPendingMemory
  BY <1>8 DEF RunnerTypeOK, Close, ClearPendingMemory
<1>9. ASSUME NEW b \in Blocks, AdoptMemory(b) PROVE RunnerTypeOK'
  BY <1>9 DEF RunnerTypeOK, AdoptMemory
<1>10. QED
  BY <1>1, <1>2, <1>3, <1>4, <1>5, <1>6, <1>7, <1>8, <1>9 DEF RunnerNext, RunStep

\* What the steps of a started task leave alone, and where they lead.
LEMMA LaterSteps ==
  ASSUME RunnerTypeOK, NEW r \in Runs,
         \/ Recall(r) \/ AppendUserTurn(r) \/ SendMessage(r) \/ HandleChunk(r)
         \/ StreamRaises(r) \/ AppendError(r) \/ AppendAgentTurn(r) \/ Cancelled(r)
  PROVE  /\ Unchanging
         /\ step[r] \notin {"idle", "scheduled", "unstarted"}
         /\ \E s \in Steps \ {"idle", "scheduled", "unstarted"} : step' = [step EXCEPT ![r] = s]
<1> USE DEF Steps, Unchanging, RunnerTypeOK
<1>1. CASE Recall(r)
  BY <1>1 DEF Recall
<1>2. CASE AppendUserTurn(r)
  BY <1>2 DEF AppendUserTurn, PublishOr
<1>3. CASE SendMessage(r)
  BY <1>3 DEF SendMessage
<1>4. CASE HandleChunk(r)
  <2>1. CASE UNCHANGED step
    <3>1. step' = [step EXCEPT ![r] = "stream"]
      BY <1>4, <2>1 DEF HandleChunk
    <3>2. QED
      BY <1>4, <3>1 DEF HandleChunk
  <2>2. CASE step' = [step EXCEPT ![r] = "stream"] \/ step' = [step EXCEPT ![r] = "failing"]
    BY <1>4, <2>2 DEF HandleChunk
  <2>3. QED
    BY <1>4, <2>1, <2>2 DEF HandleChunk, PublishOr
<1>5. CASE StreamRaises(r)
  BY <1>5 DEF StreamRaises
<1>6. CASE AppendError(r)
  BY <1>6 DEF AppendError, PublishOr
<1>7. CASE AppendAgentTurn(r)
  BY <1>7 DEF AppendAgentTurn, PublishOr
<1>8. CASE Cancelled(r)
  BY <1>8 DEF Cancelled
<1>9. QED
  BY <1>1, <1>2, <1>3, <1>4, <1>5, <1>6, <1>7, <1>8

LEMMA OneLoomStep == RunnerTypeOK /\ OneLoom /\ [RunnerNext]_runnerVars => OneLoom'
<1> SUFFICES ASSUME RunnerTypeOK, OneLoom, [RunnerNext]_runnerVars PROVE OneLoom'
  OBVIOUS
<1> USE RunnerAssumption
<1>1. ASSUME UNCHANGED <<open, warm, loom, opened>> PROVE OneLoom'
  BY <1>1 DEF OneLoom
<1>2. ASSUME NEW r \in Runs, Start(r) PROVE OneLoom'
  <2>1. CASE warm # None
    <3>1. loom' = [loom EXCEPT ![r] = warm] /\ UNCHANGED <<warm, opened, open>>
      BY <1>2, <2>1 DEF Start, EnsureSession
    <3>2. warm \in Nat /\ opened \in Nat /\ warm = opened /\ open = {warm}
      BY <2>1 DEF OneLoom, RunnerTypeOK
    <3>3. warm \in 1..opened
      BY <2>1, <3>2 DEF OneLoom
    <3>4. ASSUME NEW s \in Runs, loom'[s] # None PROVE loom'[s] \in 1..opened
      BY <3>1, <3>3, <3>4 DEF OneLoom, RunnerTypeOK
    <3>5. QED
      BY <3>1, <3>4 DEF OneLoom
  <2>2. CASE warm = None
    <3>1. opened' = opened + 1 /\ warm' = opened' /\ open' = {opened'} /\ opened' # None
      BY <1>2, <2>2 DEF Start, EnsureSession, OneLoom, RunnerTypeOK
    <3>2. loom' = [loom EXCEPT ![r] = opened']
      BY <1>2, <2>2 DEF Start, EnsureSession
    <3>3. ASSUME NEW s \in Runs, loom'[s] # None PROVE loom'[s] \in 1..opened'
      BY <3>1, <3>2, <3>3 DEF OneLoom, RunnerTypeOK
    <3>4. opened' > 0 /\ open' = {warm'} \ {None}
      BY <3>1 DEF RunnerTypeOK
    <3>5. QED
      BY <3>1, <3>3, <3>4 DEF OneLoom
  <2>3. QED
    BY <2>1, <2>2
<1>3. CASE Close
  BY <1>3 DEF Close, OneLoom
<1>4. ASSUME NEW r \in Runs, Recall(r) \/ AppendUserTurn(r) \/ SendMessage(r) \/ HandleChunk(r)
             \/ StreamRaises(r) \/ AppendError(r) \/ AppendAgentTurn(r) \/ Cancelled(r)
      PROVE  OneLoom'
  BY <1>1, <1>4, LaterSteps DEF Unchanging
<1>5. QED
  BY <1>1, <1>2, <1>3, <1>4
     DEF RunnerNext, RunStep, runnerVars, Schedule, CannotStart, AdoptMemory, ClearPendingMemory

LEMMA AdoptedOnceStep ==
  RunnerTypeOK /\ AdoptedOnce /\ [RunnerNext]_runnerVars => AdoptedOnce'
<1> SUFFICES ASSUME RunnerTypeOK, AdoptedOnce, [RunnerNext]_runnerVars PROVE AdoptedOnce'
  OBVIOUS
<1> USE RunnerAssumption
<1>1. CASE UNCHANGED runnerVars
  BY <1>1 DEF AdoptedOnce, runnerVars
<1>2. ASSUME NEW r \in Runs, Start(r) PROVE AdoptedOnce'
  <2>1. /\ memory' = [memory EXCEPT ![r] = pending] /\ pending' = None /\ adopted' = adopted
        /\ step'[r] \in {"recall", "prompt"} /\ \A s \in Runs \ {r} : step'[s] = step[s]
    BY <1>2 DEF Start, TakeMemory, RunnerTypeOK
  <2>2. \A s \in Runs \ {r} : memory'[s] = memory[s]
    BY <2>1 DEF RunnerTypeOK
  <2>3. memory'[r] = pending
    BY <2>1 DEF RunnerTypeOK
  <2>4. QED
    BY <2>1, <2>2, <2>3 DEF AdoptedOnce
<1>3. ASSUME NEW r \in Runs, Schedule(r) \/ CannotStart(r) PROVE AdoptedOnce'
  <2>1. memory[r] = None
    BY <1>3 DEF AdoptedOnce, Schedule, CannotStart
  <2>2. /\ UNCHANGED <<memory, pending, adopted>>
        /\ \A s \in Runs \ {r} : step'[s] = step[s]
    BY <1>3 DEF Schedule, CannotStart, RunnerTypeOK
  <2>3. QED
    BY <2>1, <2>2 DEF AdoptedOnce
<1>4. ASSUME NEW r \in Runs, Recall(r) \/ AppendUserTurn(r) \/ SendMessage(r) \/ HandleChunk(r)
             \/ StreamRaises(r) \/ AppendError(r) \/ AppendAgentTurn(r) \/ Cancelled(r)
      PROVE  AdoptedOnce'
  <2>1. /\ UNCHANGED <<memory, pending, adopted>>
        /\ step'[r] \notin {"idle", "scheduled", "unstarted"}
        /\ \A s \in Runs \ {r} : step'[s] = step[s]
    BY <1>4, LaterSteps DEF Unchanging, RunnerTypeOK
  <2>2. QED
    BY <2>1 DEF AdoptedOnce
<1>5. ASSUME NEW b \in Blocks, AdoptMemory(b) PROVE AdoptedOnce'
  BY <1>5 DEF AdoptedOnce, AdoptMemory
<1>6. CASE Close \/ ClearPendingMemory
  BY <1>6 DEF AdoptedOnce, Close, ClearPendingMemory
<1>7. QED
  BY <1>1, <1>2, <1>3, <1>4, <1>5, <1>6 DEF RunnerNext, RunStep

-----------------------------------------------------------------------------
(* The log as the runs' stories: what one more event changes of it.        *)

LEMMA OwnFinite ==
  ASSUME RunnerTypeOK, NEW r \in Runs
  PROVE  /\ Own(r) \subseteq 1..Len(log) /\ Len(log) \in Nat
         /\ IsFiniteSet(TextChunks(r)) /\ Cardinality(TextChunks(r)) \in Nat
<1>1. Len(log) \in Nat /\ DOMAIN log = 1..Len(log)
  BY DEF RunnerTypeOK
<1>2. Own(r) \subseteq 1..Len(log) /\ TextChunks(r) \subseteq 1..Len(log)
  BY <1>1 DEF Own, TextChunks
<1>3. IsFiniteSet(1..Len(log))
  BY <1>1, FS_Interval
<1>4. IsFiniteSet(TextChunks(r))
  BY <1>2, <1>3, FS_Subset
<1>5. QED
  BY <1>1, <1>2, <1>4, FS_CardinalityType

\* One more event of a run is the last of the log, and nothing else of the log changes.
LEMMA PublishEvent ==
  ASSUME RunnerTypeOK, NEW r \in Runs, NEW texts \in Nat,
         NEW kind \in {"turn", "agent_chunk", "agent_turn", "agent_error"},
         Publish(r, kind, texts)
  PROVE  LET last == Len(log) + 1 IN
         /\ DOMAIN log = 1..Len(log) /\ DOMAIN log' = DOMAIN log \cup {last}
         /\ last \in Nat /\ last \notin DOMAIN log
         /\ \A i \in DOMAIN log : log'[i] = log[i]
         /\ log'[last].run = r /\ log'[last].kind = kind /\ log'[last].texts = texts
<1> DEFINE event == [run |-> r, kind |-> kind, texts |-> texts]
           last == Len(log) + 1
<1>1. event \in Event
  BY DEF Event
<1>2. log \in Seq(Event) /\ Len(log) \in Nat /\ DOMAIN log = 1..Len(log)
  BY DEF RunnerTypeOK
<1>3. log' = Append(log, event)
  BY DEF Publish
<1>4. /\ Len(log') = last /\ DOMAIN log' = 1..last
      /\ \A i \in 1..Len(log) : log'[i] = log[i]
      /\ log'[last] = event
  BY <1>1, <1>2, <1>3
<1>5. 1..last = (1..Len(log)) \cup {last} /\ last \notin 1..Len(log) /\ last \in Nat
  BY <1>2
<1>6. event.run = r /\ event.kind = kind /\ event.texts = texts
  OBVIOUS
<1>7. QED
  BY <1>2, <1>4, <1>5, <1>6

\* It is one more place of its run, and of the run's text chunks if it is one.
LEMMA PublishOwn ==
  ASSUME RunnerTypeOK, NEW r \in Runs, NEW texts \in Nat,
         NEW kind \in {"turn", "agent_chunk", "agent_turn", "agent_error"},
         Publish(r, kind, texts)
  PROVE  /\ Own(r)' = Own(r) \cup {Len(log) + 1}
         /\ TextChunks(r)' = TextChunks(r) \cup
              (IF kind = "agent_chunk" /\ texts = 1 THEN {Len(log) + 1} ELSE {})
<1> DEFINE last == Len(log) + 1
<1>1. /\ DOMAIN log' = DOMAIN log \cup {last} /\ last \notin DOMAIN log
      /\ \A i \in DOMAIN log : log'[i] = log[i]
      /\ log'[last].run = r /\ log'[last].kind = kind /\ log'[last].texts = texts
  BY PublishEvent
<1> HIDE DEF last
<1>2. Own(r)' = Own(r) \cup {last}
  BY <1>1 DEF Own
<1>3. TextChunks(r)' = TextChunks(r) \cup
              (IF kind = "agent_chunk" /\ texts = 1 THEN {last} ELSE {})
  BY <1>1, <1>2 DEF TextChunks, Own
<1>4. QED
  BY <1>2, <1>3 DEF last

\* The places of the other runs stay.
LEMMA PublishOthers ==
  ASSUME RunnerTypeOK, NEW r \in Runs, NEW texts \in Nat,
         NEW kind \in {"turn", "agent_chunk", "agent_turn", "agent_error"},
         Publish(r, kind, texts), NEW s \in Runs \ {r}
  PROVE  Own(s)' = Own(s) /\ TextChunks(s)' = TextChunks(s)
<1> DEFINE last == Len(log) + 1
<1>1. /\ DOMAIN log' = DOMAIN log \cup {last} /\ last \notin DOMAIN log
      /\ \A i \in DOMAIN log : log'[i] = log[i]
      /\ log'[last].run = r
  BY PublishEvent
<1> HIDE DEF last
<1>2. Own(s)' = Own(s)
  BY <1>1 DEF Own
<1>3. QED
  BY <1>1, <1>2 DEF TextChunks, Own

\* What a task's control state says of the events it has in the log and of its buffer:
\* none before its user turn, one at least from then on, and a buffer that is in step
\* with the log as long as the stream may still end well.
StoryInv ==
  \A r \in Runs :
    /\ step[r] \in {"idle", "scheduled", "recall", "prompt", "unstarted"} => Own(r) = {}
    /\ step[r] \in {"send", "stream", "failing", "done"} => Own(r) # {}
    /\ step[r] \in {"idle", "scheduled", "recall", "prompt", "send", "stream"}
         => buffer[r] = Cardinality(TextChunks(r))

StoriesOK == StoryInv /\ RunStory /\ SummaryMatches

\* The part of StoriesOK that is about one run.
StoryOf(r) ==
  /\ step[r] \in {"idle", "scheduled", "recall", "prompt", "unstarted"} => Own(r) = {}
  /\ step[r] \in {"send", "stream", "failing", "done"} => Own(r) # {}
  /\ step[r] \in {"idle", "scheduled", "recall", "prompt", "send", "stream"}
       => buffer[r] = Cardinality(TextChunks(r))
  /\ \A i \in Own(r) : log[i].kind = "turn" <=> \A j \in Own(r) : i <= j
  /\ \A i \in Own(r) : log[i].kind = "agent_turn"
                         => /\ step[r] = "done" /\ \A j \in Own(r) : j <= i
                            /\ log[i].texts = Cardinality(TextChunks(r))
  /\ step[r] = "done" => \E i \in Own(r) : /\ log[i].kind \in {"agent_turn", "agent_error"}
                                           /\ \A j \in Own(r) : j <= i

LEMMA StoryByRun == StoriesOK <=> \A r \in Runs : StoryOf(r)
BY DEF StoriesOK, StoryInv, RunStory, SummaryMatches, StoryOf

\* An event of one run leaves the stories of the others as they are.
LEMMA OthersStory ==
  ASSUME RunnerTypeOK, NEW r \in Runs, NEW s \in Runs \ {r}, StoryOf(s),
         step'[s] = step[s], buffer'[s] = buffer[s],
         \/ UNCHANGED log
         \/ \E kind \in {"turn", "agent_chunk", "agent_turn", "agent_error"}, texts \in Nat :
              Publish(r, kind, texts)
  PROVE  StoryOf(s)'
<1>1. CASE UNCHANGED log
  BY <1>1 DEF StoryOf, Own, TextChunks
<1>2. CASE ~UNCHANGED log
  <2>1. PICK kind \in {"turn", "agent_chunk", "agent_turn", "agent_error"}, texts \in Nat :
          Publish(r, kind, texts)
    BY <1>2
  <2>2. Own(s)' = Own(s) /\ TextChunks(s)' = TextChunks(s)
    BY <2>1, PublishOthers
  <2>3. \A i \in Own(s) : log'[i] = log[i]
    BY <2>1, PublishEvent DEF Own
  <2>4. QED
    BY <2>2, <2>3 DEF StoryOf
<1>3. QED
  BY <1>1, <1>2

\* The user turn is the first event of its run.
LEMMA TurnStory ==
  ASSUME RunnerTypeOK, NEW r \in Runs, StoryOf(r), AppendUserTurn(r)
  PROVE  StoryOf(r)'
<1> DEFINE last == Len(log) + 1
<1>1. step[r] = "prompt" /\ Own(r) = {} /\ buffer[r] = Cardinality(TextChunks(r))
  BY DEF AppendUserTurn, StoryOf
<1>2. UNCHANGED buffer
  BY DEF AppendUserTurn
<1>3. CASE Publish(r, "turn", 0) /\ step' = [step EXCEPT ![r] = "send"]
  <2>1. /\ Own(r)' = {last} /\ log'[last].kind = "turn"
        /\ TextChunks(r)' = TextChunks(r)
    BY <1>1, <1>3, PublishEvent, PublishOwn
  <2>2. step'[r] = "send"
    BY <1>3 DEF RunnerTypeOK
  <2>3. last \in Nat
    BY DEF RunnerTypeOK
  <2>4. QED
    BY <1>1, <1>2, <2>1, <2>2, <2>3 DEF StoryOf
<1>4. CASE step' = [step EXCEPT ![r] = "lost"] /\ UNCHANGED log
  <2>1. step'[r] = "lost"
    BY <1>4 DEF RunnerTypeOK
  <2>2. Own(r)' = {}
    BY <1>1, <1>4 DEF Own
  <2>3. QED
    BY <2>1, <2>2 DEF StoryOf
<1>5. QED
  BY <1>3, <1>4 DEF AppendUserTurn, PublishOr

\* Every later event comes after the user turn and is not one.
LEMMA LaterEvent ==
  ASSUME RunnerTypeOK, NEW r \in Runs, StoryOf(r), step[r] \in {"stream", "failing"},
         NEW kind \in {"agent_chunk", "agent_turn", "agent_error"}, NEW texts \in Nat,
         Publish(r, kind, texts)
  PROVE  LET last == Len(log) + 1 IN
         /\ Own(r)' = Own(r) \cup {last}
         /\ \A i \in Own(r)' : log'[i].kind = "turn" <=> \A j \in Own(r)' : i <= j
         /\ \A i \in Own(r) : log'[i].kind # "agent_turn"
         /\ \A j \in Own(r)' : j <= last
         /\ log'[last].kind = kind /\ log'[last].texts = texts
<1> DEFINE last == Len(log) + 1
<1>1. /\ Own(r)' = Own(r) \cup {last}
      /\ \A i \in 1..Len(log) : log'[i] = log[i]
      /\ log'[last].kind = kind /\ log'[last].texts = texts
  BY PublishEvent, PublishOwn
<1>2. Own(r) \subseteq 1..Len(log) /\ Len(log) \in Nat
  BY OwnFinite
<1>3. \A i \in Own(r) : i \in Nat /\ i < last /\ log'[i] = log[i]
  BY <1>1, <1>2
<1>4. Own(r) # {} /\ \A i \in Own(r) : log[i].kind # "agent_turn"
  BY DEF StoryOf
<1>5. last \in Nat
  BY <1>2
<1> HIDE DEF last
<1>6. \A i \in Own(r) : log'[i].kind = "turn" <=> \A j \in Own(r)' : i <= j
  <2>1. \A i \in Own(r) : log[i].kind = "turn" <=> \A j \in Own(r) : i <= j
    BY DEF StoryOf
  <2>2. \A i \in Own(r) : i <= last
    BY <1>3, <1>5
  <2>3. QED
    BY <1>1, <1>3, <2>1, <2>2
<1>7. kind # "turn" /\ ~ \A j \in Own(r)' : last <= j
  BY <1>1, <1>3, <1>4, <1>5
<1>8. \A j \in Own(r)' : j <= last
  BY <1>1, <1>3, <1>5
<1>9. QED
  BY <1>1, <1>3, <1>4, <1>6, <1>7, <1>8 DEF last

\* A text is in the buffer and, if its event could be appended, in the log.
LEMMA ChunkStory ==
  ASSUME RunnerTypeOK, NEW r \in Runs, StoryOf(r), HandleChunk(r)
  PROVE  StoryOf(r)'
<1>1. step[r] = "stream" /\ Own(r) # {} /\ buffer[r] = Cardinality(TextChunks(r))
      /\ \A i \in Own(r) : log[i].kind # "agent_turn"
  BY DEF HandleChunk, StoryOf
<1>2. CASE UNCHANGED <<buffer, step, log>>
  BY <1>2 DEF StoryOf, Own, TextChunks
<1>3. CASE UNCHANGED log /\ step' = [step EXCEPT ![r] = "failing"]
  <2>1. step'[r] = "failing"
    BY <1>3 DEF RunnerTypeOK
  <2>2. QED
    BY <1>1, <1>3, <2>1 DEF StoryOf, Own, TextChunks
<1>4. ASSUME NEW kind \in {"agent_chunk", "agent_error"}, NEW texts \in {0, 1},
             Publish(r, kind, texts), step' = [step EXCEPT ![r] = "stream"],
             kind = "agent_chunk" /\ texts = 1 => buffer' = [buffer EXCEPT ![r] = @ + 1],
             ~(kind = "agent_chunk" /\ texts = 1) => UNCHANGED buffer
      PROVE  StoryOf(r)'
  <2> DEFINE last == Len(log) + 1
  <2>1. step'[r] = "stream"
    BY <1>4 DEF RunnerTypeOK
  <2>2. /\ Own(r)' = Own(r) \cup {last}
        /\ \A i \in Own(r)' : log'[i].kind = "turn" <=> \A j \in Own(r)' : i <= j
        /\ \A i \in Own(r) : log'[i].kind # "agent_turn"
        /\ log'[last].kind = kind
    BY <1>1, <1>4, LaterEvent
  <2>3. TextChunks(r)' = TextChunks(r) \cup
          (IF kind = "agent_chunk" /\ texts = 1 THEN {last} ELSE {})
    BY <1>4, PublishOwn
  <2>4. last \notin TextChunks(r) /\ IsFiniteSet(TextChunks(r))
    <3>1. Own(r) \subseteq 1..Len(log) /\ Len(log) \in Nat /\ IsFiniteSet(TextChunks(r))
      BY OwnFinite
    <3>2. last \notin 1..Len(log)
      BY <3>1
    <3>3. QED
      BY <3>1, <3>2 DEF TextChunks
  <2>5. buffer'[r] = Cardinality(TextChunks(r)')
    <3>1. CASE kind = "agent_chunk" /\ texts = 1
      <4>1. buffer'[r] = buffer[r] + 1
        BY <1>4, <3>1 DEF RunnerTypeOK
      <4>2. Cardinality(TextChunks(r) \cup {last}) = Cardinality(TextChunks(r)) + 1
        BY <2>4, FS_AddElement
      <4>3. QED
        BY <1>1, <2>3, <3>1, <4>1, <4>2
    <3>2. CASE ~(kind = "agent_chunk" /\ texts = 1)
      BY <1>1, <1>4, <2>3, <3>2
    <3>3. QED
      BY <3>1, <3>2
  <2> HIDE DEF last
  <2>6. \A i \in Own(r)' : log'[i].kind # "agent_turn"
    BY <2>2
  <2>7. QED
    BY <1>1, <2>1, <2>2, <2>5, <2>6 DEF StoryOf
<1>5. QED
  BY <1>2, <1>3, <1>4 DEF HandleChunk, PublishOr

\* A summary takes the buffer, and nothing of the run comes after it.
LEMMA EndStory ==
  ASSUME RunnerTypeOK, NEW r \in Runs, StoryOf(r), AppendError(r) \/ AppendAgentTurn(r)
  PROVE  StoryOf(r)'
<1>1. PICK kind \in {"agent_turn", "agent_error"}, texts \in Nat :
        /\ step[r] \in {"stream", "failing"}
        /\ PublishOr(r, kind, texts, "done", "lost")
        /\ kind = "agent_turn" => step[r] = "stream" /\ texts = buffer[r]
        /\ UNCHANGED buffer
  BY DEF AppendError, AppendAgentTurn, RunnerTypeOK
<1>2. \A i \in Own(r) : log[i].kind # "agent_turn"
  BY <1>1 DEF StoryOf
<1>3. CASE step' = [step EXCEPT ![r] = "lost"] /\ UNCHANGED log
  <2>1. step'[r] = "lost"
    BY <1>3 DEF RunnerTypeOK
  <2>2. QED
    BY <1>2, <1>3, <2>1 DEF StoryOf, Own, TextChunks
<1>4. CASE Publish(r, kind, texts) /\ step' = [step EXCEPT ![r] = "done"]
  <2> DEFINE last == Len(log) + 1
  <2>1. step'[r] = "done"
    BY <1>4 DEF RunnerTypeOK
  <2>2. /\ Own(r)' = Own(r) \cup {last}
        /\ \A i \in Own(r)' : log'[i].kind = "turn" <=> \A j \in Own(r)' : i <= j
        /\ \A i \in Own(r) : log'[i].kind # "agent_turn"
        /\ \A j \in Own(r)' : j <= last
        /\ log'[last].kind = kind /\ log'[last].texts = texts
    BY <1>1, <1>4, LaterEvent
  <2>3. TextChunks(r)' = TextChunks(r)
    BY <1>4, PublishOwn
  <2>4. kind = "agent_turn" => texts = Cardinality(TextChunks(r))
    BY <1>1 DEF StoryOf
  <2> HIDE DEF last
  <2>5. QED
    BY <2>1, <2>2, <2>3, <2>4 DEF StoryOf
<1>5. QED
  BY <1>1, <1>3, <1>4 DEF PublishOr

\* The steps that only move a task on.
LEMMA QuietStory ==
  ASSUME RunnerTypeOK, NEW r \in Runs, StoryOf(r), UNCHANGED <<log, buffer>>,
         \/ Schedule(r) \/ Start(r) \/ CannotStart(r) \/ Recall(r) \/ SendMessage(r)
         \/ StreamRaises(r) \/ Cancelled(r)
  PROVE  StoryOf(r)'
<1>1. Own(r)' = Own(r) /\ TextChunks(r)' = TextChunks(r)
  BY DEF Own, TextChunks
<1> USE <1>1 DEF RunnerTypeOK, StoryOf
<1>2. CASE Schedule(r)
  BY <1>2 DEF Schedule
<1>3. CASE Start(r)
  BY <1>3 DEF Start, TakeMemory
<1>4. CASE CannotStart(r)
  BY <1>4 DEF CannotStart
<1>5. CASE Recall(r)
  BY <1>5 DEF Recall
<1>6. CASE SendMessage(r)
  BY <1>6 DEF SendMessage
<1>7. CASE StreamRaises(r)
  BY <1>7 DEF StreamRaises
<1>8. CASE Cancelled(r)
  BY <1>8 DEF Cancelled
<1>9. QED
  BY <1>2, <1>3, <1>4, <1>5, <1>6, <1>7, <1>8

LEMMA StoriesStep == RunnerTypeOK /\ StoriesOK /\ [RunnerNext]_runnerVars => StoriesOK'
<1> SUFFICES ASSUME RunnerTypeOK, StoriesOK, [RunnerNext]_runnerVars, NEW s \in Runs
             PROVE  StoryOf(s)'
  <2>1. (\A s \in Runs : StoryOf(s))' => StoriesOK'
    BY DEF StoriesOK, StoryInv, RunStory, SummaryMatches, StoryOf
  <2>2. QED
    BY <2>1
<1>1. StoryOf(s)
  BY StoryByRun
<1>2. ASSUME UNCHANGED <<log, step, buffer>> PROVE StoryOf(s)'
  BY <1>1, <1>2 DEF StoryOf, Own, TextChunks
<1>3. ASSUME NEW r \in Runs, Schedule(r) \/ RunStep(r) \/ Cancelled(r) PROVE StoryOf(s)'
  <2>1. CASE s = r
    <3>1. CASE AppendUserTurn(r)
      BY <1>1, <2>1, <3>1, TurnStory
    <3>2. CASE HandleChunk(r)
      BY <1>1, <2>1, <3>2, ChunkStory
    <3>3. CASE AppendError(r) \/ AppendAgentTurn(r)
      BY <1>1, <2>1, <3>3, EndStory
    <3>4. CASE \/ Schedule(r) \/ Start(r) \/ CannotStart(r) \/ Recall(r) \/ SendMessage(r)
               \/ StreamRaises(r) \/ Cancelled(r)
      <4>1. UNCHANGED <<log, buffer>>
        BY <3>4 DEF Schedule, Start, CannotStart, Recall, SendMessage, StreamRaises, Cancelled
      <4>2. QED
        BY <1>1, <2>1, <3>4, <4>1, QuietStory
    <3>5. QED
      BY <1>3, <3>1, <3>2, <3>3, <3>4 DEF RunStep
  <2>2. CASE s # r
    <3>1. step'[s] = step[s] /\ buffer'[s] = buffer[s]
      BY <1>3, <2>2 DEF RunnerTypeOK, Schedule, RunStep, Start, TakeMemory, CannotStart, Recall,
                        AppendUserTurn, SendMessage, HandleChunk, StreamRaises, AppendError,
                        AppendAgentTurn, Cancelled, PublishOr
    <3>2. \/ UNCHANGED log
          \/ \E kind \in {"turn", "agent_chunk", "agent_turn", "agent_error"}, texts \in Nat :
               Publish(r, kind, texts)
      BY <1>3 DEF RunnerTypeOK, Schedule, RunStep, Start, CannotStart, Recall,
                  AppendUserTurn, SendMessage, HandleChunk, StreamRaises, AppendError,
                  AppendAgentTurn, Cancelled, PublishOr
    <3>3. QED
      BY <1>1, <2>2, <3>1, <3>2, OthersStory
  <2>3. QED
    BY <2>1, <2>2
<1>4. QED
  BY <1>2, <1>3 DEF RunnerNext, runnerVars, AdoptMemory, ClearPendingMemory, Close

RunnerInv == RunnerTypeOK /\ OneLoom /\ AdoptedOnce /\ StoriesOK

LEMMA RunnerInvariant == RunnerSpec => []RunnerInv
<1>1. RunnerInit => RunnerInv
  <2> SUFFICES ASSUME RunnerInit PROVE RunnerInv
    OBVIOUS
  <2>1. RunnerTypeOK
    BY DEF RunnerInit, RunnerTypeOK, Steps
  <2>2. OneLoom /\ AdoptedOnce
    BY DEF RunnerInit, OneLoom, AdoptedOnce
  <2>3. StoriesOK
    <3>1. \A r \in Runs : Own(r) = {} /\ TextChunks(r) = {}
      BY DEF RunnerInit, Own, TextChunks
    <3>2. QED
      BY <3>1, FS_EmptySet DEF RunnerInit, StoriesOK, StoryInv, RunStory, SummaryMatches
  <2>4. QED
    BY <2>1, <2>2, <2>3 DEF RunnerInv
<1>2. RunnerInv /\ [RunnerNext]_runnerVars => RunnerInv'
  BY RunnerTypeStep, OneLoomStep, AdoptedOnceStep, StoriesStep DEF RunnerInv
<1>3. QED
  BY <1>1, <1>2, PTL DEF RunnerSpec

\* In every behaviour the runner's dicts and the tasks' local variables have their types.
THEOREM RunnerTypeCorrect == RunnerSpec => []RunnerTypeOK
  BY RunnerInvariant, PTL DEF RunnerInv

\* However many runs start at once, they share one loom session, and close() finds it.
THEOREM RunnerOneLoom == RunnerSpec => []OneLoom
  BY RunnerInvariant, PTL DEF RunnerInv

\* However many runs and adoptions race, a block goes into at most one prompt.
THEOREM RunnerAdoptedOnce == RunnerSpec => []AdoptedOnce
  BY RunnerInvariant, PTL DEF RunnerInv

\* However the tasks of a session interleave, and whichever of their appends fail, the
\* events of a run are a user turn, then chunks and errors, and at most one summary.
THEOREM RunsTellTheirStory == RunnerSpec => []RunStory
  BY RunnerInvariant, PTL DEF RunnerInv, StoriesOK

\* A summary has the texts of its own run's chunks in the log: no other run's, none twice,
\* none whose event could not be appended.
THEOREM SummariesMatch == RunnerSpec => []SummaryMatches
  BY RunnerInvariant, PTL DEF RunnerInv, StoriesOK
=============================================================================
