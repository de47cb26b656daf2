----------------------------- MODULE EventStream -----------------------------
(***************************************************************************)
(* The live event stream of one session: tasks that append an event and    *)
(* then publish it on the EventBus, and SSE connections that replay the    *)
(* log and then follow the bus (events_bus.py, api/events.py, and the      *)
(* append-then-publish pairs of api/sessions.py, api/ingest.py and         *)
(* agent_runner.py).  The bus keeps one bucket of subscribers per session, *)
(* so sessions do not meet and one is enough.                              *)
(*                                                                         *)
(* The log is the gapless run of seqs 0..log-1 (SessionStore!LogGapless),  *)
(* so only its length is kept.  A step is the code between two awaits:     *)
(* append_event commits in one transaction, and publish runs without       *)
(* suspending because nothing awaits while it holds the bus lock.          *)
(***************************************************************************)
EXTENDS Integers, Sequences, FiniteSets

CONSTANTS
  Appenders,   \* tasks that append to the session
  Conns,       \* SSE connections
  QueueMax,    \* EventBus queue_max
  MaxLog,      \* bound: events appended
  None,        \* no event in flight
  Resync       \* the None sentinel the bus puts in a queue

ASSUME StreamAssumption ==
  /\ QueueMax \in Nat \ {0}
  /\ MaxLog \in Nat
  /\ None \notin Nat /\ Resync \notin Int

VARIABLES
  log,         \* number of events in the table
  inFlight,    \* appender -> seq it has appended and not yet published, or None
  phase,       \* connection -> "closed", "subscribed", "replay" or "live"
  from,        \* connection -> from_seq of the request
  follow,      \* connection -> follow flag of the request
  history,     \* connection -> length of the log when list_events read it
  lastSeen,    \* connection -> last_seen_seq
  subs,        \* connection -> its _Subscriber: queue and needs_resync
  sent         \* connection -> seqs written to the response, in order

vars == <<log, inFlight, phase, from, follow, history, lastSeen, subs, sent>>

Subscriber == [queue : Seq(Nat \cup {Resync}), needsResync : BOOLEAN]

Idle == [queue |-> << >>, needsResync |-> FALSE]

TypeOK ==
  /\ log \in Nat
  /\ inFlight \in [Appenders -> Nat \cup {None}]
  /\ phase \in [Conns -> {"closed", "subscribed", "replay", "live"}]
  /\ from \in [Conns -> Nat]
  /\ follow \in [Conns -> BOOLEAN]
  /\ history \in [Conns -> Nat]
  /\ lastSeen \in [Conns -> Nat \cup {-1}]
  /\ subs \in [Conns -> Subscriber]
  /\ sent \in [Conns -> Seq(Nat)]

Init ==
  /\ log = 0
  /\ inFlight = [a \in Appenders |-> None]
  /\ phase = [c \in Conns |-> "closed"]
  /\ from = [c \in Conns |-> 0]
  /\ follow = [c \in Conns |-> FALSE]
  /\ history = [c \in Conns |-> 0]
  /\ lastSeen = [c \in Conns |-> -1]
  /\ subs = [c \in Conns |-> Idle]
  /\ sent = [c \in Conns |-> << >>]

-----------------------------------------------------------------------------
(* Appenders and the bus *)

AppendEvent(a) ==
  /\ inFlight[a] = None
  /\ log < MaxLog
  /\ inFlight' = [inFlight EXCEPT ![a] = log]
  /\ log' = log + 1
  /\ UNCHANGED <<phase, from, follow, history, lastSeen, subs, sent>>

HasRoom(sub) == Len(sub.queue) < QueueMax

\* A subscriber that missed events gets the sentinel as soon as there is room.
PutSentinel(sub) ==
  IF sub.needsResync /\ HasRoom(sub)
    THEN [queue |-> Append(sub.queue, Resync), needsResync |-> FALSE]
    ELSE sub

\* Mutant: an event that does not fit is dropped and nobody is told.
DropSilently(sub, seq) ==
  IF ~sub.needsResync /\ HasRoom(sub) THEN [sub EXCEPT !.queue = Append(@, seq)] ELSE sub

\* An event that does not fit is dropped and the subscriber is marked.
PutEvent(sub, seq) ==
  IF ~sub.needsResync /\ HasRoom(sub)
    THEN [sub EXCEPT !.queue = Append(@, seq)]
    ELSE [sub EXCEPT !.needsResync = TRUE]

Offer(sub, seq) == PutEvent(PutSentinel(sub), seq)

\* Mutant: the subscription is taken when the replay is over.
PublishToLive(a) ==
  /\ inFlight[a] # None
  /\ subs' = [c \in Conns |-> IF phase[c] = "live" THEN Offer(subs[c], inFlight[a])
                                                   ELSE subs[c]]
  /\ inFlight' = [inFlight EXCEPT ![a] = None]
  /\ UNCHANGED <<log, phase, from, follow, history, lastSeen, sent>>

Publish(a) ==
  /\ inFlight[a] # None
  /\ subs' = [c \in Conns |-> IF phase[c] = "closed" THEN subs[c]
                                                     ELSE Offer(subs[c], inFlight[a])]
  /\ inFlight' = [inFlight EXCEPT ![a] = None]
  /\ UNCHANGED <<log, phase, from, follow, history, lastSeen, sent>>

-----------------------------------------------------------------------------
(* stream_events *)

\* from_seq may lie ahead of the log.
Starts == 0..MaxLog

\* The subscription is taken before the history is read.
Subscribe(c) ==
  /\ phase[c] = "closed"
  /\ \E n \in Starts : from' = [from EXCEPT ![c] = n]
  /\ \E f \in BOOLEAN : follow' = [follow EXCEPT ![c] = f]
  /\ phase' = [phase EXCEPT ![c] = "subscribed"]
  /\ subs' = [subs EXCEPT ![c] = Idle]
  /\ sent' = [sent EXCEPT ![c] = << >>]
  /\ UNCHANGED <<log, inFlight, history, lastSeen>>

\* Mutant: the cursor starts one too low.
ReadHistoryLow(c) ==
  /\ phase[c] = "subscribed"
  /\ history' = [history EXCEPT ![c] = log]
  /\ lastSeen' = [lastSeen EXCEPT ![c] = from[c] - 2]
  /\ phase' = [phase EXCEPT ![c] = "replay"]
  /\ UNCHANGED <<log, inFlight, from, follow, subs, sent>>

ReadHistory(c) ==
  /\ phase[c] = "subscribed"
  /\ history' = [history EXCEPT ![c] = log]
  /\ lastSeen' = [lastSeen EXCEPT ![c] = from[c] - 1]
  /\ phase' = [phase EXCEPT ![c] = "replay"]
  /\ UNCHANGED <<log, inFlight, from, follow, subs, sent>>

Send(c, seq) ==
  /\ sent' = [sent EXCEPT ![c] = Append(@, seq)]
  /\ lastSeen' = [lastSeen EXCEPT ![c] = seq]

EmitHistory(c) ==
  /\ phase[c] = "replay"
  /\ lastSeen[c] + 1 < history[c]
  /\ Send(c, lastSeen[c] + 1)
  /\ UNCHANGED <<log, inFlight, phase, from, follow, history, subs>>

\* Leaving the generator unsubscribes and drops the queue.
Close(c) ==
  /\ phase' = [phase EXCEPT ![c] = "closed"]
  /\ subs' = [subs EXCEPT ![c] = Idle]

EndReplay(c) ==
  /\ phase[c] = "replay"
  /\ lastSeen[c] + 1 >= history[c]
  /\ \/ follow[c] /\ phase' = [phase EXCEPT ![c] = "live"] /\ UNCHANGED subs
     \/ ~follow[c] /\ Close(c)
  /\ UNCHANGED <<log, inFlight, from, follow, history, lastSeen, sent>>

Pop(c) == subs' = [subs EXCEPT ![c].queue = Tail(@)] /\ UNCHANGED phase

AlreadySent(c, item) == item <= lastSeen[c]

\* Mutant: the sentinel is skipped like a duplicate.
SkipSentinel(c) == Pop(c)

OnSentinel(c) == Close(c)

\* One turn of the live loop.  An item at or below the cursor is taken for a
\* replayed duplicate and skipped.
Deliver(c) ==
  /\ phase[c] = "live"
  /\ subs[c].queue # << >>
  /\ LET item == Head(subs[c].queue)
     IN  \/ item = Resync /\ OnSentinel(c) /\ UNCHANGED <<lastSeen, sent>>
         \/ item # Resync /\ AlreadySent(c, item) /\ Pop(c) /\ UNCHANGED <<lastSeen, sent>>
         \/ item # Resync /\ ~AlreadySent(c, item) /\ Pop(c) /\ Send(c, item)
  /\ UNCHANGED <<log, inFlight, from, follow, history>>

\* The client goes away at any await of the generator.
Disconnect(c) ==
  /\ phase[c] # "closed"
  /\ Close(c)
  /\ UNCHANGED <<log, inFlight, from, follow, history, lastSeen, sent>>

Next ==
  \/ \E a \in Appenders : AppendEvent(a) \/ Publish(a)
  \/ \E c \in Conns :
       \/ Subscribe(c) \/ ReadHistory(c) \/ EmitHistory(c)
       \/ EndReplay(c) \/ Deliver(c) \/ Disconnect(c)

Spec == Init /\ [][Next]_vars

\* The event loop runs every task that is ready.  For the generator of a response that means
\* that its client is connected and reads; a client may leave at any time, and owes nothing else.
Fairness ==
  /\ \A a \in Appenders : WF_vars(Publish(a))
  /\ \A c \in Conns :
       WF_vars(ReadHistory(c) \/ EmitHistory(c) \/ EndReplay(c) \/ Deliver(c))

FairSpec == Spec /\ Fairness

-----------------------------------------------------------------------------
(* Why a single appender leaves no gap.  Landed is the number of events    *)
(* that have reached the bus, and Reach(c) how far the connection will     *)
(* have come by the time it looks at its queue.                            *)

Landed == IF \A a \in Appenders : inFlight[a] = None THEN log ELSE log - 1

Reach(c) ==
  CASE phase[c] = "live"   -> lastSeen[c] + 1
    [] phase[c] = "replay" -> IF history[c] > lastSeen[c] + 1 THEN history[c]
                                                              ELSE lastSeen[c] + 1
    [] OTHER               -> log

\* Between two sentinels a queue holds consecutive seqs; an unmarked queue ends
\* with the newest published event, and its first event is within reach.
QueueOK(sub, landed, reach) ==
  LET q == sub.queue IN
  /\ \A i \in 1..(Len(q) - 1) :
       q[i] # Resync /\ q[i + 1] # Resync => q[i + 1] = q[i] + 1
  /\ Len(q) > 0 /\ ~sub.needsResync
       => q[Len(q)] # Resync /\ q[Len(q)] = landed - 1
  /\ Len(q) > 0 /\ q[1] # Resync => q[1] <= reach
  /\ Len(q) = 0 /\ ~sub.needsResync => landed <= reach

CursorInv(c) ==
  /\ phase[c] = "subscribed" => sent[c] = << >>
  /\ phase[c] \in {"replay", "live"} => lastSeen[c] = from[c] + Len(sent[c]) - 1

\* The inductive invariant behind NoSilentGap, when there is one appender.
DeliveryInv ==
  /\ \A a \in Appenders : inFlight[a] # None => inFlight[a] = log - 1
  /\ \A c \in Conns : CursorInv(c) /\ (phase[c] # "closed" => QueueOK(subs[c], Landed, Reach(c)))

-----------------------------------------------------------------------------
(* Properties *)

\* A connection never writes an event twice, nor an older event after a newer
\* one, whatever order the appenders publish in (api/events.py:110).
SentInOrder ==
  \A c \in Conns : \A i, j \in 1..Len(sent[c]) : i < j => sent[c][i] < sent[c][j]

\* A connection writes the log from from_seq on without leaving out an event:
\* the hand-over from replay to live and the dropping of events on a full queue
\* never show as a hole (events_bus.py:60-70, api/events.py:89-113).
NoSilentGap ==
  \A c \in Conns : \A i \in 1..Len(sent[c]) : sent[c][i] = from[c] + i - 1

Open == {c \in Conns : phase[c] # "closed"}

Feed == INSTANCE LogFeed WITH
  Readers <- Conns, reading <- Open, start <- from, got <- sent

\* Behind the bus, its bounded queues and the hand-over from replay to live, a
\* response is a reader of the log as LogFeed promises it: each step writes the
\* next event, opens or ends a response, or shows nothing to the client
\* (events_bus.py:60-70, api/events.py:67-113).
ImplementsFeed == Feed!Spec

\* A live connection only waits on an empty, unmarked queue when everything that
\* has been published is behind its cursor: nothing was lost between subscribing
\* and reading the history.
Published(n) == n < log /\ \A a \in Appenders : inFlight[a] # n

CaughtUpWhenIdle ==
  \A c \in Conns :
    phase[c] = "live" /\ subs[c] = Idle
      => \A n \in 0..(log - 1) : Published(n) => n <= lastSeen[c]

Following(c, n) == phase[c] # "closed" /\ follow[c] /\ n < log

\* A follower gets every event, unless it goes away or the bus has marked it as
\* having missed one.
FollowerCatchesUp ==
  \A c \in Conns : \A n \in 0..(MaxLog - 1) :
    Following(c, n) ~>
      (phase[c] = "closed" \/ lastSeen[c] >= n \/ subs[c].needsResync)

\* Once the sentinel is in the queue, the connection is closed, so that the
\* client can come back and replay.
HasSentinel(c) == \E i \in 1..Len(subs[c].queue) : subs[c].queue[i] = Resync

SentinelCloses ==
  \A c \in Conns : HasSentinel(c) ~> phase[c] = "closed"

\* What api/events.py:18-25 promises of a stream that stays open: every new event
\* is forwarded, or the response is closed so that the client resyncs.
ForwardedOrClosed ==
  \A c \in Conns : \A n \in 0..(MaxLog - 1) :
    Following(c, n) ~> (phase[c] = "closed" \/ lastSeen[c] >= n)

=============================================================================
