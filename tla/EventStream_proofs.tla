-------------------------- MODULE EventStream_proofs --------------------------
(* Proofs about EventStream for every set of connections, every queue      *)
(* bound and every length of the log.                                      *)
EXTENDS EventStream, SequenceTheorems, TLAPS

USE DEF Pop, OnSentinel, AlreadySent

-----------------------------------------------------------------------------
(* Type correctness *)

LEMMA SubscriberFields ==
  ASSUME NEW sub \in Subscriber
  PROVE  /\ sub = [queue |-> sub.queue, needsResync |-> sub.needsResync]
         /\ sub.queue \in Seq(Nat \cup {Resync})
         /\ sub.needsResync \in BOOLEAN
         /\ \A q \in Seq(Nat \cup {Resync}) :
              /\ [sub EXCEPT !.queue = q] \in Subscriber
              /\ [sub EXCEPT !.queue = q].queue = q
              /\ [sub EXCEPT !.queue = q].needsResync = sub.needsResync
         /\ \A b \in BOOLEAN :
              /\ [sub EXCEPT !.needsResync = b] \in Subscriber
              /\ [sub EXCEPT !.needsResync = b].queue = sub.queue
              /\ [sub EXCEPT !.needsResync = b].needsResync = b
BY DEF Subscriber

LEMMA OfferType ==
  ASSUME NEW sub \in Subscriber, NEW n \in Nat
  PROVE  Offer(sub, n) \in Subscriber
<1>1. PutSentinel(sub) \in Subscriber
  BY DEF PutSentinel, Subscriber
<1>2. ASSUME NEW x \in Subscriber
      PROVE  PutEvent(x, n) \in Subscriber
  <2>1. Append(x.queue, n) \in Seq(Nat \cup {Resync})
    BY SubscriberFields
  <2>2. QED
    BY <2>1, SubscriberFields DEF PutEvent
<1>3. QED
  BY <1>1, <1>2 DEF Offer

LEMMA TypeStep == TypeOK /\ [Next]_vars => TypeOK'
<1> SUFFICES ASSUME TypeOK, [Next]_vars
             PROVE  TypeOK'
  OBVIOUS
<1> USE StreamAssumption
<1>0. Idle \in Subscriber
  BY DEF Idle, Subscriber
<1>1. ASSUME NEW a \in Appenders, AppendEvent(a)
      PROVE  TypeOK'
  BY <1>1 DEF TypeOK, AppendEvent
<1>2. ASSUME NEW a \in Appenders, Publish(a)
      PROVE  TypeOK'
  <2>1. inFlight[a] \in Nat
    BY <1>2 DEF TypeOK, Publish
  <2>2. \A c \in Conns : subs'[c] \in Subscriber
    BY <1>2, <2>1, OfferType DEF TypeOK, Publish
  <2>3. subs' \in [Conns -> Subscriber]
    BY <1>2, <2>2 DEF Publish
  <2>4. QED
    BY <1>2, <2>3 DEF TypeOK, Publish
<1>3. ASSUME NEW c \in Conns, Subscribe(c)
      PROVE  TypeOK'
  BY <1>0, <1>3 DEF TypeOK, Subscribe, Starts
<1>4. ASSUME NEW c \in Conns, ReadHistory(c)
      PROVE  TypeOK'
  BY <1>4 DEF TypeOK, ReadHistory
<1>5. ASSUME NEW c \in Conns, EmitHistory(c)
      PROVE  TypeOK'
  <2>0. lastSeen[c] \in Nat \cup {-1}
    BY DEF TypeOK
  <2>1. lastSeen[c] + 1 \in Nat
    BY <2>0
  <2>2. QED
    BY <1>5, <2>1 DEF TypeOK, EmitHistory, Send
<1>6. ASSUME NEW c \in Conns, EndReplay(c)
      PROVE  TypeOK'
  BY <1>0, <1>6 DEF TypeOK, EndReplay, Close
<1>7. ASSUME NEW c \in Conns, Deliver(c)
      PROVE  TypeOK'
  <2> DEFINE item == Head(subs[c].queue)
  <2>1. /\ subs[c].queue \in Seq(Nat \cup {Resync})
        /\ subs[c].queue # << >>
        /\ item \in Nat \cup {Resync}
        /\ Tail(subs[c].queue) \in Seq(Nat \cup {Resync})
    BY <1>7, SubscriberFields DEF TypeOK, Deliver
  <2>2. [subs[c] EXCEPT !.queue = Tail(@)] \in Subscriber
    BY <2>1, SubscriberFields DEF TypeOK
  <2>3. [subs EXCEPT ![c].queue = Tail(@)] \in [Conns -> Subscriber]
    BY <2>2 DEF TypeOK
  <2>4. CASE item = Resync
    <3>1. Close(c) /\ UNCHANGED <<log, inFlight, from, follow, history, lastSeen, sent>>
      BY <1>7, <2>4, StreamAssumption DEF Deliver
    <3>2. QED
      BY <1>0, <3>1 DEF TypeOK, Close
  <2>5. CASE item # Resync
    <3>1. /\ subs' = [subs EXCEPT ![c].queue = Tail(@)]
          /\ UNCHANGED <<log, inFlight, phase, from, follow, history>>
          /\ UNCHANGED <<lastSeen, sent>> \/ Send(c, item)
      BY <1>7, <2>5 DEF Deliver
    <3>2. item \in Nat
      BY <2>1, <2>5
    <3>3. CASE UNCHANGED <<lastSeen, sent>>
      BY <2>3, <3>1, <3>3 DEF TypeOK
    <3>4. CASE Send(c, item)
      <4> HIDE DEF item
      <4>1. Append(sent[c], item) \in Seq(Nat)
        BY <3>2 DEF TypeOK
      <4>2. QED
        BY <2>3, <3>1, <3>2, <3>4, <4>1 DEF TypeOK, Send
    <3>5. QED
      BY <3>1, <3>3, <3>4
  <2>6. QED
    BY <2>4, <2>5
<1>8. ASSUME NEW c \in Conns, Disconnect(c)
      PROVE  TypeOK'
  BY <1>0, <1>8 DEF TypeOK, Disconnect, Close
<1>9. CASE UNCHANGED vars
  BY <1>9 DEF TypeOK, vars
<1>10. QED
  BY <1>1, <1>2, <1>3, <1>4, <1>5, <1>6, <1>7, <1>8, <1>9 DEF Next

\* Every reachable state of the stream is well typed.
THEOREM StreamTypeCorrect == Spec => []TypeOK
<1>1. Init => TypeOK
  BY DEF Init, TypeOK, Idle, Subscriber
<1>2. QED
  BY <1>1, TypeStep, PTL DEF Spec

-----------------------------------------------------------------------------
(* What the bus does to one queue *)

LEMMA MarkOK ==
  ASSUME NEW sub \in Subscriber, NEW landed \in Int, NEW reach \in Int, NEW next \in Int,
         QueueOK(sub, landed, reach), Len(sub.queue) > 0
  PROVE  QueueOK([sub EXCEPT !.needsResync = TRUE], next, reach)
BY SubscriberFields DEF QueueOK

LEMMA SentinelOK ==
  ASSUME NEW sub \in Subscriber, NEW landed \in Int, NEW reach \in Int, NEW next \in Int,
         QueueOK(sub, landed, reach)
  PROVE  QueueOK([queue |-> Append(sub.queue, Resync), needsResync |-> TRUE], next, reach)
<1> DEFINE q == sub.queue
           r == Append(q, Resync)
<1>1. q \in Seq(Nat \cup {Resync})
  BY SubscriberFields
<1>2. /\ Len(r) = Len(q) + 1
      /\ Len(q) \in Nat
      /\ \A i \in 1..Len(q) : r[i] = q[i]
      /\ r[Len(q) + 1] = Resync
  BY <1>1
<1>3. \A i \in 1..(Len(q) - 1) : q[i] # Resync /\ q[i + 1] # Resync => q[i + 1] = q[i] + 1
  BY DEF QueueOK
<1>4. ASSUME NEW i \in 1..(Len(r) - 1), r[i] # Resync, r[i + 1] # Resync
      PROVE  r[i + 1] = r[i] + 1
  <2>1. i \in 1..(Len(q) - 1)
    BY <1>2, <1>4
  <2>2. i \in 1..Len(q) /\ i + 1 \in 1..Len(q)
    BY <1>2, <2>1
  <2>3. QED
    BY <1>2, <1>3, <1>4, <2>1, <2>2
<1>5. ASSUME r[1] # Resync
      PROVE  r[1] <= reach
  <2>1. Len(q) > 0
    BY <1>2, <1>5
  <2>2. r[1] = q[1]
    BY <1>2, <2>1
  <2>3. QED
    BY <1>5, <2>1, <2>2 DEF QueueOK
<1> HIDE DEF r
<1>6. QED
  BY <1>2, <1>4, <1>5 DEF QueueOK, r

LEMMA EventOK ==
  ASSUME NEW sub \in Subscriber, NEW n \in Nat, NEW reach \in Int,
         QueueOK(sub, n, reach), ~sub.needsResync
  PROVE  QueueOK([sub EXCEPT !.queue = Append(@, n)], n + 1, reach)
<1> DEFINE q == sub.queue
           r == Append(q, n)
           new == [sub EXCEPT !.queue = Append(@, n)]
<1>1. q \in Seq(Nat \cup {Resync}) /\ r \in Seq(Nat \cup {Resync})
  BY SubscriberFields
<1>2. /\ Len(r) = Len(q) + 1
      /\ Len(q) \in Nat
      /\ \A i \in 1..Len(q) : r[i] = q[i]
      /\ r[Len(q) + 1] = n
  BY <1>1
<1>3. new.queue = r /\ new.needsResync = FALSE
  BY <1>1, SubscriberFields
<1>4. /\ \A i \in 1..(Len(q) - 1) : q[i] # Resync /\ q[i + 1] # Resync => q[i + 1] = q[i] + 1
      /\ Len(q) > 0 => q[Len(q)] # Resync /\ q[Len(q)] = n - 1
      /\ Len(q) > 0 /\ q[1] # Resync => q[1] <= reach
      /\ Len(q) = 0 => n <= reach
  BY DEF QueueOK
<1>5. ASSUME NEW i \in 1..(Len(r) - 1), r[i] # Resync, r[i + 1] # Resync
      PROVE  r[i + 1] = r[i] + 1
  <2>1. CASE i = Len(q)
    BY <1>2, <1>4, <2>1
  <2>2. CASE i # Len(q)
    <3>1. i \in 1..(Len(q) - 1) /\ i \in 1..Len(q) /\ i + 1 \in 1..Len(q)
      BY <1>2, <2>2
    <3>2. QED
      BY <1>2, <1>4, <1>5, <3>1
  <2>3. QED
    BY <2>1, <2>2
<1>6. r[Len(r)] = n /\ n # Resync /\ n = (n + 1) - 1
  BY <1>2, StreamAssumption
<1>7. ASSUME r[1] # Resync
      PROVE  r[1] <= reach
  <2>1. CASE Len(q) = 0
    BY <1>2, <1>4, <2>1
  <2>2. CASE Len(q) > 0
    BY <1>2, <1>4, <1>7, <2>2
  <2>3. QED
    BY <1>2, <2>1, <2>2
<1> HIDE DEF r, new
<1>8. Len(r) > 0 /\ Len(r) \in Nat
  BY <1>2
<1>9. QueueOK(new, n + 1, reach)
  BY <1>3, <1>5, <1>6, <1>7, <1>8 DEF QueueOK
<1>10. QED
  BY <1>9 DEF new

\* Publishing event n keeps the queue in order, whether the event is put,
\* dropped, or announced by a sentinel.
LEMMA OfferOK ==
  ASSUME NEW sub \in Subscriber, NEW n \in Nat, NEW reach \in Int,
         QueueOK(sub, n, reach)
  PROVE  QueueOK(Offer(sub, n), n + 1, reach)
<1>1. Len(sub.queue) \in Nat
  BY SubscriberFields
<1>2. CASE ~sub.needsResync /\ HasRoom(sub)
  <2>1. Offer(sub, n) = [sub EXCEPT !.queue = Append(@, n)]
    BY <1>2 DEF Offer, PutSentinel, PutEvent
  <2>2. QED
    BY <1>2, <2>1, EventOK
<1>3. CASE ~HasRoom(sub)
  <2>1. Offer(sub, n) = [sub EXCEPT !.needsResync = TRUE]
    BY <1>3 DEF Offer, PutSentinel, PutEvent
  <2>2. Len(sub.queue) > 0
    BY <1>1, <1>3, StreamAssumption DEF HasRoom
  <2>3. QED
    BY <2>1, <2>2, MarkOK
<1>4. CASE sub.needsResync /\ HasRoom(sub)
  <2> DEFINE mark == [queue |-> Append(sub.queue, Resync), needsResync |-> TRUE]
             flushed == [queue |-> Append(sub.queue, Resync), needsResync |-> FALSE]
  <2>1. PutSentinel(sub) = flushed
    BY <1>4 DEF PutSentinel
  <2>2. Append(sub.queue, Resync) \in Seq(Nat \cup {Resync})
    BY SubscriberFields
  <2>3. CASE HasRoom(flushed)
    <3> DEFINE r == Append(sub.queue, Resync)
               new == [queue |-> Append(r, n), needsResync |-> FALSE]
    <3>1. Offer(sub, n) = new
      <4>1. Offer(sub, n) = PutEvent(flushed, n)
        BY <2>1 DEF Offer
      <4>2. PutEvent(flushed, n) = [flushed EXCEPT !.queue = Append(@, n)]
        BY <2>3 DEF PutEvent
      <4>3. QED
        BY <4>1, <4>2
    <3>2. QueueOK(mark, n, reach)
      BY SentinelOK
    <3>3. /\ Len(r) = Len(sub.queue) + 1
          /\ r[Len(r)] = Resync
          /\ Len(Append(r, n)) = Len(r) + 1
          /\ \A i \in 1..Len(r) : Append(r, n)[i] = r[i]
          /\ Append(r, n)[Len(r) + 1] = n
      BY <1>1, <2>2, SubscriberFields
    <3>4. \A i \in 1..(Len(r) - 1) : r[i] # Resync /\ r[i + 1] # Resync => r[i + 1] = r[i] + 1
      BY <3>2 DEF QueueOK
    <3>5. r[1] # Resync => r[1] <= reach
      BY <1>1, <3>2, <3>3 DEF QueueOK
    <3> HIDE DEF r
    <3>6. ASSUME NEW i \in 1..Len(r), Append(r, n)[i] # Resync, Append(r, n)[i + 1] # Resync
          PROVE  Append(r, n)[i + 1] = Append(r, n)[i] + 1
      <4>1. i # Len(r) /\ Len(r) \in Nat
        BY <1>1, <3>3, <3>6
      <4>2. i \in 1..(Len(r) - 1) /\ i + 1 \in 1..Len(r)
        BY <4>1
      <4>3. QED
        BY <3>3, <3>4, <3>6, <4>2
    <3>7. 1 \in 1..Len(r) /\ n # Resync /\ Len(r) \in Nat
      BY <1>1, <3>3, StreamAssumption
    <3>8. QED
      BY <3>1, <3>3, <3>5, <3>6, <3>7 DEF QueueOK
  <2>4. CASE ~HasRoom(flushed)
    <3>1. Offer(sub, n) = mark
      <4>1. Offer(sub, n) = PutEvent(flushed, n)
        BY <2>1 DEF Offer
      <4>2. PutEvent(flushed, n) = [flushed EXCEPT !.needsResync = TRUE]
        BY <2>4 DEF PutEvent
      <4>3. QED
        BY <4>1, <4>2
    <3>2. QED
      BY <3>1, SentinelOK
  <2>5. QED
    BY <2>3, <2>4
<1>5. QED
  BY <1>2, <1>3, <1>4, SubscriberFields

\* Taking the first event off a queue leaves it in order, once the connection
\* has come past that event.
LEMMA TailOK ==
  ASSUME NEW sub \in Subscriber, NEW landed \in Int, NEW reach \in Int, NEW next \in Int,
         QueueOK(sub, landed, reach),
         sub.queue # << >>, Head(sub.queue) # Resync, Head(sub.queue) + 1 <= next
  PROVE  QueueOK([sub EXCEPT !.queue = Tail(@)], landed, next)
<1> DEFINE q == sub.queue
           r == Tail(q)
           new == [sub EXCEPT !.queue = Tail(@)]
<1>1. q \in Seq(Nat \cup {Resync}) /\ r \in Seq(Nat \cup {Resync})
  BY SubscriberFields
<1>2. /\ Len(q) \in Nat /\ Len(q) > 0
      /\ Len(r) = Len(q) - 1
      /\ \A i \in 1..Len(r) : r[i] = q[i + 1]
      /\ q[1] = Head(q) /\ q[1] \in Nat
  BY <1>1
<1>3. new.queue = r /\ new.needsResync = sub.needsResync
  BY <1>1, SubscriberFields
<1>4. /\ \A i \in 1..(Len(q) - 1) : q[i] # Resync /\ q[i + 1] # Resync => q[i + 1] = q[i] + 1
      /\ ~sub.needsResync => q[Len(q)] # Resync /\ q[Len(q)] = landed - 1
  BY <1>2 DEF QueueOK
<1>5. ASSUME NEW i \in 1..(Len(r) - 1), r[i] # Resync, r[i + 1] # Resync
      PROVE  r[i + 1] = r[i] + 1
  <2>1. i \in 1..Len(r) /\ i + 1 \in 1..Len(r) /\ i + 1 \in 1..(Len(q) - 1)
    BY <1>2
  <2>2. QED
    BY <1>2, <1>4, <1>5, <2>1
<1>6. ASSUME Len(r) > 0, ~sub.needsResync
      PROVE  r[Len(r)] # Resync /\ r[Len(r)] = landed - 1
  BY <1>2, <1>4, <1>6
<1>7. ASSUME Len(r) > 0, r[1] # Resync
      PROVE  r[1] <= next
  BY <1>2, <1>4, <1>7
<1>8. ASSUME Len(r) = 0, ~sub.needsResync
      PROVE  landed <= next
  BY <1>2, <1>4, <1>8
<1> HIDE DEF r, new
<1>9. QED
  BY <1>3, <1>5, <1>6, <1>7, <1>8 DEF QueueOK, new

LEMMA ReachMono ==
  ASSUME NEW sub \in Subscriber, NEW landed \in Int, NEW reach \in Int, NEW next \in Int,
         QueueOK(sub, landed, reach), reach <= next
  PROVE  QueueOK(sub, landed, next)
<1>1. sub.queue # << >> => 1 \in 1..Len(sub.queue) /\ sub.queue[1] \in Nat \cup {Resync}
  BY SubscriberFields
<1>2. Len(sub.queue) \in Nat /\ (Len(sub.queue) > 0 => sub.queue # << >>)
  BY SubscriberFields
<1>3. QED
  BY <1>1, <1>2 DEF QueueOK

-----------------------------------------------------------------------------
(* One connection, under every step *)

ConnInv(c) ==
  /\ CursorInv(c)
  /\ phase[c] # "closed" => QueueOK(subs[c], Landed, Reach(c))
  /\ \A i \in 1..Len(sent[c]) : sent[c][i] = from[c] + i - 1

FlightInv == \A a \in Appenders : inFlight[a] # None => inFlight[a] = log - 1

LEMMA ConnTypes ==
  ASSUME TypeOK, NEW c \in Conns
  PROVE  /\ Landed \in Int /\ Reach(c) \in Int
         /\ subs[c] \in Subscriber
         /\ log \in Nat /\ from[c] \in Nat /\ history[c] \in Nat
         /\ lastSeen[c] \in Nat \cup {-1}
         /\ sent[c] \in Seq(Nat) /\ Len(sent[c]) \in Nat
         /\ phase[c] \in {"closed", "subscribed", "replay", "live"}
<1>1. /\ subs[c] \in Subscriber
      /\ log \in Nat /\ from[c] \in Nat /\ history[c] \in Nat
      /\ lastSeen[c] \in Nat \cup {-1}
      /\ sent[c] \in Seq(Nat)
      /\ phase[c] \in {"closed", "subscribed", "replay", "live"}
  BY DEF TypeOK
<1>2. lastSeen[c] + 1 \in Int /\ Len(sent[c]) \in Nat
  BY <1>1
<1>3. QED
  BY <1>1, <1>2 DEF Landed, Reach

\* A connection that does not take part in the step.
LEMMA ConnFrame ==
  ASSUME TypeOK, TypeOK', NEW c \in Conns, ConnInv(c),
         phase'[c] = phase[c], from'[c] = from[c], history'[c] = history[c],
         lastSeen'[c] = lastSeen[c], subs'[c] = subs[c], sent'[c] = sent[c],
         log <= log', Landed' = Landed
  PROVE  ConnInv(c)'
<1>1. Reach(c)' \in Int /\ Reach(c) \in Int /\ Reach(c) <= Reach(c)'
  BY ConnTypes DEF Reach, TypeOK
<1>2. phase[c] # "closed" => QueueOK(subs[c], Landed, Reach(c)')
  BY <1>1, ReachMono, ConnTypes DEF ConnInv
<1>3. QED
  BY <1>2 DEF ConnInv, CursorInv

LEMMA SubscribeInv ==
  ASSUME TypeOK, TypeOK', NEW c \in Conns, ConnInv(c), Subscribe(c)
  PROVE  ConnInv(c)'
<1>1. /\ phase'[c] = "subscribed" /\ subs'[c] = Idle /\ sent'[c] = << >>
      /\ log' = log /\ inFlight' = inFlight
  BY DEF Subscribe, TypeOK
<1>2. Landed' <= log'
  BY <1>1, ConnTypes DEF Landed
<1>3. Reach(c)' = log'
  BY <1>1 DEF Reach
<1>4. QueueOK(Idle, Landed', log')
  BY <1>2 DEF QueueOK, Idle
<1>5. QED
  BY <1>1, <1>3, <1>4 DEF ConnInv, CursorInv

LEMMA ReadHistoryInv ==
  ASSUME TypeOK, TypeOK', NEW c \in Conns, ConnInv(c), ReadHistory(c)
  PROVE  ConnInv(c)'
<1>1. /\ phase[c] = "subscribed" /\ phase'[c] = "replay"
      /\ history'[c] = log /\ lastSeen'[c] = from[c] - 1
      /\ UNCHANGED <<log, inFlight, from, subs, sent>>
  BY DEF ReadHistory, TypeOK
<1>2. Len(sent[c]) = 0
  BY <1>1 DEF ConnInv, CursorInv
<1>3. Reach(c) = log /\ Reach(c)' \in Int /\ Reach(c) <= Reach(c)'
  BY <1>1, ConnTypes DEF Reach
<1>4. QueueOK(subs[c], Landed, Reach(c)')
  BY <1>1, <1>3, ReachMono, ConnTypes DEF ConnInv
<1>5. QED
  BY <1>1, <1>2, <1>4, ConnTypes DEF ConnInv, CursorInv, Landed

\* Writing the seq after the cursor extends a run without gaps.
LEMMA SendInv ==
  ASSUME TypeOK, NEW c \in Conns, Send(c, lastSeen[c] + 1),
         lastSeen[c] = from[c] + Len(sent[c]) - 1,
         \A i \in 1..Len(sent[c]) : sent[c][i] = from[c] + i - 1
  PROVE  /\ lastSeen'[c] = lastSeen[c] + 1
         /\ Len(sent'[c]) = Len(sent[c]) + 1
         /\ lastSeen'[c] = from[c] + Len(sent'[c]) - 1
         /\ \A i \in 1..Len(sent'[c]) : sent'[c][i] = from[c] + i - 1
<1> DEFINE new == Append(sent[c], lastSeen[c] + 1)
<1>1. sent'[c] = new /\ lastSeen'[c] = lastSeen[c] + 1
  BY DEF Send, TypeOK
<1>2. sent[c] \in Seq(Nat) /\ Len(sent[c]) \in Nat /\ from[c] \in Nat
  BY ConnTypes
<1>3. /\ Len(new) = Len(sent[c]) + 1
      /\ \A i \in 1..Len(sent[c]) : new[i] = sent[c][i]
      /\ new[Len(sent[c]) + 1] = lastSeen[c] + 1
  BY <1>2
<1>4. ASSUME NEW i \in 1..Len(new)
      PROVE  new[i] = from[c] + i - 1
  <2>1. CASE i = Len(sent[c]) + 1
    BY <1>2, <1>3, <2>1
  <2>2. CASE i # Len(sent[c]) + 1
    BY <1>2, <1>3, <2>2
  <2>3. QED
    BY <2>1, <2>2
<1> HIDE DEF new
<1>5. QED
  BY <1>1, <1>2, <1>3, <1>4

LEMMA EmitHistoryInv ==
  ASSUME TypeOK, TypeOK', NEW c \in Conns, ConnInv(c), EmitHistory(c)
  PROVE  ConnInv(c)'
<1>1. /\ phase[c] = "replay" /\ lastSeen[c] + 1 < history[c]
      /\ Send(c, lastSeen[c] + 1)
      /\ UNCHANGED <<log, inFlight, phase, from, history, subs>>
  BY DEF EmitHistory
<1>2. /\ lastSeen'[c] = lastSeen[c] + 1
      /\ lastSeen'[c] = from[c] + Len(sent'[c]) - 1
      /\ \A i \in 1..Len(sent'[c]) : sent'[c][i] = from[c] + i - 1
  BY <1>1, SendInv DEF ConnInv, CursorInv
<1>3. Reach(c)' = Reach(c)
  <2>1. lastSeen[c] \in Int /\ history[c] \in Int /\ lastSeen'[c] + 1 <= history[c]
    BY <1>1, <1>2, ConnTypes
  <2>2. Reach(c) = history[c]
    BY <1>1, <2>1 DEF Reach
  <2>3. Reach(c)' = IF history[c] > lastSeen'[c] + 1 THEN history[c] ELSE lastSeen'[c] + 1
    BY <1>1 DEF Reach
  <2>4. lastSeen'[c] \in Int
    BY <1>2, <2>1
  <2>5. QED
    BY <2>1, <2>2, <2>3, <2>4
<1>4. QED
  BY <1>1, <1>2, <1>3 DEF ConnInv, CursorInv, Landed

LEMMA CloseInv ==
  ASSUME TypeOK, NEW c \in Conns, ConnInv(c), Close(c), UNCHANGED <<from, sent>>
  PROVE  ConnInv(c)'
BY DEF ConnInv, CursorInv, Close, TypeOK

LEMMA EndReplayInv ==
  ASSUME TypeOK, TypeOK', NEW c \in Conns, ConnInv(c), EndReplay(c)
  PROVE  ConnInv(c)'
<1>1. CASE Close(c)
  BY <1>1, CloseInv DEF EndReplay
<1>2. CASE phase' = [phase EXCEPT ![c] = "live"] /\ UNCHANGED subs
  <2>1. /\ phase[c] = "replay" /\ phase'[c] = "live" /\ lastSeen[c] + 1 >= history[c]
        /\ UNCHANGED <<log, inFlight, from, history, lastSeen, subs, sent>>
    BY <1>2 DEF EndReplay, TypeOK
  <2>2. Reach(c)' = Reach(c)
    BY <2>1, ConnTypes DEF Reach
  <2>3. QED
    BY <2>1, <2>2 DEF ConnInv, CursorInv, Landed
<1>3. QED
  BY <1>1, <1>2 DEF EndReplay

LEMMA PopStep ==
  ASSUME TypeOK, NEW c \in Conns, subs' = [subs EXCEPT ![c].queue = Tail(@)]
  PROVE  subs'[c] = [subs[c] EXCEPT !.queue = Tail(@)]
BY DEF TypeOK

LEMMA DeliverInv ==
  ASSUME TypeOK, TypeOK', NEW c \in Conns, ConnInv(c), Deliver(c)
  PROVE  ConnInv(c)'
<1> DEFINE item == Head(subs[c].queue)
           popped == [subs[c] EXCEPT !.queue = Tail(@)]
<1>1. /\ phase[c] = "live" /\ subs[c].queue # << >>
      /\ UNCHANGED <<log, inFlight, from, history>>
  BY DEF Deliver
<1>2. QueueOK(subs[c], Landed, lastSeen[c] + 1)
  BY <1>1 DEF ConnInv, Reach
<1>3. /\ subs[c].queue \in Seq(Nat \cup {Resync})
      /\ item = subs[c].queue[1] /\ Len(subs[c].queue) > 0
      /\ item \in Nat \cup {Resync}
  BY <1>1, ConnTypes, SubscriberFields
<1>4. /\ subs[c] \in Subscriber /\ Landed \in Int /\ lastSeen[c] \in Int
      /\ lastSeen[c] + 1 \in Int /\ lastSeen[c] + 2 \in Int
  BY ConnTypes
<1>5. CASE item = Resync
  <2>1. Close(c) /\ UNCHANGED <<lastSeen, sent>>
    BY <1>5, StreamAssumption DEF Deliver
  <2>2. QED
    BY <1>1, <2>1, CloseInv
<1>6. CASE item # Resync /\ item <= lastSeen[c]
  <2>1. /\ subs' = [subs EXCEPT ![c].queue = Tail(@)]
        /\ UNCHANGED <<phase, lastSeen, sent>>
    <3>1. item \in Nat
      BY <1>3, <1>6
    <3>2. QED
      BY <1>4, <1>6, <3>1 DEF Deliver
  <2>2. subs'[c] = popped
    BY <2>1, PopStep
  <2>3. item + 1 <= lastSeen[c] + 1
    BY <1>3, <1>4, <1>6
  <2>4. QueueOK(popped, Landed, lastSeen[c] + 1)
    BY <1>1, <1>2, <1>4, <1>6, <2>3, TailOK
  <2>5. Reach(c)' = lastSeen[c] + 1 /\ Landed' = Landed
    BY <1>1, <2>1 DEF Reach, Landed
  <2> HIDE DEF popped
  <2>6. QED
    BY <1>1, <2>1, <2>2, <2>4, <2>5 DEF ConnInv, CursorInv
<1>7. CASE item # Resync /\ item > lastSeen[c]
  <2>1. item \in Nat
    BY <1>3, <1>7
  <2>2. item <= lastSeen[c] + 1
    BY <1>2, <1>3, <1>7 DEF QueueOK
  <2>3. item = lastSeen[c] + 1
    BY <1>4, <1>7, <2>1, <2>2
  <2>4. /\ subs' = [subs EXCEPT ![c].queue = Tail(@)]
        /\ UNCHANGED phase /\ Send(c, item)
    BY <1>4, <1>7, <2>1 DEF Deliver
  <2>5. subs'[c] = popped /\ Send(c, lastSeen[c] + 1)
    BY <2>3, <2>4, PopStep
  <2>6. /\ lastSeen'[c] = lastSeen[c] + 1
        /\ lastSeen'[c] = from[c] + Len(sent'[c]) - 1
        /\ \A i \in 1..Len(sent'[c]) : sent'[c][i] = from[c] + i - 1
    BY <1>1, <2>5, SendInv DEF ConnInv, CursorInv
  <2>7. item + 1 <= lastSeen[c] + 2
    BY <1>4, <2>3
  <2>8. QueueOK(popped, Landed, lastSeen[c] + 2)
    BY <1>1, <1>2, <1>4, <1>7, <2>7, TailOK
  <2>9. Reach(c)' = lastSeen[c] + 2 /\ Landed' = Landed
    BY <1>1, <1>4, <2>4, <2>6 DEF Reach, Landed
  <2> HIDE DEF popped
  <2>10. QED
    BY <1>1, <2>4, <2>5, <2>6, <2>8, <2>9 DEF ConnInv, CursorInv
<1>8. QED
  BY <1>3, <1>4, <1>5, <1>6, <1>7

-----------------------------------------------------------------------------
(* Every step, with one appender *)

LEMMA AppendEventInv ==
  ASSUME TypeOK, TypeOK', NEW a, Appenders = {a}, NEW c \in Conns,
         ConnInv(c), AppendEvent(a)
  PROVE  ConnInv(c)'
<1>1. /\ inFlight[a] = None /\ inFlight'[a] = log /\ log' = log + 1
      /\ UNCHANGED <<phase, from, history, lastSeen, subs, sent>>
  BY DEF AppendEvent, TypeOK
<1>2. log \in Nat /\ log # None
  BY ConnTypes, StreamAssumption
<1>3. Landed = log /\ Landed' = log
  BY <1>1, <1>2 DEF Landed
<1>4. QED
  BY <1>1, <1>2, <1>3, ConnFrame

LEMMA PublishInv ==
  ASSUME TypeOK, TypeOK', NEW a, Appenders = {a}, NEW c \in Conns,
         FlightInv, ConnInv(c), Publish(a)
  PROVE  ConnInv(c)'
<1> DEFINE n == inFlight[a]
<1>1. /\ n # None /\ n = log - 1 /\ inFlight'[a] = None
      /\ UNCHANGED <<log, phase, from, history, lastSeen, sent>>
      /\ phase[c] # "closed" => subs'[c] = Offer(subs[c], n)
  BY DEF Publish, TypeOK, FlightInv
<1>2. n \in Nat /\ log = n + 1
  BY <1>1, ConnTypes DEF TypeOK
<1>3. Landed = n /\ Landed' = n + 1
  BY <1>1, <1>2 DEF Landed
<1>4. Reach(c)' = Reach(c) /\ Reach(c) \in Int /\ subs[c] \in Subscriber
  BY <1>1, ConnTypes DEF Reach
<1>5. CASE phase[c] # "closed"
  <2>1. QueueOK(Offer(subs[c], n), n + 1, Reach(c))
    BY <1>2, <1>3, <1>4, <1>5, OfferOK DEF ConnInv
  <2>2. QED
    BY <1>1, <1>3, <1>4, <1>5, <2>1 DEF ConnInv, CursorInv
<1>6. CASE phase[c] = "closed"
  BY <1>1, <1>6 DEF ConnInv, CursorInv
<1>7. QED
  BY <1>5, <1>6

\* The step of one connection leaves the others alone.
LEMMA OtherConn ==
  ASSUME TypeOK, TypeOK', NEW c \in Conns, NEW d \in Conns, c # d, ConnInv(d),
         Subscribe(c) \/ ReadHistory(c) \/ EmitHistory(c) \/ EndReplay(c) \/ Deliver(c)
           \/ Disconnect(c)
  PROVE  ConnInv(d)'
<1>1. /\ phase'[d] = phase[d] /\ from'[d] = from[d] /\ history'[d] = history[d]
      /\ lastSeen'[d] = lastSeen[d] /\ sent'[d] = sent[d] /\ subs'[d] = subs[d]
      /\ log' = log /\ inFlight' = inFlight
  BY DEF TypeOK, Subscribe, ReadHistory, EmitHistory, EndReplay, Deliver, Disconnect,
         Close, Send
<1>2. Landed' = Landed /\ log <= log'
  BY <1>1, ConnTypes DEF Landed
<1>3. QED
  BY <1>1, <1>2, ConnFrame

StreamInv == TypeOK /\ FlightInv /\ \A c \in Conns : ConnInv(c)

LEMMA StreamInit == Init => StreamInv
<1> SUFFICES ASSUME Init
             PROVE  StreamInv
  OBVIOUS
<1>1. TypeOK
  BY DEF Init, TypeOK, Idle, Subscriber
<1>2. FlightInv
  BY DEF Init, FlightInv
<1>3. ASSUME NEW c \in Conns
      PROVE  ConnInv(c)
  BY DEF Init, ConnInv, CursorInv
<1>4. QED
  BY <1>1, <1>2, <1>3 DEF StreamInv

LEMMA StreamStep ==
  ASSUME NEW a, Appenders = {a}, StreamInv, [Next]_vars
  PROVE  StreamInv'
<1>1. TypeOK /\ TypeOK'
  BY TypeStep DEF StreamInv
<1>2. FlightInv /\ \A d \in Conns : ConnInv(d)
  BY DEF StreamInv
<1>3. CASE AppendEvent(a)
  <2>1. FlightInv'
    BY <1>1, <1>3 DEF AppendEvent, FlightInv, TypeOK
  <2>2. QED
    BY <1>1, <1>2, <1>3, <2>1, AppendEventInv DEF StreamInv
<1>4. CASE Publish(a)
  <2>1. FlightInv'
    BY <1>1, <1>4 DEF Publish, FlightInv, TypeOK
  <2>2. QED
    BY <1>1, <1>2, <1>4, <2>1, PublishInv DEF StreamInv
<1>5. ASSUME NEW c \in Conns,
             Subscribe(c) \/ ReadHistory(c) \/ EmitHistory(c) \/ EndReplay(c)
               \/ Deliver(c) \/ Disconnect(c)
      PROVE  StreamInv'
  <2>1. FlightInv'
    BY <1>2, <1>5 DEF FlightInv, Subscribe, ReadHistory, EmitHistory, EndReplay, Deliver,
                      Disconnect
  <2>2. ConnInv(c)'
    <3>1. CASE Disconnect(c)
      BY <1>1, <1>2, <3>1, CloseInv DEF Disconnect
    <3>2. CASE ~Disconnect(c)
      BY <1>1, <1>2, <1>5, <3>2, SubscribeInv, ReadHistoryInv, EmitHistoryInv,
         EndReplayInv, DeliverInv
    <3>3. QED
      BY <3>1, <3>2
  <2>3. \A d \in Conns : d # c => ConnInv(d)'
    BY <1>1, <1>2, <1>5, OtherConn
  <2>4. QED
    BY <1>1, <2>1, <2>2, <2>3 DEF StreamInv
<1>6. CASE UNCHANGED vars
  BY <1>2, <1>1, <1>6 DEF vars, StreamInv, FlightInv, ConnInv, CursorInv, Landed, Reach
<1>7. QED
  BY <1>3, <1>4, <1>5, <1>6 DEF Next

\* With one appender, a connection writes the log from from_seq on without a
\* hole, for every queue bound, number of connections and length of the log.
THEOREM OneAppenderNoGap ==
  ASSUME NEW a, Appenders = {a}
  PROVE  Spec => []NoSilentGap
<1>1. StreamInv /\ [Next]_vars => StreamInv'
  BY StreamStep
<1>2. StreamInv => NoSilentGap
  BY DEF StreamInv, ConnInv, NoSilentGap
<1>3. QED
  BY StreamInit, <1>1, <1>2, PTL DEF Spec

\* The queues and cursors that carry that argument hold in every reachable state.
THEOREM OneAppenderDelivery ==
  ASSUME NEW a, Appenders = {a}
  PROVE  Spec => []DeliveryInv
<1>1. StreamInv /\ [Next]_vars => StreamInv'
  BY StreamStep
<1>2. StreamInv => DeliveryInv
  BY DEF StreamInv, FlightInv, ConnInv, DeliveryInv
<1>3. QED
  BY StreamInit, <1>1, <1>2, PTL DEF Spec

-----------------------------------------------------------------------------
(* Any number of appenders *)

Ascending(c) ==
  /\ \A i, j \in 1..Len(sent[c]) : i < j => sent[c][i] < sent[c][j]
  /\ phase[c] \in {"replay", "live"} => \A i \in 1..Len(sent[c]) : sent[c][i] <= lastSeen[c]
  /\ phase[c] = "subscribed" => sent[c] = << >>

LEMMA SendAscends ==
  ASSUME TypeOK, NEW c \in Conns, NEW n \in Nat, n > lastSeen[c],
         Ascending(c), phase[c] \in {"replay", "live"}, Send(c, n)
  PROVE  /\ \A i, j \in 1..Len(sent'[c]) : i < j => sent'[c][i] < sent'[c][j]
         /\ \A i \in 1..Len(sent'[c]) : sent'[c][i] <= lastSeen'[c]
<1>1. sent[c] \in Seq(Nat) /\ lastSeen[c] \in Int
  BY DEF TypeOK
<1>2. sent'[c] = Append(sent[c], n) /\ lastSeen'[c] = n
  BY DEF Send, TypeOK
<1> DEFINE more == Append(sent[c], n)
<1>3. /\ Len(more) = Len(sent[c]) + 1 /\ Len(sent[c]) \in Nat
      /\ \A i \in 1..Len(sent[c]) : more[i] = sent[c][i]
      /\ more[Len(sent[c]) + 1] = n
      /\ \A i \in 1..Len(sent[c]) : sent[c][i] \in Nat
  BY <1>1
<1> HIDE DEF more
<1>4. \A i \in 1..Len(sent[c]) : sent[c][i] < n
  BY <1>1, <1>3 DEF Ascending
<1>5. \A i, j \in 1..Len(more) : i < j => more[i] < more[j]
  <2> SUFFICES ASSUME NEW i \in 1..Len(more), NEW j \in 1..Len(more), i < j
               PROVE  more[i] < more[j]
    OBVIOUS
  <2>1. i \in 1..Len(sent[c])
    BY <1>3
  <2>2. CASE j \in 1..Len(sent[c])
    BY <1>3, <2>1, <2>2 DEF Ascending
  <2>3. CASE j = Len(sent[c]) + 1
    BY <1>3, <1>4, <2>1, <2>3
  <2> QED BY <1>3, <2>2, <2>3
<1>6. \A i \in 1..Len(more) : more[i] <= n
  BY <1>3, <1>4
<1> QED BY <1>2, <1>5, <1>6 DEF more

LEMMA OrderStep ==
  ASSUME TypeOK, TypeOK', \A c \in Conns : Ascending(c), [Next]_vars
  PROVE  \A c \in Conns : Ascending(c)'
<1>1. ASSUME NEW c \in Conns, phase'[c] \in {phase[c], "closed"},
             sent'[c] = sent[c], lastSeen'[c] = lastSeen[c]
      PROVE  Ascending(c)'
  BY <1>1 DEF Ascending
<1>2. ASSUME NEW a \in Appenders, AppendEvent(a) \/ Publish(a), NEW c \in Conns
      PROVE  Ascending(c)'
  BY <1>1, <1>2 DEF AppendEvent, Publish
<1>3. ASSUME NEW d \in Conns, NEW c \in Conns, c # d,
             Subscribe(d) \/ ReadHistory(d) \/ EmitHistory(d) \/ EndReplay(d) \/ Deliver(d)
               \/ Disconnect(d)
      PROVE  Ascending(c)'
  <2>1. /\ phase'[c] = phase[c] /\ sent'[c] = sent[c] /\ lastSeen'[c] = lastSeen[c]
    BY <1>3 DEF Subscribe, ReadHistory, EmitHistory, EndReplay, Deliver, Disconnect, Close, Send,
                Pop, OnSentinel, TypeOK
  <2> QED BY <1>1, <2>1
<1>4. ASSUME NEW c \in Conns, Subscribe(c) PROVE Ascending(c)'
  <2>1. sent'[c] = << >> /\ phase'[c] = "subscribed"
    BY <1>4 DEF Subscribe, TypeOK
  <2> QED BY <2>1 DEF Ascending
<1>5. ASSUME NEW c \in Conns, ReadHistory(c) PROVE Ascending(c)'
  <2>1. sent'[c] = << >> /\ sent[c] = << >> /\ phase'[c] = "replay"
    BY <1>5 DEF ReadHistory, Ascending, TypeOK
  <2> QED BY <2>1 DEF Ascending
<1>6. ASSUME NEW c \in Conns, EmitHistory(c) PROVE Ascending(c)'
  <2>1. Send(c, lastSeen[c] + 1) /\ lastSeen[c] + 1 \in Nat /\ lastSeen[c] + 1 > lastSeen[c]
    <3>1. lastSeen[c] \in Nat \cup {-1}
      BY DEF TypeOK
    <3>2. lastSeen[c] + 1 \in Nat /\ lastSeen[c] + 1 > lastSeen[c]
      BY <3>1
    <3> QED BY <1>6, <3>2 DEF EmitHistory
  <2>2. phase[c] = "replay" /\ phase'[c] = "replay"
    BY <1>6 DEF EmitHistory
  <2> QED BY <2>1, <2>2, SendAscends DEF Ascending
<1>7. ASSUME NEW c \in Conns, EndReplay(c) PROVE Ascending(c)'
  <2>1. /\ phase[c] = "replay" /\ phase'[c] \in {"live", "closed"}
        /\ sent'[c] = sent[c] /\ lastSeen'[c] = lastSeen[c]
    BY <1>7 DEF EndReplay, Close, TypeOK
  <2> QED BY <2>1 DEF Ascending
<1>8. ASSUME NEW c \in Conns, Disconnect(c) PROVE Ascending(c)'
  <2>1. phase'[c] = "closed" /\ sent'[c] = sent[c] /\ lastSeen'[c] = lastSeen[c]
    BY <1>8 DEF Disconnect, Close, TypeOK
  <2> QED BY <1>1, <2>1
<1>9. ASSUME NEW c \in Conns, Deliver(c) PROVE Ascending(c)'
  <2>1. phase[c] = "live" /\ phase'[c] \in {"live", "closed"}
    BY <1>9 DEF Deliver, OnSentinel, Pop, Close, TypeOK
  <2> DEFINE item == Head(subs[c].queue)
  <2>2. CASE UNCHANGED <<lastSeen, sent>>
    BY <2>1, <2>2, <1>1
  <2>3. CASE ~UNCHANGED <<lastSeen, sent>>
    <3>1. item # Resync /\ ~AlreadySent(c, item) /\ Send(c, item) /\ subs[c].queue # << >>
      BY <1>9, <2>3 DEF Deliver
    <3>2. subs[c].queue \in Seq(Nat \cup {Resync})
      BY SubscriberFields DEF TypeOK
    <3>3. item \in Nat
      BY <3>1, <3>2
    <3>4. lastSeen[c] \in Int
      BY DEF TypeOK
    <3>5. item > lastSeen[c]
      BY <3>1, <3>3, <3>4 DEF AlreadySent
    <3> QED BY <2>1, <3>1, <3>3, <3>5, SendAscends DEF Ascending
  <2> QED BY <2>2, <2>3
<1>10. CASE UNCHANGED vars
  BY <1>1, <1>10 DEF vars
<1> QED BY <1>2, <1>3, <1>4, <1>5, <1>6, <1>7, <1>8, <1>9, <1>10 DEF Next

\* In whatever order any number of tasks publish, a response never repeats an event and never
\* goes back (api/events.py:110).
THEOREM StreamInOrder == Spec => []SentInOrder
<1> DEFINE Order == \A c \in Conns : Ascending(c)
<1>1. Init => Order
  BY DEF Init, Ascending
<1>2. TypeOK /\ TypeOK' /\ Order /\ [Next]_vars => Order'
  BY OrderStep
<1>3. Order => SentInOrder
  BY DEF Ascending, SentInOrder
<1> HIDE DEF Order
<1> QED BY <1>1, <1>2, <1>3, StreamTypeCorrect, PTL DEF Spec

-----------------------------------------------------------------------------
(* What was published and is not in the response yet is on its way to it,  *)
(* or the connection is marked as having missed something.                 *)

Queued(q, x) == \E i \in 1..Len(q) : q[i] = x

Marked(sub) == sub.needsResync \/ Queued(sub.queue, Resync)

LEMMA AppendQueued ==
  ASSUME NEW q \in Seq(Nat \cup {Resync}), NEW y \in Nat \cup {Resync}
  PROVE  /\ Append(q, y) \in Seq(Nat \cup {Resync})
         /\ \A x : Queued(Append(q, y), x) <=> Queued(q, x) \/ x = y
<1> DEFINE r == Append(q, y)
<1>1. /\ r \in Seq(Nat \cup {Resync}) /\ Len(r) = Len(q) + 1 /\ Len(q) \in Nat
      /\ \A i \in 1..Len(q) : r[i] = q[i]
      /\ r[Len(q) + 1] = y
  OBVIOUS
<1> HIDE DEF r
<1>2. ASSUME NEW x PROVE Queued(r, x) <=> Queued(q, x) \/ x = y
  BY <1>1 DEF Queued
<1>3. QED
  BY <1>1, <1>2 DEF r

\* Whatever the bus does with an event, nothing that waits is taken out, and the event
\* waits too unless the subscriber is marked; a mark only becomes a sentinel.
LEMMA OfferKeeps ==
  ASSUME NEW sub \in Subscriber, NEW n \in Nat
  PROVE  /\ \A x : Queued(sub.queue, x) => Queued(Offer(sub, n).queue, x)
         /\ Queued(Offer(sub, n).queue, n) \/ Marked(Offer(sub, n))
         /\ Marked(sub) => Marked(Offer(sub, n))
<1> DEFINE put == PutSentinel(sub)
<1>1. /\ put \in Subscriber
      /\ \A x : Queued(sub.queue, x) => Queued(put.queue, x)
      /\ Marked(sub) => Marked(put)
  <2>1. CASE sub.needsResync /\ HasRoom(sub)
    <3>1. put = [queue |-> Append(sub.queue, Resync), needsResync |-> FALSE]
      BY <2>1 DEF PutSentinel
    <3> HIDE DEF put
    <3> DEFINE r == Append(sub.queue, Resync)
    <3>2. sub.queue \in Seq(Nat \cup {Resync}) /\ Resync \in Nat \cup {Resync}
      BY SubscriberFields
    <3>3. /\ r \in Seq(Nat \cup {Resync})
          /\ \A x : Queued(r, x) <=> Queued(sub.queue, x) \/ x = Resync
      BY <3>2, AppendQueued
    <3>4. put.queue = r
      BY <3>1
    <3> HIDE DEF r
    <3>5. put \in Subscriber
      BY <3>1, <3>3 DEF Subscriber, r
    <3>6. QED
      BY <3>3, <3>4, <3>5 DEF Marked
  <2>2. CASE ~(sub.needsResync /\ HasRoom(sub))
    BY <2>2 DEF PutSentinel
  <2>3. QED
    BY <2>1, <2>2
<1> HIDE DEF put
<1>2. Offer(sub, n) = PutEvent(put, n)
  BY DEF Offer, put
<1>3. CASE ~put.needsResync /\ HasRoom(put)
  <2> DEFINE r == Append(put.queue, n)
  <2>1. r \in Seq(Nat \cup {Resync}) /\ \A x : Queued(r, x) <=> Queued(put.queue, x) \/ x = n
    BY <1>1, AppendQueued, SubscriberFields
  <2> HIDE DEF r
  <2>2. PutEvent(put, n) = [put EXCEPT !.queue = r]
    BY <1>3 DEF PutEvent, r
  <2>3. /\ PutEvent(put, n).queue = r
        /\ PutEvent(put, n).needsResync = put.needsResync
    BY <1>1, <2>1, <2>2, SubscriberFields
  <2>4. QED
    BY <1>1, <1>2, <2>1, <2>3 DEF Marked
<1>4. CASE ~(~put.needsResync /\ HasRoom(put))
  <2>1. PutEvent(put, n) = [put EXCEPT !.needsResync = TRUE]
    BY <1>4 DEF PutEvent
  <2>2. PutEvent(put, n).queue = put.queue /\ PutEvent(put, n).needsResync
    BY <1>1, <2>1, SubscriberFields
  <2>3. QED
    BY <1>1, <1>2, <2>2 DEF Marked
<1>5. QED
  BY <1>3, <1>4

\* Taking the first event off a queue leaves the others.
LEMMA PopKeeps ==
  ASSUME NEW q \in Seq(Nat \cup {Resync}), q # << >>
  PROVE  \A x : Queued(q, x) => x = Head(q) \/ Queued(Tail(q), x)
<1>1. /\ Len(Tail(q)) = Len(q) - 1 /\ Len(q) \in Nat \ {0}
      /\ Head(q) = q[1] /\ \A i \in 1..(Len(q) - 1) : Tail(q)[i] = q[i + 1]
  OBVIOUS
<1>2. ASSUME NEW x, Queued(q, x), x # Head(q)
      PROVE  Queued(Tail(q), x)
  <2>1. PICK i \in 1..Len(q) : q[i] = x
    BY <1>2 DEF Queued
  <2>2. i - 1 \in 1..(Len(q) - 1) /\ (i - 1) + 1 = i
    BY <1>1, <1>2, <2>1
  <2>3. Tail(q)[i - 1] = x
    BY <1>1, <2>1, <2>2
  <2>4. QED
    BY <1>1, <2>2, <2>3 DEF Queued
<1>3. QED
  BY <1>2

\* Where an event may be that has been published: still to be read or replayed, behind the
\* cursor, or in the queue; if it is nowhere, the connection knows that it missed one.
Accounted(c, n) ==
  \/ phase[c] = "subscribed"
  \/ phase[c] = "replay" /\ n < history[c]
  \/ phase[c] \in {"replay", "live"} /\ n <= lastSeen[c]
  \/ Queued(subs[c].queue, n)
  \/ Marked(subs[c])

AllAccounted(c) ==
  phase[c] # "closed" => \A n \in 0..(log - 1) : Published(n) => Accounted(c, n)

\* A step that moves the cursor on and leaves the rest of the connection.
LEMMA AccountedFrame ==
  ASSUME TypeOK, TypeOK', NEW c \in Conns, NEW n \in Nat, Accounted(c, n),
         phase'[c] = phase[c], history'[c] = history[c],
         phase[c] = "subscribed" \/ lastSeen[c] <= lastSeen'[c],
         \A x : Queued(subs[c].queue, x) => Queued(subs'[c].queue, x),
         Marked(subs[c]) => Marked(subs'[c])
  PROVE  Accounted(c, n)'
<1>1. lastSeen[c] \in Int /\ lastSeen'[c] \in Int
  BY DEF TypeOK
<1>2. QED
  BY <1>1 DEF Accounted

LEMMA AccountedStep ==
  ASSUME TypeOK, TypeOK', NEW c \in Conns, AllAccounted(c), [Next]_vars
  PROVE  AllAccounted(c)'
<1> SUFFICES ASSUME phase'[c] # "closed", NEW n \in 0..(log' - 1), Published(n)'
             PROVE  Accounted(c, n)'
  BY DEF AllAccounted
<1>0. log \in Nat /\ log' \in Nat /\ n \in Nat /\ lastSeen[c] \in Int /\ subs[c] \in Subscriber
  BY DEF TypeOK
<1>1. ASSUME UNCHANGED <<phase[c], history[c], lastSeen[c], subs[c]>>,
             n < log, Published(n)
      PROVE  Accounted(c, n)'
  <2>1. Accounted(c, n)
    BY <1>0, <1>1 DEF AllAccounted
  <2>2. QED
    BY <1>0, <1>1, <2>1, AccountedFrame
<1>2. ASSUME NEW a \in Appenders, AppendEvent(a)
      PROVE  Accounted(c, n)'
  <2>1. UNCHANGED <<phase, history, lastSeen, subs>> /\ log' = log + 1 /\ inFlight'[a] = log
    BY <1>2 DEF AppendEvent, TypeOK
  <2>2. n # log /\ n < log
    BY <1>0, <2>1 DEF Published
  <2>3. \A b \in Appenders : inFlight[b] # n
    BY <1>0, <1>2, <2>2, StreamAssumption DEF AppendEvent, Published, TypeOK
  <2>4. QED
    BY <1>1, <2>1, <2>2, <2>3 DEF Published
<1>3. ASSUME NEW a \in Appenders, Publish(a)
      PROVE  Accounted(c, n)'
  <2>1. UNCHANGED <<phase, history, lastSeen, log>> /\ inFlight[a] \in Nat
        /\ subs'[c] = Offer(subs[c], inFlight[a])
    BY <1>3 DEF Publish, TypeOK
  <2>2. CASE n = inFlight[a]
    BY <1>0, <2>1, <2>2, OfferKeeps DEF Accounted
  <2>3. CASE n # inFlight[a]
    <3>1. Published(n) /\ n < log
      BY <1>3, <2>1, <2>3 DEF Published, Publish, TypeOK
    <3>2. Accounted(c, n)
      BY <1>0, <2>1, <3>1 DEF AllAccounted
    <3>3. QED
      BY <1>0, <2>1, <3>2, OfferKeeps, AccountedFrame
  <2>4. QED
    BY <2>2, <2>3
<1>4. ASSUME NEW d \in Conns,
             Subscribe(d) \/ ReadHistory(d) \/ EmitHistory(d) \/ EndReplay(d) \/ Deliver(d)
               \/ Disconnect(d)
      PROVE  Accounted(c, n)'
  <2>0. n < log /\ Published(n) /\ log' = log
    BY <1>0, <1>4 DEF Published, Subscribe, ReadHistory, EmitHistory, EndReplay, Deliver, Disconnect
  <2>1. CASE c # d
    <3>1. UNCHANGED <<phase[c], history[c], lastSeen[c], subs[c]>>
      BY <1>4, <2>1 DEF Subscribe, ReadHistory, EmitHistory, EndReplay, Deliver, Disconnect,
                        Close, Send, TypeOK
    <3>2. QED
      BY <1>1, <2>0, <3>1
  <2>2. CASE c = d
    <3>1. CASE Subscribe(c)
      BY <3>1 DEF Subscribe, Accounted, TypeOK
    <3>2. CASE ReadHistory(c)
      <4>1. phase'[c] = "replay" /\ history'[c] = log
        BY <3>2 DEF ReadHistory, TypeOK
      <4>2. QED
        BY <2>0, <4>1 DEF Accounted
    <3>3. CASE EmitHistory(c)
      <4>1. /\ UNCHANGED <<phase, history, subs>> /\ phase[c] # "closed"
            /\ lastSeen'[c] = lastSeen[c] + 1
        BY <3>3 DEF EmitHistory, Send, TypeOK
      <4>2. Accounted(c, n)
        BY <1>0, <2>0, <4>1 DEF AllAccounted
      <4>3. QED
        BY <1>0, <4>1, <4>2, AccountedFrame
    <3>4. CASE EndReplay(c)
      <4>1. /\ phase[c] = "replay" /\ phase'[c] = "live" /\ lastSeen[c] + 1 >= history[c]
            /\ UNCHANGED <<history, lastSeen, subs>>
        BY <3>4 DEF EndReplay, Close, TypeOK
      <4>2. Accounted(c, n) /\ history[c] \in Nat
        BY <1>0, <2>0, <4>1 DEF AllAccounted, TypeOK
      <4>3. QED
        BY <1>0, <4>1, <4>2 DEF Accounted
    <3>5. CASE Deliver(c)
      <4> DEFINE q == subs[c].queue
      <4>1. phase[c] = "live" /\ UNCHANGED history /\ q # << >> /\ q \in Seq(Nat \cup {Resync})
        BY <1>0, <3>5, SubscriberFields DEF Deliver
      <4>2. Head(q) # Resync /\ phase' = phase /\ subs'[c] = [subs[c] EXCEPT !.queue = Tail(@)]
        BY <3>5, PopStep DEF Deliver, Close, TypeOK
      <4>3. Head(q) \in Nat /\ Tail(q) \in Seq(Nat \cup {Resync})
        BY <4>1, <4>2
      <4>4. lastSeen[c] <= lastSeen'[c] /\ Head(q) <= lastSeen'[c]
        <5>1. CASE UNCHANGED lastSeen /\ Head(q) <= lastSeen[c]
          BY <1>0, <5>1
        <5>2. CASE Send(c, Head(q)) /\ ~(Head(q) <= lastSeen[c])
          <6>1. lastSeen'[c] = Head(q)
            BY <5>2 DEF Send, TypeOK
          <6>2. QED
            BY <1>0, <4>3, <5>2, <6>1
        <5>3. QED
          BY <3>5, <4>2, <5>1, <5>2 DEF Deliver
      <4>5. subs'[c].queue = Tail(q) /\ subs'[c].needsResync = subs[c].needsResync
        BY <1>0, <4>2, <4>3, SubscriberFields
      <4>6. Accounted(c, n)
        BY <1>0, <2>0, <4>1 DEF AllAccounted
      <4>7. \A x : Queued(q, x) => x = Head(q) \/ Queued(Tail(q), x)
        BY <4>1, PopKeeps
      <4>8. Marked(subs[c]) => Marked(subs'[c])
        BY <4>2, <4>5, <4>7 DEF Marked
      <4>9. lastSeen'[c] \in Int
        BY DEF TypeOK
      <4>10. QED
        BY <1>0, <4>1, <4>2, <4>4, <4>5, <4>6, <4>7, <4>8, <4>9 DEF Accounted
    <3>6. CASE Disconnect(c)
      BY <3>6 DEF Disconnect, Close, TypeOK
    <3>7. QED
      BY <1>4, <2>2, <3>1, <3>2, <3>3, <3>4, <3>5, <3>6
  <2>3. QED
    BY <2>1, <2>2
<1>5. CASE UNCHANGED vars
  BY <1>0, <1>1, <1>5 DEF vars, Published
<1>6. QED
  BY <1>2, <1>3, <1>4, <1>5 DEF Next

\* However many tasks publish, and in whatever order, a live response that waits on an empty,
\* unmarked queue has nothing published ahead of it: what the queue could not hold has left
\* a mark (api/events.py, events_bus.py).
THEOREM StreamCaughtUp == Spec => []CaughtUpWhenIdle
<1> DEFINE Account == \A c \in Conns : AllAccounted(c)
<1>1. Init => Account
  BY DEF Init, AllAccounted
<1>2. TypeOK /\ TypeOK' /\ Account /\ [Next]_vars => Account'
  BY AccountedStep
<1>3. TypeOK /\ Account => CaughtUpWhenIdle
  <2> SUFFICES ASSUME TypeOK, Account, NEW c \in Conns, phase[c] = "live", subs[c] = Idle,
                      NEW n \in 0..(log - 1), Published(n)
               PROVE  n <= lastSeen[c]
    BY DEF CaughtUpWhenIdle
  <2>1. Accounted(c, n)
    BY DEF AllAccounted
  <2>2. ~Marked(subs[c]) /\ ~Queued(subs[c].queue, n)
    BY DEF Marked, Queued, Idle
  <2>3. QED
    BY <2>1, <2>2 DEF Accounted
<1> HIDE DEF Account
<1>4. QED
  BY <1>1, <1>2, <1>3, StreamTypeCorrect, PTL DEF Spec

-----------------------------------------------------------------------------
(* The refinement of LogFeed, with one appender                            *)

\* Nothing waits in a queue but the sentinel and what was put there.
LEMMA OfferAdds ==
  ASSUME NEW sub \in Subscriber, NEW n \in Nat
  PROVE  \A x : Queued(Offer(sub, n).queue, x) => Queued(sub.queue, x) \/ x \in {n, Resync}
<1> DEFINE put == PutSentinel(sub)
<1>1. put \in Subscriber /\ \A x : Queued(put.queue, x) => Queued(sub.queue, x) \/ x = Resync
  <2>1. CASE sub.needsResync /\ HasRoom(sub)
    <3> DEFINE r == Append(sub.queue, Resync)
    <3>1. put = [queue |-> r, needsResync |-> FALSE]
      BY <2>1 DEF PutSentinel
    <3>2. sub.queue \in Seq(Nat \cup {Resync}) /\ Resync \in Nat \cup {Resync}
      BY SubscriberFields
    <3>3. /\ r \in Seq(Nat \cup {Resync})
          /\ \A x : Queued(r, x) <=> Queued(sub.queue, x) \/ x = Resync
      BY <3>2, AppendQueued
    <3> HIDE DEF put, r
    <3>4. QED
      BY <3>1, <3>3 DEF Subscriber
  <2>2. CASE ~(sub.needsResync /\ HasRoom(sub))
    BY <2>2 DEF PutSentinel
  <2>3. QED
    BY <2>1, <2>2
<1> HIDE DEF put
<1>2. Offer(sub, n) = PutEvent(put, n)
  BY DEF Offer, put
<1>3. CASE ~put.needsResync /\ HasRoom(put)
  <2> DEFINE r == Append(put.queue, n)
  <2>1. r \in Seq(Nat \cup {Resync}) /\ \A x : Queued(r, x) <=> Queued(put.queue, x) \/ x = n
    BY <1>1, AppendQueued, SubscriberFields
  <2> HIDE DEF r
  <2>2. PutEvent(put, n) = [put EXCEPT !.queue = r]
    BY <1>3 DEF PutEvent, r
  <2>3. PutEvent(put, n).queue = r
    BY <1>1, <2>1, <2>2, SubscriberFields
  <2>4. QED
    BY <1>1, <1>2, <2>1, <2>3
<1>4. CASE ~(~put.needsResync /\ HasRoom(put))
  <2>1. PutEvent(put, n) = [put EXCEPT !.needsResync = TRUE]
    BY <1>4 DEF PutEvent
  <2>2. PutEvent(put, n).queue = put.queue
    BY <1>1, <2>1, SubscriberFields
  <2>3. QED
    BY <1>1, <1>2, <2>2
<1>5. QED
  BY <1>3, <1>4

LEMMA TailQueued ==
  ASSUME NEW q \in Seq(Nat \cup {Resync}), q # << >>
  PROVE  Queued(q, Head(q)) /\ \A x : Queued(Tail(q), x) => Queued(q, x)
<1>1. /\ Len(Tail(q)) = Len(q) - 1 /\ Len(q) \in Nat \ {0} /\ Head(q) = q[1]
      /\ \A i \in 1..(Len(q) - 1) : Tail(q)[i] = q[i + 1]
  OBVIOUS
<1>2. \A i \in 1..(Len(q) - 1) : i + 1 \in 1..Len(q)
  BY <1>1
<1>3. QED
  BY <1>1, <1>2 DEF Queued

\* What a connection holds of the log, or is about to be handed, has been written.
Written(c) ==
  /\ history[c] <= log
  /\ \A n \in Nat : Queued(subs[c].queue, n) => n < log

FlightWritten == \A a \in Appenders : inFlight[a] # None => inFlight[a] < log

LEMMA FlightStep ==
  ASSUME TypeOK, FlightWritten, [Next]_vars
  PROVE  FlightWritten'
<1>0. log \in Nat /\ \A a \in Appenders : inFlight[a] # None => inFlight[a] \in Nat
  BY DEF TypeOK
<1>1. ASSUME NEW a \in Appenders, AppendEvent(a)
      PROVE  FlightWritten'
  BY <1>0, <1>1 DEF AppendEvent, FlightWritten, TypeOK
<1>2. ASSUME NEW a \in Appenders, Publish(a)
      PROVE  FlightWritten'
  BY <1>2 DEF Publish, FlightWritten, TypeOK
<1>3. CASE UNCHANGED <<log, inFlight>>
  BY <1>3 DEF FlightWritten
<1>4. QED
  BY <1>1, <1>2, <1>3 DEF Next, vars, Subscribe, ReadHistory, EmitHistory, EndReplay, Deliver,
                          Disconnect

LEMMA WrittenStep ==
  ASSUME TypeOK, TypeOK', FlightWritten, NEW c \in Conns, Written(c), [Next]_vars
  PROVE  Written(c)'
<1>0. log \in Nat /\ log' \in Nat /\ history[c] \in Nat /\ subs[c] \in Subscriber
  BY DEF TypeOK
<1>1. ASSUME history'[c] = history[c], log <= log',
             \A n \in Nat : Queued(subs'[c].queue, n) => Queued(subs[c].queue, n)
      PROVE  Written(c)'
  BY <1>0, <1>1 DEF Written
<1>2. ASSUME NEW a \in Appenders, AppendEvent(a)
      PROVE  Written(c)'
  BY <1>0, <1>1, <1>2 DEF AppendEvent
<1>3. ASSUME NEW a \in Appenders, Publish(a)
      PROVE  Written(c)'
  <2>1. /\ UNCHANGED <<log, history>> /\ inFlight[a] \in Nat /\ inFlight[a] < log
        /\ subs'[c] = subs[c] \/ subs'[c] = Offer(subs[c], inFlight[a])
    BY <1>3 DEF Publish, TypeOK, FlightWritten
  <2>2. Resync \notin Nat
    BY StreamAssumption
  <2>3. QED
    BY <1>0, <2>1, <2>2, OfferAdds DEF Written
<1>4. ASSUME NEW d \in Conns, Deliver(d), subs' = [subs EXCEPT ![d].queue = Tail(@)]
      PROVE  Written(c)'
  <2> DEFINE q == subs[d].queue
  <2>1. q \in Seq(Nat \cup {Resync}) /\ q # << >> /\ UNCHANGED <<log, history>>
    BY <1>4, SubscriberFields DEF Deliver, TypeOK
  <2>2. CASE c = d
    <3>1. subs'[c] = [subs[c] EXCEPT !.queue = Tail(q)]
      BY <1>4, <2>2, PopStep
    <3>2. Tail(q) \in Seq(Nat \cup {Resync})
      BY <2>1
    <3>3. subs'[c].queue = Tail(q)
      BY <1>0, <3>1, <3>2, SubscriberFields
    <3>4. QED
      BY <1>0, <1>1, <2>1, <2>2, <3>3, TailQueued
  <2>3. CASE c # d
    <3>1. subs'[c] = subs[c]
      BY <1>4, <2>3 DEF TypeOK
    <3>2. QED
      BY <1>0, <1>1, <2>1, <3>1
  <2>4. QED
    BY <2>2, <2>3
<1>5. ASSUME NEW d \in Conns, Subscribe(d) \/ EndReplay(d) \/ Disconnect(d) \/ Close(d),
             UNCHANGED <<log, history>>
      PROVE  Written(c)'
  <2>1. subs'[c] \in {subs[c], Idle}
    BY <1>5 DEF Subscribe, EndReplay, Disconnect, Close, TypeOK
  <2>2. \A n : ~Queued(Idle.queue, n)
    BY DEF Idle, Queued
  <2>3. QED
    BY <1>0, <1>1, <1>5, <2>1, <2>2
<1>6. ASSUME NEW d \in Conns, ReadHistory(d) \/ EmitHistory(d)
      PROVE  Written(c)'
  <2>1. UNCHANGED <<log, subs>> /\ history'[c] \in {history[c], log}
    BY <1>6 DEF ReadHistory, EmitHistory, TypeOK
  <2>2. QED
    BY <1>0, <2>1 DEF Written
<1>7. CASE UNCHANGED vars
  BY <1>0, <1>1, <1>7 DEF vars
<1>8. ASSUME NEW d \in Conns, Deliver(d)
      PROVE  Written(c)'
  BY <1>4, <1>5, <1>8 DEF Deliver
<1>9. QED
  BY <1>2, <1>3, <1>5, <1>6, <1>7, <1>8 DEF Next, Subscribe, EndReplay, Disconnect

WrittenInv == FlightWritten /\ \A c \in Conns : Written(c)

LEMMA StreamWritten == Spec => []WrittenInv
<1>1. Init => WrittenInv
  BY DEF Init, WrittenInv, FlightWritten, Written, Idle, Queued
<1>2. TypeOK /\ TypeOK' /\ WrittenInv /\ [Next]_vars => WrittenInv'
  BY FlightStep, WrittenStep DEF WrittenInv
<1>3. QED
  BY <1>1, <1>2, StreamTypeCorrect, PTL DEF Spec

LEMMA FeedInit == Init => Feed!Init
BY DEF Init, Feed!Init, Open

\* Writing the seq after the cursor is the reader's next event, once that seq is in the log.
LEMMA SendIsGet ==
  ASSUME StreamInv, NEW c \in Conns, phase[c] \in {"replay", "live"}, phase'[c] # "closed",
         Send(c, lastSeen[c] + 1), lastSeen[c] + 1 < log,
         UNCHANGED <<log, from>>, \A d \in Conns : d # c => phase'[d] = phase[d]
  PROVE  Feed!Get(c)
<1>1. TypeOK /\ ConnInv(c)
  BY DEF StreamInv
<1>2. lastSeen[c] + 1 = from[c] + Len(sent[c])
  <2>1. lastSeen[c] = from[c] + Len(sent[c]) - 1
    BY <1>1 DEF ConnInv, CursorInv
  <2>2. QED
    BY <1>1, <2>1, ConnTypes
<1>3. Open' = Open /\ c \in Open
  BY DEF Open
<1>4. QED
  BY <1>2, <1>3 DEF Feed!Get, Feed!NextSeq, Send

LEMMA CloseIsEnd ==
  ASSUME TypeOK, NEW c \in Conns, phase[c] # "closed", Close(c), UNCHANGED <<log, from, sent>>
  PROVE  Feed!End(c)
<1>1. c \in Open /\ Open' = Open \ {c}
  BY DEF Close, Open, TypeOK
<1>2. QED
  BY <1>1 DEF Feed!End

\* What a live connection sends is the event after its cursor, and that event is written.
LEMMA DeliverNext ==
  ASSUME StreamInv, NEW c \in Conns, Written(c), Deliver(c),
         Head(subs[c].queue) # Resync, ~AlreadySent(c, Head(subs[c].queue))
  PROVE  Head(subs[c].queue) = lastSeen[c] + 1 /\ lastSeen[c] + 1 < log
<1> DEFINE q == subs[c].queue
           item == Head(q)
<1>0. TypeOK /\ ConnInv(c)
  BY DEF StreamInv
<1>1. /\ phase[c] = "live" /\ q # << >> /\ q \in Seq(Nat \cup {Resync})
      /\ lastSeen[c] \in Int
  BY <1>0, ConnTypes, SubscriberFields DEF Deliver
<1>2. item \in Nat /\ item = q[1] /\ Len(q) > 0 /\ item > lastSeen[c]
  BY <1>1 DEF AlreadySent
<1>3. item <= lastSeen[c] + 1
  <2>1. QueueOK(subs[c], Landed, lastSeen[c] + 1)
    BY <1>0, <1>1 DEF ConnInv, Reach
  <2>2. QED
    BY <1>2, <2>1 DEF QueueOK
<1>4. item < log
  BY <1>1, <1>2, TailQueued DEF Written
<1>5. QED
  BY <1>1, <1>2, <1>3, <1>4

LEMMA FeedStep ==
  ASSUME NEW a, Appenders = {a}, StreamInv, WrittenInv, [Next]_vars
  PROVE  [Feed!Next]_(Feed!feedVars)
<1> DEFINE stutter == UNCHANGED <<log, Open, from, sent>>
<1>0. TypeOK /\ \A c \in Conns : ConnInv(c) /\ Written(c)
  BY DEF StreamInv, WrittenInv
<1>1. CASE AppendEvent(a)
  BY <1>1 DEF AppendEvent, Open, Feed!Write, Feed!Next
<1>2. CASE Publish(a)
  BY <1>2 DEF Publish, Open, Feed!feedVars
<1>3. ASSUME NEW c \in Conns, Subscribe(c)
      PROVE  Feed!Open(c)
  <2>1. c \notin Open /\ Open' = Open \cup {c}
    BY <1>0, <1>3 DEF Subscribe, Open, TypeOK
  <2>2. QED
    BY <1>3, <2>1 DEF Subscribe, Feed!Open
<1>4. ASSUME NEW c \in Conns, ReadHistory(c)
      PROVE  stutter
  BY <1>0, <1>4 DEF ReadHistory, Open, TypeOK
<1>5. ASSUME NEW c \in Conns, EmitHistory(c)
      PROVE  Feed!Get(c)
  <2>1. lastSeen[c] + 1 < log
    <3>1. lastSeen[c] + 1 < history[c] /\ history[c] <= log
      BY <1>0, <1>5 DEF EmitHistory, Written
    <3>2. lastSeen[c] \in Int /\ history[c] \in Int /\ log \in Int
      BY <1>0 DEF TypeOK
    <3>3. QED
      BY <3>1, <3>2
  <2>2. QED
    BY <1>5, <2>1, SendIsGet DEF EmitHistory
<1>6. ASSUME NEW c \in Conns, EndReplay(c)
      PROVE  stutter \/ Feed!End(c)
  <2>1. CASE phase' = [phase EXCEPT ![c] = "live"]
    BY <1>0, <1>6, <2>1 DEF EndReplay, Open, TypeOK
  <2>2. CASE Close(c)
    BY <1>0, <1>6, <2>2, CloseIsEnd DEF EndReplay
  <2>3. QED
    BY <1>6, <2>1, <2>2 DEF EndReplay
<1>7. ASSUME NEW c \in Conns, Deliver(c)
      PROVE  stutter \/ Feed!Get(c) \/ Feed!End(c)
  <2> DEFINE item == Head(subs[c].queue)
  <2>0. phase[c] = "live" /\ UNCHANGED <<log, from>>
    BY <1>7 DEF Deliver
  <2>1. CASE Close(c) /\ UNCHANGED sent
    BY <1>0, <2>0, <2>1, CloseIsEnd
  <2>2. CASE UNCHANGED <<phase, sent>>
    BY <2>0, <2>2 DEF Open
  <2>3. CASE item # Resync /\ ~AlreadySent(c, item) /\ UNCHANGED phase /\ Send(c, item)
    <3>1. item = lastSeen[c] + 1 /\ lastSeen[c] + 1 < log
      BY <1>0, <1>7, <2>3, DeliverNext
    <3>2. QED
      BY <2>0, <2>3, <3>1, SendIsGet
  <2>4. QED
    BY <1>7, <2>1, <2>2, <2>3 DEF Deliver
<1>8. ASSUME NEW c \in Conns, Disconnect(c)
      PROVE  Feed!End(c)
  BY <1>0, <1>8, CloseIsEnd DEF Disconnect
<1>9. CASE UNCHANGED vars
  BY <1>9 DEF vars, Open, Feed!feedVars
<1>10. stutter => UNCHANGED Feed!feedVars
  BY DEF Feed!feedVars
<1>11. ASSUME NEW c \in Conns, Feed!Open(c) \/ Feed!Get(c) \/ Feed!End(c)
       PROVE  Feed!Next
  BY <1>11 DEF Feed!Next
<1> HIDE DEF stutter
<1>12. QED
  BY <1>1, <1>2, <1>3, <1>4, <1>5, <1>6, <1>7, <1>8, <1>9, <1>10, <1>11 DEF Next

\* With one appender a response is a reader of the log: behind bus, bounded queues and
\* hand-over, each step is one step of LogFeed or shows nothing (events_bus.py, api/events.py).
THEOREM OneAppenderImplementsFeed ==
  ASSUME NEW a, Appenders = {a}
  PROVE  Spec => ImplementsFeed
<1>1. StreamInv /\ [Next]_vars => StreamInv'
  BY StreamStep
<1>2. StreamInv /\ WrittenInv /\ [Next]_vars => [Feed!Next]_(Feed!feedVars)
  BY FeedStep
<1>3. QED
  BY StreamInit, StreamWritten, FeedInit, <1>1, <1>2, PTL
  DEF Spec, ImplementsFeed, Feed!Spec

=============================================================================
