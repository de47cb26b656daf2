------------------------------- MODULE LogFeed -------------------------------
(***************************************************************************)
(* What a session's event endpoint promises its clients: a growing log,    *)
(* and readers that each get the log from where they asked on, event after *)
(* event, until the response ends.  There is no bus here, no queue and no  *)
(* cursor: EventStream implements this specification when one task appends *)
(* to the session, and a response may end at any time.                     *)
(***************************************************************************)
EXTENDS Naturals, Sequences

CONSTANTS
  Readers,     \* responses
  Starts       \* positions a reader may ask for, some of them not written yet

VARIABLES
  log,         \* number of events written
  reading,     \* readers whose response is open
  start,       \* reader -> the position it asked for
  got          \* reader -> events of its last response, in order

feedVars == <<log, reading, start, got>>

Init ==
  /\ log = 0
  /\ reading = {}
  /\ start = [r \in Readers |-> 0]
  /\ got = [r \in Readers |-> << >>]

Write ==
  /\ log' = log + 1
  /\ UNCHANGED <<reading, start, got>>

Open(r) ==
  /\ r \notin reading
  /\ reading' = reading \cup {r}
  /\ \E n \in Starts : start' = [start EXCEPT ![r] = n]
  /\ got' = [got EXCEPT ![r] = << >>]
  /\ UNCHANGED log

NextSeq(r) == start[r] + Len(got[r])

\* A reader gets the next event, and only once it has been written.
Get(r) ==
  /\ r \in reading
  /\ NextSeq(r) < log
  /\ got' = [got EXCEPT ![r] = Append(@, NextSeq(r))]
  /\ UNCHANGED <<log, reading, start>>

End(r) ==
  /\ r \in reading
  /\ reading' = reading \ {r}
  /\ UNCHANGED <<log, start, got>>

Next ==
  \/ Write
  \/ \E r \in Readers : Open(r) \/ Get(r) \/ End(r)

Spec == Init /\ [][Next]_feedVars

=============================================================================
