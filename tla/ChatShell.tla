------------------------------ MODULE ChatShell ------------------------------
(***************************************************************************)
(* The chat page (static/js/chat.js): it opens a session, renders the log  *)
(* it fetched, and follows the log with an EventSource from there.  The    *)
(* handlers of the events share one log of messages and one streaming      *)
(* placeholder, whichever EventSource calls them.                          *)
(***************************************************************************)
EXTENDS SequencesExt, Integers

CONSTANTS
  SessionIds, None,
  Calls,        \* supply of navigations, each of which attaches at most one EventSource
  MaxLog        \* bound on the length of a log

VARIABLES
  logs,         \* session -> its events; the seq of an event is its place in the log
  calls,        \* navigation -> its progress, and the EventSource it attached
  view,         \* state.sessionId
  tracked,      \* state.eventSource: the navigation that attached it
  shown,        \* the messages of the page
  placeholder   \* state.streamingAssistantEl: its place in shown, or 0

chatVars == <<logs, calls, view, tracked, shown, placeholder>>

Kinds == {"turn", "agent_chunk", "agent_turn", "agent_error"}

\* The turn an event belongs to.
TurnOf(s, seq) ==
  CHOOSE t \in 0..seq : /\ logs[s][t + 1] = "turn"
                        /\ \A u \in t + 1..seq : logs[s][u + 1] # "turn"

\* A message shows a turn, or the answers to turns; seq is its data-seq attribute.
Message(s, role, seq, turns) == [session |-> s, role |-> role, seq |-> seq, turns |-> turns]

ChatInit ==
  /\ logs = [s \in SessionIds |-> << >>]
  /\ calls = [c \in Calls |-> [step |-> "idle"]]
  /\ view = None /\ tracked = None /\ shown = << >> /\ placeholder = 0

-----------------------------------------------------------------------------
(* The agent runs of the sessions: a turn, text, and an answer or an error *)

RunAppends(s, kind) ==
  /\ Len(logs[s]) < MaxLog
  /\ LET open == logs[s] # << >> /\ Last(logs[s]) \in {"turn", "agent_chunk"}
     IN  open <=> kind # "turn"
  /\ logs' = [logs EXCEPT ![s] = Append(@, kind)]
  /\ UNCHANGED <<calls, view, tracked, shown, placeholder>>

-----------------------------------------------------------------------------
(* Navigation *)

CloseTracked ==
  IF tracked = None THEN calls ELSE [calls EXCEPT ![tracked] = [step |-> "closed"]]

StartNewSession ==
  /\ calls' = CloseTracked
  /\ view' = None /\ tracked' = None /\ shown' = << >> /\ placeholder' = 0
  /\ UNCHANGED logs

Navigate(c, s) ==
  /\ calls[c].step = "idle" /\ view # s
  /\ calls' = [CloseTracked EXCEPT ![c] = [step |-> "opening", session |-> s]]
  /\ view' = None /\ tracked' = None
  /\ UNCHANGED <<logs, shown, placeholder>>

CannotOpen(c) ==
  /\ calls[c].step = "opening"
  /\ calls' = [calls EXCEPT ![c] = [step |-> "closed"]]
  /\ UNCHANGED <<logs, view, tracked, shown, placeholder>>

SetActiveSession(c) ==
  /\ calls[c].step = "opening"
  /\ calls' = [calls EXCEPT ![c].step = "hydrating"]
  /\ view' = calls[c].session
  /\ shown' = << >> /\ placeholder' = 0
  /\ UNCHANGED <<logs, tracked>>

\* What the page makes of the first events of a log; chunks and errors are not history.
History(s, length) ==
  LET seqs == SelectSeq([i \in 1..length |-> i - 1],
                        LAMBDA seq : logs[s][seq + 1] \in {"turn", "agent_turn"})
  IN  [i \in DOMAIN seqs |->
         Message(s, IF logs[s][seqs[i] + 1] = "turn" THEN "user" ELSE "assistant",
                 seqs[i], {TurnOf(s, seqs[i])})]

\* The history may be older than the page by the time it is rendered, and none of it is
\* there if the request failed.  The EventSource starts where the history ends.
HydrateAndAttach(c) ==
  LET s == calls[c].session IN
  /\ calls[c].step = "hydrating"
  /\ \E length \in 0..Len(logs[s]) :
       /\ shown' = shown \o History(s, length)
       /\ calls' = [calls EXCEPT ![c] = [step |-> "attached", session |-> s,
                                         from |-> length, next |-> length]]
  /\ tracked' = c
  /\ UNCHANGED <<logs, view, placeholder>>

-----------------------------------------------------------------------------
(* The handlers of an EventSource *)

Rendered(seq) == \E i \in DOMAIN shown : shown[i].seq = seq

OnTurn(s, seq) ==
  IF Rendered(seq) THEN UNCHANGED <<shown, placeholder>>
  ELSE /\ shown' = shown \o <<Message(s, "user", seq, {seq}), Message(s, "assistant", None, {})>>
       /\ placeholder' = Len(shown) + 2

OnAgentChunk(s, seq) ==
  IF placeholder = 0
    THEN /\ shown' = Append(shown, Message(s, "assistant", None, {TurnOf(s, seq)}))
         /\ placeholder' = Len(shown) + 1
    ELSE /\ shown' = [shown EXCEPT ![placeholder].turns = @ \cup {TurnOf(s, seq)}]
         /\ UNCHANGED placeholder

OnAgentTurn(s, seq) ==
  LET answer == Message(s, "assistant", seq, {TurnOf(s, seq)}) IN
  IF Rendered(seq) THEN UNCHANGED <<shown, placeholder>>
  ELSE /\ shown' = IF placeholder = 0 THEN Append(shown, answer)
                   ELSE [shown EXCEPT ![placeholder] = answer]
       /\ placeholder' = 0

OnAgentError(s, seq) ==
  /\ shown' = Append(shown, Message(s, "error", None, {TurnOf(s, seq)}))
  /\ placeholder' = 0

Deliver(c) ==
  /\ calls[c].step = "attached"
  /\ LET s == calls[c].session
         seq == calls[c].next
     IN  /\ seq < Len(logs[s])
         /\ CASE logs[s][seq + 1] = "turn" -> OnTurn(s, seq)
              [] logs[s][seq + 1] = "agent_chunk" -> OnAgentChunk(s, seq)
              [] logs[s][seq + 1] = "agent_turn" -> OnAgentTurn(s, seq)
              [] logs[s][seq + 1] = "agent_error" -> OnAgentError(s, seq)
         /\ calls' = [calls EXCEPT ![c].next = seq + 1]
  /\ UNCHANGED <<logs, view, tracked>>

\* The server closes the response (an overflow, a restart) or the connection is lost: the
\* browser asks again for the URL the EventSource was made with.
Reconnect(c) ==
  /\ calls[c].step = "attached"
  /\ calls' = [calls EXCEPT ![c].next = calls[c].from]
  /\ UNCHANGED <<logs, view, tracked, shown, placeholder>>

-----------------------------------------------------------------------------
ChatNext ==
  \/ \E s \in SessionIds, kind \in Kinds : RunAppends(s, kind)
  \/ StartNewSession
  \/ \E c \in Calls :
       \/ \E s \in SessionIds : Navigate(c, s)
       \/ CannotOpen(c) \/ SetActiveSession(c) \/ HydrateAndAttach(c)
       \/ Deliver(c) \/ Reconnect(c)

ChatSpec == ChatInit /\ [][ChatNext]_chatVars

-----------------------------------------------------------------------------
(* What api/events.py says of the client, and chat.js does not do *)

\* Every EventSource has been sent the whole log of its session.
Synced ==
  \A c \in Calls : calls[c].step = "attached" => calls[c].next = Len(logs[calls[c].session])

\* api/events.py:24-25: a client whose response was closed "reconnects with from_seq=last_seq
\* and resyncs through replay".  So when it is up to date again, a turn or an answer that was
\* rendered with its seq is on the page once: no other message shows the same turn in the
\* same role.
NeverDoubleRendered ==
  Synced => \A i, j \in DOMAIN shown :
    i # j /\ shown[i].session = shown[j].session
          /\ shown[i].role = shown[j].role /\ shown[i].seq # None
      => shown[i].turns \cap shown[j].turns = {}

=============================================================================
