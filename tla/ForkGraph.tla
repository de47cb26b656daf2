------------------------------ MODULE ForkGraph ------------------------------
(***************************************************************************)
(* The readers of the fork DAG: the two fork-graph endpoints               *)
(* (api/fork_graph.py with fork_graph.py) and the walk to the root that    *)
(* gives the curator its scope (curator.py).  Each call to the store is a  *)
(* step of its own, and the other requests change the tables between them. *)
(*                                                                         *)
(* A list has no order here: the code sorts by created_at and end_seq, and *)
(* nothing below depends on it.                                            *)
(***************************************************************************)
EXTENDS SessionStore

CONSTANT Readers       \* supply of requests that read, each one at a time

\* Both are uuids.
ASSUME GraphAssumption == SessionIds \cap GroupIds = {}

VARIABLE reads         \* reader -> what the request has read so far

graphVars == <<storeVars, reads>>

NoRead == [op |-> "none", target |-> None, rows |-> << >>, pending |-> {},
           found |-> << >>, next |-> None, chain |-> << >>]

GraphInit == Init /\ reads = [r \in Readers |-> NoRead]

GraphTypeOK ==
  /\ TypeOK
  /\ \A r \in Readers :
       /\ reads[r].op \in {"none", "list group", "list all", "versions", "walk"}
       /\ reads[r].target \in SessionIds \cup GroupIds \cup {None}
       /\ DOMAIN reads[r].rows \subseteq DOMAIN sessions
       /\ \A s \in DOMAIN reads[r].rows : reads[r].rows[s] \in SessionRow
       /\ reads[r].pending \subseteq DOMAIN reads[r].rows
       /\ DOMAIN reads[r].found \subseteq DOMAIN versions
       /\ \A v \in DOMAIN reads[r].found : reads[r].found[v] \in VersionRow
       /\ reads[r].next \in DOMAIN sessions \cup {None}
       /\ reads[r].chain \in Seq(DOMAIN sessions)

Reading(r, op) == reads[r].op = op

Only(table, ids) == [x \in ids |-> table[x]]

-----------------------------------------------------------------------------
(* GET /groups/{id}/fork-graph *)

GroupGraph(r, g) ==
  /\ Reading(r, "none")
  /\ Present(g)
  /\ reads' = [reads EXCEPT ![r] = [NoRead EXCEPT !.op = "list group", !.target = g]]
  /\ UNCHANGED storeVars

InGroup(g) == {s \in DOMAIN sessions : sessions[s].group = g}

\* The group may be gone by now: then no session has it.
ListGroup(r) ==
  /\ Reading(r, "list group")
  /\ LET members == InGroup(reads[r].target) IN
       reads' = [reads EXCEPT ![r].op = "versions", ![r].pending = members,
                              ![r].rows = Only(sessions, members)]
  /\ UNCHANGED storeVars

-----------------------------------------------------------------------------
(* GET /sessions/{id}/fork-graph *)

\* Mutants: the direct children only; every session.
ChildrenOnly(s) == {s} \cup {x \in DOMAIN sessions : sessions[x].parent = s}
WholeList(s) == DOMAIN sessions

\* Breadth first: round n has the sessions at most n forks below s.
Descendants(s) ==
  LET rounds == Cardinality(DOMAIN sessions)
      seen[n \in 0..rounds] ==
        IF n = 0 THEN {s}
        ELSE seen[n - 1] \cup {x \in DOMAIN sessions : sessions[x].parent \in seen[n - 1]}
  IN  seen[rounds]

\* The row of the root is the one read here, the others come with the list.
SessionGraph(r, s) ==
  /\ Reading(r, "none")
  /\ s \in DOMAIN sessions
  /\ reads' = [reads EXCEPT ![r] = [NoRead EXCEPT !.op = "list all", !.target = s,
                                                  !.rows = Only(sessions, {s})]]
  /\ UNCHANGED storeVars

ListSessions(r) ==
  LET root == reads[r].target IN
  /\ Reading(r, "list all")
  /\ reads' = [reads EXCEPT ![r].op = "versions", ![r].pending = Descendants(root),
                            ![r].rows = [x \in Descendants(root) |->
                                           IF x = root THEN @[root] ELSE sessions[x]]]
  /\ UNCHANGED storeVars

VersionsOf(S) == {v \in DOMAIN versions : versions[v].session \in S}

\* Mutant: each answer brings the list of the group's sessions up to date.
ListVersionsAndSessions(r) ==
  /\ Reading(r, "versions")
  /\ \E s \in reads[r].pending :
       reads' = [reads EXCEPT
                   ![r].pending = @ \ {s},
                   ![r].rows = Only(sessions, DOMAIN @ \cup InGroup(reads[r].target)),
                   ![r].found = [v \in DOMAIN @ \cup VersionsOf({s}) |-> versions[v]]]
  /\ UNCHANGED storeVars

ListVersions(r) ==
  /\ Reading(r, "versions")
  /\ \E s \in reads[r].pending :
       reads' = [reads EXCEPT
                   ![r].pending = @ \ {s},
                   ![r].found = [v \in DOMAIN @ \cup VersionsOf({s}) |-> versions[v]]]
  /\ UNCHANGED storeVars

-----------------------------------------------------------------------------
(* build_fork_graph *)

Nodes(r) == DOMAIN reads[r].rows

NodeVersions(r, s) == {v \in DOMAIN reads[r].found : reads[r].found[v].session = s}

Edge(s, row) == [parent |-> row.parent, child |-> s, via |-> row.version, forkSeq |-> row.forkSeq]

Edges(r) ==
  LET rows == reads[r].rows IN
  {Edge(s, rows[s]) : s \in {x \in Nodes(r) : /\ None \notin {rows[x].version, rows[x].parent,
                                                             rows[x].forkSeq}
                                             /\ rows[x].version \in DOMAIN reads[r].found}}

GraphReady(r) == Reading(r, "versions") /\ reads[r].pending = {}

-----------------------------------------------------------------------------
(* resolve_session_chain *)

BeginChain(r, s) ==
  /\ Reading(r, "none")
  /\ s \in DOMAIN sessions
  /\ reads' = [reads EXCEPT ![r] = [NoRead EXCEPT !.op = "walk", !.target = s, !.next = s]]
  /\ UNCHANGED storeVars

\* One get_session: the parent link that is followed next is the one of the row it returned.
WalkChain(r) ==
  LET current == reads[r].next IN
  /\ Reading(r, "walk")
  /\ current # None
  /\ reads' = [reads EXCEPT ![r].chain = <<current>> \o @,
                            ![r].next = sessions[current].parent]
  /\ UNCHANGED storeVars

ChainReady(r) == Reading(r, "walk") /\ reads[r].next = None

Respond(r) ==
  /\ GraphReady(r) \/ ChainReady(r)
  /\ reads' = [reads EXCEPT ![r] = NoRead]
  /\ UNCHANGED storeVars

-----------------------------------------------------------------------------
ReadStep ==
  \E r \in Readers :
    \/ \E g \in GroupIds : GroupGraph(r, g)
    \/ \E s \in SessionIds : SessionGraph(r, s) \/ BeginChain(r, s)
    \/ ListGroup(r) \/ ListSessions(r) \/ ListVersions(r) \/ WalkChain(r) \/ Respond(r)

GraphNext == (Next /\ UNCHANGED reads) \/ ReadStep

GraphSpec == GraphInit /\ [][GraphNext]_graphVars

-----------------------------------------------------------------------------
(* Properties *)

\* Although sessions are forked, moved and frozen while a graph is put together, its edges
\* are exactly the forks whose parent is a node too, and each starts at a version that its
\* parent's node shows, inside that version's range.
EdgesJoinNodes ==
  \A r \in Readers : GraphReady(r) =>
    /\ \A e \in Edges(r) :
         /\ {e.parent, e.child} \subseteq Nodes(r)
         /\ e.via \in NodeVersions(r, e.parent)
         /\ e.forkSeq \in reads[r].found[e.via].start .. reads[r].found[e.via].end
    /\ \A s \in Nodes(r) :
         reads[r].rows[s].parent \in Nodes(r) => \E e \in Edges(r) : e.child = s

\* The graph of a session is a tree below it: every other node hangs on exactly one edge.
SessionGraphIsTree ==
  \A r \in Readers : GraphReady(r) /\ reads[r].target \in SessionIds =>
    /\ reads[r].target \in Nodes(r)
    /\ {e.child : e \in Edges(r)} = Nodes(r) \ {reads[r].target}
    /\ Cardinality(Edges(r)) = Cardinality(Nodes(r)) - 1

\* The curator's scope of a session is its lineage, root first, however many steps the
\* walk takes; and the search of the fork graph from any session on it finds the target.
ChainIsLineage ==
  \A r \in Readers : ChainReady(r) =>
    LET chain == reads[r].chain IN
    /\ chain[Len(chain)] = reads[r].target
    /\ sessions[chain[1]].parent = None
    /\ \A i \in 2..Len(chain) : sessions[chain[i]].parent = chain[i - 1]
    /\ \A i \in DOMAIN chain : reads[r].target \in Descendants(chain[i])

=============================================================================
