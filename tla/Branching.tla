------------------------------ MODULE Branching ------------------------------
(***************************************************************************)
(* The freeze pipeline (freeze.py) and the two handlers that run it,       *)
(* POST /freeze and POST /branch (api/sessions.py), over the store and a   *)
(* content-addressed blob store.  Each await of a handler ends a step: in  *)
(* between, other requests append events, regroup sessions, delete groups  *)
(* or freeze the same session.                                             *)
(*                                                                         *)
(* A blob is the set of turns it holds, which is also its digest.  The     *)
(* blob store is the one of ContentStore: a write takes effect at one      *)
(* point, and a power loss may take a blob away again; BlobStore shows     *)
(* that the file system implementation is no worse.  The rows, once        *)
(* committed, stay.  Memory ingestion and the seeding of the child's       *)
(* working directory touch none of this state.                             *)
(***************************************************************************)
EXTENDS SessionStore, FiniteSetsExt

CONSTANTS
  Requests     \* supply of concurrent requests

ASSUME BranchAssumption == "turn" \in Kinds

VARIABLES
  blobs,       \* the digests in the blob store
  lost,        \* history: the digests of versions whose blob a power loss took away
  blobSha,     \* version id -> digest its row refers to
  calls        \* request -> progress of the handler

branchVars == <<groups, sessions, versions, events, nextSeq, queries, blobs, lost, blobSha, calls>>

Payload(s, turns) == {s} \X turns

Call == [step    : {"idle", "begun", "read", "stored", "frozen", "refused"},
         branch  : BOOLEAN,
         session : SessionIds \cup {None},
         start   : Nat \cup {None},
         end     : Nat \cup {None},
         group   : GroupIds \cup {None},
         backend : Backends \cup {None},
         turns   : SUBSET Nat,
         version : VersionIds \cup {None}]

NoCall == [step |-> "idle", branch |-> FALSE, session |-> None, start |-> None, end |-> None,
           group |-> None, backend |-> None, turns |-> {}, version |-> None]

BranchTypeOK ==
  /\ TypeOK
  /\ blobs \subseteq SUBSET (SessionIds \X Nat) /\ lost \subseteq SUBSET (SessionIds \X Nat)
  /\ DOMAIN blobSha = DOMAIN versions
  /\ \A v \in DOMAIN blobSha : blobSha[v] \in SUBSET (SessionIds \X Nat)
  /\ calls \in [Requests -> Call]

BranchInit ==
  /\ Init
  /\ blobs = {} /\ lost = {}
  /\ blobSha = << >>
  /\ calls = [r \in Requests |-> NoCall]

-----------------------------------------------------------------------------
(* The handlers *)

Free(r) == calls[r].step \in {"idle", "refused"}

BeginFreeze(r, s, start, end) ==
  /\ Free(r)
  /\ calls' = [calls EXCEPT ![r] = [NoCall EXCEPT !.step = "begun", !.session = s,
                                                  !.start = start, !.end = end]]
  /\ UNCHANGED <<storeVars, blobs, lost, blobSha>>

\* The parent's row is read once, before the freeze; its group and backend are
\* what the child gets unless the request names its own.
BeginBranch(r, s, start, end, group, backend) ==
  /\ Free(r)
  /\ s \in DOMAIN sessions
  /\ calls' = [calls EXCEPT ![r] =
                 [NoCall EXCEPT !.step = "begun", !.branch = TRUE, !.session = s,
                    !.start = start, !.end = end,
                    !.group = IF group # None THEN group ELSE sessions[s].group,
                    !.backend = IF backend # None THEN backend ELSE sessions[s].backend]]
  /\ UNCHANGED <<storeVars, blobs, lost, blobSha>>

\* Of the log, only events of kind "turn" are frozen.
Turns(s) == {events[s][i].seq : i \in {j \in 1..Len(events[s]) : events[s][j].kind = "turn"}}

InRange(n, start, end) == (start # None => start <= n) /\ (end # None => n <= end)

\* list_events and the choice of the range; an empty choice is a 409.  What a
\* handler does not look at again (here the start) is reset, to save states.
ReadLog(r) ==
  /\ calls[r].step = "begun"
  /\ calls[r].session \in DOMAIN sessions
  /\ LET selected == {n \in Turns(calls[r].session) : InRange(n, calls[r].start, calls[r].end)}
     IN  calls' = [calls EXCEPT ![r] =
                     IF selected = {} THEN NoCall
                     ELSE [@ EXCEPT !.step = "read", !.start = None, !.turns = selected]]
  /\ UNCHANGED <<storeVars, blobs, lost, blobSha>>

WriteBlob(r) ==
  /\ calls[r].step = "read"
  /\ LET blob == Payload(calls[r].session, calls[r].turns)
     IN  blobs' = blobs \cup {blob} /\ lost' = lost \ {blob}
  /\ calls' = [calls EXCEPT ![r].step = "stored"]
  /\ UNCHANGED <<storeVars, blobSha>>

\* Mutant: the end of the range is read from the log again.
LastTurnNow(r) == Max(Turns(calls[r].session))

LastTurn(r) == Max(calls[r].turns)

InsertVersion(r, v) ==
  /\ calls[r].step = "stored"
  /\ CreateVersion(v, calls[r].session, Min(calls[r].turns), LastTurn(r))
  /\ blobSha' = Insert(blobSha, v, Payload(calls[r].session, calls[r].turns))
  /\ calls' = [calls EXCEPT ![r] =
                 IF @.branch THEN [@ EXCEPT !.step = "frozen", !.version = v, !.turns = {}]
                 ELSE NoCall]
  /\ UNCHANGED <<blobs, lost>>

\* Mutant: the child forks where the version starts.
ForkSeqAtStart(r) ==
  IF calls[r].end # None THEN calls[r].end ELSE versions[calls[r].version].start

\* The child forks at the requested end_seq, if there is one.
ForkSeq(r) ==
  IF calls[r].end # None THEN calls[r].end ELSE versions[calls[r].version].end

CreateChild(r, child, title) ==
  /\ calls[r].step = "frozen"
  /\ CreateFork(child, calls[r].group, calls[r].session, calls[r].version, ForkSeq(r), title,
                calls[r].backend)
  /\ calls' = [calls EXCEPT ![r] = NoCall]
  /\ UNCHANGED <<blobs, lost, blobSha>>

\* Mutant: the version frozen for a branch that is refused is rolled back.
RefuseAndRollBack(r) ==
  /\ calls[r].step = "frozen"
  /\ \/ calls[r].group # None /\ ~Present(calls[r].group)
     \/ ~ForkPointOK(calls[r].session, calls[r].version, ForkSeq(r))
  /\ versions' = [v \in DOMAIN versions \ {calls[r].version} |-> versions[v]]
  /\ calls' = [calls EXCEPT ![r].step = "refused"]
  /\ UNCHANGED <<groups, sessions, events, nextSeq, queries, blobs, lost, blobSha>>

\* create_session raises: 404 for the group, 409 for the fork point.
RefuseChild(r) ==
  /\ calls[r].step = "frozen"
  /\ \/ calls[r].group # None /\ ~Present(calls[r].group)
     \/ ~ForkPointOK(calls[r].session, calls[r].version, ForkSeq(r))
  /\ calls' = [calls EXCEPT ![r].step = "refused"]
  /\ UNCHANGED <<storeVars, blobs, lost, blobSha>>

\* Mutant: a request that fails takes its blob with it.
FailRemovingBlob(r) ==
  /\ ~Free(r)
  /\ blobs' = blobs \ {Payload(calls[r].session, calls[r].turns)}
  /\ calls' = [calls EXCEPT ![r] = NoCall]
  /\ UNCHANGED <<storeVars, lost, blobSha>>

\* A handler ends early: its session is not found, the store or the blob store
\* raises, or the process dies (a step for each of its requests).
Fail(r) ==
  /\ ~Free(r)
  /\ calls' = [calls EXCEPT ![r] = NoCall]
  /\ UNCHANGED <<storeVars, blobs, lost, blobSha>>

\* The machine stops.  What was committed to the tables stays, but os.replace is not
\* followed by an fsync of the directory: a blob may be gone, though write() returned.
PowerLoss ==
  /\ blobs' \in SUBSET blobs
  /\ lost' = lost \cup ({blobSha[v] : v \in DOMAIN versions} \cap (blobs \ blobs'))
  /\ calls' = [r \in Requests |-> NoCall]
  /\ UNCHANGED <<storeVars, blobSha>>

-----------------------------------------------------------------------------
(* What the other requests do to the store meanwhile.  Renames touch       *)
(* nothing a call reads, and POST /fork is left out so that every fork is  *)
(* one that POST /branch made; SessionStore has both.                      *)

OtherRequests ==
  /\ \/ GroupOps
     \/ \E s \in SessionIds :
          \/ \E kind \in Kinds : AppendEvent(s, kind)
          \/ \E g \in GroupIds \cup {None}, title \in Titles, backend \in Backends \cup {None} :
               CreateRoot(s, g, title, backend)
  /\ UNCHANGED <<blobs, lost, blobSha, calls>>

Freeze(r) ==
  \/ \E s \in SessionIds, start, end \in 0..MaxSeq \cup {None} : BeginFreeze(r, s, start, end)
  \/ ReadLog(r)
  \/ WriteBlob(r)
  \/ \E v \in VersionIds : InsertVersion(r, v)

Branch(r) ==
  \/ \E s \in SessionIds, start, end \in 0..MaxSeq \cup {None},
        group \in GroupIds \cup {None}, backend \in Backends \cup {None} :
          BeginBranch(r, s, start, end, group, backend)
  \/ \E child \in SessionIds, title \in Titles : CreateChild(r, child, title)
  \/ RefuseChild(r)

BranchNext ==
  \/ OtherRequests
  \/ \E r \in Requests : Freeze(r) \/ Branch(r) \/ Fail(r)
  \/ PowerLoss

BranchSpec == BranchInit /\ [][BranchNext]_branchVars

-----------------------------------------------------------------------------
(* Properties *)

\* A version row refers to a blob that is there, unless a power loss has taken it away
\* since the row was inserted: no error, dying process or other freeze of the same turns,
\* at any await, leaves a row without its blob (freeze.py:100-110).
VersionHasBlob == \A v \in DOMAIN versions : blobSha[v] \in blobs \cup lost

\* A version holds exactly the turns its range has in the live log, however many
\* events were appended while it was being frozen, and the range begins and ends
\* with one of them (freeze.py:84-110).
VersionHoldsItsTurns ==
  \A v \in DOMAIN versions :
    LET row == versions[v]
        held == {n \in Turns(row.session) : row.start <= n /\ n <= row.end}
    IN  blobSha[v] = Payload(row.session, held) /\ {row.start, row.end} \subseteq held

ChildrenForkAtEnd ==
  \A s \in DOMAIN sessions :
    sessions[s].version # None => sessions[s].forkSeq = versions[sessions[s].version].end

RefusedPastEnd ==
  \A r \in Requests :
    calls[r].step = "refused" /\ calls[r].group = None
      => ForkSeq(r) > versions[calls[r].version].end

\* A branch made by POST /branch inherits the whole of the version frozen for it: it
\* never forks before the version's last turn, and unless its group is gone, it is
\* only turned away when it asks for an end past that turn.
BranchForksAtEnd == ChildrenForkAtEnd /\ RefusedPastEnd

\* Why: the blob a call has written is there until the call is over, power loss or not,
\* and no blob is taken for lost while it is there.
CallInv ==
  /\ blobs \cap lost = {}
  /\ \A r \in Requests :
       calls[r].step = "stored" => Payload(calls[r].session, calls[r].turns) \in blobs

-----------------------------------------------------------------------------
(* What the documentation says, and the code does not do *)

\* docs/STAGE_J_WALKTHROUGH.md:89-92: "branch from this turn" produces the right
\* child cursor.  The button is on user and assistant turns alike, so a branch
\* that names an event of the log is not turned away once its turns are frozen.
BranchFromThisTurn ==
  \A r \in Requests :
    calls[r].step = "refused" /\ calls[r].group = None
      => calls[r].end >= nextSeq[calls[r].session]

\* The behaviours in which nothing is appended while a request is in progress or has
\* just been refused: whether a branch names an event of the log does not change
\* under it.
LogsRest ==
  (\E r \in Requests : calls[r].step # "idle")
    => \A s \in DOMAIN sessions : events'[s] = events[s]

QuietSpec == BranchInit /\ [][BranchNext /\ LogsRest]_branchVars

=============================================================================
