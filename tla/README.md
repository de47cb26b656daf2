# A verification project for stratoclave-atelier

stratoclave-atelier keeps agent conversations as a DAG: a session is an
append-only log of events, a range of its turns can be frozen into an immutable
version, and a version can be branched into a child session that an agent then
continues. These modules model the parts of it where order, failure and shared
state matter, check them with TLC on small instances, and prove the main results
for every instance with TLAPS.

    tlc -workers 2 -config ForkGraph.cfg MCForkGraph
    tlapm ForkGraph_proofs.tla

`PROJECT.json` lists the components, the runs with their properties, the mutants
that each property is known to reject, the source lines behind each definition,
the findings, the hazards and the theorems.

## The system

| Component | State | Operations | Talks to | Module |
|---|---|---|---|---|
| `core/types.py` | none (row types) | | everything | SessionStore |
| `db/memory.py` | groups, sessions, versions, events, snapshot queries | create, update, delete, append | called by every handler | SessionStore |
| `db/asyncpg_store.py`, `migrations/` | the same, in Postgres | the same, as transactions | Postgres | PgStore |
| `events_bus.py` | per session, subscribers with a bounded queue and a needs_resync flag | subscribe, publish | appenders publish, SSE responses subscribe | EventStream, LogFeed |
| `api/events.py` | one cursor per response | replay, follow, close | store, bus | EventStream, LogFeed |
| `freeze.py` | none between calls | read log, write blob, insert version | store, blob store, memory | Branching |
| `api/sessions.py`, `api/groups.py` | none between calls | create, fork, branch, freeze, append turn, rename, regroup | store, freeze, bus, namer | Branching, SessionStore, Server |
| `blobs/store.py` | files named by content | write, read, exists | file system | BlobStore, ContentStore |
| `agent_runner.py`, `api/agent_runs.py` | warm loom sessions, pending memory blocks, background tasks | schedule, run, adopt, clear, cancel, close | loom, store, bus, memory | AgentRunner |
| `api/memory.py` | none | query, adopt, clear | runner, memory service | AgentRunner |
| `api/ingest.py` | one websocket | append turns | store, bus | EventStream (an appender) |
| `fork_graph.py`, `api/fork_graph.py` | none | graph of a group, graph of a session | store | ForkGraph |
| `curator.py`, `api/curator.py` | one loom session per query | answer a question about a scope | store, memory, loom | ForkGraph (the walk), Curator |
| `auto_namer.py` | one loom session per title | title of a branch | loom | AutoNamer |
| `config.py`, `api/agent.py` | the environment | which backends, which directory, which services | runner, curator, namer | Backends |
| `server.py` | the lifespan and its pools | start, stop | all | Server |
| `memory.py`, `_distill_memory.py`, `snapshot_resolver.py` | a connection pool each | open, close, retrieve | vendor/distill | Server (open and close) |
| `frontend/static/js/chat.js` | one page's session, messages and EventSource | navigate, stream, branch | the API | ChatShell |

The server is one asyncio process. Its concurrency is that of tasks: code
between two awaits is atomic, and anything may happen at an await. The blob store
uses threads, and Postgres transactions.

What makes each of them correct, in a line:

- store: lineage is acyclic and immutable, fork points stay inside their
  versions, seqs have no gaps, no dangling group, what is written stays;
- Postgres: all of that too, although checks and writes are spread over
  connections and row locks, and no circle of waiting calls;
- stream: a response is the log from `from_seq` on, in order, without a hole, and
  either comes up to date or is closed;
- freeze and branch: a version describes exactly the turns its blob holds, and its
  blob was stored before it, whatever fails or is appended meanwhile;
- blobs: what is at a final path is complete, and a write that returned is stored;
- runner: concurrent runs do not share what is one run's, share what is the
  session's, and tell their story in the log;
- readers of the DAG: what is put together from many reads is still a graph whose
  edges join its nodes, a tree, or a whole lineage;
- server: what was accepted runs, where it was promised to; a lifespan that ends has
  closed its pools; close() is called on what was started; a silent agent keeps no
  branch waiting;
- page: an answer that is complete on it is not rendered again.

What is hard to test in each is listed under `hazards` in `PROJECT.json`, at the
line where it bites.

## How the modules fit together

    SessionStore  <-- EXTENDS --  ForkGraph, Branching
                  <-- refines --  PgStore, Branching, ForkGraph
    ContentStore  <-- refines --  BlobStore     (Branching's blobs behave like it)
    LogFeed       <-- refines --  EventStream  (one appender)
    Backends      <-- EXTENDS --  Curator, AutoNamer  <-- EXTENDS --  Server
    AgentRunner, ChatShell    on their own

An `MC` module gives a specification its symmetry or its larger constants; a
`_proofs` module holds the theorems about it.

### SessionStore

The tables behind the `Store` protocol, one action per operation, as `InMemoryStore`
does them under its lock. `sessions`, `versions`, `events`, `nextSeq`, `queries`
are its dicts; `groups` also remembers deleted ids, because a uuid never comes
back. A call that raises leaves everything as it was, so it is a guard that is
false. `CreateRoot` and `CreateFork` are the two shapes in which the API calls
`create_session`; the store itself would accept a parent without a version, which
no handler sends. Columns that nothing reads (colours, labels, times) are left
out; titles are kept because an update could lose or clobber them. It is the
abstract specification of every other module with tables, and is checked inside the
`graph` and `branch` runs.

### PgStore

The same operations as `AsyncpgStore` performs them at READ COMMITTED. A call has
the row locks it holds (`held`), those its next statements will ask for (`wait`)
and a `step`; its writes are seen when it commits. Locks come from the statements
(`FOR UPDATE`, `UPDATE`, `DELETE`) and from the foreign keys of the migrations
(`KEY SHARE`; `ON DELETE SET NULL` as an update of the sessions that are in the
group, row by row, in any order). `_validate_fork` and the read of the parent's
backend run on connections of their own, as in the code. Postgres itself is
external: which locks conflict, that a statement sees what is committed, and that a
transaction may be rolled back at any time.

`nextSeq` is not a column: it is `MAX(seq) + 1`, and that is what the refinement
maps it to (`Store == INSTANCE SessionStore WITH nextSeq <- ...`).

- `pg_store`: two connections, two sessions, a group, a version, one event per log.
  Two transactions are what a lost update, a second use of a seq or a circle of two
  needs, and two sessions what a fork needs. It is the largest run (about a million
  states, some 80 seconds). Larger circles and longer logs are left to the proofs.

### ForkGraph

The two fork-graph endpoints and the curator's walk, one read per step, between
any operations of the store. `reads[r]` is what a request has read: rows of sessions,
versions, and the chain with the parent link that the walk follows `next`. `Edges` and `Nodes` are `build_fork_graph`; `Descendants`
is the breadth-first search of the endpoint, as a recursive function.

- `graph`: every operation of the store beside one reader, with three sessions (a
  root, a fork, a fork of a fork), two versions, a group and a backend. Three
  sessions are enough for a cycle through fresh ids and for a walk of more than one
  step; all properties of the store speak of a session, its parent and one version.
  Seqs are 0 and 1, so that a version's range is 0..0, 0..1 or 1..1 and a fork point
  can miss it below and above (`ForkPointFromZero`, the mutant of
  `ForkPointInVersion`, drops the lower half of the check). `Kinds` is empty there:
  logs grow in the `branch` run. Readers change nothing, so a second one would only
  multiply the states; nobody reads a query's row, so `QueriesEarly` follows one only
  while there is a single session.

### Branching

The freeze pipeline and the branch handler over SessionStore, one step per await.
`calls[r]` is the local state of a handler (`step` says which await it is at),
`blobs` the content-addressed store, `blobSha` the column of the version row. A
blob is modelled as the set of turns it holds, which is also its name, so equal
content means equal blob. Distinct turns are taken to have distinct contents; turns
with equal text would only make two blobs coincide. `Fail` covers exceptions and a dead
process at any step. `PowerLoss` is a stop of the machine: the committed rows stay,
but any blob may be gone, as in ContentStore, and the history variable `lost` remembers
which versions it was taken from, until it is written again. Values that a handler
never looks at again are reset, to save states.

- `branch`: a request that freezes or branches, again and again, while the log
  grows to two events of two kinds and the group comes and goes. Another request
  that freezes could only append a version and add a blob, which the guards never
  look at; that any number of them do no harm is proved, not checked. `FewOrphans`
  bounds what power losses and failures leave behind: one blob without a version and
  one version without its blob.
- `branch_refused`: see Findings. Its specification, `QuietSpec`, lets nothing be
  appended while a request is in progress: whether a branch named an event of the log
  is then a question with one answer, and a client that guesses a seq which is taken
  before it is refused is no counterexample.

### EventStream and LogFeed

One session's live stream: tasks that append an event and then publish it, and
SSE responses that subscribe, replay and follow. `inFlight` is the event between
`append_event` and `publish`; `subs` is the bus's bucket; `lastSeen` is
`last_seen_seq`; `sent` is what the response has written. Only the length of the
log is kept, which `LogGapless` of SessionStore justifies. Keepalive pings change
nothing and are left out. A request may ask for a `from_seq` the log has not reached.

`LogFeed` is what a client may rely on: readers of a growing log, each of which gets
the next event once it is written, until its response ends. It has no bus, no queue
and no cursor. `ImplementsFeed` says that EventStream is one
(`reading <- Open, start <- from, got <- sent`): a replayed or delivered event is the
reader's next one, and publishing, reading the history, dropping and skipping show
nothing to the client. `NoSilentGap` is what that means for one response.

- `stream`: one appender, one connection that comes back as often as it likes, a
  queue of two (256 in the program), five events: overflow, sentinel, a second
  overflow behind it and recovery all happen. Connections share nothing but the log,
  so one is enough. Liveness is under `Fairness`: the event loop keeps running a
  task that is ready (the generator's next step, a publish after its append). The
  generator is driven by the sending of what it yields, so this assumes that a client
  that is connected goes on reading; it may disconnect at any time, and nothing is
  assumed about new events.
  One appender is what `ImplementsFeed` needs: with two it is false (see Findings).
  A follower catches up unless the bus has marked it, and a sentinel in the queue
  closes the response. That a marked follower may wait for ever is `stream_stall`.
- `stream_out_of_order`, `stream_stall`: see Findings.

### BlobStore and ContentStore

`FileBlobStore.write`, one system call per step and per thread, with errors,
crashes of the process and power losses between any two. A file is whether it is
complete, on disk, and read-only. `ContentStore` is what a caller may rely on:
a write takes effect at one point between call and return. The file system and the
power loss are external: modelled from what `write`, `fsync` and `rename` promise
(metadata may be written late, bytes that were not synced may be missing).

- `blob_writes`: three writers and two blobs (two collide, one does not), with the
  refinement `stored <- Stored, status <- Status`.

### AgentRunner

Background runs of one session: `step[r]` is the await a task is at, `warm` the
entry of `_sessions`, `pending` the entry of `_pending_memory`, `buffer` the number
of texts in `text_buffer`. `loom` is external: it may yield any chunks, end or
raise. `_ensure_session` and the pop of the block happen before the first real
await, hence in one step. A shutdown (`Close`) comes when no request is in
progress; the first step of a task is queued before its request ends, so no task
is still waiting to start then.

- `runner_runs`: two runs, two blocks, two chunks each, every append and every
  start may fail. Two of each is what a race needs.
- `runner_silent`: see Findings.

There is no liveness here: a run waits on loom without a timeout, and nothing in
the code makes loom answer.

### Backends, Curator, AutoNamer and Server

`Backends` has the validated configuration as a record and the places that resolve
a backend and a directory from it as operators; a directory is what the checks
tell apart (missing, plain, inside a git checkout). `Curator` is a query from its
handler to the end of its streamed body, `AutoNamer` the title of a branch under a
timeout. close() of a loom session may do its work, raise or be cut short by a
cancellation: the code only logs the first of these failures and does not catch the
second, and either leaves the loom session open (`left`). It may also hang
(`CloseHangs`; a query's `CloseLoom` that is never taken). `Server` puts them into the lifespan of `server.py`: which pools its
startup opens and in which order, where it may fail (`FailStartup` at the two distill
steps, which close their own pool, `FailEngine` at `create_engine`, which is outside
any try), what its shutdown closes, and
what a killed process leaves (the rows of its sessions, `pins`). `vetted` is a
history variable: the sessions whose backend was accepted under the configuration
of the server that runs now. uvicorn is external: it serves after the startup and
finishes requests before the shutdown.

- `server`: two backends, fourteen configurations an operator might go through (a
  default and none, an allowed list of none, one and two, a directory for one
  backend only, a git checkout with and without permission, distill with and without
  a resolver; half of them are refused), two sessions so that one is a fork of the other,
  one query and one branch at a time. Queries and names share nothing but the
  configuration. `CloseIsTried` says no more than its name: close() is called on every
  way out of a query whose response was started and of the naming of a branch. Whether
  the loom session is gone then is up to loom, and a response that is never iterated
  has no close() at all (see Findings). `BranchIsNamed` assumes that the timer of
  `asyncio.wait_for` fires and that a close() which does not hang returns; nothing of
  the agent. It allows a close() that hangs to hold a branch up, but only behind the
  timeout: `wait_for` cancels once, and then waits for the `finally` without a limit
  (`auto_namer.py:128`, `173`). A close() that hangs before the timeout is cut short by it.

The theorems about `Server` hold for every set of valid and invalid configurations.

### ChatShell

The chat page: navigation, hydration, the EventSource and its four handlers, over
logs that agent runs extend. It is there for the composition of a reconnecting
EventSource with a page that already shows what is replayed.

- `chat_replay`: one session and one navigation, so that only the EventSource's own
  reconnects replay the log, and logs of up to four events, so that a turn, a chunk
  and the agent_turn fit and one more; see Findings.

## Findings

Runs that end in a violation show where the program and its own text disagree:

| Run | What happens |
|---|---|
| `stream_out_of_order` | `api/events.py:110` takes an event published late for a duplicate, and drops it |
| `stream_stall` | `events_bus.py:60` sends the sentinel only with a later publish: after an overflow that nothing follows the response stays open and behind |
| `branch_refused` | "branch from this turn" at an assistant's reply is a 409 that leaves a version behind (`api/sessions.py:316`), because only events of kind "turn" are frozen (`freeze.py:85`) |
| `runner_silent` | a run that cannot start is accepted with 202 and never heard of (`agent_runner.py:311`) |
| `chat_replay` | the EventSource reconnects with the `from_seq` it was made with, not with the last seq (`api/events.py:24-25`): the replay renders a complete answer a second time (`chat.js:484`) |

Others, visible in the models, have no run of their own, and no property says the
opposite of what the repository says there:

- `memory.py:14-16`, `memory.py:123-128` and `STAGE_G_WALKTHROUGH.md:106-109` say that
  with distill enabled and its package missing the server boots without memory. The
  import of the package is inside `from_config` (`_distill_memory.py:173`), behind the
  handler at `memory.py:139`, so that the server does not boot: `OpenMemory` has no
  step without the package, `FailStartup` has.
- `STAGE_C_WALKTHROUGH.md:88-90` says that fsync keeps a version row from pointing at a
  blob that does not exist. The file is synced, but the rename is not (`blobs/store.py:118`,
  no fsync of the directory): a power loss after the commit of the row may take the
  blob away (`PowerLoss` in BlobStore, ContentStore and Branching). `VersionHasBlob`
  covers every other failure and exempts this one.
- `api/sessions.py:158-159`, `db/store.py:80-83` and `STAGE_L_WALKTHROUGH.md:31-33` say
  that forks inherit their grouping through their parent. A fork copies its parent's
  group when it is created (`BeginBranch`); `UpdateSessionGroup` moves a root and leaves
  its forks where they are. `LineageImmutable` is silent about groups.
- Deletions of groups can deadlock with moves of their members into groups that are
  being deleted (`DeadlockNeedsDelete` shows that no circle does without a deletion);
  the error of the call that Postgres ends is caught by no handler.
- A startup that fails leaves the pools of its earlier steps open until the process
  exits: the resolver's when the memory service cannot be had, and both when
  `create_engine` raises (`server.py:109`, outside any try). `PoolsReleased` allows it.
- `curator.py:271-273` and `STAGE_L_WALKTHROUGH.md:125-127` say that even a cancelled
  query cleans up. A response that is never iterated never calls close() (`Abandon`;
  `CloseIsTried` exempts it), and in a cancelled request close() is itself cancelled
  (`CloseLoom`). The namer's timeout cuts a close() in the same way (`NameTimesOut`).
- Chunks and summaries of two runs of a session mix in one log, and no row says which
  run it is of (`agent_runner.py:347`): the `run` of an event in AgentRunner is not in
  the code's rows.
- `turn_count` of a version is computed from its range and counts all seqs
  (`CreateVersion`), so it is too large when an agent_turn lies between two turns.
- A session pinned under an earlier configuration is not checked again: it need not
  start, and may run inside a git checkout (`vetted` exempts it).
- An empty group as a curator scope is passed to the retriever as None
  (`curator.py:149`), which it takes for no restriction.
- A fork copies its parent's group and does not follow it later (`BeginBranch`,
  `UpdateSessionGroup`, against `api/sessions.py:158`).
- A crash between `Replace` and `Seal` leaves a writable blob, which the next
  `CheckExists` accepts (against `blobs/store.py:4`).
- Two navigations of the chat page that overlap leave the first one's EventSource
  attached (`chat.js:342`).

## What is proved

Proofs are for every value of the constants, from the named assumptions in the
modules: `StoreAssumption` and `PgAssumption` (None is not an id, "active" is a
status; session and group ids are apart), `BranchAssumption` ("turn" is a kind),
`GraphAssumption` (session and group ids are apart), `StreamAssumption` (a positive
queue bound, distinct sentinels), `BlobAssumption`, `RunnerAssumption`,
`BackendsAssumption` and `ServerAssumption` (the configurations are of the right
shape). TLC evaluates them in the runs.

- `SessionStore_proofs`: types; then lineage. Well-foundedness is not inductive
  as a statement about cycles alone: a step could close one only by giving a
  parent to an existing row, so the invariant is that parents are present, and the
  proof of a creation step shows the new row is nobody's parent. Fork points need
  that versions never change and their owners stay. `StoreRows` needs that logs are
  only extended at `nextSeq` and that a group's deletion detaches its sessions in
  the same step. `StoreLineageImmutable` and `StoreWritesOnce` are the two action
  properties, from the same invariants.
- `PgStore_proofs`: `PgInv` says what each call may rely on while it waits
  (`CallOK`): the locks it has, that what it checked on other connections is still
  true (versions are never removed, a parent's backend never changes), that the
  group it locked is still there, and that conflicting locks are never held together
  (`Exclusive`). From it `AppendsNeverCollide`; `PgImplementsStore`, where a commit
  maps to an operation of SessionStore and everything else to a stutter; and
  `DeadlocksNeedDelete`, for circles of any length: in a circle everybody waits and
  holds a lock, and a call that does both without deleting is a move at its new
  group, which only a deletion can block, or a fork at its parent, which only such
  a move or a deletion blocks. The lock on the group's row makes the row-by-row
  detachment one step in the store's eyes: it conflicts with the key-share lock of
  anyone who would join the group meanwhile. `PgKeepsLineage`, `PgKeepsRows` and
  `PgLineageImmutable` say of the rows what `StoreLineage`, `StoreRows` and
  `StoreLineageImmutable` say of the abstract store. The prover cannot cite a theorem
  through an INSTANCE with a substitution, so they have a proof of their own: a
  commit either rewrites rows and keeps parents, fork points, backends and versions
  (`StepRows`, `RewriteLineage`), or inserts a session nobody refers to yet
  (`InsertLineage`).
- `Branching_proofs`: `BranchInv` adds to the store's invariants what a call in
  progress knows of the log it read: the chosen turns are all turns of their range
  still, since a log only grows at its end; the blob is stored, since a power loss that
  takes it ends the call too; the version is the session's. From it the three invariants and `BranchImplementsStore`, so that all
  theorems about SessionStore hold of a store with any number of freezes and
  branches in progress; `BranchKeepsHistory` and `BranchKeepsLineage` draw that
  conclusion. `BranchForksAtEnd` has a second half, about calls that are turned away:
  without a group the fork can only be refused for its fork point, and since that is
  the requested end and the version holds every turn up to it, the request named an
  end past the version's last turn. `TurnsCanBeBranchedFrom` shows the cause of the
  finding of `branch_refused`: were all events turns, `BranchFromThisTurn` would hold
  of `QuietSpec`, since the event a branch names is then among the turns chosen for it
  (`NamedIsFrozen`) and cannot lie past the version's end.
- `ForkGraph_proofs`: `GraphInv` says that what a reader holds was true when it was
  read and still is: rows may have been renamed or regrouped but not reparented, the
  versions it needs were there when it listed them, the part of a chain walked so
  far is a lineage whose next link is the one that was read. `GraphLineage` carries the
  store's facts over. `Descendants` stops after as many rounds as there are sessions; that this is enough is a pigeonhole argument (a search that grows in every round
  has found everything), proved by induction over an explicit set of rounds.
- `EventStream_proofs`: `OneAppenderNoGap` and `OneAppenderImplementsFeed` for one
  appender. They are far from inductive: `StreamInv` (its parts are in `DeliveryInv`)
  relates the queue (consecutive seqs between sentinels, ending with the newest
  published event unless marked), the newest published event, and how far the
  connection will have come when it looks at its queue. The refinement needs besides
  that whatever a connection has read or is queued for it is in the log
  (`WrittenInv`): then the event it sends is the reader's next one, and written. With
  two appenders both are false, as `stream_out_of_order` shows. What remains true for
  any number of them, publishing in any order, is `StreamInOrder`, nothing twice and
  nothing out of order, which follows from the cursor alone, and `StreamCaughtUp`. Its
  invariant (`AllAccounted`) follows every published event: it is yet to be read from
  the table, or in the history that is being replayed, or behind the cursor, or in the
  queue, or the subscriber is marked or has a sentinel in its queue. A connection that
  waits on an empty, unmarked queue has none of the other excuses.
- `BlobStore_proofs`: only complete, synced files are renamed (`BlobInv`), from
  which `NeverPartial` and the refinement of ContentStore follow, step by step.
- `AgentRunner_proofs`: `OneLoom` and `AdoptedOnce`, which rest on the fact that no
  step after the first touches the shared dicts (`LaterSteps`). `RunsTellTheirStory`
  and `SummariesMatch` need what the log looks like from inside a run (`StoriesOK`): its
  own events are at places no other run's step touches, since a step appends at most
  one event at the end (`PublishEvent`, `PublishOwn`, `PublishOthers`); while the run
  streams, the first of them is its turn, none of them ends it, and `buffer` is the
  number of its text chunks in the log. The summary is written from that buffer, so it
  counts the right chunks however many runs write between them.
- `Server_proofs`: `PoolsClosed` and `OneShotsTryClose` say what the names say, with the
  exemptions above. `ServerInv` ties the phase of the lifespan to the pools that are
  open, the configuration to its validity, `vetted` to `ResolvedBackends`, and each
  loom session to a backend that was resolved under the configuration. The rest is
  arithmetic of the resolution: a valid configuration has a directory for every
  backend it accepts, and a single resolved backend is the advertised default.

Only model-checked: the liveness properties `FollowerCatchesUp`, `SentinelCloses`
and `BranchIsNamed` (liveness under fairness is out of the prover's reach) and the
violations. Every other property of a passing run is stated by a theorem.

## Bounds

`MaxSeq`, `MaxLog`, `MaxChunks` and the sizes of the id supplies bound the runs; a
supply that is used up stops creation, so deadlock is not checked: every instance
may come to rest. (Waiting in a circle in Postgres is no deadlock of the model
either, since any transaction may be rolled back; `DeadlockNeedsDelete` states it as
an invariant.) Symmetry is used on ids, and never in a run with liveness. A bound is
never part of a theorem's argument: the proofs leave every one of them open.

## Not modelled

- What external services do: the agent processes behind loom and the files they
  write (hence the copying of a working directory for a branch), the retrieval and
  ingestion of vendor/distill, the answers of the snapshot resolver. Calls of them
  may succeed or fail; their pools and sessions are modelled.
- `update_group`'s columns, colours, labels and times, which no other state depends
  on.
- `update_session_status` has an action, but no handler calls it; the status check of
  appends and runs is left out for that reason.
- The command line (a client of the API), request schemas and dependency wiring,
  the wording of prompts, contexts and titles, the order of lists.
- The fork panel and the rendering code of the chat page. Navigations that overlap
  are in ChatShell's steps and in no run, since the run about replays is to show
  that they are not needed.
- Upgrading a database: migrations are run once, by hand, in sequence. The
  constraints they declare are in PgStore.
