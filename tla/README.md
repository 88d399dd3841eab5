# A verification of geaflow-rs

TLA+ models of the distributed graph engine in `src/geaflow-rust`, model-checked
with TLC and, for nearly every safety property of its distributed parts, proved
with TLAPS.  All paths
below are relative to `geaflow-rust/geaflow-runtime/src/` unless they start with
`docs/` or `.trae/`.

## 1. Inventory

geaflow-rs runs *vertex-centric programs* (WCC, PageRank) over a graph, in
supersteps: in superstep k every vertex receives the messages sent to it in
superstep k-1, may change its value, and sends messages along its out-edges.
A superstep in which nothing is sent is the last one; so is the last one of the
job's iteration budget.

| part | state it keeps | operations | what makes it correct |
|---|---|---|---|
| **Vertex programs** `distributed/algorithm.rs`, `algorithms/*.rs` | PageRank's `teleport`, per algorithm object | `compute_vertex` | WCC: after superstep k a vertex has the least id within k-1 edges; PageRank: rank is conserved |
| **Shuffle** `shuffle/` | none | `route_outbox`, `partition_of` | a message reaches the inbox of the partition that stores its target |
| **Driver** `distributed/driver.rs` | connections, inboxes, the superstep it is at | `connect`, `load_graph`, `set_algorithm`, `superstep_round`, `fetch_vertices`, `shutdown`, `create_checkpoint_all`, `load_checkpoint_all`; the streaming loaders and `dump_vertices_csv` | the job is the sequential program, or it fails; it never hangs |
| **Worker** `distributed/worker.rs` | a RocksDB state, `algorithm`, `pending_iteration`, `pending_inbox` | one handler per `DriverToWorker` message, `process_superstep`, `register_and_heartbeat` | each superstep is computed once, on exactly the messages of the last one; the process ends with its driver |
| **Protocol** `distributed/protocol.rs` | frames in flight | `send_msg`, `recv_msg` | an answer is read by the call that expects it |
| **Scheduler, checkpoints** `scheduler/cycle_scheduler.rs`, `state/checkpoint_meta.rs` | `cp_<k>/worker_<i>`, `cp_<k>/inboxes.bin`, `checkpoint_<k>.json`, `checkpoint_latest.json` | `CycleScheduler::run` | a recovered run is where an uninterrupted one would be |
| **Graph state** `state/rocksdb_graph_state.rs` | vertices and edges by key; `EDGE_BATCH_NONCE` | batches of puts, scans, `open`, `create_checkpoint` | a checkpoint is a snapshot; an edge is neither lost nor kept from an earlier load |
| **Local engines** `graph/partitioned_graph.rs`, `graph/mem_graph.rs` | values, inboxes and outboxes per partition | `compute`, `compute_algorithm`, `run_with_function` | the same as the sequential program |
| **Master** `distributed/master.rs` | worker address -> time last heard of | `handle_worker`, `alive_workers` | living workers are listed, dead ones forgotten |
| **Driver service and client** `distributed/driver_service.rs`, `bin/geaflow-submit.rs` | job id -> entry | `SubmitJob`, `GetJobStatus`, `FetchVertices`, the spawned `run_job`, `resolve_workers`; `run_via_driver` | a client gets the answer of its own job, and gets one |
| **Graph500 service** `bin/geaflow-graph500.rs` | datasets, job table, `JOB_NONCE`; the workers it starts in its own process | HTTP job API, a task per job, `start_workers`, `run_wcc_meta`, `run_pagerank_meta`, comparison with truth files | an accepted job settles; it succeeds only if its results agree with the data it was submitted for; jobs are not in each other's way |
| **HTTP server** `http/mod.rs` | connections | `read_request`, `serve_http_v2`, `write_response` | a request is handled as it was sent, or turned away for its limits, however it is cut |
| file and socket I/O, `JobSpec`/`ExecutionPlan`, streams and API traits, metrics | none that a run depends on | | not modelled, see section 8 |

**Interactions.**  A client submits to the driver service over a TCP connection;
the service resolves workers (from its configuration, or by asking the master)
and spawns `run_job`.  That connects to each worker in order, and from then on
driver and worker exchange frames over one connection each.  Workers never talk
to each other: all messages of a superstep go through the driver.  A worker
accepts *one* connection in its life and exits when that ends.  The scheduler and
the workers write checkpoints into one directory tree of the job id, which is all
that outlives an attempt.  The Graph500 service has no master and no driver
service: each job's task finds free ports, spawns `run_worker` as tasks on them,
drives them itself, and aborts them when it is through.

**Hard behaviours.**  Supersteps whose inboxes and outboxes are cut into batches
and interleave over several connections; processes that die at any point, of
which the other side learns only by a failing `recv_msg` or `send_msg`; rounds
that fail half-way, with some workers having stored their updates; one worker's
disk that fails while the others go on; checkpoints
made of several files written by several processes; recovery inside the very
directory it recovers from; heartbeats that are lost and nobody notices; clients that
are gone when they are answered; jobs competing for one-shot workers; ports
that are free when looked at and taken when bound; tasks that are aborted and end
later; clocks read before a lock; visiting orders given by hash maps and thread pools.
`PROJECT.json` lists them as hazards, each at its line.

## 2. Modules

```
VertexProgram                 the programs and one superstep of one partition
 ├─ Bsp                       abstract: the sequential program
 ├─ VertexProgramProofs       lemmas: numbers, sums over sets, the programs
 ├─ LocalGraph                the local engines            ──implements──> Bsp
 │   └─ LocalGraphProofs          four theorems, one of them the refinement
 ├─ Protocol                  frames and connections
 │   ├─ Worker                run_worker, process_superstep
 │   ├─ Driver                run_job and the Graph500 runs, the scheduler's loop
 │   └─ Cluster = Driver + Worker + crashes + file faults  ──implements──> Bsp
 │       └─ ClusterProofs         which frames are on their way; three theorems
 │           └─ ClusterDataProofs what is in them; that a job is a run of Bsp
 └─ CheckpointJob             attempts, checkpoints, recovery
     └─ CheckpointJobProofs   five theorems
Master                        registry, heartbeats, time to live
 └─ MasterProofs              three theorems
DriverService                 service, clients, spawned jobs, one-shot workers
 └─ DriverServiceProofs       four theorems
HttpServer                    requests read piece by piece, answers
 └─ Graph500                  datasets, jobs, workers in the service's process
     └─ Graph500Proofs        four theorems
MC*                           instances for TLC
```

**VertexProgram.**  An edge is a record `[src, dst, key]`.  Both programs send at
most one message along each out-edge of a vertex in one superstep, so a multiset
of messages in flight is a function from edges to payloads, and a mailbox, an
outbox and a batch are such functions.  `ProcessSuperstep` is `process_superstep`:
every stored vertex is visited once, the updates are stored in one batch,
messages to ids that are not stored are dropped.  Ranks are fixed-point numbers
with `Unit` for 1.0 and damping 1/2; instances choose `Unit` such that every
division is exact, so the model has no rounding and says nothing about that of
the code.  A worker takes its teleport from the first positive rank *in scan
order*; RocksDB scans by the bytes of the key, which is the order of the ids
below 256.

**Bsp** is what a job promises: one machine, the whole graph, one step per
superstep.  It is never run by itself: LocalGraph and Cluster implement it, and
what it satisfies is checked through their refinement mappings.  `ResumedSpec`
is the same for a job that may be taken up again: it starts where it would be
after some number of supersteps.

**LocalGraph** has one action `Visit(v)` for the body of the loop over the keys of
a partition, with any order within a partition and any interleaving of
partitions (rayon), and `Exchange` for what follows the loops.  `OneFunction`
selects `compute`, where one function object visits the partitions in order,
instead of `compute_algorithm`, where each partition has its own.
`InMemoryGraph::run_with_function` is the case of one partition.
`MaxIterations` of `compute` is only a bound of the model.

**Protocol, Worker, Driver, Cluster.**  Two bounded FIFO channels per worker stand
for a TCP connection and its socket buffers; a send into a full channel blocks.
The driver is a program with a counter (`phase`, `turn`): one action per frame it
sends or receives, in the order of the code, which in most calls sends to all
workers before it receives from any.  `Streaming` selects between the two
sequences of calls in the code: `run_job` (`load_graph`, `fetch_vertices`) and the
Graph500 runner (`load_graph500_streaming`, `dump_vertices_csv`), which talk to
one worker at a time and wait for its answer.  With `Interval` > 0 a job begins by
recovering from `saved`, if there is something, and makes a checkpoint every
`Interval` rounds: `create_checkpoint_all`, a frame to each worker and an answer
from each, and only then `Publish`.  A streamed load sends full buffers
in the order in which the files fill them, any order here, then what is left in
the buffers, first of the vertex file and then of the edge file, then one empty
last batch per worker.  The CSV file of a dump is what the worker's answer holds.  A worker has one action per message.  Batches are sets of
`BatchEntries` entries chosen in any order, as the code takes them from a hash
map.  A database holds values by id and edges under the key the code gives them,
source, `nonce` of the process and index in the batch, so that what a load
replaces in a directory that was used before, and what it keeps, is what it is in
RocksDB.  (The workers of the Graph500 service share one process and so one
nonce; that only leaves gaps in the numbers of each.)  The inboxes belong to as
many workers as there were when they were made (`inboxes`): a round pairs them
with the workers of now, as `zip` does.  A process that dies closes its connections: the other side may still
receive some prefix of what was sent, then its `recv_msg` fails; what is sent to
a dead process may be swallowed or may fail.  `DriverFails` has the reasons for
which a call returns an error, an answer of the wrong kind among them;
`connect` gives up on an address that is never bound.  An error drops the driver
and all its connections.  A worker whose file operation fails (creating a
checkpoint, opening one, dumping the CSV file) answers `Error` and goes on with its
loop: `FileFails` in Worker, which Cluster allows at up to `MaxFaults` workers
(`WorkerFaults`).  The errors a handler does not answer, those of RocksDB while it
loads or computes, end the process: `WorkerCrash`.  A failure of the driver's own
files (the input, which it reads after connecting, `inboxes.bin`,
`checkpoint_latest.json`) shows as `DriverCrash`.

**CheckpointJob** is one job id submitted up to `MaxAttempts` times, each time with
fresh processes on the same files.  A superstep round is one step, or fails
having stored the updates of *any* set of workers; every write of a checkpoint is
a step: the snapshot of each worker, `inboxes.bin`, the truncation of
`checkpoint_latest.json` and its filling; `Crash` may come between any two.
`live` says which directory the workers have open, because `LoadCheckpoint`
opens the checkpoint itself and works there: in Cluster, which is one attempt,
nobody looks at a directory again after that, here they do.  `Ref` is the uninterrupted run, a
constant with its defining equations assumed (and evaluated by TLC), so that the
theorems can use it without recursion.  The workers are the same in every
attempt; another number of them is an instance of Cluster (finding 4).

**Master.**  Each message comes over a connection of its own and is handled by a
task of its own, so sending, reading the clock and inserting under the lock are
three steps, and reading the clock and `retain` two; clock ticks fall between
them.  A heartbeat whose connect or send fails is passed over silently by the worker,
and one that was sent may not arrive; both are `HeartbeatLost`, and `RegisterLost` is
the same for a registration that was sent.  `missed` counts the heartbeats a worker
has lost since the map was last told of it; `ListsTheLiving` claims a living worker
for the answer as long as the time to live spans them.

**DriverService.**  Submissions ("runs"), each under an id of its own, as
`geaflow-submit` makes it, or under that of an earlier one, at any time; the entry
map, the connection's task that resolves the workers and then sends `JobAccepted`, the
spawned task of each run stepping through `connect`, one-shot workers with
a backlog of connections, a master that may name any of the workers (one that died
is listed for some time yet; one whose heartbeats fail is not) and may stop, and
the polling client.  Resolving and accepting are two steps: the client may be gone by
the time `JobAccepted` is sent, and then no run is spawned and the entry says running
(`AcceptFails`, stage "dropped").  The configured list is used as it is and the
master's answer is sorted; workers are numbered in the order of the one or the other, so
that both come out ascending.  What a job does once it has all its workers is Cluster's
subject and one step here, that may fail although all of them are alive, over files of
the job.

**HttpServer, Graph500.**  A request has a header of some units, a `Content-Length`
(`length`), and as many units as its client sends before it is silent or gone
(`sent`), be it that it stops or that its connection breaks.  `read_request` has one
action per read, of 1 to `Chunk` units: `ReadHeader` while the end of the header is not
in the buffer, which measures the buffer, and that may hold units of the body by
now; `ReadBody` until the buffer holds what the length says; `ReadFails` for all the ways
of giving up.  The handler is called when that is through (`Whole`).  What a client
cannot see of a request is left out.  A worker is named by its job, the item of `run` it
was started for and its number, and is a task of the service: it binds its port, accepts
one connection of its backlog, opens its directory, which fails while another worker
has it open or if the directory is no good, and ends when its connection does or it was
aborted.  A port is free if nobody has bound it *now*, so it may be found free twice; all
ports that nobody ever held are alike, and the model hands out the least one.  `RunMeta`
is the rest of an item once the driver has all its connections: what a driver does
with them is Cluster's subject.  Whether a result agrees with the truth file depends on
that file and on the parameters of the job, its iterations and `alpha`: the constant
`Meta` says for which parameters it does, and whether the files can be read; that the
result is the right one for the parameters is what Cluster shows.  The client names the directory
a job works in, and any `create_dir_all` or write below it may fail (`out`,
`DirectoryFails`).  'pr' and 'pagerank' are one algorithm (`Kind`); an item that names
none is passed over.

`PROJECT.json` maps each definition to the lines it translates.

## 3. Runs

| run | instance | shows |
|---|---|---|
| `local_algorithm` | every directed graph on three vertices, with and without an edge to an unknown id; two partitions in parallel; WCC loaded with labels other than the ids | `LocalImplementsBsp`: visiting orders, interleavings and in-place updates do not show.  `LabelsExact`: exact labels after every superstep.  `WccSettles`: it ends, within n+1 supersteps and at the fixpoint, without needing the cap `compute` does not have |
| `local_pagerank` | the same graphs, `compute` with one function object, equal ranks | `LocalImplementsBsp`, and `RanksConserved` on graphs without sinks |
| `cluster_wcc` | WCC, three workers, connections of one frame, batches of one entry, two senders to one vertex, a message to an unknown id, state directories that hold an earlier run; a checkpoint after every superstep; a first attempt, one that recovers, and one that recovers with the directory of a dead attempt in the way of its first checkpoint; one crash of any process and one worker whose file operation fails | `SuperstepsAligned`, `ResultComplete`, `ImplementsBsp`; `PublishedIsCut`: what is published is the state between two supersteps, all of it; `FailsOnlyForCause`: an `Error` answer makes the very call fail that asked for it, and no answer is left on a connection for a later call to trip over; `FailFast` and `WorkersReleased`: the job ends and so do its workers, whoever dies and whatever fails |
| `cluster_pagerank` | PageRank, two workers, equal ranks; a graph with repeated edges, streamed in batches of at most two entries, the result dumped to CSV files, one of which may fail to be written; one crash of any process | `ImplementsBsp` although the graph arrives in pieces and each worker has its own teleport; `ResultComplete`, `FailFast` |
| `cluster_rescaled` | the job of `cluster_wcc`, its checkpoint made by three workers, recovered on two; a checkpoint every second superstep, no crash and no fault | finding 4 |
| `checkpoint_wcc` | WCC on a path whose every message crosses partitions, checkpoint every second superstep, four attempts | `PublishedComplete`, `PublishedPristine`, `RecoveredExact`, `ResultExactUnlessReopened` |
| `checkpoint_reopened`, `_stuck`, `_teleport` | the same job with two or three attempts; PageRank for the last | findings 1 to 3 |
| `master_registry` | two workers, period 2, delay 1, time to live 5, clock to 7; any heartbeat may be lost, late or overtaken | `ListsTheLiving`: a registered worker is in every answer unless two of its heartbeats in a row were lost; `ForgetsTheDead` |
| `service` | two addresses, two submissions at any time, under one id or two, configured workers or a master, one crash, one restart, clients that are gone before they are answered, runs that fail over their own files | `AnswersOwn`; `RunningIsAccounted`, which names the two ways in which an entry says running for ever; `WaitsUpward`: a job that holds workers waits only for one above them all, so that jobs never wait in a circle, because all connect in the sort order of the addresses; `ClientsAnswered` and `WorkersLetGo`: what follows from that |
| `graph500` | one client with three requests out of twelve, among them ones that are no JSON, no HTTP, not sent to the end, and at and over the limits of header and body, in reads of one or two units; one dataset id with sound or flawed files; jobs of no, one and two workers, one of which names PageRank under both names and something unknown, one with parameters that the truth file is not for and a directory that may fail | `SucceededVerified`, `FailsOnlyForCause`; `HandledAsSent`: what a client is answered does not depend on how its request is cut, but for a header at its limit whose last read brings some of the body; `JobsSettle`; `WorkersLetGo`: when nothing moves any more, a worker of a job that is through has ended, unless the job failed before anybody connected to it, or a driver that was given the same port is connected to it |

`CHECK_DEADLOCK FALSE` is in every configuration because every one of these
systems really stops: a job ends, attempts and the clock are bounded.  That it
does not stop too early is what the liveness properties say.

**Bounds, and why they are enough.**  Three vertices give every shape in which a
label travels over two edges, meets another one, or runs in a circle; five in a
row give the checkpoint runs two checkpoints before the labels settle, and a
third one, in the superstep that falls silent, from which a recovery finds its
budget spent.  One-frame
connections and one-entry batches make every send block and every inbox and
outbox of more than one entry a multi-batch one; larger values have fewer
interleavings.  Four attempts suffice to recover from a checkpoint that a
recovered attempt made and to open one twice.  `MaxCrashes` = 1 is a job's whole
supply, since any death ends it, and so is `MaxFaults` = 1.  In Master the time to live
is *exactly* two periods plus a delay, what spans one lost heartbeat: any less and the
property fails, so every comparison is taken to its limit; up to time 7 a worker can lose
none, one or two heartbeats in a row.  With two submissions and two workers a circle of waiting
would already be possible.  In Graph500 three requests are a registration and two
jobs, or a job between two registrations; two jobs of up to two workers give every
way of being handed the same port, of one driver connecting to the worker of
another, and of a worker that is still there when the next item begins.  With reads of
at most two units, two units of header and one of body there is a request on either side of
each limit, and one whose fate the cutting decides.

## 4. Fairness

* LocalGraph: weak fairness of `Next`: a thread of the pool that can go on does.
* Cluster: weak fairness of the driver's step and of each worker's step: tokio
  polls a task that can progress, and a broken connection is noticed by the next
  `recv_msg` or `send_msg`.  `Bind` is a step of the worker: an address in the
  job's list belongs to a process that was started.  Nothing is assumed of crashes and
  of file operations that fail.
* DriverService: the same for each run (its connection's task, then the spawned one),
  each client's polling loop and each worker.  Submissions, restarts and the master are
  not counted on, nor that a client stays.
* Graph500: weak fairness of the tasks of the jobs taken together and of those of
  the workers taken together: the runtime polls some task that can go on.  More
  is not needed, as no task takes steps for ever.  A worker that is scheduled late
  is one whose driver may give up first (`ConnectFails`).  Nothing is assumed of
  clients, of reads or of the handlers.
* Master and CheckpointJob state only safety and assume no fairness.

## 5. What is proved

Every theorem is of the form `Spec => []Inv`, `Spec => [][A]_vars` or, for a
refinement, `Spec => Abstract!Spec`, for every value of the constants, and names a
property that a run checks; in brackets below, the hypotheses of those that have any.  The proofs all have one shape: an invariant that
`Init` establishes and every action keeps, one lemma or step per action, and that
implies the property; for a refinement, that with it every step is one of the
abstract specification or a stutter.

| module | theorem | property |
|---|---|---|
| `CheckpointJobProofs` | `TypeCorrect`, `PublishedAlwaysComplete` | `TypeOK`, `PublishedComplete` |
| | `SnapshotExact`, `RecoveryExact`, `ResultsExact` (WCC) | `PublishedPristine`, `RecoveredExact`, `ResultExactUnlessReopened` |
| `ClusterProofs` | `FailureHasCause`, `RoundsAligned` | `FailsOnlyForCause`, `SuperstepsAligned` |
| | `TypeCorrect` (`OwnTypes`) | `TypeOK` |
| `ClusterDataProofs` | `ResultsComplete`, `CheckpointsAreCuts` (`OwnData`) | `ResultComplete`, `PublishedIsCut` |
| | `Refinement` (`OwnRun`) | `ImplementsBsp` |
| `LocalGraphProofs` | `Refinement` (`OrderFree`) | `LocalImplementsBsp` |
| | `Labels`, `Typing` | `LabelsExact`, `TypeOK` |
| | `Conservation` (`EqualRanks`, `[]DivisionsExact`) | `RanksConserved` |
| `MasterProofs` | `TypeCorrect`, `DeadForgotten` | `TypeOK`, `ForgetsTheDead` |
| | `LivingListed` (`Prompt`) | `ListsTheLiving` |
| `DriverServiceProofs` | `TypeCorrect`, `OwnAnswers`, `RunningAccounted`, `NoCircularWait` | `TypeOK`, `AnswersOwn`, `RunningIsAccounted`, `WaitsUpward` |
| `Graph500Proofs` | `TypeCorrect`, `SuccessIsVerified`, `FailureHasCause`, `RequestsWhole` | `TypeOK`, `SucceededVerified`, `FailsOnlyForCause`, `HandledAsSent` |

### The arguments

**CheckpointJob.**  The core of `TypeCorrect` is that every database, open or in a
checkpoint, stays the partition that was loaded into its worker.
`PublishedComplete` is not inductive alone: `FilesInv` says how far the files of
the checkpoint in the making have got in each phase of the scheduler; in "inboxes"
all directories exist, in "truncate" and "latest" also the inboxes.
`PublishedPristine` and `RecoveredExact` need each other, and `SavedExact`: the
files of the checkpoint in the making hold the running attempt's state.
`WccRound` is the fact about the program they rest on, that a round of WCC depends
on stores and messages alone; it is false of PageRank, whose teleport is lost in a
recovery (finding 3), and the hypothesis `Algorithm = "wcc"` is there for it.  The
restriction `NoReopen` inside the properties is finding 1.  `ResultsExact` needs in
addition that the uninterrupted run stays where it is once it has fallen silent
(`RefSettled`): a recovery may find its budget or its messages spent and end
later than that run.

**Cluster, which frames there are** (`ClusterProofs`).  `TalkOK` says for each
worker what may be on its connection, by the phase and turn of the driver.  A
worker the driver owes nothing to is idle: no question for it, no answer from it.
A worker the driver waits for was asked (its last frame is the question of this
phase, no other is one) or has answered (what is on the way is the answer of this
phase, and a last batch is really the last).  This gives `FailsOnlyForCause`: a
driver cannot find a frame of another kind; an `Error` is on its way only in the phases
whose handlers answer one, from a worker whose checkpoint directory was there when the job
began or that is in `faulty`.  A dead worker stays in the
invariant, as what it sent before may still be read.  `WorkerOK` adds for
each worker what is buffered, what is on its way to it and what it computed last:
in a round buffer and batches together are its inbox, and an algorithm is set or
will be by a frame before the batches.  `RoundsAligned` reads off it that a
superstep starts on the whole inbox.  `TypeCorrect` needs `TypeInv`, which types the
contents of each kind of frame as `TypeOK` types the variables, finiteness of stores
and mail (degrees are cardinalities), integer values, and which phases occur: that
`iteration` stays within the budget hangs on the phases in which it does not grow, and
that no streaming job makes a checkpoint.

**Cluster, what is in them** (`ClusterDataProofs`).  `DataInv` compares each
worker's store with `Value`, the worker's part of what the last completed round
left.  After loading, a worker's store is right, or the worker has not been heard
of since its `LoadGraph` was sent, which has no answer: then the frame is still in
front of it or it died.  It cannot be left out: a worker may die before it loads
its part, and only the next answer it owes shows that.  Right means `Value`, or,
for one that has computed the superstep of the round already, a map over the right
vertices.  The driver ends a round only with the answers of all, so nobody is
missing when `committed` is read off the stores.  While a graph is streamed every
vertex is in the driver's buffers, in the one batch on its way, or stored.
Answers hold `Value`; between the first answer to `CreateCheckpoint` and the
publishing, images of the answered are `Value`.  `DriverMoves` sums up a step of
the driver by phases, so that its 20 actions are gone through once and
not once per worker and conjunct.

**Cluster implements Bsp** (`ClusterDataProofs`, second part).  A superstep of Bsp
happens when `superstep_round` returns; what the proof has to show is that by then
the workers have done all of it together, and nothing else.  `Result` and
`Messages` say what the superstep of the round must make of each vertex and of each
worker's edges, from `committed` and the driver's `mail`, whoever computes it and
when.  `EdgeInv` says that a worker that computes has every edge of its partition
once: what it found in its directory is replaced by what it loads, a streamed edge
is with the driver, in the batch on its way, or stored, and never in two places
(an edge stored twice would count in a PageRank's degree).  `RoundInv` says of a
worker that has computed (`Done`) that its values are `Result`, and that each of
its `Messages` is in its outbox, in a batch on its way, or in the driver's next
inboxes, unless the connection was cut, in which case its last batch never comes
and the round never ends; and, conversely, that the driver's next inboxes hold
nothing but such messages (`Gathered`).  `ComputeRight` is the heart: a worker with
its part of the edges and its part of the mail computes its part of the whole
superstep.  For PageRank that takes the teleport, which each worker takes from the
first rank of its own partition: `TeleportOK` says that it is not known yet or that
of the whole graph (`Share`), which equal ranks make the same.  Messages are on
stored edges, those of Bsp on the edges of the input; that sums and least values are
the same over both is `SumRenamed`, for which a sum is shown not to depend on the order
it is taken in.  All other steps stutter, but for the one that finds the budget
spent; a recovery stutters, because Bsp as the job implements it begins where the
checkpoint is (`Unrecovered`).

**LocalGraph.**  `ProgressInv` compares a superstep under way with the one the
sequential program makes of what was there when it began: what was visited has its
new value, its messages are gone from the inboxes and those it sent are in the
outboxes, and all the rest is untouched.  A visit that reads a value updated in
place in the same superstep, or a message of it, would break it.  `ShareInv`
says that a function object knows the teleport once it has visited a vertex.  When
everything is visited the outboxes are those of `ProcessSuperstep`
(`SuperstepDone`), so `Exchange` is a superstep of Bsp and all else a stutter.
`LabelInv` adds to the labels that an edge along which nothing was sent has a
source whose label did not change in the last superstep: no message is missing
where none was sent.  That least ids over at most k edges follow from those over
k - 1 takes both ways of taking `SourcesWithin` apart, at its first and at its
last edge.  `RankInv` says of a closed graph, where every vertex has an out-edge and
every edge a target, that the loaded sum is still there and that every vertex has
put an equal part of its rank on each of its out-edges.  What is received along all
edges is then counted twice, by target and by source (`AllReceived`, from
`SumByGroups`: a sum may be taken group by group), and is the sum of the ranks; half
of it and half of what was loaded make the next one.

**Master.**  `Living(w)` is the heart: the entry of a worker that sends heartbeats is
at most `Gap(w)`, a period for each heartbeat lost and one more, behind the time its next
heartbeat is due, and another period as long as the heartbeat that began the current
one is on its way.  With clocks read before locks and messages overtaking each
other that bounds an entry's age by `Gap(w) + Delay`, whatever the numbers are, and
`LivingIsFresh` is arithmetic.  That no older heartbeat is still on its way then is where
`Prompt` is needed: without it a late one could overwrite the entry of a later
one.  `DeadInv` bounds what may still arrive of the dead, and needs no such thing.

**DriverService.**  `QueueInv` says where the connections of a job can be: one
waiting at most, at the worker the job is at; workers that serve it come before
that in its list.  As the list is ascending (`SortedAscends`, from the library's facts on
cardinalities and injections), `WaitsUpward` follows, and it is what excludes a
circle: the least worker of the circle would be waited for by a job that holds a
greater one.  `RecordInv` says whose result an entry may hold, although the
task of an earlier submission writes into whatever entry is under its id: `EndedInv`, that
it is of no run that had ended when the entry was made, as a run writes once; `OwnInv`,
that the entry of a submission that is alone under its id is its own run's.

**Graph500.**  `TaskInv` counts what a job has reported against the algorithms it
was submitted for; `NameInv` and `StartedInv` say which workers exist for each item
of a job; `PortInv` and `ServiceInv` say, unless a port was handed out twice, that
the workers of a job are connected to nobody but their driver, which
`FailsOnlyForCause` needs; `HttpInv` follows a request through its reads: a header that
was read whole kept the limit, and one that was turned away for it was measured with what
one read may bring beyond it.

### The assumptions

Assumptions on constants are declared where the constants are and evaluated by
TLC in every run.  Those that carry weight:

* `InputAssumption` (CheckpointJob) and `PartAssumption` (Driver): every vertex, and
  every source of an edge, has a partition among the workers (`partition_of` is a
  remainder by their number), ids are natural numbers, and the vertices of an input
  are a map from ids to values.  With no worker this leaves
  the empty input; a job without workers on another input is the hazard at
  `distributed/driver.rs:160`.
* `StreamingAssumption` (Driver): jobs of the Graph500 runner, which stream, ask for
  no checkpoints, as `bin/geaflow-graph500.rs` fills their `JobSpec`.
* `StartsAssumption` (Cluster): what `checkpoint_latest.json` says is a number.
* `InputAssumption` (Driver): the input is finite, its ids are natural numbers, its
  values integers, its edges records of a source, a target and a key.
* `OwnData` is no assumption of the module but a hypothesis of the first two theorems of
  `ClusterDataProofs`: the job finds its own data.  A worker's directory holds
  vertices of that worker's partition only, and a checkpoint to recover from was
  made by as many workers and holds a value for every vertex of each.  The code checks
  none of it; without it the theorems are false (finding 4 for the workers; a
  state directory of another graph for the rest, section 6).
* `OwnTypes` is the hypothesis of `TypeCorrect` of `ClusterProofs`: vertices and edges
  in the directories a job finds are of its worker's partition, messages of the latest
  checkpoint go along edges of the input, and neither it nor a directory is of a
  superstep beyond the budget.  It is about types alone; nothing is assumed of which
  supersteps they are of.  The code does not check it, and a job submitted again with a
  smaller budget is an example of what it leaves out: then the job ends without a round.
* `CrashesAssumption` (Cluster): the bounds on crashes and on faults are numbers.
* `OwnRun` is the hypothesis of `Refinement`: `OwnData`; edges left in a worker's
  directory are under keys that its load writes again, as those of an earlier load of
  the same partition in one frame are; PageRank is loaded with equal ranks and is
  not resumed (finding 3, and the hazard of unequal ranks); and the latest checkpoint
  is where the sequential program is after as many supersteps.  The last is what
  `Refinement` and `CheckpointsAreCuts` show of the run that wrote it, so that a
  chain of attempts is covered one attempt at a time, as long as no checkpoint is
  opened twice (finding 1).  `MCCluster` has TLC evaluate it, with `OwnData` and
  `OwnTypes`, for all of its starts but that of finding 4.
* `TimingAssumption` (Master): period, delay and time to live are numbers, the period
  not 0.  Nothing in the code relates them to each other.
* `Prompt` is the hypothesis of `LivingListed` alone: a message that is not lost takes
  less than a period.
* `HttpAssumption` (HttpServer), `MetaAssumption`, `JobsAssumption` and
  `RequestAssumption` (Graph500): the types of limits and bounds, of what the files of a
  dataset may be, and of what a request's fields hold.
* `GraphsAssumption` (LocalGraph): a graph in memory has finitely many vertices and
  edges, under ids that are numbers.
* `OrderFree` is the hypothesis of the refinement of LocalGraph: the program is WCC,
  or all ranks are loaded equal and positive, as the callers load them.  Without it
  the teleport of PageRank depends on the vertex that is visited first.
* `DivisionsExact` is a hypothesis on runs, of `Conservation` alone: on a closed graph
  no rank leaves a remainder when it is divided by the out-degree or halved.  The
  model divides integers where the code divides `f64`, so the theorem is about the
  code up to its rounding.  TLC finds it true in every state of the instance of
  `local_pagerank`, whose ranks are multiples of enough powers of two.
* `RefAssumption` (CheckpointJob): `Ref` is the uninterrupted run; `MCCheckpointJob`
  constructs it.

Induction is over sets: `LeastNat` (a set of numbers has a least element) is the
library's well-foundedness of `<`, and `IntervalInduction`, `NumberInduction` (over
a set of numbers) and `SubsetInduction` (over the subsets of a finite set) follow
from it.  They give the type of a sum, and that the recursive function in
`SourcesWithin` exists, is unique and has its defining equations.

### Only model-checked

* All liveness, under the fairness of section 4, and `WorkersLetGo` of Graph500,
  which is about what is ENABLED.

Every other property of a passing run is stated by a theorem.

## 6. Findings

Each is a run that TLC refutes, with the quoted document in `PROJECT.json`.

1. `checkpoint_reopened`: a recovered run works *inside* the checkpoint it
   recovered from.  A second recovery from it starts from later values with the
   old messages in flight, and WCC can end with wrong labels.
2. `checkpoint_stuck`: a checkpoint directory of an attempt that died before
   publishing it makes every later attempt fail at the same superstep.  A driver
   that dies while it rewrites `checkpoint_latest.json`, in place, has the same
   effect on the job: the file cannot be read although complete checkpoints exist.
3. `checkpoint_teleport`: PageRank recovered once returns other ranks, because
   the teleport is not part of a checkpoint.
4. `cluster_rescaled`: nothing records how many workers a checkpoint was made by.
   Recovered on fewer, the job succeeds and its result lacks vertices; recovered
   on more, the driver waits for ever for results of workers that it sent nothing.

Some more behaviours are kept as hazards without a run, as no document says what
should happen.  With unequal ranks in the input PageRank depends on how vertices
are divided among workers, because each takes its teleport from its own
partition; a job with an empty worker list succeeds with an empty result
(`N = 0`); a worker started on the state directory of a job on another graph
returns that one's vertices too; a job submitted again while it runs, and then
refused because the master is gone, is listed as running for ever and its first
client polls for ever; so is a job whose client is gone when `JobAccepted` is sent,
though no run was spawned for it; a job that names 'pr' and 'pagerank' runs PageRank
twice in the same directories, and the second run may find them still open; a port handed out twice may leave two jobs of the
Graph500 service waiting for ever; and `serve_http` takes one read for a request.

## 7. Plan

Done, in this order: VertexProgram and Bsp; CheckpointJob and its first theorems;
Protocol, Worker, Driver, Cluster; LocalGraph; Master; DriverService; the graph
state, checkpoints and recovery in Cluster; HttpServer and Graph500; submissions
under one id at the same time in DriverService; the proofs of section 5.  What is left
is what TLAPS cannot state: liveness, and what is ENABLED.

## 8. Not modelled

* Floating-point rounding: ranks are exact fixed-point numbers.
* Frame sizes (the 8 MB limit of the codec) and encodings; a frame arrives whole
  or not at all.
* The hash of `partition_of`: a constant function from ids to workers, arbitrary
  in the proofs.
* Parsing of files (`io/file.rs`, `io/socket.rs`): their result is the constant
  `Input`.  They do not change while a job runs.
* `serve_http` and the endpoints of the master and driver binaries: read-only
  listings.  The command line of the Graph500 binary, its unpacking of archives and
  the comparison with truth files: sequential I/O; for which parameters the two agree is
  a constant of Graph500.  `ExecutionPlan`: printed only.  Streams, pipelines and API traits: no state between calls.
  Metrics and tracing.
* `load_graph500_streaming_generated_vertices`, which counts vertex ids up instead of
  reading them: nothing calls it.
* Running out of ports: `free_local_addr` finds one.
* The unbatched `Superstep` message, which no driver sends.
