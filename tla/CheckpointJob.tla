--------------------------- MODULE CheckpointJob ---------------------------
(***************************************************************************)
(* One job id submitted again and again: CycleScheduler::run with its      *)
(* checkpoints, the workers' RocksDB directories, and the files below      *)
(* <base_dir>/<job_id>.  An attempt is one call of                         *)
(* DistributedDriver::run_job; it may fail or be killed at any point, and  *)
(* the next attempt starts with fresh driver and worker processes on the   *)
(* same files.                                                             *)
(*                                                                         *)
(* A superstep round is one step here; what happens inside it is the       *)
(* subject of Cluster.  A round that fails leaves the stores of an         *)
(* arbitrary set of workers already updated.  Work still queued at a       *)
(* worker when its driver dies is counted as done at that moment or never. *)
(***************************************************************************)
EXTENDS VertexProgram

CONSTANTS
    Worker,         \* the workers, the same in every attempt
    Part,           \* partition_of: id -> worker
    Input,          \* the job's graph: [vertices, edges]
    Interval,       \* checkpoint.interval_iters; 0 when not enabled
    MaxIterations,  \* the iteration budget of the job's AlgorithmSpec
    MaxAttempts,    \* bound on the number of submissions
    Ref,            \* the uninterrupted run: Ref[k] is the state after superstep k
    NoResult        \* no attempt has returned a result

ASSUME WorkerAssumption == IsFiniteSet(Worker) /\ Worker # {}
ASSUME BoundsAssumption ==
  /\ Interval \in Nat
  /\ MaxIterations \in Nat
  /\ MaxAttempts \in Nat
ASSUME InputAssumption ==
  /\ \A v \in DOMAIN Input.vertices : v \in Nat /\ Part[v] \in Worker
  /\ \A e \in Input.edges : Part[e.src] \in Worker

Iteration == 1 .. MaxIterations

(* Values of `latest` other than the iteration it names. *)
None == 0
Torn == -1

(* What load_graph sends to w, as w's database after LoadGraph. *)
Loaded(w) ==
  [ vertices |-> Restrict(Input.vertices,
                          {v \in DOMAIN Input.vertices : Part[v] = w}),
    edges    |-> {e \in Input.edges : Part[e.src] = w} ]

(* superstep_round: every worker runs the superstep on its partition with  *)
(* the messages routed to it; the next inboxes are all their messages.     *)
Round(s, k) ==
  LET r == [w \in Worker |->
              ProcessSuperstep(s.db[w], RouteTo(s.mail, Part, w),
                               s.teleport[w], k)]
      sent == UNION {DOMAIN r[w].outbox : w \in Worker}
  IN  [ db       |-> [w \in Worker |-> r[w].db],
        mail     |-> [e \in sent |-> r[Part[e.src]].outbox[e]],
        teleport |-> [w \in Worker |-> r[w].teleport] ]

(* The reference run is a constant, not a recursive definition, so that    *)
(* the theorems of CheckpointJobProofs can use its defining equations.     *)
ASSUME RefAssumption ==
  /\ Ref[0] = [ db       |-> [w \in Worker |-> Loaded(w)],
                mail     |-> NoMail,
                teleport |-> [w \in Worker |-> NoTeleport] ]
  /\ \A k \in Iteration : Ref[k] = Round(Ref[k-1], k)

VARIABLES
    phase,      \* where CycleScheduler::run is; "idle" between attempts
    attempt,    \* number of submissions so far
    executed,   \* supersteps executed, those before a recovery included
    mail,       \* the driver's inboxes
    teleport,   \* per worker, PageRankAlgorithm::teleport
    acked,      \* workers whose CheckpointCreated the driver waits for no more
    home,       \* per worker, the database in its own state_dir
    live,       \* the directory the workers' open databases are in: None for
                \* state_dir, k for the one below cp_k
    cp,         \* cp[k][w]: the directory cp_k/worker_w, if there is one
    inboxFile,  \* inboxFile[k]: cp_k/inboxes.bin, if there is one
    latest,     \* checkpoint_latest.json: None, Torn, or the iteration it names
    result,     \* what the last attempt returned
    opens       \* history: how often cp_k was opened by LoadCheckpoint

volatile == <<phase, executed, mail, teleport, acked, live>>
disk == <<home, cp, inboxFile, latest>>
vars == <<volatile, disk, attempt, result, opens>>

Init ==
  /\ phase = "idle"
  /\ attempt = 0
  /\ executed = 0
  /\ mail = NoMail
  /\ teleport = [w \in Worker |-> NoTeleport]
  /\ acked = {}
  /\ home = [w \in Worker |-> Loaded(w)]
  /\ live = None
  /\ cp = [k \in Iteration |-> << >>]
  /\ inboxFile = << >>
  /\ latest = None
  /\ result = NoResult
  /\ opens = [k \in Iteration |-> 0]

(* f with the value b at a. *)
Extend(f, a, b) == [x \in DOMAIN f \cup {a} |-> IF x = a THEN b ELSE f[x]]

(* Mutant of Open: checkpoint paths without the worker's index. *)
OpenSharedPath(w) ==
  IF live = None THEN home[w] ELSE cp[live][CHOOSE u \in Worker : TRUE]

(* The database worker w has open. *)
Open(w) == IF live = None THEN home[w] ELSE cp[live][w]

(* What the running attempt holds, in the shape of Ref. *)
Now == [ db |-> [w \in Worker |-> Open(w)], mail |-> mail, teleport |-> teleport ]

(* put_vertex_batch at the workers in S: into the open database, wherever  *)
(* it is.                                                                  *)
Store(S, db) ==
  /\ home' = IF live = None
               THEN [w \in Worker |-> IF w \in S THEN db[w] ELSE home[w]]
               ELSE home
  /\ cp' = IF live = None
             THEN cp
             ELSE [cp EXCEPT ![live] =
                     [w \in DOMAIN @ |-> IF w \in S THEN db[w] ELSE @[w]]]

----------------------------------------------------------------------------
(* run_job up to the scheduler's loop: load_graph and set_algorithm at     *)
(* fresh workers, then either start at superstep 1 or recover.             *)
Submitted ==
  /\ phase = "idle"
  /\ attempt < MaxAttempts
  /\ attempt' = attempt + 1
  /\ home' = [w \in Worker |-> Loaded(w)]
  /\ teleport' = [w \in Worker |-> NoTeleport]
  /\ result' = NoResult
  /\ UNCHANGED <<acked, cp, inboxFile, latest>>

Start ==
  /\ Submitted
  /\ Interval = 0 \/ latest = None
  /\ phase' = "superstep"
  /\ executed' = 0
  /\ mail' = NoMail
  /\ live' = None
  /\ UNCHANGED opens

(* load_checkpoint_all: every worker opens its directory below cp_k, and   *)
(* that database stays its database.                                       *)
LoadCheckpoint(k) ==
  /\ live' = k
  /\ opens' = [opens EXCEPT ![k] = @ + 1]

(* Mutant of Recover: with fresh inboxes. *)
RecoverWithoutInboxes ==
  /\ Submitted
  /\ Interval > 0
  /\ latest \in Iteration
  /\ phase' = "superstep"
  /\ executed' = latest
  /\ mail' = NoMail
  /\ LoadCheckpoint(latest)

(* load_checkpoint_all and the read of inboxes.bin. *)
Recover ==
  /\ Submitted
  /\ Interval > 0
  /\ latest \in Iteration
  /\ phase' = "superstep"
  /\ executed' = latest
  /\ mail' = inboxFile[latest]
  /\ LoadCheckpoint(latest)

(* read_json of a torn checkpoint_latest.json is an error. *)
RecoverFails ==
  /\ Submitted
  /\ Interval > 0
  /\ latest = Torn
  /\ UNCHANGED <<phase, executed, mail, live, opens>>

----------------------------------------------------------------------------
(* Where the loop continues once iteration k and its checkpoint are done.  *)
AfterIteration(m) == IF m = NoMail THEN "fetch" ELSE "superstep"

CheckpointDue(k) == Interval > 0 /\ k % Interval = 0

Superstep ==
  /\ phase = "superstep"
  /\ executed < MaxIterations
  /\ LET next == Round(Now, executed + 1)
     IN  /\ Store(Worker, next.db)
         /\ mail' = next.mail
         /\ teleport' = next.teleport
         /\ phase' = IF CheckpointDue(executed + 1)
                       THEN "checkpoint" ELSE AfterIteration(next.mail)
  /\ executed' = executed + 1
  /\ acked' = {}
  /\ UNCHANGED <<live, inboxFile, latest, attempt, result, opens>>

(* superstep_round returns an error, or the driver dies inside it: the     *)
(* workers in S had stored their updates.                                  *)
SuperstepFails(S) ==
  /\ phase = "superstep"
  /\ executed < MaxIterations
  /\ Store(S, Round(Now, executed + 1).db)
  /\ phase' = "idle"
  /\ UNCHANGED <<executed, mail, teleport, acked, live, inboxFile, latest,
                 attempt, result, opens>>

BudgetSpent ==
  /\ phase = "superstep"
  /\ executed >= MaxIterations
  /\ phase' = "fetch"
  /\ UNCHANGED <<executed, mail, teleport, acked, live, disk, attempt, result,
                 opens>>

----------------------------------------------------------------------------
(* Mutant of CreateCheckpoint: the driver goes on after the first answer. *)
CreateCheckpointHasty(w) ==
  /\ phase = "checkpoint"
  /\ w \notin DOMAIN cp[executed]
  /\ cp' = [cp EXCEPT ![executed] = Extend(@, w, Open(w))]
  /\ acked' = acked \cup {w}
  /\ phase' = "inboxes"
  /\ UNCHANGED <<executed, mail, teleport, live, home, inboxFile, latest,
                 attempt, result, opens>>

(* CreateCheckpoint at w, and the driver's receipt of CheckpointCreated.   *)
(* RocksDB creates a checkpoint only where no directory exists yet.        *)
CreateCheckpoint(w) ==
  /\ phase = "checkpoint"
  /\ w \notin acked
  /\ w \notin DOMAIN cp[executed]
  /\ cp' = [cp EXCEPT ![executed] = Extend(@, w, Open(w))]
  /\ acked' = acked \cup {w}
  /\ phase' = IF acked' = Worker THEN "inboxes" ELSE phase
  /\ UNCHANGED <<executed, mail, teleport, live, home, inboxFile, latest,
                 attempt, result, opens>>

(* The directory is there, left by an earlier attempt: w answers Error and *)
(* the attempt fails.                                                      *)
CreateCheckpointFails(w) ==
  /\ phase = "checkpoint"
  /\ w \notin acked
  /\ w \in DOMAIN cp[executed]
  /\ phase' = "idle"
  /\ UNCHANGED <<executed, mail, teleport, acked, live, disk, attempt, result,
                 opens>>

(* Mutant of WriteInboxes: the inboxes are written after being drained. *)
WriteInboxesDrained ==
  /\ phase = "inboxes"
  /\ inboxFile' = Extend(inboxFile, executed, NoMail)
  /\ phase' = "truncate"
  /\ UNCHANGED <<executed, mail, teleport, acked, live, home, cp, latest,
                 attempt, result, opens>>

(* inboxes.bin, then checkpoint_k.json, which nothing reads back. *)
WriteInboxes ==
  /\ phase = "inboxes"
  /\ inboxFile' = Extend(inboxFile, executed, mail)
  /\ phase' = "truncate"
  /\ UNCHANGED <<executed, mail, teleport, acked, live, home, cp, latest,
                 attempt, result, opens>>

(* write_json of checkpoint_latest.json is one fs::write: the file is      *)
(* truncated, then filled.                                                 *)
TruncateLatest ==
  /\ phase = "truncate"
  /\ latest' = Torn
  /\ phase' = "latest"
  /\ UNCHANGED <<executed, mail, teleport, acked, live, home, cp, inboxFile,
                 attempt, result, opens>>

WriteLatest ==
  /\ phase = "latest"
  /\ latest' = executed
  /\ phase' = AfterIteration(mail)
  /\ UNCHANGED <<executed, mail, teleport, acked, live, home, cp, inboxFile,
                 attempt, result, opens>>

----------------------------------------------------------------------------
(* Mutant of Finish: the values of the databases in state_dir. *)
FinishFromHome ==
  /\ phase = "fetch"
  /\ result' = [v \in DOMAIN Input.vertices |-> home[Part[v]].vertices[v]]
  /\ phase' = "idle"
  /\ UNCHANGED <<executed, mail, teleport, acked, live, disk, attempt, opens>>

(* fetch_vertices and shutdown: the attempt returns all stored vertices. *)
Finish ==
  /\ phase = "fetch"
  /\ result' = [v \in DOMAIN Input.vertices |-> Open(Part[v]).vertices[v]]
  /\ phase' = "idle"
  /\ UNCHANGED <<executed, mail, teleport, acked, live, disk, attempt, opens>>

(* The driver or a worker dies, or an I/O error ends the attempt. *)
Crash ==
  /\ phase # "idle"
  /\ phase' = "idle"
  /\ UNCHANGED <<executed, mail, teleport, acked, live, disk, attempt, result,
                 opens>>

Next ==
  \/ Start
  \/ Recover
  \/ RecoverFails
  \/ Superstep
  \/ \E S \in SUBSET Worker : SuperstepFails(S)
  \/ BudgetSpent
  \/ \E w \in Worker : CreateCheckpoint(w) \/ CreateCheckpointFails(w)
  \/ WriteInboxes
  \/ TruncateLatest
  \/ WriteLatest
  \/ Finish
  \/ Crash

Spec == Init /\ [][Next]_vars

----------------------------------------------------------------------------
(* db holds exactly the partition of w: its vertices and their out-edges.  *)
IsPartition(db, w) ==
  /\ DOMAIN db = {"vertices", "edges"}
  /\ DOMAIN db.vertices = DOMAIN Loaded(w).vertices
  /\ db.edges = Loaded(w).edges

(* Types, and the shape of what is stored: every database, live or in a    *)
(* checkpoint, stays the partition that was loaded into its worker.        *)
TypeOK ==
  /\ phase \in {"idle", "superstep", "checkpoint", "inboxes", "truncate",
                "latest", "fetch"}
  /\ attempt \in 0 .. MaxAttempts
  /\ executed \in 0 .. MaxIterations
  /\ DOMAIN mail \subseteq Input.edges
  /\ DOMAIN teleport = Worker
  /\ acked \subseteq Worker
  /\ DOMAIN home = Worker
  /\ \A w \in Worker : IsPartition(home[w], w)
  /\ live \in Iteration \cup {None}
  /\ DOMAIN cp = Iteration
  /\ \A k \in Iteration :
       /\ DOMAIN cp[k] \subseteq Worker
       /\ \A w \in DOMAIN cp[k] : IsPartition(cp[k][w], w)
  /\ DOMAIN inboxFile \subseteq Iteration
  /\ \A k \in DOMAIN inboxFile : DOMAIN inboxFile[k] \subseteq Input.edges
  /\ latest \in Iteration \cup {None, Torn}
  /\ opens \in [Iteration -> Nat]

(* Where a file or directory is read, it is there: the iteration named by  *)
(* checkpoint_latest.json has a directory of every worker and its inboxes, *)
(* and so has the one the workers have open.  A recovery never makes a     *)
(* worker open an empty database (open creates a missing one).             *)
Complete(k) ==
  /\ DOMAIN cp[k] = Worker
  /\ k \in DOMAIN inboxFile

PublishedComplete ==
  /\ latest \in Iteration => Complete(latest)
  /\ live # None => Complete(live)

(* Nothing ever writes to a published checkpoint that was not opened: its  *)
(* directories hold what its inboxes belong to.                            *)
Matches(k) ==
  /\ \A w \in Worker : cp[k][w] = Ref[k].db[w]
  /\ inboxFile[k] = Ref[k].mail

NoReopen == \A k \in Iteration : opens[k] <= 1

PublishedPristine ==
  NoReopen /\ latest \in Iteration /\ opens[latest] = 0 => Matches(latest)

(* As long as no checkpoint is opened a second time, a running attempt is, *)
(* after each superstep, exactly where an undisturbed run is: what it      *)
(* recovered and what it computed since, stores and messages in flight.    *)
RecoveredExact ==
  NoReopen /\ phase # "idle" =>
    /\ \A w \in Worker : Open(w) = Ref[executed].db[w]
    /\ mail = Ref[executed].mail

(* An attempt that returns, returns what an undisturbed run of the job     *)
(* returns, after however many crashes and recoveries.                     *)
VerticesOf(db) == [v \in DOMAIN Input.vertices |-> db[Part[v]].vertices[v]]

FinalIteration ==
  Min({MaxIterations} \cup {k \in Iteration : Ref[k].mail = NoMail})

ResultExact ==
  result # NoResult => result = VerticesOf(Ref[FinalIteration].db)

ResultExactUnlessReopened == NoReopen => ResultExact

(* What PublishedComplete and TypeOK rest on: how far the files of the     *)
(* checkpoint being made have got in each phase, and that the directory    *)
(* the workers work in was opened.                                         *)
FilesInv ==
  /\ phase \in {"checkpoint", "inboxes", "truncate", "latest"} =>
       executed \in Iteration
  /\ phase = "checkpoint" => acked \subseteq DOMAIN cp[executed]
  /\ phase \in {"inboxes", "truncate", "latest"} => DOMAIN cp[executed] = Worker
  /\ phase \in {"truncate", "latest"} => executed \in DOMAIN inboxFile
  /\ live # None => opens[live] >= 1

(* What RecoveredExact and PublishedPristine rest on: the files of the     *)
(* checkpoint being made hold the running attempt's state.                 *)
SavedExact ==
  NoReopen =>
    /\ phase = "checkpoint" =>
         \A w \in acked : cp[executed][w] = Ref[executed].db[w]
    /\ phase \in {"inboxes", "truncate", "latest"} =>
         \A w \in Worker : cp[executed][w] = Ref[executed].db[w]
    /\ phase \in {"truncate", "latest"} => inboxFile[executed] = mail

(* A job can be taken up again by submitting it: the file that names its   *)
(* checkpoint can be read, and no directory is in the way of the           *)
(* checkpoints it has still to make (read_json, create_checkpoint).        *)
Resumable ==
  phase = "idle" =>
    /\ latest # Torn
    /\ \A k \in Iteration : CheckpointDue(k) /\ k > latest => DOMAIN cp[k] = {}

============================================================================
