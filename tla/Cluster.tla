------------------------------- MODULE Cluster -------------------------------
(***************************************************************************)
(* One job on a driver and its workers, with processes that die at any     *)
(* point: Driver and Worker composed over the connections of Protocol.     *)
(***************************************************************************)
EXTENDS Driver, Worker

CONSTANTS
    Starts,      \* what a job may find on the disks: [saved, images], the latest
                 \* checkpoint and the directories of all workers of its job
    MaxCrashes,  \* bound on the number of processes that die
    MaxFaults    \* bound on the number of workers whose files fail

ASSUME StartsAssumption ==
  \A s \in Starts : s.saved.iteration \in Nat /\ s.saved.inboxes.count \in Nat
ASSUME CrashesAssumption == MaxCrashes \in Nat /\ MaxFaults \in Nat

IsMap(f) == f = [x \in DOMAIN f |-> f[x]]

(* Which jobs the values returned are claimed for: what a worker finds in  *)
(* its state_dir are vertices of its partition, and a latest checkpoint    *)
(* was made by this job on as many workers, all of which have their part   *)
(* of it.  (CycleScheduler and the workers check neither.)                 *)
OwnData ==
  /\ \A w \in Worker :
       /\ IsMap(Leftover[w].vertices)
       /\ DOMAIN Leftover[w].vertices \subseteq DOMAIN PartitionOf(w).vertices
  /\ \A s \in Starts :
       /\ s.saved.inboxes = OwnInboxes
       /\ Interval > 0 /\ s.saved.iteration > 0 =>
            \A w \in Worker :
              /\ w \in DOMAIN s.images
              /\ s.saved.iteration \in DOMAIN s.images[w]
              /\ LET db == s.images[w][s.saved.iteration]
                 IN  /\ IsMap(db.vertices)
                     /\ DOMAIN db.vertices = DOMAIN PartitionOf(w).vertices

VARIABLES
    crashes,    \* number of processes that died
    faulty,     \* history: the workers one of whose file operations failed
    found,      \* history: the checkpoint directories when the job began
    committed   \* history: all vertices as of the last completed round

clusterVars == <<crashes, faulty, found, committed>>
vars == <<channels, driverAlive, workerState, driverVars, workerVars, clusterVars>>

Init ==
  /\ toWorker = [w \in Worker |-> << >>]
  /\ toDriver = [w \in Worker |-> << >>]
  /\ DriverInit
  /\ WorkerInit
  /\ crashes = 0
  /\ faulty = {}
  /\ \E s \in Starts :
       /\ saved = s.saved
       /\ images = [w \in Worker |-> IF w \in DOMAIN s.images THEN s.images[w]
                                                             ELSE << >>]
       /\ found = [w \in Worker |-> DOMAIN images[w]]
       /\ committed =
            IF Interval = 0 \/ s.saved.iteration = 0 THEN Input.vertices
            ELSE [v \in DOMAIN Input.vertices |->
                    LET w == s.saved.inboxes.part[v]
                    IN  s.images[w][s.saved.iteration].vertices[v]]

(* A driver step; a round that ends commits what the workers have stored. *)
DriverActs ==
  /\ DriverStep
  /\ committed' = IF phase = "receive" /\ turn > N
                    THEN [v \in DOMAIN committed |->
                            IF /\ Part[v] \in Worker
                               /\ v \in DOMAIN store[Part[v]].vertices
                              THEN store[Part[v]].vertices[v]
                              ELSE committed[v]]
                    ELSE committed
  /\ UNCHANGED <<workerVars, crashes, faulty, found>>

WorkerActs(w) ==
  /\ WorkerStep(w)
  /\ UNCHANGED <<driverVars, clusterVars>>

(* A file operation fails and the worker says so.                          *)
WorkerFaults(w) ==
  /\ Cardinality(faulty) < MaxFaults
  /\ FileFails(w)
  /\ faulty' = faulty \cup {w}
  /\ UNCHANGED <<driverVars, crashes, found, committed>>

(* A worker process dies, be it because a handler that does not answer an  *)
(* error with Error returned one.  Of the frames it had sent, the driver   *)
(* still receives some prefix.                                             *)
WorkerCrash(w) ==
  /\ crashes < MaxCrashes
  /\ workerState[w] # "exited"
  /\ crashes' = crashes + 1
  /\ workerState' = [workerState EXCEPT ![w] = "exited"]
  /\ toWorker' = [toWorker EXCEPT ![w] = << >>]
  /\ \E n \in 0 .. Len(toDriver[w]) :
       toDriver' = [toDriver EXCEPT ![w] = SubSeq(@, 1, n)]
  /\ UNCHANGED <<driverAlive, driverVars, workerVars, faulty, found, committed>>

(* The driver process dies, or run_job returns an error of the driver's    *)
(* own files: input, inboxes.bin, latest.json.                             *)
DriverCrash ==
  /\ driverAlive
  /\ phase # "done"
  /\ crashes < MaxCrashes
  /\ crashes' = crashes + 1
  /\ driverAlive' = FALSE
  /\ UNCHANGED <<channels, workerState, driverVars, workerVars, faulty, found,
                 committed>>

Next ==
  \/ DriverActs
  \/ \E w \in Worker : WorkerActs(w) \/ WorkerFaults(w) \/ WorkerCrash(w)
  \/ DriverCrash

(* The processes keep running until they end or die: tokio polls a task    *)
(* that can make progress.  Nothing is assumed of crashes and faults.      *)
Fairness ==
  /\ WF_vars(DriverActs)
  /\ \A w \in Worker : WF_vars(WorkerActs(w))

Spec == Init /\ [][Next]_vars /\ Fairness

----------------------------------------------------------------------------
(* A stored edge as it is in the input. *)
Plain(e) == [src |-> e.src, dst |-> e.dst, key |-> e.key]

IsMail(m) ==
  /\ {Plain(e) : e \in DOMAIN m} \subseteq Input.edges
  /\ \A e \in DOMAIN m : m[e] \in Int

(* A database of integer values and edges of w's partition. *)
IsPart(db, w) ==
  /\ DOMAIN db.vertices \subseteq DOMAIN PartitionOf(w).vertices
  /\ \A v \in DOMAIN db.vertices : db.vertices[v] \in Int
  /\ IsFiniteSet(db.edges)
  /\ {Plain(e) : e \in db.edges} \subseteq PartitionOf(w).edges

(* What a job finds on the disks is of its own partitions and budget.      *)
OwnTypes ==
  /\ \A w \in Worker : IsPart(Leftover[w], w)
  /\ \A s \in Starts :
       /\ s.saved.iteration \in 0 .. MaxIterations
       /\ IsMail(s.saved.mail) /\ IsFiniteSet(DOMAIN s.saved.mail)
       /\ \A w \in Worker \cap DOMAIN s.images :
            /\ DOMAIN s.images[w] \subseteq 1 .. MaxIterations
            /\ \A k \in DOMAIN s.images[w] : IsPart(s.images[w][k], w)

TypeOK ==
  /\ \A w \in Worker :
       /\ Len(toWorker[w]) <= Capacity /\ Len(toDriver[w]) <= Capacity
       /\ \A f \in Range(toWorker[w]) : f.type \in DriverToWorker
       /\ \A f \in Range(toDriver[w]) : f.type \in WorkerToDriver
  /\ driverAlive \in BOOLEAN
  /\ workerState \in [Worker -> {"down", "listening", "accepted", "serving",
                                 "emitting", "exited"}]
  /\ phase \in DOMAIN Successor \cup DOMAIN Expected
                \cup {"stream", "round", "done"}
  /\ saved.iteration \in 0 .. MaxIterations
  /\ turn \in 1 .. (N + 1)
  /\ iteration \in 1 .. (MaxIterations + 1)
  /\ IsMail(mail) /\ IsMail(unsent) /\ IsMail(nextMail)
  /\ DOMAIN unloaded.vertices \subseteq DOMAIN Input.vertices
  /\ unloaded.edges \subseteq Input.edges
  /\ DOMAIN result \subseteq DOMAIN Input.vertices
  /\ \A w \in Worker :
       /\ DOMAIN store[w].vertices \subseteq DOMAIN PartitionOf(w).vertices
       /\ {Plain(e) : e \in store[w].edges} \subseteq PartitionOf(w).edges
       /\ DOMAIN images[w] \subseteq 1 .. MaxIterations
       /\ pendingIteration[w] \in 0 .. MaxIterations
       /\ IsMail(pendingInbox[w]) /\ IsMail(outbox[w])
       /\ computed[w] \in 0 .. MaxIterations
  /\ algorithmSet \in [Worker -> BOOLEAN]
  /\ teleport \in [Worker -> Int]
  /\ crashes \in 0 .. MaxCrashes
  /\ faulty \subseteq Worker

(* Bulk-synchronous execution: when a worker computes a superstep, it is   *)
(* the one the driver is at, no worker has still to compute an earlier     *)
(* one, and its inbox is everything the last round sent to its partition,  *)
(* however it was cut into batches and whatever was buffered.              *)
SuperstepsAligned ==
  [][ \A w \in Worker :
        workerState[w] = "serving" /\ workerState'[w] = "emitting" =>
        /\ computed'[w] = iteration
        /\ \A u \in Worker : computed[u] \in {iteration - 1, iteration}
        /\ Assembled(w, Head(toWorker[w])) = RouteTo(mail, inboxes.part, w) ]_vars

(* The driver gives up only for a reason: a process died, a worker was not *)
(* there to connect to, the directory for the checkpoint was there at the  *)
(* worker it was hearing, or a file operation of that worker failed, in    *)
(* this very call.  It never finds an answer of the wrong kind on a        *)
(* connection, and no error is left there for a later call to trip over.   *)
FailsOnlyForCause ==
  ~driverAlive =>
    \/ crashes > 0
    \/ phase = "connect"
    \/ phase = "checkpointed" /\ iteration - 1 \in found[turn]
    \/ phase \in {"restored", "checkpointed", "dumped"} /\ turn \in faulty

(* What latest.json names is the job after that many supersteps, all of    *)
(* it: when it is written every worker has its values of that superstep,   *)
(* and no later ones, in its directory, and nothing that was sent in it is *)
(* on its way any more (create_checkpoint_all and run).                    *)
PublishedIsCut ==
  [][ saved' # saved =>
        \A w \in Worker :
          /\ saved'.iteration \in DOMAIN images[w]
          /\ images[w][saved'.iteration].vertices =
               Restrict(committed, DOMAIN PartitionOf(w).vertices)
          /\ outbox[w] = NoMail /\ toDriver[w] = << >> ]_vars

(* What the job returns are the values of all vertices of the input after  *)
(* its last superstep.                                                     *)
ResultComplete == phase = "done" => result = committed

(* The job as seen by its user is the sequential program of Bsp: dividing  *)
(* the graph among workers, batching, buffering and crashes do not show,   *)
(* except that the job may fail.  A superstep happens when its round ends. *)
(* A job that recovers goes on where its checkpoint was made.              *)
Unrecovered ==
  /\ Interval > 0 /\ saved.iteration > 0
  /\ phase \in {"connect", "handshake", "load", "algorithm", "restore", "restored"}

PlainMail(m) ==
  [e \in {Plain(x) : x \in DOMAIN m} |-> m[CHOOSE x \in DOMAIN m : Plain(x) = e]]

BspTeleport ==
  IF Algorithm = "wcc" \/ iteration = 1
    THEN NoTeleport
    ELSE TeleportAt(Input.vertices, NoTeleport, Max(DOMAIN Input.vertices))

Abstract ==
  INSTANCE Bsp WITH
    Graphs    <- {Input},
    graph     <- Input,
    db        <- [vertices |-> committed, edges |-> Input.edges],
    teleport  <- BspTeleport,
    mail      <- PlainMail(IF Unrecovered THEN saved.mail ELSE mail),
    iteration <- IF Unrecovered THEN saved.iteration + 1 ELSE iteration,
    status    <- IF \/ phase \in {"fetch", "collect", "dump", "dumped",
                                "shutdown", "done"}
                    \/ phase \in {"checkpoint", "checkpointed"} /\ mail = NoMail
                   THEN "finished" ELSE "running"

ImplementsBsp == Abstract!ResumedSpec

(* What a worker stores of its partition: every edge of it once. *)
HoldsEdges(edges, w) ==
  /\ {Plain(e) : e \in edges} = PartitionOf(w).edges
  /\ \A d, e \in edges : Plain(d) = Plain(e) => d = e

(* Which jobs are claimed to be the sequential program: edges in a         *)
(* state_dir are those of an earlier load of the same partition, which     *)
(* this load replaces; PageRank is loaded with equal ranks, each worker    *)
(* taking its teleport from the first one it meets, and is not taken up    *)
(* again; a latest checkpoint is where the sequential program is then.     *)
EqualRanks ==
  \A u, v \in DOMAIN Input.vertices :
    Input.vertices[v] > 0 /\ Input.vertices[u] = Input.vertices[v]

OwnRun ==
  /\ OwnData
  /\ \A w \in Worker : \A e \in Leftover[w].edges :
       /\ ~Streaming
       /\ \E f \in PutEdges({}, PartitionOf(w).edges, 1) : f.src = e.src /\ f.at = e.at
  /\ Algorithm = "pagerank" => EqualRanks
  /\ \A s \in Starts :
       LET k == s.saved.iteration
       IN  Interval > 0 /\ k > 0 =>
             /\ Algorithm = "wcc" /\ k <= MaxIterations
             /\ IsMap(s.saved.mail) /\ IsMail(s.saved.mail)
             /\ \A d, e \in DOMAIN s.saved.mail : Plain(d) = Plain(e) => d = e
             /\ \A w \in Worker :
                  /\ HoldsEdges(s.images[w][k].edges, w)
                  /\ \A v \in DOMAIN PartitionOf(w).vertices :
                       s.images[w][k].vertices[v] \in Int
             /\ Abstract!After(Input, k) =
                  [ db       |-> [ vertices |-> [v \in DOMAIN Input.vertices |->
                                     s.images[Part[v]][k].vertices[v]],
                                   edges    |-> Input.edges ],
                    outbox   |-> PlainMail(s.saved.mail),
                    teleport |-> NoTeleport ]

(* A job ends, with a result or with an error: a worker that dies in any   *)
(* state, and buffers of any size, never leave the driver waiting.         *)
FailFast == <>(phase = "done" \/ ~driverAlive)

(* When the job has ended, no worker that ever talked to the driver is     *)
(* left behind.                                                            *)
WorkersReleased ==
  \A w \in Worker :
    phase = "done" \/ ~driverAlive
      ~> workerState[w] \in {"listening", "exited"}

============================================================================
