------------------------------- MODULE Driver -------------------------------
(***************************************************************************)
(* A DistributedDriver with the loop of CycleScheduler::run: connect, load *)
(* the graph, set_algorithm, recover from the latest checkpoint if there   *)
(* is one, superstep_round until nothing is sent or the budget is spent,   *)
(* with a checkpoint every Interval rounds, collect the result, shutdown.  *)
(* run_job loads with load_graph and collects with fetch_vertices; the     *)
(* Graph500 runner loads with load_graph500_streaming and collects with    *)
(* dump_vertices_csv (Streaming).                                          *)
(*                                                                         *)
(* Every one of these goes through the workers in order; `turn` is the     *)
(* worker it is at, and N + 1 when it is through.  An error anywhere drops *)
(* the driver and with it all its connections.                             *)
(***************************************************************************)
EXTENDS Protocol

CONSTANTS
    Input,          \* the job's graph: [vertices, edges]
    Part,           \* partition_of: id -> worker
    MaxIterations,  \* the iteration budget of the job's AlgorithmSpec
    Interval,       \* interval_iters; 0 if checkpoints are not enabled
    Streaming,      \* how the graph is loaded and the result collected
    LoadEntries     \* vertex_batch_size and edge_batch_size (50 000 each)

ASSUME MaxIterationsAssumption == MaxIterations \in Nat
ASSUME IntervalAssumption == Interval \in Nat
ASSUME StreamingAssumption ==
  /\ Streaming \in BOOLEAN /\ LoadEntries \in Nat \ {0}
  /\ Streaming => Interval = 0   \* as its JobSpecs have it

ASSUME PartAssumption ==
  /\ Input.vertices = [v \in DOMAIN Input.vertices |-> Input.vertices[v]]
  /\ \A v \in DOMAIN Input.vertices : Part[v] \in Worker

(* Input files of finite size, read into u64 ids, values and edge records. *)
ASSUME InputAssumption ==
  /\ Input = [vertices |-> Input.vertices, edges |-> Input.edges]
  /\ DOMAIN Input.vertices \subseteq Nat /\ IsFiniteSet(DOMAIN Input.vertices)
  /\ \A v \in DOMAIN Input.vertices : Input.vertices[v] \in Int
  /\ IsFiniteSet(Input.edges)
  /\ \A e \in Input.edges : e = [src |-> e.src, dst |-> e.dst, key |-> e.key]

VARIABLES
    phase,      \* what run_job is doing
    turn,       \* the worker it is doing it with
    iteration,  \* the superstep of the current round
    mail,       \* the messages of the last round, for all workers: the
                \* contents of the inboxes when the round began
    inboxes,    \* how many there are, and which one an id belongs to
    unsent,     \* of those, what the worker at turn has not been sent yet
    nextMail,   \* next_inboxes, for all workers
    unloaded,   \* what a streamed load has not sent yet, of both files
    result,     \* vertices collected
    saved       \* latest.json and the inboxes.bin it names; iteration 0 if
                \* there is none

driverVars == <<phase, turn, iteration, mail, inboxes, unsent, nextMail, unloaded,
                result, saved>>

(* Inboxes for the job's workers; none before the first round. *)
OwnInboxes == [count |-> N, part |-> Part]

NoCheckpoint == [iteration |-> 0, mail |-> NoMail, inboxes |-> OwnInboxes]

DriverInit ==
  /\ driverAlive = TRUE
  /\ phase = "connect"
  /\ turn = 1
  /\ iteration = 1
  /\ mail = NoMail
  /\ inboxes = OwnInboxes
  /\ unsent = NoMail
  /\ nextMail = NoMail
  /\ unloaded = Input
  /\ result = NoMail

(* load_graph's v_parts and e_parts, and the buffers of a streamed load:   *)
(* vertices by id, edges by source.                                        *)
ShareOf(g, w) ==
  [ vertices |-> Restrict(g.vertices, {v \in DOMAIN g.vertices : Part[v] = w}),
    edges    |-> {e \in g.edges : Part[e.src] = w} ]

PartitionOf(w) == ShareOf(Input, w)

At(p) == driverAlive /\ phase = p /\ turn <= N

Through(p) == driverAlive /\ phase = p /\ turn > N

Goto(p) == phase' = p /\ turn' = 1

----------------------------------------------------------------------------
(* Mutant of Connect: Ready is not waited for. *)
ConnectHasty ==
  /\ At("connect")
  /\ workerState[turn] = "listening"
  /\ workerState' = [workerState EXCEPT ![turn] = "accepted"]
  /\ turn' = turn + 1
  /\ UNCHANGED <<channels, driverAlive, phase, iteration, mail, inboxes, unsent,
                 nextMail, result, unloaded, saved>>

(* TcpStream::connect succeeds: the worker leaves its accept. *)
Connect ==
  /\ At("connect")
  /\ workerState[turn] = "listening"
  /\ workerState' = [workerState EXCEPT ![turn] = "accepted"]
  /\ phase' = "handshake"
  /\ UNCHANGED <<channels, driverAlive, turn, iteration, mail, inboxes, unsent,
                 nextMail, result, unloaded, saved>>

ReceiveReady ==
  /\ At("handshake")
  /\ Receives(toDriver, turn, "Ready")
  /\ DriverTakes(turn)
  /\ phase' = "connect"
  /\ turn' = turn + 1
  /\ UNCHANGED <<toWorker, driverAlive, workerState, iteration, mail, inboxes,
                 unsent, nextMail, result, unloaded, saved>>

(* One frame to every worker: nothing is awaited in between. *)
SendsToAll(p, frame(_)) ==
  /\ At(p)
  /\ DriverSends(turn, frame(turn))
  /\ turn' = turn + 1
  /\ UNCHANGED <<toDriver, driverAlive, workerState, phase, iteration, mail,
                 inboxes, unsent, nextMail, result, unloaded, saved>>

(* Mutant of LoadAll: the whole graph goes to every worker. *)
LoadAllUnpartitioned ==
  SendsToAll("load", LAMBDA w : [type |-> "LoadGraph", graph |-> Input])

LoadAll ==
  SendsToAll("load", LAMBDA w : [type |-> "LoadGraph", graph |-> PartitionOf(w)])

SetAlgorithmAll ==
  SendsToAll("algorithm", LAMBDA w : [type |-> "SetAlgorithm"])

LoadCheckpointAll ==
  SendsToAll("restore", LAMBDA w : [type      |-> "LoadCheckpoint",
                                    iteration |-> saved.iteration])

CreateCheckpointAll ==
  SendsToAll("checkpoint", LAMBDA w : [type      |-> "CreateCheckpoint",
                                       iteration |-> iteration - 1])

FetchAll ==
  SendsToAll("fetch", LAMBDA w : [type |-> "FetchVertices"])

ShutdownAll ==
  SendsToAll("shutdown", LAMBDA w : [type |-> "Shutdown"])

----------------------------------------------------------------------------
(* load_graph500_streaming reads the vertex file, then the edge file, and  *)
(* buffers what it reads per worker.  A buffer that is full is sent, and   *)
(* what is left in the buffers at the end of a file goes out worker by     *)
(* worker.  The files are in any order, so a full buffer holds any entries *)
(* that were not sent before.  Each batch is acknowledged before the next. *)
(* (With `undirected`, Input.edges has both directions of each line, which *)
(* the code reads next to each other.  Nothing calls the variant that      *)
(* counts vertex ids up instead of reading them.)                          *)
Unread(w) ==
  LET share == ShareOf(unloaded, w)
  IN  IF unloaded.vertices # NoMail THEN DOMAIN share.vertices ELSE share.edges

SendGraphBatch(w, graph, last) ==
  /\ DriverSends(w, [type |-> "LoadGraphBatch", graph |-> graph, last |-> last])
  /\ turn' = w
  /\ phase' = IF last THEN "sealed" ELSE "loaded"
  /\ UNCHANGED <<toDriver, driverAlive, workerState, iteration, mail, inboxes,
                 unsent, nextMail, result, saved>>

FileRead == \A w \in Worker : Cardinality(Unread(w)) < LoadEntries

FirstUnread(w) == Unread(w) # {} /\ \A u \in 1 .. (w - 1) : Unread(u) = {}

StreamBatch ==
  /\ At("stream")
  /\ \E w \in Worker :
       /\ FileRead => FirstUnread(w)
       /\ \E batch \in IF FileRead THEN {Unread(w)}
                                   ELSE kSubset(LoadEntries, Unread(w)) :
            LET graph == IF unloaded.vertices # NoMail
                           THEN [vertices |-> Restrict(unloaded.vertices, batch),
                                 edges    |-> {}]
                           ELSE [vertices |-> NoMail, edges |-> batch]
            IN  /\ SendGraphBatch(w, graph, FALSE)
                /\ unloaded' = [ vertices |-> Restrict(unloaded.vertices,
                                                DOMAIN unloaded.vertices
                                                  \ DOMAIN graph.vertices),
                                 edges    |-> unloaded.edges \ graph.edges ]

(* Both files are sent.  One more, empty, batch goes to each worker, and   *)
(* is marked as the last.                                                  *)
StreamEnds ==
  /\ At("stream")
  /\ unloaded = [vertices |-> NoMail, edges |-> {}]
  /\ Goto("seal")
  /\ UNCHANGED <<channels, driverAlive, workerState, iteration, mail, inboxes,
                 unsent, nextMail, unloaded, result, saved>>

SealBatch ==
  /\ At("seal")
  /\ SendGraphBatch(turn, [vertices |-> NoMail, edges |-> {}], TRUE)
  /\ UNCHANGED unloaded

ReceiveGraphLoaded ==
  /\ At("loaded") \/ At("sealed")
  /\ Receives(toDriver, turn, "GraphLoaded")
  /\ DriverTakes(turn)
  /\ IF phase = "loaded" THEN Goto("stream")
                         ELSE phase' = "seal" /\ turn' = turn + 1
  /\ UNCHANGED <<toWorker, driverAlive, workerState, iteration, mail, inboxes,
                 unsent, nextMail, unloaded, result, saved>>

----------------------------------------------------------------------------
(* The call after the scheduler's loop. *)
Collecting == IF Streaming THEN "dump" ELSE "fetch"

(* A round begins: the first worker's inbox is drained. *)
BeginRound ==
  IF iteration <= MaxIterations
    THEN Goto("send") /\ unsent' = RouteTo(mail, inboxes.part, 1)
    ELSE Goto(Collecting) /\ UNCHANGED unsent

(* One SuperstepBatch of the inbox of the worker at turn, by target id; an *)
(* empty inbox makes one empty batch.  Workers and inboxes go in pairs:    *)
(* who has no counterpart is left out.                                     *)
SendBatch ==
  LET targets == {e.dst : e \in DOMAIN unsent}
  IN  /\ At("send")
      /\ turn <= inboxes.count
      /\ \E batch \in NextBatch(targets) :
           LET now == {e \in DOMAIN unsent : e.dst \in batch}
               last == batch = targets
           IN  /\ DriverSends(turn, [ type      |-> "SuperstepBatch",
                                      iteration |-> iteration,
                                      inbox     |-> Restrict(unsent, now),
                                      last      |-> last ])
               /\ unsent' = IF last THEN RouteTo(mail, inboxes.part, turn + 1)
                            ELSE Restrict(unsent, DOMAIN unsent \ now)
               /\ turn' = IF last THEN turn + 1 ELSE turn
      /\ UNCHANGED <<toDriver, driverAlive, workerState, phase, iteration, mail,
                     inboxes, nextMail, unloaded, result, saved>>

(* One SuperstepResultBatch of the worker at turn: route_outbox, and on to *)
(* the next worker after its last one.                                     *)
ReceiveResult ==
  /\ At("receive")
  /\ Receives(toDriver, turn, "SuperstepResultBatch")
  /\ DriverTakes(turn)
  /\ LET reply == Head(toDriver[turn])
     IN  /\ nextMail' = Merge(nextMail, reply.outbox)
         /\ turn' = IF reply.last THEN turn + 1 ELSE turn
  /\ UNCHANGED <<toWorker, driverAlive, workerState, phase, iteration, mail,
                 inboxes, unsent, result, unloaded, saved>>

Checkpoints(k) == Interval > 0 /\ k % Interval = 0

(* any_msg decides whether there is another round, the budget whether it   *)
(* is run.                                                                 *)
AfterRound(m) == IF m = NoMail THEN Collecting ELSE "round"

(* superstep_round returns. *)
EndRound ==
  /\ Through("receive")
  /\ mail' = nextMail
  /\ nextMail' = NoMail
  /\ inboxes' = OwnInboxes
  /\ iteration' = iteration + 1
  /\ Goto(IF Checkpoints(iteration) THEN "checkpoint" ELSE AfterRound(nextMail))
  /\ UNCHANGED <<channels, driverAlive, workerState, unsent, result, unloaded,
                 saved>>

(* Mutant of ReceiveCreated: one answer will do. *)
ReceiveCreatedFirst ==
  /\ At("checkpointed")
  /\ Receives(toDriver, turn, "CheckpointCreated")
  /\ DriverTakes(turn)
  /\ turn' = N + 1
  /\ UNCHANGED <<toWorker, driverAlive, workerState, phase, iteration, mail,
                 inboxes, unsent, nextMail, unloaded, result, saved>>

(* create_checkpoint_all waits for all workers ... *)
ReceiveCreated ==
  /\ At("checkpointed")
  /\ Receives(toDriver, turn, "CheckpointCreated")
  /\ DriverTakes(turn)
  /\ turn' = turn + 1
  /\ UNCHANGED <<toWorker, driverAlive, workerState, phase, iteration, mail,
                 inboxes, unsent, nextMail, unloaded, result, saved>>

(* ... before the inboxes and latest.json are written. *)
Publish ==
  /\ Through("checkpointed")
  /\ saved' = [iteration |-> iteration - 1, mail |-> mail, inboxes |-> inboxes]
  /\ Goto(AfterRound(mail))
  /\ UNCHANGED <<channels, driverAlive, workerState, iteration, mail, inboxes,
                 unsent, nextMail, unloaded, result>>

ReceiveLoaded ==
  /\ At("restored")
  /\ Receives(toDriver, turn, "CheckpointLoaded")
  /\ DriverTakes(turn)
  /\ turn' = turn + 1
  /\ UNCHANGED <<toWorker, driverAlive, workerState, phase, iteration, mail,
                 inboxes, unsent, nextMail, unloaded, result, saved>>

(* Mutant of Recover: the checkpointed superstep is run again. *)
RecoverAgain ==
  /\ Through("restored")
  /\ mail' = saved.mail
  /\ inboxes' = saved.inboxes
  /\ iteration' = saved.iteration
  /\ Goto("round")
  /\ UNCHANGED <<channels, driverAlive, workerState, unsent, nextMail, unloaded,
                 result, saved>>

(* The run goes on after the checkpointed superstep, with its messages in  *)
(* as many inboxes as the job had workers when it was written.             *)
Recover ==
  /\ Through("restored")
  /\ mail' = saved.mail
  /\ inboxes' = saved.inboxes
  /\ iteration' = saved.iteration + 1
  /\ Goto("round")
  /\ UNCHANGED <<channels, driverAlive, workerState, unsent, nextMail, unloaded,
                 result, saved>>

NextRound ==
  /\ driverAlive /\ phase = "round"
  /\ BeginRound
  /\ UNCHANGED <<channels, driverAlive, workerState, iteration, mail, inboxes,
                 nextMail, result, unloaded, saved>>

----------------------------------------------------------------------------
(* Mutant of ReceiveVertices: the last worker's answer is the result. *)
ReceiveVerticesLast ==
  /\ At("collect")
  /\ Receives(toDriver, turn, "Vertices")
  /\ DriverTakes(turn)
  /\ result' = Head(toDriver[turn]).vertices
  /\ turn' = turn + 1
  /\ UNCHANGED <<toWorker, driverAlive, workerState, phase, iteration, mail,
                 inboxes, unsent, nextMail, unloaded, saved>>

ReceiveVertices ==
  /\ At("collect")
  /\ Receives(toDriver, turn, "Vertices")
  /\ DriverTakes(turn)
  /\ result' = Merge(result, Head(toDriver[turn]).vertices)
  /\ turn' = turn + 1
  /\ UNCHANGED <<toWorker, driverAlive, workerState, phase, iteration, mail,
                 inboxes, unsent, nextMail, unloaded, saved>>

(* dump_vertices_csv: one worker after the other. *)
DumpPart ==
  /\ At("dump")
  /\ DriverSends(turn, [type |-> "DumpVerticesCsv"])
  /\ phase' = "dumped"
  /\ UNCHANGED <<toDriver, driverAlive, workerState, turn, iteration, mail,
                 inboxes, unsent, nextMail, unloaded, result, saved>>

(* Mutant of ReceiveDumped: the parts go to one path. *)
ReceiveDumpedOver ==
  /\ At("dumped")
  /\ Receives(toDriver, turn, "VerticesDumped")
  /\ DriverTakes(turn)
  /\ result' = Head(toDriver[turn]).vertices
  /\ phase' = "dump"
  /\ turn' = turn + 1
  /\ UNCHANGED <<toWorker, driverAlive, workerState, iteration, mail, inboxes,
                 unsent, nextMail, unloaded, saved>>

ReceiveDumped ==
  /\ At("dumped")
  /\ Receives(toDriver, turn, "VerticesDumped")
  /\ DriverTakes(turn)
  /\ result' = Merge(result, Head(toDriver[turn]).vertices)
  /\ phase' = "dump"
  /\ turn' = turn + 1
  /\ UNCHANGED <<toWorker, driverAlive, workerState, iteration, mail, inboxes,
                 unsent, nextMail, unloaded, saved>>

(* One call is through all workers; the next one begins. *)
RunJobCalls ==
  [connect |-> "load", load |-> "algorithm",
   algorithm |-> IF Interval > 0 /\ saved.iteration > 0 THEN "restore"
                                                       ELSE "round",
   restore |-> "restored", checkpoint |-> "checkpointed",
   send |-> "receive", fetch |-> "collect", collect |-> "shutdown",
   shutdown |-> "done"]

(* run_wcc_meta and run_pagerank_meta, which ignore an error of shutdown:  *)
(* the driver is dropped either way.                                       *)
Graph500Calls ==
  [connect |-> "stream", seal |-> "algorithm", algorithm |-> "round",
   send |-> "receive", dump |-> "shutdown", shutdown |-> "done"]

Successor == IF Streaming THEN Graph500Calls ELSE RunJobCalls

NextCall ==
  /\ driverAlive
  /\ phase \in DOMAIN Successor
  /\ turn > N \/ (phase = "send" /\ turn > inboxes.count)
  /\ Goto(Successor[phase])
  /\ UNCHANGED <<channels, driverAlive, workerState, iteration, mail, inboxes,
                 unsent, nextMail, result, unloaded, saved>>

(* What makes a call return an error: connecting to a worker that does not *)
(* listen (200 attempts, then give up), sending to one that is gone,       *)
(* waiting for one that is gone, or an answer of the wrong kind.           *)
Expected ==
  [handshake |-> "Ready", restored |-> "CheckpointLoaded",
   checkpointed |-> "CheckpointCreated",
   loaded |-> "GraphLoaded", sealed |-> "GraphLoaded",
   receive |-> "SuperstepResultBatch", collect |-> "Vertices",
   dumped |-> "VerticesDumped"]

(* Mutant of Failure: the end of a connection is not noticed by a receive. *)
FailureNotReceiving ==
  \/ /\ phase = "connect"
     /\ workerState[turn] \in {"down", "exited"}
  \/ /\ phase \in {"load", "algorithm", "restore", "checkpoint", "send",
                   "fetch", "shutdown"}
     /\ workerState[turn] = "exited"

Failure ==
  \/ /\ phase = "connect"
     /\ workerState[turn] \in {"down", "exited"}
  \/ /\ phase \in {"load", "algorithm", "restore", "checkpoint", "send",
                   "fetch", "shutdown"}
     /\ workerState[turn] = "exited"
  \/ /\ phase \in DOMAIN Expected
     /\ workerState[turn] = "exited"
     /\ toDriver[turn] = << >>
  \/ /\ phase \in DOMAIN Expected
     /\ toDriver[turn] # << >>
     /\ Head(toDriver[turn]).type # Expected[phase]

DriverFails ==
  /\ driverAlive
  /\ turn <= N
  /\ Failure
  /\ driverAlive' = FALSE
  /\ UNCHANGED <<channels, workerState, driverVars>>

DriverStep ==
  \/ Connect
  \/ ReceiveReady
  \/ LoadAll
  \/ StreamBatch
  \/ StreamEnds
  \/ SealBatch
  \/ ReceiveGraphLoaded
  \/ SetAlgorithmAll
  \/ NextRound
  \/ SendBatch
  \/ ReceiveResult
  \/ EndRound
  \/ CreateCheckpointAll
  \/ ReceiveCreated
  \/ Publish
  \/ LoadCheckpointAll
  \/ ReceiveLoaded
  \/ Recover
  \/ FetchAll
  \/ ReceiveVertices
  \/ DumpPart
  \/ ReceiveDumped
  \/ ShutdownAll
  \/ NextCall
  \/ DriverFails

============================================================================
