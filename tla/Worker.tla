------------------------------- MODULE Worker -------------------------------
(***************************************************************************)
(* The worker processes of one job: run_worker and process_superstep of    *)
(* distributed/worker.rs, and the RocksDB directory each one keeps         *)
(* (state/rocksdb_graph_state.rs).  A worker serves one connection and     *)
(* then exits.  What becomes of checkpoint directories over many runs of a *)
(* job is the subject of CheckpointJob.                                    *)
(*                                                                         *)
(* A database is [vertices, edges]: values by id, and edges with the       *)
(* suffix of their key, at = <<nonce, index>>.                             *)
(***************************************************************************)
EXTENDS Protocol

CONSTANT Leftover   \* per worker, what its state_dir holds when it starts

VARIABLES
    store,             \* per worker, its database
    nonce,             \* per worker, EDGE_BATCH_NONCE of its process
    images,            \* per worker, its directories in those of checkpoints:
                       \* databases by iteration
    algorithmSet,      \* per worker, whether `algorithm` is Some
    teleport,          \* per worker, PageRankAlgorithm::teleport
    pendingIteration,  \* per worker, pending_iteration (0 for None)
    pendingInbox,      \* per worker, pending_inbox
    outbox,            \* per worker, results of the superstep not yet sent
    computed           \* history: the last superstep its store has seen

workerVars == <<store, nonce, images, algorithmSet, teleport, pendingIteration,
                pendingInbox, outbox, computed>>

WorkerInit ==
  /\ workerState = [w \in Worker |-> "down"]
  /\ store = [w \in Worker |-> Leftover[w]]
  /\ nonce = [w \in Worker |-> 1]
  /\ algorithmSet = [w \in Worker |-> FALSE]
  /\ teleport = [w \in Worker |-> NoTeleport]
  /\ pendingIteration = [w \in Worker |-> 0]
  /\ pendingInbox = [w \in Worker |-> NoMail]
  /\ outbox = [w \in Worker |-> NoMail]
  /\ computed = [w \in Worker |-> 0]

Becomes(w, s) == workerState' = [workerState EXCEPT ![w] = s]

(* Mutant of Suffix: the nonce is left out. *)
SuffixIndexOnly(e, edges, n) ==
  <<0, Cardinality({f \in edges : f.key < e.key})>>

(* The suffix of the database key of edge e in a batch with nonce n.       *)
Suffix(e, edges, n) == <<n, Cardinality({f \in edges : f.key < e.key})>>

(* put_edge_batch replaces an edge only if all of its key coincides. *)
PutEdges(edges, new, n) ==
  LET stored == {[src |-> e.src, dst |-> e.dst, key |-> e.key,
                  at  |-> Suffix(e, new, n)] : e \in new}
  IN  stored \cup {e \in edges :
                     \A f \in stored : ~ (f.src = e.src /\ f.at = e.at)}

(* put_vertex_batch, which replaces values by id, and put_edge_batch. *)
PutGraph(db, new, n) ==
  [ vertices |-> Merge(db.vertices, new.vertices),
    edges    |-> PutEdges(db.edges, new.edges, n) ]

----------------------------------------------------------------------------
Bind(w) ==
  /\ workerState[w] = "down"
  /\ Becomes(w, "listening")
  /\ UNCHANGED <<channels, driverAlive, workerVars>>

SendReady(w) ==
  /\ workerState[w] = "accepted"
  /\ WorkerSends(w, [type |-> "Ready"])
  /\ Becomes(w, "serving")
  /\ UNCHANGED <<toWorker, driverAlive, workerVars>>

LoadGraph(w) ==
  /\ workerState[w] = "serving"
  /\ Receives(toWorker, w, "LoadGraph")
  /\ WorkerTakes(w)
  /\ store' = [store EXCEPT ![w] = PutGraph(@, Head(toWorker[w]).graph, nonce[w])]
  /\ nonce' = [nonce EXCEPT ![w] = @ + 1]
  /\ UNCHANGED <<toDriver, driverAlive, workerState, images, algorithmSet, teleport,
                 pendingIteration, pendingInbox, outbox, computed>>

(* One part of a streamed graph: stored before it is acknowledged. *)
LoadGraphBatch(w) ==
  LET batch == Head(toWorker[w])
  IN  /\ workerState[w] = "serving"
      /\ Receives(toWorker, w, "LoadGraphBatch")
      /\ store' = [store EXCEPT ![w] = PutGraph(@, batch.graph, nonce[w])]
      /\ nonce' = IF batch.graph.edges = {} THEN nonce
                                            ELSE [nonce EXCEPT ![w] = @ + 1]
      /\ WorkerSends(w, [type |-> "GraphLoaded", last |-> batch.last])
      /\ WorkerTakes(w)
      /\ UNCHANGED <<driverAlive, workerState, images, algorithmSet, teleport,
                     pendingIteration, pendingInbox, outbox, computed>>

SetAlgorithm(w) ==
  /\ workerState[w] = "serving"
  /\ Receives(toWorker, w, "SetAlgorithm")
  /\ WorkerTakes(w)
  /\ algorithmSet' = [algorithmSet EXCEPT ![w] = TRUE]
  /\ teleport' = [teleport EXCEPT ![w] = NoTeleport]
  /\ UNCHANGED <<toDriver, driverAlive, workerState, store, nonce, images,
                 pendingIteration, pendingInbox, outbox, computed>>

(* Mutant of Assembled: the last batch replaces those before it. *)
AssembledLastOnly(w, batch) == batch.inbox

(* What is in pending_inbox once the entries of the batch are added. *)
Assembled(w, batch) ==
  Merge(IF pendingIteration[w] = batch.iteration THEN pendingInbox[w] ELSE NoMail,
        batch.inbox)

(* A SuperstepBatch that is not the last one is kept. *)
KeepBatch(w) ==
  LET batch == Head(toWorker[w])
  IN  /\ workerState[w] = "serving"
      /\ Receives(toWorker, w, "SuperstepBatch")
      /\ ~ batch.last
      /\ WorkerTakes(w)
      /\ pendingIteration' = [pendingIteration EXCEPT ![w] = batch.iteration]
      /\ pendingInbox' = [pendingInbox EXCEPT ![w] = Assembled(w, batch)]
      /\ UNCHANGED <<toDriver, driverAlive, workerState, store, nonce, images,
                     algorithmSet, teleport, outbox, computed>>

(* The last one starts process_superstep: the updates are stored before    *)
(* the first result is sent.  Without an algorithm the worker exits.       *)
ComputeSuperstep(w) ==
  LET batch == Head(toWorker[w])
      r == ProcessSuperstep(store[w], Assembled(w, batch), teleport[w],
                            batch.iteration)
  IN  /\ workerState[w] = "serving"
      /\ Receives(toWorker, w, "SuperstepBatch")
      /\ batch.last
      /\ WorkerTakes(w)
      /\ pendingInbox' = [pendingInbox EXCEPT ![w] = NoMail]
      /\ pendingIteration' = [pendingIteration EXCEPT ![w] = 0]
      /\ IF algorithmSet[w]
           THEN /\ store' = [store EXCEPT ![w] = r.db]
                /\ teleport' = [teleport EXCEPT ![w] = r.teleport]
                /\ outbox' = [outbox EXCEPT ![w] = r.outbox]
                /\ computed' = [computed EXCEPT ![w] = batch.iteration]
                /\ Becomes(w, "emitting")
           ELSE /\ Becomes(w, "exited")
                /\ UNCHANGED <<store, teleport, outbox, computed>>
      /\ UNCHANGED <<toDriver, driverAlive, nonce, images, algorithmSet>>

(* One SuperstepResultBatch of the superstep's results. *)
EmitBatch(w) ==
  /\ workerState[w] = "emitting"
  /\ \E batch \in NextBatch(DOMAIN outbox[w]) :
       LET rest == DOMAIN outbox[w] \ batch
       IN  /\ WorkerSends(w, [ type   |-> "SuperstepResultBatch",
                               outbox |-> Restrict(outbox[w], batch),
                               last   |-> rest = {} ])
           /\ outbox' = [outbox EXCEPT ![w] = Restrict(@, rest)]
           /\ Becomes(w, IF rest = {} THEN "serving" ELSE "emitting")
  /\ UNCHANGED <<toWorker, driverAlive, store, nonce, images, algorithmSet,
                 teleport, pendingIteration, pendingInbox, computed>>

(* A checkpoint of the database, in a directory that must not be there.    *)
(* (What else makes it fail: FileFails.)                                   *)
CreateCheckpoint(w) ==
  LET k == Head(toWorker[w]).iteration
  IN  /\ workerState[w] = "serving"
      /\ Receives(toWorker, w, "CreateCheckpoint")
      /\ IF k \in DOMAIN images[w]
           THEN WorkerSends(w, [type |-> "Error"]) /\ UNCHANGED images
           ELSE /\ WorkerSends(w, [type |-> "CheckpointCreated"])
                /\ images' = [images EXCEPT ![w] = Merge(@, [i \in {k} |-> store[w]])]
      /\ WorkerTakes(w)
      /\ UNCHANGED <<driverAlive, workerState, store, nonce, algorithmSet, teleport,
                     pendingIteration, pendingInbox, outbox, computed>>

(* The checkpoint's directory is opened as the database; one that is not   *)
(* there is created, empty.  (When it cannot be opened, for one because a  *)
(* process of another attempt still has it open: FileFails.  That the      *)
(* supersteps that follow write into it is CheckpointJob's Store.)         *)
LoadCheckpoint(w) ==
  LET k == Head(toWorker[w]).iteration
      created == [i \in {k} |-> [vertices |-> NoMail, edges |-> {}]]
  IN  /\ workerState[w] = "serving"
      /\ Receives(toWorker, w, "LoadCheckpoint")
      /\ images' = [images EXCEPT ![w] = Merge(created, @)]
      /\ store' = [store EXCEPT ![w] = images'[w][k]]
      /\ computed' = [computed EXCEPT ![w] = k]
      /\ WorkerSends(w, [type |-> "CheckpointLoaded"])
      /\ WorkerTakes(w)
      /\ UNCHANGED <<driverAlive, workerState, nonce, algorithmSet, teleport,
                     pendingIteration, pendingInbox, outbox>>

FetchVertices(w) ==
  /\ workerState[w] = "serving"
  /\ Receives(toWorker, w, "FetchVertices")
  /\ WorkerSends(w, [type |-> "Vertices", vertices |-> store[w].vertices])
  /\ WorkerTakes(w)
  /\ UNCHANGED <<driverAlive, workerState, workerVars>>

(* The partition goes to a CSV file of its own, which the answer names:    *)
(* here the answer holds what the file holds.  Without an algorithm the    *)
(* format of the values is unknown; a file that cannot be written is       *)
(* FileFails.                                                              *)
DumpVerticesCsv(w) ==
  /\ workerState[w] = "serving"
  /\ Receives(toWorker, w, "DumpVerticesCsv")
  /\ WorkerSends(w, IF algorithmSet[w]
                      THEN [type |-> "VerticesDumped", vertices |-> store[w].vertices]
                      ELSE [type |-> "Error"])
  /\ WorkerTakes(w)
  /\ UNCHANGED <<driverAlive, workerState, workerVars>>

(* The Err arms of the three handlers that work on files: the checkpoint   *)
(* is not made, the directory is not opened and the database stays the one *)
(* it was, or the CSV file is not written.  The worker answers and goes on.*)
(* (In every other handler an error ends the process: WorkerCrash.)        *)
FileFails(w) ==
  /\ workerState[w] = "serving"
  /\ \E type \in {"CreateCheckpoint", "LoadCheckpoint", "DumpVerticesCsv"} :
       Receives(toWorker, w, type)
  /\ WorkerSends(w, [type |-> "Error"])
  /\ WorkerTakes(w)
  /\ UNCHANGED <<driverAlive, workerState, workerVars>>

Shutdown(w) ==
  /\ workerState[w] = "serving"
  /\ Receives(toWorker, w, "Shutdown")
  /\ WorkerTakes(w)
  /\ Becomes(w, "exited")
  /\ UNCHANGED <<toDriver, driverAlive, workerVars>>

(* Mutant of LosesDriver: only a send that fails ends the worker. *)
LosesDriverSending(w) ==
  /\ ~driverAlive
  /\ workerState[w] \in {"accepted", "emitting"}
  /\ Becomes(w, "exited")
  /\ UNCHANGED <<channels, driverAlive, workerVars>>

(* The connection is gone: recv_msg or send_msg fails and run_worker       *)
(* returns the error.  What was still queued may or may not be received.   *)
LosesDriver(w) ==
  /\ ~driverAlive
  /\ workerState[w] \in {"accepted", "serving", "emitting"}
  /\ Becomes(w, "exited")
  /\ UNCHANGED <<channels, driverAlive, workerVars>>

WorkerStep(w) ==
  \/ Bind(w)
  \/ SendReady(w)
  \/ LoadGraph(w)
  \/ LoadGraphBatch(w)
  \/ SetAlgorithm(w)
  \/ KeepBatch(w)
  \/ ComputeSuperstep(w)
  \/ EmitBatch(w)
  \/ CreateCheckpoint(w)
  \/ LoadCheckpoint(w)
  \/ FetchVertices(w)
  \/ DumpVerticesCsv(w)
  \/ Shutdown(w)
  \/ LosesDriver(w)

============================================================================
