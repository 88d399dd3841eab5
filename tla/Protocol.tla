------------------------------ MODULE Protocol ------------------------------
(***************************************************************************)
(* The connections between one driver and its workers                      *)
(* (distributed/protocol.rs): per worker two FIFO channels of frames over  *)
(* one TCP connection, each holding at most Capacity frames (the socket    *)
(* buffers), so that a send blocks while its channel is full.              *)
(*                                                                         *)
(* A frame is a record with a field "type", the name of the variant of     *)
(* DriverToWorker or WorkerToDriver, and the fields the other side reads.  *)
(***************************************************************************)
EXTENDS VertexProgram, Sequences

CONSTANTS
    N,             \* number of workers in the job's worker list
    Capacity,      \* frames that fit into one direction of a connection
    BatchEntries   \* batch_entries: entries per SuperstepBatch (256 in the code)

Worker == 1 .. N

ASSUME SizeAssumption ==
  /\ N \in Nat
  /\ Capacity \in Nat \ {0}
  /\ BatchEntries \in Nat \ {0}

VARIABLES
    toWorker,     \* per worker, frames from the driver not yet received
    toDriver,     \* per worker, frames to the driver not yet received
    driverAlive,  \* the driver has its ends of the connections open
    workerState   \* per worker: "down", "listening", "accepted", "serving",
                  \* "emitting" or "exited"

channels == <<toWorker, toDriver>>

(* The messages (nothing sends the unbatched Superstep). *)
DriverToWorker ==
  {"LoadGraph", "LoadGraphBatch", "SetAlgorithm", "SuperstepBatch",
   "CreateCheckpoint", "LoadCheckpoint", "FetchVertices", "DumpVerticesCsv",
   "Shutdown"}

WorkerToDriver ==
  {"Ready", "GraphLoaded", "SuperstepResultBatch", "CheckpointCreated",
   "CheckpointLoaded", "Vertices", "VerticesDumped", "Error"}

Receives(channel, w, type) ==
  channel[w] # << >> /\ Head(channel[w]).type = type

(* The chunks of a sequence of batch_entries-sized batches, in any order:  *)
(* the possible next batches of the items that are left.  Nothing left     *)
(* still makes one, empty, batch.                                          *)
NextBatch(items) ==
  LET n == Cardinality(items)
  IN  kSubset(IF n < BatchEntries THEN n ELSE BatchEntries, items)

(* send_msg by the driver.  What is sent to a worker that is gone may be   *)
(* swallowed by the socket (DriverFails is the other outcome).             *)
DriverSends(w, frame) ==
  IF workerState[w] = "exited"
    THEN UNCHANGED toWorker
    ELSE /\ Len(toWorker[w]) < Capacity
         /\ toWorker' = [toWorker EXCEPT ![w] = Append(@, frame)]

(* send_msg by a worker, likewise. *)
WorkerSends(w, frame) ==
  IF ~driverAlive
    THEN UNCHANGED toDriver
    ELSE /\ Len(toDriver[w]) < Capacity
         /\ toDriver' = [toDriver EXCEPT ![w] = Append(@, frame)]

DriverTakes(w) == toDriver' = [toDriver EXCEPT ![w] = Tail(@)]

WorkerTakes(w) == toWorker' = [toWorker EXCEPT ![w] = Tail(@)]

============================================================================
