---------------------------- MODULE DriverService ----------------------------
(***************************************************************************)
(* The service that accepts jobs (distributed/driver_service.rs), run_job  *)
(* as the task it spawns for each (distributed/driver.rs), the workers     *)
(* those tasks compete for (distributed/worker.rs), the master they are    *)
(* found through, and the client of geaflow-submit (run_via_driver).       *)
(*                                                                         *)
(* A worker serves the first connection it accepts and then exits; a job   *)
(* that connects to a worker serving another waits in its backlog.  Load,  *)
(* supersteps and fetch of a job are one step here (see Cluster).  A       *)
(* submission is a run r; what the job of a run is called is its id.       *)
(*                                                                         *)
(* Workers are numbered in the order in which resolve_workers names them:  *)
(* that of the configured list, which is used as it is and names each      *)
(* worker once, or the sort order of the addresses the master answers.     *)
(***************************************************************************)
EXTENDS Integers, SequencesExt

CONSTANTS
    N,             \* number of worker addresses
    MaxRuns,       \* bound on the number of submissions
    MaxCrashes,    \* bound on the number of workers that die
    MaxRestarts    \* bound on the number of workers started again

ASSUME ServiceAssumption ==
  /\ {N, MaxRuns, MaxCrashes, MaxRestarts} \subseteq Nat

Worker == 1 .. N
Run == 1 .. MaxRuns
NoRun == 0

VARIABLES
    jobs,        \* the service's map: id -> JobEntry; the id a
                 \* client makes for run r is r
    id,          \* per run, the id it was submitted under
    stage,       \* per run: "none", "resolving", "accepting", "connecting",
                 \* "waiting", "finished", "failed", "refused" or "dropped"
    addrs, at,   \* per run, worker_addrs and the position connect is at
    client,      \* per run, its client: "none", "submitting", "polling",
                 \* "fetching", "answered", "refused" or "gone"
    vertices,    \* per run, whose vertices its client has received
    alone,       \* history: per run, no other submission under its id was
                 \* under way at the same time
    ended,       \* history: per run, the runs under its id that had ended
                 \* when it was submitted
    worker,      \* per worker: "down", "listening", "serving" or "gone"
    serving,     \* per worker, the run whose connection it has accepted
    backlog,     \* per worker, connections not yet accepted
    masterUp,
    configured,  \* config.worker_addrs names all workers: no master is asked
    crashes, restarts

runVars == <<id, stage, addrs, at>>
clientVars == <<client, vertices, alone, ended>>
workerVars == <<worker, serving, backlog>>
masterVars == <<masterUp, configured>>
vars == <<jobs, runVars, clientVars, workerVars, masterVars, crashes, restarts>>

Entry(state, result, error) == [state |-> state, result |-> result, error |-> error]

Init ==
  /\ jobs = << >>
  /\ id = [r \in Run |-> NoRun]
  /\ stage = [r \in Run |-> "none"]
  /\ addrs = [r \in Run |-> << >>]
  /\ at = [r \in Run |-> 1]
  /\ client = [r \in Run |-> "none"]
  /\ vertices = [r \in Run |-> NoRun]
  /\ alone = [r \in Run |-> TRUE]
  /\ ended = [r \in Run |-> {}]
  /\ worker = [w \in Worker |-> "down"]
  /\ serving = [w \in Worker |-> NoRun]
  /\ backlog = [w \in Worker |-> << >>]
  /\ masterUp = TRUE
  /\ configured \in BOOLEAN
  /\ crashes = 0
  /\ restarts = 0

----------------------------------------------------------------------------
(* Runs nothing more comes of, and submissions under id j that are still   *)
(* being worked on or waited for.                                          *)
Ended == {q \in Run : stage[q] \in {"finished", "failed", "refused", "dropped"}}

UnderWay(j) ==
  {q \in Run : id[q] = j /\ ~ (q \in Ended /\ client[q] \in {"answered", "refused", "gone"})}

(* Mutant of SubmitJob: an entry that is there is kept. *)
SubmitJobKeeps(r, j) ==
  /\ stage[r] = "none"
  /\ \A q \in 1 .. (r - 1) : stage[q] # "none"
  /\ j = r \/ j \in DOMAIN jobs
  /\ jobs' = [i \in DOMAIN jobs \cup {j} |->
                IF i \in DOMAIN jobs THEN jobs[i]
                                     ELSE Entry("running", NoRun, FALSE)]
  /\ id' = [id EXCEPT ![r] = j]
  /\ stage' = [stage EXCEPT ![r] = "resolving"]
  /\ client' = [client EXCEPT ![r] = "submitting"]
  /\ alone' = [q \in Run |-> /\ alone[q]
                             /\ UnderWay(j) = {} \/ q \notin UnderWay(j) \cup {r}]
  /\ ended' = [ended EXCEPT ![r] = {q \in Ended : id[q] = j}]
  /\ UNCHANGED <<addrs, at, vertices, workerVars, masterVars, crashes, restarts>>

(* Clients.  geaflow-submit makes a new id for each submission; another    *)
(* client may submit a job again under its old id, to recover it, even     *)
(* while it is being worked on.  The entry is replaced either way.         *)
SubmitJob(r, j) ==
  /\ stage[r] = "none"
  /\ \A q \in 1 .. (r - 1) : stage[q] # "none"
  /\ j = r \/ j \in DOMAIN jobs
  /\ jobs' = [i \in DOMAIN jobs \cup {j} |->
                IF i = j THEN Entry("running", NoRun, FALSE) ELSE jobs[i]]
  /\ id' = [id EXCEPT ![r] = j]
  /\ stage' = [stage EXCEPT ![r] = "resolving"]
  /\ client' = [client EXCEPT ![r] = "submitting"]
  /\ alone' = [q \in Run |-> /\ alone[q]
                             /\ UnderWay(j) = {} \/ q \notin UnderWay(j) \cup {r}]
  /\ ended' = [ended EXCEPT ![r] = {q \in Ended : id[q] = j}]
  /\ UNCHANGED <<addrs, at, vertices, workerVars, masterVars, crashes, restarts>>

(* One round of polling that learns something. *)
GetJobStatus(r) ==
  LET entry == jobs[id[r]]
  IN  /\ client[r] = "polling"
      /\ client' = [client EXCEPT ![r] =
                      IF entry.error \/ entry.state = "failed" THEN "refused"
                      ELSE IF entry.state = "finished" THEN "fetching"
                      ELSE "polling"]
      /\ client' # client
      /\ UNCHANGED <<jobs, runVars, vertices, alone, ended, workerVars, masterVars,
                     crashes, restarts>>

FetchVertices(r) ==
  LET result == jobs[id[r]].result
  IN  /\ client[r] = "fetching"
      /\ client' = [client EXCEPT ![r] =
                      IF result = NoRun THEN "refused" ELSE "answered"]
      /\ vertices' = [vertices EXCEPT ![r] = result]
      /\ UNCHANGED <<jobs, runVars, alone, ended, workerVars, masterVars, crashes,
                     restarts>>

----------------------------------------------------------------------------
(* What resolve_workers may find: the configured workers, or what the      *)
(* master answers.  It may name any: one that died is listed for some time *)
(* yet, one that has just begun or whose heartbeats fail is not.           *)
WorkerLists == IF configured THEN {Worker} ELSE SUBSET Worker

(* Mutant of ResolveWorkers: workers in no fixed order. *)
ResolveWorkersUnsorted(r) ==
  /\ stage[r] = "resolving"
  /\ configured \/ masterUp
  /\ \E found \in WorkerLists : \E s \in SetToSeqs(found) :
       addrs' = [addrs EXCEPT ![r] = s]
  /\ stage' = [stage EXCEPT ![r] = "accepting"]
  /\ UNCHANGED <<jobs, id, at, clientVars, workerVars, masterVars, crashes, restarts>>

(* The workers of a set, in their order. *)
Sorted(S) ==
  CHOOSE s \in [1 .. Cardinality(S) -> S] :
    \A i, j \in DOMAIN s : i < j => s[i] < s[j]

(* resolve_workers. *)
ResolveWorkers(r) ==
  /\ stage[r] = "resolving"
  /\ configured \/ masterUp
  /\ \E found \in WorkerLists : addrs' = [addrs EXCEPT ![r] = Sorted(found)]
  /\ stage' = [stage EXCEPT ![r] = "accepting"]
  /\ UNCHANGED <<jobs, id, at, clientVars, workerVars, masterVars, crashes, restarts>>

(* The master cannot be reached: the client is told, the entry stays. *)
ResolveFails(r) ==
  /\ stage[r] = "resolving"
  /\ ~configured
  /\ ~masterUp
  /\ stage' = [stage EXCEPT ![r] = "refused"]
  /\ client' = [client EXCEPT ![r] = "refused"]
  /\ UNCHANGED <<jobs, id, addrs, at, vertices, alone, ended, workerVars, masterVars,
                 crashes, restarts>>

(* JobAccepted is sent and run_job is spawned. *)
AcceptJob(r) ==
  /\ stage[r] = "accepting"
  /\ stage' = [stage EXCEPT ![r] = "connecting"]
  /\ client' = [client EXCEPT ![r] = "polling"]
  /\ UNCHANGED <<jobs, id, addrs, at, vertices, alone, ended, workerVars, masterVars,
                 crashes, restarts>>

(* The client's connection is gone and the send of JobAccepted fails:      *)
(* handle_connection returns, the entry stays and no run is spawned.  A    *)
(* client that leaves at another time just asks no more.                   *)
AcceptFails(r) ==
  /\ stage[r] = "accepting"
  /\ stage' = [stage EXCEPT ![r] = "dropped"]
  /\ client' = [client EXCEPT ![r] = "gone"]
  /\ UNCHANGED <<jobs, id, addrs, at, vertices, alone, ended, workerVars, masterVars,
                 crashes, restarts>>

Target(r) == addrs[r][at[r]]

AllConnected(r) == at[r] > Len(addrs[r])

Connect(r) ==
  /\ stage[r] = "connecting"
  /\ ~AllConnected(r)
  /\ worker[Target(r)] \in {"listening", "serving"}
  /\ backlog' = [backlog EXCEPT ![Target(r)] = Append(@, r)]
  /\ stage' = [stage EXCEPT ![r] = "waiting"]
  /\ UNCHANGED <<jobs, id, addrs, at, clientVars, worker, serving, masterVars,
                 crashes, restarts>>

ReceiveReady(r) ==
  /\ stage[r] = "waiting"
  /\ serving[Target(r)] = r
  /\ at' = [at EXCEPT ![r] = @ + 1]
  /\ stage' = [stage EXCEPT ![r] = "connecting"]
  /\ UNCHANGED <<jobs, id, addrs, clientVars, workerVars, masterVars, crashes,
                 restarts>>

(* Mutants of Record: a state no client knows; an error leaves the state   *)
(* as it is.                                                               *)
RecordOtherState(r, ok) ==
  jobs' = [jobs EXCEPT ![id[r]] =
             IF ok THEN [@ EXCEPT !.state = "finished", !.result = r]
                   ELSE [@ EXCEPT !.state = "error", !.error = TRUE]]

RecordErrorOnly(r, ok) ==
  jobs' = [jobs EXCEPT ![id[r]] =
             IF ok THEN [@ EXCEPT !.state = "finished", !.result = r]
                   ELSE [@ EXCEPT !.error = TRUE]]

(* What the spawned task does to the map when run_job has returned: the    *)
(* fields it does not set stay as they are.                                *)
Record(r, ok) ==
  jobs' = [jobs EXCEPT ![id[r]] =
             IF ok THEN [@ EXCEPT !.state = "finished", !.result = r]
                   ELSE [@ EXCEPT !.state = "failed", !.error = TRUE]]

RunFinishes(r) ==
  /\ stage[r] = "connecting"
  /\ AllConnected(r)
  /\ \A w \in Range(addrs[r]) : serving[w] = r
  /\ Record(r, TRUE)
  /\ stage' = [stage EXCEPT ![r] = "finished"]
  /\ UNCHANGED <<id, addrs, at, clientVars, workerVars, masterVars, crashes,
                 restarts>>

(* run_job returns an error: 200 attempts to connect have failed, the      *)
(* connection it waits on is reset, or, once it talks to all its workers,  *)
(* one of them is gone or answers an error, or a file of the job's own     *)
(* cannot be read or written (see Cluster).                                *)
RunFails(r) ==
  /\ \/ /\ stage[r] = "connecting"
        /\ ~AllConnected(r)
        /\ worker[Target(r)] \in {"down", "gone"}
     \/ /\ stage[r] = "waiting"
        /\ serving[Target(r)] # r
        /\ r \notin Range(backlog[Target(r)])
     \/ /\ stage[r] = "connecting"
        /\ AllConnected(r)
  /\ Record(r, FALSE)
  /\ stage' = [stage EXCEPT ![r] = "failed"]
  /\ UNCHANGED <<id, addrs, at, clientVars, workerVars, masterVars, crashes,
                 restarts>>

----------------------------------------------------------------------------
Bind(w) ==
  /\ worker[w] = "down"
  /\ worker' = [worker EXCEPT ![w] = "listening"]
  /\ UNCHANGED <<jobs, runVars, clientVars, serving, backlog, masterVars, crashes,
                 restarts>>

(* accept, once, and Ready. *)
Accept(w) ==
  /\ worker[w] = "listening"
  /\ backlog[w] # << >>
  /\ worker' = [worker EXCEPT ![w] = "serving"]
  /\ serving' = [serving EXCEPT ![w] = Head(backlog[w])]
  /\ backlog' = [backlog EXCEPT ![w] = Tail(@)]
  /\ UNCHANGED <<jobs, runVars, clientVars, masterVars, crashes, restarts>>

(* The process ends, and the kernel resets what is in the backlog. *)
Exits(w) ==
  /\ worker' = [worker EXCEPT ![w] = "gone"]
  /\ serving' = [serving EXCEPT ![w] = NoRun]
  /\ backlog' = [backlog EXCEPT ![w] = << >>]

(* Mutant of WorkerExits: only Shutdown ends a worker. *)
WorkerExitsOnShutdown(w) ==
  /\ worker[w] = "serving"
  /\ stage[serving[w]] = "finished"
  /\ Exits(w)
  /\ UNCHANGED <<jobs, runVars, clientVars, masterVars, crashes, restarts>>

(* Shutdown is received, or the driver's end of the connection is gone. *)
WorkerExits(w) ==
  /\ worker[w] = "serving"
  /\ stage[serving[w]] \in {"finished", "failed"}
  /\ Exits(w)
  /\ UNCHANGED <<jobs, runVars, clientVars, masterVars, crashes, restarts>>

WorkerDies(w) ==
  /\ worker[w] # "gone"
  /\ crashes < MaxCrashes
  /\ Exits(w)
  /\ crashes' = crashes + 1
  /\ UNCHANGED <<jobs, runVars, clientVars, masterVars, restarts>>

Restart(w) ==
  /\ worker[w] = "gone"
  /\ restarts < MaxRestarts
  /\ worker' = [worker EXCEPT ![w] = "down"]
  /\ restarts' = restarts + 1
  /\ UNCHANGED <<jobs, runVars, clientVars, serving, backlog, masterVars, crashes>>

MasterStops ==
  /\ ~configured
  /\ masterUp
  /\ masterUp' = FALSE
  /\ UNCHANGED <<jobs, runVars, clientVars, workerVars, configured, crashes,
                 restarts>>

RunStep(r) ==
  \/ ResolveWorkers(r)
  \/ ResolveFails(r)
  \/ AcceptJob(r)
  \/ AcceptFails(r)
  \/ Connect(r)
  \/ ReceiveReady(r)
  \/ RunFinishes(r)
  \/ RunFails(r)

ClientStep(r) == GetJobStatus(r) \/ FetchVertices(r)

WorkerStep(w) == Bind(w) \/ Accept(w) \/ WorkerExits(w)

Next ==
  \/ \E r \in Run :
       \/ RunStep(r)
       \/ ClientStep(r)
       \/ \E j \in 1 .. r : SubmitJob(r, j)
  \/ \E w \in Worker :
       \/ WorkerStep(w)
       \/ WorkerDies(w)
       \/ Restart(w)
  \/ MasterStops

(* The tasks of connections and jobs, clients and workers go on while they *)
(* can.  Submissions, restarts, the master and crashes are not counted on. *)
Fairness ==
  /\ \A r \in Run : WF_vars(RunStep(r)) /\ WF_vars(ClientStep(r))
  /\ \A w \in Worker : WF_vars(WorkerStep(w))

Spec == Init /\ [][Next]_vars /\ Fairness

----------------------------------------------------------------------------
TypeOK ==
  /\ DOMAIN jobs \subseteq Run
  /\ \A j \in DOMAIN jobs :
       jobs[j] \in [state : {"running", "finished", "failed"},
                    result : Run \cup {NoRun}, error : BOOLEAN]
  /\ id \in [Run -> Run \cup {NoRun}]
  /\ stage \in [Run -> {"none", "resolving", "accepting", "connecting", "waiting",
                        "finished", "failed", "refused", "dropped"}]
  /\ \A r \in Run : Range(addrs[r]) \subseteq Worker
  /\ \A r \in Run : at[r] \in 1 .. (Len(addrs[r]) + 1)
  /\ client \in [Run -> {"none", "submitting", "polling", "fetching",
                         "answered", "refused", "gone"}]
  /\ vertices \in [Run -> Run \cup {NoRun}]
  /\ alone \in [Run -> BOOLEAN]
  /\ ended \in [Run -> SUBSET Run]
  /\ worker \in [Worker -> {"down", "listening", "serving", "gone"}]
  /\ serving \in [Worker -> Run \cup {NoRun}]
  /\ \A w \in Worker : Range(backlog[w]) \subseteq Run
  /\ masterUp \in BOOLEAN /\ configured \in BOOLEAN
  /\ crashes \in 0 .. MaxCrashes /\ restarts \in 0 .. MaxRestarts

(* The vertices a client gets are those of a run under its id that had not *)
(* ended when it submitted: its own, or one that overlaps with it.  If no  *)
(* other submission under the id is under way meanwhile, they are those of *)
(* its own run, and it gets an error only if that run failed or the        *)
(* submission was refused.                                                 *)
AnswersOwn ==
  \A r \in Run :
    /\ client[r] = "answered" =>
         LET q == vertices[r]
         IN  q # NoRun /\ stage[q] = "finished" /\ id[q] = id[r] /\ q \notin ended[r]
    /\ alone[r] /\ client[r] = "answered" => vertices[r] = r
    /\ alone[r] /\ client[r] = "refused" => stage[r] \in {"failed", "refused"}

(* A job the service lists as running is one that runs, or is about to,    *)
(* with two exceptions: the latest submission under its id was refused, as *)
(* no worker list could be had, or dropped, as JobAccepted could not be    *)
(* sent.  In neither does a client wait for that submission any more.      *)
RunningIsAccounted ==
  \A j \in DOMAIN jobs : jobs[j].state = "running" =>
    \E r \in Run :
      /\ id[r] = j
      /\ \A q \in Run : q > r => id[q] # j
      /\ \/ stage[r] \in {"resolving", "accepting", "connecting", "waiting"}
         \/ stage[r] = "refused" /\ client[r] = "refused"
         \/ stage[r] = "dropped" /\ client[r] = "gone"

(* A job that holds workers waits only for one that comes after all of     *)
(* them in the order of addresses, whichever workers each job was told of: *)
(* jobs that compete for workers cannot wait for each other in a circle.   *)
WaitsUpward ==
  \A r \in Run, v, w \in Worker :
    serving[v] = r /\ r \in Range(backlog[w]) => v < w

(* Jobs that compete for one-shot workers never wait for each other in a   *)
(* circle: every client gets an answer, unless it left before, and every   *)
(* worker taken is let go.  Only a client whose job was submitted again,   *)
(* under the same id and in vain (it was refused or dropped), may be left  *)
(* polling an entry that says running.                                     *)
ClientsAnswered ==
  \A r \in Run :
    client[r] # "none" ~>
      \/ client[r] \in {"answered", "refused", "gone"}
      \/ \E q \in Run : q > r /\ id[q] = id[r] /\ stage[q] \in {"refused", "dropped"}

WorkersLetGo ==
  \A w \in Worker : worker[w] = "serving" ~> worker[w] = "gone"

============================================================================
