------------------------------ MODULE Graph500 ------------------------------
(***************************************************************************)
(* The Graph500 service (bin/geaflow-graph500.rs, serve): datasets are     *)
(* registered and jobs submitted over HTTP; each job is a task that, for   *)
(* each algorithm it names, starts workers in this very process, runs a    *)
(* driver over them, and compares the result with a truth file.            *)
(*                                                                         *)
(* A worker is named <<j, n, i>>: the i-th one for the n-th item of job j. *)
(* So is the driver's connection to its i-th address.  What a driver does  *)
(* once it has all its workers is the subject of Cluster and one step      *)
(* here.  Nothing but the jobs themselves ends a job or its workers.       *)
(***************************************************************************)
EXTENDS HttpServer, SequencesExt

CONSTANTS
    Dataset,     \* dataset ids
    Param,       \* parameters of an algorithm: its iterations and alpha
    Meta,        \* what a properties file may describe: for each algorithm
                 \* whether its `files` can be read, and the parameters with
                 \* which the result agrees with the `truth` file
    Request,     \* what clients send, with the fields of HttpServer and `call`:
                 \* to "register" a `dataset` with `meta`; to "submit" a job
                 \* on `dataset` with `workers`, `run`, `param` by algorithm
                 \* and `out`, whether all goes well with files and
                 \* directories below out_dir; to "get" `job`
    MaxJobs      \* bound on the number of jobs

Algorithms == {"wcc", "pr"}

(* The algorithm an item of `run` stands for. *)
Kind == [wcc |-> "wcc", pr |-> "pr", pagerank |-> "pr"]

Names(run, kind) ==
  \E k \in DOMAIN run : run[k] \in DOMAIN Kind /\ Kind[run[k]] = kind

(* Two items stand for the same algorithm. *)
Twice(run) ==
  \E k, l \in DOMAIN run :
    /\ k # l
    /\ {run[k], run[l]} \subseteq DOMAIN Kind /\ Kind[run[k]] = Kind[run[l]]

ASSUME MetaAssumption ==
  Meta \subseteq [Algorithms -> [files : BOOLEAN, truth : SUBSET Param]]
ASSUME JobsAssumption == MaxJobs \in Nat

(* What the fields of a request that its handler looks at may hold. *)
ASSUME RequestAssumption ==
  \A request \in Request :
    /\ request.call \in {"register", "submit", "get"}
    /\ request.header \in Nat \ {0}
    /\ {request.length, request.sent} \subseteq Nat
    /\ {request.line, request.valid} \subseteq BOOLEAN
    /\ request.call = "register" =>
         request.dataset \in Dataset /\ request.meta \in Meta
    /\ request.call = "submit" =>
         /\ request.dataset \in Dataset /\ request.workers \in Nat
         /\ request.run \in Seq(STRING)
         /\ request.param \in [Algorithms -> Param] /\ request.out \in BOOLEAN

None == "none"

VARIABLES
    datasets,   \* DatasetEntry by id
    nonce,      \* JOB_NONCE
    jobs,       \* JobRecord by job id
    task,       \* per job, the spawned task
    worker,     \* the worker tasks, by name
    pinned,     \* history: the dataset as it was when the job was submitted
    troubles    \* history: "collision" if a port was given to two workers,
                \* "timeout" if a connect gave up

taskVars == <<jobs, task>>
vars == <<httpVars, datasets, nonce, taskVars, worker, pinned, troubles>>

Job == 1 .. MaxJobs

Init ==
  /\ HttpInit
  /\ datasets = << >>
  /\ nonce = 1
  /\ jobs = << >>
  /\ task = << >>
  /\ worker = << >>
  /\ pinned = << >>
  /\ troubles = {}

(* map.insert(key, value) of a HashMap. *)
Insert(map, key, value) ==
  [x \in DOMAIN map \cup {key} |-> IF x = key THEN value ELSE map[x]]

----------------------------------------------------------------------------
(* The requests.  A body that is no JSON, an unreadable properties file    *)
(* and files that do not exist are answered 400 and change nothing.        *)
Handles(c, call) ==
  Whole(c) /\ Parses(c) /\ exchange[c].request.call = call

RefuseRequest(c) ==
  /\ Whole(c)
  /\ ~Parses(c)
  /\ Answers(c, 400, <<"refused">>)
  /\ UNCHANGED <<datasets, nonce, taskVars, worker, pinned, troubles>>

RegisterDataset(c) ==
  LET request == exchange[c].request
  IN  /\ Handles(c, "register")
      /\ datasets' = Insert(datasets, request.dataset, request.meta)
      /\ Answers(c, 200, <<"info">>)
      /\ UNCHANGED <<nonce, taskVars, worker, pinned, troubles>>

NewJob(submission) ==
  [status |-> "pending", dataset |-> submission.dataset, wcc |-> None, pr |-> None]

NewTask(submission, meta) ==
  [pc |-> "spawned", meta |-> meta, run |-> submission.run,
   param |-> submission.param, out |-> submission.out,
   workers |-> submission.workers, n |-> 1, i |-> 1, wcc |-> None, pr |-> None]

(* The job gets a clone of the dataset; its record is there before the     *)
(* task is spawned and before the answer is written.                       *)
SubmitJob(c) ==
  LET submission == exchange[c].request
      meta == datasets[submission.dataset]
  IN  /\ Handles(c, "submit")
      /\ submission.dataset \in DOMAIN datasets
      /\ nonce <= MaxJobs
      /\ nonce' = nonce + 1
      /\ jobs' = Append(jobs, NewJob(submission))
      /\ task' = Append(task, NewTask(submission, meta))
      /\ pinned' = Append(pinned, meta)
      /\ Answers(c, 200, <<"job", nonce>>)
      /\ UNCHANGED <<datasets, worker, troubles>>

SubmitJobUnknown(c) ==
  /\ Handles(c, "submit")
  /\ exchange[c].request.dataset \notin DOMAIN datasets
  /\ Answers(c, 404, <<"dataset not found">>)
  /\ UNCHANGED <<datasets, nonce, taskVars, worker, pinned, troubles>>

(* handle_get_job; handle_list_jobs shows the statuses of all jobs. *)
GetJob(c) ==
  LET j == exchange[c].request.job
  IN  /\ Handles(c, "get")
      /\ IF j \in DOMAIN jobs THEN Answers(c, 200, <<jobs[j].status>>)
                              ELSE Answers(c, 404, <<"job not found">>)
      /\ UNCHANGED <<datasets, nonce, taskVars, worker, pinned, troubles>>

----------------------------------------------------------------------------
(* The workers of this process. *)
Bound(u) == worker[u].state \in {"listening", "serving"}

Listeners(port) == {u \in DOMAIN worker : Bound(u) /\ worker[u].port = port}

Taken == {worker[u].port : u \in {x \in DOMAIN worker : worker[x].state # "gone"}}

(* free_local_addr: any port that is not bound at this moment.  Ports in   *)
(* nobody's hands are alike; one that was found free before, for a worker  *)
(* that has not bound it yet, may be found again.                          *)
FreePorts ==
  {Min(1 .. (1 + Cardinality(Taken)) \ Taken)}
    \cup {p \in Taken : Listeners(p) = {}}

(* Mutant of Dir: the workers of a driver share a directory. *)
DirShared(u) == <<u[1], Kind[task[u[1]].run[u[2]]]>>

(* The directory below the job's out_dir that worker u opens. *)
Dir(u) == <<u[1], Kind[task[u[1]].run[u[2]]], u[3]>>

(* The driver has its end of the connection open. *)
Open(conn) ==
  LET t == task[conn[1]]
  IN  t.n = conn[2] /\ t.pc \in {"connect", "ready"}

NewWorker(port) ==
  [state |-> "spawned", port |-> port, backlog |-> << >>, peer |-> << >>,
   aborted |-> FALSE]

Becomes(u, state) == worker' = [worker EXCEPT ![u].state = state]

(* run_worker, and what start_workers does with its result: nothing. *)
Bind(u) ==
  /\ worker[u].state = "spawned"
  /\ Becomes(u, IF Listeners(worker[u].port) = {} THEN "listening" ELSE "gone")
  /\ UNCHANGED <<httpVars, datasets, nonce, taskVars, pinned, troubles>>

InUse(u) == \E x \in DOMAIN worker : worker[x].state = "serving" /\ Dir(x) = Dir(u)

(* One connection is accepted and greeted; then the database is opened,    *)
(* which fails while another worker has it open.                           *)
Accept(u) ==
  /\ worker[u].state = "listening"
  /\ worker[u].backlog # << >>
  /\ \E opened \in BOOLEAN :
       /\ IF opened THEN ~InUse(u) ELSE InUse(u) \/ ~task[u[1]].out
       /\ worker' = [worker EXCEPT ![u].peer = Head(worker[u].backlog),
                                   ![u].state = IF opened THEN "serving" ELSE "gone"]
  /\ UNCHANGED <<httpVars, datasets, nonce, taskVars, pinned, troubles>>

(* Mutant of Exits: the loss of the connection is not noticed. *)
ExitsAborted(u) ==
  /\ worker[u].state \in {"spawned", "listening", "serving"}
  /\ worker[u].aborted
  /\ Becomes(u, "gone")
  /\ UNCHANGED <<httpVars, datasets, nonce, taskVars, pinned, troubles>>

(* Its connection ends or its handle was aborted.  The database is closed  *)
(* and so is the listener, with all connections it has not accepted.       *)
Exits(u) ==
  /\ \/ worker[u].state = "serving" /\ ~Open(worker[u].peer)
     \/ worker[u].state \in {"spawned", "listening", "serving"} /\ worker[u].aborted
  /\ Becomes(u, "gone")
  /\ UNCHANGED <<httpVars, datasets, nonce, taskVars, pinned, troubles>>

----------------------------------------------------------------------------
(* The task of job j. *)
At(j, pc) == task[j].pc = pc

Becoming(j, t) == task' = [task EXCEPT ![j] = t]

(* Mutant of GoesTo: the count of workers is not reset. *)
GoesToOn(j, t, n) ==
  LET known == {k \in n .. Len(t.run) : t.run[k] \in DOMAIN Kind}
  IN  Becoming(j, [t EXCEPT
        !.pc = IF known = {} THEN "verify"
               ELSE IF t.workers > 0 THEN "start" ELSE "connect",
        !.n = IF known = {} THEN @ ELSE Min(known)])

(* The loop over `run` goes on with item n or the first known one after    *)
(* it: start_workers has workers to start, or there are none to start and  *)
(* connect has none to connect to.  After the last item `run` is done.     *)
GoesTo(j, t, n) ==
  LET known == {k \in n .. Len(t.run) : t.run[k] \in DOMAIN Kind}
  IN  Becoming(j, [t EXCEPT
        !.pc = IF known = {} THEN "verify"
               ELSE IF t.workers > 0 THEN "start" ELSE "connect",
        !.n = IF known = {} THEN @ ELSE Min(known),
        !.i = 1])

TaskStarts(j) ==
  /\ At(j, "spawned")
  /\ jobs' = [jobs EXCEPT ![j].status = "running"]
  /\ GoesTo(j, task[j], 1)
  /\ UNCHANGED <<httpVars, datasets, nonce, worker, pinned, troubles>>

(* One round of the loop of start_workers: a port, a clean directory and a *)
(* task that will bind the port when it gets to run.  After the last one   *)
(* the driver connects.                                                    *)
StartWorker(j) ==
  LET t == task[j]
  IN  /\ At(j, "start")
      /\ \E port \in FreePorts :
           /\ worker' = Insert(worker, <<j, t.n, t.i>>, NewWorker(port))
           /\ troubles' = IF port \in Taken THEN troubles \cup {"collision"}
                                            ELSE troubles
      /\ Becoming(j, IF t.i < t.workers THEN [t EXCEPT !.i = @ + 1]
                                        ELSE [t EXCEPT !.pc = "connect", !.i = 1])
      /\ UNCHANGED <<httpVars, datasets, nonce, jobs, pinned>>

Here(j) == <<j, task[j].n, task[j].i>>

Connect(j) ==
  /\ At(j, "connect")
  /\ task[j].i <= task[j].workers
  /\ \E u \in Listeners(worker[Here(j)].port) :
       worker' = [worker EXCEPT ![u].backlog = Append(@, Here(j))]
  /\ Becoming(j, [task[j] EXCEPT !.pc = "ready"])
  /\ UNCHANGED <<httpVars, datasets, nonce, jobs, pinned, troubles>>

(* The worker that conn is connected to. *)
Peer(conn) == CHOOSE u \in DOMAIN worker : conn \in Range(worker[u].backlog)

ReceiveReady(j) ==
  /\ At(j, "ready")
  /\ worker[Peer(Here(j))].peer = Here(j)
  /\ Becoming(j, [task[j] EXCEPT !.pc = "connect", !.i = @ + 1])
  /\ UNCHANGED <<httpVars, datasets, nonce, jobs, worker, pinned, troubles>>

Connected(j) == At(j, "connect") /\ task[j].i > task[j].workers

Lost(j) ==
  \E i \in 1 .. task[j].workers :
    worker[Peer(<<j, task[j].n, i>>)].state = "gone"

(* What the comparison of a result with its truth file says. *)
Compared(meta, kind, param) == IF param \in meta[kind].truth THEN "right" ELSE "wrong"

(* Mutant of RunMeta: the files are those registered by now. *)
RunMetaCurrent(j) ==
  LET t == task[j]
      kind == Kind[t.run[t.n]]
      meta == datasets[jobs[j].dataset]
  IN  /\ Connected(j)
      /\ t.workers > 0
      /\ ~Lost(j)
      /\ meta[kind].files
      /\ GoesTo(j, [t EXCEPT ![kind] = Compared(meta, kind, t.param[kind])], t.n + 1)
      /\ worker' = [u \in DOMAIN worker |->
                      [worker[u] EXCEPT !.aborted = @ \/ (u[1] = j /\ u[2] = t.n)]]
      /\ UNCHANGED <<httpVars, datasets, nonce, jobs, pinned, troubles>>

(* The rest of run_wcc_meta and run_pagerank_meta: load, supersteps, dump, *)
(* comparison with the truth file; then the driver is shut down and the    *)
(* tasks of the workers aborted, which nobody waits for.                   *)
RunMeta(j) ==
  LET t == task[j]
      kind == Kind[t.run[t.n]]
  IN  /\ Connected(j)
      /\ t.workers > 0
      /\ ~Lost(j)
      /\ t.meta[kind].files
      /\ GoesTo(j, [t EXCEPT ![kind] = Compared(t.meta, kind, t.param[kind])], t.n + 1)
      /\ worker' = [u \in DOMAIN worker |->
                      [worker[u] EXCEPT !.aborted = @ \/ (u[1] = j /\ u[2] = t.n)]]
      /\ UNCHANGED <<httpVars, datasets, nonce, jobs, pinned, troubles>>

Fails(j) ==
  /\ jobs' = [jobs EXCEPT ![j].status = "failed"]
  /\ Becoming(j, [task[j] EXCEPT !.pc = "ended"])
  /\ UNCHANGED <<httpVars, datasets, nonce, worker, pinned>>

(* Nobody listened at the address for as long as connect tries. *)
ConnectFails(j) ==
  /\ At(j, "connect")
  /\ task[j].i <= task[j].workers
  /\ Listeners(worker[Here(j)].port) = {}
  /\ Fails(j)
  /\ troubles' = troubles \cup {"timeout"}

(* Mutant of RunMetaFails: a connection that ends is not noticed. *)
RunMetaFailsInput(j) ==
  /\ Connected(j)
  /\ \/ task[j].workers = 0
     \/ ~task[j].meta[Kind[task[j].run[task[j].n]]].files
  /\ Fails(j)
  /\ UNCHANGED troubles

(* create_dir_all fails: for the job, its algorithm or its next worker.    *)
(* The tasks of the workers that were started are not aborted.             *)
DirectoryFails(j) ==
  /\ task[j].pc \in {"spawned", "start"}
  /\ ~task[j].out
  /\ Fails(j)
  /\ UNCHANGED troubles

(* The worker waited for ends before it accepts, or one of them after; a   *)
(* file cannot be read, or not be written; or there are no workers to load *)
(* the graph into.  The driver is dropped; the tasks of the workers are    *)
(* not aborted.                                                            *)
RunMetaFails(j) ==
  /\ \/ /\ At(j, "ready")
        /\ worker[Peer(Here(j))].state = "gone"
        /\ worker[Peer(Here(j))].peer # Here(j)
     \/ /\ Connected(j)
        /\ \/ task[j].workers = 0
           \/ Lost(j)
           \/ ~task[j].meta[Kind[task[j].run[task[j].n]]].files
           \/ ~task[j].out
  /\ Fails(j)
  /\ UNCHANGED troubles

(* All items are done: the job succeeds if every report is as it should be. *)
Verify(j) ==
  LET t == task[j]
      ok == "wrong" \notin {t.wcc, t.pr}
  IN  /\ At(j, "verify")
      /\ Becoming(j, [t EXCEPT !.pc = "ended"])
      /\ jobs' = [jobs EXCEPT ![j] =
                    IF ok THEN [@ EXCEPT !.status = "succeeded", !.wcc = t.wcc,
                                         !.pr = t.pr]
                          ELSE [@ EXCEPT !.status = "failed"]]
      /\ UNCHANGED <<httpVars, datasets, nonce, worker, pinned, troubles>>

----------------------------------------------------------------------------
ClientStep(c) == \E request \in Request : Ask(c, request)

ServerStep(c) ==
  \/ RefuseRequest(c)
  \/ RegisterDataset(c)
  \/ SubmitJob(c)
  \/ SubmitJobUnknown(c)
  \/ GetJob(c)

TaskStep(j) ==
  \/ TaskStarts(j)
  \/ StartWorker(j)
  \/ Connect(j)
  \/ ReceiveReady(j)
  \/ RunMeta(j)
  \/ ConnectFails(j)
  \/ DirectoryFails(j)
  \/ RunMetaFails(j)
  \/ Verify(j)

WorkerStep(u) == Bind(u) \/ Accept(u) \/ Exits(u)

HttpStep(c) ==
  /\ ClientStep(c) \/ ServerReads(c)
  /\ UNCHANGED <<datasets, nonce, taskVars, worker, pinned, troubles>>

Next ==
  \/ \E c \in Client : HttpStep(c) \/ ServerStep(c)
  \/ \E j \in DOMAIN task : TaskStep(j)
  \/ \E u \in DOMAIN worker : WorkerStep(u)

(* The jobs' tasks and the workers' tasks go on while any of them can: no  *)
(* job takes steps for ever, so it does not matter which one the runtime   *)
(* picks.  Nothing is assumed of clients.                                  *)
Fairness ==
  /\ WF_vars(\E j \in DOMAIN task : TaskStep(j))
  /\ WF_vars(\E u \in DOMAIN worker : WorkerStep(u))

Spec == Init /\ [][Next]_vars /\ Fairness

----------------------------------------------------------------------------
Reports == {None, "right", "wrong"}

TypeOK ==
  /\ asks \in 0 .. MaxAsks
  /\ \A c \in Client : exchange[c].answer.status \in {0, 200, 404, 500}
  /\ DOMAIN datasets \subseteq Dataset /\ Range(datasets) \subseteq Meta
  /\ nonce \in 1 .. (MaxJobs + 1)
  /\ DOMAIN jobs \subseteq Job /\ DOMAIN task \subseteq Job
  /\ \A j \in DOMAIN jobs :
       jobs[j] \in [dataset : Dataset, wcc : Reports, pr : Reports,
                    status : {"pending", "running", "succeeded", "failed"}]
  /\ \A j \in DOMAIN task :
       /\ task[j].pc \in {"spawned", "start", "connect", "ready", "verify", "ended"}
       /\ task[j].n \in 1 .. Max({1, Len(task[j].run)})
       /\ task[j].i \in 1 .. (task[j].workers + 1)
  /\ \A u \in DOMAIN worker :
       /\ u[1] \in DOMAIN task
       /\ u[2] \in DOMAIN task[u[1]].run
       /\ u[3] \in 1 .. task[u[1]].workers
       /\ worker[u].state \in {"spawned", "listening", "serving", "gone"}
       /\ worker[u].aborted \in BOOLEAN
  /\ troubles \subseteq {"collision", "timeout"}

Settled(j) == j \in DOMAIN jobs /\ jobs[j].status \in {"succeeded", "failed"}

(* The files of data `meta` and job t's parameters make a right result. *)
Sound(meta, t, kind) == meta[kind].files /\ t.param[kind] \in meta[kind].truth

(* A job that is listed as succeeded has the reports it was submitted for, *)
(* under whichever name, made from the dataset as it was when the job was  *)
(* submitted, whatever was registered since, and all of them agree with    *)
(* the truth.                                                              *)
SucceededVerified ==
  \A j \in DOMAIN jobs : jobs[j].status = "succeeded" =>
    \A kind \in Algorithms :
      IF Names(task[j].run, kind)
        THEN jobs[j][kind] = "right" /\ Sound(pinned[j], task[j], kind)
        ELSE jobs[j][kind] = None

(* A job fails only if it has to: its data cannot be read, or do not agree *)
(* with the truth for its iterations and alpha; the directory it names is  *)
(* no good; it asks for no workers; it names an algorithm twice, 'pr' and  *)
(* 'pagerank' being one (the workers of the first time may still have the  *)
(* directories open); two workers were given one port or an address was    *)
(* not listened on in time.  Jobs at the same time, and the items of one   *)
(* job, are not in each other's way otherwise.                             *)
FailsOnlyForCause ==
  \A j \in DOMAIN jobs : jobs[j].status = "failed" =>
    \/ task[j].workers = 0
    \/ ~task[j].out
    \/ \E kind \in Algorithms :
         Names(task[j].run, kind) /\ ~Sound(pinned[j], task[j], kind)
    \/ Twice(task[j].run)
    \/ troubles # {}

(* Every job comes to an end, unless a port was given to two workers. *)
JobsSettle ==
  \A j \in Job : j \in DOMAIN jobs ~> Settled(j) \/ "collision" \in troubles

(* No task of a job and no worker can take a step. *)
AtRest ==
  /\ \A j \in DOMAIN task : ~ENABLED TaskStep(j)
  /\ \A u \in DOMAIN worker : ~ENABLED WorkerStep(u)

(* When nothing moves any more, a worker of a job that is through has      *)
(* ended, unless a driver is still connected to it, or nobody ever was and *)
(* the job failed: no port or directory is held for a job that succeeded,  *)
(* and no worker waits for a driver that is gone.                          *)
WorkersLetGo ==
  AtRest =>
    \A u \in DOMAIN worker : Settled(u[1]) =>
      \/ worker[u].state = "gone"
      \/ worker[u].state = "serving" /\ Open(worker[u].peer)
      \/ /\ jobs[u[1]].status = "failed"
         /\ worker[u].state = "listening" /\ worker[u].peer = << >>

============================================================================
