--------------------------- MODULE Graph500Proofs ---------------------------
(***************************************************************************)
(* Theorems of Graph500, for every number of clients, requests and jobs.   *)
(***************************************************************************)
EXTENDS Graph500, WellFoundedInduction, TLAPS

(* Min of a nonempty set of natural numbers is its least element. *)
LEMMA MinIsLeast ==
  ASSUME NEW T, T \subseteq Nat, T # {}
  PROVE  Min(T) \in T /\ \A y \in T : Min(T) <= y
<1> DEFINE Less == OpToRel(<, Nat)
<1>1. IsWellFoundedOn(Less, Nat)
  BY NatLessThanWellFounded
<1>2. \A i, j \in Nat : i < j => <<i, j>> \in Less
  BY DEF OpToRel
<1> HIDE DEF Less
<1>3. PICK x \in T : \A y \in T : ~ (<<y, x>> \in Less)
  BY <1>1, WFMin
<1>4. ASSUME NEW y \in T PROVE x <= y
  <2>1. x \in Nat /\ y \in Nat
    OBVIOUS
  <2>2. ~ (y < x)
    BY <1>2, <1>3, <2>1
  <2>. QED  BY <2>1, <2>2
<1>. QED  BY <1>4 DEF Min

(* Max of two numbers is one of them and none is greater. *)
LEMMA MaxOfTwo ==
  ASSUME NEW a \in Nat, NEW b \in Nat
  PROVE  Max({a, b}) \in {a, b} /\ a <= Max({a, b}) /\ b <= Max({a, b})
<1>1. \E x \in {a, b} : \A y \in {a, b} : x >= y
  BY SMT
<1>2. Max({a, b}) \in {a, b} /\ \A y \in {a, b} : Max({a, b}) >= y
  BY <1>1 DEF Max
<1>. QED  BY <1>2

LEMMA KindShape ==
  /\ DOMAIN Kind = {"wcc", "pr", "pagerank"}
  /\ \A x \in DOMAIN Kind : Kind[x] \in {"wcc", "pr"}
BY DEF Kind

----------------------------------------------------------------------------
(* A connection is closed, or it carries one of the requests, of which no  *)
(* more was read than its client sent.  The end of its header was read     *)
(* within the limit, and its answer is justified.                          *)
Answered(e) ==
  /\ e.answer = [status |-> e.answer.status, body |-> e.answer.body]
  /\ e.answer.status \in {0, 200, 404, 500}
  /\ e.answer # Unanswered => Justified(e.request, e.answer.body)

Exchanged(e) ==
  /\ e = [request |-> e.request, read |-> e.read, answer |-> e.answer]
  /\ e.request \in Request
  /\ e.read \in Nat /\ e.read <= e.request.sent
  /\ e.read >= e.request.header => e.request.header <= MaxHeader
  /\ Answered(e)

HttpInv ==
  /\ asks \in 0 .. MaxAsks
  /\ DOMAIN exchange = Client /\ exchange = [c \in Client |-> exchange[c]]
  /\ \A c \in Client : exchange[c] = Closed \/ Exchanged(exchange[c])

----------------------------------------------------------------------------
(* There is a task, a record and a remembered dataset for every id that    *)
(* was given out.                                                          *)
JobRecord ==
  [dataset : Dataset, wcc : Reports, pr : Reports,
   status : {"pending", "running", "succeeded", "failed"}]

Pcs == {"spawned", "start", "connect", "ready", "verify", "ended"}

Positions == Nat \ {0}

TaskRecord ==
  [pc : Pcs, meta : Meta, run : Seq(STRING), param : [Algorithms -> Param],
   out : BOOLEAN, workers : Nat, n : Positions, i : Positions,
   wcc : Reports, pr : Reports]

CountInv ==
  /\ DOMAIN datasets \subseteq Dataset
  /\ \A d \in DOMAIN datasets : datasets[d] \in Meta
  /\ nonce \in 1 .. (MaxJobs + 1)
  /\ jobs \in Seq(JobRecord) /\ task \in Seq(TaskRecord) /\ pinned \in Seq(Meta)
  /\ Len(jobs) = nonce - 1 /\ Len(task) = nonce - 1 /\ Len(pinned) = nonce - 1
  /\ troubles \subseteq {"collision", "timeout"}

(* Task t works on an item that names an algorithm. *)
AtItem(t) == t.pc \in {"start", "connect", "ready"}

(* It is through with its k-th item. *)
Through(t, k) == t.pc = "verify" \/ (AtItem(t) /\ k < t.n)

(* There is a report for every algorithm that was run, none for any other, *)
(* and each is what the dataset's files and the job's parameters make it.  *)
Reported(t) ==
  /\ \A kind \in Algorithms : t[kind] # None =>
       /\ t[kind] = Compared(t.meta, kind, t.param[kind])
       /\ t.meta[kind].files
       /\ Names(t.run, kind)
  /\ \A k \in DOMAIN t.run :
       t.run[k] \in DOMAIN Kind /\ Through(t, k) => t[Kind[t.run[k]]] # None

(* What task t is at fits what it has done. *)
Progress(t) ==
  /\ t.n = 1 \/ t.n <= Len(t.run)
  /\ t.i <= t.workers + 1
  /\ AtItem(t) => t.n \in DOMAIN t.run /\ t.run[t.n] \in DOMAIN Kind
  /\ t.pc \in {"start", "ready"} => t.i <= t.workers
  /\ t.pc = "spawned" => t.n = 1 /\ t.i = 1 /\ t.wcc = None /\ t.pr = None
  /\ Reported(t)

(* What the record of a job says of its task, and what it owes the reader. *)
Caused(t) ==
  \/ t.workers = 0
  \/ ~t.out
  \/ \E kind \in Algorithms : Names(t.run, kind) /\ ~Sound(t.meta, t, kind)
  \/ Twice(t.run)

Recorded(job, t, met) ==
  /\ t.pc = "spawned" <=> job.status = "pending"
  /\ t.pc = "ended" <=> job.status \in {"succeeded", "failed"}
  /\ job.status = "succeeded" =>
       \A kind \in Algorithms :
         IF Names(t.run, kind)
           THEN job[kind] = "right" /\ Sound(t.meta, t, kind)
           ELSE job[kind] = None
  /\ job.status = "failed" => Caused(t) \/ met # {}

(* What a task never changes. *)
Same(s, t) ==
  /\ s.meta = t.meta /\ s.run = t.run /\ s.workers = t.workers
  /\ s.param = t.param /\ s.out = t.out

TaskInv ==
  \A j \in DOMAIN task :
    task[j].meta = pinned[j] /\ Progress(task[j]) /\ Recorded(jobs[j], task[j], troubles)

----------------------------------------------------------------------------
(* The workers.  Those of the item a job is at are the ones it has started *)
(* for it; none is of a later item.                                        *)
Name == Nat \X Nat \X Nat

NameInv ==
  /\ worker = [u \in DOMAIN worker |-> worker[u]]
  /\ \A u \in DOMAIN worker :
       /\ u \in Name
       /\ u = <<u[1], u[2], u[3]>>
       /\ worker[u] = [state |-> worker[u].state, port |-> worker[u].port,
                       backlog |-> worker[u].backlog, peer |-> worker[u].peer,
                       aborted |-> worker[u].aborted]
       /\ worker[u].state \in {"spawned", "listening", "serving", "gone"}
       /\ worker[u].aborted \in BOOLEAN
       /\ worker[u].backlog \in Seq(Name)
       /\ u[1] \in DOMAIN task
       /\ u[2] \in DOMAIN task[u[1]].run
       /\ task[u[1]].run[u[2]] \in DOMAIN Kind
       /\ u[3] \in 1 .. task[u[1]].workers

Started(j) ==
  LET t == task[j]
  IN  /\ \A u \in DOMAIN worker : u[1] = j =>
           /\ t.pc # "spawned"
           /\ u[2] <= t.n
           /\ u[2] = t.n /\ t.pc = "start" => u[3] < t.i
      /\ t.pc = "start" => \A i \in 1 .. (t.i - 1) : <<j, t.n, i>> \in DOMAIN worker
      /\ t.pc \in {"connect", "ready"} =>
           \A i \in 1 .. t.workers : <<j, t.n, i>> \in DOMAIN worker

StartedInv == \A j \in DOMAIN task : Started(j)

(* As long as no port was given to two workers, a port that is in use is   *)
(* that of one worker, and connections meet the worker they are meant for. *)
PortInv ==
  /\ \A u, v \in DOMAIN worker :
       worker[u].state # "gone" /\ worker[v].state # "gone" /\ u # v =>
         worker[u].port # worker[v].port
  /\ \A u \in DOMAIN worker :
       /\ \A k \in DOMAIN worker[u].backlog : worker[u].backlog[k] = u
       /\ worker[u].peer \in {<< >>, u}

(* A worker of the item its job is at: the driver has not connected to it  *)
(* yet, waits for its Ready, or holds the connection.                      *)
Fresh(u) ==
  LET t == task[u[1]]
  IN  \/ t.pc = "start"
      \/ t.pc = "connect" /\ t.i <= u[3]
      \/ t.pc = "ready" /\ t.i < u[3]

Asked(u) == task[u[1]].pc = "ready" /\ task[u[1]].i = u[3]

Current(u) == AtItem(task[u[1]]) /\ u[2] = task[u[1]].n

Serves(u) ==
  /\ worker[u].peer = u
  /\ worker[u].state \in {"serving", "gone"}
  /\ ~Twice(task[u[1]].run) /\ task[u[1]].out => worker[u].state = "serving"

Serviced(u) ==
  /\ ~worker[u].aborted
  /\ Fresh(u) => /\ worker[u].state \in {"spawned", "listening"}
                 /\ worker[u].backlog = << >> /\ worker[u].peer = << >>
  /\ ~Fresh(u) => /\ DOMAIN worker[u].backlog # {}
                  /\ \/ Serves(u)
                     \/ /\ Asked(u) /\ worker[u].peer = << >>
                        /\ worker[u].state \in {"spawned", "listening"}

ServiceInv == \A u \in DOMAIN worker : Current(u) => Serviced(u)

IndInv ==
  /\ HttpInv /\ CountInv /\ TaskInv /\ NameInv /\ StartedInv
  /\ "collision" \notin troubles => PortInv /\ ServiceInv

----------------------------------------------------------------------------
(* Requests: a handler changes the connection it answers, and what it      *)
(* registers or submits.                                                   *)
LEMMA InitInv == Init => IndInv
<1> SUFFICES ASSUME Init PROVE IndInv
  OBVIOUS
<1>1. HttpInv
  BY HttpAssumption DEF Init, HttpInit, HttpInv
<1>2. CountInv
  BY JobsAssumption DEF Init, CountInv
<1>3. TaskInv /\ NameInv /\ StartedInv /\ PortInv /\ ServiceInv
  BY DEF Init, TaskInv, NameInv, StartedInv, PortInv, ServiceInv
<1>. QED  BY <1>1, <1>2, <1>3 DEF IndInv

LEMMA HttpUnchanged ==
  ASSUME HttpInv, UNCHANGED httpVars
  PROVE  HttpInv'
BY DEF HttpInv, httpVars, Exchanged, Answered

(* The connections of the other clients, and the shape of them all, after  *)
(* a step of the connection of client c.                                   *)
LEMMA ConnectionInv ==
  ASSUME HttpInv, NEW c \in Client, NEW e, Exchanged(e),
         exchange' = [exchange EXCEPT ![c] = e], asks' \in 0 .. MaxAsks
  PROVE  HttpInv'
<1>1. exchange'[c] = e
  BY DEF HttpInv
<1>2. \A d \in Client \ {c} : exchange'[d] = exchange[d]
  BY DEF HttpInv
<1>3. \A d \in Client : exchange'[d] = Closed \/ Exchanged(exchange'[d])
  BY <1>1, <1>2 DEF HttpInv
<1>4. DOMAIN exchange' = Client /\ exchange' = [d \in Client |-> exchange'[d]]
  BY DEF HttpInv
<1>. QED  BY <1>3, <1>4 DEF HttpInv, Exchanged, Answered

(* An answer that is justified by the request. *)
LEMMA AnswersInv ==
  ASSUME HttpInv, NEW c \in Client, Waiting(c), NEW status, NEW body,
         Answers(c, status, body), Justified(exchange[c].request, body)
  PROVE  HttpInv'
<1> DEFINE e == exchange[c]
           answer == [status |-> StatusLine(status), body |-> body]
           r == [request |-> e.request, read |-> e.read, answer |-> answer]
<1>1. Exchanged(e)
  BY DEF HttpInv, Waiting
<1>2. exchange' = [exchange EXCEPT ![c].answer = answer] /\ asks' = asks
  BY DEF Answers
<1>3. StatusLine(status) \in {0, 200, 404, 500}
  BY DEF StatusLine
<1>4. exchange' = [exchange EXCEPT ![c] = r]
  <2>1. [e EXCEPT !.answer = answer] = r
    BY <1>1 DEF Exchanged
  <2>. QED  BY <1>2, <2>1 DEF HttpInv
<1>5. Exchanged(r)
  BY <1>1, <1>3 DEF Exchanged, Answered
<1>. QED  BY <1>2, <1>4, <1>5, ConnectionInv DEF HttpInv

(* The fields of a request that is being read are numbers. *)
LEMMA Sizes ==
  ASSUME HttpInv, NEW c \in Client, Waiting(c)
  PROVE  LET e == exchange[c]
         IN  /\ Exchanged(e)
             /\ e.request.header \in Nat /\ e.request.length \in Nat
             /\ e.request.sent \in Nat /\ e.read \in Nat /\ e.read <= e.request.sent
             /\ {Chunk, MaxHeader, MaxBody} \subseteq Nat
<1>1. Exchanged(exchange[c])
  BY DEF HttpInv, Waiting
<1>2. exchange[c].request \in Request
  BY <1>1 DEF Exchanged
<1>. QED  BY <1>1, <1>2, RequestAssumption, HttpAssumption DEF Exchanged

(* n more units are read, which leave the header within the limit. *)
LEMMA ReadInv ==
  ASSUME HttpInv, NEW c \in Client, Waiting(c), NEW n \in Reads(c),
         HasHeader(c) \/ exchange[c].read + n <= MaxHeader,
         exchange' = [exchange EXCEPT ![c].read = @ + n], UNCHANGED asks
  PROVE  HttpInv'
<1> DEFINE e == exchange[c]
           more == e.read + n
           r == [request |-> e.request, read |-> more, answer |-> e.answer]
<1>1. /\ Exchanged(e) /\ e.request.header \in Nat /\ e.request.sent \in Nat
      /\ e.read \in Nat /\ MaxHeader \in Nat /\ Chunk \in Nat
  BY Sizes
<1>2. n \in Nat /\ more <= e.request.sent
  BY <1>1 DEF Reads
<1>3. more \in Nat /\ (more >= e.request.header => e.request.header <= MaxHeader)
  BY <1>1, <1>2 DEF HasHeader, Exchanged
<1>4. exchange' = [exchange EXCEPT ![c] = r]
  <2>1. [e EXCEPT !.read = more] = r
    BY <1>1 DEF Exchanged
  <2>2. exchange' = [exchange EXCEPT ![c] = [e EXCEPT !.read = more]]
    BY DEF HttpInv
  <2>. QED  BY <2>1, <2>2
<1> HIDE DEF more
<1>5. Exchanged(r)
  BY <1>1, <1>2, <1>3 DEF Exchanged, Answered
<1>. QED  BY <1>4, <1>5, ConnectionInv DEF HttpInv

LEMMA ClientInv ==
  ASSUME HttpInv, NEW c \in Client, ClientStep(c) \/ ServerReads(c)
  PROVE  HttpInv'
<1> DEFINE e == exchange[c]
<1>1. ASSUME NEW request \in Request, Ask(c, request) PROVE HttpInv'
  <2> DEFINE r == [request |-> request, read |-> 0, answer |-> Unanswered]
  <2>1. /\ asks' = asks + 1 /\ asks < MaxAsks
        /\ exchange' = [exchange EXCEPT ![c] = r]
    BY <1>1 DEF Ask
  <2>2. request.header \in Nat /\ request.header # 0 /\ request.sent \in Nat
    BY RequestAssumption
  <2>3. Exchanged(r)
    BY <2>2 DEF Exchanged, Answered, Unanswered
  <2>4. asks' \in 0 .. MaxAsks
    BY <2>1, HttpAssumption DEF HttpInv
  <2>. QED  BY <2>1, <2>3, <2>4, ConnectionInv
<1>2. CASE ReadHeader(c)
  <2>1. Waiting(c) /\ ~HasHeader(c)
    BY <1>2 DEF ReadHeader
  <2>2. PICK n \in Reads(c) :
          IF e.read + n > MaxHeader
            THEN Answers(c, 500, <<"error">>)
            ELSE exchange' = [exchange EXCEPT ![c].read = @ + n] /\ UNCHANGED asks
    BY <1>2 DEF ReadHeader
  <2>3. /\ e.request.header \in Nat /\ e.request.sent \in Nat /\ e.read \in Nat
        /\ MaxHeader \in Nat /\ Chunk \in Nat
    BY <2>1, Sizes
  <2>4. n \in 1 .. Chunk /\ e.read + n <= e.request.sent /\ e.read < e.request.header
    BY <2>1, <2>3 DEF Reads, HasHeader
  <2>5. CASE e.read + n > MaxHeader
    <3>1. e.request.sent > MaxHeader /\ e.request.header + Chunk > MaxHeader + 1
      BY <2>3, <2>4, <2>5
    <3>. QED  BY <2>1, <2>2, <2>5, <3>1, AnswersInv DEF Justified
  <2>6. CASE ~(e.read + n > MaxHeader)
    BY <2>1, <2>2, <2>3, <2>4, <2>6, ReadInv
  <2>. QED  BY <2>5, <2>6
<1>3. CASE ReadBody(c)
  BY <1>3, ReadInv DEF ReadBody, GoodHeader
<1>4. CASE ReadFails(c)
  <2>1. Waiting(c) /\ Answers(c, 500, <<"error">>)
    BY <1>4 DEF ReadFails
  <2>2. \/ ~e.request.line
        \/ e.request.length > MaxBody
        \/ e.request.sent < e.request.header + e.request.length
    BY <1>4, <2>1, Sizes DEF ReadFails, GoodHeader, HasHeader, HasBody
  <2>. QED  BY <2>1, <2>2, AnswersInv DEF Justified
<1>. QED  BY <1>1, <1>2, <1>3, <1>4 DEF ClientStep, ServerReads

(* A whole request may be given any answer but that it could not be read,  *)
(* and is refused only if it is malformed.                                 *)
LEMMA WholeInv ==
  ASSUME HttpInv, NEW c \in Client, Whole(c), NEW status, NEW body,
         Answers(c, status, body), body # <<"error">>,
         body = <<"refused">> => ~Parses(c)
  PROVE  HttpInv'
<1>1. /\ Waiting(c) /\ HasHeader(c) /\ HasBody(c)
      /\ exchange[c].request.line /\ exchange[c].request.length <= MaxBody
  BY DEF Whole, GoodHeader
<1>2. exchange[c].request.header <= MaxHeader
  BY <1>1, Sizes DEF HasHeader, Exchanged
<1>3. exchange[c].request.sent >= exchange[c].request.header + exchange[c].request.length
  BY <1>1, Sizes DEF HasBody
<1>4. body = <<"refused">> => ~exchange[c].request.valid
  BY <1>1 DEF Parses
<1>. QED  BY <1>1, <1>2, <1>3, <1>4, AnswersInv DEF Justified

----------------------------------------------------------------------------
(* What a job's task and its record owe each other does not depend on the  *)
(* other jobs.                                                             *)
LEMMA JobShape ==
  ASSUME CountInv
  PROVE  /\ DOMAIN jobs = 1 .. (nonce - 1)
         /\ DOMAIN task = 1 .. (nonce - 1)
         /\ DOMAIN pinned = 1 .. (nonce - 1)
         /\ nonce \in Nat
         /\ \A j \in DOMAIN task :
              task[j] \in TaskRecord /\ jobs[j] \in JobRecord /\ pinned[j] \in Meta
BY JobsAssumption DEF CountInv

LEMMA RequestInv ==
  ASSUME IndInv, NEW c \in Client,
         RegisterDataset(c) \/ SubmitJobUnknown(c) \/ GetJob(c)
  PROVE  IndInv'
<1> USE DEF IndInv
<1>1. Whole(c) /\ Exchanged(exchange[c])
  BY DEF RegisterDataset, SubmitJobUnknown, GetJob, Handles, Whole, Waiting, HttpInv
<1>2. UNCHANGED <<nonce, taskVars, worker, pinned, troubles>>
  BY DEF RegisterDataset, SubmitJobUnknown, GetJob
<1>3. HttpInv'
  <2>1. ASSUME NEW status, NEW what, Answers(c, status, <<what>>),
               what \notin {"error", "refused"}
        PROVE  HttpInv'
    <3>1. <<what>> # <<"refused">> /\ <<what>> # <<"error">>
      BY <2>1
    <3>. QED  BY <1>1, <2>1, <3>1, WholeInv
  <2>2. CASE RegisterDataset(c)
    BY <2>1, <2>2 DEF RegisterDataset
  <2>3. CASE SubmitJobUnknown(c)
    <3>1. "dataset not found" \notin {"error", "refused"}
      OBVIOUS
    <3>. QED  BY <2>1, <2>3, <3>1 DEF SubmitJobUnknown
  <2>4. CASE GetJob(c)
    <3>1. \A j \in DOMAIN jobs : jobs[j].status \notin {"error", "refused"}
      BY JobShape DEF JobRecord
    <3>2. "job not found" \notin {"error", "refused"}
      OBVIOUS
    <3>. QED  BY <2>1, <2>4, <3>1, <3>2 DEF GetJob
  <2>. QED  BY <2>2, <2>3, <2>4
<1>4. CountInv'
  <2>1. CASE RegisterDataset(c)
    <3>1. /\ exchange[c].request.dataset \in Dataset
          /\ exchange[c].request.meta \in Meta
      BY <1>1, <2>1, RequestAssumption DEF RegisterDataset, Handles, Exchanged
    <3>2. datasets' = Insert(datasets, exchange[c].request.dataset, exchange[c].request.meta)
      BY <2>1 DEF RegisterDataset
    <3>. QED  BY <1>2, <3>1, <3>2 DEF CountInv, Insert, taskVars
  <2>2. CASE SubmitJobUnknown(c) \/ GetJob(c)
    <3>1. UNCHANGED datasets
      BY <2>2 DEF SubmitJobUnknown, GetJob
    <3>. QED  BY <1>2, <3>1 DEF CountInv, taskVars
  <2>. QED  BY <2>1, <2>2
<1>5. TaskInv' /\ NameInv' /\ StartedInv'
  BY <1>2 DEF TaskInv, NameInv, StartedInv, Started, Recorded, Progress, taskVars
<1>6. "collision" \notin troubles' => PortInv' /\ ServiceInv'
  BY <1>2 DEF taskVars, PortInv, ServiceInv, Current, Serviced, Fresh, Asked, Serves
<1>. QED  BY <1>3, <1>4, <1>5, <1>6

LEMMA HttpStepInv ==
  ASSUME IndInv, NEW c \in Client, HttpStep(c) \/ RefuseRequest(c)
  PROVE  IndInv'
<1> USE DEF IndInv
<1>1. UNCHANGED <<datasets, nonce, taskVars, worker, pinned, troubles>>
  BY DEF HttpStep, RefuseRequest
<1>2. HttpInv'
  <2>1. CASE HttpStep(c)
    BY <2>1, ClientInv DEF HttpStep
  <2>2. CASE RefuseRequest(c)
    <3>1. <<"refused">> # <<"error">>
      OBVIOUS
    <3>. QED  BY <2>2, <3>1, WholeInv DEF RefuseRequest
  <2>. QED  BY <2>1, <2>2
<1>3. CountInv'
  BY <1>1 DEF CountInv, taskVars
<1>4. TaskInv' /\ NameInv' /\ StartedInv'
  BY <1>1 DEF TaskInv, NameInv, StartedInv, Started, Recorded, Progress, taskVars
<1>5. "collision" \notin troubles' => PortInv' /\ ServiceInv'
  BY <1>1 DEF taskVars, PortInv, ServiceInv, Current, Serviced, Fresh, Asked, Serves
<1>. QED  BY <1>2, <1>3, <1>4, <1>5

(* What is said of a worker holds on as long as neither the worker nor the *)
(* task of its job changes.                                                *)
LEMMA ServicedStays ==
  ASSUME NEW u, worker'[u] = worker[u], task'[u[1]] = task[u[1]],
         Current(u) => Serviced(u)
  PROVE  Current(u)' => Serviced(u)'
<1>1. Current(u)' = Current(u) /\ Fresh(u)' = Fresh(u) /\ Asked(u)' = Asked(u)
  BY DEF Current, Fresh, Asked
<1>2. Serves(u)' = Serves(u)
  BY DEF Serves
<1>. QED  BY <1>1, <1>2 DEF Serviced

(* A job that is submitted gets the next id, and nothing of any other job  *)
(* or worker changes.                                                      *)
LEMMA SubmitInv ==
  ASSUME IndInv, NEW c \in Client, SubmitJob(c)
  PROVE  IndInv'
<1> USE DEF IndInv
<1> DEFINE submission == exchange[c].request
           meta == datasets[submission.dataset]
           job == NewJob(submission)
           t == NewTask(submission, meta)
<1>1. Whole(c) /\ Exchanged(exchange[c])
  BY DEF SubmitJob, Handles, Whole, Waiting, HttpInv
<1>2. /\ nonce <= MaxJobs /\ nonce' = nonce + 1
      /\ jobs' = Append(jobs, job)
      /\ task' = Append(task, t)
      /\ pinned' = Append(pinned, meta)
      /\ Answers(c, 200, <<"job", nonce>>)
      /\ UNCHANGED <<datasets, worker, troubles>>
  BY DEF SubmitJob
<1>3. /\ submission.dataset \in Dataset /\ submission.workers \in Nat
      /\ submission.run \in Seq(STRING)
      /\ submission.param \in [Algorithms -> Param] /\ submission.out \in BOOLEAN
      /\ meta \in Meta
  BY <1>1, RequestAssumption DEF SubmitJob, Handles, Exchanged, CountInv
<1>4. job \in JobRecord
  BY <1>3 DEF JobRecord, NewJob, Reports
<1>5. t \in TaskRecord
  BY <1>3 DEF TaskRecord, NewTask, Reports, Pcs, Positions
<1>6. /\ t.pc = "spawned" /\ t.n = 1 /\ t.i = 1 /\ t.wcc = None /\ t.pr = None
      /\ t.meta = meta /\ job.status = "pending"
  BY DEF NewTask, NewJob
<1> HIDE DEF meta, job, t
<1>7. CountInv'
  <2>1. /\ jobs' \in Seq(JobRecord) /\ Len(jobs') = Len(jobs) + 1
        /\ task' \in Seq(TaskRecord) /\ Len(task') = Len(task) + 1
        /\ pinned' \in Seq(Meta) /\ Len(pinned') = Len(pinned) + 1
    BY <1>2, <1>3, <1>4, <1>5 DEF CountInv
  <2>2. nonce' \in 1 .. (MaxJobs + 1)
    BY <1>2, JobsAssumption DEF CountInv
  <2>. QED  BY <1>2, <2>1, <2>2 DEF CountInv
<1>8. /\ DOMAIN jobs' = DOMAIN jobs \cup {nonce}
      /\ DOMAIN task' = DOMAIN task \cup {nonce}
      /\ nonce \notin DOMAIN task
      /\ jobs'[nonce] = job /\ task'[nonce] = t /\ pinned'[nonce] = meta
  BY <1>2, JobShape DEF CountInv
<1>9. \A j \in DOMAIN task :
        jobs'[j] = jobs[j] /\ task'[j] = task[j] /\ pinned'[j] = pinned[j]
  BY <1>2, JobShape DEF CountInv
<1>10. HttpInv'
  <2>1. <<"job", nonce>> # <<"refused">> /\ <<"job", nonce>> # <<"error">>
    BY SMT
  <2>. QED  BY <1>1, <1>2, <2>1, WholeInv
<1>11. TaskInv'
  <2>1. ASSUME NEW j \in DOMAIN task
        PROVE  (task[j].meta = pinned[j] /\ Progress(task[j]) /\ Recorded(jobs[j], task[j], troubles))'
    <3>1. jobs'[j] = jobs[j] /\ task'[j] = task[j] /\ pinned'[j] = pinned[j]
      BY <1>9
    <3>2. task[j].meta = pinned[j] /\ Progress(task[j]) /\ Recorded(jobs[j], task[j], troubles)
      BY DEF TaskInv
    <3>3. Recorded(jobs[j], task[j], troubles)'
      BY <1>2, <3>1, <3>2 DEF Recorded
    <3>. QED  BY <3>1, <3>2, <3>3
  <2>2. Progress(t)
    <3>1. t.workers \in Nat
      BY <1>5 DEF TaskRecord
    <3>2. t["wcc"] = None /\ t["pr"] = None
      BY <1>6
    <3>. QED  BY <1>6, <3>1, <3>2 DEF Progress, Reported, AtItem, Through, Algorithms
  <2>3. ASSUME NEW j \in DOMAIN task', j = nonce
        PROVE  (task[j].meta = pinned[j] /\ Progress(task[j]) /\ Recorded(jobs[j], task[j], troubles))'
    <3>1. Recorded(job, t, troubles')
      BY <1>6 DEF Recorded
    <3>. QED  BY <1>6, <1>8, <2>2, <2>3, <3>1
  <2>. QED  BY <1>8, <2>1, <2>3 DEF TaskInv
<1>12. NameInv'
  BY <1>2, <1>8, <1>9 DEF NameInv
<1>13. StartedInv'
  <2>1. ASSUME NEW j \in DOMAIN task PROVE Started(j)'
    <3>1. task'[j] = task[j] /\ worker' = worker /\ Started(j)
      BY <1>2, <1>9 DEF StartedInv
    <3>. QED  BY <3>1 DEF Started
  <2>2. ASSUME NEW j, j = nonce PROVE Started(j)'
    <3>1. \A u \in DOMAIN worker : u[1] # j
      BY <1>8, <2>2 DEF NameInv
    <3>2. task'[j].pc = "spawned" /\ worker' = worker
      BY <1>2, <1>6, <1>8, <2>2
    <3>. QED  BY <3>1, <3>2 DEF Started
  <2>3. \A j \in DOMAIN task' : j \in DOMAIN task \/ j = nonce
    BY <1>8
  <2>. QED  BY <2>1, <2>2, <2>3 DEF StartedInv
<1>14. "collision" \notin troubles' => PortInv' /\ ServiceInv'
  <2>1. PortInv => PortInv'
    BY <1>2 DEF PortInv
  <2>2. \A u \in DOMAIN worker : task'[u[1]] = task[u[1]]
    BY <1>9 DEF NameInv
  <2>3. ServiceInv => ServiceInv'
    BY <1>2, <2>2, ServicedStays DEF ServiceInv
  <2>. QED  BY <1>2, <2>1, <2>3
<1>. QED  BY <1>7, <1>10, <1>11, <1>12, <1>13, <1>14

----------------------------------------------------------------------------
(* The task of a job: what a step of one task has to keep.                 *)
LEMMA TaskFrame ==
  ASSUME IndInv, NEW j \in DOMAIN task, NEW t \in TaskRecord, NEW job \in JobRecord,
         task' = [task EXCEPT ![j] = t], jobs' = [jobs EXCEPT ![j] = job],
         UNCHANGED <<httpVars, datasets, nonce, pinned>>,
         troubles \subseteq troubles', troubles' \subseteq {"collision", "timeout"},
         t.meta = task[j].meta, Progress(t), Recorded(job, t, troubles')
  PROVE  /\ HttpInv' /\ CountInv' /\ TaskInv'
         /\ DOMAIN task' = DOMAIN task
         /\ task'[j] = t
         /\ \A k \in DOMAIN task : k # j => task'[k] = task[k]
<1> USE DEF IndInv
<1>1. /\ DOMAIN jobs = DOMAIN task /\ DOMAIN jobs' = DOMAIN task
      /\ DOMAIN task' = DOMAIN task
      /\ jobs'[j] = job /\ task'[j] = t
  BY JobShape
<1>2. \A k \in DOMAIN task : k # j => jobs'[k] = jobs[k] /\ task'[k] = task[k]
  BY <1>1
<1>3. HttpInv'
  BY <1>1, HttpUnchanged
<1>4. CountInv'
  <2>1. /\ task' \in Seq(TaskRecord) /\ Len(task') = Len(task)
        /\ jobs' \in Seq(JobRecord) /\ Len(jobs') = Len(jobs)
    BY <1>1 DEF CountInv
  <2>. QED  BY <2>1 DEF CountInv
<1>5. TaskInv'
  <2>1. ASSUME NEW k \in DOMAIN task, k # j
        PROVE  (task[k].meta = pinned[k] /\ Progress(task[k]) /\ Recorded(jobs[k], task[k], troubles))'
    <3>1. jobs'[k] = jobs[k] /\ task'[k] = task[k]
      BY <1>2, <2>1
    <3>2. task[k].meta = pinned[k] /\ Progress(task[k]) /\ Recorded(jobs[k], task[k], troubles)
      BY DEF TaskInv
    <3>3. Recorded(jobs[k], task[k], troubles)'
      BY <3>1, <3>2 DEF Recorded
    <3>. QED  BY <3>1, <3>2, <3>3
  <2>2. ASSUME NEW k \in DOMAIN task, k = j
        PROVE  (task[k].meta = pinned[k] /\ Progress(task[k]) /\ Recorded(jobs[k], task[k], troubles))'
    <3>1. jobs'[k] = job /\ task'[k] = t
      BY <1>1, <2>2
    <3>2. t.meta = pinned[k]
      BY <2>2 DEF TaskInv
    <3>3. Recorded(jobs[k], task[k], troubles)'
      BY <3>1 DEF Recorded
    <3>. QED  BY <3>1, <3>2, <3>3
  <2>. QED  BY <1>1, <2>1, <2>2 DEF TaskInv
<1>. QED  BY <1>1, <1>2, <1>3, <1>4, <1>5

LEMMA NamesFrame ==
  ASSUME NameInv, NEW j \in DOMAIN task, UNCHANGED worker,
         DOMAIN task' = DOMAIN task,
         \A k \in DOMAIN task : k # j => task'[k] = task[k],
         task'[j].run = task[j].run, task'[j].workers = task[j].workers
  PROVE  NameInv'
<1>1. \A k \in DOMAIN task : /\ task'[k].run = task[k].run
                             /\ task'[k].workers = task[k].workers
  OBVIOUS
<1>. QED  BY <1>1 DEF NameInv

(* Where the loop over the items of a job goes on from item m: at the next *)
(* one that names an algorithm, or with the verification.                  *)
Advanced(t, s, m) ==
  /\ s \in TaskRecord
  /\ Same(s, t)
  /\ s.wcc = t.wcc /\ s.pr = t.pr /\ s.i = 1
  /\ \/ /\ s.pc = "verify" /\ s.n = t.n
        /\ \A k \in DOMAIN t.run : k >= m => t.run[k] \notin DOMAIN Kind
     \/ /\ s.pc \in {"start", "connect"}
        /\ s.pc = "start" <=> t.workers > 0
        /\ s.n \in DOMAIN t.run /\ s.n >= m /\ t.run[s.n] \in DOMAIN Kind
        /\ \A k \in DOMAIN t.run : k >= m /\ k < s.n => t.run[k] \notin DOMAIN Kind

LEMMA GoesToAdvances ==
  ASSUME NEW j, NEW t \in TaskRecord, NEW m \in Positions, GoesTo(j, t, m)
  PROVE  \E s : Becoming(j, s) /\ Advanced(t, s, m)
<1> USE DEF Same
<1> DEFINE known == {k \in m .. Len(t.run) : t.run[k] \in DOMAIN Kind}
           s == [t EXCEPT
                   !.pc = IF known = {} THEN "verify"
                          ELSE IF t.workers > 0 THEN "start" ELSE "connect",
                   !.n = IF known = {} THEN @ ELSE Min(known),
                   !.i = 1]
<1>1. Becoming(j, s)
  BY DEF GoesTo
<1>2. Len(t.run) \in Nat /\ DOMAIN t.run = 1 .. Len(t.run) /\ t.workers \in Nat
  BY DEF TaskRecord
<1>3. known \subseteq Nat
  BY <1>2 DEF Positions
<1>4. \A k \in DOMAIN t.run : k >= m /\ t.run[k] \in DOMAIN Kind => k \in known
  BY <1>2 DEF Positions
<1>5. \A k \in known : k \in DOMAIN t.run /\ k >= m /\ t.run[k] \in DOMAIN Kind /\ k # 0
  BY <1>2 DEF Positions
<1> HIDE DEF known
<1>6. CASE known = {}
  <2>1. /\ s \in TaskRecord /\ s.pc = "verify" /\ s.n = t.n /\ s.i = 1
        /\ Same(s, t)
        /\ s.wcc = t.wcc /\ s.pr = t.pr
    <3>1. s = [t EXCEPT !.pc = "verify", !.n = t.n, !.i = 1]
      BY <1>6
    <3> HIDE DEF s
    <3>2. t.n \in Positions /\ 1 \in Positions /\ "verify" \in Pcs
      BY DEF TaskRecord, Positions, Pcs
    <3>3. s \in TaskRecord
      BY <3>1, <3>2 DEF TaskRecord
    <3>4. s.pc = "verify" /\ s.n = t.n /\ s.i = 1
      BY <3>1 DEF TaskRecord
    <3>5. Same(s, t)
      BY <3>1 DEF TaskRecord
    <3>6. s.wcc = t.wcc /\ s.pr = t.pr
      BY <3>1 DEF TaskRecord
    <3>. QED  BY <3>3, <3>4, <3>5, <3>6
  <2> HIDE DEF s
  <2>2. \A k \in DOMAIN t.run : k >= m => t.run[k] \notin DOMAIN Kind
    BY <1>4, <1>6
  <2>3. Advanced(t, s, m)
    BY <2>1, <2>2 DEF Advanced
  <2>. QED  BY <1>1, <2>3
<1>7. CASE known # {}
  <2>1. Min(known) \in known /\ \A k \in known : Min(known) <= k
    BY <1>3, <1>7, MinIsLeast
  <2>2. Min(known) \in Positions
    BY <1>3, <1>5, <2>1 DEF Positions
  <2>3. /\ s \in TaskRecord /\ s.n = Min(known) /\ s.i = 1
        /\ s.pc = IF t.workers > 0 THEN "start" ELSE "connect"
        /\ Same(s, t)
        /\ s.wcc = t.wcc /\ s.pr = t.pr
    <3> DEFINE pc == IF t.workers > 0 THEN "start" ELSE "connect"
    <3>1. s = [t EXCEPT !.pc = pc, !.n = Min(known), !.i = 1]
      BY <1>7
    <3>2. pc \in {"start", "connect"}
      OBVIOUS
    <3> HIDE DEF s, pc
    <3>3. s \in TaskRecord
      <4> DEFINE least == Min(known)
      <4>1. least \in Positions /\ s = [t EXCEPT !.pc = pc, !.n = least, !.i = 1]
        BY <2>2, <3>1
      <4>2. pc \in Pcs /\ 1 \in Positions
        BY <3>2 DEF Pcs, Positions
      <4> HIDE DEF least
      <4>. QED  BY <4>1, <4>2 DEF TaskRecord
    <3>4. s.pc = pc /\ s.n = Min(known) /\ s.i = 1
      BY <3>1 DEF TaskRecord
    <3>5. Same(s, t)
      BY <3>1 DEF TaskRecord
    <3>6. s.wcc = t.wcc /\ s.pr = t.pr
      BY <3>1 DEF TaskRecord
    <3>. QED  BY <3>3, <3>4, <3>5, <3>6 DEF pc
  <2> HIDE DEF s
  <2>4. \A k \in DOMAIN t.run : k >= m /\ k < s.n => t.run[k] \notin DOMAIN Kind
    BY <1>2, <1>4, <2>1, <2>2, <2>3 DEF Positions
  <2>5. s.n \in DOMAIN t.run /\ s.n >= m /\ t.run[s.n] \in DOMAIN Kind
    BY <1>5, <2>1, <2>3
  <2>6. Advanced(t, s, m)
    BY <2>3, <2>4, <2>5 DEF Advanced
  <2>. QED  BY <1>1, <2>6
<1>. QED  BY <1>6, <1>7

(* The reports of a task are in order as long as they are the same and it  *)
(* is through with no more items.                                          *)
LEMMA ReportsStay ==
  ASSUME NEW t, NEW s, Reported(t), Same(s, t),
         s["wcc"] = t["wcc"], s["pr"] = t["pr"],
         \A k \in DOMAIN t.run : Through(s, k) => Through(t, k)
  PROVE  Reported(s)
<1>1. \A kind \in Algorithms : s[kind] = t[kind]
  BY DEF Algorithms
<1>2. \A k \in DOMAIN s.run : s.run[k] \in DOMAIN Kind => Kind[s.run[k]] \in Algorithms
  BY KindShape DEF Algorithms
<1>3. \A kind \in Algorithms : s[kind] # None =>
        /\ s[kind] = Compared(s.meta, kind, s.param[kind])
        /\ s.meta[kind].files
        /\ Names(s.run, kind)
  BY <1>1 DEF Reported, Same
<1>4. \A k \in DOMAIN s.run :
        s.run[k] \in DOMAIN Kind /\ Through(s, k) => s[Kind[s.run[k]]] # None
  BY <1>1, <1>2 DEF Reported, Same
<1>. QED  BY <1>3, <1>4 DEF Reported

LEMMA StartedStays ==
  ASSUME NEW j, task'[j] = task[j], Started(j),
         \A u \in DOMAIN worker' : u[1] = j => u \in DOMAIN worker,
         DOMAIN worker \subseteq DOMAIN worker'
  PROVE  Started(j)'
BY DEF Started

(* The step of one task, when it leaves the workers alone. *)
LEMMA OthersStay ==
  ASSUME NameInv, StartedInv, NEW j \in DOMAIN task,
         DOMAIN task' = DOMAIN task,
         \A k \in DOMAIN task : k # j => task'[k] = task[k],
         UNCHANGED worker, Started(j)',
         PortInv /\ ServiceInv =>
           \A u \in DOMAIN worker : u[1] = j => (Current(u)' => Serviced(u)')
  PROVE  StartedInv' /\ (PortInv /\ ServiceInv => PortInv' /\ ServiceInv')
<1>1. ASSUME NEW k \in DOMAIN task, k # j PROVE Started(k)'
  BY <1>1, StartedStays DEF StartedInv
<1>2. StartedInv'
  BY <1>1 DEF StartedInv
<1>3. PortInv => PortInv'
  BY DEF PortInv
<1>4. ASSUME PortInv, ServiceInv, NEW u \in DOMAIN worker, u[1] # j
      PROVE  Current(u)' => Serviced(u)'
  <2>1. task'[u[1]] = task[u[1]]
    BY <1>4 DEF NameInv
  <2>. QED  BY <1>4, <2>1, ServicedStays DEF ServiceInv
<1>5. PortInv /\ ServiceInv => ServiceInv'
  BY <1>4 DEF ServiceInv
<1>. QED  BY <1>2, <1>3, <1>5

LEMMA TaskStartsInv ==
  ASSUME IndInv, NEW j \in DOMAIN task, TaskStarts(j)
  PROVE  IndInv'
<1> USE DEF IndInv, Same
<1> DEFINE t == task[j]
           job == [jobs[j] EXCEPT !.status = "running"]
<1>1. /\ t.pc = "spawned" /\ GoesTo(j, t, 1)
      /\ jobs' = [jobs EXCEPT ![j].status = "running"]
      /\ UNCHANGED <<httpVars, datasets, nonce, worker, pinned, troubles>>
  BY DEF TaskStarts, At
<1>2. t \in TaskRecord /\ jobs[j] \in JobRecord /\ j \in DOMAIN jobs
  BY JobShape
<1>3. jobs' = [jobs EXCEPT ![j] = job]
  BY <1>1
<1>4. job \in JobRecord /\ job.status = "running"
  BY <1>2 DEF JobRecord
<1>5. Progress(t)
  BY DEF TaskInv
<1> HIDE DEF job, t
<1>6. PICK s : Becoming(j, s) /\ Advanced(t, s, 1)
  BY <1>1, <1>2, GoesToAdvances DEF Positions
<1>7. task' = [task EXCEPT ![j] = s]
  BY <1>6 DEF Becoming
<1>8. t.n = 1 /\ t.wcc = None /\ t.pr = None /\ t.workers \in Nat /\ t.run \in Seq(STRING)
  BY <1>1, <1>2, <1>5 DEF Progress, TaskRecord
<1>9. Progress(s)
  <2>1. s["wcc"] = None /\ s["pr"] = None
    BY <1>6, <1>8 DEF Advanced
  <2>2. \A k \in DOMAIN s.run : s.run[k] \in DOMAIN Kind => ~Through(s, k)
    BY <1>6, <1>8 DEF Advanced, Through, AtItem
  <2>3. /\ s.n = 1 \/ s.n <= Len(s.run)
        /\ AtItem(s) => s.n \in DOMAIN s.run /\ s.run[s.n] \in DOMAIN Kind
        /\ s.pc # "spawned" /\ s.pc # "ready"
    BY <1>6, <1>8 DEF Advanced, AtItem
  <2>4. s.i <= s.workers + 1 /\ (s.pc = "start" => s.i <= s.workers)
    BY <1>6, <1>8 DEF Advanced
  <2>. QED  BY <2>1, <2>2, <2>3, <2>4 DEF Progress, Reported, Algorithms
<1>10. Recorded(job, s, troubles')
  BY <1>4, <1>6 DEF Recorded, Advanced
<1>11. /\ HttpInv' /\ CountInv' /\ TaskInv'
       /\ DOMAIN task' = DOMAIN task
       /\ task'[j] = s
       /\ \A k \in DOMAIN task : k # j => task'[k] = task[k]
  BY <1>1, <1>3, <1>4, <1>6, <1>7, <1>9, <1>10, TaskFrame DEF Advanced, CountInv, t
<1>12. NameInv'
  BY <1>1, <1>6, <1>11, NamesFrame DEF Advanced, t
<1>13. \A u \in DOMAIN worker : u[1] # j
  BY <1>1 DEF StartedInv, Started, t
<1>14. Started(j)'
  BY <1>1, <1>6, <1>8, <1>11, <1>13 DEF Started, Advanced
<1>15. StartedInv' /\ (PortInv /\ ServiceInv => PortInv' /\ ServiceInv')
  BY <1>1, <1>11, <1>13, <1>14, OthersStay
<1>. QED  BY <1>1, <1>11, <1>12, <1>15

(* A connection is made: with no port given twice, to the worker it is     *)
(* meant for, which has been waiting for it.                               *)
LEMMA ConnectInv ==
  ASSUME IndInv, NEW j \in DOMAIN task, Connect(j)
  PROVE  IndInv'
<1> USE DEF IndInv, Same
<1> DEFINE t == task[j]
           s == [t EXCEPT !.pc = "ready"]
<1>. PICK here : here = Here(j)
  OBVIOUS
<1>1. /\ t.pc = "connect" /\ t.i <= t.workers
      /\ task' = [task EXCEPT ![j] = s]
      /\ UNCHANGED <<httpVars, datasets, nonce, jobs, pinned, troubles>>
  BY DEF Connect, At, Becoming
<1>2. PICK u \in Listeners(worker[here].port) :
        worker' = [worker EXCEPT ![u].backlog = Append(@, here)]
  BY DEF Connect
<1>3. t \in TaskRecord /\ jobs[j] \in JobRecord /\ j \in DOMAIN jobs
  BY JobShape
<1>4. Progress(t) /\ Recorded(jobs[j], t, troubles)
  BY DEF TaskInv
<1> HIDE DEF t
<1>5. s \in TaskRecord
  BY <1>3 DEF TaskRecord, Pcs
<1>6. /\ s.pc = "ready" /\ s.n = t.n /\ s.i = t.i
      /\ Same(s, t)
  BY <1>3 DEF TaskRecord
<1>7. s["wcc"] = t["wcc"] /\ s["pr"] = t["pr"]
  BY <1>3 DEF TaskRecord
<1> HIDE DEF s
<1>8. Progress(s)
  <2>1. \A k \in DOMAIN t.run : Through(s, k) => Through(t, k)
    BY <1>1, <1>4, <1>6 DEF Through, AtItem
  <2>2. Reported(s)
    BY <1>4, <1>6, <1>7, <2>1, ReportsStay DEF Progress
  <2> HIDE DEF Same
  <2>3. s.run = t.run /\ s.workers = t.workers
    BY <1>6 DEF Same
  <2>. QED  BY <1>1, <1>4, <1>6, <2>2, <2>3 DEF Progress, AtItem
<1>9. Recorded(jobs[j], s, troubles')
  BY <1>1, <1>4, <1>6 DEF Recorded
<1>10. jobs' = [jobs EXCEPT ![j] = jobs[j]]
  BY <1>1 DEF CountInv
<1>11. /\ HttpInv' /\ CountInv' /\ TaskInv'
       /\ DOMAIN task' = DOMAIN task
       /\ task'[j] = s
       /\ \A k \in DOMAIN task : k # j => task'[k] = task[k]
  BY <1>1, <1>3, <1>5, <1>6, <1>8, <1>9, <1>10, TaskFrame DEF CountInv, t
<1>12. /\ t.n \in Nat /\ t.i \in Nat /\ t.i # 0 /\ j \in Nat /\ t.workers \in Nat
       /\ here = <<j, t.n, t.i>>
  BY <1>3, JobShape DEF TaskRecord, Positions, Here, t
<1>13. here \in DOMAIN worker
  BY <1>1, <1>12 DEF StartedInv, Started, t
<1>14. u \in DOMAIN worker /\ Bound(u) /\ worker[u].port = worker[here].port
  BY <1>2 DEF Listeners
<1>15. /\ DOMAIN worker' = DOMAIN worker
       /\ \A v \in DOMAIN worker : v # u => worker'[v] = worker[v]
       /\ worker'[u] = [state |-> worker[u].state, port |-> worker[u].port,
                        backlog |-> Append(worker[u].backlog, here),
                        peer |-> worker[u].peer, aborted |-> worker[u].aborted]
  <2> DEFINE longer == Append(worker[u].backlog, here)
  <2>1. worker' = [worker EXCEPT ![u].backlog = longer]
    BY <1>2
  <2> HIDE DEF longer
  <2>2. worker'[u] = [worker[u] EXCEPT !.backlog = longer]
    BY <1>14, <2>1 DEF NameInv
  <2>3. worker[u] = [state |-> worker[u].state, port |-> worker[u].port,
                     backlog |-> worker[u].backlog,
                     peer |-> worker[u].peer, aborted |-> worker[u].aborted]
    BY <1>14 DEF NameInv
  <2>4. worker'[u] = [state |-> worker[u].state, port |-> worker[u].port,
                      backlog |-> longer,
                      peer |-> worker[u].peer, aborted |-> worker[u].aborted]
    BY <2>2, <2>3
  <2>5. /\ DOMAIN worker' = DOMAIN worker
        /\ \A v \in DOMAIN worker : v # u => worker'[v] = worker[v]
    BY <2>1 DEF NameInv
  <2>. QED  BY <2>4, <2>5 DEF longer
<1>16. here \in Name
  BY <1>12 DEF Name
<1>17. NameInv'
  <2>1. \A k \in DOMAIN task : /\ task'[k].run = task[k].run
                               /\ task'[k].workers = task[k].workers
    BY <1>6, <1>11 DEF t
  <2>2. Append(worker[u].backlog, here) \in Seq(Name)
    BY <1>14, <1>16 DEF NameInv
  <2>3. worker' = [v \in DOMAIN worker' |-> worker'[v]]
    BY <1>2 DEF NameInv
  <2>4. ASSUME NEW v \in DOMAIN worker
        PROVE  /\ worker'[v] = [state |-> worker'[v].state, port |-> worker'[v].port,
                                backlog |-> worker'[v].backlog,
                                peer |-> worker'[v].peer, aborted |-> worker'[v].aborted]
               /\ worker'[v].state = worker[v].state
               /\ worker'[v].aborted = worker[v].aborted
               /\ worker'[v].backlog \in Seq(Name)
    <3>1. CASE v = u
      <4> DEFINE longer == Append(worker[u].backlog, here)
      <4>1. longer \in Seq(Name)
        BY <2>2
      <4>2. worker'[u] = [state |-> worker[u].state, port |-> worker[u].port,
                          backlog |-> longer,
                          peer |-> worker[u].peer, aborted |-> worker[u].aborted]
        BY <1>15
      <4> HIDE DEF longer, IndInv
      <4>. QED  BY <3>1, <4>1, <4>2
    <3>2. CASE v # u
      BY <1>15, <3>2 DEF NameInv
    <3>. QED  BY <3>1, <3>2
  <2>5. ASSUME NEW v \in DOMAIN worker
        PROVE  /\ v \in Name /\ v = <<v[1], v[2], v[3]>>
               /\ worker'[v].state \in {"spawned", "listening", "serving", "gone"}
               /\ worker'[v].aborted \in BOOLEAN
               /\ v[1] \in DOMAIN task'
               /\ v[2] \in DOMAIN task'[v[1]].run
               /\ task'[v[1]].run[v[2]] \in DOMAIN Kind
               /\ v[3] \in 1 .. task'[v[1]].workers
    <3>1. /\ v \in Name /\ v = <<v[1], v[2], v[3]>>
          /\ worker[v].state \in {"spawned", "listening", "serving", "gone"}
          /\ worker[v].aborted \in BOOLEAN
          /\ v[1] \in DOMAIN task
          /\ v[2] \in DOMAIN task[v[1]].run
          /\ task[v[1]].run[v[2]] \in DOMAIN Kind
          /\ v[3] \in 1 .. task[v[1]].workers
      BY DEF NameInv
    <3>. QED  BY <1>11, <2>1, <2>4, <3>1
  <2>6. DOMAIN worker' = DOMAIN worker
    BY <1>15
  <2>. QED  BY <2>3, <2>4, <2>5, <2>6 DEF NameInv
<1>18. StartedInv'
  <2>1. ASSUME NEW k \in DOMAIN task, k # j PROVE Started(k)'
    BY <1>11, <1>15, <2>1, StartedStays DEF StartedInv
  <2>2. Started(j)'
    BY <1>1, <1>6, <1>11, <1>15 DEF StartedInv, Started, t
  <2>. QED  BY <1>11, <2>1, <2>2 DEF StartedInv
<1>19. ASSUME PortInv, ServiceInv PROVE PortInv' /\ ServiceInv'
  <2>1. Current(here) /\ Fresh(here)
    BY <1>1, <1>12 DEF Current, Fresh, AtItem, t
  <2>2. Serviced(here)
    BY <1>13, <1>19, <2>1 DEF ServiceInv
  <2>3. u = here
    BY <1>13, <1>14, <1>19, <2>1, <2>2 DEF PortInv, Bound, Serviced
  <2>4. /\ worker[here].state \in {"spawned", "listening"} /\ ~worker[here].aborted
        /\ worker[here].backlog = << >> /\ worker[here].peer = << >>
    BY <2>1, <2>2 DEF Serviced
  <2>5. worker'[here].backlog = <<here>>
    BY <1>15, <2>3, <2>4
  <2>6. PortInv'
    <3>1. \A k \in DOMAIN worker'[here].backlog : worker'[here].backlog[k] = here
      BY <2>5
    <3>2. \A v \in DOMAIN worker :
            worker'[v].state = worker[v].state /\ worker'[v].port = worker[v].port
            /\ worker'[v].peer = worker[v].peer
      BY <1>15
    <3>. QED  BY <1>15, <1>19, <2>3, <3>1, <3>2 DEF PortInv
  <2>7. Serviced(here)'
    <3>1. Asked(here)' /\ ~Fresh(here)'
      <4>1. here[1] = j /\ here[3] = t.i
        BY <1>12
      <4>. QED  BY <1>6, <1>11, <1>12, <4>1 DEF Asked, Fresh
    <3>2. DOMAIN worker'[here].backlog # {}
      BY <2>5
    <3>3. /\ worker'[here].state \in {"spawned", "listening"}
          /\ ~worker'[here].aborted /\ worker'[here].peer = << >>
      BY <1>15, <2>3, <2>4
    <3>. QED  BY <3>1, <3>2, <3>3 DEF Serviced
  <2>8. ASSUME NEW v \in DOMAIN worker, v # here, v[1] # j
        PROVE  Current(v)' => Serviced(v)'
    <3>1. worker'[v] = worker[v] /\ task'[v[1]] = task[v[1]]
      BY <1>11, <1>15, <2>3, <2>8 DEF NameInv
    <3>. QED  BY <1>19, <3>1, ServicedStays DEF ServiceInv
  <2>9. ASSUME NEW v \in DOMAIN worker, v # here, v[1] = j, Current(v)'
        PROVE  Serviced(v)'
    <3>1. v[2] = t.n /\ worker'[v] = worker[v]
      BY <1>6, <1>11, <1>15, <2>3, <2>9 DEF Current
    <3>2. v = <<j, t.n, v[3]>> /\ v[3] \in Nat
      BY <2>9, <3>1 DEF NameInv, Name
    <3>3. v[3] # t.i
      BY <1>12, <2>9, <3>2
    <3>4. Current(v) /\ Serviced(v) /\ ~Asked(v)
      BY <1>1, <1>19, <2>9, <3>1 DEF Current, ServiceInv, AtItem, Asked, t
    <3>5. Fresh(v)' <=> Fresh(v)
      BY <1>1, <1>6, <1>11, <1>12, <2>9, <3>2, <3>3 DEF Fresh, t
    <3>6. Serves(v)' <=> Serves(v)
      BY <1>6, <1>11, <2>9, <3>1 DEF Serves, t
    <3>. QED  BY <3>1, <3>4, <3>5, <3>6 DEF Serviced
  <2>10. ServiceInv'
    BY <1>15, <2>7, <2>8, <2>9 DEF ServiceInv
  <2>. QED  BY <2>6, <2>10
<1>. QED  BY <1>1, <1>11, <1>17, <1>18, <1>19

LEMMA PeerIsOwn ==
  ASSUME PortInv, NEW u \in DOMAIN worker, DOMAIN worker[u].backlog # {}
  PROVE  Peer(u) = u
<1>1. \A v \in DOMAIN worker : u \in Range(worker[v].backlog) => v = u
  BY DEF PortInv, Range
<1>2. u \in Range(worker[u].backlog)
  BY DEF PortInv, Range
<1>. QED  BY <1>1, <1>2 DEF Peer

(* The worker that has accepted the connection serves it.                  *)
LEMMA ReceiveReadyInv ==
  ASSUME IndInv, NEW j \in DOMAIN task, ReceiveReady(j)
  PROVE  IndInv'
<1> USE DEF IndInv, Same
<1> DEFINE t == task[j]
           s == [t EXCEPT !.pc = "connect", !.i = @ + 1]
<1>. PICK here : here = Here(j)
  OBVIOUS
<1>1. /\ t.pc = "ready" /\ worker[Peer(here)].peer = here
      /\ task' = [task EXCEPT ![j] = s]
      /\ UNCHANGED <<httpVars, datasets, nonce, jobs, worker, pinned, troubles>>
  BY DEF ReceiveReady, At, Becoming
<1>2. t \in TaskRecord /\ jobs[j] \in JobRecord /\ j \in DOMAIN jobs
  BY JobShape
<1>3. Progress(t) /\ Recorded(jobs[j], t, troubles)
  BY DEF TaskInv
<1>4. /\ t.n \in Nat /\ t.i \in Nat /\ t.i # 0 /\ j \in Nat /\ t.workers \in Nat
      /\ here = <<j, t.n, t.i>>
  BY <1>2, JobShape DEF TaskRecord, Positions, Here
<1> HIDE DEF t
<1>5. s \in TaskRecord
  <2>1. t.i + 1 \in Positions /\ "connect" \in Pcs
    BY <1>4 DEF Positions, Pcs
  <2>. QED  BY <1>2, <2>1 DEF TaskRecord
<1>6. /\ s.pc = "connect" /\ s.n = t.n /\ s.i = t.i + 1
      /\ Same(s, t)
  BY <1>2 DEF TaskRecord
<1>7. s["wcc"] = t["wcc"] /\ s["pr"] = t["pr"]
  BY <1>2 DEF TaskRecord
<1> HIDE DEF s
<1>8. Progress(s)
  <2>1. \A k \in DOMAIN t.run : Through(s, k) => Through(t, k)
    BY <1>1, <1>3, <1>4, <1>6 DEF Through, AtItem
  <2>2. Reported(s)
    BY <1>3, <1>6, <1>7, <2>1, ReportsStay DEF Progress
  <2> HIDE DEF Same
  <2>3. s.run = t.run /\ s.workers = t.workers
    BY <1>6 DEF Same
  <2>. QED  BY <1>1, <1>3, <1>4, <1>6, <2>2, <2>3 DEF Progress, AtItem
<1>9. Recorded(jobs[j], s, troubles')
  BY <1>1, <1>3, <1>6 DEF Recorded
<1>10. jobs' = [jobs EXCEPT ![j] = jobs[j]]
  BY <1>1 DEF CountInv
<1>11. /\ HttpInv' /\ CountInv' /\ TaskInv'
       /\ DOMAIN task' = DOMAIN task
       /\ task'[j] = s
       /\ \A k \in DOMAIN task : k # j => task'[k] = task[k]
  BY <1>1, <1>2, <1>5, <1>6, <1>8, <1>9, <1>10, TaskFrame DEF CountInv, t
<1>12. NameInv'
  BY <1>1, <1>6, <1>11, NamesFrame DEF t
<1>13. Started(j)'
  BY <1>1, <1>6, <1>11 DEF StartedInv, Started, t
<1>14. here \in DOMAIN worker
  BY <1>1, <1>3, <1>4 DEF StartedInv, Started, Progress, t
<1>15. ASSUME PortInv, ServiceInv, NEW v \in DOMAIN worker, v[1] = j, Current(v)'
       PROVE  Serviced(v)'
  <2>1. v[2] = t.n /\ worker'[v] = worker[v] /\ v[3] \in Nat /\ v = <<j, t.n, v[3]>>
    BY <1>1, <1>6, <1>11, <1>15 DEF Current, NameInv, Name
  <2>2. Current(v) /\ Serviced(v)
    BY <1>1, <1>15, <2>1 DEF Current, ServiceInv, AtItem, t
  <2>3. Fresh(v)' <=> t.i + 1 <= v[3]
    BY <1>4, <1>6, <1>11, <1>15, <2>1 DEF Fresh
  <2>4. Fresh(v) <=> t.i < v[3]
    BY <1>1, <1>15 DEF Fresh, t
  <2>5. Fresh(v)' <=> Fresh(v)
    BY <1>4, <2>1, <2>3, <2>4
  <2>6. Serves(v)' <=> Serves(v)
    BY <1>1, <1>6, <1>11, <1>15 DEF Serves, t
  <2>7. CASE v[3] # t.i
    BY <1>1, <1>15, <2>1, <2>2, <2>5, <2>6, <2>7 DEF Serviced, Asked, t
  <2>8. CASE v[3] = t.i
    <3>1. v = here /\ ~Fresh(v)
      BY <1>4, <2>1, <2>4, <2>8
    <3>2. DOMAIN worker[v].backlog # {}
      BY <2>2, <3>1 DEF Serviced
    <3>3. Peer(v) = v
      BY <1>15, <3>2, PeerIsOwn
    <3>4. worker[v].peer = v /\ v # << >>
      <4>1. \A a, b, c : <<a, b, c>> # << >>
        OBVIOUS
      <4>. QED  BY <1>1, <2>1, <3>1, <3>3, <4>1
    <3>5. Serves(v)
      BY <2>2, <3>1, <3>4 DEF Serviced
    <3>. QED  BY <1>1, <2>2, <2>5, <2>6, <3>1, <3>2, <3>5 DEF Serviced
  <2>. QED  BY <2>7, <2>8
<1>16. StartedInv' /\ (PortInv /\ ServiceInv => PortInv' /\ ServiceInv')
  BY <1>1, <1>11, <1>13, <1>15, OthersStay
<1>. QED  BY <1>1, <1>11, <1>12, <1>16

(* A task that ends leaves its workers alone, and is at no item any more.  *)
LEMMA EndsInv ==
  ASSUME IndInv, NEW j \in DOMAIN task, NEW job \in JobRecord, NEW s,
         s = [task[j] EXCEPT !.pc = "ended"], task' = [task EXCEPT ![j] = s],
         jobs' = [jobs EXCEPT ![j] = job],
         UNCHANGED <<httpVars, datasets, nonce, worker, pinned>>,
         troubles \subseteq troubles', troubles' \subseteq {"collision", "timeout"},
         Recorded(job, s, troubles')
  PROVE  IndInv'
<1> USE DEF IndInv, Same
<1> DEFINE t == task[j]
<1>1. t \in TaskRecord /\ Progress(t)
  BY JobShape DEF TaskInv
<1> HIDE DEF t
<1>2. s \in TaskRecord
  BY <1>1 DEF TaskRecord, Pcs, t
<1>3. /\ s.pc = "ended" /\ s.n = t.n /\ s.i = t.i
      /\ Same(s, t)
  BY <1>1 DEF TaskRecord, t
<1>4. s["wcc"] = t["wcc"] /\ s["pr"] = t["pr"]
  BY <1>1 DEF TaskRecord, t
<1>5. Progress(s)
  <2>1. \A k \in DOMAIN t.run : Through(s, k) => Through(t, k)
    BY <1>1, <1>3 DEF Through, AtItem
  <2> HIDE DEF Same, IndInv
  <2>2. Reported(s)
    BY <1>1, <1>3, <1>4, <2>1, ReportsStay DEF Progress
  <2>3. s.run = t.run /\ s.workers = t.workers
    BY <1>3 DEF Same
  <2>. QED  BY <1>1, <1>3, <2>2, <2>3 DEF Progress, AtItem
<1>6. /\ HttpInv' /\ CountInv' /\ TaskInv'
      /\ DOMAIN task' = DOMAIN task
      /\ task'[j] = s
      /\ \A k \in DOMAIN task : k # j => task'[k] = task[k]
  BY <1>2, <1>3, <1>5, TaskFrame DEF t
<1>7. NameInv'
  BY <1>3, <1>6, NamesFrame DEF t
<1>8. Started(j)'
  BY <1>3, <1>6 DEF StartedInv, Started, t
<1>9. \A u \in DOMAIN worker : u[1] = j => ~Current(u)'
  BY <1>3, <1>6 DEF Current, AtItem
<1>10. StartedInv' /\ (PortInv /\ ServiceInv => PortInv' /\ ServiceInv')
  BY <1>6, <1>8, <1>9, OthersStay
<1>. QED  BY <1>6, <1>7, <1>10

(* While no port was given twice, no algorithm is run twice and all goes   *)
(* well below its out_dir, the driver loses no worker.                     *)
LEMMA NothingLost ==
  ASSUME IndInv, NEW j \in DOMAIN task, "collision" \notin troubles
  PROVE  /\ At(j, "ready") =>
              \/ worker[Peer(Here(j))].state # "gone"
              \/ worker[Peer(Here(j))].peer = Here(j)
         /\ Connected(j) /\ ~Twice(task[j].run) /\ task[j].out => ~Lost(j)
<1> USE DEF IndInv
<1> DEFINE t == task[j]
<1>1. t \in TaskRecord /\ Progress(t) /\ j \in Nat
  BY JobShape DEF TaskInv
<1>2. t.n \in Nat /\ t.i \in Nat /\ t.i # 0 /\ t.workers \in Nat
  BY <1>1 DEF TaskRecord, Positions
<1> HIDE DEF t
<1>3. PortInv /\ ServiceInv
  OBVIOUS
<1>4. ASSUME NEW i \in 1 .. t.workers, t.pc \in {"connect", "ready"}, i <= t.i,
             i = t.i => t.pc = "ready"
      PROVE  LET u == <<j, t.n, i>>
             IN  /\ Peer(u) = u
                 /\ \/ Serves(u)
                    \/ /\ Asked(u) /\ worker[u].state \in {"spawned", "listening"}
  <2> DEFINE u == <<j, t.n, i>>
  <2>1. u \in DOMAIN worker /\ Current(u)
    BY <1>4 DEF StartedInv, Started, Current, AtItem, t
  <2>2. ~Fresh(u)
    BY <1>2, <1>4 DEF Fresh, t
  <2> HIDE DEF u
  <2>3. DOMAIN worker[u].backlog # {}
        /\ (Serves(u) \/ (Asked(u) /\ worker[u].state \in {"spawned", "listening"}))
    BY <1>3, <2>1, <2>2 DEF ServiceInv, Serviced
  <2>4. Peer(u) = u
    BY <1>3, <2>1, <2>3, PeerIsOwn
  <2>. QED  BY <2>3, <2>4 DEF u
<1>5. ASSUME At(j, "ready")
      PROVE  worker[Peer(Here(j))].state # "gone" \/ worker[Peer(Here(j))].peer = Here(j)
  <2>1. t.pc = "ready" /\ t.i \in 1 .. t.workers /\ Here(j) = <<j, t.n, t.i>>
    BY <1>1, <1>2, <1>5 DEF At, Progress, Here, t
  <2>. QED  BY <1>2, <1>4, <2>1 DEF Serves
<1>6. ASSUME Connected(j), ~Twice(t.run), t.out, Lost(j) PROVE FALSE
  <2>1. PICK i \in 1 .. t.workers : worker[Peer(<<j, t.n, i>>)].state = "gone"
    BY <1>6 DEF Lost, t
  <2>2. t.pc = "connect" /\ i < t.i
    BY <1>2, <1>6 DEF Connected, At, t
  <2> DEFINE u == <<j, t.n, i>>
  <2>3. u[1] = j /\ Peer(u) = u
        /\ (Serves(u) \/ (Asked(u) /\ worker[u].state \in {"spawned", "listening"}))
    BY <1>2, <1>4, <2>2
  <2> HIDE DEF u
  <2>. QED  BY <1>6, <2>1, <2>3 DEF Serves, t, u
<1>. QED  BY <1>5, <1>6 DEF t

LEMMA FailsInv ==
  ASSUME IndInv, NEW j \in DOMAIN task,
         ConnectFails(j) \/ DirectoryFails(j) \/ RunMetaFails(j)
  PROVE  IndInv'
<1> USE DEF IndInv, Same
<1> DEFINE t == task[j]
           s == [t EXCEPT !.pc = "ended"]
           job == [jobs[j] EXCEPT !.status = "failed"]
<1>1. /\ jobs' = [jobs EXCEPT ![j].status = "failed"]
      /\ task' = [task EXCEPT ![j] = s]
      /\ UNCHANGED <<httpVars, datasets, nonce, worker, pinned>>
  BY DEF ConnectFails, DirectoryFails, RunMetaFails, Fails, Becoming
<1>2. t \in TaskRecord /\ jobs[j] \in JobRecord /\ j \in DOMAIN jobs
  BY JobShape
<1>3. jobs' = [jobs EXCEPT ![j] = job]
  BY <1>1
<1>4. job \in JobRecord /\ job.status = "failed"
  BY <1>2 DEF JobRecord
<1>5. /\ troubles \subseteq troubles' /\ troubles' \subseteq {"collision", "timeout"}
      /\ ConnectFails(j) => "timeout" \in troubles'
  BY DEF ConnectFails, DirectoryFails, RunMetaFails, CountInv
<1> HIDE DEF job
<1>7. s.pc = "ended" /\ Same(s, t)
  BY <1>2 DEF TaskRecord
<1>8. Progress(t)
  BY DEF TaskInv
<1>9. Caused(t) \/ troubles' # {}
  <2>1. CASE ConnectFails(j) \/ "collision" \in troubles
    BY <1>5, <2>1
  <2>2. CASE DirectoryFails(j)
    BY <2>2 DEF DirectoryFails, Caused
  <2>3. CASE RunMetaFails(j) /\ "collision" \notin troubles
    <3>1. \/ t.workers = 0
          \/ ~t.out
          \/ Connected(j) /\ Lost(j)
          \/ Connected(j) /\ ~t.meta[Kind[t.run[t.n]]].files
      BY <2>3, NothingLost DEF RunMetaFails
    <3>2. CASE t.workers = 0 \/ ~t.out
      BY <3>2 DEF Caused
    <3>3. CASE Connected(j) /\ Lost(j)
      BY <2>3, <3>3, NothingLost DEF Caused
    <3>4. CASE Connected(j) /\ ~t.meta[Kind[t.run[t.n]]].files
      <4> DEFINE kind == Kind[t.run[t.n]]
      <4>1. t.n \in DOMAIN t.run /\ t.run[t.n] \in DOMAIN Kind
        BY <1>8, <3>4 DEF Progress, AtItem, Connected, At
      <4>2. kind \in Algorithms /\ Names(t.run, kind)
        BY <4>1, KindShape DEF Names, Algorithms
      <4>3. ~Sound(t.meta, t, kind)
        BY <3>4 DEF Sound
      <4>. QED  BY <4>2, <4>3 DEF Caused
    <3>. QED  BY <3>1, <3>2, <3>3, <3>4
  <2>. QED  BY <2>1, <2>2, <2>3
<1>10. Recorded(job, s, troubles')
  <2> HIDE DEF s, t
  <2>1. Caused(t) => Caused(s)
    BY <1>7 DEF Caused, Sound
  <2>. QED  BY <1>4, <1>7, <1>9, <2>1 DEF Recorded
<1>. QED  BY <1>1, <1>3, <1>4, <1>5, <1>10, EndsInv

(* All items done: every algorithm that was named has its report.          *)
LEMMA VerifyInv ==
  ASSUME IndInv, NEW j \in DOMAIN task, Verify(j)
  PROVE  IndInv'
<1> USE DEF IndInv, Same
<1> DEFINE t == task[j]
           s == [t EXCEPT !.pc = "ended"]
           ok == "wrong" \notin {t.wcc, t.pr}
           job == IF ok THEN [jobs[j] EXCEPT !.status = "succeeded", !.wcc = t.wcc,
                                             !.pr = t.pr]
                        ELSE [jobs[j] EXCEPT !.status = "failed"]
<1>1. /\ t.pc = "verify"
      /\ task' = [task EXCEPT ![j] = s]
      /\ jobs' = [jobs EXCEPT ![j] = job]
      /\ UNCHANGED <<httpVars, datasets, nonce, worker, pinned, troubles>>
  BY DEF Verify, At, Becoming
<1>2. t \in TaskRecord /\ jobs[j] \in JobRecord /\ j \in DOMAIN jobs /\ Progress(t)
  BY JobShape DEF TaskInv
<1>3. t.wcc \in Reports /\ t.pr \in Reports
  BY <1>2 DEF TaskRecord
<1> HIDE DEF t
<1>4. CASE ok
  <2>1. job = [jobs[j] EXCEPT !.status = "succeeded", !.wcc = t.wcc, !.pr = t.pr]
    BY <1>4
  <2> HIDE DEF job
  <2>2. job \in JobRecord
    BY <1>2, <1>3, <2>1 DEF JobRecord
  <2>3. job.status = "succeeded" /\ job["wcc"] = t["wcc"] /\ job["pr"] = t["pr"]
    BY <1>2, <2>1 DEF JobRecord
  <2>4. s.pc = "ended" /\ Same(s, t)
    BY <1>2 DEF TaskRecord
  <2>5. ASSUME NEW kind \in Algorithms
        PROVE  IF Names(t.run, kind)
                 THEN job[kind] = "right" /\ Sound(t.meta, t, kind)
                 ELSE job[kind] = None
    <3>1. job[kind] = t[kind] /\ t[kind] \in Reports \ {"wrong"}
      BY <1>3, <1>4, <2>3 DEF Algorithms
    <3>2. CASE t[kind] = None
      <4>1. ~Names(t.run, kind)
        BY <1>1, <1>2, <3>2 DEF Progress, Reported, Through, Names, t
      <4>. QED  BY <3>1, <3>2, <4>1
    <3>3. CASE t[kind] # None
      <4>1. /\ Names(t.run, kind) /\ t.meta[kind].files
            /\ t[kind] = Compared(t.meta, kind, t.param[kind])
        BY <1>2, <3>3 DEF Progress, Reported
      <4>2. t[kind] = "right"
        BY <3>1, <3>3 DEF Reports
      <4>3. Sound(t.meta, t, kind)
        BY <4>1, <4>2 DEF Sound, Compared
      <4>. QED  BY <3>1, <4>1, <4>2, <4>3
    <3>. QED  BY <3>2, <3>3
  <2> HIDE DEF s
  <2>6. Recorded(job, s, troubles')
    BY <2>3, <2>4, <2>5 DEF Recorded, Sound
  <2>. QED  BY <1>1, <2>2, <2>6, EndsInv DEF s, t, CountInv
<1>5. CASE ~ok
  <2>1. job = [jobs[j] EXCEPT !.status = "failed"]
    BY <1>5
  <2> HIDE DEF job
  <2>2. job \in JobRecord /\ job.status = "failed"
    BY <1>2, <2>1 DEF JobRecord
  <2>3. s.pc = "ended" /\ Same(s, t)
    BY <1>2 DEF TaskRecord
  <2>4. PICK kind \in Algorithms : t[kind] = "wrong"
    BY <1>5 DEF Algorithms
  <2>5. ~Sound(t.meta, t, kind) /\ Names(t.run, kind)
    <3>1. Names(t.run, kind) /\ t[kind] = Compared(t.meta, kind, t.param[kind])
      BY <1>2, <2>4 DEF Progress, Reported, None
    <3>. QED  BY <2>4, <3>1 DEF Sound, Compared
  <2> HIDE DEF s
  <2>6. Recorded(job, s, troubles')
    <3>1. Caused(s)
      BY <2>3, <2>5 DEF Caused, Sound
    <3>. QED  BY <2>2, <2>3, <3>1 DEF Recorded
  <2>. QED  BY <1>1, <2>2, <2>6, EndsInv DEF s, t, CountInv
<1>. QED  BY <1>4, <1>5

(* The workers' own steps: no task and no record changes.                  *)
LEMMA WorkerFrame ==
  ASSUME IndInv, NEW u \in DOMAIN worker, NEW r,
         worker' = [worker EXCEPT ![u] = r],
         UNCHANGED <<httpVars, datasets, nonce, taskVars, pinned, troubles>>,
         r = [state |-> r.state, port |-> r.port, backlog |-> r.backlog,
              peer |-> r.peer, aborted |-> r.aborted],
         r.state \in {"spawned", "listening", "serving", "gone"},
         r.port = worker[u].port, r.backlog = worker[u].backlog,
         r.aborted = worker[u].aborted, PortInv => r.peer \in {worker[u].peer, u},
         worker[u].state # "gone",
         PortInv /\ ServiceInv => (Current(u)' => Serviced(u)')
  PROVE  IndInv'
<1> USE DEF IndInv
<1>1. /\ DOMAIN worker' = DOMAIN worker /\ worker'[u] = r
      /\ \A v \in DOMAIN worker : v # u => worker'[v] = worker[v]
      /\ worker' = [v \in DOMAIN worker' |-> worker'[v]]
  BY DEF NameInv
<1>2. UNCHANGED <<task, jobs>>
  BY DEF taskVars
<1>3. HttpInv' /\ CountInv' /\ TaskInv'
  BY <1>2, HttpUnchanged DEF CountInv, TaskInv
<1>4. NameInv'
  <2>1. ASSUME NEW v \in DOMAIN worker
        PROVE  /\ worker'[v] = [state |-> worker'[v].state, port |-> worker'[v].port,
                                backlog |-> worker'[v].backlog,
                                peer |-> worker'[v].peer, aborted |-> worker'[v].aborted]
               /\ worker'[v].state \in {"spawned", "listening", "serving", "gone"}
               /\ worker'[v].aborted \in BOOLEAN
               /\ worker'[v].backlog \in Seq(Name)
    <3>1. CASE v = u
      BY <1>1, <3>1 DEF NameInv
    <3>2. CASE v # u
      BY <1>1, <3>2 DEF NameInv
    <3>. QED  BY <3>1, <3>2
  <2>. QED  BY <1>1, <1>2, <2>1 DEF NameInv
<1>5. StartedInv'
  BY <1>1, <1>2 DEF StartedInv, Started
<1>6. ASSUME PortInv, ServiceInv PROVE PortInv' /\ ServiceInv'
  <2>1. \A v \in DOMAIN worker :
          /\ worker'[v].port = worker[v].port /\ worker'[v].backlog = worker[v].backlog
          /\ worker'[v].state # "gone" => worker[v].state # "gone"
          /\ worker'[v].peer \in {worker[v].peer, v}
    BY <1>1, <1>6
  <2>2. PortInv'
    BY <1>1, <1>6, <2>1 DEF PortInv
  <2>3. ServiceInv'
    BY <1>1, <1>2, <1>6, ServicedStays DEF ServiceInv
  <2>. QED  BY <2>2, <2>3
<1>. QED  BY <1>3, <1>4, <1>5, <1>6

LEMMA BindInv ==
  ASSUME IndInv, NEW u \in DOMAIN worker, Bind(u)
  PROVE  IndInv'
<1> USE DEF IndInv
<1> DEFINE state == IF Listeners(worker[u].port) = {} THEN "listening" ELSE "gone"
           r == [worker[u] EXCEPT !.state = state]
<1>1. /\ worker[u].state = "spawned"
      /\ worker' = [worker EXCEPT ![u] = r]
      /\ UNCHANGED <<httpVars, datasets, nonce, taskVars, pinned, troubles>>
  BY DEF Bind, Becomes
<1>2. state \in {"listening", "gone"}
  OBVIOUS
<1>3. ASSUME PortInv PROVE state = "listening"
  BY <1>1, <1>3 DEF Listeners, Bound, PortInv
<1> HIDE DEF state
<1>4. r = [state |-> state, port |-> worker[u].port, backlog |-> worker[u].backlog,
           peer |-> worker[u].peer, aborted |-> worker[u].aborted]
  BY DEF NameInv
<1> HIDE DEF r
<1>5. ASSUME PortInv, ServiceInv, Current(u)' PROVE Serviced(u)'
  <2>1. UNCHANGED task /\ worker'[u] = r
    BY <1>1 DEF taskVars, NameInv
  <2>2. Current(u) /\ Serviced(u) /\ ~Serves(u)
    BY <1>1, <1>5, <2>1 DEF Current, ServiceInv, Serves
  <2>3. (Fresh(u)' <=> Fresh(u)) /\ (Asked(u)' <=> Asked(u))
    BY <2>1 DEF Fresh, Asked
  <2>. QED  BY <1>3, <1>4, <1>5, <2>1, <2>2, <2>3 DEF Serviced
<1>. QED  BY <1>1, <1>2, <1>4, <1>5, WorkerFrame

(* No other worker has the directory open, unless an algorithm is run      *)
(* twice.                                                                  *)
LEMMA AcceptInv ==
  ASSUME IndInv, NEW u \in DOMAIN worker, Accept(u)
  PROVE  IndInv'
<1> USE DEF IndInv
<1>. PICK opened \in BOOLEAN :
       /\ IF opened THEN ~InUse(u) ELSE InUse(u) \/ ~task[u[1]].out
       /\ worker' = [worker EXCEPT ![u].peer = Head(worker[u].backlog),
                                   ![u].state = IF opened THEN "serving" ELSE "gone"]
  BY DEF Accept
<1> DEFINE state == IF opened THEN "serving" ELSE "gone"
           peer == Head(worker[u].backlog)
           r == [worker[u] EXCEPT !.peer = peer, !.state = state]
<1>1. /\ worker[u].state = "listening" /\ worker[u].backlog # << >>
      /\ worker' = [worker EXCEPT ![u] = r]
      /\ UNCHANGED <<httpVars, datasets, nonce, taskVars, pinned, troubles>>
  BY DEF Accept
<1>2. state \in {"serving", "gone"}
  OBVIOUS
<1>3. ASSUME ~Twice(task[u[1]].run), task[u[1]].out PROVE state = "serving"
  <2> SUFFICES ASSUME NEW x \in DOMAIN worker, worker[x].state = "serving",
                      Dir(x) = Dir(u)
               PROVE  FALSE
    BY <1>3 DEF InUse
  <2>1. /\ x[1] = u[1] /\ x[3] = u[3]
        /\ Kind[task[x[1]].run[x[2]]] = Kind[task[u[1]].run[u[2]]]
    BY DEF Dir
  <2>2. /\ x[2] \in DOMAIN task[x[1]].run /\ u[2] \in DOMAIN task[u[1]].run
        /\ task[x[1]].run[x[2]] \in DOMAIN Kind /\ task[u[1]].run[u[2]] \in DOMAIN Kind
    BY DEF NameInv
  <2>3. x[2] = u[2]
    BY <1>3, <2>1, <2>2 DEF Twice
  <2>4. x = <<x[1], x[2], x[3]>> /\ u = <<u[1], u[2], u[3]>>
    BY DEF NameInv
  <2>. QED  BY <1>1, <2>1, <2>3, <2>4
<1>4. ASSUME PortInv PROVE peer = u
  BY <1>1, <1>4 DEF PortInv, NameInv
<1> HIDE DEF state, peer
<1>5. r = [state |-> state, port |-> worker[u].port, backlog |-> worker[u].backlog,
           peer |-> peer, aborted |-> worker[u].aborted]
  <2> DEFINE w == worker[u]
  <2>1. w = [state |-> w.state, port |-> w.port, backlog |-> w.backlog,
             peer |-> w.peer, aborted |-> w.aborted]
    BY DEF NameInv
  <2> HIDE DEF w
  <2>2. r = [w EXCEPT !.peer = peer, !.state = state]
    BY DEF w
  <2> HIDE DEF r
  <2>3. /\ DOMAIN r = {"state", "port", "backlog", "peer", "aborted"}
        /\ r = [x \in DOMAIN r |-> r[x]]
    BY <2>1, <2>2
  <2>4. r["state"] = state /\ r["port"] = w.port /\ r["backlog"] = w.backlog
    BY <2>1, <2>2
  <2>5. r["peer"] = peer /\ r["aborted"] = w.aborted
    BY <2>1, <2>2
  <2>. QED  BY <2>3, <2>4, <2>5 DEF w
<1> HIDE DEF r
<1>6. ASSUME PortInv, ServiceInv, Current(u)' PROVE Serviced(u)'
  <2>1. UNCHANGED task /\ worker'[u] = r
    BY <1>1 DEF taskVars, NameInv
  <2>2. Current(u) /\ Serviced(u)
    BY <1>6, <2>1 DEF Current, ServiceInv
  <2>3. ~Fresh(u)
    BY <1>1, <2>2 DEF Serviced
  <2>4. ~Fresh(u)'
    BY <2>1, <2>3 DEF Fresh
  <2>5. r.peer = u /\ r.state = state
    BY <1>4, <1>5, <1>6
  <2>6. Serves(u)'
    BY <1>2, <1>3, <2>1, <2>5 DEF Serves
  <2>. QED  BY <1>5, <2>1, <2>2, <2>3, <2>4, <2>6 DEF Serviced
<1>. QED  BY <1>1, <1>2, <1>4, <1>5, <1>6, WorkerFrame

(* A worker of the item its job is at is neither aborted nor left by its   *)
(* driver.                                                                 *)
LEMMA ExitsInv ==
  ASSUME IndInv, NEW u \in DOMAIN worker, Exits(u)
  PROVE  IndInv'
<1> USE DEF IndInv
<1> DEFINE r == [worker[u] EXCEPT !.state = "gone"]
<1>1. /\ worker[u].state # "gone"
      /\ worker[u].aborted \/ (worker[u].state = "serving" /\ ~Open(worker[u].peer))
      /\ worker' = [worker EXCEPT ![u] = r]
      /\ UNCHANGED <<httpVars, datasets, nonce, taskVars, pinned, troubles>>
  BY DEF Exits, Becomes
<1>2. r = [state |-> "gone", port |-> worker[u].port, backlog |-> worker[u].backlog,
           peer |-> worker[u].peer, aborted |-> worker[u].aborted]
  BY DEF NameInv
<1> HIDE DEF r
<1>3. ASSUME PortInv, ServiceInv, Current(u)' PROVE FALSE
  <2>1. UNCHANGED task
    BY <1>1 DEF taskVars
  <2>2. Current(u) /\ Serviced(u)
    BY <1>3, <2>1 DEF Current, ServiceInv
  <2>3. worker[u].state = "serving" /\ ~Open(worker[u].peer)
    BY <1>1, <2>2 DEF Serviced
  <2>4. ~Fresh(u) /\ Serves(u)
    BY <2>2, <2>3 DEF Serviced
  <2>5. Open(u)
    BY <2>2, <2>4 DEF Open, Current, AtItem, Fresh
  <2>. QED  BY <2>3, <2>4, <2>5 DEF Serves
<1>. QED  BY <1>1, <1>2, <1>3, WorkerFrame

----------------------------------------------------------------------------
(* A worker is started: its name is new, and its port is nobody else's     *)
(* unless that is counted as a collision.                                  *)
LEMMA StartWorkerInv ==
  ASSUME IndInv, NEW j \in DOMAIN task, StartWorker(j)
  PROVE  IndInv'
<1> USE DEF IndInv, Same
<1> DEFINE t == task[j]
<1>. PICK u : u = <<j, t.n, t.i>>
  OBVIOUS
<1>1. PICK s : s = IF t.i < t.workers THEN [t EXCEPT !.i = @ + 1]
                                      ELSE [t EXCEPT !.pc = "connect", !.i = 1]
  OBVIOUS
<1>2. /\ t.pc = "start" /\ task' = [task EXCEPT ![j] = s]
      /\ UNCHANGED <<httpVars, datasets, nonce, jobs, pinned>>
  BY <1>1 DEF StartWorker, At, Becoming
<1>3. PICK port \in FreePorts :
        /\ worker' = Insert(worker, u, NewWorker(port))
        /\ troubles' = IF port \in Taken THEN troubles \cup {"collision"} ELSE troubles
  BY DEF StartWorker
<1>4. t \in TaskRecord /\ jobs[j] \in JobRecord /\ j \in DOMAIN jobs /\ j \in Nat
  BY JobShape
<1>5. Progress(t) /\ Recorded(jobs[j], t, troubles) /\ Started(j)
  BY DEF TaskInv, StartedInv
<1>6. /\ t.n \in Nat /\ t.i \in Nat /\ t.i # 0 /\ t.workers \in Nat
      /\ t.i <= t.workers /\ t.n \in DOMAIN t.run /\ t.run[t.n] \in DOMAIN Kind
  BY <1>2, <1>4, <1>5 DEF TaskRecord, Positions, Progress, AtItem
<1>7. troubles \subseteq troubles' /\ troubles' \subseteq {"collision", "timeout"}
  BY <1>3 DEF CountInv
<1> HIDE DEF t
<1>8. s \in TaskRecord
  <2>1. t.i + 1 \in Positions /\ 1 \in Positions /\ "connect" \in Pcs
    BY <1>6 DEF Positions, Pcs
  <2>. QED  BY <1>1, <1>4, <2>1 DEF TaskRecord
<1>9. /\ s.pc = IF t.i < t.workers THEN "start" ELSE "connect"
      /\ s.i = IF t.i < t.workers THEN t.i + 1 ELSE 1
  BY <1>1, <1>2, <1>4 DEF TaskRecord
<1>10. s.n = t.n /\ Same(s, t)
  BY <1>1, <1>4 DEF TaskRecord
<1>11. s["wcc"] = t["wcc"] /\ s["pr"] = t["pr"]
  BY <1>1, <1>4 DEF TaskRecord
<1>12. Progress(s)
  <2>1. \A k \in DOMAIN t.run : Through(s, k) => Through(t, k)
    BY <1>2, <1>5, <1>6, <1>9, <1>10 DEF Through, AtItem
  <2>2. Reported(s)
    BY <1>5, <1>10, <1>11, <2>1, ReportsStay DEF Progress
  <2> HIDE DEF Same
  <2>3. s.run = t.run /\ s.workers = t.workers
    BY <1>10 DEF Same
  <2>. QED  BY <1>2, <1>5, <1>6, <1>9, <1>10, <2>2, <2>3 DEF Progress, AtItem
<1>13. Recorded(jobs[j], s, troubles')
  BY <1>2, <1>5, <1>7, <1>9, <1>10 DEF Recorded
<1>14. jobs' = [jobs EXCEPT ![j] = jobs[j]]
  BY <1>2 DEF CountInv
<1>15. /\ HttpInv' /\ CountInv' /\ TaskInv'
       /\ DOMAIN task' = DOMAIN task
       /\ task'[j] = s
       /\ \A k \in DOMAIN task : k # j => task'[k] = task[k]
  BY <1>2, <1>4, <1>7, <1>8, <1>10, <1>12, <1>13, <1>14, TaskFrame DEF t
<1>16. u \in Name /\ u[1] = j /\ u[2] = t.n /\ u[3] = t.i /\ u = <<u[1], u[2], u[3]>>
  BY <1>4, <1>6 DEF Name, t
<1>17. u \notin DOMAIN worker
  BY <1>2, <1>5, <1>6, <1>16 DEF Started, t
<1>18. /\ DOMAIN worker' = DOMAIN worker \cup {u}
       /\ worker'[u] = [state |-> "spawned", port |-> port, backlog |-> << >>,
                        peer |-> << >>, aborted |-> FALSE]
       /\ \A v \in DOMAIN worker : worker'[v] = worker[v]
       /\ worker' = [v \in DOMAIN worker' |-> worker'[v]]
  BY <1>3, <1>17 DEF Insert, NewWorker
<1>19. NameInv'
  <2>1. \A k \in DOMAIN task : /\ task'[k].run = task[k].run
                               /\ task'[k].workers = task[k].workers
    BY <1>10, <1>15 DEF t
  <2>2. ASSUME NEW v \in DOMAIN worker'
        PROVE  /\ worker'[v] = [state |-> worker'[v].state, port |-> worker'[v].port,
                                backlog |-> worker'[v].backlog,
                                peer |-> worker'[v].peer, aborted |-> worker'[v].aborted]
               /\ worker'[v].state \in {"spawned", "listening", "serving", "gone"}
               /\ worker'[v].aborted \in BOOLEAN
               /\ worker'[v].backlog \in Seq(Name)
    <3>1. CASE v = u
      <4>1. /\ worker'[v].state = "spawned" /\ worker'[v].port = port
            /\ worker'[v].backlog = << >> /\ worker'[v].peer = << >>
            /\ worker'[v].aborted = FALSE
        BY <1>18, <3>1
      <4>2. << >> \in Seq(Name)
        OBVIOUS
      <4>3. worker'[v] = [state |-> "spawned", port |-> port, backlog |-> << >>,
                          peer |-> << >>, aborted |-> FALSE]
        BY <1>18, <3>1
      <4>. QED  BY <4>1, <4>2, <4>3
    <3>2. CASE v \in DOMAIN worker
      BY <1>18, <3>2 DEF NameInv
    <3>. QED  BY <1>18, <3>1, <3>2
  <2>3. ASSUME NEW v \in DOMAIN worker'
        PROVE  /\ v \in Name /\ v = <<v[1], v[2], v[3]>> /\ v[1] \in DOMAIN task'
               /\ v[2] \in DOMAIN task'[v[1]].run
               /\ task'[v[1]].run[v[2]] \in DOMAIN Kind
               /\ v[3] \in 1 .. task'[v[1]].workers
    <3>1. CASE v = u
      BY <1>6, <1>10, <1>15, <1>16, <3>1
    <3>2. CASE v \in DOMAIN worker
      BY <1>15, <2>1, <3>2 DEF NameInv
    <3>. QED  BY <1>18, <3>1, <3>2
  <2>. QED  BY <1>18, <2>2, <2>3 DEF NameInv
<1>20. StartedInv'
  <2>1. ASSUME NEW k \in DOMAIN task, k # j PROVE Started(k)'
    BY <1>15, <1>16, <1>18, <2>1, StartedStays DEF StartedInv
  <2>2. Started(j)'
    <3>1. ASSUME NEW v \in DOMAIN worker', v[1] = j
          PROVE  v[2] <= t.n /\ (v[2] = t.n => v[3] < t.i + 1)
      <4>1. CASE v = u
        BY <1>6, <1>16, <4>1
      <4>2. CASE v \in DOMAIN worker
        <5>1. v[3] \in Nat
          BY <4>2 DEF NameInv, Name
        <5>. QED  BY <1>2, <1>5, <1>6, <3>1, <4>2, <5>1 DEF Started, t
      <4>. QED  BY <1>18, <4>1, <4>2
    <3>2. \A i \in 1 .. t.i : <<j, t.n, i>> \in DOMAIN worker'
      BY <1>2, <1>5, <1>6, <1>18 DEF Started, t
    <3>. QED  BY <1>6, <1>9, <1>10, <1>15, <3>1, <3>2 DEF Started
  <2>. QED  BY <1>15, <2>1, <2>2 DEF StartedInv
<1>21. ASSUME "collision" \notin troubles' PROVE PortInv' /\ ServiceInv'
  <2>1. PortInv /\ ServiceInv /\ port \notin Taken
    BY <1>3, <1>7, <1>21
  <2>2. \A v \in DOMAIN worker : worker[v].state # "gone" => worker[v].port # port
    BY <2>1 DEF Taken
  <2>3. PortInv'
    <3>1. ASSUME NEW v \in DOMAIN worker', NEW x \in DOMAIN worker', v # x,
                 worker'[v].state # "gone", worker'[x].state # "gone"
          PROVE  worker'[v].port # worker'[x].port
      BY <1>18, <2>1, <2>2, <3>1 DEF PortInv
    <3>2. ASSUME NEW v \in DOMAIN worker'
          PROVE  /\ \A k \in DOMAIN worker'[v].backlog : worker'[v].backlog[k] = v
                 /\ worker'[v].peer \in {<< >>, v}
      <4>1. CASE v = u
        BY <1>18, <4>1
      <4>2. CASE v \in DOMAIN worker
        BY <1>18, <2>1, <4>2 DEF PortInv
      <4>. QED  BY <1>18, <4>1, <4>2
    <3>. QED  BY <3>1, <3>2 DEF PortInv
  <2>4. ASSUME NEW v \in DOMAIN worker, v[1] # j PROVE Current(v)' => Serviced(v)'
    <3>1. worker'[v] = worker[v] /\ task'[v[1]] = task[v[1]]
      BY <1>15, <1>18, <2>4 DEF NameInv
    <3>. QED  BY <2>1, <3>1, ServicedStays DEF ServiceInv
  <2>5. ASSUME NEW v \in DOMAIN worker', v[1] = j, Current(v)' PROVE Serviced(v)'
    <3>1. Fresh(v)'
      <4>1. v[3] \in Nat /\ v[3] >= 1
        BY <1>19, <2>5 DEF NameInv
      <4>. QED  BY <1>9, <1>15, <2>5, <4>1 DEF Fresh
    <3>2. CASE v = u
      BY <1>18, <3>1, <3>2 DEF Serviced
    <3>3. CASE v \in DOMAIN worker
      <4>1. Current(v) /\ Fresh(v)
        BY <1>2, <1>10, <1>15, <2>5 DEF Current, AtItem, Fresh, t
      <4>. QED  BY <1>18, <2>1, <3>1, <3>3, <4>1 DEF ServiceInv, Serviced
    <3>. QED  BY <1>18, <3>2, <3>3
  <2>6. ServiceInv'
    BY <1>16, <1>18, <2>4, <2>5 DEF ServiceInv
  <2>. QED  BY <2>3, <2>6
<1>. QED  BY <1>15, <1>19, <1>20, <1>21

(* An item is through: its report is what the files make it, its workers   *)
(* are aborted, and the next item has none yet.                            *)
LEMMA RunMetaInv ==
  ASSUME IndInv, NEW j \in DOMAIN task, RunMeta(j)
  PROVE  IndInv'
<1> USE DEF IndInv, Same
<1> DEFINE t == task[j]
           kind == Kind[t.run[t.n]]
           report == Compared(t.meta, kind, t.param[kind])
           r == [t EXCEPT ![kind] = report]
<1>1. /\ t.pc = "connect" /\ t.workers > 0 /\ t.meta[kind].files
      /\ GoesTo(j, r, t.n + 1)
      /\ worker' = [u \in DOMAIN worker |->
                      [worker[u] EXCEPT !.aborted = @ \/ (u[1] = j /\ u[2] = t.n)]]
      /\ UNCHANGED <<httpVars, datasets, nonce, jobs, pinned, troubles>>
  BY DEF RunMeta, Connected, At
<1>2. t \in TaskRecord /\ jobs[j] \in JobRecord /\ j \in DOMAIN jobs /\ j \in Nat
  BY JobShape
<1>3. Progress(t) /\ Recorded(jobs[j], t, troubles) /\ Started(j)
  BY DEF TaskInv, StartedInv
<1>4. t.n \in Nat /\ t.n # 0 /\ t.n \in DOMAIN t.run /\ t.workers \in Nat
      /\ t.run \in Seq(STRING) /\ t.run[t.n] \in DOMAIN Kind
  BY <1>1, <1>2, <1>3 DEF TaskRecord, Positions, Progress, AtItem
<1>5. kind \in {"wcc", "pr"} /\ Names(t.run, kind)
  BY <1>4, KindShape DEF Names
<1>6. report \in Reports /\ report # None
  BY DEF Compared, Reports, None
<1> HIDE DEF t, kind, report
<1>7. /\ r \in TaskRecord
      /\ r.pc = t.pc /\ r.n = t.n /\ r.i = t.i
      /\ Same(r, t)
      /\ \A x \in {"wcc", "pr"} : r[x] = IF x = kind THEN report ELSE t[x]
  <2>1. CASE kind = "wcc"
    <3>1. r = [t EXCEPT !.wcc = report]
      BY <2>1
    <3> HIDE DEF r
    <3>2. r \in TaskRecord
      BY <1>2, <1>6, <3>1 DEF TaskRecord
    <3>3. r.pc = t.pc /\ r.n = t.n /\ r.i = t.i
      BY <1>2, <3>1 DEF TaskRecord
    <3>4. Same(r, t)
      BY <1>2, <3>1 DEF TaskRecord
    <3>5. r["wcc"] = report /\ r["pr"] = t["pr"]
      BY <1>2, <3>1 DEF TaskRecord
    <3>. QED  BY <2>1, <3>2, <3>3, <3>4, <3>5
  <2>2. CASE kind = "pr"
    <3>1. r = [t EXCEPT !.pr = report]
      BY <2>2
    <3> HIDE DEF r
    <3>2. r \in TaskRecord
      BY <1>2, <1>6, <3>1 DEF TaskRecord
    <3>3. r.pc = t.pc /\ r.n = t.n /\ r.i = t.i
      BY <1>2, <3>1 DEF TaskRecord
    <3>4. Same(r, t)
      BY <1>2, <3>1 DEF TaskRecord
    <3>5. r["pr"] = report /\ r["wcc"] = t["wcc"]
      BY <1>2, <3>1 DEF TaskRecord
    <3>. QED  BY <2>2, <3>2, <3>3, <3>4, <3>5
  <2>. QED  BY <1>5, <2>1, <2>2
<1> HIDE DEF r
<1>8. PICK s : Becoming(j, s) /\ Advanced(r, s, t.n + 1)
  <2>1. t.n + 1 \in Positions
    BY <1>4 DEF Positions
  <2>. QED  BY <1>1, <1>7, <2>1, GoesToAdvances
<1>9. task' = [task EXCEPT ![j] = s]
  BY <1>8 DEF Becoming
<1>10. /\ s \in TaskRecord /\ Same(s, t)
       /\ s.pc \in {"start", "connect", "verify"} /\ s.i = 1
       /\ s.pc # "verify" => s.n \in DOMAIN t.run /\ s.n > t.n
                             /\ t.run[s.n] \in DOMAIN Kind
       /\ s.pc = "verify" => s.n = t.n
  BY <1>4, <1>7, <1>8 DEF Advanced
<1>11. \A x \in Algorithms : s[x] = IF x = kind THEN report ELSE t[x]
  <2>1. s["wcc"] = r["wcc"] /\ s["pr"] = r["pr"]
    BY <1>8 DEF Advanced
  <2>. QED  BY <1>7, <2>1 DEF Algorithms
<1>12. \A k \in DOMAIN t.run :
         t.run[k] \in DOMAIN Kind /\ Through(s, k) => k <= t.n
  BY <1>4, <1>7, <1>8 DEF Advanced, Through, AtItem
<1>13. Progress(s)
  <2>1. ASSUME NEW x \in Algorithms, s[x] # None
        PROVE  /\ s[x] = Compared(s.meta, x, s.param[x])
               /\ s.meta[x].files
               /\ Names(s.run, x)
    <3>1. CASE x = kind
      BY <1>1, <1>5, <1>10, <1>11, <3>1 DEF report
    <3>2. CASE x # kind
      BY <1>3, <1>10, <1>11, <2>1, <3>2 DEF Progress, Reported
    <3>. QED  BY <3>1, <3>2
  <2>2. ASSUME NEW k \in DOMAIN s.run, s.run[k] \in DOMAIN Kind, Through(s, k)
        PROVE  s[Kind[s.run[k]]] # None
    <3>1. k \in Nat /\ k <= t.n
      BY <1>4, <1>10, <1>12, <2>2
    <3>2. Kind[t.run[k]] \in Algorithms
      BY <1>10, <2>2, KindShape DEF Algorithms
    <3>3. CASE Kind[t.run[k]] = kind
      BY <1>6, <1>10, <1>11, <3>2, <3>3
    <3>4. CASE Kind[t.run[k]] # kind
      <4>1. Through(t, k)
        BY <1>1, <1>4, <3>1, <3>4 DEF Through, AtItem, kind
      <4>. QED  BY <1>3, <1>10, <1>11, <2>2, <3>2, <3>4, <4>1 DEF Progress, Reported
    <3>. QED  BY <3>3, <3>4
  <2>3. s.i <= s.workers + 1 /\ (s.pc = "start" => s.i <= s.workers)
    BY <1>1, <1>4, <1>10
  <2>4. /\ s.n = 1 \/ s.n <= Len(s.run)
        /\ AtItem(s) => s.n \in DOMAIN s.run /\ s.run[s.n] \in DOMAIN Kind
    BY <1>4, <1>10 DEF AtItem
  <2>. QED  BY <1>10, <2>1, <2>2, <2>3, <2>4 DEF Progress, Reported
<1>14. Recorded(jobs[j], s, troubles')
  BY <1>1, <1>3, <1>10 DEF Recorded
<1>15. jobs' = [jobs EXCEPT ![j] = jobs[j]]
  BY <1>1 DEF CountInv
<1>16. /\ HttpInv' /\ CountInv' /\ TaskInv'
       /\ DOMAIN task' = DOMAIN task
       /\ task'[j] = s
       /\ \A k \in DOMAIN task : k # j => task'[k] = task[k]
  BY <1>1, <1>2, <1>9, <1>10, <1>13, <1>14, <1>15, TaskFrame DEF CountInv, t
<1>17. /\ DOMAIN worker' = DOMAIN worker
       /\ worker' = [u \in DOMAIN worker' |-> worker'[u]]
       /\ \A u \in DOMAIN worker :
            worker'[u] = [state |-> worker[u].state, port |-> worker[u].port,
                          backlog |-> worker[u].backlog, peer |-> worker[u].peer,
                          aborted |-> worker[u].aborted \/ (u[1] = j /\ u[2] = t.n)]
  <2>1. ASSUME NEW u \in DOMAIN worker
        PROVE  worker'[u] = [state |-> worker[u].state, port |-> worker[u].port,
                             backlog |-> worker[u].backlog, peer |-> worker[u].peer,
                             aborted |-> worker[u].aborted \/ (u[1] = j /\ u[2] = t.n)]
    <3> DEFINE w == worker[u]
               aborted == w.aborted \/ (u[1] = j /\ u[2] = t.n)
    <3>1. w = [state |-> w.state, port |-> w.port, backlog |-> w.backlog,
               peer |-> w.peer, aborted |-> w.aborted]
      BY DEF NameInv
    <3>2. worker'[u] = [w EXCEPT !.aborted = aborted]
      BY <1>1
    <3> HIDE DEF w, aborted
    <3>3. worker'[u] = [state |-> w.state, port |-> w.port, backlog |-> w.backlog,
                        peer |-> w.peer, aborted |-> aborted]
      BY <3>1, <3>2
    <3>. QED  BY <3>3 DEF w, aborted
  <2>2. DOMAIN worker' = DOMAIN worker /\ worker' = [u \in DOMAIN worker' |-> worker'[u]]
    BY <1>1
  <2>. QED  BY <2>1, <2>2
<1>18. NameInv'
  <2>1. \A k \in DOMAIN task : /\ task'[k].run = task[k].run
                               /\ task'[k].workers = task[k].workers
    BY <1>10, <1>16 DEF t
  <2>2. ASSUME NEW u \in DOMAIN worker
        PROVE  /\ worker'[u] = [state |-> worker'[u].state, port |-> worker'[u].port,
                                backlog |-> worker'[u].backlog,
                                peer |-> worker'[u].peer, aborted |-> worker'[u].aborted]
               /\ worker'[u].state \in {"spawned", "listening", "serving", "gone"}
               /\ worker'[u].aborted \in BOOLEAN
               /\ worker'[u].backlog \in Seq(Name)
    <3>1. /\ worker'[u].state = worker[u].state /\ worker'[u].port = worker[u].port
          /\ worker'[u].backlog = worker[u].backlog /\ worker'[u].peer = worker[u].peer
      BY <1>17
    <3>3. worker'[u].aborted \in BOOLEAN
      <4> DEFINE aborted == worker[u].aborted \/ (u[1] = j /\ u[2] = t.n)
      <4>1. aborted \in BOOLEAN
        OBVIOUS
      <4>2. worker'[u].aborted = aborted
        BY <1>17
      <4>. QED  BY <4>1, <4>2
    <3>2. worker'[u] = [state |-> worker'[u].state, port |-> worker'[u].port,
                        backlog |-> worker'[u].backlog,
                        peer |-> worker'[u].peer, aborted |-> worker'[u].aborted]
      BY <1>17
    <3>. QED  BY <3>1, <3>2, <3>3 DEF NameInv
  <2>3. ASSUME NEW u \in DOMAIN worker
        PROVE  /\ u \in Name /\ u = <<u[1], u[2], u[3]>>
               /\ u[1] \in DOMAIN task'
               /\ u[2] \in DOMAIN task'[u[1]].run
               /\ task'[u[1]].run[u[2]] \in DOMAIN Kind
               /\ u[3] \in 1 .. task'[u[1]].workers
    <3>1. /\ u \in Name /\ u = <<u[1], u[2], u[3]>>
          /\ u[1] \in DOMAIN task
          /\ u[2] \in DOMAIN task[u[1]].run
          /\ task[u[1]].run[u[2]] \in DOMAIN Kind
          /\ u[3] \in 1 .. task[u[1]].workers
      BY DEF NameInv
    <3>. QED  BY <1>16, <2>1, <3>1
  <2>4. DOMAIN worker' = DOMAIN worker /\ worker' = [u \in DOMAIN worker' |-> worker'[u]]
    BY <1>17
  <2>. QED  BY <2>2, <2>3, <2>4 DEF NameInv
<1>19. StartedInv'
  <2>1. ASSUME NEW k \in DOMAIN task, k # j PROVE Started(k)'
    BY <1>16, <1>17, <2>1, StartedStays DEF StartedInv
  <2>2. ASSUME NEW u \in DOMAIN worker, u[1] = j PROVE u[2] <= t.n /\ u[2] \in Nat
    BY <1>3, <2>2 DEF Started, NameInv, Name, t
  <2>3. Started(j)'
    BY <1>1, <1>4, <1>8, <1>7, <1>10, <1>16, <1>17, <2>2 DEF Started, Advanced
  <2>. QED  BY <1>16, <2>1, <2>3 DEF StartedInv
<1>20. ASSUME PortInv, ServiceInv PROVE PortInv' /\ ServiceInv'
  <2>1. PortInv'
    <3>1. \A u \in DOMAIN worker :
            /\ worker'[u].state = worker[u].state /\ worker'[u].port = worker[u].port
            /\ worker'[u].backlog = worker[u].backlog /\ worker'[u].peer = worker[u].peer
      BY <1>17
    <3>. QED  BY <1>17, <1>20, <3>1 DEF PortInv
  <2>2. ASSUME NEW u \in DOMAIN worker, u[1] = j PROVE ~Current(u)'
    <3>1. u[2] <= t.n /\ u[2] \in Nat
      BY <1>3, <2>2 DEF Started, NameInv, Name, t
    <3>. QED  BY <1>4, <1>10, <1>16, <2>2, <3>1 DEF Current, AtItem
  <2>3. ASSUME NEW u \in DOMAIN worker, u[1] # j PROVE Current(u)' => Serviced(u)'
    <3>1. task'[u[1]] = task[u[1]]
      BY <1>16, <2>3 DEF NameInv
    <3>2. worker'[u] = worker[u]
      BY <1>17, <2>3 DEF NameInv
    <3>. QED  BY <1>20, <3>1, <3>2, ServicedStays DEF ServiceInv
  <2>. QED  BY <1>17, <2>1, <2>2, <2>3 DEF ServiceInv
<1>. QED  BY <1>1, <1>16, <1>18, <1>19, <1>20

----------------------------------------------------------------------------
(* Every step of the service keeps the invariant.                          *)
LEMMA NextInv == IndInv /\ [Next]_vars => IndInv'
<1> SUFFICES ASSUME IndInv, [Next]_vars PROVE IndInv'
  OBVIOUS
<1>1. ASSUME NEW c \in Client, HttpStep(c) PROVE IndInv'
  BY <1>1, HttpStepInv
<1>2. ASSUME NEW c \in Client, ServerStep(c) PROVE IndInv'
  BY <1>2, HttpStepInv, RequestInv, SubmitInv DEF ServerStep
<1>3. ASSUME NEW j \in DOMAIN task, TaskStep(j) PROVE IndInv'
  BY <1>3, TaskStartsInv, StartWorkerInv, ConnectInv, ReceiveReadyInv, RunMetaInv,
     FailsInv, VerifyInv DEF TaskStep
<1>4. ASSUME NEW u \in DOMAIN worker, WorkerStep(u) PROVE IndInv'
  BY <1>4, BindInv, AcceptInv, ExitsInv DEF WorkerStep
<1>5. CASE UNCHANGED vars
  <2>1. UNCHANGED <<httpVars, datasets, nonce, jobs, task, worker, pinned, troubles>>
    BY <1>5 DEF vars, taskVars
  <2>2. HttpInv' /\ CountInv' /\ TaskInv' /\ NameInv' /\ StartedInv'
    BY <2>1, HttpUnchanged DEF IndInv, CountInv, TaskInv, NameInv, StartedInv, Started
  <2>3. "collision" \notin troubles => PortInv' /\ ServiceInv'
    BY <2>1, ServicedStays DEF IndInv, PortInv, ServiceInv, NameInv
  <2>. QED  BY <2>1, <2>2, <2>3 DEF IndInv
<1>. QED  BY <1>1, <1>2, <1>3, <1>4, <1>5 DEF Next

LEMMA Invariance == Spec => []IndInv
<1>. QED  BY InitInv, NextInv, PTL DEF Spec

LEMMA InvImpliesTypeOK == IndInv => TypeOK
<1> SUFFICES ASSUME IndInv PROVE TypeOK
  OBVIOUS
<1> USE DEF IndInv
<1>1. asks \in 0 .. MaxAsks /\ nonce \in 1 .. (MaxJobs + 1)
      /\ troubles \subseteq {"collision", "timeout"}
  BY DEF HttpInv, CountInv
<1>2. \A c \in Client : exchange[c].answer.status \in {0, 200, 404, 500}
  <2>1. Closed.answer.status = 0
    BY DEF Closed, Unanswered
  <2>2. ASSUME NEW c \in Client, Exchanged(exchange[c])
        PROVE  exchange[c].answer.status \in {0, 200, 404, 500}
    BY <2>2 DEF Exchanged, Answered
  <2>3. \A c \in Client : exchange[c] = Closed \/ Exchanged(exchange[c])
    BY DEF HttpInv
  <2>4. ASSUME NEW c \in Client, exchange[c] = Closed
        PROVE  exchange[c].answer.status \in {0, 200, 404, 500}
    BY <2>1, <2>4
  <2> TAKE c \in Client
  <2>5. CASE exchange[c] = Closed
    BY <2>4, <2>5
  <2>6. CASE Exchanged(exchange[c])
    BY <2>2, <2>6
  <2>. QED  BY <2>3, <2>5, <2>6
<1>3. DOMAIN datasets \subseteq Dataset /\ Range(datasets) \subseteq Meta
  BY DEF CountInv, Range
<1>4. DOMAIN jobs \subseteq Job /\ DOMAIN task \subseteq Job
  BY JobShape, JobsAssumption DEF CountInv, Job
<1>5. \A j \in DOMAIN jobs :
        jobs[j] \in [dataset : Dataset, wcc : Reports, pr : Reports,
                     status : {"pending", "running", "succeeded", "failed"}]
  BY JobShape DEF JobRecord
<1>6. ASSUME NEW j \in DOMAIN task
      PROVE  /\ task[j].pc \in {"spawned", "start", "connect", "ready", "verify", "ended"}
             /\ task[j].n \in 1 .. Max({1, Len(task[j].run)})
             /\ task[j].i \in 1 .. (task[j].workers + 1)
  <2> DEFINE t == task[j]
             len == Len(t.run)
  <2>1. t \in TaskRecord /\ Progress(t)
    BY JobShape DEF TaskInv
  <2>2. /\ t.pc \in Pcs /\ t.n \in Positions /\ t.i \in Positions
        /\ t.workers \in Nat /\ len \in Nat
        /\ t.n = 1 \/ t.n <= len
        /\ t.i <= t.workers + 1
    BY <2>1 DEF TaskRecord, Progress
  <2> HIDE DEF t, len
  <2>3. Max({1, len}) \in Nat /\ 1 <= Max({1, len}) /\ len <= Max({1, len})
    BY <2>2, MaxOfTwo
  <2>4. t.n \in 1 .. Max({1, len}) /\ t.i \in 1 .. (t.workers + 1)
    BY <2>2, <2>3 DEF Positions
  <2>. QED  BY <2>2, <2>4 DEF Pcs, t, len
<1>7. \A u \in DOMAIN worker :
        /\ u[1] \in DOMAIN task
        /\ u[2] \in DOMAIN task[u[1]].run
        /\ u[3] \in 1 .. task[u[1]].workers
        /\ worker[u].state \in {"spawned", "listening", "serving", "gone"}
        /\ worker[u].aborted \in BOOLEAN
  BY DEF NameInv
<1>. QED  BY <1>1, <1>2, <1>3, <1>4, <1>5, <1>6, <1>7 DEF TypeOK

(* The type invariant of the service, for every set of clients, requests   *)
(* and datasets and every number of jobs.                                  *)
THEOREM TypeCorrect == Spec => []TypeOK
BY Invariance, InvImpliesTypeOK, PTL

(* handle_submit_job with the task it spawns, run_wcc_meta and             *)
(* run_pagerank_meta with what they verify: a job that is listed as        *)
(* succeeded has a report for each algorithm it names, under either name   *)
(* of PageRank, made from the dataset as it was when the job was submitted *)
(* with the job's own parameters, and it agrees with the truth.            *)
THEOREM SuccessIsVerified == Spec => []SucceededVerified
<1>1. IndInv => SucceededVerified
  <2> SUFFICES ASSUME IndInv, NEW j \in DOMAIN jobs, jobs[j].status = "succeeded",
                      NEW kind \in Algorithms
               PROVE  IF Names(task[j].run, kind)
                        THEN jobs[j][kind] = "right" /\ Sound(pinned[j], task[j], kind)
                        ELSE jobs[j][kind] = None
    BY DEF SucceededVerified
  <2>1. task[j].meta = pinned[j] /\ Recorded(jobs[j], task[j], troubles)
    BY JobShape DEF IndInv, TaskInv
  <2>. QED  BY <2>1 DEF Recorded
<1>. QED  BY <1>1, Invariance, PTL

(* start_workers, connect and run_worker of several jobs in one process: a *)
(* job fails only for a reason of its own or for a port that was given     *)
(* twice or not listened on in time.                                       *)
THEOREM FailureHasCause == Spec => []FailsOnlyForCause
<1>1. IndInv => FailsOnlyForCause
  <2> SUFFICES ASSUME IndInv, NEW j \in DOMAIN jobs, jobs[j].status = "failed"
               PROVE  \/ task[j].workers = 0
                      \/ ~task[j].out
                      \/ \E kind \in Algorithms :
                           Names(task[j].run, kind) /\ ~Sound(pinned[j], task[j], kind)
                      \/ Twice(task[j].run)
                      \/ troubles # {}
    BY DEF FailsOnlyForCause
  <2>1. task[j].meta = pinned[j] /\ Recorded(jobs[j], task[j], troubles)
    BY JobShape DEF IndInv, TaskInv
  <2>. QED  BY <2>1 DEF Recorded, Caused
<1>. QED  BY <1>1, Invariance, PTL

(* read_request and the handlers: however a request is cut into segments,  *)
(* it is handled only if it came whole and within both limits, refused as  *)
(* malformed only if it is, and turned away only for a reason in what was  *)
(* sent; only how much of the body may count as header is left to the      *)
(* segments.                                                               *)
THEOREM RequestsWhole == Spec => []HandledAsSent
<1>1. IndInv => HandledAsSent
  <2> SUFFICES ASSUME IndInv, NEW c \in Client, ~Waiting(c), exchange[c] # Closed
               PROVE  Justified(exchange[c].request, exchange[c].answer.body)
    BY DEF HandledAsSent
  <2>1. Exchanged(exchange[c])
    BY DEF IndInv, HttpInv
  <2>. QED  BY <2>1 DEF Waiting, Exchanged, Answered
<1>. QED  BY <1>1, Invariance, PTL

============================================================================
