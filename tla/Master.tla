------------------------------- MODULE Master -------------------------------
(***************************************************************************)
(* The registry of workers (distributed/master.rs) and the task by which a *)
(* worker registers and sends heartbeats (register_and_heartbeat in        *)
(* distributed/worker.rs).                                                 *)
(*                                                                         *)
(* Every message comes over a connection of its own and is handled by a    *)
(* task of its own, which reads the clock before it locks the map; so does *)
(* alive_workers.  A message is lost, or what happens on the way from the  *)
(* worker's send to the update of the map takes at most Delay; the sleep   *)
(* between two heartbeats is Period; the time to live of an entry is Ttl.  *)
(***************************************************************************)
EXTENDS Integers, FiniteSets, Functions

CONSTANTS
    Worker,
    Period,     \* the sleep between heartbeats (1 s in the code)
    Ttl,        \* worker_ttl_ms
    Delay,      \* bound on the time a message or a query takes
    MaxTime,    \* bound on the clock
    Idle        \* no query is being answered

ASSUME TimingAssumption ==
  Period \in Nat \ {0} /\ Delay \in Nat /\ Ttl \in Nat /\ MaxTime \in Nat

VARIABLES
    clock,
    task,      \* per worker, its registration task: "register", "beat",
               \* "stopped", or "dead" with the whole process
    due,       \* per worker, when its current sleep ends
    message,   \* messages sent and not yet in the map: [worker, kind, sent,
               \* now], now = -1 until the handler has read the clock
    workers,   \* the map: worker -> time it was last heard of
    query,     \* alive_workers in progress: the time it has read, or Idle
    known,     \* history: workers that were in the map at some time
    missed,    \* history: per worker, its heartbeats lost since the map was
               \* last told of it
    diedAt     \* history: per worker, when it died

vars == <<clock, task, due, message, workers, query, known, missed, diedAt>>

Init ==
  /\ clock = 0
  /\ task = [w \in Worker |-> "register"]
  /\ due = [w \in Worker |-> 0]
  /\ message = {}
  /\ workers = << >>
  /\ query = Idle
  /\ known = {}
  /\ missed = [w \in Worker |-> 0]
  /\ diedAt = [w \in Worker |-> MaxTime]

Sends(w, kind) ==
  message' = message \cup
               {[worker |-> w, kind |-> kind, sent |-> clock, now |-> -1]}

(* connect is retried until it succeeds; the first heartbeat follows the   *)
(* registration at once.                                                   *)
Register(w) ==
  /\ task[w] = "register"
  /\ Sends(w, "Register")
  /\ task' = [task EXCEPT ![w] = "beat"]
  /\ due' = [due EXCEPT ![w] = clock]
  /\ UNCHANGED <<clock, workers, query, known, missed, diedAt>>

(* The registration is sent, but does not arrive. *)
RegisterLost(w) ==
  /\ task[w] = "register"
  /\ task' = [task EXCEPT ![w] = "beat"]
  /\ due' = [due EXCEPT ![w] = clock]
  /\ UNCHANGED <<clock, message, workers, query, known, missed, diedAt>>

(* The send of the registration fails: the task returns, the worker lives. *)
RegisterFails(w) ==
  /\ task[w] = "register"
  /\ task' = [task EXCEPT ![w] = "stopped"]
  /\ UNCHANGED <<clock, due, message, workers, query, known, missed, diedAt>>

Heartbeat(w) ==
  /\ task[w] = "beat"
  /\ clock >= due[w]
  /\ Sends(w, "Heartbeat")
  /\ due' = [due EXCEPT ![w] = clock + Period]
  /\ UNCHANGED <<clock, task, workers, query, known, missed, diedAt>>

(* The connect or the send of a heartbeat fails, which the task passes     *)
(* over, or what was sent does not arrive.  (A connect that hangs counts   *)
(* as the heartbeats it takes the time of.)                                *)
HeartbeatLost(w) ==
  /\ task[w] = "beat"
  /\ clock >= due[w]
  /\ due' = [due EXCEPT ![w] = clock + Period]
  /\ missed' = [missed EXCEPT ![w] = @ + 1]
  /\ UNCHANGED <<clock, task, message, workers, query, known, diedAt>>

(* handle_worker up to the lock, and its insert. *)
HandleWorker(m) ==
  /\ m.now = -1
  /\ message' = (message \ {m}) \cup {[m EXCEPT !.now = clock]}
  /\ UNCHANGED <<clock, task, due, workers, query, known, missed, diedAt>>

(* Mutant of Insert: the time of the next heartbeat is recorded. *)
InsertNextDue(m) ==
  /\ m.now # -1
  /\ message' = message \ {m}
  /\ workers' = [w \in DOMAIN workers \cup {m.worker} |->
                   IF w = m.worker THEN m.now + Period ELSE workers[w]]
  /\ known' = known \cup {m.worker}
  /\ missed' = [missed EXCEPT ![m.worker] = 0]
  /\ UNCHANGED <<clock, task, due, query, diedAt>>

Insert(m) ==
  /\ m.now # -1
  /\ message' = message \ {m}
  /\ workers' = [w \in DOMAIN workers \cup {m.worker} |->
                   IF w = m.worker THEN m.now ELSE workers[w]]
  /\ known' = known \cup {m.worker}
  /\ missed' = [missed EXCEPT ![m.worker] = 0]
  /\ UNCHANGED <<clock, task, due, query, diedAt>>

(* alive_workers up to the lock, and its retain: it returns what it keeps. *)
AliveWorkers ==
  /\ query = Idle
  /\ query' = clock
  /\ UNCHANGED <<clock, task, due, message, workers, known, missed, diedAt>>

(* Mutants of Fresh: the limit excluded; a period of grace. *)
FreshBelow(now, last) == (IF now < last THEN 0 ELSE now - last) < Ttl

FreshGrace(now, last) == now - last <= Ttl + Period

Fresh(now, last) == (IF now < last THEN 0 ELSE now - last) <= Ttl

Retain ==
  /\ query # Idle
  /\ workers' = Restrict(workers, {w \in DOMAIN workers : Fresh(query, workers[w])})
  /\ query' = Idle
  /\ UNCHANGED <<clock, task, due, message, known, missed, diedAt>>

WorkerDies(w) ==
  /\ task[w] # "dead"
  /\ task' = [task EXCEPT ![w] = "dead"]
  /\ diedAt' = [diedAt EXCEPT ![w] = clock]
  /\ UNCHANGED <<clock, due, message, workers, query, known, missed>>

(* Time passes, but not over a deadline. *)
Tick ==
  /\ clock < MaxTime
  /\ \A m \in message : clock < m.sent + Delay
  /\ \A w \in Worker : task[w] = "beat" => clock < due[w]
  /\ query # Idle => clock < query + Delay
  /\ clock' = clock + 1
  /\ UNCHANGED <<task, due, message, workers, query, known, missed, diedAt>>

Next ==
  \/ \E w \in Worker :
       \/ Register(w) \/ RegisterLost(w) \/ RegisterFails(w)
       \/ Heartbeat(w) \/ HeartbeatLost(w)
       \/ WorkerDies(w)
  \/ \E m \in message : HandleWorker(m) \/ Insert(m)
  \/ AliveWorkers
  \/ Retain
  \/ Tick

Spec == Init /\ [][Next]_vars

----------------------------------------------------------------------------
TypeOK ==
  /\ clock \in 0 .. MaxTime
  /\ task \in [Worker -> {"register", "beat", "stopped", "dead"}]
  /\ due \in [Worker -> 0 .. (MaxTime + Period)]
  /\ \A m \in message : m.worker \in Worker /\ m.sent <= clock /\ m.now <= clock
  /\ DOMAIN workers \subseteq known
  /\ \A w \in DOMAIN workers : workers[w] \in 0 .. clock
  /\ query \in {Idle} \cup 0 .. clock
  /\ missed \in [Worker -> Nat]

(* alive_workers returns: the workers in the map. *)
Answers == query # Idle /\ query' = Idle

(* The time to live spans the heartbeats of w that were lost, the next one *)
(* and what that takes to arrive.                                          *)
Spared(w) == (missed[w] + 1) * Period + Delay <= Ttl

(* A living worker that was registered is in every answer, unless so many  *)
(* of its heartbeats in a row were lost that the time to live does not     *)
(* span them: neither a heartbeat still on its way, nor clocks read before *)
(* the lock was waited for, nor a removal by an earlier query hides it.    *)
ListsTheLiving ==
  [][ Answers =>
        {w \in known : task[w] = "beat" /\ Spared(w)} \subseteq DOMAIN workers' ]_vars

(* A worker is not handed out any more once it has been dead for the time  *)
(* to live and what its last heartbeat took to arrive.                     *)
ForgetsTheDead ==
  [][ Answers =>
        \A w \in DOMAIN workers' :
          task[w] = "dead" => query <= diedAt[w] + Delay + Ttl ]_vars

============================================================================
