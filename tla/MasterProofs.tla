---------------------------- MODULE MasterProofs ----------------------------
(***************************************************************************)
(* Theorems of Master, for every set of workers, period, delay and time to *)
(* live: of these TimingAssumption says no more than that they are natural *)
(* numbers and the period is not 0.                                        *)
(***************************************************************************)
EXTENDS Master, TLAPS

(* What is known of the messages on their way: whose they are, when they   *)
(* were sent and when their handler read the clock, which is not later     *)
(* than Delay after they were sent.                                        *)
Kind == {"Register", "Heartbeat"}

MessageInv ==
  /\ message \subseteq [worker : Worker, kind : Kind, sent : Nat, now : Int]
  /\ \A m \in message :
       /\ m.sent <= clock /\ clock <= m.sent + Delay
       /\ m.now = -1 \/ (m.sent <= m.now /\ m.now <= clock)

(* Deadlines are met: nobody sleeps longer than its period, no query takes *)
(* longer than Delay, and the times recorded are not in the future.        *)
ClockInv ==
  /\ \A w \in Worker : task[w] = "beat" => clock <= due[w]
  /\ query # Idle => query <= clock /\ clock <= query + Delay
  /\ diedAt \in [Worker -> Nat]
  /\ known \subseteq Worker

(* Nothing is heard of a worker before it registers. *)
SilentInv ==
  \A w \in Worker :
    task[w] \in {"register", "stopped"} =>
      w \notin known /\ \A m \in message : m.worker # w

(* A dead worker was last heard of at most Delay after it died. *)
DeadInv ==
  \A w \in Worker : task[w] = "dead" =>
    /\ diedAt[w] <= clock
    /\ w \in DOMAIN workers => workers[w] <= diedAt[w] + Delay
    /\ \A m \in message : m.worker = w => m.sent <= diedAt[w]

IndInv == TypeOK /\ MessageInv /\ ClockInv /\ SilentInv /\ DeadInv

(* How long before the end of its sleep the map was told of a worker, if   *)
(* no message of it is on its way: a period, and one for every heartbeat   *)
(* that was lost since.                                                    *)
Gap(w) == (missed[w] + 1) * Period

InTime(w) ==
  \/ workers[w] >= due[w] - Gap(w)
  \/ /\ workers[w] >= due[w] - Gap(w) - Period
     /\ \E m \in message : m.worker = w /\ m.sent = due[w] - Period

(* A worker that sends heartbeats has an entry once it is known, and one   *)
(* in time, as long as the time to live spans the heartbeats it missed.    *)
(* No other messages are on their way than the last one, and before the    *)
(* first heartbeat the registration.                                       *)
LivingInv ==
  \A w \in Worker : task[w] = "beat" =>
    /\ \A m \in message : m.worker = w => m.sent \in {due[w] - Period, due[w]}
    /\ w \in known /\ Spared(w) => w \in DOMAIN workers
    /\ w \in DOMAIN workers => InTime(w)

(* Messages of one worker do not overtake each other by a period.          *)
Prompt == Delay < Period

----------------------------------------------------------------------------
LEMMA IndInit == Init => IndInv
BY TimingAssumption
   DEF Init, IndInv, TypeOK, MessageInv, ClockInv, SilentInv, DeadInv

LEMMA IndNext == IndInv /\ [Next]_vars => IndInv'
<1> SUFFICES ASSUME IndInv, [Next]_vars PROVE IndInv'
  OBVIOUS
<1> USE TimingAssumption DEF Kind
<1>t. TypeOK /\ MessageInv /\ ClockInv /\ SilentInv /\ DeadInv
  BY DEF IndInv
<1>1. ASSUME NEW w \in Worker, Register(w) PROVE IndInv'
  <2>1. TypeOK' /\ MessageInv' /\ ClockInv'
    BY <1>1, <1>t DEF Register, Sends, TypeOK, MessageInv, ClockInv
  <2>2. SilentInv' /\ DeadInv'
    BY <1>1, <1>t DEF Register, Sends, TypeOK, SilentInv, DeadInv
  <2>. QED  BY <2>1, <2>2 DEF IndInv
<1>2. ASSUME NEW w \in Worker, RegisterLost(w) \/ RegisterFails(w) \/ HeartbeatLost(w)
      PROVE  IndInv'
  <2>1. TypeOK' /\ MessageInv' /\ ClockInv'
    BY <1>2, <1>t
       DEF RegisterLost, RegisterFails, HeartbeatLost, TypeOK, MessageInv, ClockInv
  <2>2. SilentInv' /\ DeadInv'
    BY <1>2, <1>t
       DEF RegisterLost, RegisterFails, HeartbeatLost, TypeOK, SilentInv, DeadInv
  <2>. QED  BY <2>1, <2>2 DEF IndInv
<1>3. ASSUME NEW w \in Worker, Heartbeat(w) PROVE IndInv'
  <2>1. TypeOK' /\ MessageInv' /\ ClockInv'
    BY <1>3, <1>t DEF Heartbeat, Sends, TypeOK, MessageInv, ClockInv
  <2>2. SilentInv' /\ DeadInv'
    BY <1>3, <1>t DEF Heartbeat, Sends, TypeOK, SilentInv, DeadInv
  <2>. QED  BY <2>1, <2>2 DEF IndInv
<1>4. ASSUME NEW w \in Worker, WorkerDies(w) PROVE IndInv'
  <2>1. TypeOK' /\ MessageInv' /\ ClockInv' /\ SilentInv'
    BY <1>4, <1>t DEF WorkerDies, TypeOK, MessageInv, ClockInv, SilentInv
  <2>2. DeadInv'
    BY <1>4, <1>t DEF WorkerDies, TypeOK, MessageInv, ClockInv, DeadInv
  <2>. QED  BY <2>1, <2>2 DEF IndInv
<1>5. ASSUME NEW m \in message, HandleWorker(m) PROVE IndInv'
  <2>1. TypeOK' /\ MessageInv' /\ ClockInv'
    BY <1>5, <1>t DEF HandleWorker, TypeOK, MessageInv, ClockInv
  <2>2. SilentInv' /\ DeadInv'
    BY <1>5, <1>t DEF HandleWorker, MessageInv, SilentInv, DeadInv
  <2>. QED  BY <2>1, <2>2 DEF IndInv
<1>6. ASSUME NEW m \in message, Insert(m) PROVE IndInv'
  <2>1. TypeOK' /\ MessageInv' /\ ClockInv'
    BY <1>6, <1>t DEF Insert, TypeOK, MessageInv, ClockInv
  <2>2. SilentInv' /\ DeadInv'
    BY <1>6, <1>t DEF Insert, TypeOK, MessageInv, ClockInv, SilentInv, DeadInv
  <2>. QED  BY <2>1, <2>2 DEF IndInv
<1>7. CASE AliveWorkers
  BY <1>7, <1>t
     DEF AliveWorkers, IndInv, TypeOK, MessageInv, ClockInv, SilentInv, DeadInv
<1>8. CASE Retain
  <2>1. /\ DOMAIN workers' \subseteq DOMAIN workers
        /\ \A w \in DOMAIN workers' : workers'[w] = workers[w]
    BY <1>8 DEF Retain, Restrict
  <2>2. TypeOK' /\ MessageInv' /\ ClockInv'
    BY <1>8, <1>t, <2>1 DEF Retain, TypeOK, MessageInv, ClockInv
  <2>3. SilentInv' /\ DeadInv'
    BY <1>8, <1>t, <2>1 DEF Retain, SilentInv, DeadInv
  <2>. QED  BY <2>2, <2>3 DEF IndInv
<1>9. CASE Tick
  <2>1. TypeOK' /\ MessageInv' /\ ClockInv'
    BY <1>9, <1>t DEF Tick, TypeOK, MessageInv, ClockInv
  <2>2. SilentInv' /\ DeadInv'
    BY <1>9, <1>t DEF Tick, TypeOK, ClockInv, SilentInv, DeadInv
  <2>. QED  BY <2>1, <2>2 DEF IndInv
<1>10. CASE UNCHANGED vars
  BY <1>10, <1>t DEF vars, IndInv, TypeOK, MessageInv, ClockInv, SilentInv, DeadInv
<1>. QED  BY <1>1, <1>2, <1>3, <1>4, <1>5, <1>6, <1>7, <1>8, <1>9, <1>10 DEF Next

LEMMA IndAlways == Spec => []IndInv
BY IndInit, IndNext, PTL DEF Spec

(* Only Retain returns an answer: what it keeps.                           *)
LEMMA AnswerIs ==
  ASSUME Next, Answers
  PROVE  /\ DOMAIN workers' = {w \in DOMAIN workers : Fresh(query, workers[w])}
         /\ \A w \in DOMAIN workers' : workers'[w] = workers[w]
         /\ UNCHANGED <<clock, task, due, message, known, missed, diedAt>>
<1>1. Retain
  BY DEF Answers, Next, Register, RegisterLost, RegisterFails, Heartbeat, HeartbeatLost,
     WorkerDies, HandleWorker, Insert, AliveWorkers, Tick
<1>. QED  BY <1>1 DEF Retain, Restrict

(* Every entry of the registry is about a worker that was registered and a *)
(* time that has passed.                                                   *)
THEOREM TypeCorrect == Spec => []TypeOK
<1>1. IndInv => TypeOK
  BY DEF IndInv
<1>. QED  BY <1>1, IndAlways, PTL

(* A worker that is dead is not listed any more once it has been dead for  *)
(* the time to live and what its last heartbeat took to arrive             *)
(* (alive_workers), whatever was still on its way when it died.            *)
THEOREM DeadForgotten == Spec => ForgetsTheDead
<1> DEFINE Forgets == Answers =>
             \A w \in DOMAIN workers' :
               task[w] = "dead" => query <= diedAt[w] + Delay + Ttl
<1>1. IndInv /\ [Next]_vars => [Forgets]_vars
  <2> SUFFICES ASSUME IndInv, Next, Answers, NEW w \in DOMAIN workers', task[w] = "dead"
               PROVE  query <= diedAt[w] + Delay + Ttl
    BY Zenon DEF Forgets
  <2>1. w \in DOMAIN workers /\ Fresh(query, workers[w])
    BY AnswerIs
  <2>2. /\ w \in Worker /\ diedAt[w] \in Nat /\ workers[w] \in Nat
        /\ workers[w] <= diedAt[w] + Delay /\ query \in Nat
    BY <2>1, TimingAssumption DEF IndInv, TypeOK, ClockInv, DeadInv, Answers
  <2>. QED  BY <2>1, <2>2, TimingAssumption DEF Fresh
<1>. QED  BY <1>1, IndAlways, PTL DEF Spec, ForgetsTheDead

----------------------------------------------------------------------------
(* The living.                                                             *)
LEMMA Gaps ==
  ASSUME TypeOK, NEW w \in Worker
  PROVE  /\ Gap(w) \in Nat
         /\ Spared(w) <=> Gap(w) + Delay <= Ttl
         /\ missed'[w] = missed[w] => Gap(w)' = Gap(w)
         /\ missed'[w] = missed[w] + 1 => Gap(w)' = Gap(w) + Period
         /\ missed'[w] = 0 => Gap(w)' = Period
<1>1. missed[w] \in Nat /\ Period \in Nat
  BY TimingAssumption DEF TypeOK
<1>2. \A k, p \in Nat : /\ (k + 1) * p \in Nat
                        /\ ((k + 1) + 1) * p = (k + 1) * p + p
                        /\ (0 + 1) * p = p
  OBVIOUS
<1>. QED  BY <1>1, <1>2 DEF Gap, Spared

(* What concerns one worker.                                               *)
Living(w) ==
  task[w] = "beat" =>
    /\ \A m \in message : m.worker = w => m.sent \in {due[w] - Period, due[w]}
    /\ w \in known /\ Spared(w) => w \in DOMAIN workers
    /\ w \in DOMAIN workers => InTime(w)

(* A worker that is known and spared is fresh for the query that is being  *)
(* answered.                                                               *)
LEMMA LivingIsFresh ==
  ASSUME IndInv, LivingInv, query # Idle,
         NEW w \in Worker, task[w] = "beat", w \in known, Spared(w)
  PROVE  w \in DOMAIN workers /\ Fresh(query, workers[w])
<1> USE DEF IndInv
<1>1. /\ clock <= due[w] /\ query <= clock /\ w \in DOMAIN workers /\ InTime(w)
      /\ clock \in Nat /\ due[w] \in Nat /\ workers[w] \in Nat /\ query \in Nat
  BY TimingAssumption DEF ClockInv, LivingInv, TypeOK
<1>2. Gap(w) \in Nat /\ Gap(w) + Delay <= Ttl
  BY Gaps
<1>3. CASE workers[w] >= due[w] - Gap(w)
  BY <1>1, <1>2, <1>3, TimingAssumption DEF Fresh
<1>4. CASE /\ workers[w] >= due[w] - Gap(w) - Period
           /\ \E m \in message : m.worker = w /\ m.sent = due[w] - Period
  <2>1. clock <= due[w] - Period + Delay
    BY <1>4 DEF MessageInv
  <2>. QED  BY <1>1, <1>2, <1>4, <2>1, TimingAssumption DEF Fresh
<1>. QED  BY <1>1, <1>3, <1>4 DEF InTime

(* A step that does not concern a worker.                                  *)
LEMMA LivingStays ==
  ASSUME IndInv, NEW w \in Worker, Living(w),
         task'[w] = "beat" => task[w] = "beat", due'[w] = due[w],
         missed'[w] = missed[w], w \in known' => w \in known,
         w \in DOMAIN workers' <=> w \in DOMAIN workers,
         w \in DOMAIN workers => workers'[w] = workers[w],
         \A m \in message' : m.worker = w =>
           \E n \in message : n.worker = w /\ n.sent = m.sent,
         \A m \in message : m.worker = w =>
           \E n \in message' : n.worker = w /\ n.sent = m.sent
  PROVE  Living(w)'
<1>1. Gap(w)' = Gap(w) /\ (Spared(w)' <=> Spared(w))
  BY Gaps DEF IndInv, Spared
<1>. QED  BY <1>1 DEF Living, InTime

LEMMA LivingNext ==
  ASSUME Prompt, IndInv, LivingInv, [Next]_vars
  PROVE  LivingInv'
<1>t. /\ TypeOK /\ MessageInv /\ ClockInv /\ SilentInv
      /\ Period \in Nat /\ Delay \in Nat /\ Delay < Period
      /\ clock \in Nat /\ known \subseteq Worker /\ \A u \in Worker : due[u] \in Nat
  BY TimingAssumption DEF Prompt, IndInv, TypeOK, ClockInv
<1>l. \A w \in Worker : Living(w)
  BY DEF LivingInv, Living
<1>q. ASSUME \A w \in Worker : Living(w)' PROVE LivingInv'
  BY <1>q DEF LivingInv, Living
<1>1. ASSUME NEW u \in Worker, Register(u) \/ RegisterLost(u), NEW w \in Worker
      PROVE  Living(w)'
  <2>1. /\ due' = [due EXCEPT ![u] = clock] /\ UNCHANGED <<workers, known, missed>>
        /\ task[u] = "register" /\ task' = [task EXCEPT ![u] = "beat"]
        /\ message \subseteq message'
        /\ \A m \in message' \ message : m.worker = u /\ m.sent = clock
    BY <1>1 DEF Register, RegisterLost, Sends
  <2>2. CASE w = u
    <3>1. /\ w \notin known /\ w \notin DOMAIN workers
          /\ \A m \in message : m.worker # w
      BY <2>1, <2>2, <1>t DEF SilentInv, TypeOK
    <3>2. due'[w] = clock
      BY <2>1, <2>2, <1>t DEF TypeOK
    <3>. QED  BY <2>1, <3>1, <3>2 DEF Living
  <2>3. CASE w # u
    <3>1. due'[w] = due[w] /\ task'[w] = task[w]
      BY <2>1, <2>3, <1>t DEF TypeOK
    <3>. QED  BY <1>l, <2>1, <2>3, <3>1, LivingStays
  <2>. QED  BY <2>2, <2>3
<1>2. ASSUME NEW u \in Worker, RegisterFails(u) \/ WorkerDies(u), NEW w \in Worker
      PROVE  Living(w)'
  <2>1. task'[w] = "beat" => task[w] = "beat"
    BY <1>2, <1>t DEF RegisterFails, WorkerDies, TypeOK
  <2>. QED  BY <1>2, <1>l, <2>1, LivingStays DEF RegisterFails, WorkerDies
<1>3. ASSUME NEW u \in Worker, Heartbeat(u) \/ HeartbeatLost(u), NEW w \in Worker
      PROVE  Living(w)'
  <2>1. /\ task[u] = "beat" /\ clock = due[u] /\ due' = [due EXCEPT ![u] = clock + Period]
        /\ UNCHANGED <<task, workers, known>>
        /\ message \subseteq message'
        /\ \A m \in message' \ message : m.worker = u /\ m.sent = clock
        /\ \A v \in Worker \ {u} : missed'[v] = missed[v]
    BY <1>3, <1>t DEF Heartbeat, HeartbeatLost, Sends, TypeOK, ClockInv
  <2>2. CASE w = u
    <3>1. due'[w] = clock + Period /\ clock = due[w] /\ due[w] \in Nat
      BY <2>1, <2>2, <1>t DEF TypeOK
    <3>2. \A m \in message : m.worker = w => m.sent = clock
      BY <1>t, <1>l, <2>1, <2>2, <3>1 DEF Living, MessageInv
    <3>3. \A m \in message' : m.worker = w => m.sent \in {due'[w] - Period, due'[w]}
      BY <1>t, <2>1, <3>1, <3>2
    <3>4. w \in DOMAIN workers => workers[w] >= due[w] - Gap(w) /\ workers[w] \in Nat
      BY <1>t, <1>l, <2>1, <2>2, <3>1, <3>2, Gaps DEF Living, InTime, TypeOK
    <3>5. Gap(w) \in Nat
      BY <1>t, Gaps
    <3>6. CASE Heartbeat(w)
      <4>1. Gap(w)' = Gap(w) /\ (Spared(w)' <=> Spared(w))
        BY <1>t, <3>6, Gaps DEF Heartbeat, Spared
      <4>2. \E m \in message' : m.worker = w /\ m.sent = clock
        <5>1. PICK m : m = [worker |-> w, kind |-> "Heartbeat", sent |-> clock, now |-> -1]
          OBVIOUS
        <5>. QED  BY <5>1, <3>6 DEF Heartbeat, Sends
      <4>3. w \in DOMAIN workers => InTime(w)'
        BY <1>t, <2>1, <3>1, <3>4, <3>5, <4>1, <4>2 DEF InTime
      <4>. QED  BY <1>l, <2>1, <2>2, <3>3, <4>1, <4>3 DEF Living
    <3>7. CASE HeartbeatLost(w)
      <4>1. missed'[w] = missed[w] + 1
        BY <1>t, <3>7 DEF HeartbeatLost, TypeOK
      <4>2. Gap(w)' = Gap(w) + Period /\ (Spared(w)' => Spared(w))
        <5>1. Gap(w)' = Gap(w) + Period
          BY <1>t, <4>1, Gaps
        <5>2. Spared(w) <=> Gap(w) + Delay <= Ttl
          BY <1>t, Gaps
        <5>3. Spared(w)' <=> Gap(w)' + Delay <= Ttl
          BY DEF Spared, Gap
        <5>. QED  BY <1>t, <3>5, <5>1, <5>2, <5>3, TimingAssumption
      <4>3. w \in DOMAIN workers => InTime(w)'
        BY <1>t, <2>1, <3>1, <3>4, <3>5, <4>2 DEF InTime
      <4>. QED  BY <1>l, <2>1, <2>2, <3>3, <4>2, <4>3 DEF Living
    <3>. QED  BY <1>3, <2>2, <3>6, <3>7
  <2>3. CASE w # u
    <3>1. due'[w] = due[w] /\ missed'[w] = missed[w]
      BY <2>1, <2>3, <1>t DEF TypeOK
    <3>. QED  BY <1>l, <2>1, <2>3, <3>1, LivingStays
  <2>. QED  BY <2>2, <2>3
<1>4. ASSUME NEW m \in message, HandleWorker(m), NEW w \in Worker PROVE Living(w)'
  <2>1. [m EXCEPT !.now = clock].worker = m.worker /\ [m EXCEPT !.now = clock].sent = m.sent
    BY <1>t DEF MessageInv
  <2>2. \A x \in message' : \E y \in message : x.worker = y.worker /\ x.sent = y.sent
    BY <1>4, <2>1 DEF HandleWorker
  <2>3. \A y \in message : \E x \in message' : x.worker = y.worker /\ x.sent = y.sent
    BY <1>4, <2>1 DEF HandleWorker
  <2>. QED  BY <1>4, <1>l, <2>2, <2>3, LivingStays DEF HandleWorker
<1>5. ASSUME NEW m \in message, Insert(m), NEW w \in Worker PROVE Living(w)'
  <2>1. /\ m.now \in Nat /\ m.worker \in Worker /\ m.sent \in Nat /\ m.sent <= m.now
        /\ message' = message \ {m} /\ UNCHANGED <<task, due>>
        /\ known' = known \cup {m.worker}
        /\ missed' = [missed EXCEPT ![m.worker] = 0]
        /\ DOMAIN workers' = DOMAIN workers \cup {m.worker}
        /\ workers'[m.worker] = m.now
        /\ \A u \in DOMAIN workers : u # m.worker => workers'[u] = workers[u]
    BY <1>5, <1>t DEF Insert, MessageInv
  <2>2. CASE w = m.worker
    <3>1. missed'[w] = 0
      BY <1>t, <2>1, <2>2 DEF TypeOK
    <3>2. Gap(w)' = Period
      BY <1>t, <3>1, Gaps
    <3>3. task[w] = "beat" => m.sent \in {due[w] - Period, due[w]}
      BY <1>l, <2>2 DEF Living
    <3>4. task[w] = "beat" => InTime(w)'
      BY <1>t, <2>1, <2>2, <3>2, <3>3 DEF InTime
    <3>. QED  BY <1>l, <2>1, <2>2, <3>4 DEF Living
  <2>3. CASE w # m.worker
    <3>1. missed'[w] = missed[w]
      BY <1>t, <2>1, <2>3 DEF TypeOK
    <3>. QED  BY <1>l, <2>1, <2>3, <3>1, LivingStays
  <2>. QED  BY <2>2, <2>3
<1>6. ASSUME AliveWorkers \/ Tick \/ UNCHANGED vars, NEW w \in Worker PROVE Living(w)'
  BY <1>6, <1>l, LivingStays DEF AliveWorkers, Tick, vars
<1>7. ASSUME Retain, NEW w \in Worker PROVE Living(w)'
  <2>1. /\ DOMAIN workers' = {u \in DOMAIN workers : Fresh(query, workers[u])}
        /\ \A u \in DOMAIN workers' : workers'[u] = workers[u]
        /\ UNCHANGED <<clock, task, due, message, known, missed, diedAt>>
        /\ query # Idle
    BY <1>7 DEF Retain, Restrict
  <2>2. Spared(w)' <=> Spared(w)
    BY <2>1 DEF Spared
  <2>3. Gap(w)' = Gap(w)
    BY <2>1 DEF Gap
  <2>4. ASSUME task[w] = "beat", w \in known, Spared(w) PROVE w \in DOMAIN workers'
    BY <2>1, <2>4, LivingIsFresh
  <2>. QED  BY <1>l, <2>1, <2>2, <2>3, <2>4 DEF Living, InTime
<1>. QED  BY <1>q, <1>1, <1>2, <1>3, <1>4, <1>5, <1>6, <1>7 DEF Next

(* As long as messages do not overtake each other by a period, no answer   *)
(* omits a living worker that is known, whatever heartbeats of it are      *)
(* lost, as long as the time to live spans the ones lost in a row: not one *)
(* whose heartbeat waits for the lock, nor one that an earlier query       *)
(* looked at.                                                              *)
THEOREM LivingListed ==
  ASSUME Prompt
  PROVE  Spec => ListsTheLiving
<1> DEFINE Lists == Answers =>
             {w \in known : task[w] = "beat" /\ Spared(w)} \subseteq DOMAIN workers'
<1>1. Init => LivingInv
  BY DEF Init, LivingInv
<1>2. IndInv /\ LivingInv /\ [Next]_vars => LivingInv'
  BY LivingNext
<1>3. IndInv /\ LivingInv /\ [Next]_vars => [Lists]_vars
  <2> SUFFICES ASSUME IndInv, LivingInv, Next, Answers,
                      NEW w \in known, task[w] = "beat", Spared(w)
               PROVE  w \in DOMAIN workers'
    BY Zenon DEF Lists
  <2>1. w \in Worker
    BY DEF IndInv, ClockInv
  <2>2. w \in DOMAIN workers /\ Fresh(query, workers[w])
    BY <2>1, LivingIsFresh DEF Answers
  <2>. QED  BY <2>2, AnswerIs
<1>. QED  BY <1>1, <1>2, <1>3, IndAlways, PTL DEF Spec, ListsTheLiving

============================================================================
