------------------------ MODULE DriverServiceProofs ------------------------
(***************************************************************************)
(* Theorems of DriverService, for every number of workers, submissions,    *)
(* crashes and restarts.                                                   *)
(***************************************************************************)
EXTENDS DriverService, FiniteSetTheorems, TLAPS

----------------------------------------------------------------------------
(* Sorted is what its name says: the position of a worker in the order is  *)
(* the number of workers that are not greater.                             *)
Ascending(s) == \A i, j \in DOMAIN s : i < j => s[i] < s[j]

LEMMA SortedAscends ==
  ASSUME NEW S \in SUBSET Worker
  PROVE  /\ Sorted(S) \in Seq(Worker)
         /\ Range(Sorted(S)) \subseteq Worker
         /\ Ascending(Sorted(S))
<1> DEFINE n == Cardinality(S)
           upTo(x) == {y \in S : y <= x}
           rank == [x \in S |-> Cardinality(upTo(x))]
<1>1. S \subseteq Nat /\ IsFiniteSet(S) /\ n \in Nat
  <2>1. IsFiniteSet(Worker)
    BY FS_Interval, ServiceAssumption DEF Worker
  <2>2. IsFiniteSet(S)
    BY <2>1, FS_Subset
  <2>. QED  BY <2>2, FS_CardinalityType DEF Worker
<1>2. ASSUME NEW x \in S
      PROVE  IsFiniteSet(upTo(x)) /\ rank[x] \in 1 .. n
  <2>1. IsFiniteSet(upTo(x)) /\ Cardinality(upTo(x)) <= n
    BY <1>1, FS_Subset
  <2>2. Cardinality(upTo(x)) \in Nat /\ Cardinality(upTo(x)) # 0
    BY <1>1, <2>1, FS_CardinalityType, FS_EmptySet
  <2>. QED  BY <1>1, <2>1, <2>2
<1>3. ASSUME NEW x \in S, NEW y \in S, x < y
      PROVE  rank[x] < rank[y]
  <2>1. upTo(x) \subseteq upTo(y) /\ upTo(x) # upTo(y)
    <3>1. x \in Nat /\ y \in Nat
      BY <1>1
    <3>2. y \in upTo(y) /\ y \notin upTo(x)
      BY <1>3, <3>1
    <3>3. ASSUME NEW z \in upTo(x) PROVE z \in upTo(y)
      BY <1>1, <1>3, <3>1, <3>3
    <3>. QED  BY <3>2, <3>3
  <2>2. Cardinality(upTo(x)) <= Cardinality(upTo(y))
        /\ Cardinality(upTo(x)) # Cardinality(upTo(y))
    BY <1>2, <2>1, FS_Subset
  <2>3. rank[x] \in Nat /\ rank[y] \in Nat
    BY <1>1, <1>2
  <2>. QED  BY <2>2, <2>3
<1>4. rank \in [S -> 1 .. n]
  BY <1>2
<1> HIDE DEF upTo, rank
<1>5. rank \in Injection(S, 1 .. n)
  BY <1>1, <1>3, <1>4 DEF Injection, IsInjective
<1>6. rank \in Surjection(S, 1 .. n)
  <2>1. IsFiniteSet(1 .. n) /\ Cardinality(1 .. n) = n
    BY <1>1, FS_Interval
  <2>. QED  BY <1>1, <1>5, <2>1, FS_Injection
<1> DEFINE s == [i \in 1 .. n |-> CHOOSE x \in S : rank[x] = i]
<1>7. \A i \in 1 .. n : s[i] \in S /\ rank[s[i]] = i
  BY <1>6 DEF Surjection
<1>8. s \in [1 .. n -> S] /\ Ascending(s)
  <2> HIDE DEF n
  <2>1. s \in [1 .. n -> S]
    BY <1>7
  <2>2. DOMAIN s = 1 .. n
    OBVIOUS
  <2> HIDE DEF s
  <2>3. ASSUME NEW i \in 1 .. n, NEW j \in 1 .. n, i < j, ~ (s[i] < s[j])
        PROVE  FALSE
    <3>1. s[i] \in Nat /\ s[j] \in Nat /\ s[i] \in S /\ s[j] \in S
      BY <1>1, <1>7
    <3>2. CASE s[i] = s[j]
      BY <1>7, <2>3, <3>2
    <3>3. CASE s[j] < s[i]
      BY <1>3, <1>7, <2>3, <3>1, <3>3
    <3>. QED  BY <2>3, <3>1, <3>2, <3>3
  <2>. QED  BY <2>1, <2>2, <2>3 DEF Ascending
<1>9. Sorted(S) \in [1 .. n -> S] /\ Ascending(Sorted(S))
  <2> HIDE DEF s
  <2>1. \E f \in [1 .. n -> S] : \A i, j \in DOMAIN f : i < j => f[i] < f[j]
    BY <1>8 DEF Ascending
  <2>. QED  BY <2>1 DEF Sorted, Ascending
<1>10. Sorted(S) \in Seq(Worker)
  <2>1. Sorted(S) \in [1 .. n -> Worker]
    BY <1>9
  <2>. QED  BY <1>1, <2>1
<1>. QED  BY <1>9, <1>10 DEF Range

----------------------------------------------------------------------------
(* The connections of jobs.  A job has no more than one connection that is *)
(* not accepted yet, at the worker it is at; workers that serve it come    *)
(* before that one in its list, except that the one it is at may serve it  *)
(* before it has received Ready.                                           *)
Stages == {"none", "resolving", "accepting", "connecting", "waiting",
           "finished", "failed", "refused", "dropped"}

Clients == {"none", "submitting", "polling", "fetching", "answered", "refused",
            "gone"}

Shape ==
  /\ addrs \in [Run -> Seq(Worker)]
  /\ at \in [Run -> Nat \ {0}]
  /\ backlog \in [Worker -> Seq(Run)]
  /\ serving \in [Worker -> Run \cup {NoRun}]
  /\ stage \in [Run -> Stages]
  /\ worker \in [Worker -> {"down", "listening", "serving", "gone"}]

(* The stages of a run that has not tried to connect yet. *)
Begun == {"none", "resolving", "accepting", "refused", "dropped"}

PlaceInv ==
  /\ \A r \in Run : stage[r] \in Begun => at[r] = 1
  /\ \A r \in Run : at[r] <= Len(addrs[r]) + 1
  /\ \A r \in Run : stage[r] = "waiting" => at[r] <= Len(addrs[r])
  /\ \A r \in Run : Ascending(addrs[r])

BacklogInv ==
  \A w \in Worker :
    /\ \A i \in DOMAIN backlog[w], r \in Run :
         backlog[w][i] = r =>
           stage[r] = "waiting" /\ Target(r) = w /\ serving[w] # r
    /\ \A i, j \in DOMAIN backlog[w] : i # j => backlog[w][i] # backlog[w][j]

ServingInv ==
  \A v \in Worker, r \in Run : serving[v] = r =>
    \E i \in DOMAIN addrs[r] :
      /\ addrs[r][i] = v
      /\ i < at[r] \/ (i = at[r] /\ stage[r] = "waiting")

QueueInv == Shape /\ PlaceInv /\ BacklogInv /\ ServingInv

----------------------------------------------------------------------------
(* The entries of jobs.  What a client has been told about a run that was  *)
(* alone under its id is what became of that run.                          *)
IdInv ==
  /\ DOMAIN jobs \subseteq Run
  /\ \A j \in DOMAIN jobs :
       jobs[j] \in [state : {"running", "finished", "failed"},
                    result : Run \cup {NoRun}, error : BOOLEAN]
  /\ id \in [Run -> Run \cup {NoRun}]
  /\ client \in [Run -> Clients]
  /\ vertices \in [Run -> Run \cup {NoRun}]
  /\ alone \in [Run -> BOOLEAN]
  /\ \A r \in Run :
       /\ stage[r] = "none" <=> id[r] = NoRun
       /\ stage[r] = "none" <=> client[r] = "none"
       /\ stage[r] \in {"resolving", "accepting"} <=> client[r] = "submitting"
       /\ stage[r] = "refused" => client[r] = "refused"
       /\ stage[r] = "dropped" => client[r] = "gone"
       /\ stage[r] # "none" => id[r] \in DOMAIN jobs

OrderInv ==
  \A r \in Run : stage[r] # "none" => \A q \in 1 .. (r - 1) : stage[q] # "none"

ResultInv ==
  \A j \in DOMAIN jobs :
    LET q == jobs[j].result
    IN  q # NoRun => stage[q] = "finished" /\ id[q] = j

(* A run that had ended when another was submitted cannot be the one whose *)
(* vertices that one's client finds.                                       *)
EndedInv ==
  /\ ended \in [Run -> SUBSET Run]
  /\ \A r \in Run : ended[r] \subseteq Ended
  /\ \A r \in Run : client[r] \in {"submitting", "polling", "fetching"} =>
       jobs[id[r]].result \notin ended[r]

(* Run q is still being worked on or waited for. *)
Busy(q) == ~ ( /\ client[q] \in {"answered", "refused", "gone"}
               /\ stage[q] \in {"finished", "failed", "refused", "dropped"} )

(* The entry of a run that is alone under its id. *)
EntryOf(r) ==
  CASE stage[r] = "finished" -> Entry("finished", r, FALSE)
    [] stage[r] = "failed"   -> Entry("failed", NoRun, TRUE)
    [] OTHER                 -> Entry("running", NoRun, FALSE)

OwnInv ==
  \A r \in Run :
    alone[r] /\ client[r] \in {"submitting", "polling", "fetching"} =>
      /\ \A q \in Run : id[q] = id[r] /\ Busy(q) => q = r
      /\ jobs[id[r]] = EntryOf(r)
      /\ client[r] = "fetching" => stage[r] = "finished"

(* A run that still can end, or whose client knows that it never began. *)
Accounted(s, c) ==
  \/ s \in {"resolving", "accepting", "connecting", "waiting"}
  \/ s = "refused" /\ c = "refused"
  \/ s = "dropped" /\ c = "gone"

RestInv ==
  /\ masterUp \in BOOLEAN /\ configured \in BOOLEAN
  /\ crashes \in 0 .. MaxCrashes /\ restarts \in 0 .. MaxRestarts

RecordInv ==
  /\ IdInv /\ OrderInv /\ ResultInv /\ EndedInv /\ OwnInv
  /\ AnswersOwn /\ RunningIsAccounted

IndInv == QueueInv /\ RecordInv /\ RestInv

----------------------------------------------------------------------------
LEMMA InitInv == Init => IndInv
<1> SUFFICES ASSUME Init PROVE IndInv
  OBVIOUS
<1> USE ServiceAssumption
<1>1. Shape /\ PlaceInv
  BY DEF Init, Shape, PlaceInv, Ascending, Stages
<1>5. BacklogInv /\ ServingInv
  BY DEF Init, BacklogInv, ServingInv, Run, NoRun
<1>2. IdInv /\ OrderInv /\ ResultInv /\ OwnInv /\ EndedInv
  BY DEF Init, IdInv, OrderInv, ResultInv, OwnInv, EndedInv, Clients, Run, NoRun
<1>3. AnswersOwn /\ RunningIsAccounted
  BY DEF Init, AnswersOwn, RunningIsAccounted
<1>4. RestInv
  BY DEF Init, RestInv
<1>. QED  BY <1>1, <1>2, <1>3, <1>4, <1>5 DEF IndInv, QueueInv, RecordInv

(* Nothing that leaves the connections alone disturbs them, if the runs    *)
(* whose stage it changes are not connecting or waiting.                   *)
LEMMA QueueUnchanged ==
  ASSUME QueueInv, UNCHANGED <<addrs, at, workerVars>>,
         stage' \in [Run -> Stages],
         \A r \in Run : /\ stage[r] = "waiting" => stage'[r] = "waiting"
                        /\ stage'[r] = "waiting" => stage[r] = "waiting"
                        /\ stage'[r] \in Begun => stage[r] \in Begun
  PROVE  QueueInv'
<1>1. Shape' /\ PlaceInv'
  BY DEF workerVars, QueueInv, Shape, PlaceInv
<1>2. BacklogInv'
  BY DEF workerVars, QueueInv, Shape, BacklogInv, Target
<1>3. ServingInv'
  BY DEF workerVars, QueueInv, Shape, ServingInv
<1>. QED  BY <1>1, <1>2, <1>3 DEF QueueInv

(* A process that ends takes its connections with it. *)
LEMMA ExitsInv ==
  ASSUME QueueInv, NEW w \in Worker, Exits(w), UNCHANGED runVars
  PROVE  QueueInv'
<1> USE DEF Exits, runVars, QueueInv
<1>1. Shape' /\ PlaceInv'
  BY DEF Shape, PlaceInv
<1>2. BacklogInv'
  <2>1. \A v \in Worker : backlog'[v] = IF v = w THEN << >> ELSE backlog[v]
    BY DEF Shape
  <2>2. \A v \in Worker : serving'[v] = serving[v] \/ serving'[v] = NoRun
    BY DEF Shape
  <2>. QED  BY <2>1, <2>2 DEF BacklogInv, Target, Run, NoRun
<1>3. ServingInv'
  BY DEF Shape, ServingInv, Run, NoRun
<1>. QED  BY <1>1, <1>2, <1>3

LEMMA ConnectInv ==
  ASSUME QueueInv, NEW r \in Run, Connect(r)
  PROVE  QueueInv'
<1> USE DEF QueueInv
<1>1. /\ stage[r] = "connecting" /\ stage' = [stage EXCEPT ![r] = "waiting"]
      /\ backlog' = [backlog EXCEPT ![Target(r)] = Append(@, r)]
      /\ UNCHANGED <<addrs, at, worker, serving>>
  BY DEF Connect
<1>2. at[r] \in DOMAIN addrs[r] /\ Target(r) \in Worker /\ at[r] <= Len(addrs[r])
  BY DEF Connect, AllConnected, Shape, Target
<1> DEFINE t == Target(r)
<1>3. /\ backlog[t] \in Seq(Run)
      /\ backlog'[t] = Append(backlog[t], r)
      /\ \A w \in Worker \ {t} : backlog'[w] = backlog[w]
  BY <1>1, <1>2 DEF Shape
<1>4. /\ DOMAIN backlog'[t] = DOMAIN backlog[t] \cup {Len(backlog[t]) + 1}
      /\ Len(backlog[t]) + 1 \notin DOMAIN backlog[t]
      /\ \A i \in DOMAIN backlog[t] : backlog'[t][i] = backlog[t][i]
      /\ backlog'[t][Len(backlog[t]) + 1] = r
  BY <1>3
<1>5. \A w \in Worker : \A i \in DOMAIN backlog[w] : backlog[w][i] # r
  BY <1>1 DEF BacklogInv
<1>6. serving[t] # r
  <2> SUFFICES ASSUME serving[t] = r PROVE FALSE
    OBVIOUS
  <2>1. PICK i \in DOMAIN addrs[r] : addrs[r][i] = t /\ i < at[r]
    BY <1>1, <1>2 DEF ServingInv, Run, NoRun
  <2>2. addrs[r][i] < addrs[r][at[r]]
    BY <1>2, <2>1 DEF PlaceInv, Ascending
  <2>3. t = addrs[r][at[r]] /\ t \in Nat
    BY <1>2 DEF Target, Worker
  <2>. QED  BY <2>1, <2>2, <2>3
<1> HIDE DEF t
<1>7. Shape'
  BY <1>1, <1>2, <1>3 DEF Shape, Stages, Begun
<1>8. PlaceInv'
  BY <1>1, <1>2 DEF Shape, PlaceInv, Stages, Begun
<1>9. \A q \in Run : Target(q)' = Target(q)
  BY <1>1 DEF Target
<1>10. BacklogInv'
  <2>1. ASSUME NEW w \in Worker, w # t
        PROVE  backlog'[w] = backlog[w]
    BY <1>3, <2>1
  <2>2. \A q \in Run : stage[q] = "waiting" => stage'[q] = "waiting"
    BY <1>1 DEF Shape
  <2>3. stage'[r] = "waiting" /\ Target(r)' = t /\ serving'[t] # r
    BY <1>1, <1>6, <1>9 DEF Shape, t
  <2>4. ASSUME NEW w \in Worker, NEW i \in DOMAIN backlog'[w], NEW q \in Run,
               backlog'[w][i] = q
        PROVE  stage'[q] = "waiting" /\ Target(q)' = w /\ serving'[w] # q
    <3>1. CASE w # t \/ i \in DOMAIN backlog[t]
      <4>1. i \in DOMAIN backlog[w] /\ backlog[w][i] = q
        BY <1>4, <2>1, <2>4, <3>1
      <4>. QED  BY <1>1, <1>9, <2>2, <4>1 DEF BacklogInv
    <3>2. CASE w = t /\ i = Len(backlog[t]) + 1
      BY <1>4, <2>3, <2>4, <3>2
    <3>. QED  BY <1>4, <2>4, <3>1, <3>2
  <2>5. ASSUME NEW w \in Worker, NEW i \in DOMAIN backlog'[w],
               NEW j \in DOMAIN backlog'[w], i # j
        PROVE  backlog'[w][i] # backlog'[w][j]
    <3>1. CASE w # t
      BY <2>1, <2>5, <3>1 DEF BacklogInv
    <3>2. CASE w = t
      BY <1>2, <1>4, <1>5, <2>5, <3>2 DEF BacklogInv, t
    <3>. QED  BY <3>1, <3>2
  <2>. QED  BY <2>4, <2>5 DEF BacklogInv
<1>11. ServingInv'
  BY <1>1 DEF Shape, ServingInv
<1>. QED  BY <1>7, <1>8, <1>10, <1>11

LEMMA AcceptInv ==
  ASSUME QueueInv, NEW w \in Worker, Accept(w)
  PROVE  QueueInv'
<1> USE DEF QueueInv
<1> DEFINE r == Head(backlog[w])
<1>1. /\ backlog[w] # << >>
      /\ worker' = [worker EXCEPT ![w] = "serving"]
      /\ serving' = [serving EXCEPT ![w] = r]
      /\ backlog' = [backlog EXCEPT ![w] = Tail(@)]
      /\ UNCHANGED <<addrs, at, stage>>
  BY DEF Accept, runVars
<1>2. /\ backlog[w] \in Seq(Run) /\ 1 \in DOMAIN backlog[w] /\ r = backlog[w][1]
      /\ r \in Run
  BY <1>1 DEF Shape
<1>3. /\ backlog'[w] = Tail(backlog[w])
      /\ \A v \in Worker \ {w} : backlog'[v] = backlog[v] /\ serving'[v] = serving[v]
      /\ serving'[w] = r
  BY <1>1 DEF Shape
<1>4. /\ Len(backlog'[w]) = Len(backlog[w]) - 1
      /\ \A i \in DOMAIN backlog'[w] :
           /\ i + 1 \in DOMAIN backlog[w] /\ i + 1 # 1 /\ i \in Nat
           /\ backlog'[w][i] = backlog[w][i + 1]
  BY <1>2, <1>3
<1>5. stage[r] = "waiting" /\ Target(r) = w
  BY <1>2 DEF BacklogInv
<1> HIDE DEF r
<1>6. Shape'
  BY <1>1, <1>2, <1>3 DEF Shape
<1>7. PlaceInv'
  BY <1>1 DEF PlaceInv
<1>8. \A q \in Run : Target(q)' = Target(q)
  BY <1>1 DEF Target
<1>9. BacklogInv'
  <2>1. ASSUME NEW v \in Worker, NEW i \in DOMAIN backlog'[v]
        PROVE  \E k \in DOMAIN backlog[v] :
                 /\ backlog'[v][i] = backlog[v][k]
                 /\ k = IF v = w THEN i + 1 ELSE i
    BY <1>3, <1>4, <2>1
  <2>2. ASSUME NEW v \in Worker, NEW i \in DOMAIN backlog'[v], NEW q \in Run,
               backlog'[v][i] = q
        PROVE  stage'[q] = "waiting" /\ Target(q)' = v /\ serving'[v] # q
    <3>1. PICK k \in DOMAIN backlog[v] :
            backlog[v][k] = q /\ k = IF v = w THEN i + 1 ELSE i
      BY <2>1, <2>2
    <3>2. stage[q] = "waiting" /\ Target(q) = v /\ serving[v] # q
      BY <3>1 DEF BacklogInv
    <3>3. CASE v = w
      <4>1. k # 1
        BY <1>4, <2>2, <3>1, <3>3
      <4>2. backlog[w][k] # backlog[w][1]
        BY <1>2, <3>1, <3>3, <4>1 DEF BacklogInv
      <4>. QED  BY <1>1, <1>2, <1>3, <1>8, <3>1, <3>2, <3>3, <4>2
    <3>4. CASE v # w
      BY <1>1, <1>3, <1>8, <3>2, <3>4
    <3>. QED  BY <3>3, <3>4
  <2>3. ASSUME NEW v \in Worker, NEW i \in DOMAIN backlog'[v],
               NEW j \in DOMAIN backlog'[v], i # j
        PROVE  backlog'[v][i] # backlog'[v][j]
    <3>1. CASE v = w
      BY <1>2, <1>4, <2>3, <3>1 DEF BacklogInv
    <3>2. CASE v # w
      BY <1>3, <2>3, <3>2 DEF BacklogInv
    <3>. QED  BY <3>1, <3>2
  <2>. QED  BY <2>2, <2>3 DEF BacklogInv
<1>10. ServingInv'
  <2>1. at[r] \in DOMAIN addrs[r] /\ addrs[r][at[r]] = w
    BY <1>2, <1>5 DEF Shape, PlaceInv, Target
  <2>2. ASSUME NEW v \in Worker, NEW q \in Run, serving'[v] = q
        PROVE  \E i \in DOMAIN addrs[q] :
                 /\ addrs[q][i] = v
                 /\ i < at[q] \/ (i = at[q] /\ stage[q] = "waiting")
    <3>1. CASE v = w
      BY <1>3, <1>5, <2>1, <2>2, <3>1
    <3>2. CASE v # w
      BY <1>3, <2>2, <3>2 DEF ServingInv
    <3>. QED  BY <3>1, <3>2
  <2>. QED  BY <1>1, <2>2 DEF ServingInv
<1>. QED  BY <1>6, <1>7, <1>9, <1>10

LEMMA ResolveQueue ==
  ASSUME QueueInv, NEW r \in Run, ResolveWorkers(r)
  PROVE  QueueInv'
<1> USE DEF QueueInv
<1>1. PICK found \in SUBSET Worker : addrs' = [addrs EXCEPT ![r] = Sorted(found)]
  BY DEF ResolveWorkers, WorkerLists
<1>2. /\ stage[r] = "resolving" /\ stage' = [stage EXCEPT ![r] = "accepting"]
      /\ UNCHANGED <<at, worker, serving, backlog>>
  BY DEF ResolveWorkers, workerVars
<1>3. Sorted(found) \in Seq(Worker) /\ Ascending(Sorted(found))
  BY SortedAscends
<1>4. Shape'
  BY <1>1, <1>2, <1>3 DEF Shape, Stages, Begun
<1>5. at[r] = 1 /\ Len(Sorted(found)) \in Nat
  BY <1>2, <1>3 DEF PlaceInv, Stages, Begun
<1>6. \A q \in Run : /\ addrs'[q] = IF q = r THEN Sorted(found) ELSE addrs[q]
                     /\ stage'[q] = IF q = r THEN "accepting" ELSE stage[q]
  BY <1>1, <1>2 DEF Shape
<1>7. PlaceInv'
  BY <1>2, <1>3, <1>5, <1>6 DEF PlaceInv
<1>8. \A w \in Worker : \A i \in DOMAIN backlog[w] : backlog[w][i] # r
  BY <1>2 DEF BacklogInv
<1>9. \A w \in Worker : serving[w] # r
  <2>1. \A i \in DOMAIN addrs[r] : ~ (i < at[r]) /\ i \in Nat
    BY <1>5 DEF Shape
  <2>. QED  BY <1>2, <2>1 DEF ServingInv
<1>10. BacklogInv'
  BY <1>2, <1>6, <1>8 DEF BacklogInv, Target
<1>11. ServingInv'
  BY <1>2, <1>6, <1>9 DEF ServingInv
<1>. QED  BY <1>4, <1>7, <1>10, <1>11

LEMMA ReadyQueue ==
  ASSUME QueueInv, NEW r \in Run, ReceiveReady(r)
  PROVE  QueueInv'
<1> USE DEF QueueInv
<1>1. /\ stage[r] = "waiting" /\ stage' = [stage EXCEPT ![r] = "connecting"]
      /\ at' = [at EXCEPT ![r] = @ + 1]
      /\ UNCHANGED <<addrs, worker, serving, backlog>>
      /\ serving[Target(r)] = r
  BY DEF ReceiveReady, workerVars
<1>2. \A q \in Run : /\ at'[q] = IF q = r THEN at[q] + 1 ELSE at[q]
                     /\ stage'[q] = IF q = r THEN "connecting" ELSE stage[q]
                     /\ at[q] \in Nat
  BY <1>1 DEF Shape
<1>3. Shape' /\ PlaceInv'
  BY <1>1, <1>2 DEF Shape, PlaceInv, Stages, Begun
<1>4. \A w \in Worker : \A i \in DOMAIN backlog[w] : backlog[w][i] # r
  BY <1>1 DEF BacklogInv
<1>5. BacklogInv'
  BY <1>1, <1>2, <1>4 DEF BacklogInv, Target
<1>6. ASSUME NEW v \in Worker, NEW q \in Run, serving[v] = q
      PROVE  \E i \in DOMAIN addrs[q] :
               /\ addrs[q][i] = v
               /\ i < at'[q] \/ (i = at'[q] /\ stage'[q] = "waiting")
  <2>1. PICK i \in DOMAIN addrs[q] :
          /\ addrs[q][i] = v
          /\ i < at[q] \/ (i = at[q] /\ stage[q] = "waiting")
    BY <1>6 DEF ServingInv
  <2>2. i \in Nat
    BY <2>1 DEF Shape
  <2>. QED  BY <1>2, <2>1, <2>2
<1>7. ServingInv'
  BY <1>1, <1>6 DEF ServingInv
<1>. QED  BY <1>3, <1>5, <1>7

LEMMA FailsQueue ==
  ASSUME QueueInv, NEW r \in Run, RunFails(r)
  PROVE  QueueInv'
<1>1. CASE stage[r] = "connecting"
  <2>1. /\ UNCHANGED <<addrs, at, workerVars>>
        /\ stage' = [stage EXCEPT ![r] = "failed"]
    BY DEF RunFails
  <2>. QED  BY <1>1, <2>1, QueueUnchanged DEF QueueInv, Shape, Stages, Begun
<1>2. CASE stage[r] = "waiting"
  <2> USE DEF QueueInv
  <2>1. /\ stage' = [stage EXCEPT ![r] = "failed"]
        /\ UNCHANGED <<addrs, at, worker, serving, backlog>>
        /\ serving[Target(r)] # r /\ r \notin Range(backlog[Target(r)])
    BY <1>2 DEF RunFails, workerVars
  <2>2. \A q \in Run : stage'[q] = IF q = r THEN "failed" ELSE stage[q]
    BY <2>1 DEF Shape
  <2>3. Shape' /\ PlaceInv'
    BY <2>1, <2>2 DEF Shape, PlaceInv, Stages, Begun
  <2>4. \A w \in Worker : \A i \in DOMAIN backlog[w] : backlog[w][i] # r
    BY <2>1 DEF BacklogInv, Range
  <2>5. BacklogInv'
    BY <2>1, <2>2, <2>4 DEF BacklogInv, Target
  <2>6. \A v \in Worker : serving[v] = r =>
          \E i \in DOMAIN addrs[r] : addrs[r][i] = v /\ i < at[r]
    BY <2>1 DEF ServingInv, Target
  <2>7. ServingInv'
    BY <2>1, <2>2, <2>6 DEF ServingInv
  <2>. QED  BY <2>3, <2>5, <2>7
<1>. QED  BY <1>1, <1>2 DEF RunFails

LEMMA QueueNext == QueueInv /\ [Next]_vars => QueueInv'
<1> SUFFICES ASSUME QueueInv, [Next]_vars PROVE QueueInv'
  OBVIOUS
<1>0. stage \in [Run -> Stages]
  BY DEF QueueInv, Shape
<1>1. ASSUME NEW r \in Run, NEW j \in 1 .. r, SubmitJob(r, j) PROVE QueueInv'
  BY <1>0, <1>1, QueueUnchanged DEF SubmitJob, Stages, Begun
<1>2. ASSUME NEW r \in Run, ResolveWorkers(r) PROVE QueueInv'
  BY <1>2, ResolveQueue
<1>3. ASSUME NEW r \in Run, ResolveFails(r) PROVE QueueInv'
  BY <1>0, <1>3, QueueUnchanged DEF ResolveFails, Stages, Begun
<1>4. ASSUME NEW r \in Run, Connect(r) PROVE QueueInv'
  BY <1>4, ConnectInv
<1>5. ASSUME NEW r \in Run, ReceiveReady(r) PROVE QueueInv'
  BY <1>5, ReadyQueue
<1>6. ASSUME NEW r \in Run, RunFinishes(r) PROVE QueueInv'
  BY <1>0, <1>6, QueueUnchanged DEF RunFinishes, Stages, Begun
<1>7. ASSUME NEW r \in Run, RunFails(r) PROVE QueueInv'
  BY <1>7, FailsQueue
<1>8. ASSUME NEW r \in Run, ClientStep(r) PROVE QueueInv'
  BY <1>0, <1>8, QueueUnchanged DEF ClientStep, GetJobStatus, FetchVertices, runVars
<1>9. ASSUME NEW w \in Worker, Bind(w) \/ Restart(w) PROVE QueueInv'
  <2>1. /\ UNCHANGED <<addrs, at, stage, serving, backlog>>
        /\ \/ worker' = [worker EXCEPT ![w] = "listening"]
           \/ worker' = [worker EXCEPT ![w] = "down"]
    BY <1>9 DEF Bind, Restart, runVars
  <2>2. Shape' /\ PlaceInv'
    BY <2>1 DEF QueueInv, Shape, PlaceInv
  <2>3. BacklogInv' /\ ServingInv'
    BY <2>1 DEF QueueInv, BacklogInv, ServingInv, Target
  <2>. QED  BY <2>2, <2>3 DEF QueueInv
<1>10. ASSUME NEW w \in Worker, Accept(w) PROVE QueueInv'
  BY <1>10, AcceptInv
<1>11. ASSUME NEW w \in Worker, WorkerExits(w) \/ WorkerDies(w) PROVE QueueInv'
  BY <1>11, ExitsInv DEF WorkerExits, WorkerDies
<1>12. CASE MasterStops \/ UNCHANGED vars
  BY <1>0, <1>12, QueueUnchanged DEF MasterStops, vars, runVars
<1>13. ASSUME NEW r \in Run, AcceptJob(r) \/ AcceptFails(r) PROVE QueueInv'
  BY <1>0, <1>13, QueueUnchanged DEF AcceptJob, AcceptFails, Stages, Begun
<1>. QED  BY <1>1, <1>2, <1>3, <1>4, <1>5, <1>6, <1>7, <1>8, <1>9, <1>10, <1>11,
             <1>12, <1>13 DEF Next, RunStep, WorkerStep

----------------------------------------------------------------------------
(* A job that gets on with connecting changes nothing that was recorded. *)
LEMMA StageRecord ==
  ASSUME Shape, RecordInv, UNCHANGED <<jobs, id, vertices, alone, ended>>,
         NEW r \in Run, NEW s \in {"accepting", "connecting", "waiting"},
         IF s = "accepting" THEN stage[r] = "resolving"
                            ELSE stage[r] \in {"accepting", "connecting", "waiting"},
         stage' = [stage EXCEPT ![r] = s],
         client' = IF stage[r] = "accepting"
                     THEN [client EXCEPT ![r] = "polling"] ELSE client
  PROVE  RecordInv'
<1> USE DEF RecordInv
<1>1. \A q \in Run : /\ stage'[q] = IF q = r THEN s ELSE stage[q]
                     /\ client'[q] = IF q = r /\ stage[r] = "accepting"
                                       THEN "polling" ELSE client[q]
  BY DEF Shape, IdInv
<1>2. IdInv'
  BY <1>1 DEF IdInv, Clients
<1>3. OrderInv' /\ ResultInv' /\ EndedInv'
  BY <1>1 DEF OrderInv, ResultInv, EndedInv, Ended, IdInv, Run
<1>4. \A q \in Run : Busy(q)' <=> Busy(q)
  BY <1>1 DEF Busy
<1>5. \A q \in Run : EntryOf(q)' = EntryOf(q)
  BY <1>1 DEF EntryOf
<1>6. OwnInv'
  BY <1>1, <1>4, <1>5 DEF OwnInv, IdInv
<1>7. AnswersOwn'
  BY <1>1 DEF AnswersOwn, IdInv
<1>8. RunningIsAccounted'
  BY <1>1 DEF RunningIsAccounted
<1>. QED  BY <1>2, <1>3, <1>6, <1>7, <1>8

(* A submission that is refused or dropped leaves the entry, which says    *)
(* running, behind.                                                        *)
LEMMA RefusedRecord ==
  ASSUME Shape, RecordInv, NEW r \in Run, ResolveFails(r) \/ AcceptFails(r)
  PROVE  RecordInv'
<1> USE DEF RecordInv
<1>1. PICK s \in {"refused", "dropped"}, c \in {"refused", "gone"} :
      /\ stage[r] \in {"resolving", "accepting"}
      /\ s = "refused" <=> c = "refused"
      /\ UNCHANGED <<jobs, id, vertices, alone, ended>>
      /\ \A q \in Run : /\ stage'[q] = IF q = r THEN s ELSE stage[q]
                        /\ client'[q] = IF q = r THEN c ELSE client[q]
      /\ client' \in [Run -> Clients]
  <2>1. CASE ResolveFails(r)
    <3>. WITNESS "refused" \in {"refused", "dropped"}, "refused" \in {"refused", "gone"}
    <3>. QED  BY <2>1 DEF ResolveFails, Shape, IdInv, Clients
  <2>2. CASE AcceptFails(r)
    <3>. WITNESS "dropped" \in {"refused", "dropped"}, "gone" \in {"refused", "gone"}
    <3>. QED  BY <2>2 DEF AcceptFails, Shape, IdInv, Clients
  <2>. QED  BY <2>1, <2>2
<1>2. IdInv'
  BY <1>1 DEF IdInv
<1>3. OrderInv'
  <2>1. \A q \in Run : \A p \in 1 .. (q - 1) : p \in Run
    BY ServiceAssumption DEF Run
  <2>2. \A q \in Run : stage'[q] = "none" <=> stage[q] = "none"
    BY <1>1
  <2>. QED  BY <2>1, <2>2 DEF OrderInv
<1>9. ResultInv' /\ EndedInv'
  BY <1>1 DEF ResultInv, EndedInv, Ended, IdInv
<1>4. \A q \in Run : Busy(q)' => Busy(q)
  BY <1>1 DEF Busy
<1>5. \A q \in Run \ {r} : EntryOf(q)' = EntryOf(q)
  BY <1>1 DEF EntryOf
<1>6. OwnInv'
  BY <1>1, <1>4, <1>5 DEF OwnInv, IdInv
<1>7. AnswersOwn'
  BY <1>1 DEF AnswersOwn, IdInv
<1>8. RunningIsAccounted'
  BY <1>1 DEF RunningIsAccounted
<1>. QED  BY <1>2, <1>3, <1>6, <1>7, <1>8, <1>9

(* The result of run_job is recorded. *)
LEMMA RecordRecord ==
  ASSUME Shape, RecordInv, UNCHANGED <<id, clientVars>>,
         NEW r \in Run, NEW ok \in BOOLEAN, Record(r, ok),
         stage[r] \in {"connecting", "waiting"},
         stage' = [stage EXCEPT ![r] = IF ok THEN "finished" ELSE "failed"]
  PROVE  RecordInv'
<1> USE DEF RecordInv, clientVars
<1>1. \A q \in Run : stage'[q] = IF q = r THEN IF ok THEN "finished" ELSE "failed"
                                          ELSE stage[q]
  BY DEF Shape
<1>2. /\ id[r] \in DOMAIN jobs /\ DOMAIN jobs' = DOMAIN jobs
      /\ \A j \in DOMAIN jobs \ {id[r]} : jobs'[j] = jobs[j]
      /\ ok => jobs'[id[r]] = [jobs[id[r]] EXCEPT !.state = "finished", !.result = r]
      /\ ~ok => jobs'[id[r]] = [jobs[id[r]] EXCEPT !.state = "failed", !.error = TRUE]
      /\ client[r] # "none" /\ client[r] # "submitting"
  BY DEF Record, IdInv
<1>3. jobs[id[r]] \in [state : {"running", "finished", "failed"},
                       result : Run \cup {NoRun}, error : BOOLEAN]
  BY <1>2 DEF IdInv
<1>4. /\ ok => jobs'[id[r]] = Entry("finished", r, jobs[id[r]].error)
      /\ ~ok => jobs'[id[r]] = Entry("failed", jobs[id[r]].result, TRUE)
  <2>1. PICK e : e = jobs[id[r]]
    OBVIOUS
  <2>2. DOMAIN e = {"state", "result", "error"}
    BY <1>3, <2>1
  <2>3. ok => jobs'[id[r]]
                = [k \in {"state", "result", "error"} |->
                     IF k = "state" THEN "finished"
                     ELSE IF k = "result" THEN r ELSE e.error]
    BY <1>2, <2>1, <2>2
  <2>4. ~ok => jobs'[id[r]]
                 = [k \in {"state", "result", "error"} |->
                      IF k = "state" THEN "failed"
                      ELSE IF k = "error" THEN TRUE ELSE e.result]
    BY <1>2, <2>1, <2>2
  <2>. QED  BY <2>1, <2>3, <2>4 DEF Entry
<1>5. jobs'[id[r]] \in [state : {"running", "finished", "failed"},
                        result : Run \cup {NoRun}, error : BOOLEAN]
  <2>1. /\ jobs[id[r]].error \in BOOLEAN /\ jobs[id[r]].result \in Run \cup {NoRun}
        /\ r \in Run \cup {NoRun}
    BY <1>3
  <2>2. CASE ok
    BY <1>4, <2>1, <2>2 DEF Entry
  <2>3. CASE ~ok
    <3>1. Entry("failed", jobs[id[r]].result, TRUE) \in
            [state : {"running", "finished", "failed"},
             result : Run \cup {NoRun}, error : BOOLEAN]
      BY <2>1 DEF Entry
    <3>. QED  BY <1>4, <2>3, <3>1
  <2>. QED  BY <2>2, <2>3
<1>6. IdInv'
  BY <1>1, <1>2, <1>5 DEF IdInv
<1>7. OrderInv'
  BY <1>1 DEF OrderInv, Run
<1>8. ResultInv'
  <2>1. ASSUME NEW j \in DOMAIN jobs, j # id[r], jobs[j].result # NoRun
        PROVE  stage'[jobs[j].result] = "finished" /\ id[jobs[j].result] = j
    BY <1>1, <2>1 DEF ResultInv, IdInv
  <2>2. ASSUME jobs'[id[r]].result # NoRun
        PROVE  stage'[jobs'[id[r]].result] = "finished" /\ id[jobs'[id[r]].result] = id[r]
    <3>1. CASE ok
      BY <1>1, <1>4, <3>1 DEF Entry
    <3>2. CASE ~ok
      <4>1. jobs'[id[r]].result = jobs[id[r]].result
        BY <1>4, <3>2 DEF Entry
      <4>. QED  BY <1>1, <1>2, <1>3, <2>2, <4>1 DEF ResultInv
    <3>. QED  BY <3>1, <3>2
  <2>. QED  BY <1>2, <2>1, <2>2 DEF ResultInv
<1>9. \A q \in Run : Busy(q)' => Busy(q)
  BY <1>1 DEF Busy
<1>10. Busy(r)
  BY DEF Busy
<1>11. OwnInv'
  <2> SUFFICES ASSUME NEW q \in Run, alone[q],
                      client[q] \in {"submitting", "polling", "fetching"}
               PROVE  /\ \A p \in Run : id[p] = id[q] /\ Busy(p)' => p = q
                      /\ jobs'[id[q]] = EntryOf(q)'
                      /\ client[q] = "fetching" => stage'[q] = "finished"
    BY DEF OwnInv
  <2>1. /\ \A p \in Run : id[p] = id[q] /\ Busy(p) => p = q
        /\ jobs[id[q]] = EntryOf(q)
        /\ client[q] = "fetching" => stage[q] = "finished"
    BY DEF OwnInv
  <2>2. CASE q = r
    <3>1. jobs[id[r]] = Entry("running", NoRun, FALSE)
      BY <2>1, <2>2 DEF EntryOf
    <3>2. jobs'[id[r]] = EntryOf(r)'
      BY <1>1, <1>4, <3>1 DEF EntryOf, Entry
    <3>. QED  BY <1>9, <2>1, <2>2, <3>2
  <2>3. CASE q # r
    <3>1. id[q] # id[r]
      BY <1>10, <2>1, <2>3
    <3>2. EntryOf(q)' = EntryOf(q) /\ stage'[q] = stage[q]
      BY <1>1, <2>3 DEF EntryOf
    <3>3. id[q] \in DOMAIN jobs
      BY DEF IdInv
    <3>. QED  BY <1>2, <1>9, <2>1, <3>1, <3>2, <3>3
  <2>. QED  BY <2>2, <2>3
<1>12. AnswersOwn'
  BY <1>1 DEF AnswersOwn, IdInv
<1>14. EndedInv'
  <2>1. \A q \in Run : r \notin ended[q]
    BY DEF EndedInv, Ended
  <2>2. \A q \in Run : ended[q] \subseteq Ended'
    BY <1>1 DEF EndedInv, Ended
  <2>3. jobs'[id[r]].result \in {r, jobs[id[r]].result}
    BY <1>4 DEF Entry
  <2>4. ASSUME NEW q \in Run, client[q] \in {"submitting", "polling", "fetching"}
        PROVE  jobs'[id[q]].result \notin ended[q]
    <3>1. jobs[id[q]].result \notin ended[q] /\ id[q] \in DOMAIN jobs
      BY <2>4 DEF EndedInv, IdInv
    <3>. QED  BY <1>2, <2>1, <2>3, <3>1
  <2>. QED  BY <2>2, <2>4 DEF EndedInv
<1>13. RunningIsAccounted'
  <2>1. jobs'[id[r]].state # "running"
    BY <1>4 DEF Entry
  <2>. QED  BY <1>1, <1>2, <2>1 DEF RunningIsAccounted
<1>. QED  BY <1>6, <1>7, <1>8, <1>11, <1>12, <1>13, <1>14

(* A new submission replaces the entry of its id; runs that were alone     *)
(* under it and are still under way are not alone any more.                *)
LEMMA SubmitRecord ==
  ASSUME Shape, RecordInv, NEW r \in Run, NEW j \in 1 .. r, SubmitJob(r, j)
  PROVE  RecordInv'
<1> USE DEF RecordInv
<1>1. /\ stage[r] = "none" /\ \A q \in 1 .. (r - 1) : stage[q] # "none"
      /\ r \in Nat /\ r # 0 /\ j \in Run
      /\ UNCHANGED vertices
  BY ServiceAssumption DEF SubmitJob, Run
<1>2. /\ DOMAIN jobs' = DOMAIN jobs \cup {j}
      /\ jobs'[j] = Entry("running", NoRun, FALSE)
      /\ \A i \in DOMAIN jobs \ {j} : jobs'[i] = jobs[i]
  BY DEF SubmitJob
<1>3. \A q \in Run : /\ id'[q] = IF q = r THEN j ELSE id[q]
                     /\ stage'[q] = IF q = r THEN "resolving" ELSE stage[q]
                     /\ client'[q] = IF q = r THEN "submitting" ELSE client[q]
  BY DEF SubmitJob, Shape, IdInv
<1>4. \A q \in Run : q > r => stage[q] = "none"
  BY <1>1 DEF OrderInv, Run
<1>5. /\ alone' \in [Run -> BOOLEAN]
      /\ \A q \in Run : alone'[q] => /\ alone[q]
                                     /\ UnderWay(j) = {} \/ q \notin UnderWay(j) \cup {r}
  BY DEF SubmitJob, IdInv
<1>14. /\ \A q \in Run \ {r} : ended'[q] = ended[q]
       /\ ended'[r] \subseteq Ended
       /\ ended' \in [Run -> SUBSET Run]
  BY DEF SubmitJob, EndedInv, Ended
<1>6. IdInv'
  <2>1. /\ id' \in [Run -> Run \cup {NoRun}]
        /\ client' \in [Run -> Clients]
    BY <1>1 DEF SubmitJob, IdInv, Clients
  <2>2. Entry("running", NoRun, FALSE) \in
          [state : {"running", "finished", "failed"},
           result : Run \cup {NoRun}, error : BOOLEAN]
    BY DEF Entry
  <2>3. /\ DOMAIN jobs' \subseteq Run
        /\ \A i \in DOMAIN jobs' :
             jobs'[i] \in [state : {"running", "finished", "failed"},
                           result : Run \cup {NoRun}, error : BOOLEAN]
    BY <1>1, <1>2, <2>2 DEF IdInv
  <2>4. j # NoRun
    BY <1>1 DEF Run, NoRun
  <2>. QED  BY <1>1, <1>2, <1>3, <1>5, <2>1, <2>3, <2>4 DEF IdInv
<1>7. OrderInv'
  <2>1. \A q \in Run : \A p \in 1 .. (q - 1) : p \in Run
    BY ServiceAssumption DEF Run
  <2>. QED  BY <1>1, <1>3, <2>1 DEF OrderInv
<1>8. ResultInv'
  <2>1. ASSUME NEW i \in DOMAIN jobs, i # j, jobs[i].result # NoRun
        PROVE  /\ jobs[i].result \in Run /\ jobs[i].result # r
               /\ stage[jobs[i].result] = "finished" /\ id[jobs[i].result] = i
    BY <1>1, <2>1 DEF ResultInv, IdInv
  <2>2. jobs'[j].result = NoRun
    BY <1>2 DEF Entry
  <2>3. ASSUME NEW i \in DOMAIN jobs', jobs'[i].result # NoRun
        PROVE  stage'[jobs'[i].result] = "finished" /\ id'[jobs'[i].result] = i
    <3>1. i \in DOMAIN jobs /\ i # j /\ jobs'[i] = jobs[i]
      BY <1>2, <2>2, <2>3
    <3>. QED  BY <1>3, <2>1, <2>3, <3>1
  <2>. QED  BY <2>3 DEF ResultInv
<1>15. EndedInv'
  <2>1. Ended \subseteq Ended'
    BY <1>1, <1>3 DEF Ended
  <2>2. \A q \in Run : ended'[q] \subseteq Ended'
    BY <1>14, <2>1 DEF EndedInv
  <2>3. ASSUME NEW q \in Run, client'[q] \in {"submitting", "polling", "fetching"}
        PROVE  jobs'[id'[q]].result \notin ended'[q]
    <3>1. CASE id'[q] = j
      BY <1>2, <1>14, <3>1 DEF Entry, Run, NoRun
    <3>2. CASE id'[q] # j
      <4>1. q # r /\ id'[q] = id[q] /\ client[q] = client'[q]
        BY <1>3, <3>2
      <4>2. jobs[id[q]].result \notin ended[q] /\ id[q] \in DOMAIN jobs
        BY <2>3, <4>1 DEF EndedInv, IdInv
      <4>. QED  BY <1>2, <1>14, <3>2, <4>1, <4>2
    <3>. QED  BY <3>1, <3>2
  <2>. QED  BY <1>14, <2>2, <2>3 DEF EndedInv
<1>9. \A q \in Run : q \in UnderWay(j) <=> id[q] = j /\ Busy(q)
  BY DEF UnderWay, Busy, Ended
<1>10. \A q \in Run \ {r} : Busy(q)' <=> Busy(q)
  BY <1>3 DEF Busy
<1>11. OwnInv'
  <2> SUFFICES ASSUME NEW q \in Run, alone'[q],
                      client'[q] \in {"submitting", "polling", "fetching"}
               PROVE  /\ \A p \in Run : id'[p] = id'[q] /\ Busy(p)' => p = q
                      /\ jobs'[id'[q]] = EntryOf(q)'
                      /\ client'[q] = "fetching" => stage'[q] = "finished"
    BY DEF OwnInv
  <2>1. CASE q = r
    <3>1. UnderWay(j) = {}
      BY <1>5, <2>1
    <3>2. \A p \in Run : id'[p] = j /\ Busy(p)' => p = r
      BY <1>3, <1>9, <1>10, <3>1
    <3>3. EntryOf(r)' = Entry("running", NoRun, FALSE)
      BY <1>3 DEF EntryOf
    <3>. QED  BY <1>2, <1>3, <2>1, <3>2, <3>3
  <2>2. CASE q # r
    <3>1. /\ alone[q] /\ client[q] \in {"submitting", "polling", "fetching"}
          /\ Busy(q)
      BY <1>3, <1>5, <2>2 DEF Busy
    <3>2. /\ \A p \in Run : id[p] = id[q] /\ Busy(p) => p = q
          /\ jobs[id[q]] = EntryOf(q)
          /\ client[q] = "fetching" => stage[q] = "finished"
      BY <3>1 DEF OwnInv
    <3>3. id[q] # j
      BY <1>5, <1>9, <3>1
    <3>4. id[q] \in DOMAIN jobs
      BY <3>1 DEF IdInv
    <3>5. EntryOf(q)' = EntryOf(q)
      BY <1>3, <2>2 DEF EntryOf
    <3>. QED  BY <1>2, <1>3, <1>10, <2>2, <3>2, <3>3, <3>4, <3>5
  <2>. QED  BY <2>1, <2>2
<1>12. AnswersOwn'
  <2> SUFFICES ASSUME NEW q \in Run
               PROVE  /\ client'[q] = "answered" =>
                           /\ vertices[q] # NoRun
                           /\ stage'[vertices[q]] = "finished"
                           /\ id'[vertices[q]] = id'[q]
                           /\ vertices[q] \notin ended'[q]
                      /\ alone'[q] /\ client'[q] = "answered" => vertices[q] = q
                      /\ alone'[q] /\ client'[q] = "refused" =>
                           stage'[q] \in {"failed", "refused"}
    BY <1>1 DEF AnswersOwn
  <2>1. CASE q = r
    BY <1>3, <2>1
  <2>2. CASE q # r
    <3>1. client'[q] = client[q] /\ stage'[q] = stage[q] /\ id'[q] = id[q]
      BY <1>3, <2>2
    <3>2. client[q] = "answered" =>
            /\ vertices[q] # NoRun /\ vertices[q] \in Run
            /\ stage[vertices[q]] = "finished" /\ id[vertices[q]] = id[q]
            /\ vertices[q] \notin ended'[q]
      BY <1>14, <2>2 DEF AnswersOwn, IdInv
    <3>3. client[q] = "answered" =>
            vertices[q] # r /\ stage'[vertices[q]] = "finished" /\ id'[vertices[q]] = id[q]
      BY <1>1, <1>3, <3>2
    <3>4. /\ alone[q] /\ client[q] = "answered" => vertices[q] = q
          /\ alone[q] /\ client[q] = "refused" => stage[q] \in {"failed", "refused"}
      BY DEF AnswersOwn
    <3>. QED  BY <1>5, <3>1, <3>2, <3>3, <3>4
  <2>. QED  BY <2>1, <2>2
<1>13. RunningIsAccounted'
  <2> SUFFICES ASSUME NEW i \in DOMAIN jobs', jobs'[i].state = "running"
               PROVE  \E p \in Run :
                        /\ id'[p] = i
                        /\ \A q \in Run : q > p => id'[q] # i
                        /\ Accounted(stage'[p], client'[p])
    BY DEF RunningIsAccounted, Accounted
  <2>1. CASE i = j
    <3>1. \A q \in Run : q > r => id'[q] # j
      <4>1. \A q \in Run : q > r => id[q] = NoRun /\ q # r
        BY <1>1, <1>4 DEF IdInv, Run
      <4>. QED  BY <1>1, <1>3, <4>1 DEF Run, NoRun
    <3>. QED  BY <1>3, <2>1, <3>1 DEF Accounted
  <2>2. CASE i # j
    <3>1. i \in DOMAIN jobs /\ jobs[i].state = "running"
      BY <1>2, <2>2
    <3>2. PICK p \in Run :
            /\ id[p] = i
            /\ \A q \in Run : q > p => id[q] # i
            /\ Accounted(stage[p], client[p])
      BY <3>1 DEF RunningIsAccounted, Accounted
    <3>3. p # r
      BY <1>1, <3>2 DEF Accounted
    <3>. QED  BY <1>1, <1>3, <2>2, <3>2, <3>3
  <2>. QED  BY <2>1, <2>2
<1>. QED  BY <1>6, <1>7, <1>8, <1>11, <1>12, <1>13, <1>15

(* A client that polls or fetches learns what the entry says. *)
LEMMA ClientRecord ==
  ASSUME Shape, RecordInv, NEW r \in Run, ClientStep(r)
  PROVE  RecordInv'
<1> USE DEF RecordInv
<1> DEFINE entry == jobs[id[r]]
<1>1. /\ UNCHANGED <<jobs, id, stage, alone, ended>>
      /\ client[r] \in {"polling", "fetching"}
      /\ \A q \in Run \ {r} : client'[q] = client[q] /\ vertices'[q] = vertices[q]
      /\ client' \in [Run -> Clients]
      /\ client'[r] \in {"polling", "fetching", "answered", "refused"}
  BY DEF ClientStep, GetJobStatus, FetchVertices, runVars, IdInv, Clients
<1>2. /\ stage[r] \notin {"none", "refused", "dropped", "resolving", "accepting"}
      /\ id[r] \in DOMAIN jobs
      /\ entry \in [state : {"running", "finished", "failed"},
                    result : Run \cup {NoRun}, error : BOOLEAN]
  BY <1>1 DEF IdInv
<1>3. vertices' \in [Run -> Run \cup {NoRun}]
  BY <1>2 DEF ClientStep, GetJobStatus, FetchVertices, IdInv
<1>4. IdInv'
  BY <1>1, <1>2, <1>3 DEF IdInv
<1>5. OrderInv' /\ ResultInv'
  BY <1>1 DEF OrderInv, ResultInv
<1>12. EndedInv'
  BY <1>1 DEF EndedInv, Ended
<1>13. RunningIsAccounted'
  BY <1>1, <1>2 DEF RunningIsAccounted
<1>6. \A q \in Run : Busy(q)' => Busy(q)
  BY <1>1 DEF Busy
<1>7. ASSUME alone[r]
      PROVE  /\ entry = EntryOf(r)
             /\ client[r] = "fetching" => stage[r] = "finished"
  BY <1>1, <1>7 DEF OwnInv
<1>8. /\ client'[r] = "fetching" => client[r] = "polling" /\ entry.state = "finished"
      /\ client'[r] = "answered" => /\ client[r] = "fetching" /\ entry.result # NoRun
                                    /\ vertices'[r] = entry.result
      /\ client'[r] = "refused" =>
           \/ client[r] = "polling" /\ (entry.error \/ entry.state = "failed")
           \/ client[r] = "fetching" /\ entry.result = NoRun
  BY <1>1 DEF ClientStep, GetJobStatus, FetchVertices, IdInv
<1>9. ASSUME alone[r]
      PROVE  /\ client'[r] = "fetching" => stage[r] = "finished"
             /\ client'[r] = "answered" => vertices'[r] = r
             /\ client'[r] = "refused" => stage[r] = "failed"
  BY <1>7, <1>8, <1>9 DEF EntryOf, Entry, NoRun, Run
<1> HIDE DEF entry
<1>10. OwnInv'
  <2>1. \A q \in Run : EntryOf(q)' = EntryOf(q)
    BY <1>1 DEF EntryOf
  <2>. QED  BY <1>1, <1>6, <1>9, <2>1 DEF OwnInv
<1>11. AnswersOwn'
  <2>1. client'[r] = "answered" =>
          /\ vertices'[r] # NoRun /\ stage[vertices'[r]] = "finished"
          /\ id[vertices'[r]] = id[r] /\ vertices'[r] \notin ended[r]
    BY <1>2, <1>8 DEF ResultInv, EndedInv, entry
  <2>. QED  BY <1>1, <1>9, <2>1 DEF AnswersOwn
<1>. QED  BY <1>4, <1>5, <1>10, <1>11, <1>12, <1>13

LEMMA RecordNext == Shape /\ RecordInv /\ [Next]_vars => RecordInv'
<1> SUFFICES ASSUME Shape, RecordInv, [Next]_vars PROVE RecordInv'
  OBVIOUS
<1>1. ASSUME NEW r \in Run, NEW j \in 1 .. r, SubmitJob(r, j) PROVE RecordInv'
  BY <1>1, SubmitRecord
<1>2. ASSUME NEW r \in Run, ResolveWorkers(r) PROVE RecordInv'
  BY <1>2, StageRecord DEF ResolveWorkers, clientVars
<1>3. ASSUME NEW r \in Run, ResolveFails(r) \/ AcceptFails(r) PROVE RecordInv'
  BY <1>3, RefusedRecord
<1>4. ASSUME NEW r \in Run, Connect(r) PROVE RecordInv'
  BY <1>4, StageRecord DEF Connect, clientVars
<1>5. ASSUME NEW r \in Run, ReceiveReady(r) PROVE RecordInv'
  BY <1>5, StageRecord DEF ReceiveReady, clientVars
<1>6. ASSUME NEW r \in Run, RunFinishes(r) PROVE RecordInv'
  BY <1>6, RecordRecord DEF RunFinishes
<1>7. ASSUME NEW r \in Run, RunFails(r) PROVE RecordInv'
  BY <1>7, RecordRecord DEF RunFails
<1>8. ASSUME NEW r \in Run, ClientStep(r) PROVE RecordInv'
  BY <1>8, ClientRecord
<1>9. CASE UNCHANGED <<jobs, runVars, clientVars>>
  <2> USE <1>9 DEF runVars, clientVars, RecordInv
  <2>1. IdInv' /\ OrderInv' /\ ResultInv' /\ EndedInv'
    BY DEF IdInv, OrderInv, ResultInv, EndedInv, Ended
  <2>2. OwnInv'
    <3>1. \A q \in Run : (Busy(q)' <=> Busy(q)) /\ EntryOf(q)' = EntryOf(q)
      BY DEF Busy, EntryOf
    <3>. QED  BY <3>1 DEF OwnInv
  <2>3. AnswersOwn' /\ RunningIsAccounted'
    BY DEF AnswersOwn, RunningIsAccounted
  <2>. QED  BY <2>1, <2>2, <2>3
<1>10. \/ UNCHANGED <<jobs, runVars, clientVars>>
       \/ \E r \in Run : RunStep(r) \/ ClientStep(r) \/ \E j \in 1 .. r : SubmitJob(r, j)
  BY DEF Next, WorkerStep, Bind, Accept, WorkerExits, WorkerDies, Restart,
         MasterStops, vars
<1>11. ASSUME NEW r \in Run, AcceptJob(r) PROVE RecordInv'
  BY <1>11, StageRecord DEF AcceptJob
<1>. QED  BY <1>1, <1>2, <1>3, <1>4, <1>5, <1>6, <1>7, <1>8, <1>9, <1>10, <1>11
          DEF RunStep

LEMMA RestNext == RestInv /\ [Next]_vars => RestInv'
<1> SUFFICES ASSUME RestInv, [Next]_vars PROVE RestInv'
  OBVIOUS
<1>1. CASE UNCHANGED <<masterVars, crashes, restarts>>
  BY <1>1 DEF RestInv, masterVars
<1>2. ASSUME NEW w \in Worker, WorkerDies(w) PROVE RestInv'
  BY <1>2, ServiceAssumption DEF WorkerDies, RestInv, masterVars
<1>3. ASSUME NEW w \in Worker, Restart(w) PROVE RestInv'
  BY <1>3, ServiceAssumption DEF Restart, RestInv, masterVars
<1>4. CASE MasterStops
  BY <1>4 DEF MasterStops, RestInv
<1>5. ASSUME NEW r \in Run, RunStep(r) PROVE UNCHANGED <<masterVars, crashes, restarts>>
  BY <1>5 DEF RunStep, ResolveWorkers, ResolveFails, AcceptJob, AcceptFails,
              Connect, ReceiveReady, RunFinishes, RunFails
<1>6. ASSUME NEW r \in Run, ClientStep(r) \/ \E j \in 1 .. r : SubmitJob(r, j)
      PROVE  UNCHANGED <<masterVars, crashes, restarts>>
  BY <1>6 DEF ClientStep, GetJobStatus, FetchVertices, SubmitJob
<1>7. ASSUME NEW w \in Worker, WorkerStep(w) PROVE UNCHANGED <<masterVars, crashes, restarts>>
  BY <1>7 DEF WorkerStep, Bind, Accept, WorkerExits
<1>. QED  BY <1>1, <1>2, <1>3, <1>4, <1>5, <1>6, <1>7 DEF Next, vars

LEMMA IndAlways == Spec => []IndInv
<1>1. IndInv /\ [Next]_vars => IndInv'
  BY QueueNext, RecordNext, RestNext DEF IndInv, QueueInv
<1>. QED  BY <1>1, InitInv, PTL DEF Spec

----------------------------------------------------------------------------
(* Entries, stages and connections stay what they are declared to be: a    *)
(* job is never at a worker beyond the end of its list, nor a connection   *)
(* of no submission in a backlog (handle_connection, run_job, run_worker). *)
THEOREM TypeCorrect == Spec => []TypeOK
<1>1. IndInv => TypeOK
  <2> SUFFICES ASSUME IndInv PROVE TypeOK
    OBVIOUS
  <2>1. \A r \in Run : Range(addrs[r]) \subseteq Worker
    BY DEF IndInv, QueueInv, Shape, Range
  <2>2. \A r \in Run : at[r] \in 1 .. (Len(addrs[r]) + 1)
    BY DEF IndInv, QueueInv, Shape, PlaceInv
  <2>3. \A w \in Worker : Range(backlog[w]) \subseteq Run
    BY DEF IndInv, QueueInv, Shape, Range
  <2>. QED  BY <2>1, <2>2, <2>3
            DEF IndInv, QueueInv, Shape, RecordInv, IdInv, EndedInv, RestInv,
                Stages, Clients, TypeOK
<1>. QED  BY <1>1, IndAlways, PTL

(* A client that submits, polls and fetches over connections of its own    *)
(* never gets the vertices of a run that had ended when it submitted, be   *)
(* it under its id; and if no other submission under its id was under way  *)
(* at the same time, it is told what became of its own run.                *)
THEOREM OwnAnswers == Spec => []AnswersOwn
<1>1. IndInv => AnswersOwn
  BY DEF IndInv, RecordInv
<1>. QED  BY <1>1, IndAlways, PTL

(* An entry that says running is the entry of a run that still can end, or *)
(* was left by the latest submission under its id: no worker list could be *)
(* had and the client was told, or the client was gone when JobAccepted    *)
(* was sent (the returns of handle_connection before it spawns the run).   *)
THEOREM RunningAccounted == Spec => []RunningIsAccounted
<1>1. IndInv => RunningIsAccounted
  BY DEF IndInv, RecordInv
<1>. QED  BY <1>1, IndAlways, PTL

(* The reason why jobs that compete for one-shot workers cannot deadlock:  *)
(* each takes its workers in the order of their addresses, so it waits     *)
(* only for a worker greater than all it holds, for any number of workers  *)
(* and jobs, and whatever the master told each of them (DistributedDriver  *)
(* ::connect, alive_workers).                                              *)
THEOREM NoCircularWait == Spec => []WaitsUpward
<1>1. IndInv => WaitsUpward
  <2> SUFFICES ASSUME IndInv, NEW r \in Run, NEW v \in Worker, NEW w \in Worker,
                      serving[v] = r, r \in Range(backlog[w])
               PROVE  v < w
    BY DEF WaitsUpward
  <2>1. QueueInv
    BY DEF IndInv
  <2>2. stage[r] = "waiting" /\ addrs[r][at[r]] = w /\ serving[w] # r
    BY <2>1 DEF QueueInv, BacklogInv, Range, Target
  <2>3. PICK i \in DOMAIN addrs[r] : addrs[r][i] = v /\ (i < at[r] \/ i = at[r])
    BY <2>1 DEF QueueInv, ServingInv
  <2>4. i < at[r]
    BY <2>2, <2>3
  <2>5. at[r] \in DOMAIN addrs[r]
    BY <2>1, <2>2 DEF QueueInv, Shape, PlaceInv
  <2>. QED  BY <2>1, <2>2, <2>3, <2>4, <2>5 DEF QueueInv, PlaceInv, Ascending
<1>. QED  BY <1>1, IndAlways, PTL

============================================================================
