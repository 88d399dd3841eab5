------------------------ MODULE CheckpointJobProofs ------------------------
(***************************************************************************)
(* Theorems of CheckpointJob, for every set of workers, graph, checkpoint  *)
(* interval, iteration budget and number of submissions.                   *)
(***************************************************************************)
EXTENDS CheckpointJob, VertexProgramProofs

(* process_superstep changes the values of the stored vertices and nothing *)
(* else in the database, and sends along stored edges only.                *)
LEMMA SuperstepShape ==
  ASSUME NEW w \in Worker, NEW db, NEW m, NEW t, NEW k, IsPartition(db, w)
  PROVE  LET r == ProcessSuperstep(db, m, t, k)
         IN  IsPartition(r.db, w) /\ DOMAIN r.outbox \subseteq db.edges
<1>1. DOMAIN db = {"vertices", "edges"}
  BY DEF IsPartition
<1>. QED  BY <1>1 DEF ProcessSuperstep, IsPartition

(* A WCC superstep does not depend on the teleport of the algorithm object. *)
LEMMA WccIgnoresTeleport ==
  ASSUME Algorithm = "wcc", NEW db, NEW m, NEW t, NEW u, NEW k
  PROVE  /\ ProcessSuperstep(db, m, t, k).db = ProcessSuperstep(db, m, u, k).db
         /\ ProcessSuperstep(db, m, t, k).outbox
              = ProcessSuperstep(db, m, u, k).outbox
BY DEF ProcessSuperstep, ComputeVertex

(* A round keeps every store a partition and sends along loaded edges. *)
LEMMA RoundShape ==
  ASSUME NEW s, NEW k, \A w \in Worker : IsPartition(s.db[w], w)
  PROVE  /\ DOMAIN Round(s, k).db = Worker
         /\ \A w \in Worker : IsPartition(Round(s, k).db[w], w)
         /\ DOMAIN Round(s, k).mail \subseteq Input.edges
         /\ DOMAIN Round(s, k).teleport = Worker
<1> DEFINE r == [w \in Worker |->
                   ProcessSuperstep(s.db[w], RouteTo(s.mail, Part, w),
                                    s.teleport[w], k)]
           sent == UNION {DOMAIN r[w].outbox : w \in Worker}
<1>1. Round(s, k) = [ db       |-> [w \in Worker |-> r[w].db],
                      mail     |-> [e \in sent |-> r[Part[e.src]].outbox[e]],
                      teleport |-> [w \in Worker |-> r[w].teleport] ]
  BY DEF Round
<1>2. \A w \in Worker : /\ IsPartition(r[w].db, w)
                        /\ DOMAIN r[w].outbox \subseteq s.db[w].edges
  BY SuperstepShape
<1>3. \A w \in Worker : s.db[w].edges \subseteq Input.edges
  BY DEF IsPartition, Loaded
<1>4. sent \subseteq Input.edges
  BY <1>2, <1>3
<1> HIDE DEF r, sent
<1>. QED  BY <1>1, <1>2, <1>4

(* Two states that agree on stores and messages agree on them after a WCC  *)
(* round: what a fresh worker process lacks (its algorithm object) does    *)
(* not matter.                                                             *)
LEMMA WccRound ==
  ASSUME Algorithm = "wcc",
         NEW s, NEW t, NEW k,
         \A w \in Worker : IsPartition(s.db[w], w),
         \A w \in Worker : s.db[w] = t.db[w],
         s.mail = t.mail
  PROVE  /\ \A w \in Worker : Round(s, k).db[w] = Round(t, k).db[w]
         /\ Round(s, k).mail = Round(t, k).mail
<1> DEFINE r(x) == [w \in Worker |->
                   ProcessSuperstep(x.db[w], RouteTo(x.mail, Part, w),
                                    x.teleport[w], k)]
           sent(x) == UNION {DOMAIN r(x)[w].outbox : w \in Worker}
<1>1. \A w \in Worker : /\ r(s)[w].db = r(t)[w].db
                        /\ r(s)[w].outbox = r(t)[w].outbox
  BY WccIgnoresTeleport
<1>2. sent(s) = sent(t)
  BY <1>1
<1>3. ASSUME NEW e \in sent(s)
      PROVE  Part[e.src] \in Worker
  <2>1. PICK w \in Worker : e \in DOMAIN r(s)[w].outbox
    OBVIOUS
  <2>2. e \in s.db[w].edges
    BY <2>1, SuperstepShape
  <2> HIDE DEF r, sent
  <2>3. e \in Loaded(w).edges
    BY <2>2 DEF IsPartition
  <2>. QED  BY <2>3 DEF Loaded
<1>4. Round(s, k).mail = [e \in sent(s) |-> r(s)[Part[e.src]].outbox[e]]
  BY DEF Round
<1>5. Round(t, k).mail = [e \in sent(t) |-> r(t)[Part[e.src]].outbox[e]]
  BY DEF Round
<1>6. \A w \in Worker : /\ Round(s, k).db[w] = r(s)[w].db
                        /\ Round(t, k).db[w] = r(t)[w].db
  BY DEF Round
<1> HIDE DEF r, sent
<1>. QED  BY <1>1, <1>2, <1>3, <1>4, <1>5, <1>6

----------------------------------------------------------------------------
(* The inductive invariant of the files. *)
FilesIndInv == TypeOK /\ PublishedComplete /\ FilesInv

LEMMA LoadedShape == \A w \in Worker : IsPartition(Loaded(w), w)
BY DEF IsPartition, Loaded

(* Every worker has its partition open. *)
LEMMA OpenShape ==
  FilesIndInv => \A w \in Worker : IsPartition(Open(w), w)
BY DEF FilesIndInv, TypeOK, PublishedComplete, Complete, Open, None

(* Storing partitions keeps every database a partition, and changes no     *)
(* directory but the open one.                                             *)
LEMMA StoreShape ==
  ASSUME FilesIndInv, NEW S \in SUBSET Worker, NEW db,
         \A w \in Worker : IsPartition(db[w], w),
         Store(S, db)
  PROVE  /\ DOMAIN home' = Worker
         /\ \A w \in Worker : IsPartition(home'[w], w)
         /\ DOMAIN cp' = Iteration
         /\ \A k \in Iteration :
              /\ DOMAIN cp'[k] = DOMAIN cp[k]
              /\ \A w \in DOMAIN cp'[k] : IsPartition(cp'[k][w], w)
              /\ k # live => cp'[k] = cp[k]
<1>1. /\ DOMAIN home = Worker
      /\ \A w \in Worker : IsPartition(home[w], w)
      /\ DOMAIN cp = Iteration
      /\ \A k \in Iteration :
           DOMAIN cp[k] \subseteq Worker /\ \A w \in DOMAIN cp[k] : IsPartition(cp[k][w], w)
      /\ live \in Iteration \cup {None}
  BY DEF FilesIndInv, TypeOK
<1>2. CASE live = None
  BY <1>1, <1>2 DEF Store
<1>3. CASE live # None
  <2>1. home' = home
    BY <1>3 DEF Store
  <2>2. cp' = [cp EXCEPT ![live] = [w \in DOMAIN cp[live] |->
                                      IF w \in S THEN db[w] ELSE cp[live][w]]]
    BY <1>3 DEF Store
  <2>3. live \in Iteration
    BY <1>1, <1>3
  <2>. QED  BY <1>1, <2>1, <2>2, <2>3
<1>. QED  BY <1>2, <1>3

LEMMA FilesInit == Init => FilesIndInv
<1> SUFFICES ASSUME Init PROVE FilesIndInv
  OBVIOUS
<1>1. TypeOK
  BY LoadedShape, BoundsAssumption
     DEF Init, TypeOK, None, Torn, NoMail, Iteration
<1>2. PublishedComplete
  BY DEF Init, PublishedComplete, None, Iteration
<1>3. FilesInv
  BY DEF Init, FilesInv
<1>. QED  BY <1>1, <1>2, <1>3 DEF FilesIndInv

LEMMA FilesNext == FilesIndInv /\ [Next]_vars => FilesIndInv'
<1> SUFFICES ASSUME FilesIndInv, [Next]_vars PROVE FilesIndInv'
  OBVIOUS
<1> USE DEF FilesIndInv, None, Torn
<1>t. TypeOK /\ PublishedComplete /\ FilesInv
  OBVIOUS
<1>1. CASE Start
  <2>1. TypeOK'
    BY <1>1, <1>t, LoadedShape, BoundsAssumption
       DEF Start, Submitted, TypeOK, NoMail
  <2>2. PublishedComplete' /\ FilesInv'
    BY <1>1, <1>t DEF Start, Submitted, TypeOK, PublishedComplete, Complete, FilesInv
  <2>. QED  BY <2>1, <2>2
<1>2. CASE Recover
  <2>1. TypeOK'
    BY <1>2, <1>t, LoadedShape, BoundsAssumption
       DEF Recover, LoadCheckpoint, Submitted, TypeOK, PublishedComplete, Complete, Iteration
  <2>2. PublishedComplete' /\ FilesInv'
    BY <1>2, <1>t
       DEF Recover, LoadCheckpoint, Submitted, TypeOK, PublishedComplete, Complete, FilesInv, Iteration
  <2>. QED  BY <2>1, <2>2
<1>3. CASE RecoverFails
  <2>1. TypeOK'
    BY <1>3, <1>t, LoadedShape, BoundsAssumption
       DEF RecoverFails, Submitted, TypeOK
  <2>2. PublishedComplete' /\ FilesInv'
    BY <1>3, <1>t
       DEF RecoverFails, Submitted, TypeOK, PublishedComplete, Complete, FilesInv
  <2>. QED  BY <2>1, <2>2
<1>4. CASE Superstep
  <2> DEFINE next == Round(Now, executed + 1)
  <2>1. \A w \in Worker : IsPartition(Now.db[w], w)
    BY OpenShape DEF Now
  <2>2. /\ \A w \in Worker : IsPartition(next.db[w], w)
        /\ DOMAIN next.mail \subseteq Input.edges
        /\ DOMAIN next.teleport = Worker
    BY <2>1, RoundShape
  <2>3. Store(Worker, next.db) /\ mail' = next.mail /\ teleport' = next.teleport
    BY <1>4 DEF Superstep
  <2>4. /\ executed' = executed + 1
        /\ executed' \in Iteration
    BY <1>4, <1>t, BoundsAssumption DEF Superstep, TypeOK, Iteration
  <2> HIDE DEF next
  <2>5. /\ DOMAIN home' = Worker
        /\ \A w \in Worker : IsPartition(home'[w], w)
        /\ DOMAIN cp' = Iteration
        /\ \A k \in Iteration :
             /\ DOMAIN cp'[k] = DOMAIN cp[k]
             /\ \A w \in DOMAIN cp'[k] : IsPartition(cp'[k][w], w)
    BY <2>2, <2>3, StoreShape
  <2>6. TypeOK'
    BY <1>4, <1>t, <2>2, <2>3, <2>4, <2>5, BoundsAssumption
       DEF Superstep, TypeOK, Iteration, AfterIteration
  <2>7. PublishedComplete' /\ FilesInv'
    BY <1>4, <1>t, <2>4, <2>5
       DEF Superstep, TypeOK, PublishedComplete, Complete, FilesInv, AfterIteration
  <2>. QED  BY <2>6, <2>7
<1>5. ASSUME NEW S \in SUBSET Worker, SuperstepFails(S) PROVE FilesIndInv'
  <2> DEFINE next == Round(Now, executed + 1)
  <2>1. \A w \in Worker : IsPartition(Now.db[w], w)
    BY OpenShape DEF Now
  <2>2. \A w \in Worker : IsPartition(next.db[w], w)
    BY <2>1, RoundShape
  <2>3. Store(S, next.db)
    BY <1>5 DEF SuperstepFails
  <2> HIDE DEF next
  <2>4. /\ DOMAIN home' = Worker
        /\ \A w \in Worker : IsPartition(home'[w], w)
        /\ DOMAIN cp' = Iteration
        /\ \A k \in Iteration :
             /\ DOMAIN cp'[k] = DOMAIN cp[k]
             /\ \A w \in DOMAIN cp'[k] : IsPartition(cp'[k][w], w)
    BY <2>2, <2>3, StoreShape
  <2>5. TypeOK'
    BY <1>5, <1>t, <2>4 DEF SuperstepFails, TypeOK
  <2>6. PublishedComplete' /\ FilesInv'
    BY <1>5, <1>t, <2>4
       DEF SuperstepFails, TypeOK, PublishedComplete, Complete, FilesInv
  <2>. QED  BY <2>5, <2>6
<1>6. CASE BudgetSpent
  BY <1>6, <1>t
     DEF BudgetSpent, disk, TypeOK, PublishedComplete, Complete, FilesInv
<1>7. ASSUME NEW w \in Worker, CreateCheckpoint(w) PROVE FilesIndInv'
  <2>1. executed \in Iteration /\ cp' = [cp EXCEPT ![executed] =
                                           Extend(cp[executed], w, Open(w))]
    BY <1>7, <1>t DEF CreateCheckpoint, FilesInv
  <2>2. /\ DOMAIN cp' = Iteration
        /\ \A k \in Iteration \ {executed} : cp'[k] = cp[k]
        /\ DOMAIN cp'[executed] = DOMAIN cp[executed] \cup {w}
        /\ \A x \in DOMAIN cp'[executed] :
             cp'[executed][x] = IF x = w THEN Open(w) ELSE cp[executed][x]
    BY <2>1, <1>t DEF Extend, TypeOK
  <2>3. TypeOK'
    BY <1>7, <1>t, <2>1, <2>2, OpenShape DEF CreateCheckpoint, TypeOK
  <2>4. PublishedComplete' /\ FilesInv'
    BY <1>7, <1>t, <2>1, <2>2
       DEF CreateCheckpoint, TypeOK, PublishedComplete, Complete, FilesInv
  <2>. QED  BY <2>3, <2>4
<1>8. ASSUME NEW w \in Worker, CreateCheckpointFails(w) PROVE FilesIndInv'
  BY <1>8, <1>t
     DEF CreateCheckpointFails, disk, TypeOK, PublishedComplete, Complete, FilesInv
<1>9. CASE WriteInboxes
  <2>1. executed \in Iteration
    BY <1>9, <1>t DEF WriteInboxes, FilesInv
  <2>2. /\ DOMAIN inboxFile' = DOMAIN inboxFile \cup {executed}
        /\ \A k \in DOMAIN inboxFile' :
             inboxFile'[k] = IF k = executed THEN mail ELSE inboxFile[k]
    BY <1>9 DEF WriteInboxes, Extend
  <2>3. TypeOK'
    BY <1>9, <1>t, <2>1, <2>2 DEF WriteInboxes, TypeOK
  <2>4. PublishedComplete' /\ FilesInv'
    BY <1>9, <1>t, <2>1, <2>2
       DEF WriteInboxes, TypeOK, PublishedComplete, Complete, FilesInv
  <2>. QED  BY <2>3, <2>4
<1>10. CASE TruncateLatest
  BY <1>10, <1>t
     DEF TruncateLatest, Iteration, TypeOK, PublishedComplete, Complete, FilesInv
<1>11. CASE WriteLatest
  BY <1>11, <1>t
     DEF WriteLatest, AfterIteration, TypeOK, PublishedComplete, Complete, FilesInv
<1>12. CASE Finish
  BY <1>12, <1>t
     DEF Finish, disk, TypeOK, PublishedComplete, Complete, FilesInv
<1>13. CASE Crash
  BY <1>13, <1>t
     DEF Crash, disk, TypeOK, PublishedComplete, Complete, FilesInv
<1>14. CASE UNCHANGED vars
  BY <1>14, <1>t
     DEF vars, volatile, disk, TypeOK, PublishedComplete, Complete, FilesInv
<1>. QED  BY <1>1, <1>2, <1>3, <1>4, <1>5, <1>6, <1>7, <1>8, <1>9, <1>10,
             <1>11, <1>12, <1>13, <1>14 DEF Next

LEMMA FilesAlways == Spec => []FilesIndInv
BY FilesInit, FilesNext, PTL DEF Spec

(* Whatever crashes and resubmissions happen, every database the job ever  *)
(* stores, live or in a checkpoint, is the partition its worker was loaded *)
(* with (put_vertex_batch, create_checkpoint).                             *)
THEOREM TypeCorrect == Spec => []TypeOK
<1>1. FilesIndInv => TypeOK
  BY DEF FilesIndInv
<1>. QED  BY <1>1, FilesAlways, PTL

(* checkpoint_latest.json never names a checkpoint that lacks a worker's   *)
(* directory or the inboxes: the order in which CycleScheduler::run writes *)
(* the files makes a crash between any two of them harmless to recovery.   *)
THEOREM PublishedAlwaysComplete == Spec => []PublishedComplete
<1>1. FilesIndInv => PublishedComplete
  BY DEF FilesIndInv
<1>. QED  BY <1>1, FilesAlways, PTL

----------------------------------------------------------------------------
(* The inductive invariant of recovery. *)
ExactIndInv ==
  /\ FilesIndInv
  /\ PublishedPristine
  /\ RecoveredExact
  /\ SavedExact

LEMMA ExactInit == Init => ExactIndInv
<1> SUFFICES ASSUME Init PROVE ExactIndInv
  OBVIOUS
<1>. QED  BY FilesInit DEF Init, ExactIndInv, PublishedPristine, RecoveredExact,
                           SavedExact, None, Iteration

(* opens never shrinks, so a run without reopened checkpoints never had any. *)
LEMMA NoReopenBefore == FilesIndInv /\ [Next]_vars /\ NoReopen' => NoReopen
<1> SUFFICES ASSUME FilesIndInv, [Next]_vars, NoReopen' PROVE NoReopen
  OBVIOUS
<1>1. opens \in [Iteration -> Nat]
  BY DEF FilesIndInv, TypeOK
<1>2. CASE opens' = opens
  BY <1>2 DEF NoReopen
<1>3. CASE Recover
  <2>1. latest \in Iteration /\ opens' = [opens EXCEPT ![latest] = @ + 1]
    BY <1>3 DEF Recover, LoadCheckpoint
  <2>. QED  BY <1>1, <2>1 DEF NoReopen
<1>4. opens' = opens \/ Recover
  BY DEF Next, Start, RecoverFails, Superstep, SuperstepFails, BudgetSpent,
         CreateCheckpoint, CreateCheckpointFails, WriteInboxes, TruncateLatest,
         WriteLatest, Finish, Crash, vars
<1>. QED  BY <1>2, <1>3, <1>4

(* Storing all results of a round makes them what the workers have open. *)
LEMMA OpenAfterStore ==
  ASSUME FilesIndInv, NEW db, Store(Worker, db), live' = live
  PROVE  \A w \in Worker : Open(w)' = db[w]
<1>1. live \in Iteration \cup {None} /\ DOMAIN cp = Iteration
  BY DEF FilesIndInv, TypeOK
<1>2. CASE live = None
  BY <1>2 DEF Store, Open
<1>3. CASE live # None
  <2>1. DOMAIN cp[live] = Worker /\ live \in Iteration
    BY <1>1, <1>3 DEF FilesIndInv, PublishedComplete, Complete
  <2>2. cp' = [cp EXCEPT ![live] = [w \in DOMAIN cp[live] |-> db[w]]]
    BY <1>3, <2>1 DEF Store
  <2>. QED  BY <1>1, <1>3, <2>1, <2>2 DEF Open
<1>. QED  BY <1>2, <1>3

(* The three properties, each in a state where NoReopen holds. *)
Pristine == latest \in Iteration /\ opens[latest] = 0 => Matches(latest)

Running ==
  phase # "idle" =>
    /\ \A w \in Worker : Open(w) = Ref[executed].db[w]
    /\ mail = Ref[executed].mail

Saved ==
  /\ phase = "checkpoint" =>
       \A w \in acked : cp[executed][w] = Ref[executed].db[w]
  /\ phase \in {"inboxes", "truncate", "latest"} =>
       \A w \in Worker : cp[executed][w] = Ref[executed].db[w]
  /\ phase \in {"truncate", "latest"} => inboxFile[executed] = mail

LEMMA ExactByParts ==
  ExactIndInv <=> FilesIndInv /\ (NoReopen => Pristine /\ Running /\ Saved)
BY DEF ExactIndInv, PublishedPristine, RecoveredExact, SavedExact, Pristine,
       Running, Saved

LEMMA ExactNext ==
  ASSUME Algorithm = "wcc"
  PROVE  ExactIndInv /\ [Next]_vars => ExactIndInv'
<1> SUFFICES ASSUME ExactIndInv, [Next]_vars, NoReopen'
             PROVE  Pristine' /\ Running' /\ Saved'
  <2>1. ExactIndInv /\ [Next]_vars => FilesIndInv'
    BY FilesNext, ExactByParts
  <2>2. ExactIndInv' <=> FilesIndInv' /\ (NoReopen' => (Pristine /\ Running /\ Saved)')
    BY ExactByParts, PTL
  <2>. QED  BY <2>1, <2>2
<1>1. FilesIndInv /\ NoReopen /\ Pristine /\ Running /\ Saved
  BY ExactByParts, NoReopenBefore
<1>2. TypeOK /\ PublishedComplete /\ FilesInv
  BY <1>1 DEF FilesIndInv
<1>3. FilesIndInv'
  BY <1>1, FilesNext
<1>4. CASE Start
  <2>1. Running'
    BY <1>4, RefAssumption DEF Start, Submitted, Running, Open, None
  <2>2. Pristine' /\ Saved'
    BY <1>4, <1>1, <1>2
       DEF Start, Submitted, TypeOK, Pristine, Matches, Saved, None
  <2>. QED  BY <2>1, <2>2
<1>5. CASE Recover
  <2>1. latest \in Iteration /\ opens' = [opens EXCEPT ![latest] = @ + 1]
    BY <1>5 DEF Recover, LoadCheckpoint
  <2>2. opens[latest] = 0
    BY <1>2, <2>1 DEF TypeOK, NoReopen
  <2>3. Matches(latest)
    BY <1>1, <2>1, <2>2 DEF Pristine
  <2>4. Running'
    BY <1>5, <2>1, <2>3
       DEF Recover, LoadCheckpoint, Submitted, Running, Open, Matches, None, Iteration
  <2>5. Pristine' /\ Saved'
    BY <1>5, <1>2, <2>1, <2>2
       DEF Recover, LoadCheckpoint, Submitted, TypeOK, Pristine, Saved
  <2>. QED  BY <2>4, <2>5
<1>6. CASE RecoverFails
  BY <1>6, <1>1
     DEF RecoverFails, Submitted, Pristine, Matches, Running, Saved
<1>7. CASE Superstep
  <2> DEFINE next == Round(Now, executed + 1)
  <2>1. executed + 1 \in Iteration /\ phase = "superstep" /\ executed \in Nat
    BY <1>7, <1>2, BoundsAssumption DEF Superstep, TypeOK, Iteration
  <2>2. Ref[executed + 1] = Round(Ref[executed], executed + 1)
    BY <2>1, RefAssumption
  <2>3. \A w \in Worker : IsPartition(Now.db[w], w)
    BY <1>1, OpenShape DEF Now
  <2>4. /\ \A w \in Worker : Now.db[w] = Ref[executed].db[w]
        /\ Now.mail = Ref[executed].mail
    BY <1>1, <2>1 DEF Running, Now
  <2>5. /\ \A w \in Worker : next.db[w] = Ref[executed + 1].db[w]
        /\ next.mail = Ref[executed + 1].mail
    BY <2>2, <2>3, <2>4, WccRound
  <2>6. Store(Worker, next.db) /\ mail' = next.mail
    BY <1>7 DEF Superstep
  <2>7. executed' = executed + 1 /\ live' = live
    BY <1>7 DEF Superstep
  <2>8. \A w \in Worker : IsPartition(next.db[w], w)
    BY <2>3, RoundShape
  <2> HIDE DEF next
  <2>9. Running'
    BY <1>1, <2>5, <2>6, <2>7, OpenAfterStore DEF Running
  <2>10. Pristine'
    <3> SUFFICES ASSUME latest' \in Iteration, opens'[latest'] = 0
                 PROVE  Matches(latest)'
      BY DEF Pristine
    <3>1. /\ latest' = latest /\ opens' = opens /\ inboxFile' = inboxFile
      BY <1>7 DEF Superstep
    <3>2. latest # live
      BY <1>2, <3>1 DEF FilesInv, Iteration, None
    <3>3. cp'[latest] = cp[latest]
      BY <1>1, <2>6, <2>8, <3>1, <3>2, StoreShape
    <3>. QED  BY <1>1, <3>1, <3>3 DEF Pristine, Matches
  <2>11. Saved'
    BY <1>7 DEF Superstep, Saved, AfterIteration
  <2>. QED  BY <2>9, <2>10, <2>11
<1>8. ASSUME NEW S \in SUBSET Worker, SuperstepFails(S)
      PROVE  Pristine' /\ Running' /\ Saved'
  <2> DEFINE next == Round(Now, executed + 1)
  <2>1. \A w \in Worker : IsPartition(next.db[w], w)
    BY <1>1, OpenShape, RoundShape DEF Now
  <2>2. Store(S, next.db)
    BY <1>8 DEF SuperstepFails
  <2> HIDE DEF next
  <2>3. Running' /\ Saved'
    BY <1>8 DEF SuperstepFails, Running, Saved
  <2>4. Pristine'
    <3> SUFFICES ASSUME latest' \in Iteration, opens'[latest'] = 0
                 PROVE  Matches(latest)'
      BY DEF Pristine
    <3>1. /\ latest' = latest /\ opens' = opens /\ inboxFile' = inboxFile
      BY <1>8 DEF SuperstepFails
    <3>2. latest # live
      BY <1>2, <3>1 DEF FilesInv, Iteration, None
    <3>3. cp'[latest] = cp[latest]
      BY <1>1, <2>1, <2>2, <3>1, <3>2, StoreShape
    <3>. QED  BY <1>1, <3>1, <3>3 DEF Pristine, Matches
  <2>. QED  BY <2>3, <2>4
<1>9. CASE BudgetSpent
  BY <1>9, <1>1
     DEF BudgetSpent, disk, Pristine, Matches, Running, Open, Saved
<1>10. ASSUME NEW w \in Worker, CreateCheckpoint(w)
       PROVE  Pristine' /\ Running' /\ Saved'
  <2>1. /\ executed \in Iteration
        /\ w \notin DOMAIN cp[executed]
        /\ cp' = [cp EXCEPT ![executed] = Extend(cp[executed], w, Open(w))]
        /\ DOMAIN cp = Iteration
    BY <1>10, <1>2 DEF CreateCheckpoint, FilesInv, TypeOK
  <2>2. /\ \A k \in Iteration \ {executed} : cp'[k] = cp[k]
        /\ cp'[executed][w] = Open(w)
        /\ \A x \in DOMAIN cp[executed] : cp'[executed][x] = cp[executed][x]
    BY <2>1 DEF Extend
  <2>3. live # executed /\ latest # executed
    BY <1>2, <2>1 DEF PublishedComplete, Complete, Iteration, None
  <2>4. live \in Iteration \cup {None}
    BY <1>2 DEF TypeOK
  <2>5. Pristine'
    BY <1>10, <1>1, <2>2, <2>3 DEF CreateCheckpoint, Pristine, Matches
  <2>6. Running'
    BY <1>10, <1>1, <2>2, <2>3, <2>4 DEF CreateCheckpoint, Running, Open
  <2>7. Saved'
    BY <1>10, <1>1, <1>2, <2>2
       DEF CreateCheckpoint, Saved, Running, FilesInv, TypeOK
  <2>. QED  BY <2>5, <2>6, <2>7
<1>11. ASSUME NEW w \in Worker, CreateCheckpointFails(w)
       PROVE  Pristine' /\ Running' /\ Saved'
  BY <1>11, <1>1
     DEF CreateCheckpointFails, disk, Pristine, Matches, Running, Saved
<1>12. CASE WriteInboxes
  <2>1. executed \in Iteration
    BY <1>12, <1>2 DEF WriteInboxes, FilesInv
  <2>2. /\ inboxFile'[executed] = mail
        /\ \A k \in DOMAIN inboxFile : k # executed => inboxFile'[k] = inboxFile[k]
    BY <1>12 DEF WriteInboxes, Extend
  <2>3. Running'
    BY <1>12, <1>1 DEF WriteInboxes, Running, Open
  <2>4. Pristine'
    BY <1>12, <1>1, <1>2, <2>2
       DEF WriteInboxes, Pristine, Matches, Running, PublishedComplete, Complete
  <2>5. Saved'
    BY <1>12, <1>1, <2>2 DEF WriteInboxes, Saved
  <2>. QED  BY <2>3, <2>4, <2>5
<1>13. CASE TruncateLatest
  BY <1>13, <1>1
     DEF TruncateLatest, Pristine, Running, Open, Saved, Torn, Iteration
<1>14. CASE WriteLatest
  BY <1>14, <1>1
     DEF WriteLatest, AfterIteration, Pristine, Matches, Running, Open, Saved
<1>15. CASE Finish
  BY <1>15, <1>1 DEF Finish, disk, Pristine, Matches, Running, Saved
<1>16. CASE Crash
  BY <1>16, <1>1 DEF Crash, disk, Pristine, Matches, Running, Saved
<1>17. CASE UNCHANGED vars
  BY <1>17, <1>1
     DEF vars, volatile, disk, Pristine, Matches, Running, Open, Saved
<1>. QED  BY <1>4, <1>5, <1>6, <1>7, <1>8, <1>9, <1>10, <1>11, <1>12, <1>13,
             <1>14, <1>15, <1>16, <1>17 DEF Next

LEMMA ExactAlways == Algorithm = "wcc" => (Spec => []ExactIndInv)
<1> SUFFICES ASSUME Algorithm = "wcc" PROVE Spec => []ExactIndInv
  OBVIOUS
<1>1. ExactIndInv /\ [Next]_vars => ExactIndInv'
  BY ExactNext
<1>. QED  BY <1>1, ExactInit, PTL DEF Spec

(* The recovery theorem.  For WCC, on every graph, with every checkpoint   *)
(* interval, and through any number of crashes and resubmissions: as long  *)
(* as no checkpoint is opened twice, a running attempt has the stores and  *)
(* the messages in flight of an undisturbed run, so recovery neither loses *)
(* nor repeats a superstep.                                                *)
THEOREM RecoveryExact == Algorithm = "wcc" => (Spec => []RecoveredExact)
<1>1. ExactIndInv => RecoveredExact
  BY DEF ExactIndInv
<1>. QED  BY <1>1, ExactAlways, PTL

(* A published checkpoint that was not opened yet is a snapshot of an      *)
(* undisturbed run at a superstep boundary, of all workers and with the    *)
(* messages in flight there, whatever attempts failed before or since.     *)
THEOREM SnapshotExact == Algorithm = "wcc" => (Spec => []PublishedPristine)
<1>1. ExactIndInv => PublishedPristine
  BY DEF ExactIndInv
<1>. QED  BY <1>1, ExactAlways, PTL

----------------------------------------------------------------------------
(* The reference run, by induction over its supersteps: its stores are the *)
(* partitions that were loaded.                                            *)
LEMMA RefShape ==
  \A k \in 0 .. MaxIterations : \A w \in Worker : IsPartition(Ref[k].db[w], w)
<1> DEFINE Good == {k \in Nat : \A w \in Worker : IsPartition(Ref[k].db[w], w)}
<1>1. 0 \in Good
  BY LoadedShape, RefAssumption
<1>2. ASSUME NEW k \in 0 .. MaxIterations, k \in Good, k + 1 \in 0 .. MaxIterations
      PROVE  k + 1 \in Good
  <2>1. k + 1 \in Iteration /\ (k + 1) - 1 = k
    BY <1>2, BoundsAssumption DEF Iteration
  <2>2. Ref[k + 1] = Round(Ref[k], k + 1)
    BY <2>1, RefAssumption
  <2>3. \A w \in Worker : IsPartition(Ref[k].db[w], w)
    BY <1>2
  <2>. QED  BY <2>1, <2>2, <2>3, RoundShape DEF Iteration
<1> HIDE DEF Good
<1>3. 0 .. MaxIterations \subseteq Good
  BY <1>1, <1>2, BoundsAssumption, IntervalInduction
<1>. QED  BY <1>3 DEF Good

(* A WCC round on labels and messages that are numbers yields such. *)
LEMMA WccRoundType ==
  ASSUME Algorithm = "wcc",
         NEW s, NEW k,
         \A w \in Worker : IsPartition(s.db[w], w),
         k # 1 => \A w \in Worker : \A v \in DOMAIN s.db[w].vertices :
                    s.db[w].vertices[v] \in Nat,
         \A e \in DOMAIN s.mail : s.mail[e] \in Nat
  PROVE  /\ \A w \in Worker : \A v \in DOMAIN Round(s, k).db[w].vertices :
              Round(s, k).db[w].vertices[v] \in Nat
         /\ \A e \in DOMAIN Round(s, k).mail : Round(s, k).mail[e] \in Nat
<1> DEFINE in(w) == RouteTo(s.mail, Part, w)
           r == [w \in Worker |->
                   ProcessSuperstep(s.db[w], in(w), s.teleport[w], k)]
           sent == UNION {DOMAIN r[w].outbox : w \in Worker}
<1>1. \A w \in Worker : \A e \in DOMAIN in(w) : in(w)[e] \in Nat
  BY DEF RouteTo, Restrict
<1>2. \A w \in Worker : DOMAIN s.db[w].vertices \subseteq Nat
  BY InputAssumption DEF IsPartition, Loaded, Restrict
<1>3. /\ \A w \in Worker : Round(s, k).db[w] = r[w].db
      /\ Round(s, k).mail = [e \in sent |-> r[Part[e.src]].outbox[e]]
  BY DEF Round
<1>4. ASSUME NEW w \in Worker
      PROVE  /\ \A v \in DOMAIN r[w].db.vertices : r[w].db.vertices[v] \in Nat
             /\ \A e \in DOMAIN r[w].outbox : r[w].outbox[e] \in Nat
             /\ DOMAIN r[w].outbox \subseteq s.db[w].edges
  <2>1. r[w] = ProcessSuperstep(s.db[w], in(w), s.teleport[w], k)
    OBVIOUS
  <2> HIDE DEF in, r
  <2>2. DOMAIN r[w].outbox \subseteq s.db[w].edges
    BY <2>1, SuperstepShape
  <2>. QED  BY <1>1, <1>2, <2>1, <2>2, SuperstepType
<1> HIDE DEF r
<1>5. ASSUME NEW e \in sent
      PROVE  Part[e.src] \in Worker /\ e \in DOMAIN r[Part[e.src]].outbox
  <2>1. PICK w \in Worker : e \in DOMAIN r[w].outbox
    OBVIOUS
  <2>2. e \in Loaded(w).edges
    BY <1>4, <2>1 DEF IsPartition
  <2>. QED  BY <2>1, <2>2 DEF Loaded
<1> HIDE DEF sent
<1>. QED  BY <1>3, <1>4, <1>5

(* Labels and messages of the reference run of WCC are numbers. *)
LEMMA RefType ==
  ASSUME Algorithm = "wcc"
  PROVE  \A k \in Iteration :
           /\ \A w \in Worker : \A v \in DOMAIN Ref[k].db[w].vertices :
                Ref[k].db[w].vertices[v] \in Nat
           /\ \A e \in DOMAIN Ref[k].mail : Ref[k].mail[e] \in Nat
<1> DEFINE Good == {k \in Nat :
                      /\ k # 0 => \A w \in Worker :
                                    \A v \in DOMAIN Ref[k].db[w].vertices :
                                      Ref[k].db[w].vertices[v] \in Nat
                      /\ \A e \in DOMAIN Ref[k].mail : Ref[k].mail[e] \in Nat}
<1>1. 0 \in Good
  BY RefAssumption DEF NoMail
<1>2. ASSUME NEW k \in 0 .. MaxIterations, k \in Good, k + 1 \in 0 .. MaxIterations
      PROVE  k + 1 \in Good
  <2>1. k + 1 \in Iteration /\ (k + 1) - 1 = k /\ (k + 1 # 1 => k # 0)
    BY <1>2, BoundsAssumption DEF Iteration
  <2>2. Ref[k + 1] = Round(Ref[k], k + 1)
    BY <2>1, RefAssumption
  <2>3. \A w \in Worker : IsPartition(Ref[k].db[w], w)
    BY RefShape
  <2>4. /\ k + 1 # 1 => \A w \in Worker : \A v \in DOMAIN Ref[k].db[w].vertices :
                          Ref[k].db[w].vertices[v] \in Nat
        /\ \A e \in DOMAIN Ref[k].mail : Ref[k].mail[e] \in Nat
    BY <1>2, <2>1
  <2>5. /\ \A w \in Worker : \A v \in DOMAIN Ref[k + 1].db[w].vertices :
             Ref[k + 1].db[w].vertices[v] \in Nat
        /\ \A e \in DOMAIN Ref[k + 1].mail : Ref[k + 1].mail[e] \in Nat
    BY <2>2, <2>3, <2>4, WccRoundType
  <2>. QED  BY <2>5
<1> HIDE DEF Good
<1>3. 0 .. MaxIterations \subseteq Good
  BY <1>1, <1>2, BoundsAssumption, IntervalInduction
<1>. QED  BY <1>3, BoundsAssumption DEF Good, Iteration

(* A WCC round after the first that starts without messages changes no     *)
(* label and sends nothing.                                                *)
LEMMA WccRoundQuiet ==
  ASSUME Algorithm = "wcc",
         NEW s, NEW k, k # 1,
         \A w \in Worker : IsPartition(s.db[w], w),
         \A w \in Worker : \A v \in DOMAIN s.db[w].vertices :
           s.db[w].vertices[v] \in Nat,
         s.mail = NoMail
  PROVE  /\ \A w \in Worker : \A v \in DOMAIN s.db[w].vertices :
              Round(s, k).db[w].vertices[v] = s.db[w].vertices[v]
         /\ Round(s, k).mail = NoMail
<1> DEFINE in(w) == RouteTo(s.mail, Part, w)
           r == [w \in Worker |->
                   ProcessSuperstep(s.db[w], in(w), s.teleport[w], k)]
           sent == UNION {DOMAIN r[w].outbox : w \in Worker}
<1>1. \A w \in Worker : DOMAIN in(w) = {}
  BY DEF RouteTo, Restrict, NoMail
<1>2. ASSUME NEW w \in Worker
      PROVE  /\ \A v \in DOMAIN s.db[w].vertices :
                  r[w].db.vertices[v] = s.db[w].vertices[v]
             /\ DOMAIN r[w].outbox = {}
  <2>1. r[w] = ProcessSuperstep(s.db[w], in(w), s.teleport[w], k)
    OBVIOUS
  <2> HIDE DEF in, r
  <2>. QED  BY <1>1, <2>1, SuperstepQuiet
<1>3. /\ \A w \in Worker : Round(s, k).db[w] = r[w].db
      /\ Round(s, k).mail = [e \in sent |-> r[Part[e.src]].outbox[e]]
  BY DEF Round
<1> HIDE DEF r
<1>4. sent = {}
  BY <1>2
<1>. QED  BY <1>2, <1>3, <1>4 DEF NoMail

(* The superstep at which an undisturbed run ends: either the budget is    *)
(* spent or no message is in flight, and no earlier superstep is such.     *)
LEMMA FinalIsFirst ==
  /\ FinalIteration \in 0 .. MaxIterations
  /\ FinalIteration = MaxIterations
       \/ (FinalIteration \in Iteration /\ Ref[FinalIteration].mail = NoMail)
  /\ \A k \in Iteration : Ref[k].mail = NoMail => FinalIteration <= k
<1> DEFINE Ends == {MaxIterations} \cup {k \in Iteration : Ref[k].mail = NoMail}
<1>1. Ends \subseteq Nat /\ Ends # {} /\ MaxIterations \in Ends
  BY BoundsAssumption DEF Iteration
<1>2. FinalIteration = Min(Ends)
  BY DEF FinalIteration
<1> HIDE DEF Ends
<1>3. FinalIteration \in Ends /\ \A k \in Ends : FinalIteration <= k
  BY <1>1, <1>2, MinIsLeast
<1>4. FinalIteration \in Nat
  BY <1>1, <1>3
<1>5. FinalIteration <= MaxIterations
  BY <1>1, <1>3
<1>6. FinalIteration \in 0 .. MaxIterations
  BY <1>4, <1>5, BoundsAssumption
<1>7. \/ FinalIteration = MaxIterations
      \/ FinalIteration \in Iteration /\ Ref[FinalIteration].mail = NoMail
  BY <1>3 DEF Ends
<1>8. \A k \in Iteration : Ref[k].mail = NoMail => FinalIteration <= k
  BY <1>3 DEF Ends
<1>. QED  BY <1>6, <1>7, <1>8

(* After that superstep no label of the reference run changes. *)
LEMMA RefSettled ==
  ASSUME Algorithm = "wcc"
  PROVE  \A k \in FinalIteration .. MaxIterations :
           \A w \in Worker : \A v \in DOMAIN Loaded(w).vertices :
             Ref[k].db[w].vertices[v] = Ref[FinalIteration].db[w].vertices[v]
<1> DEFINE F == FinalIteration
           Good == {k \in Nat :
                      /\ \A w \in Worker : \A v \in DOMAIN Loaded(w).vertices :
                           Ref[k].db[w].vertices[v] = Ref[F].db[w].vertices[v]
                      /\ Ref[k].mail = NoMail}
<1>1. CASE F = MaxIterations
  BY <1>1, FinalIsFirst
<1>2. CASE F \in Iteration /\ Ref[F].mail = NoMail
  <2>1. F \in Good /\ F \in Nat
    BY <1>2 DEF Iteration
  <2>2. ASSUME NEW k \in F .. MaxIterations, k \in Good, k + 1 \in F .. MaxIterations
        PROVE  k + 1 \in Good
    <3>1. /\ k \in Iteration /\ k + 1 \in Iteration /\ k \in 0 .. MaxIterations
          /\ (k + 1) - 1 = k /\ k + 1 # 1 /\ k + 1 \in Nat
      BY <1>2, <2>2, BoundsAssumption DEF Iteration
    <3>2. Ref[k + 1] = Round(Ref[k], k + 1)
      BY <3>1, RefAssumption
    <3>3. \A w \in Worker : IsPartition(Ref[k].db[w], w)
      BY <3>1, RefShape
    <3>4. \A w \in Worker : \A v \in DOMAIN Ref[k].db[w].vertices :
            Ref[k].db[w].vertices[v] \in Nat
      BY <3>1, RefType
    <3>5. Ref[k].mail = NoMail
      BY <2>2
    <3>6. /\ \A w \in Worker : \A v \in DOMAIN Ref[k].db[w].vertices :
               Ref[k + 1].db[w].vertices[v] = Ref[k].db[w].vertices[v]
          /\ Ref[k + 1].mail = NoMail
      BY <3>1, <3>2, <3>3, <3>4, <3>5, WccRoundQuiet
    <3>7. \A w \in Worker : DOMAIN Ref[k].db[w].vertices = DOMAIN Loaded(w).vertices
      BY <3>3 DEF IsPartition
    <3>. QED  BY <2>2, <3>1, <3>6, <3>7
  <2> HIDE DEF Good, F
  <2>3. F .. MaxIterations \subseteq Good
    BY <2>1, <2>2, BoundsAssumption, IntervalInduction
  <2>. QED  BY <2>3 DEF Good, F
<1>. QED  BY <1>1, <1>2, FinalIsFirst

(* The inductive invariant of results: an attempt that fetches has reached *)
(* the end of an undisturbed run or gone beyond it.                        *)
FetchInv ==
  /\ phase = "fetch" => executed >= MaxIterations
                        \/ (executed \in Iteration /\ mail = NoMail)
  /\ NoReopen => ResultExact

ResultIndInv == ExactIndInv /\ FetchInv

(* The labels an attempt fetches are those of an undisturbed run. *)
LEMMA FetchExact ==
  ASSUME Algorithm = "wcc", ExactIndInv, NoReopen, phase = "fetch",
         executed >= MaxIterations \/ (executed \in Iteration /\ mail = NoMail)
  PROVE  \A v \in DOMAIN Input.vertices :
           Open(Part[v]).vertices[v] = Ref[FinalIteration].db[Part[v]].vertices[v]
<1>1. executed \in FinalIteration .. MaxIterations
  <2>1. executed \in 0 .. MaxIterations
    BY DEF ExactIndInv, FilesIndInv, TypeOK
  <2>2. executed \in Iteration /\ mail = NoMail => Ref[executed].mail = NoMail
    BY DEF ExactIndInv, RecoveredExact
  <2>. QED  BY <2>1, <2>2, FinalIsFirst, BoundsAssumption
<1>2. \A w \in Worker : Open(w) = Ref[executed].db[w]
  BY DEF ExactIndInv, RecoveredExact
<1>3. \A v \in DOMAIN Input.vertices :
        Part[v] \in Worker /\ v \in DOMAIN Loaded(Part[v]).vertices
  BY InputAssumption DEF Loaded, Restrict
<1>. QED  BY <1>1, <1>2, <1>3, RefSettled

LEMMA ResultNext ==
  ASSUME Algorithm = "wcc"
  PROVE  ResultIndInv /\ [Next]_vars => ResultIndInv'
<1> SUFFICES ASSUME ResultIndInv, [Next]_vars PROVE ResultIndInv'
  OBVIOUS
<1>1. ExactIndInv /\ FetchInv
  BY DEF ResultIndInv
<1>2. ExactIndInv'
  BY <1>1, ExactNext
<1>3. FilesIndInv /\ TypeOK /\ FilesInv /\ FilesIndInv' /\ TypeOK'
  BY <1>1, <1>2 DEF ExactIndInv, FilesIndInv
<1>4. NoReopen' => NoReopen
  BY <1>3, NoReopenBefore
<1>5. (phase = "fetch" => executed >= MaxIterations
                          \/ (executed \in Iteration /\ mail = NoMail))'
  <2>1. CASE Superstep
    <3>1. executed' \in Iteration
      BY <2>1, <1>3, BoundsAssumption DEF Superstep, TypeOK, Iteration
    <3>. QED  BY <2>1, <3>1 DEF Superstep, AfterIteration
  <2>2. CASE WriteLatest
    BY <2>2, <1>3 DEF WriteLatest, AfterIteration, FilesInv
  <2>3. CASE BudgetSpent
    BY <2>3, <1>3 DEF BudgetSpent
  <2>4. CASE Start \/ Recover \/ RecoverFails
    BY <2>4 DEF Start, Recover, RecoverFails, Submitted
  <2>5. CASE WriteInboxes \/ TruncateLatest \/ Finish \/ Crash
    BY <2>5 DEF WriteInboxes, TruncateLatest, Finish, Crash
  <2>6. CASE \/ \E S \in SUBSET Worker : SuperstepFails(S)
             \/ \E w \in Worker : CreateCheckpoint(w) \/ CreateCheckpointFails(w)
    BY <2>6 DEF SuperstepFails, CreateCheckpoint, CreateCheckpointFails
  <2>7. CASE UNCHANGED vars
    BY <2>7, <1>1 DEF vars, volatile, FetchInv
  <2>. QED  BY <2>1, <2>2, <2>3, <2>4, <2>5, <2>6, <2>7 DEF Next
<1>6. NoReopen' => ResultExact'
  <2> SUFFICES ASSUME NoReopen' PROVE ResultExact'
    OBVIOUS
  <2>1. NoReopen /\ ResultExact
    BY <1>1, <1>4 DEF FetchInv
  <2>2. CASE Finish
    <3>1. phase = "fetch"
      BY <2>2 DEF Finish
    <3>2. \A v \in DOMAIN Input.vertices :
            Open(Part[v]).vertices[v] = Ref[FinalIteration].db[Part[v]].vertices[v]
      BY <1>1, <2>1, <3>1, FetchExact DEF FetchInv
    <3>3. result' = [v \in DOMAIN Input.vertices |-> Open(Part[v]).vertices[v]]
      BY <2>2 DEF Finish
    <3>4. result' = VerticesOf(Ref[FinalIteration].db)
      BY <3>2, <3>3 DEF VerticesOf
    <3>. QED  BY <3>4 DEF ResultExact
  <2>3. CASE result' = result \/ result' = NoResult
    BY <2>1, <2>3 DEF ResultExact
  <2>4. Finish \/ result' = result \/ result' = NoResult
    BY DEF Next, Start, Recover, RecoverFails, Submitted, Superstep, SuperstepFails,
           BudgetSpent, CreateCheckpoint, CreateCheckpointFails, WriteInboxes,
           TruncateLatest, WriteLatest, Crash, vars
  <2>. QED  BY <2>2, <2>3, <2>4
<1>. QED  BY <1>2, <1>5, <1>6 DEF ResultIndInv, FetchInv

(* For WCC, whatever attempts crashed, failed or were resubmitted: as long *)
(* as no checkpoint is opened twice, an attempt that returns, returns the  *)
(* labels of an undisturbed run.  It is not only that nothing is lost: a   *)
(* recovery from a checkpoint of the last iteration, which finds no        *)
(* messages, runs one superstep more than an undisturbed run, and that     *)
(* superstep changes nothing (CycleScheduler::run, fetch_vertices).        *)
THEOREM ResultsExact == Algorithm = "wcc" => (Spec => []ResultExactUnlessReopened)
<1> SUFFICES ASSUME Algorithm = "wcc" PROVE Spec => []ResultExactUnlessReopened
  OBVIOUS
<1>1. Init => ResultIndInv
  BY ExactInit DEF Init, ResultIndInv, FetchInv, ResultExact
<1>2. ResultIndInv /\ [Next]_vars => ResultIndInv'
  BY ResultNext
<1>3. ResultIndInv => ResultExactUnlessReopened
  BY DEF ResultIndInv, FetchInv, ResultExactUnlessReopened
<1>. QED  BY <1>1, <1>2, <1>3, PTL DEF Spec

============================================================================
