------------------------- MODULE ClusterDataProofs -------------------------
(***************************************************************************)
(* Theorems of Cluster about what is in the frames and on the disks, the   *)
(* invariant of ClusterProofs saying which frames are on their way.  The   *)
(* first part is about the values of the vertices: what a job returns and  *)
(* what a checkpoint holds.  The second part adds edges and messages, and  *)
(* shows that the rounds of a job are the supersteps of Bsp.               *)
(***************************************************************************)
EXTENDS ClusterProofs, VertexProgramProofs

IsMapOn(f, S) == f = [x \in S |-> f[x]]

(* The vertices of w, and their values after the last completed round. *)
Own(w) == {v \in DOMAIN Input.vertices : Part[v] = w}

Value(w) == Restrict(committed, Own(w))

Loaded(w) == Restrict(Input.vertices, Own(w))

Loading(w, i) == toWorker[w][i].type = "LoadGraph"

HasLoad(w) == ~Gone(w) /\ \E i \in 1 .. Len(toWorker[w]) : Loading(w, i)

Streams(w, i) == toWorker[w][i].type = "LoadGraphBatch"

(* Since the graph was loaded the driver has not heard from w.             *)
Unheard(w) ==
  /\ toDriver[w] = << >> /\ workerState[w] # "emitting" /\ ~Streaming
  /\ \/ phase = "load" /\ w < turn
     \/ phase \in {"algorithm", "restore", "round", "send", "fetch"}
     \/ phase \in {"restored", "receive", "collect"} /\ w >= turn
  /\ Unrecovered \/ Value(w) = Loaded(w)
  /\ phase \in Rounds => computed[w] # iteration

NoStrays(w) ==
  /\ IsMap(store[w].vertices)
  /\ DOMAIN store[w].vertices \subseteq Own(w)

(* Where a vertex of w is while a graph is streamed. *)
Streamed(w) ==
  \A v \in Own(w) :
    \/ v \in DOMAIN unloaded.vertices
    \/ v \in DOMAIN store[w].vertices /\ store[w].vertices[v] = Input.vertices[v]
    \/ /\ phase = "loaded" /\ w = turn /\ toDriver[w] = << >>
       /\ \/ Gone(w)
          \/ \E i \in 1 .. Len(toWorker[w]) :
               Streams(w, i) /\ v \in DOMAIN toWorker[w][i].graph.vertices

Right(w) ==
  IF phase \in Rounds /\ computed[w] = iteration
    THEN IsMapOn(store[w].vertices, Own(w))
    ELSE store[w].vertices = Value(w)

Begin == {"connect", "handshake", "stream", "loaded"}

BeforeLoad(w) == phase \in Begin \/ (phase = "load" /\ w >= turn)

Restored(w) ==
  /\ phase \in {"restore", "restored"}
  /\ \/ \E i \in 1 .. Len(toDriver[w]) : toDriver[w][i].type = "CheckpointLoaded"
     \/ phase = "restored" /\ w < turn

StoreOK(w) ==
  /\ BeforeLoad(w) => NoStrays(w)
  /\ phase \in Begin => Streamed(w)
  /\ Unrecovered /\ Restored(w) => store[w].vertices = Value(w)
  /\ ~Unrecovered /\ ~BeforeLoad(w) =>
       Right(w) \/ (Unheard(w) /\ (Gone(w) \/ (NoStrays(w) /\ HasLoad(w))))

QueueOK(w) ==
  /\ Gone(w) \/ \A i \in 1 .. Len(toWorker[w]) :
       /\ Loading(w, i) => toWorker[w][i].graph.vertices = Loaded(w)
       /\ Streams(w, i) => Within(toWorker[w][i].graph.vertices, Loaded(w))
  /\ HasLoad(w) => Unheard(w)

(* w's part of the checkpoint of the last round. *)
Cut(w) ==
  /\ iteration - 1 \in DOMAIN images[w]
  /\ images[w][iteration - 1].vertices = Value(w)

AnswersOK(w) ==
  /\ \A i \in 1 .. Len(toDriver[w]) :
       /\ toDriver[w][i].type \in {"Vertices", "VerticesDumped"} =>
            toDriver[w][i].vertices = Value(w)
       /\ toDriver[w][i].type = "CheckpointCreated" => Cut(w)
  /\ phase = "checkpointed" /\ w < turn => Cut(w)

OutOK(w) ==
  outbox[w] # NoMail =>
    /\ phase \in Rounds /\ Owes(w)
    /\ \A i \in 1 .. Len(toDriver[w]) : ~toDriver[w][i].last

DataOK(w) == StoreOK(w) /\ QueueOK(w) /\ AnswersOK(w) /\ OutOK(w)

Collected ==
  IF phase \in {"collect", "dump", "dumped"}
    THEN result = Restrict(committed, {v \in DOMAIN committed : Part[v] < turn})
  ELSE IF phase \in {"shutdown", "done"} THEN result = committed
  ELSE result = NoMail

Common ==
  /\ DOMAIN store = Worker /\ DOMAIN outbox = Worker
  /\ IsMapOn(committed, DOMAIN Input.vertices)
  /\ inboxes = OwnInboxes /\ saved.inboxes = OwnInboxes
  /\ phase \in {"restore", "restored"} => Interval > 0 /\ saved.iteration > 0
  /\ phase \in {"stream", "loaded", "seal", "sealed", "dump", "dumped"} => Streaming
  /\ phase \in {"load", "restore", "restored", "fetch", "collect"} => ~Streaming
  /\ phase \in Early \cup {"algorithm"} =>
       Unrecovered \/ committed = Input.vertices
  /\ Unrecovered =>
       \A w \in Worker : /\ saved.iteration \in DOMAIN images[w]
                         /\ images[w][saved.iteration].vertices = Value(w)
  /\ Within(unloaded.vertices, Input.vertices)
  /\ phase \in {"connect", "handshake"} => unloaded = Input

DataInv == Common /\ Collected /\ \A w \in Worker : DataOK(w)

----------------------------------------------------------------------------
(* Maps.                                                                   *)
LEMMA EmptyMap ==
  /\ \A f : IsMap(f) /\ DOMAIN f = {} => f = NoMail
  /\ \A f : Restrict(f, {}) = NoMail
  /\ DOMAIN NoMail = {}
<1>1. /\ DOMAIN NoMail = {}
      /\ NoMail = [x \in DOMAIN NoMail |-> NoMail[x]]
  <2>1. << >> \in Seq({}) /\ Len(<< >>) = 0
    BY EmptySeq
  <2>2. << >> \in [1 .. 0 -> {}]
    BY <2>1, LenProperties
  <2>. QED  BY <2>2 DEF NoMail
<1>2. ASSUME NEW f, IsMap(f), DOMAIN f = {} PROVE f = NoMail
  BY <1>1, <1>2 DEF IsMap
<1>3. ASSUME NEW f PROVE Restrict(f, {}) = NoMail
  BY <1>1 DEF Restrict
<1>. QED  BY <1>1, <1>2, <1>3

LEMMA SameMap ==
  ASSUME NEW f, NEW g, IsMap(f), IsMap(g), DOMAIN f = DOMAIN g,
         \A x \in DOMAIN f : f[x] = g[x]
  PROVE  f = g
BY DEF IsMap

(* The partitions.                                                         *)
LEMMA Partitions ==
  ASSUME NEW w
  PROVE  /\ PartitionOf(w).vertices = Loaded(w)
         /\ IsMap(Loaded(w)) /\ DOMAIN Loaded(w) = Own(w)
         /\ \A v \in Own(w) : Loaded(w)[v] = Input.vertices[v]
         /\ IsMap(Value(w)) /\ DOMAIN Value(w) = Own(w)
         /\ \A v \in Own(w) : Value(w)[v] = committed[v]
         /\ committed = Input.vertices => Value(w) = Loaded(w)
BY DEF PartitionOf, ShareOf, Loaded, Own, Value, Restrict, IsMap

(* Storing all of a partition leaves nothing else there ...                *)
LEMMA LoadsAll ==
  ASSUME NEW w, NEW x, DOMAIN x \subseteq Own(w)
  PROVE  Merge(x, Loaded(w)) = Loaded(w)
<1>1. /\ IsMap(Loaded(w)) /\ DOMAIN Loaded(w) = Own(w)
  BY Partitions
<1>2. DOMAIN Merge(x, Loaded(w)) = Own(w) /\ IsMap(Merge(x, Loaded(w)))
  BY <1>1 DEF Merge, IsMap
<1>3. \A v \in Own(w) : Merge(x, Loaded(w))[v] = Loaded(w)[v]
  BY <1>1 DEF Merge
<1>. QED  BY <1>1, <1>2, <1>3, SameMap

(* ... and storing a part of what is there changes nothing.                *)
LEMMA StoresAgain ==
  ASSUME NEW f, NEW b, IsMap(f), Within(b, f)
  PROVE  Merge(f, b) = f
<1>1. IsMap(Merge(f, b)) /\ DOMAIN Merge(f, b) = DOMAIN f
  BY DEF Merge, IsMap, Within
<1>2. \A x \in DOMAIN f : Merge(f, b)[x] = f[x]
  BY DEF Merge, Within
<1>. QED  BY <1>1, <1>2, SameMap

(* A superstep keeps the vertices there are.                               *)
LEMMA SuperstepKeeps ==
  ASSUME NEW db, NEW m, NEW t, NEW k
  PROVE  LET f == ProcessSuperstep(db, m, t, k).db.vertices
         IN  IsMap(f) /\ DOMAIN f = DOMAIN db.vertices
<1> DEFINE out(v) == {e \in db.edges : e.src = v}
           value(v) == ComputeVertex(v, db.vertices[v], Cardinality(out(v)),
                                     MailOf(m, v), TeleportAt(db.vertices, t, v), k)
           results == [v \in DOMAIN db.vertices |-> value(v)]
<1>1. ProcessSuperstep(db, m, t, k).db.vertices
        = [v \in DOMAIN db.vertices |-> results[v].value]
  BY DEF ProcessSuperstep
<1> HIDE DEF results
<1>. QED  BY <1>1 DEF IsMap

----------------------------------------------------------------------------
(* The steps of the driver, as far as they concern the values: how it goes *)
(* from one phase to another, ...                                          *)
Same == UNCHANGED <<iteration, inboxes, saved, committed>>

Heard ==
  /\ toDriver[turn] # << >> /\ toDriver'[turn] = Tail(toDriver[turn])
  /\ phase \in DOMAIN Expected /\ Head(toDriver[turn]).type = Expected[phase]

GoesOn ==
  /\ Same
  /\ \/ /\ phase' = phase /\ turn' = turn /\ UNCHANGED <<unloaded, result>>
        /\ phase # "receive" => toDriver' = toDriver
        /\ phase # "send" => toWorker' = toWorker
     \/ /\ turn \in Worker /\ UNCHANGED <<unloaded, result>>
        /\ \/ phase = "connect" /\ phase' = "handshake" /\ turn' = turn
           \/ /\ phase \in {"load", "algorithm", "restore", "checkpoint", "fetch",
                            "shutdown", "send"}
              /\ phase' = phase /\ turn' = turn + 1
           \/ phase = "seal" /\ phase' = "sealed" /\ turn' = turn
           \/ phase = "dump" /\ phase' = "dumped" /\ turn' = turn
     \/ /\ turn \in Worker /\ Heard /\ UNCHANGED <<unloaded, result>>
        /\ \/ phase = "handshake" /\ phase' = "connect" /\ turn' = turn + 1
           \/ /\ phase = "receive" /\ Head(toDriver[turn]).last
              /\ phase' = phase /\ turn' = turn + 1
           \/ /\ phase \in {"checkpointed", "restored"}
              /\ phase' = phase /\ turn' = turn + 1
           \/ phase = "loaded" /\ phase' = "stream" /\ turn' = 1
           \/ phase = "sealed" /\ phase' = "seal" /\ turn' = turn + 1
     \/ /\ turn \in Worker /\ Heard /\ UNCHANGED unloaded /\ turn' = turn + 1
        /\ result' = Merge(result, Head(toDriver[turn]).vertices)
        /\ \/ phase = "collect" /\ phase' = "collect"
           \/ phase = "dumped" /\ phase' = "dump"
     \/ /\ phase = "stream" /\ phase' = "loaded" /\ turn' \in Worker
        /\ UNCHANGED result

Turns ==
  /\ turn' = 1 /\ UNCHANGED <<toWorker, toDriver, workerState, unloaded, result>>
  /\ \/ /\ Same
        /\ \/ /\ phase = "stream" /\ phase' = "seal"
              /\ unloaded = [vertices |-> NoMail, edges |-> {}]
           \/ phase = "round" /\ phase' \in {"send", Collecting}
           \/ /\ turn > N \/ (phase = "send" /\ turn > inboxes.count)
              /\ phase \in DOMAIN Successor /\ phase' = Successor[phase]
     \/ /\ phase = "receive" /\ turn > N
        /\ phase' \in {"checkpoint", "round", Collecting}
        /\ UNCHANGED saved /\ iteration' = iteration + 1 /\ inboxes' = OwnInboxes
     \/ /\ phase = "checkpointed" /\ turn > N /\ phase' \in {"round", Collecting}
        /\ UNCHANGED <<iteration, inboxes, committed>>
        /\ saved'.iteration = iteration - 1 /\ saved'.inboxes = inboxes
     \/ /\ phase = "restored" /\ turn > N /\ phase' = "round"
        /\ UNCHANGED <<saved, committed>> /\ inboxes' = saved.inboxes

(* ... and what it does to the connection with w.                          *)
Puts(w) ==
  \/ toWorker'[w] = toWorker[w]
  \/ /\ ~Gone(w)
     /\ \E f : /\ toWorker'[w] = Append(toWorker[w], f)
               /\ f.type = "LoadGraph" =>
                    /\ phase = "load" /\ phase' = "load" /\ w = turn /\ turn' = turn + 1
                    /\ f.graph.vertices = Loaded(w)
               /\ f.type = "LoadGraphBatch" =>
                    /\ phase' \in {"loaded", "sealed"} /\ turn' = w
                    /\ Within(f.graph.vertices, unloaded.vertices)
                    /\ \A v \in DOMAIN f.graph.vertices : v \in Own(w)

Takes(w) ==
  \/ toDriver'[w] = toDriver[w]
  \/ /\ w = turn /\ toDriver[w] # << >> /\ toDriver'[w] = Tail(toDriver[w])
     /\ phase \in DOMAIN Expected /\ Head(toDriver[w]).type = Expected[phase]

Stays(w) ==
  /\ Gone(w)' <=> Gone(w)
  /\ workerState'[w] = "emitting" <=> workerState[w] = "emitting"

DriverMoves ==
  /\ GoesOn \/ Turns
  /\ \A w \in Worker : Puts(w) /\ Takes(w) /\ Stays(w)
  /\ UNCHANGED <<workerVars, found>>

(* A streamed batch: what it holds is not left to be sent.                 *)
LEMMA BatchSent ==
  ASSUME Common, StreamBatch
  PROVE  \E u \in Worker : \E g :
           /\ SendGraphBatch(u, g, FALSE) /\ phase = "stream"
           /\ Within(g.vertices, unloaded.vertices)
           /\ \A v \in DOMAIN g.vertices : v \in Own(u)
           /\ unloaded'.vertices = Restrict(unloaded.vertices,
                                      DOMAIN unloaded.vertices \ DOMAIN g.vertices)
<1>. DEFINE Graph(batch) ==
       IF unloaded.vertices # NoMail
         THEN [vertices |-> Restrict(unloaded.vertices, batch), edges |-> {}]
         ELSE [vertices |-> NoMail, edges |-> batch]
<1>1. PICK u \in Worker :
        \E batch \in IF FileRead THEN {Unread(u)} ELSE kSubset(LoadEntries, Unread(u)) :
          /\ SendGraphBatch(u, Graph(batch), FALSE)
          /\ unloaded' = [ vertices |-> Restrict(unloaded.vertices,
                                          DOMAIN unloaded.vertices
                                            \ DOMAIN Graph(batch).vertices),
                           edges    |-> unloaded.edges \ Graph(batch).edges ]
  BY DEF StreamBatch
<1>2. PICK batch \in IF FileRead THEN {Unread(u)} ELSE kSubset(LoadEntries, Unread(u)) :
        /\ SendGraphBatch(u, Graph(batch), FALSE)
        /\ unloaded' = [ vertices |-> Restrict(unloaded.vertices,
                                        DOMAIN unloaded.vertices
                                          \ DOMAIN Graph(batch).vertices),
                         edges    |-> unloaded.edges \ Graph(batch).edges ]
  BY <1>1
<1>3. batch \subseteq Unread(u)
  BY <1>2 DEF kSubset
<1>4. PICK g : g = Graph(batch)
  OBVIOUS
<1>5. /\ Within(g.vertices, unloaded.vertices)
      /\ \A v \in DOMAIN g.vertices : v \in Own(u)
  <2>1. CASE unloaded.vertices = NoMail
    BY <2>1, <1>4, EmptyMap DEF Within
  <2>2. CASE unloaded.vertices # NoMail
    <3>1. g.vertices = Restrict(unloaded.vertices, batch)
      BY <2>2, <1>4
    <3>2. batch \subseteq {v \in DOMAIN unloaded.vertices : Part[v] = u}
      BY <2>2, <1>3 DEF Unread, ShareOf, Restrict
    <3>. QED  BY <3>1, <3>2 DEF Restrict, Within, Common, Own
  <2>. QED  BY <2>1, <2>2
<1>6. phase = "stream"
  BY DEF StreamBatch, At
<1>. HIDE DEF Graph
<1>. QED  BY <1>2, <1>4, <1>5, <1>6

LEMMA DriverFrame ==
  ASSUME IndInv, Common, DriverActs
  PROVE  DriverMoves
<1>1. DriverStep /\ UNCHANGED <<workerVars, found>>
  BY DEF DriverActs
<1>2. /\ turn \in 1 .. (N + 1) /\ (turn <= N => turn \in Worker)
      /\ ~(turn <= N /\ turn > N)
      /\ DOMAIN toWorker = Worker /\ DOMAIN toDriver = Worker
      /\ DOMAIN workerState = Worker
  BY SizeAssumption DEF IndInv, Shape, Worker
<1>3. ~(phase = "receive" /\ turn > N) => committed' = committed
  BY DEF DriverActs
<1>4. UNCHANGED <<toWorker, toDriver, workerState>> =>
        \A w \in Worker : Puts(w) /\ Takes(w) /\ Stays(w)
  BY DEF Puts, Takes, Stays, Gone
<1>5. ASSUME NEW u \in Worker, NEW f, DriverSends(u, f), UNCHANGED <<toDriver, workerState>>,
             f.type = "LoadGraph" =>
               /\ phase = "load" /\ phase' = "load" /\ u = turn /\ turn' = turn + 1
               /\ f.graph.vertices = Loaded(u),
             f.type = "LoadGraphBatch" =>
               /\ phase' \in {"loaded", "sealed"} /\ turn' = u
               /\ Within(f.graph.vertices, unloaded.vertices)
               /\ \A v \in DOMAIN f.graph.vertices : v \in Own(u)
      PROVE  \A w \in Worker : Puts(w) /\ Takes(w) /\ Stays(w)
  <2>1. \/ toWorker' = toWorker
        \/ ~Gone(u) /\ toWorker' = [toWorker EXCEPT ![u] = Append(@, f)]
    BY <1>5 DEF DriverSends, Gone
  <2>2. \A w \in Worker : Puts(w)
    BY <2>1, <1>2, <1>5 DEF Puts
  <2>. QED  BY <2>2, <1>5 DEF Takes, Stays, Gone
<1>6. ASSUME turn \in Worker, UNCHANGED <<toWorker, workerState>>, toDriver[turn] # << >>,
             DriverTakes(turn), phase \in DOMAIN Expected,
             Head(toDriver[turn]).type = Expected[phase]
      PROVE  \A w \in Worker : Puts(w) /\ Takes(w) /\ Stays(w)
  BY <1>2, <1>6 DEF DriverTakes, Puts, Takes, Stays, Gone
<1>7. CASE Connect
  <2>1. turn \in Worker /\ GoesOn
    BY <1>2, <1>3, <1>7 DEF Connect, At, GoesOn, Same
  <2>2. \A w \in Worker : Puts(w) /\ Takes(w) /\ Stays(w)
    BY <1>2, <1>7 DEF Connect, Puts, Takes, Stays, Gone, channels
  <2>. QED  BY <2>1, <2>2, <1>1 DEF DriverMoves
<1>8. CASE DriverFails
  <2>1. GoesOn
    BY <1>2, <1>3, <1>8 DEF DriverFails, driverVars, channels, GoesOn, Same
  <2>. QED  BY <2>1, <1>1, <1>4, <1>8 DEF DriverFails, channels, DriverMoves
<1>9. CASE NextRound \/ StreamEnds \/ NextCall
  <2>1. Turns /\ UNCHANGED <<toWorker, toDriver, workerState>>
    BY <1>2, <1>3, <1>9 DEF NextRound, BeginRound, StreamEnds, NextCall, Goto, Turns, Same,
       At, channels, Successor, RunJobCalls, Graph500Calls
  <2>. QED  BY <2>1, <1>1, <1>4 DEF DriverMoves
<1>10. CASE EndRound \/ Publish \/ Recover
  <2>1. Turns /\ UNCHANGED <<toWorker, toDriver, workerState>>
    BY <1>2, <1>3, <1>10 DEF EndRound, Publish, Recover, AfterRound, Goto, Turns, Through,
       channels
  <2>. QED  BY <2>1, <1>1, <1>4 DEF DriverMoves
<1>11. ASSUME NEW f, DriverSends(turn, f), At(phase), turn' = turn + 1,
              UNCHANGED <<toDriver, driverAlive, workerState, phase, iteration, mail,
                          inboxes, unsent, nextMail, result, unloaded, saved>>,
              phase \in {"load", "algorithm", "restore", "checkpoint", "fetch", "shutdown"},
              f.type # "LoadGraphBatch",
              f.type = "LoadGraph" =>
                phase = "load" /\ f.graph.vertices = Loaded(turn)
       PROVE  DriverMoves
  <2>1. turn \in Worker /\ GoesOn
    BY <1>2, <1>3, <1>11 DEF At, GoesOn, Same
  <2>2. \A w \in Worker : Puts(w) /\ Takes(w) /\ Stays(w)
    <3>1. PICK u \in Worker : u = turn
      BY <2>1
    <3>2. DriverSends(u, f)
      BY <3>1, <1>11
    <3>. QED  BY <3>1, <3>2, <1>5, <1>11
  <2>. QED  BY <2>1, <2>2, <1>1 DEF DriverMoves
<1>12. CASE LoadAll
  <2>1. PICK f : f = [type |-> "LoadGraph", graph |-> PartitionOf(turn)]
    OBVIOUS
  <2>2. f.type = "LoadGraph" /\ f.graph.vertices = Loaded(turn)
    BY <2>1, Partitions
  <2>3. /\ DriverSends(turn, f) /\ At(phase) /\ turn' = turn + 1 /\ phase = "load"
        /\ UNCHANGED <<toDriver, driverAlive, workerState, phase, iteration, mail,
                       inboxes, unsent, nextMail, result, unloaded, saved>>
    BY <1>12, <2>1 DEF LoadAll, SendsToAll, At
  <2>. QED  BY <2>2, <2>3, <1>11
<1>13. ASSUME NEW f, DriverSends(turn, f), At(phase), turn' = turn + 1,
              UNCHANGED <<toDriver, driverAlive, workerState, phase, iteration, mail,
                          inboxes, unsent, nextMail, result, unloaded, saved>>,
              phase \in {"algorithm", "restore", "checkpoint", "fetch", "shutdown"},
              f.type \notin {"LoadGraphBatch", "LoadGraph"}
       PROVE  DriverMoves
  BY <1>11, <1>13
<1>14. CASE SetAlgorithmAll \/ FetchAll \/ ShutdownAll
  <2>1. \E f : /\ DriverSends(turn, f) /\ f.type \notin {"LoadGraphBatch", "LoadGraph"}
               /\ At(phase) /\ turn' = turn + 1
               /\ phase \in {"algorithm", "fetch", "shutdown"}
               /\ UNCHANGED <<toDriver, driverAlive, workerState, phase, iteration, mail,
                              inboxes, unsent, nextMail, result, unloaded, saved>>
    <3>1. CASE SetAlgorithmAll
      BY <3>1 DEF SetAlgorithmAll, SendsToAll, At
    <3>2. CASE FetchAll
      BY <3>2 DEF FetchAll, SendsToAll, At
    <3>3. CASE ShutdownAll
      BY <3>3 DEF ShutdownAll, SendsToAll, At
    <3>. QED  BY <3>1, <3>2, <3>3, <1>14
  <2>. QED  BY <2>1, <1>13
<1>15. CASE LoadCheckpointAll \/ CreateCheckpointAll
  <2>1. \E f : /\ DriverSends(turn, f) /\ f.type \notin {"LoadGraphBatch", "LoadGraph"}
               /\ At(phase) /\ turn' = turn + 1
               /\ phase \in {"restore", "checkpoint"}
               /\ UNCHANGED <<toDriver, driverAlive, workerState, phase, iteration, mail,
                              inboxes, unsent, nextMail, result, unloaded, saved>>
    <3>1. CASE LoadCheckpointAll
      BY <3>1 DEF LoadCheckpointAll, SendsToAll, At
    <3>2. CASE CreateCheckpointAll
      BY <3>2 DEF CreateCheckpointAll, SendsToAll, At
    <3>. QED  BY <3>1, <3>2, <1>15
  <2>. QED  BY <2>1, <1>13
<1>16. CASE SendBatch
  <2>1. turn \in Worker /\ GoesOn
    BY <1>2, <1>3, <1>16 DEF SendBatch, At, GoesOn, Same
  <2>2. PICK u \in Worker : u = turn
    BY <2>1
  <2>3. \E f : f.type = "SuperstepBatch" /\ DriverSends(u, f)
    <3>1. \E i, b, l :
            DriverSends(u, [type |-> "SuperstepBatch", iteration |-> i,
                            inbox |-> b, last |-> l])
      BY <1>16, <2>2 DEF SendBatch
    <3>. QED  BY <3>1
  <2>4. UNCHANGED <<toDriver, workerState>>
    BY <1>16 DEF SendBatch
  <2>. QED  BY <2>1, <2>3, <2>4, <1>1, <1>5 DEF DriverMoves
<1>17. CASE DumpPart
  <2>1. turn \in Worker /\ GoesOn
    BY <1>2, <1>3, <1>17 DEF DumpPart, At, GoesOn, Same
  <2>2. PICK u \in Worker : u = turn
    BY <2>1
  <2>3. PICK f : f = [type |-> "DumpVerticesCsv"]
    OBVIOUS
  <2>4. f.type = "DumpVerticesCsv" /\ DriverSends(u, f) /\ UNCHANGED <<toDriver, workerState>>
    BY <1>17, <2>2, <2>3 DEF DumpPart
  <2>. QED  BY <2>1, <2>4, <1>1, <1>5 DEF DriverMoves
<1>18. ASSUME NEW u \in Worker, NEW g, NEW last, SendGraphBatch(u, g, last), GoesOn,
              Within(g.vertices, unloaded.vertices),
              \A v \in DOMAIN g.vertices : v \in Own(u)
       PROVE  DriverMoves
  <2>1. PICK f : f = [type |-> "LoadGraphBatch", graph |-> g, last |-> last]
    OBVIOUS
  <2>2. f.type = "LoadGraphBatch" /\ f.graph = g
    BY <2>1
  <2>3. /\ DriverSends(u, f) /\ turn' = u /\ phase' \in {"loaded", "sealed"}
        /\ UNCHANGED <<toDriver, workerState>>
    BY <1>18, <2>1 DEF SendGraphBatch
  <2>. QED  BY <2>2, <2>3, <1>1, <1>5, <1>18 DEF DriverMoves
<1>19. CASE SealBatch
  <2>1. PICK u \in Worker : u = turn
    BY <1>2, <1>19 DEF SealBatch, At
  <2>2. PICK g : g = [vertices |-> NoMail, edges |-> {}]
    OBVIOUS
  <2>3. SendGraphBatch(u, g, TRUE) /\ phase = "seal" /\ unloaded' = unloaded
    BY <1>19, <2>1, <2>2 DEF SealBatch, At
  <2>4. GoesOn
    BY <2>1, <2>3, <1>3 DEF SendGraphBatch, GoesOn, Same
  <2>5. DOMAIN g.vertices = {}
    BY <2>2, EmptyMap
  <2>. QED  BY <2>3, <2>4, <2>5, <1>18 DEF Within
<1>20. CASE StreamBatch
  <2>1. PICK u \in Worker : \E g :
          /\ SendGraphBatch(u, g, FALSE) /\ phase = "stream"
          /\ Within(g.vertices, unloaded.vertices)
          /\ \A v \in DOMAIN g.vertices : v \in Own(u)
    BY <1>20, BatchSent
  <2>2. PICK g :
          /\ SendGraphBatch(u, g, FALSE) /\ phase = "stream"
          /\ Within(g.vertices, unloaded.vertices)
          /\ \A v \in DOMAIN g.vertices : v \in Own(u)
    BY <2>1
  <2>3. GoesOn
    BY <2>2, <1>3 DEF SendGraphBatch, GoesOn, Same
  <2>. QED  BY <2>2, <2>3, <1>18
<1>21. ASSUME turn \in Worker, GoesOn, toDriver[turn] # << >>, DriverTakes(turn),
              UNCHANGED <<toWorker, workerState>>,
              phase \in DOMAIN Expected, Head(toDriver[turn]).type = Expected[phase]
       PROVE  DriverMoves
  BY <1>1, <1>6, <1>21 DEF DriverMoves
<1>22. CASE ReceiveReady \/ ReceiveGraphLoaded \/ ReceiveResult
  <2>1. turn \in Worker /\ Heard
    <3>1. turn \in Worker /\ DriverTakes(turn) /\ toDriver[turn] # << >>
      BY <1>2, <1>22 DEF ReceiveReady, ReceiveGraphLoaded, ReceiveResult,
         At, Receives
    <3>2. phase \in DOMAIN Expected /\ Head(toDriver[turn]).type = Expected[phase]
      BY <1>22 DEF ReceiveReady, ReceiveGraphLoaded, ReceiveResult,
         At, Receives, Expected
    <3>. QED  BY <1>2, <3>1, <3>2 DEF Heard, DriverTakes
  <2>2. GoesOn
    BY <1>2, <1>3, <1>22, <2>1 DEF ReceiveReady, ReceiveGraphLoaded, ReceiveResult, At, Goto,
       GoesOn, Same
  <2>. QED  BY <2>1, <2>2, <1>21, <1>22 DEF ReceiveReady, ReceiveGraphLoaded, ReceiveResult, At,
            Receives, Expected
<1>23. CASE ReceiveCreated \/ ReceiveLoaded \/ ReceiveVertices \/ ReceiveDumped
  <2>1. turn \in Worker /\ Heard
    <3>1. turn \in Worker /\ DriverTakes(turn) /\ toDriver[turn] # << >>
      BY <1>2, <1>23 DEF ReceiveCreated, ReceiveLoaded, ReceiveVertices, ReceiveDumped,
         At, Receives
    <3>2. phase \in DOMAIN Expected /\ Head(toDriver[turn]).type = Expected[phase]
      BY <1>23 DEF ReceiveCreated, ReceiveLoaded, ReceiveVertices, ReceiveDumped,
         At, Receives, Expected
    <3>. QED  BY <1>2, <3>1, <3>2 DEF Heard, DriverTakes
  <2>2. GoesOn
    BY <1>2, <1>3, <1>23, <2>1 DEF ReceiveCreated, ReceiveLoaded, ReceiveVertices,
       ReceiveDumped, At, GoesOn, Same
  <2>. QED  BY <2>1, <2>2, <1>21, <1>23 DEF ReceiveCreated, ReceiveLoaded, ReceiveVertices,
            ReceiveDumped, At, Receives, Expected
<1>. QED  BY <1>1, <1>7, <1>8, <1>9, <1>10, <1>12, <1>14, <1>15, <1>16, <1>17, <1>19,
          <1>20, <1>22, <1>23 DEF DriverStep

(* A worker that was not heard of is heard of by the next step of the      *)
(* driver only if it takes a frame of it.                                  *)
LEMMA UnheardKept ==
  ASSUME IndInv, Common, DriverMoves, NEW w \in Worker, Unheard(w)
  PROVE  Unheard(w)' /\ committed' = committed /\ phase' \notin Begin
<1>1. /\ turn \in 1 .. (N + 1) /\ w \in 1 .. N /\ N \in Nat
      /\ toDriver[w] = << >> /\ workerState[w] # "emitting"
      /\ ~Streaming /\ (Unrecovered \/ Value(w) = Loaded(w))
  BY SizeAssumption DEF IndInv, Shape, Worker, Unheard
<1>2. /\ toDriver'[w] = << >> /\ workerState'[w] # "emitting"
      /\ toDriver[turn] # << >> => w # turn
      /\ computed' = computed
  BY <1>1 DEF DriverMoves, Takes, Stays, workerVars
<1>3. phase = "round" => computed[w] # iteration
  <2>1. iteration \in Nat
    BY DEF IndInv, Shape
  <2>. QED  BY <2>1 DEF IndInv, WorkerOK, ComputedOK
<1>. DEFINE Before(p, t) ==
       \/ p = "load" /\ w < t
       \/ p \in {"algorithm", "restore", "round", "send", "fetch"}
       \/ p \in {"restored", "receive", "collect"} /\ w >= t
<1>4. Before(phase, turn)
  BY DEF Unheard
<1>5. /\ Before(phase', turn') /\ phase' \notin Begin /\ committed' = committed
      /\ saved' = saved /\ iteration' = iteration
      /\ Unrecovered => Unrecovered'
      /\ phase' \in Rounds => phase = "round" \/ phase \in Rounds
  <2>1. CASE GoesOn
    BY <2>1, <1>1, <1>2, <1>4 DEF GoesOn, Same, Heard, Begin, Rounds, Unrecovered
  <2>2. CASE Turns
    BY <2>2, <1>1, <1>4 DEF Turns, Same, Begin, Rounds, Unrecovered, Successor, RunJobCalls,
       Collecting
  <2>. QED  BY <2>1, <2>2 DEF DriverMoves
<1>6. Value(w)' = Value(w) /\ Loaded(w)' = Loaded(w)
  BY <1>5 DEF Value, Loaded, Own
<1>7. phase' \in Rounds => computed'[w] # iteration'
  BY <1>2, <1>3, <1>5 DEF Unheard
<1>. QED  BY <1>1, <1>2, <1>5, <1>6, <1>7 DEF Unheard

(* A worker whose answer is complete has nothing left to send.             *)
LEMMA OutDriver ==
  ASSUME IndInv, Common, DriverMoves, NEW w \in Worker, OutOK(w)
  PROVE  OutOK(w)'
<1>. SUFFICES ASSUME outbox[w] # NoMail PROVE OutOK(w)'
  BY DEF DriverMoves, workerVars, OutOK
<1>1. /\ turn \in 1 .. (N + 1) /\ w \in 1 .. N /\ N \in Nat
      /\ inboxes.count = N
      /\ IsQueue(toDriver[w])
  BY SizeAssumption DEF IndInv, Shape, Worker, Common, OwnInboxes
<1>2. /\ phase \in Rounds /\ Owes(w)
      /\ \A i \in 1 .. Len(toDriver[w]) : ~toDriver[w][i].last
  BY DEF OutOK
<1>3. toDriver[w] # << >> => ~Head(toDriver[w]).last
  <2>1. toDriver[w] # << >> =>
          Head(toDriver[w]) = toDriver[w][1] /\ Len(toDriver[w]) \in Nat \ {0}
    BY <1>1, QueueTail
  <2>2. \A n \in Nat \ {0} : 1 \in 1 .. n
    OBVIOUS
  <2>. QED  BY <2>1, <2>2, <1>2
<1>4. phase' \in Rounds /\ Owes(w)'
  <2>1. CASE GoesOn
    <3>1. ~(Heard /\ w = turn /\ Head(toDriver[turn]).last)
      BY <1>3 DEF Heard
    <3>. QED  BY <2>1, <3>1, <1>1, <1>2 DEF GoesOn, Same, Rounds, Owes
  <2>2. CASE Turns
    BY <2>2, <1>1, <1>2 DEF Turns, Same, Rounds, Owes, Successor, RunJobCalls,
       Graph500Calls, Collecting
  <2>. QED  BY <2>1, <2>2 DEF DriverMoves
<1>5. \A i \in 1 .. Len(toDriver'[w]) : ~toDriver'[w][i].last
  <2>1. CASE toDriver'[w] = toDriver[w]
    BY <2>1, <1>2
  <2>2. CASE toDriver[w] # << >> /\ toDriver'[w] = Tail(toDriver[w])
    <3>1. /\ Len(toDriver'[w]) = Len(toDriver[w]) - 1 /\ Len(toDriver[w]) \in Nat \ {0}
          /\ \A i \in 1 .. (Len(toDriver[w]) - 1) : toDriver'[w][i] = toDriver[w][i + 1]
      BY <2>2, <1>1, QueueTail
    <3>2. \A i \in 1 .. (Len(toDriver[w]) - 1) : i + 1 \in 1 .. Len(toDriver[w])
      BY <3>1
    <3>. QED  BY <3>1, <3>2, <1>2
  <2>. QED  BY <2>1, <2>2 DEF DriverMoves, Takes
<1>. QED  BY <1>4, <1>5 DEF OutOK

(* The values of the last round, and what was saved of them.               *)
LEMMA AnswersDriver ==
  ASSUME IndInv, Common, DriverMoves, NEW w \in Worker, AnswersOK(w)
  PROVE  AnswersOK(w)'
<1>1. /\ turn \in 1 .. (N + 1) /\ w \in 1 .. N /\ N \in Nat
      /\ inboxes.count = N /\ images' = images
      /\ IsQueue(toDriver[w])
  BY SizeAssumption DEF IndInv, Shape, Worker, Common, OwnInboxes, DriverMoves, workerVars
<1>2. CASE committed' # committed \/ iteration' # iteration
  <2>1. turn > N /\ Turns /\ phase \in {"receive", "restored"}
    BY <1>2 DEF DriverMoves, GoesOn, Turns, Same
  <2>2. toDriver'[w] = << >>
    <3>1. ~Owes(w)
      BY <2>1, <1>1 DEF Owes
    <3>. QED  BY <2>1, <3>1 DEF Turns, IndInv, WorkerOK, TalkOK, Idle
  <2>3. phase' # "checkpointed"
    BY <2>1, <1>2 DEF Turns, Collecting, Same
  <2>. QED  BY <2>2, <2>3, EmptyQueue DEF AnswersOK
<1>3. CASE committed' = committed /\ iteration' = iteration
  <2>1. Value(w)' = Value(w) /\ (Cut(w)' <=> Cut(w))
    BY <1>1, <1>3 DEF Value, Own, Cut
  <2>2. \A i \in 1 .. Len(toDriver'[w]) :
          \E j \in 1 .. Len(toDriver[w]) : toDriver'[w][i] = toDriver[w][j]
    <3>1. CASE toDriver'[w] = toDriver[w]
      BY <3>1
    <3>2. CASE toDriver[w] # << >> /\ toDriver'[w] = Tail(toDriver[w])
      <4>1. /\ Len(toDriver'[w]) = Len(toDriver[w]) - 1 /\ Len(toDriver[w]) \in Nat \ {0}
            /\ \A i \in 1 .. (Len(toDriver[w]) - 1) : toDriver'[w][i] = toDriver[w][i + 1]
        BY <3>2, <1>1, QueueTail
      <4>2. \A i \in 1 .. (Len(toDriver[w]) - 1) : i + 1 \in 1 .. Len(toDriver[w])
        BY <4>1
      <4>. QED  BY <4>1, <4>2
    <3>. QED  BY <3>1, <3>2 DEF DriverMoves, Takes
  <2>3. phase' = "checkpointed" /\ w < turn' => Cut(w)
    <3>. SUFFICES ASSUME phase' = "checkpointed", w < turn' PROVE Cut(w)
      OBVIOUS
    <3>1. phase = "checkpointed"
      BY <1>1 DEF DriverMoves, GoesOn, Turns, Collecting, Successor, RunJobCalls,
         Graph500Calls
    <3>2. w < turn \/ (w = turn /\ Heard)
      BY <1>1, <3>1 DEF DriverMoves, GoesOn, Turns, Collecting, Successor, RunJobCalls,
         Graph500Calls
    <3>3. CASE w = turn /\ Heard
      <4>1. /\ Head(toDriver[w]) = toDriver[w][1] /\ Len(toDriver[w]) \in Nat \ {0}
            /\ Head(toDriver[w]).type = "CheckpointCreated"
        BY <3>1, <3>3, <1>1, QueueTail DEF Heard, Expected
      <4>2. 1 \in 1 .. Len(toDriver[w])
        BY <4>1
      <4>. QED  BY <4>1, <4>2 DEF AnswersOK
    <3>. QED  BY <3>1, <3>2, <3>3 DEF AnswersOK
  <2>. QED  BY <2>1, <2>2, <2>3 DEF AnswersOK
<1>. QED  BY <1>2, <1>3

(* A worker that is sent its partition has not been heard of since.        *)
LEMMA LoadSent ==
  ASSUME IndInv, Common, DriverMoves, NEW w \in Worker,
         phase = "load", phase' = "load", w = turn, turn' = turn + 1
  PROVE  Unheard(w)'
<1>1. /\ turn \in 1 .. (N + 1) /\ w \in 1 .. N /\ N \in Nat /\ ~Streaming
  BY SizeAssumption DEF IndInv, Shape, Worker, Common
<1>2. toDriver[w] = << >> /\ workerState[w] # "emitting"
  BY DEF IndInv, WorkerOK, TalkOK, Owes, Idle
<1>3. toDriver'[w] = << >> /\ workerState'[w] # "emitting"
  BY <1>2 DEF DriverMoves, Takes, Stays
<1>4. committed' = committed /\ saved' = saved
  BY DEF DriverMoves, GoesOn, Turns, Same, Successor, RunJobCalls, Graph500Calls
<1>5. Unrecovered \/ Value(w) = Loaded(w)
  BY Partitions DEF Common, Early
<1>6. /\ Value(w)' = Value(w) /\ Loaded(w)' = Loaded(w)
      /\ Unrecovered => Unrecovered'
  BY <1>4 DEF Value, Loaded, Own, Unrecovered
<1>. QED  BY <1>1, <1>3, <1>5, <1>6 DEF Unheard, Rounds

LEMMA QueueDriver ==
  ASSUME IndInv, Common, DriverMoves, NEW w \in Worker, QueueOK(w)
  PROVE  QueueOK(w)'
<1>1. IsQueue(toWorker[w]) /\ (Gone(w)' <=> Gone(w)) /\ Loaded(w)' = Loaded(w)
  BY DEF IndInv, Shape, DriverMoves, Stays, Loaded, Own
<1>2. CASE toWorker'[w] = toWorker[w]
  <2>1. HasLoad(w)' <=> HasLoad(w)
    BY <1>1, <1>2 DEF HasLoad, Loading
  <2>. QED  BY <2>1, <1>1, <1>2, UnheardKept DEF QueueOK, Loading, Streams
<1>3. ASSUME NEW f, ~Gone(w), toWorker'[w] = Append(toWorker[w], f),
             f.type = "LoadGraph" =>
               /\ phase = "load" /\ phase' = "load" /\ w = turn /\ turn' = turn + 1
               /\ f.graph.vertices = Loaded(w),
             f.type = "LoadGraphBatch" =>
               /\ Within(f.graph.vertices, unloaded.vertices)
               /\ \A v \in DOMAIN f.graph.vertices : v \in Own(w)
      PROVE  QueueOK(w)'
  <2>1. /\ Len(toWorker[w]) \in Nat /\ Len(toWorker'[w]) = Len(toWorker[w]) + 1
        /\ \A i \in 1 .. Len(toWorker[w]) : toWorker'[w][i] = toWorker[w][i]
        /\ toWorker'[w][Len(toWorker[w]) + 1] = f
    BY <1>1, <1>3, QueueAppend
  <2>2. \A i \in 1 .. Len(toWorker'[w]) :
          \/ i \in 1 .. Len(toWorker[w]) /\ toWorker'[w][i] = toWorker[w][i]
          \/ toWorker'[w][i] = f
    BY <2>1
  <2>3. f.type = "LoadGraphBatch" => Within(f.graph.vertices, Loaded(w))
    BY <1>3, Partitions DEF Within, Common
  <2>4. \A i \in 1 .. Len(toWorker'[w]) :
          /\ Loading(w, i)' => toWorker'[w][i].graph.vertices = Loaded(w)
          /\ Streams(w, i)' => Within(toWorker'[w][i].graph.vertices, Loaded(w))
    BY <2>2, <2>3, <1>3 DEF QueueOK, Loading, Streams
  <2>5. HasLoad(w)' => HasLoad(w) \/ f.type = "LoadGraph"
    BY <2>2, <1>3 DEF HasLoad, Loading
  <2>6. HasLoad(w)' => Unheard(w)'
    BY <2>5, <1>3, UnheardKept, LoadSent DEF QueueOK
  <2>. QED  BY <2>4, <2>6, <1>1 DEF QueueOK, Within
<1>. QED  BY <1>2, <1>3 DEF DriverMoves, Puts

(* A worker has its partition once it is through with its queue, ...       *)
LEMMA LoadArrives ==
  ASSUME IndInv, DriverActs, NEW w \in Worker,
         phase = "load", phase' = "load", w = turn, turn' = turn + 1
  PROVE  Gone(w)' \/ HasLoad(w)'
<1>1. /\ turn' # turn /\ turn \in Nat /\ DriverStep /\ IsQueue(toWorker[w])
      /\ DOMAIN toWorker = Worker
  BY DEF IndInv, Shape, Worker, DriverActs
<1>2. LoadAll
  <2>1. DriverStep => \/ LoadAll \/ NextCall \/ DriverFails
    BY DEF DriverStep, Connect, ReceiveReady, StreamBatch, StreamEnds, SealBatch,
       ReceiveGraphLoaded, SetAlgorithmAll, NextRound, SendBatch, ReceiveResult, EndRound,
       CreateCheckpointAll, ReceiveCreated, Publish, LoadCheckpointAll, ReceiveLoaded,
       Recover, FetchAll, ReceiveVertices, DumpPart, ReceiveDumped, ShutdownAll,
       SendsToAll, At, Through
  <2>2. ~NextCall
    BY DEF NextCall, Goto, Successor, RunJobCalls, Graph500Calls
  <2>3. ~DriverFails
    BY <1>1 DEF DriverFails, driverVars
  <2>. QED  BY <1>1, <2>1, <2>2, <2>3
<1>3. PICK f : f = [type |-> "LoadGraph", graph |-> PartitionOf(w)]
  OBVIOUS
<1>4. DriverSends(w, f) /\ f.type = "LoadGraph" /\ workerState' = workerState
  BY <1>2, <1>3 DEF LoadAll, SendsToAll
<1>5. CASE ~Gone(w)
  <2>1. toWorker'[w] = Append(toWorker[w], f)
    BY <1>1, <1>4, <1>5 DEF DriverSends, Gone
  <2>2. Len(toWorker'[w]) \in 1 .. Len(toWorker'[w]) /\ toWorker'[w][Len(toWorker'[w])] = f
    BY <2>1, <1>1, QueueAppend
  <2>. QED  BY <2>2, <1>4, <1>5 DEF HasLoad, Loading, Gone
<1>. QED  BY <1>4, <1>5 DEF Gone

LEMMA BatchIsSent ==
  ASSUME DriverActs, phase = "stream", phase' = "loaded"
  PROVE  StreamBatch
<1>1. DriverStep => StreamBatch \/ StreamEnds \/ NextCall \/ DriverFails
  BY DEF DriverStep, Connect, ReceiveReady, LoadAll, SealBatch, ReceiveGraphLoaded,
     SetAlgorithmAll, NextRound, SendBatch, ReceiveResult, EndRound, CreateCheckpointAll,
     ReceiveCreated, Publish, LoadCheckpointAll, ReceiveLoaded, Recover, FetchAll,
     ReceiveVertices, DumpPart, ReceiveDumped, ShutdownAll, SendsToAll, At, Through
<1>2. ~StreamEnds /\ ~NextCall /\ ~DriverFails
  BY DEF StreamEnds, NextCall, DriverFails, driverVars, Goto, Successor, RunJobCalls,
     Graph500Calls
<1>. QED  BY <1>1, <1>2 DEF DriverActs

(* ... or, when the graph is streamed, what of it was sent.                *)
LEMMA StreamedKept ==
  ASSUME IndInv, Common, DriverActs, DriverMoves, NEW w \in Worker,
         phase \in Begin => Streamed(w), phase' \in Begin
  PROVE  Streamed(w)'
<1>1. /\ Own(w)' = Own(w) /\ store' = store /\ IsQueue(toWorker[w])
      /\ DOMAIN toWorker = Worker
  BY DEF Own, DriverMoves, workerVars, IndInv, Shape
<1>2. CASE phase \in {"connect", "handshake"}
  <2>1. unloaded' = unloaded
    BY <1>2 DEF DriverMoves, GoesOn, Turns
  <2>2. \A v \in Own(w) : v \in DOMAIN unloaded.vertices
    BY <1>2 DEF Own, Common
  <2>. QED  BY <1>1, <2>1, <2>2 DEF Streamed
<1>3. CASE phase' = phase /\ phase \in {"stream", "loaded"}
  <2>1. UNCHANGED <<toWorker, toDriver, unloaded, turn>> /\ (Gone(w)' <=> Gone(w))
    BY <1>3 DEF DriverMoves, GoesOn, Turns, Stays, Collecting, Successor, RunJobCalls,
       Graph500Calls
  <2>. QED  BY <1>1, <1>3, <2>1 DEF Streamed, Streams, Begin
<1>4. CASE phase = "loaded" /\ phase' = "stream"
  <2>1. unloaded' = unloaded /\ toDriver[turn] # << >>
    BY <1>4 DEF DriverMoves, GoesOn, Turns, Heard, Collecting, Successor, RunJobCalls,
       Graph500Calls
  <2>2. \A v \in Own(w) : \/ v \in DOMAIN unloaded.vertices
                          \/ v \in DOMAIN store[w].vertices
                               /\ store[w].vertices[v] = Input.vertices[v]
    BY <1>4, <2>1 DEF Streamed, Begin
  <2>. QED  BY <1>1, <2>1, <2>2 DEF Streamed
<1>5. CASE phase = "stream" /\ phase' = "loaded"
  <2>1. StreamBatch
    BY <1>5, BatchIsSent
  <2>2. PICK u \in Worker : \E g :
          /\ SendGraphBatch(u, g, FALSE)
          /\ \A v \in DOMAIN g.vertices : v \in Own(u)
          /\ unloaded'.vertices = Restrict(unloaded.vertices,
                                     DOMAIN unloaded.vertices \ DOMAIN g.vertices)
    BY <2>1, BatchSent
  <2>3. PICK g :
          /\ SendGraphBatch(u, g, FALSE)
          /\ \A v \in DOMAIN g.vertices : v \in Own(u)
          /\ unloaded'.vertices = Restrict(unloaded.vertices,
                                     DOMAIN unloaded.vertices \ DOMAIN g.vertices)
    BY <2>2
  <2>4. PICK f : f = [type |-> "LoadGraphBatch", graph |-> g, last |-> FALSE]
    OBVIOUS
  <2>5. /\ f.type = "LoadGraphBatch" /\ f.graph.vertices = g.vertices
        /\ DriverSends(u, f) /\ turn' = u /\ toDriver' = toDriver
        /\ workerState' = workerState
    BY <2>3, <2>4 DEF SendGraphBatch
  <2>6. \A v \in Own(w) :
          \/ v \in DOMAIN unloaded'.vertices
          \/ v \in DOMAIN g.vertices /\ u = w
          \/ v \in DOMAIN store[w].vertices /\ store[w].vertices[v] = Input.vertices[v]
    BY <1>5, <2>3 DEF Streamed, Begin, Restrict, Own
  <2>7. w = u => toDriver'[w] = << >>
    BY <1>5, <2>5 DEF IndInv, WorkerOK, TalkOK, Owes, Idle
  <2>8. w = u => Gone(w)' \/ \E i \in 1 .. Len(toWorker'[w]) : toWorker'[w][i] = f
    <3>. SUFFICES ASSUME w = u, ~Gone(w)
                  PROVE  \E i \in 1 .. Len(toWorker'[w]) : toWorker'[w][i] = f
      BY <2>5 DEF Gone
    <3>1. toWorker'[w] = Append(toWorker[w], f)
      BY <1>1, <2>5 DEF DriverSends, Gone
    <3>2. Len(toWorker'[w]) \in 1 .. Len(toWorker'[w])
            /\ toWorker'[w][Len(toWorker'[w])] = f
      BY <3>1, <1>1, QueueAppend
    <3>. QED  BY <3>2
  <2>. QED  BY <1>1, <1>5, <2>5, <2>6, <2>7, <2>8 DEF Streamed, Streams
<1>. QED
  <2>1. \/ phase \in {"connect", "handshake"}
        \/ phase' = phase /\ phase \in {"stream", "loaded"}
        \/ phase = "loaded" /\ phase' = "stream"
        \/ phase = "stream" /\ phase' = "loaded"
    BY DEF Begin, DriverMoves, GoesOn, Turns, Collecting, Successor, RunJobCalls,
       Graph500Calls
  <2>. QED  BY <2>1, <1>2, <1>3, <1>4, <1>5

(* A round that ends makes what the workers have stored the values.        *)
LEMMA RoundEnds ==
  ASSUME IndInv, Common, DriverActs, NEW w \in Worker, StoreOK(w),
         phase = "receive", turn > N
  PROVE  store[w].vertices = Value(w)'
<1>1. /\ turn \in Nat /\ w \in 1 .. N /\ N \in Nat /\ w < turn
  BY SizeAssumption DEF IndInv, Shape, Worker
<1>2. computed[w] = iteration /\ iteration \in Nat
  BY <1>1 DEF IndInv, WorkerOK, ComputedOK, Shape
<1>3. ~Unheard(w) /\ ~Unrecovered /\ ~BeforeLoad(w)
  BY <1>1 DEF Unheard, Unrecovered, BeforeLoad, Begin
<1>4. IsMapOn(store[w].vertices, Own(w))
  BY <1>2, <1>3 DEF StoreOK, Right, Rounds
<1>5. \A v \in Own(w) : /\ v \in DOMAIN committed /\ Part[v] \in Worker /\ Part[v] = w
                        /\ v \in DOMAIN store[Part[v]].vertices
  BY <1>4 DEF Own, Common, IsMapOn
<1>6. committed' = [v \in DOMAIN committed |->
                      IF /\ Part[v] \in Worker
                         /\ v \in DOMAIN store[Part[v]].vertices
                        THEN store[Part[v]].vertices[v]
                        ELSE committed[v]]
  BY DEF DriverActs
<1>7. \A v \in Own(w) : committed'[v] = store[w].vertices[v]
  BY <1>5, <1>6
<1>8. Value(w)' = [v \in Own(w) |-> store[w].vertices[v]]
  BY <1>7 DEF Value, Restrict, Own
<1>. QED  BY <1>4, <1>8 DEF IsMapOn

LEMMA StoreDriver ==
  ASSUME IndInv, Common, DriverActs, DriverMoves, NEW w \in Worker, StoreOK(w)
  PROVE  StoreOK(w)'
<1>1. /\ turn \in 1 .. (N + 1) /\ w \in 1 .. N /\ N \in Nat /\ iteration \in Nat
      /\ inboxes.count = N
      /\ Own(w)' = Own(w) /\ store' = store /\ computed' = computed
  BY SizeAssumption DEF IndInv, Shape, Worker, Common, OwnInboxes, DriverMoves, workerVars,
     Own
<1>. USE DEF Collecting, Successor, RunJobCalls, Graph500Calls
<1>2. BeforeLoad(w)' => BeforeLoad(w)
  BY <1>1 DEF BeforeLoad, Begin, DriverMoves, GoesOn, Turns
<1>3. phase' \in Begin => phase \in Begin
  BY DEF Begin, DriverMoves, GoesOn, Turns
<1>4. BeforeLoad(w)' => NoStrays(w)'
  BY <1>1, <1>2 DEF StoreOK, NoStrays
<1>5. phase' \in Begin => Streamed(w)'
  BY <1>3, StreamedKept DEF StoreOK
<1>6. ASSUME Unrecovered', Restored(w)' PROVE store'[w].vertices = Value(w)'
  <2>1. phase \in {"algorithm", "restore", "restored"}
    BY <1>6 DEF Restored, DriverMoves, GoesOn, Turns
  <2>2. committed' = committed /\ saved' = saved
    BY <2>1 DEF DriverMoves, GoesOn, Turns, Same
  <2>3. Unrecovered
    BY <1>6, <2>1, <2>2 DEF Unrecovered
  <2>4. /\ \A i \in 1 .. Len(toDriver'[w]) :
             \E j \in 1 .. Len(toDriver[w]) : toDriver'[w][i] = toDriver[w][j]
        /\ toDriver[w] # << >> =>
             1 \in 1 .. Len(toDriver[w]) /\ Head(toDriver[w]) = toDriver[w][1]
    <3>1. IsQueue(toDriver[w])
      BY DEF IndInv, Shape
    <3>2. CASE toDriver'[w] = toDriver[w] /\ toDriver[w] = << >>
      BY <3>2
    <3>3. CASE toDriver[w] # << >>
      <4>1. /\ Len(Tail(toDriver[w])) = Len(toDriver[w]) - 1 /\ Len(toDriver[w]) \in Nat \ {0}
            /\ Head(toDriver[w]) = toDriver[w][1]
            /\ \A i \in 1 .. (Len(toDriver[w]) - 1) : Tail(toDriver[w])[i] = toDriver[w][i + 1]
        BY <3>1, <3>3, QueueTail
      <4>2. \A i \in 1 .. (Len(toDriver[w]) - 1) : i + 1 \in 1 .. Len(toDriver[w])
        BY <4>1
      <4>3. toDriver'[w] = toDriver[w] \/ toDriver'[w] = Tail(toDriver[w])
        BY DEF DriverMoves, Takes
      <4>4. CASE toDriver'[w] = Tail(toDriver[w])
        <5>1. ASSUME NEW i \in 1 .. Len(toDriver'[w])
              PROVE  \E j \in 1 .. Len(toDriver[w]) : toDriver'[w][i] = toDriver[w][j]
          <6>1. i \in 1 .. (Len(toDriver[w]) - 1)
            BY <4>1, <4>4
          <6>. QED  BY <4>1, <4>2, <4>4, <6>1
        <5>2. 1 \in 1 .. Len(toDriver[w])
          BY <4>1
        <5>. QED  BY <4>1, <5>1, <5>2
      <4>5. CASE toDriver'[w] = toDriver[w]
        <5>1. 1 \in 1 .. Len(toDriver[w])
          BY <4>1
        <5>. QED  BY <4>1, <4>5, <5>1
      <4>. QED  BY <4>3, <4>4, <4>5
    <3>. QED  BY <3>2, <3>3 DEF DriverMoves, Takes
  <2>5. phase = "algorithm" => toDriver[w] = << >>
    BY DEF IndInv, WorkerOK, TalkOK, Owes, Idle
  <2>6. Restored(w)
    <3>1. CASE \E i \in 1 .. Len(toDriver'[w]) : toDriver'[w][i].type = "CheckpointLoaded"
      <4>1. \E j \in 1 .. Len(toDriver[w]) : toDriver[w][j].type = "CheckpointLoaded"
        BY <2>4, <3>1
      <4>2. phase # "algorithm"
        BY <2>5, <4>1, EmptyQueue
      <4>. QED  BY <2>1, <4>1, <4>2 DEF Restored
    <3>2. CASE phase' = "restored" /\ w < turn'
      <4>1. phase = "restored" /\ (w < turn \/ (w = turn /\ Heard))
        BY <1>1, <2>1, <3>2 DEF DriverMoves, GoesOn, Turns
      <4>2. CASE w = turn /\ Heard
        BY <2>4, <4>1, <4>2 DEF Restored, Heard, Expected
      <4>. QED  BY <4>1, <4>2 DEF Restored
    <3>. QED  BY <1>6, <3>1, <3>2 DEF Restored
  <2>. QED  BY <1>1, <2>2, <2>3, <2>6 DEF StoreOK, Value
<1>7. ASSUME ~Unrecovered', ~BeforeLoad(w)'
      PROVE  Right(w)' \/ (Unheard(w)' /\ (Gone(w)' \/ (NoStrays(w)' /\ HasLoad(w)')))
  <2>1. CASE phase = "receive" /\ turn > N
    <3>1. store'[w].vertices = Value(w)'
      BY <1>1, <2>1, RoundEnds
    <3>2. phase' \notin Rounds \/ (phase' = phase /\ iteration' = iteration)
      BY <2>1 DEF Rounds, DriverMoves, GoesOn, Turns, Same
    <3>3. CASE phase' \notin Rounds
      BY <3>1, <3>3 DEF Right
    <3>4. CASE phase' = phase /\ iteration' = iteration
      <4>1. computed[w] = iteration
        BY <1>1, <2>1 DEF IndInv, WorkerOK, ComputedOK
      <4>2. ~Unheard(w) /\ ~Unrecovered /\ ~BeforeLoad(w)
        BY <1>1, <2>1 DEF Unheard, Unrecovered, BeforeLoad, Begin
      <4>3. IsMapOn(store[w].vertices, Own(w))
        BY <2>1, <4>1, <4>2 DEF StoreOK, Right, Rounds
      <4>. QED  BY <1>1, <4>1, <4>3, <3>4, <2>1 DEF Right, Rounds
    <3>. QED  BY <3>2, <3>3, <3>4
  <2>2. CASE BeforeLoad(w) /\ phase = "load"
    <3>1. phase' = "load" /\ w = turn /\ turn' = turn + 1
      BY <1>1, <1>7, <2>2 DEF BeforeLoad, Begin, DriverMoves, GoesOn, Turns
    <3>2. NoStrays(w)'
      BY <1>1, <2>2 DEF StoreOK, NoStrays
    <3>. QED  BY <2>2, <3>1, <3>2, LoadSent, LoadArrives
  <2>3. CASE BeforeLoad(w) /\ phase # "load"
    <3>1. /\ phase = "stream" /\ phase' = "seal" /\ committed' = committed
          /\ unloaded = [vertices |-> NoMail, edges |-> {}]
      BY <1>1, <1>7, <2>3 DEF BeforeLoad, Begin, DriverMoves, GoesOn, Turns, Same
    <3>2. DOMAIN unloaded.vertices = {}
      BY <3>1, EmptyMap
    <3>3. NoStrays(w) /\ Streamed(w)
      BY <2>3, <3>1 DEF StoreOK, Begin
    <3>4. \A v \in Own(w) : v \in DOMAIN store[w].vertices
                              /\ store[w].vertices[v] = Input.vertices[v]
      BY <3>1, <3>2, <3>3 DEF Streamed
    <3>5. store[w].vertices = Loaded(w)
      <4>1. DOMAIN store[w].vertices = Own(w)
        BY <3>3, <3>4 DEF NoStrays
      <4>2. IsMap(Loaded(w)) /\ DOMAIN Loaded(w) = Own(w)
            /\ \A v \in Own(w) : Loaded(w)[v] = Input.vertices[v]
        BY Partitions
      <4>. QED  BY <3>3, <3>4, <4>1, <4>2, SameMap DEF NoStrays
    <3>6. committed = Input.vertices
      BY <3>1 DEF Common, Early, Unrecovered
    <3>7. Value(w) = Loaded(w)
      BY <3>6, Partitions
    <3>8. store'[w].vertices = Value(w)'
      BY <1>1, <3>1, <3>5, <3>7 DEF Value
    <3>. QED  BY <3>1, <3>8 DEF Right, Rounds
  <2>4. CASE ~BeforeLoad(w) /\ Unrecovered
    <3>1. phase = "restored" /\ phase' = "round" /\ turn > N /\ committed' = committed
      BY <1>7, <2>4, IntervalAssumption, StreamingAssumption
         DEF Unrecovered, BeforeLoad, Begin, DriverMoves, GoesOn, Turns, Same
    <3>2. store[w].vertices = Value(w)
      BY <1>1, <2>4, <3>1 DEF StoreOK, Restored
    <3>. QED  BY <1>1, <3>1, <3>2 DEF Right, Rounds, Value
  <2>5. CASE ~BeforeLoad(w) /\ ~Unrecovered /\ ~(phase = "receive" /\ turn > N)
    <3>1. CASE Right(w)
      <4>1. phase = "round" => computed[w] # iteration
        BY <1>1 DEF IndInv, WorkerOK, ComputedOK
      <4>2. /\ committed' = committed
            /\ (phase' \in Rounds /\ computed[w] = iteration'
                  <=> phase \in Rounds /\ computed[w] = iteration)
        BY <1>1, <2>5, <4>1 DEF DriverMoves, GoesOn, Turns, Same, Rounds
      <4>3. Value(w)' = Value(w)
        BY <4>2 DEF Value, Own
      <4>. QED  BY <1>1, <3>1, <4>2, <4>3 DEF Right, IsMapOn
    <3>2. CASE Unheard(w) /\ (Gone(w) \/ (NoStrays(w) /\ HasLoad(w)))
      <4>1. Unheard(w)' /\ (Gone(w)' <=> Gone(w))
        BY <3>2, UnheardKept DEF DriverMoves, Stays
      <4>2. NoStrays(w) => NoStrays(w)'
        BY <1>1 DEF NoStrays
      <4>3. HasLoad(w) => HasLoad(w)'
        <5>. SUFFICES ASSUME HasLoad(w) PROVE HasLoad(w)'
          OBVIOUS
        <5>1. PICK i \in 1 .. Len(toWorker[w]) : toWorker[w][i].type = "LoadGraph"
          BY DEF HasLoad, Loading
        <5>2. IsQueue(toWorker[w])
          BY DEF IndInv, Shape
        <5>3. toWorker'[w] = toWorker[w] \/ \E f : toWorker'[w] = Append(toWorker[w], f)
          BY DEF DriverMoves, Puts
        <5>4. i \in 1 .. Len(toWorker'[w]) /\ toWorker'[w][i] = toWorker[w][i]
          BY <5>2, <5>3, QueueAppend
        <5>. QED  BY <4>1, <5>1, <5>4 DEF HasLoad, Loading
      <4>. QED  BY <3>2, <4>1, <4>2, <4>3
    <3>. QED  BY <2>5, <3>1, <3>2 DEF StoreOK
  <2>. QED  BY <2>1, <2>2, <2>3, <2>4, <2>5
<1>. QED  BY <1>4, <1>5, <1>6, <1>7 DEF StoreOK

LEMMA CommonDriver ==
  ASSUME IndInv, Common, DriverActs, DriverMoves
  PROVE  Common'
<1>. USE IntervalAssumption, StreamingAssumption
     DEF Collecting, Successor, RunJobCalls, Graph500Calls
<1>1. store' = store /\ outbox' = outbox /\ images' = images
  BY DEF DriverMoves, workerVars
<1>2. IsMapOn(committed', DOMAIN Input.vertices)
  BY DEF Common, DriverActs, IsMapOn
<1>3. inboxes' = OwnInboxes /\ saved'.inboxes = OwnInboxes /\ OwnInboxes' = OwnInboxes
  BY DEF Common, DriverMoves, GoesOn, Turns, Same, OwnInboxes
<1>4. phase' \in {"restore", "restored"} => Interval > 0 /\ saved'.iteration > 0
  BY DEF Common, DriverMoves, GoesOn, Turns, Same
<1>5. /\ phase' \in {"stream", "loaded", "seal", "sealed", "dump", "dumped"} => Streaming
      /\ phase' \in {"load", "restore", "restored", "fetch", "collect"} => ~Streaming
  BY DEF Common, DriverMoves, GoesOn, Turns, Same
<1>6. Unrecovered' => Unrecovered /\ committed' = committed /\ saved' = saved
  BY DEF Unrecovered, DriverMoves, GoesOn, Turns, Same
<1>7. phase' \in Early \cup {"algorithm"} => Unrecovered' \/ committed' = Input.vertices
  <2>. SUFFICES ASSUME phase' \in Early \cup {"algorithm"}, ~Unrecovered'
                PROVE  committed' = Input.vertices
    OBVIOUS
  <2>1. phase \in Early \cup {"algorithm"} /\ committed' = committed /\ saved' = saved
    BY DEF Early, DriverMoves, GoesOn, Turns, Same
  <2>2. ~Unrecovered
    BY <2>1, <1>5 DEF Unrecovered, Early
  <2>. QED  BY <2>1, <2>2 DEF Common
<1>8. Unrecovered' =>
        \A w \in Worker : /\ saved'.iteration \in DOMAIN images'[w]
                          /\ images'[w][saved'.iteration].vertices = Value(w)'
  BY <1>1, <1>6 DEF Common, Value, Own
<1>9. Within(unloaded'.vertices, Input.vertices)
  <2>1. CASE unloaded' = unloaded
    BY <2>1 DEF Common
  <2>2. CASE unloaded' # unloaded
    <3>1. StreamBatch
      BY <2>2, BatchIsSent DEF DriverMoves, GoesOn, Turns
    <3>2. \E S : /\ S \subseteq DOMAIN unloaded.vertices
                 /\ unloaded'.vertices = Restrict(unloaded.vertices, S)
      BY <3>1, BatchSent
    <3>. QED  BY <3>2 DEF Common, Within, Restrict
  <2>. QED  BY <2>1, <2>2
<1>10. phase' \in {"connect", "handshake"} => unloaded' = Input
  BY DEF Common, DriverMoves, GoesOn, Turns
<1>. QED  BY <1>1, <1>2, <1>3, <1>4, <1>5, <1>7, <1>8, <1>9, <1>10 DEF Common, Within

(* The result is put together from the answers.                            *)
LEMMA CollectedDriver ==
  ASSUME IndInv, DataInv, DriverActs, DriverMoves
  PROVE  Collected'
<1>. USE DEF Collecting, Successor, RunJobCalls, Graph500Calls
<1>. DEFINE Below(t) == {v \in DOMAIN committed : Part[v] < t}
<1>1. /\ turn \in 1 .. (N + 1) /\ N \in Nat
      /\ IsMapOn(committed, DOMAIN Input.vertices)
      /\ \A v \in DOMAIN Input.vertices : Part[v] \in 1 .. N
  BY SizeAssumption, PartAssumption DEF IndInv, Shape, DataInv, Common, Worker
<1>2. DOMAIN committed' = DOMAIN committed /\ DOMAIN committed = DOMAIN Input.vertices
  BY <1>1 DEF DriverActs, IsMapOn
<1>3. Below(1) = {} /\ (turn > N => Below(turn) = DOMAIN committed)
  BY <1>1, <1>2
<1>4. Restrict(committed', {v \in DOMAIN committed' : Part[v] < 1}) = NoMail
  <2>1. {v \in DOMAIN committed' : Part[v] < 1} = {}
    BY <1>1, <1>2
  <2>. QED  BY <2>1, EmptyMap
<1>5. ASSUME phase \in {"collect", "dumped"}, Heard, turn \in Worker
      PROVE  Merge(result, Head(toDriver[turn]).vertices)
               = Restrict(committed, Below(turn + 1))
  <2>1. PICK t \in Worker : t = turn
    BY <1>5
  <2>2. /\ Head(toDriver[t]) = toDriver[t][1] /\ Len(toDriver[t]) \in Nat \ {0}
        /\ Head(toDriver[t]).type \in {"Vertices", "VerticesDumped"}
    <3>1. IsQueue(toDriver[t])
      BY DEF IndInv, Shape
    <3>. QED  BY <1>5, <2>1, <3>1, QueueTail DEF Heard, Expected
  <2>3. 1 \in 1 .. Len(toDriver[t])
    BY <2>2
  <2>4. Head(toDriver[t]).vertices = Value(t)
    BY <2>2, <2>3 DEF DataInv, DataOK, AnswersOK
  <2>5. result = Restrict(committed, Below(t))
    BY <1>5, <2>1 DEF DataInv, Collected
  <2>6. Below(t + 1) = Below(t) \cup Own(t)
    BY <1>1, <1>2, <2>1 DEF Own, Worker
  <2>7. DOMAIN Value(t) = Own(t) /\ \A v \in Own(t) : Value(t)[v] = committed[v]
    BY Partitions
  <2>. HIDE DEF Below
  <2>8. DOMAIN result = Below(t) /\ \A v \in Below(t) : result[v] = committed[v]
    BY <2>5 DEF Restrict
  <2>9. Merge(result, Value(t)) = [v \in Below(t) \cup Own(t) |-> committed[v]]
    BY <2>7, <2>8 DEF Merge
  <2>. QED  BY <2>1, <2>4, <2>6, <2>9 DEF Restrict
<1>6. CASE GoesOn
  <2>1. committed' = committed
    BY <1>6 DEF GoesOn, Same
  <2>2. CASE phase' \in {"collect", "dump", "dumped"}
    <3>1. \/ phase \in {"collect", "dump", "dumped"} /\ turn' = turn /\ result' = result
          \/ /\ phase \in {"collect", "dumped"} /\ Heard /\ turn \in Worker
             /\ turn' = turn + 1
             /\ result' = Merge(result, Head(toDriver[turn]).vertices)
      BY <1>6, <2>2 DEF GoesOn
    <3>2. result' = Restrict(committed', {v \in DOMAIN committed' : Part[v] < turn'})
      <4>1. CASE phase \in {"collect", "dump", "dumped"} /\ turn' = turn /\ result' = result
        BY <2>1, <4>1 DEF DataInv, Collected
      <4>2. CASE /\ phase \in {"collect", "dumped"} /\ Heard /\ turn \in Worker
                 /\ turn' = turn + 1
                 /\ result' = Merge(result, Head(toDriver[turn]).vertices)
        BY <2>1, <1>5, <4>2
      <4>. QED  BY <3>1, <4>1, <4>2
    <3>. QED  BY <2>2, <3>2 DEF Collected
  <2>3. CASE phase' \notin {"collect", "dump", "dumped"}
    <3>1. /\ phase \notin {"collect", "dump", "dumped"} /\ result' = result
          /\ (phase' \in {"shutdown", "done"} <=> phase \in {"shutdown", "done"})
      BY <1>6, <2>3 DEF GoesOn
    <3>. QED  BY <2>1, <2>3, <3>1 DEF DataInv, Collected
  <2>. QED  BY <2>2, <2>3
<1>7. CASE Turns
  <2>1. turn' = 1 /\ result' = result
    BY <1>7 DEF Turns
  <2>2. CASE phase' \in {"collect", "dump", "dumped"}
    <3>1. phase \notin {"collect", "dump", "dumped", "shutdown", "done"}
      BY <1>7, <2>2 DEF Turns
    <3>2. result = NoMail
      BY <3>1 DEF DataInv, Collected
    <3>. QED  BY <1>4, <2>1, <2>2, <3>2 DEF Collected
  <2>3. CASE phase' \in {"shutdown", "done"}
    <3>1. committed' = committed
      BY <1>7, <2>3 DEF Turns, Same
    <3>2. (phase \in {"collect", "dump"} /\ turn > N) \/ phase = "shutdown"
      BY <1>7, <2>3 DEF Turns
    <3>3. result = committed
      <4>1. CASE phase \in {"collect", "dump"} /\ turn > N
        <5>1. result = Restrict(committed, DOMAIN committed)
          BY <4>1, <1>3 DEF DataInv, Collected
        <5>. QED  BY <5>1, <1>1, <1>2 DEF Restrict, IsMapOn
      <4>2. CASE phase = "shutdown"
        BY <4>2 DEF DataInv, Collected
      <4>. QED  BY <3>2, <4>1, <4>2
    <3>. QED  BY <2>1, <2>3, <3>1, <3>3 DEF Collected
  <2>4. CASE phase' \notin {"collect", "dump", "dumped", "shutdown", "done"}
    <3>1. phase \notin {"collect", "dump", "dumped", "shutdown", "done"}
      BY <1>7, <2>4 DEF Turns
    <3>. QED  BY <2>1, <2>4, <3>1 DEF DataInv, Collected
  <2>. QED  BY <2>2, <2>3, <2>4
<1>. QED  BY <1>6, <1>7 DEF DriverMoves

LEMMA DriverDataInd ==
  ASSUME IndInv, DataInv, DriverActs
  PROVE  DataInv'
<1>1. Common /\ DriverMoves
  BY DriverFrame DEF DataInv
<1>2. Common' /\ Collected'
  BY <1>1, CommonDriver, CollectedDriver
<1>3. \A w \in Worker : DataOK(w)'
  BY <1>1, StoreDriver, QueueDriver, AnswersDriver, OutDriver DEF DataInv, DataOK
<1>. QED  BY <1>2, <1>3 DEF DataInv

----------------------------------------------------------------------------
(* The steps of the workers.                                               *)
Fixed == UNCHANGED <<phase, turn, iteration, inboxes, saved, unloaded, result, committed>>

LEMMA FixedMeans ==
  ASSUME NEW w \in Worker, Fixed
  PROVE  /\ Own(w)' = Own(w) /\ Value(w)' = Value(w) /\ Loaded(w)' = Loaded(w)
         /\ (Unrecovered' <=> Unrecovered) /\ (BeforeLoad(w)' <=> BeforeLoad(w))
         /\ (Owes(w)' <=> Owes(w))
BY DEF Fixed, Own, Value, Loaded, Unrecovered, BeforeLoad, Owes

(* A worker that is not concerned, or handles a frame without an answer    *)
(* that brings no part of the graph.                                       *)
LEMMA QuietData ==
  ASSUME IndInv, NEW w \in Worker, DataOK(w), Fixed,
         store'[w] = store[w], outbox'[w] = outbox[w], computed'[w] = computed[w],
         toDriver'[w] = toDriver[w], images'[w] = images[w],
         Gone(w)' <=> Gone(w),
         workerState'[w] = "emitting" <=> workerState[w] = "emitting",
         \/ toWorker'[w] = toWorker[w]
         \/ /\ toWorker[w] # << >> /\ toWorker'[w] = Tail(toWorker[w])
            /\ Head(toWorker[w]).type \notin {"LoadGraph", "LoadGraphBatch"}
  PROVE  DataOK(w)'
<1>1. /\ Own(w)' = Own(w) /\ Value(w)' = Value(w) /\ Loaded(w)' = Loaded(w)
      /\ (Unrecovered' <=> Unrecovered) /\ (BeforeLoad(w)' <=> BeforeLoad(w))
      /\ (Owes(w)' <=> Owes(w))
  BY FixedMeans
<1>2. /\ \A i \in 1 .. Len(toWorker'[w]) :
           \E j \in 1 .. Len(toWorker[w]) : toWorker'[w][i] = toWorker[w][j]
      /\ \A j \in 1 .. Len(toWorker[w]) :
           \/ toWorker[w][j].type \notin {"LoadGraph", "LoadGraphBatch"}
           \/ \E i \in 1 .. Len(toWorker'[w]) : toWorker'[w][i] = toWorker[w][j]
  <2>1. CASE toWorker'[w] = toWorker[w]
    BY <2>1
  <2>2. CASE /\ toWorker[w] # << >> /\ toWorker'[w] = Tail(toWorker[w])
             /\ Head(toWorker[w]).type \notin {"LoadGraph", "LoadGraphBatch"}
    <3>1. IsQueue(toWorker[w])
      BY DEF IndInv, Shape
    <3>2. /\ Len(toWorker'[w]) = Len(toWorker[w]) - 1 /\ Len(toWorker[w]) \in Nat \ {0}
          /\ Head(toWorker[w]) = toWorker[w][1]
          /\ \A i \in 1 .. (Len(toWorker[w]) - 1) : toWorker'[w][i] = toWorker[w][i + 1]
      BY <2>2, <3>1, QueueTail
    <3>3. \A i \in 1 .. (Len(toWorker[w]) - 1) : i + 1 \in 1 .. Len(toWorker[w])
      BY <3>2
    <3>4. \A j \in 1 .. Len(toWorker[w]) :
            \/ j = 1
            \/ j - 1 \in 1 .. (Len(toWorker[w]) - 1) /\ (j - 1) + 1 = j
      BY <3>2
    <3>5. ASSUME NEW j \in 1 .. Len(toWorker[w]), j # 1
          PROVE  \E i \in 1 .. Len(toWorker'[w]) : toWorker'[w][i] = toWorker[w][j]
      BY <3>2, <3>4, <3>5
    <3>. QED  BY <2>2, <3>2, <3>3, <3>5
  <2>. QED  BY <2>1, <2>2
<1>3. /\ HasLoad(w)' <=> HasLoad(w)
      /\ Unheard(w)' <=> Unheard(w)
  <2>1. HasLoad(w)' <=> HasLoad(w)
    BY <1>2 DEF HasLoad, Loading
  <2>2. Unheard(w)' <=> Unheard(w)
    BY <1>1 DEF Fixed, Unheard
  <2>. QED  BY <2>1, <2>2
<1>4. StoreOK(w)'
  <2>1. /\ NoStrays(w)' <=> NoStrays(w)
        /\ Right(w)' <=> Right(w)
        /\ Restored(w)' <=> Restored(w)
    BY <1>1 DEF Fixed, NoStrays, Right, IsMapOn, Restored
  <2>2. ASSUME Streamed(w), NEW v \in Own(w)
        PROVE  \/ v \in DOMAIN unloaded'.vertices
               \/ v \in DOMAIN store'[w].vertices /\ store'[w].vertices[v] = Input.vertices[v]
               \/ /\ phase' = "loaded" /\ w = turn' /\ toDriver'[w] = << >>
                  /\ \/ Gone(w)'
                     \/ \E i \in 1 .. Len(toWorker'[w]) :
                          Streams(w, i)' /\ v \in DOMAIN toWorker'[w][i].graph.vertices
    <3>1. ASSUME NEW j \in 1 .. Len(toWorker[w]), Streams(w, j),
                 v \in DOMAIN toWorker[w][j].graph.vertices
          PROVE  \E i \in 1 .. Len(toWorker'[w]) :
                   Streams(w, i)' /\ v \in DOMAIN toWorker'[w][i].graph.vertices
      <4>1. PICK i \in 1 .. Len(toWorker'[w]) : toWorker'[w][i] = toWorker[w][j]
        BY <1>2, <3>1 DEF Streams
      <4>. QED  BY <3>1, <4>1 DEF Streams
    <3>. QED  BY <2>2, <3>1 DEF Fixed, Streamed
  <2>3. Streamed(w) => Streamed(w)'
    BY <1>1, <2>2 DEF Streamed
  <2>. QED  BY <1>1, <1>3, <2>1, <2>3 DEF DataOK, StoreOK, Fixed
<1>5. QueueOK(w)'
  <2>1. ASSUME NEW i \in 1 .. Len(toWorker'[w]), ~Gone(w)
        PROVE  /\ Loading(w, i)' => toWorker'[w][i].graph.vertices = Loaded(w)
               /\ Streams(w, i)' => Within(toWorker'[w][i].graph.vertices, Loaded(w))
    <3>1. PICK j \in 1 .. Len(toWorker[w]) : toWorker'[w][i] = toWorker[w][j]
      BY <1>2
    <3>2. /\ Loading(w, j) => toWorker[w][j].graph.vertices = Loaded(w)
          /\ Streams(w, j) => Within(toWorker[w][j].graph.vertices, Loaded(w))
      BY <2>1 DEF DataOK, QueueOK
    <3>. QED  BY <3>1, <3>2 DEF Loading, Streams
  <2>2. Gone(w)' \/ \A i \in 1 .. Len(toWorker'[w]) :
          /\ Loading(w, i)' => toWorker'[w][i].graph.vertices = Loaded(w)
          /\ Streams(w, i)' => Within(toWorker'[w][i].graph.vertices, Loaded(w))
    BY <2>1
  <2>3. HasLoad(w)' => Unheard(w)'
    BY <1>3 DEF DataOK, QueueOK
  <2>. QED  BY <1>1, <2>2, <2>3 DEF QueueOK, Within
<1>6. AnswersOK(w)'
  BY <1>1 DEF Fixed, DataOK, AnswersOK, Cut
<1>7. OutOK(w)'
  BY <1>1 DEF Fixed, DataOK, OutOK
<1>. QED  BY <1>4, <1>5, <1>6, <1>7 DEF DataOK

(* A worker that ends keeps its store.                                     *)
LEMMA ExitData ==
  ASSUME IndInv, NEW w \in Worker, DataOK(w), Fixed, workerState'[w] = "exited",
         store'[w] = store[w], outbox'[w] = outbox[w], computed'[w] = computed[w],
         images'[w] = images[w],
         \A i \in 1 .. Len(toDriver'[w]) :
           i \in 1 .. Len(toDriver[w]) /\ toDriver'[w][i] = toDriver[w][i],
         toDriver'[w] # << >> => toDriver[w] # << >>
  PROVE  DataOK(w)'
<1>1. /\ Own(w)' = Own(w) /\ Value(w)' = Value(w) /\ Loaded(w)' = Loaded(w)
      /\ (Unrecovered' <=> Unrecovered) /\ (BeforeLoad(w)' <=> BeforeLoad(w))
      /\ (Owes(w)' <=> Owes(w)) /\ Gone(w)'
  BY FixedMeans DEF Gone
<1>2. Unheard(w) => Unheard(w)'
  BY <1>1 DEF Fixed, Unheard
<1>3. StoreOK(w)'
  <2>1. /\ NoStrays(w)' <=> NoStrays(w)
        /\ Right(w)' <=> Right(w)
        /\ Restored(w)' => Restored(w)
        /\ Streamed(w) => Streamed(w)'
    BY <1>1 DEF Fixed, NoStrays, Right, IsMapOn, Restored, Streamed
  <2>. QED  BY <1>1, <1>2, <2>1 DEF DataOK, StoreOK, Fixed
<1>4. QueueOK(w)'
  BY <1>1 DEF QueueOK, HasLoad
<1>5. AnswersOK(w)'
  BY <1>1 DEF Fixed, DataOK, AnswersOK, Cut
<1>6. OutOK(w)'
  BY <1>1 DEF Fixed, DataOK, OutOK
<1>. QED  BY <1>3, <1>4, <1>5, <1>6 DEF DataOK

(* A worker that is asked has its partition.                               *)
LEMMA AskedData ==
  ASSUME IndInv, NEW w \in Worker, DataOK(w), workerState[w] = "serving",
         toWorker[w] # << >>, Asking(Head(toWorker[w]))
  PROVE  /\ Owes(w) /\ phase # "handshake" /\ toDriver[w] = << >>
         /\ Head(toWorker[w]).type = Question[phase]
         /\ Tail(toWorker[w]) = << >> /\ Len(toWorker[w]) = 1
         /\ Head(toWorker[w]) = toWorker[w][1]
         /\ ~Unrecovered /\ ~BeforeLoad(w) => Right(w)
<1>1. /\ Owes(w) /\ phase # "handshake" /\ toDriver[w] = << >>
      /\ Head(toWorker[w]).type = Question[phase]
      /\ Tail(toWorker[w]) = << >> /\ Len(toWorker[w]) = 1
      /\ Head(toWorker[w]) = toWorker[w][1]
  BY AskedLast DEF IndInv
<1>2. Head(toWorker[w]).type # "LoadGraph" /\ ~Gone(w)
  BY DEF Asking, Gone
<1>3. ~HasLoad(w)
  BY <1>1, <1>2, ShortQueue DEF HasLoad, Loading
<1>. QED  BY <1>1, <1>2, <1>3 DEF DataOK, StoreOK

LEMMA AnswerData ==
  ASSUME IndInv, NEW w \in Worker, NEW a, DataOK(w), Fixed, workerState[w] = "serving",
         toWorker[w] # << >>, Asking(Head(toWorker[w])), phase \notin Rounds,
         workerState'[w] = "serving", toWorker'[w] = Tail(toWorker[w]),
         toDriver'[w] = IF driverAlive THEN Append(toDriver[w], a) ELSE toDriver[w],
         outbox'[w] = outbox[w], StoreOK(w)',
         a.type \in {"Vertices", "VerticesDumped"} => a.vertices = Value(w),
         a.type = "CheckpointCreated" => Cut(w)'
  PROVE  DataOK(w)'
<1>1. /\ Owes(w) /\ toDriver[w] = << >> /\ toWorker'[w] = << >>
  BY AskedData
<1>2. Value(w)' = Value(w)
  BY FixedMeans
<1>3. \A i \in 1 .. Len(toDriver'[w]) : toDriver'[w][i] = a
  <2>1. CASE driverAlive
    <3>1. toDriver'[w] = Append(<< >>, a)
      BY <1>1, <2>1
    <3>2. IsQueue(<< >>) /\ Len(<< >>) = 0 /\ 0 + 1 = 1
      BY EmptyQueue
    <3>3. /\ Len(Append(<< >>, a)) = Len(<< >>) + 1
          /\ Append(<< >>, a)[Len(<< >>) + 1] = a
      BY <3>2, QueueAppend
    <3>4. Len(toDriver'[w]) = 1 /\ toDriver'[w][1] = a
      BY <3>1, <3>2, <3>3
    <3>. QED  BY <3>4, ShortQueue
  <2>2. CASE ~driverAlive
    BY <1>1, <2>2, EmptyQueue
  <2>. QED  BY <2>1, <2>2
<1>4. ~(phase = "checkpointed" /\ w < turn)
  BY <1>1, SizeAssumption DEF Owes, IndInv, Shape, Worker
<1>5. QueueOK(w)'
  <2>1. 1 .. Len(toWorker'[w]) = {}
    BY <1>1, EmptyQueue, ShortQueue
  <2>. QED  BY <2>1 DEF QueueOK, HasLoad
<1>6. AnswersOK(w)'
  BY <1>2, <1>3, <1>4 DEF AnswersOK, Fixed
<1>7. OutOK(w)'
  BY DEF DataOK, OutOK
<1>. QED  BY <1>5, <1>6, <1>7 DEF DataOK

LEMMA FetchData ==
  ASSUME IndInv, NEW w \in Worker, DataOK(w), Fixed,
         FetchVertices(w) \/ DumpVerticesCsv(w)
  PROVE  DataOK(w)'
<1>1. /\ workerState[w] = "serving" /\ toWorker[w] # << >>
      /\ Head(toWorker[w]).type \in {"FetchVertices", "DumpVerticesCsv"}
      /\ UNCHANGED <<workerState, workerVars>>
      /\ WorkerTakes(w)
  BY DEF FetchVertices, DumpVerticesCsv, Receives
<1>2. PICK a : /\ WorkerSends(w, a)
               /\ a.type \in {"Vertices", "VerticesDumped", "Error"}
               /\ a.type \in {"Vertices", "VerticesDumped"} => a.vertices = store[w].vertices
  <2>1. \A v : /\ [type |-> "Vertices", vertices |-> v].type = "Vertices"
               /\ [type |-> "Vertices", vertices |-> v].vertices = v
               /\ [type |-> "VerticesDumped", vertices |-> v].type = "VerticesDumped"
               /\ [type |-> "VerticesDumped", vertices |-> v].vertices = v
    OBVIOUS
  <2>2. [type |-> "Error"].type = "Error"
    OBVIOUS
  <2>. QED  BY <2>1, <2>2 DEF FetchVertices, DumpVerticesCsv
<1>3. Asking(Head(toWorker[w]))
  BY <1>1 DEF Asking
<1>4. phase \in {"fetch", "collect", "dumped"}
  BY <1>1, <1>3, AskedData DEF Question, Owes
<1>5. store[w].vertices = Value(w)
  BY <1>1, <1>3, <1>4, AskedData DEF Right, Unrecovered, BeforeLoad, Begin, Rounds
<1>6. /\ toWorker'[w] = Tail(toWorker[w])
      /\ toDriver'[w] = IF driverAlive THEN Append(toDriver[w], a) ELSE toDriver[w]
      /\ workerState'[w] = "serving" /\ outbox'[w] = outbox[w]
  BY <1>1, <1>2 DEF WorkerTakes, WorkerSends, workerVars, IndInv, Shape
<1>7. StoreOK(w)'
  <2>1. phase' = phase /\ store' = store /\ Value(w)' = Value(w)
    BY <1>1, FixedMeans DEF Fixed, workerVars
  <2>. QED  BY <2>1, <1>4, <1>5 DEF StoreOK, Right, BeforeLoad, Begin, Restored, Rounds,
            Unrecovered
<1>. QED  BY <1>1, <1>2, <1>3, <1>4, <1>5, <1>6, <1>7, AnswerData DEF Rounds

LEMMA CreateData ==
  ASSUME IndInv, NEW w \in Worker, DataOK(w), Fixed, CreateCheckpoint(w)
  PROVE  DataOK(w)'
<1>1. /\ workerState[w] = "serving" /\ toWorker[w] # << >>
      /\ Head(toWorker[w]).type = "CreateCheckpoint"
      /\ UNCHANGED <<workerState, store, outbox, computed>>
      /\ WorkerTakes(w)
  BY DEF CreateCheckpoint, Receives
<1>2. Asking(Head(toWorker[w]))
  BY <1>1 DEF Asking
<1>3. phase \in {"checkpoint", "checkpointed"}
  BY <1>1, <1>2, AskedData DEF Question, Owes
<1>4. store[w].vertices = Value(w)
  BY <1>1, <1>2, <1>3, AskedData DEF Right, Unrecovered, BeforeLoad, Begin, Rounds
<1>5. Head(toWorker[w]).iteration = iteration - 1
  <2>1. Len(toWorker[w]) = 1 /\ Head(toWorker[w]) = toWorker[w][1] /\ ~Gone(w)
    BY <1>1, <1>2, AskedData DEF Gone
  <2>2. FrameOK(w, 1)
    BY <2>1 DEF IndInv, WorkerOK, FramesOK
  <2>. QED  BY <2>1, <2>2, <1>1 DEF FrameOK
<1>6. PICK a : /\ WorkerSends(w, a)
               /\ a.type \notin {"Vertices", "VerticesDumped"}
               /\ a.type = "CheckpointCreated" =>
                    images' = [images EXCEPT ![w] =
                                 Merge(@, [i \in {iteration - 1} |-> store[w]])]
  <2>1. PICK e : e = [type |-> "Error"]
    OBVIOUS
  <2>2. PICK c : c = [type |-> "CheckpointCreated"]
    OBVIOUS
  <2>3. e.type = "Error" /\ c.type = "CheckpointCreated"
    BY <2>1, <2>2
  <2>4. \/ WorkerSends(w, e)
        \/ /\ WorkerSends(w, c)
           /\ images' = [images EXCEPT ![w] = Merge(@, [i \in {iteration - 1} |-> store[w]])]
    BY <1>5, <2>1, <2>2 DEF CreateCheckpoint
  <2>. QED  BY <2>3, <2>4
<1>7. /\ toWorker'[w] = Tail(toWorker[w])
      /\ toDriver'[w] = IF driverAlive THEN Append(toDriver[w], a) ELSE toDriver[w]
      /\ workerState'[w] = "serving" /\ outbox'[w] = outbox[w]
  BY <1>1, <1>6 DEF WorkerTakes, WorkerSends, IndInv, Shape
<1>8. phase' = phase /\ iteration' = iteration /\ Value(w)' = Value(w)
  BY FixedMeans DEF Fixed
<1>9. a.type = "CheckpointCreated" => Cut(w)'
  <2>. SUFFICES ASSUME a.type = "CheckpointCreated" PROVE Cut(w)'
    OBVIOUS
  <2>1. images'[w] = Merge(images[w], [i \in {iteration - 1} |-> store[w]])
    BY <1>6 DEF IndInv, Shape
  <2>2. iteration - 1 \in DOMAIN images'[w] /\ images'[w][iteration - 1] = store[w]
    BY <2>1 DEF Merge
  <2>. QED  BY <2>2, <1>4, <1>8 DEF Cut
<1>10. StoreOK(w)'
  BY <1>1, <1>3, <1>4, <1>8 DEF StoreOK, Right, BeforeLoad, Begin, Restored, Rounds,
     Unrecovered
<1>. QED  BY <1>1, <1>2, <1>3, <1>6, <1>7, <1>9, <1>10, AnswerData DEF Rounds

LEMMA RestoreData ==
  ASSUME IndInv, Common, NEW w \in Worker, DataOK(w), Fixed, LoadCheckpoint(w)
  PROVE  DataOK(w)'
<1>1. /\ workerState[w] = "serving" /\ toWorker[w] # << >>
      /\ Head(toWorker[w]).type = "LoadCheckpoint"
      /\ UNCHANGED <<workerState, outbox>>
      /\ WorkerTakes(w)
  BY DEF LoadCheckpoint, Receives
<1>2. Asking(Head(toWorker[w]))
  BY <1>1 DEF Asking
<1>3. phase \in {"restore", "restored"}
  BY <1>1, <1>2, AskedData DEF Question, Owes
<1>4. Head(toWorker[w]).iteration = saved.iteration
  <2>1. Len(toWorker[w]) = 1 /\ Head(toWorker[w]) = toWorker[w][1] /\ ~Gone(w)
    BY <1>1, <1>2, AskedData DEF Gone
  <2>2. FrameOK(w, 1)
    BY <2>1 DEF IndInv, WorkerOK, FramesOK
  <2>. QED  BY <2>1, <2>2, <1>1 DEF FrameOK
<1>5. Unrecovered
  BY <1>3 DEF Common, Unrecovered
<1>6. store'[w] = images[w][saved.iteration]
  <2>1. saved.iteration \in DOMAIN images[w]
    BY <1>5 DEF Common
  <2>2. images'[w] = Merge([i \in {saved.iteration} |->
                              [vertices |-> NoMail, edges |-> {}]], images[w])
    BY <1>4 DEF LoadCheckpoint, IndInv, Shape
  <2>3. images'[w][saved.iteration] = images[w][saved.iteration]
    BY <2>1, <2>2 DEF Merge
  <2>. QED  BY <2>3, <1>4 DEF LoadCheckpoint, Common
<1>7. store'[w].vertices = Value(w)
  BY <1>5, <1>6 DEF Common
<1>8. PICK a : /\ WorkerSends(w, a)
               /\ a.type \notin {"Vertices", "VerticesDumped", "CheckpointCreated"}
  <2>1. PICK a : a = [type |-> "CheckpointLoaded"]
    OBVIOUS
  <2>2. a.type = "CheckpointLoaded"
    BY <2>1
  <2>. QED  BY <2>1, <2>2 DEF LoadCheckpoint
<1>9. /\ toWorker'[w] = Tail(toWorker[w])
      /\ toDriver'[w] = IF driverAlive THEN Append(toDriver[w], a) ELSE toDriver[w]
      /\ workerState'[w] = "serving" /\ outbox'[w] = outbox[w]
  BY <1>1, <1>8 DEF WorkerTakes, WorkerSends, IndInv, Shape
<1>10. phase' = phase /\ Value(w)' = Value(w) /\ Unrecovered'
  BY <1>5, FixedMeans DEF Fixed
<1>11. StoreOK(w)'
  BY <1>3, <1>7, <1>10 DEF StoreOK, BeforeLoad, Begin
<1>. QED  BY <1>1, <1>2, <1>3, <1>8, <1>9, <1>11, AnswerData DEF Rounds

LEMMA StreamData ==
  ASSUME IndInv, Common, NEW w \in Worker, DataOK(w), Fixed, LoadGraphBatch(w)
  PROVE  DataOK(w)'
<1>. DEFINE b == Head(toWorker[w]).graph.vertices
<1>1. /\ workerState[w] = "serving" /\ toWorker[w] # << >>
      /\ Head(toWorker[w]).type = "LoadGraphBatch"
      /\ UNCHANGED <<workerState, outbox>>
      /\ WorkerTakes(w)
  BY DEF LoadGraphBatch, Receives
<1>2. Asking(Head(toWorker[w]))
  BY <1>1 DEF Asking
<1>3. phase \in {"loaded", "sealed"} /\ w = turn
  BY <1>1, <1>2, AskedData DEF Question, Owes
<1>4. Len(toWorker[w]) = 1 /\ Head(toWorker[w]) = toWorker[w][1] /\ ~Gone(w)
  BY <1>1, <1>2, AskedData DEF Gone
<1>5. Within(b, Loaded(w))
  BY <1>1, <1>4 DEF DataOK, QueueOK, Streams
<1>6. store'[w].vertices = Merge(store[w].vertices, b)
  BY DEF LoadGraphBatch, PutGraph, Common
<1>7. PICK a : /\ WorkerSends(w, a)
               /\ a.type \notin {"Vertices", "VerticesDumped", "CheckpointCreated"}
  <2>1. PICK a : a = [type |-> "GraphLoaded", last |-> Head(toWorker[w]).last]
    OBVIOUS
  <2>2. a.type = "GraphLoaded"
    BY <2>1
  <2>. QED  BY <2>1, <2>2 DEF LoadGraphBatch
<1>8. /\ toWorker'[w] = Tail(toWorker[w])
      /\ toDriver'[w] = IF driverAlive THEN Append(toDriver[w], a) ELSE toDriver[w]
      /\ workerState'[w] = "serving" /\ outbox'[w] = outbox[w]
  BY <1>1, <1>7 DEF WorkerTakes, WorkerSends, IndInv, Shape
<1>9. phase' = phase /\ turn' = turn /\ unloaded' = unloaded
      /\ Value(w)' = Value(w) /\ Own(w)' = Own(w)
  BY FixedMeans DEF Fixed
<1>10. IsMap(Loaded(w)) /\ DOMAIN Loaded(w) = Own(w)
       /\ \A v \in Own(w) : Loaded(w)[v] = Input.vertices[v]
  BY Partitions
<1>11. CASE phase = "loaded"
  <2>1. NoStrays(w) /\ Streamed(w)
    BY <1>11 DEF DataOK, StoreOK, BeforeLoad, Begin
  <2>2. NoStrays(w)'
    <3>1. IsMap(store[w].vertices) /\ IsMap(store'[w].vertices)
      BY <2>1, <1>6 DEF NoStrays, IsMap, Merge
    <3>. QED  BY <2>1, <3>1, <1>5, <1>6, <1>9, <1>10 DEF NoStrays, Merge, Within
  <2>3. \A v \in Own(w) :
          \/ v \in DOMAIN unloaded.vertices
          \/ v \in DOMAIN store[w].vertices /\ store[w].vertices[v] = Input.vertices[v]
          \/ v \in DOMAIN b
    BY <2>1, <1>4, ShortQueue DEF Streamed, Streams
  <2>4. \A v \in Own(w) :
          \/ v \in DOMAIN unloaded.vertices
          \/ v \in DOMAIN store'[w].vertices /\ store'[w].vertices[v] = Input.vertices[v]
    <3>. SUFFICES ASSUME NEW v \in Own(w), v \notin DOMAIN unloaded.vertices
                  PROVE  v \in DOMAIN store'[w].vertices
                           /\ store'[w].vertices[v] = Input.vertices[v]
      OBVIOUS
    <3>1. CASE v \in DOMAIN b
      BY <3>1, <1>5, <1>6, <1>10 DEF Merge, Within
    <3>2. CASE v \notin DOMAIN b
      BY <3>2, <2>3, <1>6 DEF Merge
    <3>. QED  BY <3>1, <3>2
  <2>5. Streamed(w)'
    BY <2>4, <1>9 DEF Streamed
  <2>6. StoreOK(w)'
    BY <2>2, <2>5, <1>9, <1>11 DEF StoreOK, BeforeLoad, Begin, Restored
  <2>. QED  BY <2>6, <1>1, <1>2, <1>7, <1>8, <1>11, AnswerData DEF Rounds
<1>12. CASE phase = "sealed"
  <2>1. store[w].vertices = Value(w)
    BY <1>1, <1>2, <1>12, AskedData DEF Right, Unrecovered, BeforeLoad, Begin, Rounds
  <2>2. Value(w) = Loaded(w)
    BY <1>12, Partitions DEF Common, Early, Unrecovered
  <2>3. store'[w].vertices = Value(w)
    BY <2>1, <2>2, <1>5, <1>6, <1>10, StoresAgain
  <2>4. StoreOK(w)'
    BY <2>3, <1>9, <1>12 DEF StoreOK, BeforeLoad, Begin, Restored, Right, Rounds
  <2>. QED  BY <2>4, <1>1, <1>2, <1>7, <1>8, <1>12, AnswerData DEF Rounds
<1>. QED  BY <1>3, <1>11, <1>12

LEMMA LoadData ==
  ASSUME IndInv, Common, NEW w \in Worker, DataOK(w), Fixed, LoadGraph(w)
  PROVE  DataOK(w)'
<1>1. /\ workerState[w] = "serving" /\ toWorker[w] # << >>
      /\ Head(toWorker[w]).type = "LoadGraph"
      /\ UNCHANGED <<toDriver, workerState, images, outbox, computed>>
      /\ toWorker'[w] = Tail(toWorker[w])
  BY DEF LoadGraph, Receives, WorkerTakes, IndInv, Shape
<1>2. /\ Len(toWorker[w]) \in Nat \ {0} /\ Head(toWorker[w]) = toWorker[w][1]
      /\ Len(toWorker'[w]) = Len(toWorker[w]) - 1
      /\ \A i \in 1 .. (Len(toWorker[w]) - 1) : toWorker'[w][i] = toWorker[w][i + 1]
  <2>1. IsQueue(toWorker[w])
    BY DEF IndInv, Shape
  <2>. QED  BY <1>1, <2>1, QueueTail
<1>3. 1 \in 1 .. Len(toWorker[w]) /\ ~Gone(w) /\ ~Gone(w)'
  BY <1>1, <1>2 DEF Gone
<1>4. HasLoad(w) /\ Unheard(w) /\ Head(toWorker[w]).graph.vertices = Loaded(w)
  BY <1>1, <1>2, <1>3 DEF DataOK, QueueOK, HasLoad, Loading
<1>5. store'[w].vertices = Merge(store[w].vertices, Loaded(w))
  BY <1>4 DEF LoadGraph, PutGraph, Common
<1>6. \A i \in 1 .. Len(toWorker'[w]) :
        \E j \in 1 .. Len(toWorker[w]) : toWorker'[w][i] = toWorker[w][j]
  <2>1. \A i \in 1 .. (Len(toWorker[w]) - 1) : i + 1 \in 1 .. Len(toWorker[w])
    BY <1>2
  <2>. QED  BY <2>1, <1>2
<1>7. /\ Own(w)' = Own(w) /\ Value(w)' = Value(w) /\ Loaded(w)' = Loaded(w)
      /\ (Unrecovered' <=> Unrecovered) /\ (BeforeLoad(w)' <=> BeforeLoad(w))
      /\ (Owes(w)' <=> Owes(w)) /\ (Unheard(w)' <=> Unheard(w))
  <2>1. Unheard(w)' <=> Unheard(w)
    BY <1>1, FixedMeans DEF Fixed, Unheard
  <2>. QED  BY <2>1, FixedMeans
<1>8. ~Unrecovered => store'[w].vertices = Value(w)
  <2>. SUFFICES ASSUME ~Unrecovered PROVE store'[w].vertices = Value(w)
    OBVIOUS
  <2>1. ~BeforeLoad(w)
    BY <1>4 DEF Unheard, BeforeLoad, Begin, IndInv, Shape, Worker
  <2>2. DOMAIN store[w].vertices \subseteq Own(w)
    <3>1. CASE Right(w)
      BY <3>1, <1>4, Partitions DEF Right, Unheard
    <3>2. CASE NoStrays(w)
      BY <3>2 DEF NoStrays
    <3>. QED  BY <2>1, <1>3, <3>1, <3>2 DEF DataOK, StoreOK
  <2>. QED  BY <2>2, <1>4, <1>5, LoadsAll DEF Unheard
<1>9. StoreOK(w)'
  <2>1. ~BeforeLoad(w)' /\ phase' \notin Begin
    BY <1>4, <1>7 DEF Unheard, BeforeLoad, Begin, Fixed, IndInv, Shape, Worker
  <2>2. ~Restored(w)'
    <3>1. 1 .. Len(toDriver'[w]) = {}
      BY <1>1, <1>4, EmptyQueue DEF Unheard
    <3>. QED  BY <1>1, <1>4, <3>1 DEF Unheard, Restored, Fixed, IndInv, Shape, Worker
  <2>3. ~(phase' \in Rounds /\ computed'[w] = iteration')
    BY <1>1, <1>4 DEF Unheard, Fixed
  <2>4. ~Unrecovered' => Right(w)'
    BY <2>3, <1>7, <1>8 DEF Right
  <2>. QED  BY <2>1, <2>2, <2>4 DEF StoreOK
<1>10. QueueOK(w)'
  BY <1>3, <1>4, <1>6, <1>7 DEF DataOK, QueueOK, Loading, Streams
<1>11. AnswersOK(w)'
  BY <1>1, <1>7 DEF Fixed, DataOK, AnswersOK, Cut
<1>12. OutOK(w)'
  BY <1>1, <1>7 DEF Fixed, DataOK, OutOK
<1>. QED  BY <1>9, <1>10, <1>11, <1>12 DEF DataOK

LEMMA ReadyData ==
  ASSUME IndInv, NEW w \in Worker, DataOK(w), Fixed, SendReady(w)
  PROVE  DataOK(w)'
<1>1. /\ workerState[w] = "accepted" /\ workerState'[w] = "serving"
      /\ UNCHANGED <<toWorker, workerVars>>
  BY DEF SendReady, Becomes, IndInv, Shape
<1>2. phase = "handshake" /\ toDriver[w] = << >>
  BY <1>1 DEF IndInv, WorkerOK, TalkOK, Idle, Asked, Answered
<1>3. ~HasLoad(w)
  BY <1>2 DEF DataOK, QueueOK, Unheard
<1>4. /\ Own(w)' = Own(w) /\ Loaded(w)' = Loaded(w) /\ ~Gone(w) /\ ~Gone(w)'
      /\ ~HasLoad(w)' /\ phase' = "handshake" /\ store' = store /\ outbox' = outbox
  BY <1>1, <1>2, <1>3, FixedMeans DEF Fixed, Gone, HasLoad, Loading, workerVars
<1>5. PICK a : WorkerSends(w, a) /\ a.type = "Ready"
  <2>1. PICK a : a = [type |-> "Ready"]
    OBVIOUS
  <2>2. a.type = "Ready"
    BY <2>1
  <2>. QED  BY <2>1, <2>2 DEF SendReady
<1>6. \A i \in 1 .. Len(toDriver'[w]) : toDriver'[w][i] = a
  <2>1. IsQueue(<< >>) /\ Len(<< >>) = 0 /\ 0 + 1 = 1
    BY EmptyQueue
  <2>2. /\ Len(Append(<< >>, a)) = Len(<< >>) + 1
        /\ Append(<< >>, a)[Len(<< >>) + 1] = a
    BY <2>1, QueueAppend
  <2>3. toDriver'[w] = << >> \/ toDriver'[w] = Append(<< >>, a)
    BY <1>2, <1>5 DEF WorkerSends, IndInv, Shape
  <2>. QED  BY <2>1, <2>2, <2>3, ShortQueue
<1>7. StoreOK(w)'
  <2>1. NoStrays(w) /\ Streamed(w)
    BY <1>2 DEF DataOK, StoreOK, BeforeLoad, Begin
  <2>2. NoStrays(w)'
    BY <2>1, <1>4 DEF NoStrays
  <2>3. Streamed(w)'
    BY <2>1, <1>2, <1>4 DEF Streamed, Fixed
  <2>. QED  BY <2>2, <2>3, <1>4 DEF StoreOK, BeforeLoad, Begin, Restored
<1>8. QueueOK(w)'
  BY <1>1, <1>4 DEF DataOK, QueueOK, Loading, Streams
<1>9. AnswersOK(w)'
  BY <1>4, <1>5, <1>6 DEF AnswersOK
<1>10. OutOK(w)'
  BY <1>2, <1>4 DEF DataOK, OutOK, Rounds
<1>. QED  BY <1>7, <1>8, <1>9, <1>10 DEF DataOK

LEMMA SuperstepData ==
  ASSUME IndInv, Common, NEW w \in Worker, DataOK(w), Fixed, ComputeSuperstep(w)
  PROVE  DataOK(w)'
<1>1. /\ phase \in Rounds /\ Owes(w) /\ algorithmSet[w] /\ toDriver[w] = << >>
      /\ Tail(toWorker[w]) = << >> /\ Head(toWorker[w]).iteration = iteration
  BY SuperstepBegins DEF IndInv, Rounds
<1>2. /\ workerState[w] = "serving" /\ toWorker[w] # << >>
      /\ Asking(Head(toWorker[w]))
  BY DEF ComputeSuperstep, Receives, Asking
<1>3. Right(w)
  BY <1>1, <1>2, AskedData DEF Unrecovered, BeforeLoad, Begin, Rounds
<1>4. DOMAIN store[w].vertices = Own(w)
  BY <1>3, Partitions DEF Right, IsMapOn
<1>5. /\ IsMap(store'[w].vertices) /\ DOMAIN store'[w].vertices = Own(w)
      /\ computed'[w] = iteration /\ toWorker'[w] = << >>
      /\ toDriver' = toDriver /\ workerState'[w] = "emitting" /\ images' = images
  <2>1. \E m, t, k : store'[w] = ProcessSuperstep(store[w], m, t, k).db
    BY <1>1 DEF ComputeSuperstep, Common
  <2>2. IsMap(store'[w].vertices) /\ DOMAIN store'[w].vertices = Own(w)
    BY <2>1, <1>4, SuperstepKeeps
  <2>. QED  BY <2>2, <1>1 DEF ComputeSuperstep, WorkerTakes, Becomes, IndInv, Shape
<1>6. phase' = phase /\ iteration' = iteration /\ Own(w)' = Own(w)
      /\ (Owes(w)' <=> Owes(w))
  BY FixedMeans DEF Fixed
<1>7. StoreOK(w)'
  <2>1. Right(w)'
    BY <1>1, <1>5, <1>6 DEF Right, IsMap, IsMapOn
  <2>. QED  BY <2>1, <1>1, <1>6 DEF StoreOK, BeforeLoad, Begin, Restored, Rounds
<1>8. QueueOK(w)'
  <2>1. 1 .. Len(toWorker'[w]) = {}
    BY <1>5, EmptyQueue, ShortQueue
  <2>. QED  BY <2>1 DEF QueueOK, HasLoad
<1>9. 1 .. Len(toDriver'[w]) = {}
  BY <1>1, <1>5, EmptyQueue, ShortQueue
<1>10. AnswersOK(w)'
  BY <1>1, <1>6, <1>9 DEF AnswersOK, Rounds
<1>11. OutOK(w)'
  BY <1>1, <1>6, <1>9 DEF OutOK
<1>. QED  BY <1>7, <1>8, <1>10, <1>11 DEF DataOK

LEMMA EmitData ==
  ASSUME IndInv, Common, NEW w \in Worker, DataOK(w), Fixed, EmitBatch(w)
  PROVE  DataOK(w)'
<1>1. /\ workerState[w] = "emitting"
      /\ UNCHANGED <<toWorker, store, images, computed>>
      /\ workerState'[w] \in {"serving", "emitting"}
  BY DEF EmitBatch, Becomes, IndInv, Shape
<1>2. /\ Owes(w) /\ phase \in Rounds
      /\ \A i \in 1 .. Len(toDriver[w]) : ~toDriver[w][i].last
  <2>1. Owes(w) /\ Answered(w)
    BY <1>1 DEF IndInv, WorkerOK, TalkOK, Idle, Asked
  <2>. QED  BY <2>1, <1>1 DEF Answered, Rounds
<1>3. ~Unheard(w) /\ ~HasLoad(w)
  BY <1>1 DEF Unheard, DataOK, QueueOK
<1>4. /\ phase' = phase /\ iteration' = iteration /\ Own(w)' = Own(w)
      /\ Value(w)' = Value(w) /\ Loaded(w)' = Loaded(w) /\ (Owes(w)' <=> Owes(w))
      /\ ~Gone(w) /\ ~Gone(w)' /\ ~HasLoad(w)'
  BY <1>1, <1>3, FixedMeans DEF Fixed, Gone, HasLoad, Loading
<1>5. PICK batch \in NextBatch(DOMAIN outbox[w]) :
        LET rest == DOMAIN outbox[w] \ batch
        IN  /\ WorkerSends(w, [ type   |-> "SuperstepResultBatch",
                                outbox |-> Restrict(outbox[w], batch),
                                last   |-> rest = {} ])
            /\ outbox' = [outbox EXCEPT ![w] = Restrict(@, rest)]
  BY DEF EmitBatch
<1>6. PICK a : a = [ type   |-> "SuperstepResultBatch",
                     outbox |-> Restrict(outbox[w], batch),
                     last   |-> DOMAIN outbox[w] \ batch = {} ]
  OBVIOUS
<1>7. /\ a.type = "SuperstepResultBatch" /\ WorkerSends(w, a)
      /\ outbox'[w] # NoMail => ~a.last
  <2>1. /\ a.type = "SuperstepResultBatch" /\ (a.last <=> DOMAIN outbox[w] \ batch = {})
        /\ WorkerSends(w, a)
    BY <1>5, <1>6
  <2>2. outbox'[w] = Restrict(outbox[w], DOMAIN outbox[w] \ batch)
    BY <1>5 DEF Common
  <2>. QED  BY <2>1, <2>2, EmptyMap
<1>8. \A i \in 1 .. Len(toDriver'[w]) :
        \/ i \in 1 .. Len(toDriver[w]) /\ toDriver'[w][i] = toDriver[w][i]
        \/ toDriver'[w][i] = a
  <2>1. IsQueue(toDriver[w])
    BY DEF IndInv, Shape
  <2>2. toDriver'[w] = toDriver[w] \/ toDriver'[w] = Append(toDriver[w], a)
    BY <1>7 DEF WorkerSends, IndInv, Shape
  <2>3. CASE toDriver'[w] = toDriver[w]
    BY <2>3
  <2>4. CASE toDriver'[w] = Append(toDriver[w], a)
    <3>1. /\ Len(toDriver[w]) \in Nat /\ Len(toDriver'[w]) = Len(toDriver[w]) + 1
          /\ \A i \in 1 .. Len(toDriver[w]) : toDriver'[w][i] = toDriver[w][i]
          /\ toDriver'[w][Len(toDriver[w]) + 1] = a
      BY <2>1, <2>4, QueueAppend
    <3>2. \A i \in 1 .. (Len(toDriver[w]) + 1) :
            i \in 1 .. Len(toDriver[w]) \/ i = Len(toDriver[w]) + 1
      BY <3>1
    <3>. QED  BY <3>1, <3>2
  <2>. QED  BY <2>2, <2>3, <2>4
<1>9. StoreOK(w)'
  <2>1. Right(w)
    BY <1>2, <1>3 DEF DataOK, StoreOK, BeforeLoad, Begin, Unrecovered, Rounds
  <2>2. Right(w)'
    BY <2>1, <1>1, <1>4 DEF Right, IsMapOn
  <2>. QED  BY <2>2, <1>2, <1>4 DEF StoreOK, BeforeLoad, Begin, Restored, Rounds
<1>10. QueueOK(w)'
  BY <1>1, <1>4 DEF DataOK, QueueOK, Loading, Streams
<1>11. AnswersOK(w)'
  <2>1. phase # "checkpointed"
    BY <1>2 DEF Rounds
  <2>. QED  BY <2>1, <1>1, <1>4, <1>7, <1>8 DEF DataOK, AnswersOK, Cut
<1>12. OutOK(w)'
  BY <1>2, <1>4, <1>7, <1>8 DEF OutOK
<1>. QED  BY <1>9, <1>10, <1>11, <1>12 DEF DataOK

LEMMA WorkerDataInd ==
  ASSUME IndInv, DataInv, NEW w \in Worker, WorkerActs(w)
  PROVE  DataInv'
<1>1. Fixed /\ found' = found /\ WorkerStep(w)
  BY DEF WorkerActs, driverVars, clusterVars, Fixed
<1>2. /\ \A u \in Worker \ {w} : SameWorker(u)
      /\ DOMAIN images' = Worker /\ DOMAIN images = Worker
  BY WorkerFrame DEF IndInv, Shape
<1>3. /\ DOMAIN store' = Worker /\ DOMAIN outbox' = Worker
      /\ \A u \in Worker \ {w} : store'[u] = store[u] /\ outbox'[u] = outbox[u]
  <2>. USE DEF DataInv, Common
  <2>1. CASE Bind(w) \/ SendReady(w) \/ FetchVertices(w) \/ DumpVerticesCsv(w)
             \/ Shutdown(w) \/ LosesDriver(w)
    BY <2>1 DEF Bind, SendReady, FetchVertices, DumpVerticesCsv, Shutdown, LosesDriver,
       workerVars
  <2>2. CASE LoadGraph(w) \/ LoadGraphBatch(w) \/ LoadCheckpoint(w)
    BY <2>2 DEF LoadGraph, LoadGraphBatch, LoadCheckpoint
  <2>3. CASE SetAlgorithm(w) \/ KeepBatch(w) \/ CreateCheckpoint(w)
    BY <2>3 DEF SetAlgorithm, KeepBatch, CreateCheckpoint
  <2>4. CASE ComputeSuperstep(w) \/ EmitBatch(w)
    BY <2>4 DEF ComputeSuperstep, EmitBatch
  <2>. QED  BY <1>1, <2>1, <2>2, <2>3, <2>4 DEF WorkerStep
<1>4. ASSUME NEW u \in Worker \ {w} PROVE DataOK(u)'
  <2>1. SameWorker(u) /\ DataOK(u)
    BY <1>2 DEF DataInv
  <2>2. Gone(u)' <=> Gone(u)
    BY <2>1 DEF SameWorker, Gone
  <2>. QED  BY <1>1, <1>3, <2>1, <2>2, QuietData DEF SameWorker
<1>5. DataOK(w)'
  <2>1. DataOK(w) /\ Common
    BY DEF DataInv
  <2>2. CASE Bind(w)
    <3>1. /\ UNCHANGED <<toWorker, toDriver, workerVars>>
          /\ workerState[w] = "down" /\ workerState'[w] = "listening"
      BY <2>2 DEF Bind, Becomes, channels, IndInv, Shape
    <3>2. Gone(w)' <=> Gone(w)
      BY <3>1 DEF Gone
    <3>. QED  BY <1>1, <2>1, <3>1, <3>2, QuietData DEF workerVars
  <2>3. CASE SetAlgorithm(w) \/ KeepBatch(w)
    <3>1. /\ UNCHANGED <<toDriver, store, outbox, computed, images, workerState>>
          /\ toWorker[w] # << >> /\ toWorker'[w] = Tail(toWorker[w])
          /\ Head(toWorker[w]).type \in {"SetAlgorithm", "SuperstepBatch"}
      BY <2>3 DEF SetAlgorithm, KeepBatch, Receives, WorkerTakes, IndInv, Shape
    <3>2. Gone(w)' <=> Gone(w)
      BY <3>1 DEF Gone
    <3>. QED  BY <1>1, <2>1, <3>1, <3>2, QuietData
  <2>4. CASE Shutdown(w) \/ LosesDriver(w)
    <3>1. UNCHANGED <<toDriver, workerVars>> /\ workerState'[w] = "exited"
      BY <2>4 DEF Shutdown, LosesDriver, Becomes, channels, IndInv, Shape
    <3>. QED  BY <1>1, <2>1, <3>1, ExitData DEF workerVars
  <2>. QED  BY <1>1, <2>1, <2>2, <2>3, <2>4, ReadyData, LoadData, StreamData,
            SuperstepData, EmitData, CreateData, RestoreData, FetchData DEF WorkerStep
<1>6. Common'
  <2>1. ASSUME Unrecovered', NEW u \in Worker
        PROVE  /\ saved'.iteration \in DOMAIN images'[u]
               /\ images'[u][saved'.iteration].vertices = Value(u)'
    <3>1. /\ saved'.iteration = saved.iteration /\ Value(u)' = Value(u)
          /\ saved.iteration \in DOMAIN images[u]
          /\ images[u][saved.iteration].vertices = Value(u)
      BY <1>1, <2>1, FixedMeans DEF DataInv, Common, Fixed
    <3>2. /\ saved.iteration \in DOMAIN images'[u]
          /\ images'[u][saved.iteration] = images[u][saved.iteration]
      <4>1. CASE images'[u] = images[u]
        BY <4>1, <3>1
      <4>2. CASE u = w /\ CreateCheckpoint(w) /\ images' # images
        <5>1. PICK k : /\ k \notin DOMAIN images[w]
                       /\ images'[w] = Merge(images[w], [i \in {k} |-> store[w]])
          BY <4>2, <1>2 DEF CreateCheckpoint
        <5>. QED  BY <5>1, <4>2, <3>1 DEF Merge
      <4>3. CASE u = w /\ LoadCheckpoint(w)
        <5>1. \E c : images'[w] = Merge(c, images[w])
          BY <4>3, <1>2 DEF LoadCheckpoint
        <5>. QED  BY <5>1, <4>3, <3>1 DEF Merge
      <4>4. \/ images' = images \/ CreateCheckpoint(w) \/ LoadCheckpoint(w)
        BY <1>1 DEF WorkerStep, Bind, SendReady, LoadGraph, LoadGraphBatch, SetAlgorithm,
           KeepBatch, ComputeSuperstep, EmitBatch, FetchVertices, DumpVerticesCsv,
           Shutdown, LosesDriver, workerVars
      <4>5. u # w => images'[u] = images[u]
        BY <1>2 DEF SameWorker
      <4>. QED  BY <4>1, <4>2, <4>3, <4>4, <4>5
    <3>. QED  BY <3>1, <3>2
  <2>2. Unrecovered' <=> Unrecovered
    BY <1>1 DEF Fixed, Unrecovered
  <2>. QED  BY <1>1, <1>3, <2>1, <2>2 DEF DataInv, Common, Fixed, OwnInboxes, IsMapOn, Within
<1>7. Collected'
  BY <1>1 DEF DataInv, Collected, Fixed
<1>. QED  BY <1>4, <1>5, <1>6, <1>7 DEF DataInv

(* Processes that die take nothing of it along.                            *)
LEMMA CrashDataInd ==
  ASSUME IndInv, DataInv,
         \/ \E w \in Worker : WorkerCrash(w)
         \/ DriverCrash
         \/ UNCHANGED vars
  PROVE  DataInv'
<1>1. Fixed /\ UNCHANGED workerVars
  BY DEF WorkerCrash, DriverCrash, vars, clusterVars, driverVars, Fixed
<1>2. Common'
  <2>1. Unrecovered' <=> Unrecovered
    BY <1>1 DEF Fixed, Unrecovered
  <2>2. \A u \in Worker : Value(u)' = Value(u)
    BY <1>1, FixedMeans
  <2>. QED  BY <1>1, <2>1, <2>2
            DEF DataInv, Common, Fixed, workerVars, OwnInboxes, IsMapOn, Within
<1>3. Collected'
  BY <1>1 DEF DataInv, Collected, Fixed
<1>4. ASSUME NEW w \in Worker, WorkerCrash(w), NEW u \in Worker PROVE DataOK(u)'
  <2>1. /\ workerState' = [workerState EXCEPT ![w] = "exited"]
        /\ toWorker' = [toWorker EXCEPT ![w] = << >>]
    BY <1>4 DEF WorkerCrash
  <2>2. PICK n \in 0 .. Len(toDriver[w]) :
          toDriver' = [toDriver EXCEPT ![w] = SubSeq(@, 1, n)]
    BY <1>4 DEF WorkerCrash
  <2>3. DataOK(u)
    BY DEF DataInv
  <2>4. CASE u # w
    <3>1. /\ toWorker'[u] = toWorker[u] /\ toDriver'[u] = toDriver[u]
          /\ workerState'[u] = workerState[u]
      BY <2>1, <2>2, <2>4 DEF IndInv, Shape
    <3>2. Gone(u)' <=> Gone(u)
      BY <3>1 DEF Gone
    <3>. QED  BY <1>1, <2>3, <3>1, <3>2, QuietData DEF workerVars
  <2>5. CASE u = w
    <3>1. toDriver'[w] = SubSeq(toDriver[w], 1, n) /\ workerState'[w] = "exited"
      BY <2>1, <2>2 DEF IndInv, Shape
    <3>2. IsQueue(toDriver[w])
      BY DEF IndInv, Shape
    <3>3. /\ Len(toDriver'[w]) = n /\ n <= Len(toDriver[w]) /\ Len(toDriver[w]) \in Nat
          /\ \A i \in 1 .. n : toDriver'[w][i] = toDriver[w][i]
          /\ toDriver'[w] # << >> => toDriver[w] # << >>
      BY <3>1, <3>2, QueuePrefix, LenProperties DEF IsQueue
    <3>4. \A i \in 1 .. n : i \in 1 .. Len(toDriver[w])
      BY <3>3
    <3>. QED  BY <1>1, <2>3, <2>5, <3>1, <3>3, <3>4, ExitData DEF workerVars
  <2>. QED  BY <2>4, <2>5
<1>5. ASSUME DriverCrash \/ UNCHANGED vars, NEW u \in Worker PROVE DataOK(u)'
  <2>1. UNCHANGED <<toWorker, toDriver, workerState>>
    BY <1>5 DEF DriverCrash, channels, vars
  <2>2. (Gone(u)' <=> Gone(u)) /\ DataOK(u)
    BY <2>1 DEF Gone, DataInv
  <2>. QED  BY <1>1, <2>1, <2>2, QuietData DEF workerVars
<1>. QED  BY <1>2, <1>3, <1>4, <1>5 DEF DataInv

(* A file operation that fails changes nothing but the connection.         *)
LEMMA FaultDataInd ==
  ASSUME IndInv, DataInv, NEW w \in Worker, WorkerFaults(w)
  PROVE  DataInv'
<1>1. Fixed /\ UNCHANGED <<workerVars, workerState, driverAlive>>
  BY FaultFrame DEF IndInv, Fixed, driverVars
<1>2. Common' /\ Collected'
  <2>1. Unrecovered' <=> Unrecovered
    BY <1>1 DEF Fixed, Unrecovered
  <2>2. \A u \in Worker : Value(u)' = Value(u)
    BY <1>1, FixedMeans
  <2>3. Common'
    BY <1>1, <2>1, <2>2
       DEF DataInv, Common, Fixed, workerVars, OwnInboxes, IsMapOn, Within
  <2>4. Collected'
    BY <1>1 DEF DataInv, Collected, Fixed
  <2>. QED  BY <2>3, <2>4
<1>3. ASSUME NEW u \in Worker \ {w} PROVE DataOK(u)'
  <2>1. SameWorker(u) /\ DataOK(u)
    BY FaultFrame DEF IndInv, DataInv
  <2>2. Gone(u)' <=> Gone(u)
    BY <2>1 DEF SameWorker, Gone
  <2>. QED  BY <1>1, <2>1, <2>2, QuietData DEF SameWorker, workerVars
<1>4. DataOK(w)'
  <2>1. /\ workerState[w] = "serving" /\ toWorker[w] # << >>
        /\ Head(toWorker[w]).type \in {"CreateCheckpoint", "LoadCheckpoint", "DumpVerticesCsv"}
        /\ WorkerTakes(w)
    BY DEF WorkerFaults, FileFails, Receives
  <2>2. Asking(Head(toWorker[w])) /\ DataOK(w)
    BY <2>1 DEF Asking, DataInv
  <2>3. /\ Owes(w) /\ Head(toWorker[w]).type = Question[phase] /\ toDriver[w] = << >>
        /\ ~Unrecovered /\ ~BeforeLoad(w) => Right(w)
    BY <2>1, <2>2, AskedData
  <2>4. phase \in FileCalls
    BY <2>1, <2>2, <2>3, AskedData DEF Question, Owes, FileCalls
  <2>5. PICK a : /\ a.type = "Error"
                 /\ toDriver'[w] = IF driverAlive THEN Append(toDriver[w], a) ELSE toDriver[w]
    <3>1. PICK a : a = [type |-> "Error"]
      OBVIOUS
    <3>2. WorkerSends(w, a) /\ a.type = "Error"
      BY <3>1, FaultFrame DEF IndInv
    <3>. QED  BY <3>2 DEF WorkerSends, IndInv, Shape
  <2>6. \A i \in 1 .. Len(toDriver'[w]) : toDriver'[w][i].type = "Error"
    <3>1. toDriver'[w] = << >> \/ toDriver'[w] = <<a>>
      BY <2>3, <2>5
    <3>2. Len(<<a>>) = 1 /\ <<a>>[1] = a
      OBVIOUS
    <3>3. Len(toDriver'[w]) = 0 \/ (Len(toDriver'[w]) = 1 /\ toDriver'[w][1] = a)
      BY <3>1, <3>2, EmptyQueue
    <3>. QED  BY <2>5, <3>3, ShortQueue
  <2>7. StoreOK(w)'
    <3>1. /\ ~BeforeLoad(w)' /\ phase' \notin Begin
          /\ Right(w)' <=> Right(w)
          /\ Unrecovered' <=> Unrecovered
      BY <1>1, <2>4, FixedMeans
         DEF FileCalls, BeforeLoad, Begin, Right, IsMapOn, Fixed, workerVars
    <3>2. ~Restored(w)'
      <4>1. ~(phase = "restored" /\ w < turn)
        BY <2>3, SizeAssumption DEF Owes, IndInv, Shape, Worker
      <4>. QED  BY <1>1, <2>6, <4>1 DEF Restored, Fixed
    <3>3. ~BeforeLoad(w)
      BY <2>4 DEF FileCalls, BeforeLoad, Begin
    <3>. QED  BY <2>3, <3>1, <3>2, <3>3 DEF StoreOK
  <2>8. phase \notin Rounds
    BY <2>4 DEF FileCalls, Rounds
  <2>9. workerState'[w] = "serving" /\ toWorker'[w] = Tail(toWorker[w])
        /\ outbox'[w] = outbox[w]
    BY <1>1, <2>1 DEF WorkerTakes, workerVars, IndInv, Shape
  <2>. QED  BY <1>1, <2>1, <2>2, <2>5, <2>7, <2>8, <2>9, AnswerData
<1>. QED  BY <1>2, <1>3, <1>4 DEF DataInv

LEMMA NextData == IndInv /\ DataInv /\ [Next]_vars => DataInv'
BY DriverDataInd, WorkerDataInd, FaultDataInd, CrashDataInd DEF Next

(* What a job starts from: the checkpoint it finds, if it looks for one.   *)
StartsFrom(s) ==
  /\ saved = s.saved
  /\ images = [w \in Worker |-> IF w \in DOMAIN s.images THEN s.images[w] ELSE << >>]
  /\ committed =
       IF Interval = 0 \/ s.saved.iteration = 0 THEN Input.vertices
       ELSE [v \in DOMAIN Input.vertices |->
               LET w == s.saved.inboxes.part[v]
               IN  s.images[w][s.saved.iteration].vertices[v]]

LEMMA InitCommitted ==
  ASSUME NEW s \in Starts, StartsFrom(s)
  PROVE  /\ IsMapOn(committed, DOMAIN Input.vertices)
         /\ phase = "connect" => Unrecovered \/ committed = Input.vertices
<1>1. s.saved.iteration \in Nat
  BY StartsAssumption
<1>2. Interval \in Nat
  BY IntervalAssumption
<1>3. IsMapOn(committed, DOMAIN Input.vertices)
  <2>1. CASE Interval = 0 \/ s.saved.iteration = 0
    BY <2>1, PartAssumption, Zenon DEF StartsFrom, IsMapOn
  <2>2. CASE ~(Interval = 0 \/ s.saved.iteration = 0)
    BY <2>2, Zenon DEF StartsFrom, IsMapOn
  <2>. QED  BY <2>1, <2>2
<1>4. Interval = 0 \/ s.saved.iteration = 0 => committed = Input.vertices
  BY DEF StartsFrom
<1>5. saved = s.saved
  BY DEF StartsFrom
<1>. QED  BY <1>1, <1>2, <1>3, <1>4, <1>5 DEF Unrecovered

LEMMA InitImages ==
  ASSUME OwnData, NEW s \in Starts, StartsFrom(s), Unrecovered, NEW w \in Worker
  PROVE  /\ saved.iteration \in DOMAIN images[w]
         /\ images[w][saved.iteration].vertices = Value(w)
<1>. DEFINE db == s.images[w][s.saved.iteration]
<1>1. saved = s.saved
  BY DEF StartsFrom
<1>2. Interval > 0 /\ s.saved.iteration > 0
  BY <1>1 DEF Unrecovered
<1>3. /\ w \in DOMAIN s.images /\ s.saved.iteration \in DOMAIN s.images[w]
      /\ IsMap(db.vertices) /\ DOMAIN db.vertices = DOMAIN PartitionOf(w).vertices
      /\ s.saved.inboxes = OwnInboxes
  BY <1>2 DEF OwnData
<1>4. DOMAIN db.vertices = Own(w)
  BY <1>3, Partitions
<1>5. s.saved.inboxes.part = Part
  BY <1>3 DEF OwnInboxes
<1>6. IsMap(Value(w)) /\ DOMAIN Value(w) = Own(w)
      /\ \A v \in Own(w) : Value(w)[v] = committed[v]
  BY Partitions
<1>7. images[w] = s.images[w]
  BY <1>3, Zenon DEF StartsFrom
<1>8. \A v \in Own(w) : committed[v] = db.vertices[v]
  <2>1. ~(Interval = 0 \/ s.saved.iteration = 0)
    <3>1. s.saved.iteration \in Nat
      BY StartsAssumption
    <3>2. Interval \in Nat
      BY IntervalAssumption
    <3>. QED  BY <1>2, <3>1, <3>2
  <2>2. committed = [v \in DOMAIN Input.vertices |->
                       s.images[Part[v]][s.saved.iteration].vertices[v]]
    BY <1>5, <2>1 DEF StartsFrom
  <2>. QED  BY <2>2 DEF Own
<1>9. db.vertices = Value(w)
  <2>1. IsMap(db.vertices) /\ DOMAIN db.vertices = Own(w)
    BY <1>3, <1>4
  <2>2. \A v \in Own(w) : db.vertices[v] = Value(w)[v]
    BY <1>6, <1>8
  <2>. HIDE DEF db
  <2>. QED  BY <2>1, <2>2, <1>6, SameMap
<1>. QED  BY <1>1, <1>3, <1>7, <1>9

LEMMA InitWorker ==
  ASSUME OwnData, NEW w \in Worker, phase = "connect", unloaded = Input,
         toWorker[w] = << >>, toDriver[w] = << >>, outbox[w] = NoMail,
         store[w] = Leftover[w]
  PROVE  DataOK(w)
<1>1. 1 .. Len(toWorker[w]) = {} /\ 1 .. Len(toDriver[w]) = {}
  BY EmptyQueue, ShortQueue
<1>2. NoStrays(w)
  BY Partitions DEF OwnData, NoStrays
<1>3. Streamed(w)
  BY DEF Streamed, Own
<1>4. StoreOK(w)
  BY <1>2, <1>3 DEF StoreOK, BeforeLoad, Begin, Restored
<1>5. QueueOK(w)
  BY <1>1 DEF QueueOK, HasLoad
<1>6. AnswersOK(w)
  BY <1>1 DEF AnswersOK
<1>7. OutOK(w)
  BY DEF OutOK
<1>. QED  BY <1>4, <1>5, <1>6, <1>7 DEF DataOK

LEMMA InitData ==
  ASSUME OwnData, Init
  PROVE  DataInv
<1>1. PICK s \in Starts : StartsFrom(s)
  BY Zenon DEF Init, StartsFrom
<1>2. /\ phase = "connect" /\ inboxes = OwnInboxes /\ unloaded = Input
      /\ DOMAIN store = Worker /\ DOMAIN outbox = Worker
  BY DEF Init, DriverInit, WorkerInit
<1>3. /\ IsMapOn(committed, DOMAIN Input.vertices)
      /\ Unrecovered \/ committed = Input.vertices
  BY <1>1, <1>2, InitCommitted
<1>4. Common
  <2>1. Within(unloaded.vertices, Input.vertices)
    BY <1>2 DEF Within
  <2>2. saved.inboxes = OwnInboxes
    BY <1>1 DEF OwnData, StartsFrom
  <2>3. Unrecovered =>
          \A w \in Worker : /\ saved.iteration \in DOMAIN images[w]
                            /\ images[w][saved.iteration].vertices = Value(w)
    BY <1>1, InitImages
  <2>. QED  BY <1>2, <1>3, <2>1, <2>2, <2>3 DEF Common, Early
<1>5. Collected
  <2>1. result = NoMail
    BY DEF Init, DriverInit
  <2>. QED  BY <1>2, <2>1 DEF Collected
<1>6. ASSUME NEW w \in Worker PROVE DataOK(w)
  <2>1. /\ toWorker[w] = << >> /\ toDriver[w] = << >>
        /\ outbox[w] = NoMail /\ store[w] = Leftover[w]
    BY DEF Init, WorkerInit
  <2>. QED  BY <1>2, <2>1, InitWorker
<1>. QED  BY <1>4, <1>5, <1>6 DEF DataInv

LEMMA DataInvariance ==
  ASSUME OwnData
  PROVE  Spec => [](IndInv /\ DataInv)
<1>1. Init => IndInv /\ DataInv
  BY InitIsInd, InitData
<1>2. IndInv /\ DataInv /\ [Next]_vars => (IndInv /\ DataInv)'
  BY NextInd, NextData
<1>. QED  BY <1>1, <1>2, PTL DEF Spec

----------------------------------------------------------------------------
(* What a job returns are the values of all vertices of the input after    *)
(* its last superstep, for a job that finds its own data: however the      *)
(* graph was divided and batched, and whatever of it is a checkpoint       *)
(* restored (fetch_vertices and dump_vertices_csv of driver.rs).           *)
THEOREM ResultsComplete ==
  ASSUME OwnData
  PROVE  Spec => []ResultComplete
<1>1. DataInv => ResultComplete
  BY DEF DataInv, Collected, ResultComplete
<1>. QED  BY <1>1, DataInvariance, PTL

(* A checkpoint that is published holds, for every worker, its values as   *)
(* of the superstep it is named after, and nothing that was sent in that   *)
(* superstep is on its way (create_checkpoint_all of driver.rs and run of  *)
(* scheduler/cycle_scheduler.rs).                                          *)
THEOREM CheckpointsAreCuts ==
  ASSUME OwnData
  PROVE  Spec => PublishedIsCut
<1>. DEFINE IsCut ==
       saved' # saved =>
         \A w \in Worker :
           /\ saved'.iteration \in DOMAIN images[w]
           /\ images[w][saved'.iteration].vertices =
                Restrict(committed, DOMAIN PartitionOf(w).vertices)
           /\ outbox[w] = NoMail /\ toDriver[w] = << >>
<1>1. IndInv /\ DataInv /\ [Next]_vars => [IsCut]_vars
  <2>. SUFFICES ASSUME IndInv, DataInv, Next, saved' # saved, NEW w \in Worker
                PROVE  /\ saved'.iteration \in DOMAIN images[w]
                       /\ images[w][saved'.iteration].vertices =
                            Restrict(committed, DOMAIN PartitionOf(w).vertices)
                       /\ outbox[w] = NoMail /\ toDriver[w] = << >>
    BY DEF vars
  <2>1. DriverActs
    BY DEF Next, WorkerActs, WorkerFaults, WorkerCrash, DriverCrash, driverVars
  <2>2. DriverMoves
    BY <2>1, DriverFrame DEF DataInv
  <2>3. /\ phase = "checkpointed" /\ turn > N /\ saved'.iteration = iteration - 1
    BY <2>2 DEF DriverMoves, GoesOn, Turns, Same
  <2>4. w < turn /\ ~(w >= turn)
    BY <2>3, SizeAssumption DEF IndInv, Shape, Worker
  <2>5. ~Owes(w)
    BY <2>3, <2>4 DEF Owes
  <2>6. toDriver[w] = << >>
    BY <2>5 DEF IndInv, WorkerOK, TalkOK, Idle
  <2>7. outbox[w] = NoMail
    BY <2>5 DEF DataInv, DataOK, OutOK
  <2>8. Cut(w)
    BY <2>3, <2>4 DEF DataInv, DataOK, AnswersOK
  <2>9. Value(w) = Restrict(committed, DOMAIN PartitionOf(w).vertices)
    <3>1. DOMAIN PartitionOf(w).vertices = Own(w)
      BY Partitions
    <3>. QED  BY <3>1 DEF Value
  <2>. QED  BY <2>3, <2>6, <2>7, <2>8, <2>9 DEF Cut
<1>2. PublishedIsCut <=> [][IsCut]_vars
  BY PTL DEF PublishedIsCut
<1>. QED  BY <1>1, <1>2, DataInvariance, PTL DEF Spec

----------------------------------------------------------------------------
(* The edges a worker stores.  A graph that is loaded in one frame         *)
(* replaces what is left of an earlier load; one that is streamed arrives  *)
(* in parts, each of which is somewhere.                                   *)
Replaced(S, w) ==
  \A e \in S : \E f \in PutEdges({}, PartitionOf(w).edges, 1) :
    f.src = e.src /\ f.at = e.at

Distinct(S) == \A d, e \in S : Plain(d) = Plain(e) => d = e

Stored(w) == {Plain(e) : e \in store[w].edges}

EdgesLoaded(w) ==
  /\ \/ HoldsEdges(store[w].edges, w)
     \/ /\ computed[w] = 0 /\ (BeforeLoad(w) \/ HasLoad(w) \/ Gone(w))
        /\ nonce[w] = 1 /\ Replaced(store[w].edges, w)
  /\ BeforeLoad(w) \/ HasLoad(w) => nonce[w] = 1 /\ Replaced(store[w].edges, w)
  /\ Gone(w) \/ \A i \in 1 .. Len(toWorker[w]) :
       /\ Loading(w, i) =>
            /\ toWorker[w][i].graph.edges = PartitionOf(w).edges
            /\ \A j \in 1 .. Len(toWorker[w]) : Loading(w, j) => j = i
       /\ ~Streams(w, i)

EdgesStreamed(w) ==
  /\ Distinct(store[w].edges) /\ Stored(w) \subseteq PartitionOf(w).edges
  /\ Stored(w) \cap unloaded.edges = {}
  /\ \A e \in store[w].edges : e.at[1] \in Nat /\ e.at[1] < nonce[w]
  /\ Gone(w) \/ \A i \in 1 .. Len(toWorker[w]) :
       /\ Streams(w, i) =>
            LET batch == toWorker[w][i].graph.edges
            IN  /\ batch \subseteq PartitionOf(w).edges
                /\ batch \cap unloaded.edges = {} /\ batch \cap Stored(w) = {}
       /\ ~Loading(w, i)
  /\ \A e \in PartitionOf(w).edges :
       \/ e \in unloaded.edges \/ e \in Stored(w)
       \/ /\ phase = "loaded" /\ w = turn /\ toDriver[w] = << >>
          /\ \/ Gone(w)
             \/ \E i \in 1 .. Len(toWorker[w]) :
                  Streams(w, i) /\ e \in toWorker[w][i].graph.edges

EdgesOK(w) == IF Streaming THEN EdgesStreamed(w) ELSE EdgesLoaded(w)

EdgeInv ==
  /\ \A w \in Worker :
       /\ EdgesOK(w)
       /\ Unrecovered => HoldsEdges(images[w][saved.iteration].edges, w)
  /\ unloaded.edges \subseteq Input.edges /\ nonce \in [Worker -> Nat]
  /\ phase \notin Begin /\ Streaming => unloaded.edges = {}

----------------------------------------------------------------------------
(* What the superstep of a round must do, whoever computes it.             *)
Share == TeleportAt(Input.vertices, NoTeleport, Max(DOMAIN Input.vertices))

OutOf(v) == {e \in Input.edges : e.src = v}

Result(v) ==
  ComputeVertex(v, committed[v], Cardinality(OutOf(v)), MailOf(mail, v),
                IF Algorithm = "wcc" THEN NoTeleport ELSE Share, iteration)

Messages(w) ==
  LET sends == {e \in store[w].edges : e.src \in Own(w) /\ Result(e.src).send # {}}
  IN  [e \in sends |-> CHOOSE m \in Result(e.src).send : TRUE]

Done(w) == phase \in Rounds /\ computed[w] = iteration

(* A worker computes a superstep once, ... *)
Once(w) == Done(w) => NoQuestion(w) /\ (phase = "send" => w < turn)

(* ... with the teleport of the job, ... *)
TeleportOK(w) ==
  Algorithm = "pagerank" =>
    /\ teleport[w] \in {NoTeleport, Share}
    /\ computed[w] > 0 =>
         /\ Own(w) = {} \/ teleport[w] = Share
         /\ Gone(w) \/ \A i \in 1 .. Len(toWorker[w]) : toWorker[w][i].type # "SetAlgorithm"

(* ... and what it sent is on its way, unless the connection was cut.      *)
Results(w, i) == toDriver[w][i].type = "SuperstepResultBatch"

Cutoff(w) ==
  \/ ~driverAlive
  \/ /\ Gone(w) /\ Owes(w)
     /\ \A i \in 1 .. Len(toDriver[w]) : Results(w, i) => ~toDriver[w][i].last

ResultsOK(w) ==
  /\ outbox[w] # NoMail => Done(w)
  /\ Done(w) =>
       /\ \A v \in Own(w) : store[w].vertices[v] = Result(v).value
       /\ IsMap(outbox[w]) /\ Within(outbox[w], Messages(w))
       /\ \A i \in 1 .. Len(toDriver[w]) :
            Results(w, i) => /\ IsMap(toDriver[w][i].outbox)
                             /\ Within(toDriver[w][i].outbox, Messages(w))
       /\ \A e \in DOMAIN Messages(w) :
            \/ e \in DOMAIN outbox[w] \/ e \in DOMAIN nextMail
            \/ \E i \in 1 .. Len(toDriver[w]) :
                 Results(w, i) /\ e \in DOMAIN toDriver[w][i].outbox
            \/ Cutoff(w)

MailOK(m) == IsMap(m) /\ IsMail(m) /\ Distinct(DOMAIN m)

Gathered ==
  /\ IsMap(nextMail)
  /\ \A e \in DOMAIN nextMail :
       \E w \in Worker : Done(w) /\ e \in DOMAIN Messages(w) /\ nextMail[e] = Messages(w)[e]

RoundInv ==
  /\ MailOK(mail) /\ \A v \in DOMAIN Input.vertices : committed[v] \in Int
  /\ Gathered /\ DOMAIN teleport = Worker
  /\ Unrecovered => MailOK(saved.mail) /\ Algorithm = "wcc"
  /\ phase \in Rounds => iteration <= MaxIterations
  /\ iteration = 1 => Unrecovered \/ (committed = Input.vertices /\ mail = NoMail)
  /\ \A w \in Worker : Once(w) /\ TeleportOK(w) /\ ResultsOK(w)

----------------------------------------------------------------------------
(* The edges of a partition.                                               *)
LEMMA EdgeParts ==
  ASSUME NEW w
  PROVE  /\ PartitionOf(w).edges = {e \in Input.edges : Part[e.src] = w}
         /\ PartitionOf(w)' = PartitionOf(w)
BY DEF PartitionOf, ShareOf

LEMMA EdgesSent ==
  ASSUME StreamBatch
  PROVE  \E u \in Worker : \E g :
           /\ SendGraphBatch(u, g, FALSE)
           /\ g.edges \subseteq unloaded.edges
           /\ \A e \in g.edges : Part[e.src] = u
           /\ unloaded'.edges = unloaded.edges \ g.edges
<1>. DEFINE Graph(batch) ==
       IF unloaded.vertices # NoMail
         THEN [vertices |-> Restrict(unloaded.vertices, batch), edges |-> {}]
         ELSE [vertices |-> NoMail, edges |-> batch]
<1>1. PICK u \in Worker :
        \E batch \in IF FileRead THEN {Unread(u)} ELSE kSubset(LoadEntries, Unread(u)) :
          /\ SendGraphBatch(u, Graph(batch), FALSE)
          /\ unloaded' = [ vertices |-> Restrict(unloaded.vertices,
                                          DOMAIN unloaded.vertices
                                            \ DOMAIN Graph(batch).vertices),
                           edges    |-> unloaded.edges \ Graph(batch).edges ]
  BY DEF StreamBatch
<1>2. PICK batch \in IF FileRead THEN {Unread(u)} ELSE kSubset(LoadEntries, Unread(u)) :
        /\ SendGraphBatch(u, Graph(batch), FALSE)
        /\ unloaded' = [ vertices |-> Restrict(unloaded.vertices,
                                        DOMAIN unloaded.vertices
                                          \ DOMAIN Graph(batch).vertices),
                         edges    |-> unloaded.edges \ Graph(batch).edges ]
  BY <1>1
<1>3. batch \subseteq Unread(u)
  BY <1>2 DEF kSubset
<1>4. PICK g : g = Graph(batch)
  OBVIOUS
<1>5. g.edges \subseteq unloaded.edges /\ \A e \in g.edges : Part[e.src] = u
  <2>1. CASE unloaded.vertices = NoMail
    BY <2>1, <1>3, <1>4 DEF Unread, ShareOf
  <2>2. CASE unloaded.vertices # NoMail
    BY <2>2, <1>4
  <2>. QED  BY <2>1, <2>2
<1>6. unloaded'.edges = unloaded.edges \ g.edges
  BY <1>2, <1>4
<1>. HIDE DEF Graph
<1>. QED  BY <1>2, <1>4, <1>5, <1>6

LEMMA LoadIsSent ==
  ASSUME IndInv, DriverActs, phase = "load", phase' = "load", turn' = turn + 1
  PROVE  LoadAll
<1>1. turn' # turn /\ DriverStep
  BY DEF IndInv, Shape, DriverActs
<1>2. DriverStep => LoadAll \/ NextCall \/ DriverFails
  BY DEF DriverStep, Connect, ReceiveReady, StreamBatch, StreamEnds, SealBatch,
     ReceiveGraphLoaded, SetAlgorithmAll, NextRound, SendBatch, ReceiveResult, EndRound,
     CreateCheckpointAll, ReceiveCreated, Publish, LoadCheckpointAll, ReceiveLoaded,
     Recover, FetchAll, ReceiveVertices, DumpPart, ReceiveDumped, ShutdownAll,
     SendsToAll, At, Through
<1>3. ~NextCall
  BY DEF NextCall, Goto, Successor, RunJobCalls, Graph500Calls
<1>4. ~DriverFails
  BY <1>1 DEF DriverFails, driverVars
<1>. QED  BY <1>1, <1>2, <1>3, <1>4

LEMMA SealIsSent ==
  ASSUME DriverActs, phase = "seal", phase' = "sealed"
  PROVE  SealBatch
<1>1. DriverStep => SealBatch \/ NextCall \/ DriverFails
  BY DEF DriverStep, Connect, ReceiveReady, LoadAll, StreamBatch, StreamEnds,
     ReceiveGraphLoaded, SetAlgorithmAll, NextRound, SendBatch, ReceiveResult, EndRound,
     CreateCheckpointAll, ReceiveCreated, Publish, LoadCheckpointAll, ReceiveLoaded,
     Recover, FetchAll, ReceiveVertices, DumpPart, ReceiveDumped, ShutdownAll,
     SendsToAll, At, Through
<1>2. ~NextCall /\ ~DriverFails
  BY DEF NextCall, DriverFails, driverVars, Goto, Successor, RunJobCalls, Graph500Calls
<1>. QED  BY <1>1, <1>2 DEF DriverActs

(* What the driver sends of the edges.                                     *)
EdgePuts(w) ==
  \/ toWorker'[w] = toWorker[w]
  \/ /\ ~Gone(w)
     /\ \E f : /\ toWorker'[w] = Append(toWorker[w], f)
               /\ f.type = "LoadGraph" =>
                    /\ phase = "load" /\ phase' = "load" /\ w = turn /\ turn' = turn + 1
                    /\ f.graph.edges = PartitionOf(w).edges
               /\ f.type = "LoadGraphBatch" =>
                    /\ phase \in {"stream", "seal"}
                    /\ f.graph.edges \subseteq PartitionOf(w).edges
                    /\ f.graph.edges \subseteq unloaded.edges
                    /\ f.graph.edges \cap unloaded'.edges = {}

EdgesLeft ==
  \/ unloaded' = unloaded
  \/ /\ phase = "stream" /\ phase' = "loaded" /\ turn' \in Worker
     /\ unloaded'.edges \subseteq unloaded.edges
     /\ \A e \in unloaded.edges \ unloaded'.edges :
          /\ Part[e.src] = turn'
          /\ Gone(turn') \/ \E f : /\ toWorker'[turn'] = Append(toWorker[turn'], f)
                                   /\ f.type = "LoadGraphBatch" /\ e \in f.graph.edges

(* Frames are told apart by what is appended.                              *)
LEMMA SameFrame ==
  ASSUME NEW s, IsQueue(s), NEW f, NEW g, Append(s, f) = Append(s, g)
  PROVE  f = g
BY QueueAppend

LEMMA EdgesMove ==
  ASSUME IndInv, unloaded.edges \subseteq Input.edges, DriverActs, DriverMoves
  PROVE  EdgesLeft /\ \A w \in Worker : EdgePuts(w)
<1>1. DOMAIN toWorker = Worker /\ \A w \in Worker : IsQueue(toWorker[w])
  BY DEF IndInv, Shape
<1>2. ASSUME StreamBatch
      PROVE  \E u \in Worker : \E f :
               /\ turn' = u /\ f.type = "LoadGraphBatch"
               /\ Gone(u) \/ toWorker'[u] = Append(toWorker[u], f)
               /\ f.graph.edges \subseteq unloaded.edges
               /\ \A e \in f.graph.edges : Part[e.src] = u
               /\ unloaded'.edges = unloaded.edges \ f.graph.edges
  <2>1. PICK u \in Worker : \E g :
           /\ SendGraphBatch(u, g, FALSE)
           /\ g.edges \subseteq unloaded.edges
           /\ \A e \in g.edges : Part[e.src] = u
           /\ unloaded'.edges = unloaded.edges \ g.edges
    BY <1>2, EdgesSent
  <2>2. PICK g :
           /\ SendGraphBatch(u, g, FALSE)
           /\ g.edges \subseteq unloaded.edges
           /\ \A e \in g.edges : Part[e.src] = u
           /\ unloaded'.edges = unloaded.edges \ g.edges
    BY <2>1
  <2>3. PICK f : f = [type |-> "LoadGraphBatch", graph |-> g, last |-> FALSE]
    OBVIOUS
  <2>4. f.type = "LoadGraphBatch" /\ f.graph.edges = g.edges /\ DriverSends(u, f) /\ turn' = u
    BY <2>2, <2>3 DEF SendGraphBatch
  <2>5. Gone(u) \/ toWorker'[u] = Append(toWorker[u], f)
    BY <1>1, <2>4 DEF DriverSends, Gone
  <2>. QED  BY <2>2, <2>4, <2>5
<1>3. EdgesLeft
  <2>1. CASE unloaded' = unloaded
    BY <2>1 DEF EdgesLeft
  <2>2. CASE unloaded' # unloaded
    <3>1. phase = "stream" /\ phase' = "loaded"
      BY <2>2 DEF DriverMoves, GoesOn, Turns
    <3>2. StreamBatch
      BY <3>1, BatchIsSent
    <3>. QED  BY <1>2, <3>1, <3>2 DEF EdgesLeft
  <2>. QED  BY <2>1, <2>2
<1>4. ASSUME NEW w \in Worker PROVE EdgePuts(w)
  <2>1. CASE toWorker'[w] = toWorker[w]
    BY <2>1 DEF EdgePuts
  <2>2. CASE toWorker'[w] # toWorker[w]
    <3>1. PICK f : /\ toWorker'[w] = Append(toWorker[w], f) /\ ~Gone(w)
                   /\ f.type = "LoadGraph" =>
                        phase = "load" /\ phase' = "load" /\ w = turn /\ turn' = turn + 1
                   /\ f.type = "LoadGraphBatch" =>
                        phase' \in {"loaded", "sealed"} /\ turn' = w
      BY <2>2 DEF DriverMoves, Puts
    <3>2. f.type = "LoadGraph" => f.graph.edges = PartitionOf(w).edges
      <4>. SUFFICES ASSUME f.type = "LoadGraph" PROVE f.graph.edges = PartitionOf(w).edges
        OBVIOUS
      <4>1. LoadAll
        BY <3>1, LoadIsSent
      <4>2. PICK h : h = [type |-> "LoadGraph", graph |-> PartitionOf(w)]
        OBVIOUS
      <4>3. DriverSends(w, h)
        BY <4>1, <4>2, <3>1 DEF LoadAll, SendsToAll
      <4>4. toWorker'[w] = Append(toWorker[w], h)
        BY <4>3, <3>1, <1>1 DEF DriverSends, Gone
      <4>5. f = h
        BY <4>4, <3>1, <1>1, SameFrame
      <4>. QED  BY <4>2, <4>5
    <3>3. f.type = "LoadGraphBatch" =>
            /\ phase \in {"stream", "seal"}
            /\ f.graph.edges \subseteq unloaded.edges
            /\ f.graph.edges \cap unloaded'.edges = {}
            /\ \A e \in f.graph.edges : Part[e.src] = w
      <4>. SUFFICES ASSUME f.type = "LoadGraphBatch"
                    PROVE  /\ phase \in {"stream", "seal"}
                           /\ f.graph.edges \subseteq unloaded.edges
                           /\ f.graph.edges \cap unloaded'.edges = {}
                           /\ \A e \in f.graph.edges : Part[e.src] = w
        OBVIOUS
      <4>1. toWorker' # toWorker
        BY <2>2
      <4>2. \/ phase = "stream" /\ phase' = "loaded"
            \/ phase = "seal" /\ phase' = "sealed"
        BY <3>1, <4>1 DEF DriverMoves, GoesOn, Turns
      <4>3. CASE phase = "stream"
        <5>1. StreamBatch
          BY <4>2, <4>3, BatchIsSent
        <5>2. PICK h : /\ h.type = "LoadGraphBatch"
                       /\ Gone(w) \/ toWorker'[w] = Append(toWorker[w], h)
                       /\ h.graph.edges \subseteq unloaded.edges
                       /\ \A e \in h.graph.edges : Part[e.src] = w
                       /\ unloaded'.edges = unloaded.edges \ h.graph.edges
          BY <5>1, <1>2, <3>1
        <5>3. f = h
          BY <5>2, <3>1, <1>1, SameFrame
        <5>. QED  BY <5>2, <5>3, <4>3
      <4>4. CASE phase = "seal"
        <5>1. SealBatch
          BY <4>2, <4>4, SealIsSent
        <5>2. PICK h : h = [type |-> "LoadGraphBatch",
                            graph |-> [vertices |-> NoMail, edges |-> {}], last |-> TRUE]
          OBVIOUS
        <5>3. DriverSends(w, h)
          BY <5>1, <5>2, <3>1 DEF SealBatch, SendGraphBatch
        <5>4. toWorker'[w] = Append(toWorker[w], h)
          BY <5>3, <3>1, <1>1 DEF DriverSends, Gone
        <5>5. f = h
          BY <5>4, <3>1, <1>1, SameFrame
        <5>6. f.graph.edges = {}
          BY <5>2, <5>5
        <5>. QED  BY <5>6, <4>4
      <4>. QED  BY <4>2, <4>3, <4>4
    <3>4. f.type = "LoadGraphBatch" => f.graph.edges \subseteq PartitionOf(w).edges
      BY <3>3, EdgeParts
    <3>. QED  BY <3>1, <3>2, <3>3, <3>4 DEF EdgePuts
  <2>. QED  BY <2>1, <2>2
<1>. QED  BY <1>3, <1>4

----------------------------------------------------------------------------
LEMMA LoadedDriver ==
  ASSUME IndInv, Common, DriverActs, DriverMoves, NEW w \in Worker, QueueOK(w),
         EdgePuts(w), ~Streaming, EdgesLoaded(w), store'[w] = store[w],
         nonce' = nonce, computed' = computed
  PROVE  EdgesLoaded(w)'
<1>1. /\ IsQueue(toWorker[w]) /\ (Gone(w)' <=> Gone(w))
      /\ PartitionOf(w)' = PartitionOf(w)
      /\ turn \in 1 .. (N + 1) /\ w \in 1 .. N /\ N \in Nat
  BY EdgeParts, SizeAssumption DEF IndInv, Shape, DriverMoves, Stays, Worker
<1>2. /\ Replaced(store[w].edges, w)' <=> Replaced(store[w].edges, w)
      /\ HoldsEdges(store[w].edges, w)' <=> HoldsEdges(store[w].edges, w)
  BY <1>1 DEF Replaced, HoldsEdges
<1>3. BeforeLoad(w)' => BeforeLoad(w)
  BY <1>1 DEF BeforeLoad, Begin, DriverMoves, GoesOn, Turns, Collecting, Successor,
     RunJobCalls, Graph500Calls
<1>4. BeforeLoad(w) /\ ~BeforeLoad(w)' =>
        phase = "load" /\ phase' = "load" /\ w = turn /\ turn' = turn + 1
  BY <1>1 DEF BeforeLoad, Begin, DriverMoves, GoesOn, Turns, Collecting, Successor,
     RunJobCalls, Graph500Calls, Common
<1>5. BeforeLoad(w) /\ ~BeforeLoad(w)' => Gone(w)' \/ HasLoad(w)'
  BY <1>4, LoadArrives
<1>6. CASE toWorker'[w] = toWorker[w]
  <2>1. HasLoad(w)' <=> HasLoad(w)
    BY <1>1, <1>6 DEF HasLoad, Loading
  <2>2. Gone(w)' \/ \A i \in 1 .. Len(toWorker'[w]) :
          /\ Loading(w, i)' =>
               /\ toWorker'[w][i].graph.edges = PartitionOf(w).edges
               /\ \A j \in 1 .. Len(toWorker'[w]) : Loading(w, j)' => j = i
          /\ ~Streams(w, i)'
    BY <1>1, <1>6 DEF EdgesLoaded, Loading, Streams
  <2>. QED  BY <2>1, <2>2, <1>1, <1>2, <1>3, <1>5 DEF EdgesLoaded
<1>7. ASSUME NEW f, ~Gone(w), toWorker'[w] = Append(toWorker[w], f),
             f.type = "LoadGraph" =>
               /\ phase = "load" /\ phase' = "load" /\ w = turn /\ turn' = turn + 1
               /\ f.graph.edges = PartitionOf(w).edges,
             f.type # "LoadGraphBatch"
      PROVE  EdgesLoaded(w)'
  <2>1. /\ Len(toWorker[w]) \in Nat /\ Len(toWorker'[w]) = Len(toWorker[w]) + 1
        /\ \A i \in 1 .. Len(toWorker[w]) : toWorker'[w][i] = toWorker[w][i]
        /\ toWorker'[w][Len(toWorker[w]) + 1] = f
    BY <1>1, <1>7, QueueAppend
  <2>2. \A i \in 1 .. Len(toWorker'[w]) :
          \/ i \in 1 .. Len(toWorker[w]) /\ toWorker'[w][i] = toWorker[w][i]
          \/ i = Len(toWorker[w]) + 1 /\ toWorker'[w][i] = f
    BY <2>1
  <2>3. f.type = "LoadGraph" => \A i \in 1 .. Len(toWorker[w]) : ~Loading(w, i)
    <3>1. f.type = "LoadGraph" => ~Unheard(w)
      BY <1>1, <1>7 DEF Unheard
    <3>. QED  BY <3>1, <1>7 DEF QueueOK, HasLoad
  <2>4. HasLoad(w)' => HasLoad(w) \/ f.type = "LoadGraph"
    BY <2>2, <1>7 DEF HasLoad, Loading
  <2>5. f.type = "LoadGraph" => BeforeLoad(w)
    BY <1>1, <1>7 DEF BeforeLoad
  <2>6. HasLoad(w) => HasLoad(w)'
    <3>1. \A i \in 1 .. Len(toWorker[w]) :
            i \in 1 .. Len(toWorker'[w]) /\ (Loading(w, i)' <=> Loading(w, i))
      BY <2>1 DEF Loading
    <3>. QED  BY <3>1, <1>1 DEF HasLoad
  <2>7. ~Gone(w) => \A i \in 1 .. Len(toWorker'[w]) :
          /\ Loading(w, i)' =>
               /\ toWorker'[w][i].graph.edges = PartitionOf(w).edges
               /\ \A j \in 1 .. Len(toWorker'[w]) : Loading(w, j)' => j = i
          /\ ~Streams(w, i)'
    <3>. SUFFICES ASSUME NEW i \in 1 .. Len(toWorker'[w])
                  PROVE  /\ Loading(w, i)' =>
                              /\ toWorker'[w][i].graph.edges = PartitionOf(w).edges
                              /\ \A j \in 1 .. Len(toWorker'[w]) : Loading(w, j)' => j = i
                         /\ ~Streams(w, i)'
      OBVIOUS
    <3>1. CASE i \in 1 .. Len(toWorker[w]) /\ toWorker'[w][i] = toWorker[w][i]
      BY <3>1, <2>2, <2>3, <1>7 DEF EdgesLoaded, Loading, Streams
    <3>2. CASE i = Len(toWorker[w]) + 1 /\ toWorker'[w][i] = f
      BY <3>2, <2>2, <2>3, <1>7 DEF EdgesLoaded, Loading, Streams
    <3>. QED  BY <2>2, <3>1, <3>2
  <2>. QED  BY <2>4, <2>5, <2>6, <2>7, <1>1, <1>2, <1>3, <1>5, <1>7 DEF EdgesLoaded
<1>. QED
  <2>1. phase \notin {"stream", "seal"}
    BY DEF Common
  <2>. QED  BY <2>1, <1>6, <1>7 DEF EdgePuts

LEMMA StreamedDriver ==
  ASSUME IndInv, Common, DriverActs, DriverMoves, NEW w \in Worker,
         unloaded.edges \subseteq Input.edges,
         EdgePuts(w), EdgesLeft, Streaming, EdgesStreamed(w), store'[w] = store[w],
         nonce' = nonce
  PROVE  EdgesStreamed(w)'
<1>1. /\ IsQueue(toWorker[w]) /\ (Gone(w)' <=> Gone(w))
      /\ PartitionOf(w)' = PartitionOf(w) /\ Stored(w)' = Stored(w)
      /\ DOMAIN toWorker = Worker
  BY EdgeParts DEF IndInv, Shape, DriverMoves, Stays, Stored
<1>2. unloaded'.edges \subseteq unloaded.edges
  BY DEF EdgesLeft
<1>3. \/ toWorker'[w] = toWorker[w]
      \/ ~Gone(w) /\ \E f : toWorker'[w] = Append(toWorker[w], f)
  BY DEF EdgePuts
<1>4. \A i \in 1 .. Len(toWorker[w]) :
        i \in 1 .. Len(toWorker'[w]) /\ toWorker'[w][i] = toWorker[w][i]
  BY <1>1, <1>3, QueueAppend
<1>5. Gone(w) \/ \A i \in 1 .. Len(toWorker'[w]) :
        /\ Streams(w, i)' =>
             /\ toWorker'[w][i].graph.edges \subseteq PartitionOf(w).edges
             /\ toWorker'[w][i].graph.edges \cap unloaded'.edges = {}
             /\ toWorker'[w][i].graph.edges \cap Stored(w) = {}
        /\ ~Loading(w, i)'
  <2>1. CASE toWorker'[w] = toWorker[w]
    BY <2>1, <1>2 DEF EdgesStreamed, Streams, Loading
  <2>2. ASSUME NEW f, ~Gone(w), toWorker'[w] = Append(toWorker[w], f),
               f.type # "LoadGraph",
               f.type = "LoadGraphBatch" =>
                 /\ f.graph.edges \subseteq PartitionOf(w).edges
                 /\ f.graph.edges \subseteq unloaded.edges
                 /\ f.graph.edges \cap unloaded'.edges = {}
        PROVE  \A i \in 1 .. Len(toWorker'[w]) :
                 /\ Streams(w, i)' =>
                      /\ toWorker'[w][i].graph.edges \subseteq PartitionOf(w).edges
                      /\ toWorker'[w][i].graph.edges \cap unloaded'.edges = {}
                      /\ toWorker'[w][i].graph.edges \cap Stored(w) = {}
                 /\ ~Loading(w, i)'
    <3>1. \A i \in 1 .. Len(toWorker'[w]) :
            \/ i \in 1 .. Len(toWorker[w]) /\ toWorker'[w][i] = toWorker[w][i]
            \/ toWorker'[w][i] = f
      BY <1>1, <2>2, QueueAppend
    <3>. TAKE i \in 1 .. Len(toWorker'[w])
    <3>2. CASE i \in 1 .. Len(toWorker[w]) /\ toWorker'[w][i] = toWorker[w][i]
      BY <3>2, <1>2, <2>2 DEF EdgesStreamed, Streams, Loading
    <3>3. CASE toWorker'[w][i] = f
      BY <3>3, <2>2 DEF EdgesStreamed, Streams, Loading
    <3>. QED  BY <3>1, <3>2, <3>3
  <2>3. phase # "load"
    BY DEF Common
  <2>. QED  BY <2>1, <2>2, <2>3 DEF EdgePuts
<1>6. \A e \in PartitionOf(w).edges :
        \/ e \in unloaded'.edges \/ e \in Stored(w)
        \/ /\ phase' = "loaded" /\ w = turn' /\ toDriver'[w] = << >>
           /\ \/ Gone(w)
              \/ \E i \in 1 .. Len(toWorker'[w]) :
                   Streams(w, i)' /\ e \in toWorker'[w][i].graph.edges
  <2>. SUFFICES ASSUME NEW e \in PartitionOf(w).edges, e \notin unloaded'.edges,
                       e \notin Stored(w)
                PROVE  /\ phase' = "loaded" /\ w = turn' /\ toDriver'[w] = << >>
                       /\ \/ Gone(w)
                          \/ \E i \in 1 .. Len(toWorker'[w]) :
                               Streams(w, i)' /\ e \in toWorker'[w][i].graph.edges
    OBVIOUS
  <2>1. CASE e \in unloaded.edges
    <3>1. /\ phase = "stream" /\ phase' = "loaded" /\ Part[e.src] = turn'
          /\ Gone(turn') \/ \E f : /\ toWorker'[turn'] = Append(toWorker[turn'], f)
                                   /\ f.type = "LoadGraphBatch" /\ e \in f.graph.edges
      BY <2>1 DEF EdgesLeft
    <3>2. w = turn'
      BY <3>1, EdgeParts
    <3>3. toDriver'[w] = << >>
      <4>1. toDriver[w] = << >>
        BY <3>1 DEF IndInv, WorkerOK, TalkOK, Owes, Idle
      <4>. QED  BY <4>1 DEF DriverMoves, Takes
    <3>4. CASE ~Gone(w)
      <4>1. PICK f : /\ toWorker'[w] = Append(toWorker[w], f)
                     /\ f.type = "LoadGraphBatch" /\ e \in f.graph.edges
        BY <3>1, <3>2, <3>4
      <4>2. /\ Len(toWorker'[w]) \in 1 .. Len(toWorker'[w])
            /\ toWorker'[w][Len(toWorker'[w])] = f
        BY <4>1, <1>1, QueueAppend
      <4>. QED  BY <4>1, <4>2, <3>1, <3>2, <3>3 DEF Streams
    <3>. QED  BY <3>1, <3>2, <3>3, <3>4
  <2>2. CASE e \notin unloaded.edges
    <3>1. /\ phase = "loaded" /\ w = turn /\ toDriver[w] = << >>
          /\ \/ Gone(w)
             \/ \E i \in 1 .. Len(toWorker[w]) :
                  Streams(w, i) /\ e \in toWorker[w][i].graph.edges
      BY <2>2 DEF EdgesStreamed
    <3>2. phase' = "loaded" /\ turn' = turn /\ toDriver'[w] = << >>
      BY <3>1 DEF DriverMoves, GoesOn, Turns, Heard, Successor, RunJobCalls, Graph500Calls
    <3>. QED  BY <3>1, <3>2, <1>4 DEF Streams
  <2>. QED  BY <2>1, <2>2
<1>7. /\ Distinct(store'[w].edges) /\ \A e \in store'[w].edges : e.at[1] \in Nat /\ e.at[1] < nonce'[w]
      /\ Stored(w) \subseteq PartitionOf(w).edges /\ Stored(w) \cap unloaded'.edges = {}
  BY <1>2 DEF EdgesStreamed
<1>8. \A d, e \in store'[w].edges : Plain(d)' = Plain(e)' => d = e
  BY <1>7 DEF Distinct, Plain
<1>9. Distinct(store[w].edges)' /\ Stored(w)' \subseteq PartitionOf(w).edges
      /\ Stored(w)' \cap unloaded'.edges = {}
  BY <1>1, <1>7, <1>8 DEF Distinct
<1>. QED  BY <1>1, <1>5, <1>6, <1>7, <1>9 DEF EdgesStreamed

LEMMA EdgeDriver ==
  ASSUME IndInv, DataInv, EdgeInv, DriverActs
  PROVE  EdgeInv'
<1>1. DriverMoves /\ Common /\ \A w \in Worker : DataOK(w)
  BY DriverFrame DEF DataInv
<1>2. /\ store' = store /\ nonce' = nonce /\ computed' = computed /\ images' = images
      /\ unloaded.edges \subseteq Input.edges
  BY <1>1 DEF DriverMoves, workerVars, EdgeInv
<1>3. EdgesLeft /\ \A w \in Worker : EdgePuts(w)
  BY <1>1, <1>2, EdgesMove
<1>4. ASSUME NEW w \in Worker PROVE EdgesOK(w)'
  <2>1. EdgesOK(w) /\ EdgePuts(w) /\ QueueOK(w) /\ store'[w] = store[w]
    BY <1>1, <1>2, <1>3 DEF EdgeInv, DataOK
  <2>2. CASE Streaming
    BY <2>1, <2>2, <1>1, <1>2, <1>3, StreamedDriver DEF EdgesOK
  <2>3. CASE ~Streaming
    BY <2>1, <2>3, <1>1, <1>2, LoadedDriver DEF EdgesOK
  <2>. QED  BY <2>2, <2>3
<1>5. Unrecovered' => Unrecovered /\ saved' = saved
  BY <1>1, IntervalAssumption, StreamingAssumption
     DEF Unrecovered, DriverMoves, GoesOn, Turns, Same, Collecting, Successor, RunJobCalls,
         Graph500Calls
<1>6. ASSUME Unrecovered', NEW w \in Worker
      PROVE  HoldsEdges(images[w][saved.iteration].edges, w)'
  BY <1>2, <1>5, <1>6, EdgeParts DEF EdgeInv, HoldsEdges
<1>7. phase' \notin Begin /\ Streaming => unloaded'.edges = {}
  <2>. SUFFICES ASSUME phase' \notin Begin, Streaming PROVE unloaded'.edges = {}
    OBVIOUS
  <2>1. CASE phase \notin Begin
    <3>1. unloaded' = unloaded
      BY <2>1, <1>3 DEF EdgesLeft, Begin
    <3>. QED  BY <2>1, <3>1 DEF EdgeInv
  <2>2. CASE phase \in Begin
    <3>1. unloaded' = unloaded /\ unloaded.edges = {}
      BY <2>2, <1>1 DEF DriverMoves, GoesOn, Turns, Begin, Successor, Graph500Calls
    <3>. QED  BY <3>1
  <2>. QED  BY <2>1, <2>2
<1>8. unloaded'.edges \subseteq Input.edges /\ nonce' \in [Worker -> Nat]
  BY <1>2, <1>3 DEF EdgesLeft, EdgeInv
<1>. QED  BY <1>4, <1>6, <1>7, <1>8 DEF EdgeInv

----------------------------------------------------------------------------
(* A worker that does not touch its edges, whatever else it does.          *)
LEMMA EdgesKept ==
  ASSUME IndInv, NEW w \in Worker, EdgesOK(w), Fixed,
         store'[w].edges = store[w].edges, nonce'[w] = nonce[w],
         computed'[w] = computed[w] \/ ~(BeforeLoad(w) \/ HasLoad(w) \/ Gone(w)),
         phase = "loaded" /\ toDriver[w] = << >> => toDriver'[w] = << >>,
         Gone(w) => Gone(w)',
         \/ Gone(w)'
         \/ toWorker'[w] = toWorker[w]
         \/ /\ toWorker[w] # << >> /\ toWorker'[w] = Tail(toWorker[w])
            /\ Head(toWorker[w]).type \notin {"LoadGraph", "LoadGraphBatch"}
  PROVE  EdgesOK(w)'
<1>1. /\ (BeforeLoad(w)' <=> BeforeLoad(w)) /\ PartitionOf(w)' = PartitionOf(w)
      /\ Stored(w)' = Stored(w) /\ unloaded' = unloaded /\ phase' = phase /\ turn' = turn
  BY FixedMeans, EdgeParts DEF Stored, Fixed
<1>2. /\ Replaced(store[w].edges, w)' <=> Replaced(store[w].edges, w)
      /\ HoldsEdges(store[w].edges, w)' <=> HoldsEdges(store[w].edges, w)
      /\ Distinct(store[w].edges)' <=> Distinct(store[w].edges)
  BY <1>1 DEF Replaced, HoldsEdges, Distinct
<1>3. CASE Gone(w)'
  <2>1. ~HasLoad(w)'
    BY <1>3 DEF HasLoad
  <2>2. CASE Streaming
    BY <2>2, <1>1, <1>2, <1>3 DEF EdgesOK, EdgesStreamed
  <2>3. CASE ~Streaming
    <3>1. \/ HoldsEdges(store[w].edges, w)
          \/ computed'[w] = 0 /\ nonce[w] = 1 /\ Replaced(store[w].edges, w)
      BY <2>3 DEF EdgesOK, EdgesLoaded
    <3>2. BeforeLoad(w) => nonce[w] = 1 /\ Replaced(store[w].edges, w)
      BY <2>3 DEF EdgesOK, EdgesLoaded
    <3>. QED  BY <3>1, <3>2, <2>1, <2>3, <1>1, <1>2, <1>3 DEF EdgesOK, EdgesLoaded
  <2>. QED  BY <2>2, <2>3
<1>4. CASE ~Gone(w)'
  <2>0. /\ ~Gone(w)
        /\ \/ toWorker'[w] = toWorker[w]
           \/ /\ toWorker[w] # << >> /\ toWorker'[w] = Tail(toWorker[w])
              /\ Head(toWorker[w]).type \notin {"LoadGraph", "LoadGraphBatch"}
    BY <1>4
  <2>. DEFINE to == toWorker[w]
              too == toWorker'[w]
  <2>1. /\ \A i \in 1 .. Len(too) :
             \E j \in 1 .. Len(to) : too[i] = to[j]
        /\ \A j \in 1 .. Len(to) :
             \/ to[j].type \notin {"LoadGraph", "LoadGraphBatch"}
             \/ \E i \in 1 .. Len(too) : too[i] = to[j]
        /\ (\A i, j \in 1 .. Len(to) :
              to[i].type = "LoadGraph" /\ to[j].type = "LoadGraph" => i = j)
           => (\A i, j \in 1 .. Len(too) :
                 too[i].type = "LoadGraph" /\ too[j].type = "LoadGraph" => i = j)
    <3>1. CASE too = to
      BY <3>1
    <3>2. CASE /\ to # << >> /\ too = Tail(to)
               /\ Head(to).type \notin {"LoadGraph", "LoadGraphBatch"}
      <4>1. IsQueue(to)
        BY DEF IndInv, Shape
      <4>2. /\ Len(too) = Len(to) - 1 /\ Len(to) \in Nat \ {0} /\ Head(to) = to[1]
            /\ \A i \in 1 .. (Len(to) - 1) : too[i] = to[i + 1]
        BY <3>2, <4>1, QueueTail
      <4>. HIDE DEF to, too
      <4>3. \A i \in 1 .. (Len(to) - 1) : i + 1 \in 1 .. Len(to)
        BY <4>2
      <4>4. \A j \in 1 .. Len(to) :
              j = 1 \/ (j - 1 \in 1 .. (Len(to) - 1) /\ (j - 1) + 1 = j)
        BY <4>2
      <4>5. ASSUME NEW j \in 1 .. Len(to), j # 1
            PROVE  \E i \in 1 .. Len(too) : too[i] = to[j]
        BY <4>2, <4>4, <4>5
      <4>6. ASSUME \A i, j \in 1 .. Len(to) :
                     to[i].type = "LoadGraph" /\ to[j].type = "LoadGraph" => i = j,
                   NEW i \in 1 .. Len(too), NEW j \in 1 .. Len(too),
                   too[i].type = "LoadGraph", too[j].type = "LoadGraph"
            PROVE  i = j
        <5>0. /\ i \in 1 .. (Len(to) - 1) /\ j \in 1 .. (Len(to) - 1)
              /\ too[i] = to[i + 1] /\ too[j] = to[j + 1]
              /\ i + 1 \in 1 .. Len(to) /\ j + 1 \in 1 .. Len(to)
          BY <4>2, <4>3
        <5>1. i + 1 = j + 1
          BY <5>0, <4>6
        <5>. QED  BY <5>1, <4>2
      <4>. QED  BY <3>2, <4>2, <4>3, <4>5, <4>6
    <3>. QED  BY <2>0, <3>1, <3>2
  <2>2. HasLoad(w)' <=> HasLoad(w)
    BY <1>4, <2>0, <2>1 DEF HasLoad, Loading
  <2>3. CASE Streaming
    <3>1. \A i \in 1 .. Len(too) :
            /\ too[i].type = "LoadGraphBatch" =>
                 LET batch == too[i].graph.edges
                 IN  /\ batch \subseteq PartitionOf(w).edges
                     /\ batch \cap unloaded.edges = {} /\ batch \cap Stored(w) = {}
            /\ ~(too[i].type = "LoadGraph")
      <4>1. \A i \in 1 .. Len(to) :
              /\ to[i].type = "LoadGraphBatch" =>
                   LET batch == to[i].graph.edges
                   IN  /\ batch \subseteq PartitionOf(w).edges
                       /\ batch \cap unloaded.edges = {} /\ batch \cap Stored(w) = {}
              /\ ~(to[i].type = "LoadGraph")
        BY <2>0, <2>3 DEF EdgesOK, EdgesStreamed, Streams, Loading
      <4>2. \A i \in 1 .. Len(too) : \E j \in 1 .. Len(to) : too[i] = to[j]
        BY <2>1
      <4>. QED  BY <4>1, <4>2
    <3>2. ASSUME NEW e \in PartitionOf(w).edges, e \notin unloaded.edges, e \notin Stored(w)
          PROVE  /\ phase = "loaded" /\ w = turn /\ toDriver'[w] = << >>
                 /\ \E i \in 1 .. Len(too) :
                      too[i].type = "LoadGraphBatch" /\ e \in too[i].graph.edges
      <4>1. /\ phase = "loaded" /\ w = turn /\ toDriver[w] = << >>
            /\ \E i \in 1 .. Len(to) :
                 to[i].type = "LoadGraphBatch" /\ e \in to[i].graph.edges
        BY <2>0, <2>3, <3>2 DEF EdgesOK, EdgesStreamed, Streams
      <4>2. PICK j \in 1 .. Len(to) :
              to[j].type = "LoadGraphBatch" /\ e \in to[j].graph.edges
        BY <4>1
      <4>3. PICK i \in 1 .. Len(too) : too[i] = to[j]
        BY <4>2, <2>1
      <4>4. toDriver'[w] = << >>
        BY <4>1
      <4>. HIDE DEF to, too
      <4>. QED  BY <4>1, <4>2, <4>3, <4>4
    <3>3. /\ Distinct(store[w].edges) /\ Stored(w) \subseteq PartitionOf(w).edges
          /\ Stored(w) \cap unloaded.edges = {}
          /\ \A e \in store'[w].edges : e.at[1] \in Nat /\ e.at[1] < nonce'[w]
      BY <2>3 DEF EdgesOK, EdgesStreamed
    <3>. QED  BY <3>1, <3>2, <3>3, <2>3, <1>1, <1>2 DEF EdgesOK, EdgesStreamed, Streams, Loading
  <2>4. CASE ~Streaming
    <3>1. EdgesLoaded(w)
      BY <2>4 DEF EdgesOK
    <3>2. \A i, j \in 1 .. Len(to) :
            to[i].type = "LoadGraph" /\ to[j].type = "LoadGraph" => i = j
      BY <2>0, <3>1 DEF EdgesLoaded, Loading
    <3>3. \A i \in 1 .. Len(too) :
            /\ too[i].type = "LoadGraph" => too[i].graph.edges = PartitionOf(w).edges
            /\ ~(too[i].type = "LoadGraphBatch")
      BY <2>0, <2>1, <3>1 DEF EdgesLoaded, Loading, Streams
    <3>4. EdgesLoaded(w)'
      <4>1. Gone(w)' \/ \A i \in 1 .. Len(toWorker'[w]) :
              /\ Loading(w, i)' =>
                   /\ toWorker'[w][i].graph.edges = PartitionOf(w)'.edges
                   /\ \A j \in 1 .. Len(toWorker'[w]) : Loading(w, j)' => j = i
              /\ ~Streams(w, i)'
        BY <3>2, <3>3, <2>1, <1>1 DEF Loading, Streams
      <4>2. \/ HoldsEdges(store[w].edges, w)
            \/ /\ computed[w] = 0 /\ (BeforeLoad(w) \/ HasLoad(w) \/ Gone(w))
               /\ nonce[w] = 1 /\ Replaced(store[w].edges, w)
        BY <3>1 DEF EdgesLoaded
      <4>3. BeforeLoad(w) \/ HasLoad(w) => nonce[w] = 1 /\ Replaced(store[w].edges, w)
        BY <3>1 DEF EdgesLoaded
      <4>. QED  BY <4>1, <4>2, <4>3, <2>0, <2>2, <1>1, <1>2 DEF EdgesLoaded
    <3>. QED  BY <3>4, <2>4 DEF EdgesOK
  <2>. QED  BY <2>3, <2>4
<1>. QED  BY <1>3, <1>4

(* What put_edge_batch stores are the edges it is given, once each.        *)
LEMMA PutStores ==
  ASSUME NEW edges, NEW new, new \subseteq Input.edges, NEW n
  PROVE  LET S == PutEdges({}, new, n)
         IN  /\ PutEdges(edges, new, n) =
                  S \cup {e \in edges : \A f \in S : ~(f.src = e.src /\ f.at = e.at)}
             /\ {Plain(e) : e \in S} = new /\ Distinct(S)
             /\ \A e \in S : e.at[1] = n
<1>. DEFINE Put(e) == [src |-> e.src, dst |-> e.dst, key |-> e.key,
                       at  |-> Suffix(e, new, n)]
            S == {Put(e) : e \in new}
<1>1. PutEdges({}, new, n) = S
  BY DEF PutEdges
<1>2. PutEdges(edges, new, n) =
        S \cup {e \in edges : \A f \in S : ~(f.src = e.src /\ f.at = e.at)}
  BY DEF PutEdges
<1>3. \A e \in new : e = [src |-> e.src, dst |-> e.dst, key |-> e.key]
  BY InputAssumption
<1>4. \A e \in new : Plain(Put(e)) = e
  BY <1>3 DEF Plain
<1>5. \A e \in new : Put(e).at[1] = n
  BY DEF Suffix
<1>. HIDE DEF Put
<1>6. {Plain(e) : e \in S} = new
  BY <1>4
<1>7. Distinct(S)
  BY <1>4 DEF Distinct
<1>8. \A e \in S : e.at[1] = n
  BY <1>5
<1>. QED  BY <1>1, <1>2, <1>6, <1>7, <1>8

(* A graph that comes in one frame replaces what is left of an earlier     *)
(* load ...                                                                *)
LEMMA LoadEdges ==
  ASSUME IndInv, Common, NEW w \in Worker, DataOK(w), EdgesOK(w), nonce \in [Worker -> Nat],
         Fixed, LoadGraph(w)
  PROVE  EdgesOK(w)'
<1>1. /\ workerState[w] = "serving" /\ toWorker[w] # << >>
      /\ Head(toWorker[w]).type = "LoadGraph"
      /\ workerState' = workerState /\ toWorker'[w] = Tail(toWorker[w])
  BY DEF LoadGraph, Receives, WorkerTakes, IndInv, Shape
<1>2. /\ Len(toWorker[w]) \in Nat \ {0} /\ Head(toWorker[w]) = toWorker[w][1]
      /\ Len(toWorker'[w]) = Len(toWorker[w]) - 1
      /\ \A i \in 1 .. (Len(toWorker[w]) - 1) : toWorker'[w][i] = toWorker[w][i + 1]
  <2>1. IsQueue(toWorker[w])
    BY DEF IndInv, Shape
  <2>. QED  BY <1>1, <2>1, QueueTail
<1>3. 1 \in 1 .. Len(toWorker[w]) /\ ~Gone(w) /\ ~Gone(w)' /\ Loading(w, 1)
  BY <1>1, <1>2 DEF Gone, Loading
<1>4. HasLoad(w) /\ Unheard(w)
  BY <1>3 DEF DataOK, QueueOK, HasLoad
<1>5. ~Streaming /\ ~BeforeLoad(w)
  BY <1>4 DEF Unheard, BeforeLoad, Begin, IndInv, Shape, Worker
<1>6. EdgesLoaded(w) /\ nonce[w] = 1 /\ Replaced(store[w].edges, w)
  BY <1>4, <1>5 DEF EdgesOK, EdgesLoaded
<1>7. Head(toWorker[w]).graph.edges = PartitionOf(w).edges
  BY <1>2, <1>3, <1>6 DEF EdgesLoaded
<1>8. store'[w].edges = PutEdges(store[w].edges, PartitionOf(w).edges, 1)
  BY <1>6, <1>7 DEF LoadGraph, PutGraph, Common
<1>9. HoldsEdges(store'[w].edges, w)
  <2>1. PartitionOf(w).edges \subseteq Input.edges
    BY EdgeParts
  <2>. DEFINE old == store[w].edges
              new == PartitionOf(w).edges
  <2>2. PICK S : S = PutEdges({}, new, 1)
    OBVIOUS
  <2>3. /\ store'[w].edges =
             S \cup {e \in old : \A f \in S : ~(f.src = e.src /\ f.at = e.at)}
        /\ {Plain(e) : e \in S} = new /\ Distinct(S)
    <3>1. store'[w].edges = PutEdges(old, new, 1)
      BY <1>8
    <3>2. new \subseteq Input.edges
      BY <2>1
    <3>. HIDE DEF old, new
    <3>. QED  BY <3>1, <3>2, <2>2, PutStores
  <2>4. store'[w].edges = S
    BY <2>2, <2>3, <1>6 DEF Replaced
  <2>. QED  BY <2>3, <2>4 DEF HoldsEdges, Distinct
<1>10. /\ ~BeforeLoad(w)' /\ PartitionOf(w)' = PartitionOf(w)
  BY <1>5, FixedMeans, EdgeParts
<1>11. \A i \in 1 .. Len(toWorker'[w]) : ~Loading(w, i)' /\ ~Streams(w, i)'
  <2>. SUFFICES ASSUME NEW i \in 1 .. (Len(toWorker[w]) - 1)
                PROVE  toWorker[w][i + 1].type \notin {"LoadGraph", "LoadGraphBatch"}
    BY <1>2 DEF Loading, Streams
  <2>1. i + 1 \in 1 .. Len(toWorker[w]) /\ i + 1 # 1
    BY <1>2
  <2>2. ~Loading(w, i + 1) /\ ~Streams(w, i + 1)
    BY <2>1, <1>3, <1>6 DEF EdgesLoaded
  <2>. QED  BY <2>2 DEF Loading, Streams
<1>12. ~HasLoad(w)'
  BY <1>11 DEF HasLoad
<1>13. HoldsEdges(store[w].edges, w)'
  BY <1>9, <1>10 DEF HoldsEdges
<1>. QED  BY <1>5, <1>10, <1>11, <1>12, <1>13 DEF EdgesOK, EdgesLoaded

(* ... and one that comes in parts is stored next to what is there.        *)
LEMMA StreamEdges ==
  ASSUME IndInv, Common, NEW w \in Worker, DataOK(w), EdgesOK(w), nonce \in [Worker -> Nat],
         Fixed, LoadGraphBatch(w)
  PROVE  EdgesOK(w)'
<1>. DEFINE new == Head(toWorker[w]).graph.edges
            old == store[w].edges
<1>1. /\ workerState[w] = "serving" /\ toWorker[w] # << >>
      /\ Head(toWorker[w]).type = "LoadGraphBatch"
      /\ workerState' = workerState /\ toWorker'[w] = Tail(toWorker[w])
  BY DEF LoadGraphBatch, Receives, WorkerTakes, IndInv, Shape
<1>2. Asking(Head(toWorker[w]))
  BY <1>1 DEF Asking
<1>3. phase \in {"loaded", "sealed"} /\ w = turn
  BY <1>1, <1>2, AskedData DEF Question, Owes
<1>4. /\ Len(toWorker[w]) = 1 /\ Head(toWorker[w]) = toWorker[w][1] /\ ~Gone(w)
      /\ toWorker'[w] = << >> /\ Streams(w, 1)
  BY <1>1, <1>2, AskedData DEF Gone, Streams
<1>5. Streaming /\ EdgesStreamed(w)
  BY <1>3 DEF Common, EdgesOK
<1>6. new \subseteq PartitionOf(w).edges /\ new \cap unloaded.edges = {}
      /\ new \cap Stored(w) = {}
  <2>1. 1 \in 1 .. Len(toWorker[w])
    BY <1>4
  <2>2. /\ toWorker[w][1].graph.edges \subseteq PartitionOf(w).edges
        /\ toWorker[w][1].graph.edges \cap unloaded.edges = {}
        /\ toWorker[w][1].graph.edges \cap Stored(w) = {}
    BY <2>1, <1>4, <1>5 DEF EdgesStreamed
  <2>. QED  BY <2>2, <1>4
<1>7. /\ store'[w].edges = PutEdges(old, new, nonce[w])
      /\ nonce'[w] = IF new = {} THEN nonce[w] ELSE nonce[w] + 1
      /\ nonce[w] \in Nat
  BY DEF LoadGraphBatch, PutGraph, Common
<1>8. PICK S : S = PutEdges({}, new, nonce[w])
  OBVIOUS
<1>9. /\ store'[w].edges = S \cup {e \in old : \A f \in S : ~(f.src = e.src /\ f.at = e.at)}
      /\ {Plain(e) : e \in S} = new /\ Distinct(S) /\ \A e \in S : e.at[1] = nonce[w]
  <2>1. new \subseteq Input.edges
    BY <1>6, EdgeParts
  <2>. HIDE DEF new, old
  <2>. QED  BY <1>7, <1>8, <2>1, PutStores
<1>10. /\ Distinct(old) /\ Stored(w) \subseteq PartitionOf(w).edges
       /\ Stored(w) \cap unloaded.edges = {} /\ \A e \in old : e.at[1] \in Nat /\ e.at[1] < nonce[w]
       /\ Stored(w) = {Plain(e) : e \in old}
  BY <1>5 DEF EdgesStreamed, Stored
<1>. HIDE DEF new, old
<1>11. store'[w].edges = S \cup old
  <2>1. \A e \in old : \A f \in S : f.at # e.at
    BY <1>7, <1>9, <1>10
  <2>. QED  BY <2>1, <1>9
<1>12. {Plain(e) : e \in store'[w].edges} = new \cup Stored(w)
  BY <1>9, <1>10, <1>11
<1>13. Distinct(store'[w].edges)
  <2>. SUFFICES ASSUME NEW d \in S \cup old, NEW e \in S \cup old, Plain(d) = Plain(e)
                PROVE  d = e
    BY <1>11 DEF Distinct
  <2>1. CASE d \in S /\ e \in S
    BY <2>1, <1>9 DEF Distinct
  <2>2. CASE d \in old /\ e \in old
    BY <2>2, <1>10 DEF Distinct
  <2>3. \A x \in S, y \in old : Plain(x) # Plain(y)
    BY <1>6, <1>9, <1>10
  <2>. QED  BY <2>1, <2>2, <2>3
<1>14. \A e \in store'[w].edges : e.at[1] \in Nat /\ e.at[1] < nonce'[w]
  <2>1. CASE new = {}
    <3>1. S = {}
      BY <2>1, <1>9
    <3>. QED  BY <2>1, <3>1, <1>7, <1>10, <1>11
  <2>2. CASE new # {}
    <3>1. \A e \in old : e.at[1] \in Nat /\ e.at[1] < nonce[w] + 1
      <4>. SUFFICES ASSUME NEW e \in old PROVE e.at[1] \in Nat /\ e.at[1] < nonce[w] + 1
        OBVIOUS
      <4>1. e.at[1] \in Nat /\ e.at[1] < nonce[w]
        BY <1>10
      <4>. QED  BY <4>1, <1>7
    <3>2. \A e \in S : e.at[1] \in Nat /\ e.at[1] < nonce[w] + 1
      BY <1>7, <1>9
    <3>. QED  BY <2>2, <3>1, <3>2, <1>7, <1>11
  <2>. QED  BY <2>1, <2>2
<1>15. \A e \in PartitionOf(w).edges :
         e \in unloaded.edges \/ e \in new \/ e \in Stored(w)
  <2>. SUFFICES ASSUME NEW e \in PartitionOf(w).edges,
                       e \notin unloaded.edges, e \notin Stored(w)
                PROVE  e \in new
    OBVIOUS
  <2>1. PICK i \in 1 .. Len(toWorker[w]) : e \in toWorker[w][i].graph.edges
    BY <1>4, <1>5 DEF EdgesStreamed
  <2>2. i = 1
    BY <2>1, <1>4, ShortQueue
  <2>. QED  BY <2>1, <2>2, <1>4 DEF new
<1>16. 1 .. Len(toWorker'[w]) = {}
  BY <1>4, EmptyQueue, ShortQueue
<1>17. unloaded' = unloaded /\ PartitionOf(w)' = PartitionOf(w)
  BY EdgeParts DEF Fixed
<1>18. Stored(w)' = new \cup Stored(w)
  BY <1>12 DEF Stored
<1>19. Distinct(store[w].edges)'
  BY <1>13 DEF Distinct, Plain
<1>20. Stored(w)' \subseteq PartitionOf(w).edges /\ Stored(w)' \cap unloaded.edges = {}
  BY <1>6, <1>10, <1>18
<1>21. \A e \in PartitionOf(w).edges : e \in unloaded.edges \/ e \in Stored(w)'
  BY <1>15, <1>18
<1>22. EdgesStreamed(w)'
  BY <1>14, <1>16, <1>17, <1>19, <1>20, <1>21 DEF EdgesStreamed
<1>. QED  BY <1>5, <1>22 DEF EdgesOK

(* A checkpoint's directory has the edges of the partition.                *)
LEMMA RestoreEdges ==
  ASSUME IndInv, Common, NEW w \in Worker, DataOK(w), EdgesOK(w), Fixed, LoadCheckpoint(w),
         Unrecovered => HoldsEdges(images[w][saved.iteration].edges, w)
  PROVE  EdgesOK(w)'
<1>1. /\ workerState[w] = "serving" /\ toWorker[w] # << >>
      /\ Head(toWorker[w]).type = "LoadCheckpoint"
      /\ workerState' = workerState /\ nonce' = nonce
      /\ toWorker'[w] = Tail(toWorker[w])
  BY DEF LoadCheckpoint, Receives, WorkerTakes, IndInv, Shape
<1>2. Asking(Head(toWorker[w]))
  BY <1>1 DEF Asking
<1>3. phase \in {"restore", "restored"} /\ ~Streaming
  BY <1>1, <1>2, AskedData DEF Question, Owes, Common
<1>4. /\ Len(toWorker[w]) = 1 /\ Head(toWorker[w]) = toWorker[w][1] /\ ~Gone(w)
      /\ toWorker'[w] = << >>
  BY <1>1, <1>2, AskedData DEF Gone
<1>5. Head(toWorker[w]).iteration = saved.iteration
  <2>1. 1 \in 1 .. Len(toWorker[w])
    BY <1>4
  <2>2. FrameOK(w, 1)
    BY <2>1, <1>4 DEF IndInv, WorkerOK, FramesOK
  <2>. QED  BY <2>2, <1>1, <1>4 DEF FrameOK
<1>6. Unrecovered
  BY <1>3 DEF Common, Unrecovered
<1>7. store'[w] = images[w][saved.iteration]
  <2>1. saved.iteration \in DOMAIN images[w]
    BY <1>6 DEF Common
  <2>2. images'[w] = Merge([i \in {saved.iteration} |->
                              [vertices |-> NoMail, edges |-> {}]], images[w])
    BY <1>5 DEF LoadCheckpoint, IndInv, Shape
  <2>3. images'[w][saved.iteration] = images[w][saved.iteration]
    BY <2>1, <2>2 DEF Merge
  <2>. QED  BY <2>3, <1>5 DEF LoadCheckpoint, Common
<1>8. PartitionOf(w)' = PartitionOf(w) /\ phase' = phase /\ turn' = turn
  BY EdgeParts DEF Fixed
<1>9. HoldsEdges(store[w].edges, w)'
  BY <1>6, <1>7, <1>8 DEF HoldsEdges
<1>10. 1 .. Len(toWorker'[w]) = {}
  BY <1>4, EmptyQueue, ShortQueue
<1>11. ~BeforeLoad(w)' /\ ~HasLoad(w)'
  BY <1>3, <1>8, <1>10 DEF BeforeLoad, Begin, HasLoad
<1>. QED  BY <1>3, <1>9, <1>10, <1>11 DEF EdgesOK, EdgesLoaded

----------------------------------------------------------------------------
(* The directories of checkpoints stay what they are.                      *)
LEMMA ImageKept ==
  ASSUME IndInv, NEW w \in Worker, WorkerActs(w), NEW u \in Worker,
         NEW k \in DOMAIN images[u]
  PROVE  images'[u][k] = images[u][k]
<1>1. /\ \A x \in Worker \ {w} : SameWorker(x)
      /\ DOMAIN images' = Worker /\ DOMAIN images = Worker /\ WorkerStep(w)
  BY WorkerFrame DEF IndInv, Shape, WorkerActs
<1>2. CASE images'[u] = images[u]
  BY <1>2
<1>3. CASE u = w /\ CreateCheckpoint(w) /\ images' # images
  <2>1. PICK n : /\ n \notin DOMAIN images[w]
                 /\ images'[w] = Merge(images[w], [i \in {n} |-> store[w]])
    BY <1>1, <1>3 DEF CreateCheckpoint
  <2>. QED  BY <2>1, <1>3 DEF Merge
<1>4. CASE u = w /\ LoadCheckpoint(w)
  <2>1. PICK c : images'[w] = Merge(c, images[w])
    BY <1>4, <1>1 DEF LoadCheckpoint
  <2>. QED  BY <2>1, <1>4 DEF Merge
<1>5. images' = images \/ CreateCheckpoint(w) \/ LoadCheckpoint(w)
  BY <1>1 DEF WorkerStep, Bind, SendReady, LoadGraph, LoadGraphBatch, SetAlgorithm,
     KeepBatch, ComputeSuperstep, EmitBatch, FetchVertices, DumpVerticesCsv,
     Shutdown, LosesDriver, workerVars
<1>6. u # w => images'[u] = images[u]
  BY <1>1 DEF SameWorker
<1>. QED  BY <1>2, <1>3, <1>4, <1>5, <1>6

(* The variables of the workers that are not in SameWorker.                *)
OtherWorkers(w) ==
  /\ DOMAIN store' = Worker /\ DOMAIN outbox' = Worker /\ DOMAIN teleport' = Worker
  /\ nonce' \in [Worker -> Nat]
  /\ \A u \in Worker \ {w} :
       /\ store'[u] = store[u] /\ outbox'[u] = outbox[u]
       /\ nonce'[u] = nonce[u] /\ teleport'[u] = teleport[u]

LEMMA OtherFrame ==
  ASSUME NEW w \in Worker, WorkerStep(w), nonce \in [Worker -> Nat],
         DOMAIN store = Worker, DOMAIN outbox = Worker, DOMAIN teleport = Worker
  PROVE  OtherWorkers(w)
<1>. USE DEF OtherWorkers
<1>1. CASE Bind(w) \/ SendReady(w) \/ FetchVertices(w) \/ DumpVerticesCsv(w)
           \/ Shutdown(w) \/ LosesDriver(w)
  BY <1>1 DEF Bind, SendReady, FetchVertices, DumpVerticesCsv, Shutdown, LosesDriver,
     workerVars
<1>2. CASE LoadGraph(w) \/ LoadGraphBatch(w)
  BY <1>2 DEF LoadGraph, LoadGraphBatch
<1>3. CASE SetAlgorithm(w) \/ KeepBatch(w) \/ CreateCheckpoint(w) \/ LoadCheckpoint(w)
  BY <1>3 DEF SetAlgorithm, KeepBatch, CreateCheckpoint, LoadCheckpoint
<1>4. CASE ComputeSuperstep(w) \/ EmitBatch(w)
  BY <1>4 DEF ComputeSuperstep, EmitBatch
<1>. QED  BY <1>1, <1>2, <1>3, <1>4 DEF WorkerStep

LEMMA EdgeWorker ==
  ASSUME IndInv, DataInv, EdgeInv, DOMAIN teleport = Worker, NEW w \in Worker, WorkerActs(w)
  PROVE  EdgeInv'
<1>1. Fixed /\ WorkerStep(w) /\ DataOK(w) /\ EdgesOK(w) /\ Common
      /\ nonce \in [Worker -> Nat]
  BY DEF WorkerActs, driverVars, clusterVars, Fixed, DataInv, EdgeInv
<1>2. (\A u \in Worker \ {w} : SameWorker(u)) /\ OtherWorkers(w)
  BY <1>1, WorkerFrame, OtherFrame DEF IndInv, Common
<1>3. ASSUME NEW u \in Worker \ {w} PROVE EdgesOK(u)'
  <2>1. SameWorker(u) /\ EdgesOK(u) /\ store'[u] = store[u] /\ nonce'[u] = nonce[u]
    BY <1>2 DEF EdgeInv, OtherWorkers
  <2>2. Gone(u) => Gone(u)'
    BY <2>1 DEF SameWorker, Gone
  <2>. QED  BY <1>1, <2>1, <2>2, EdgesKept DEF SameWorker
<1>4. EdgesOK(w)'
  <2>1. CASE Bind(w) \/ SendReady(w)
    <3>1. /\ UNCHANGED <<toWorker, workerVars>> /\ workerState[w] \in {"down", "accepted"}
          /\ Bind(w) => toDriver' = toDriver
      BY <2>1 DEF Bind, SendReady, channels
    <3>2. SendReady(w) => phase = "handshake"
      BY DEF SendReady, IndInv, WorkerOK, TalkOK, Idle, Asked, Answered
    <3>3. ~Gone(w)
      BY <3>1 DEF Gone
    <3>. QED  BY <2>1, <3>1, <3>2, <3>3, <1>1, EdgesKept DEF workerVars
  <2>2. CASE SetAlgorithm(w) \/ KeepBatch(w)
    <3>1. /\ UNCHANGED <<toDriver, store, nonce, computed, workerState>>
          /\ toWorker[w] # << >> /\ toWorker'[w] = Tail(toWorker[w])
          /\ Head(toWorker[w]).type \in {"SetAlgorithm", "SuperstepBatch"}
      BY <2>2 DEF SetAlgorithm, KeepBatch, Receives, WorkerTakes, IndInv, Shape
    <3>2. Gone(w) => Gone(w)'
      BY <3>1 DEF Gone
    <3>. QED  BY <1>1, <3>1, <3>2, EdgesKept
  <2>3. CASE Shutdown(w) \/ LosesDriver(w)
    <3>1. UNCHANGED <<toDriver, workerVars>> /\ Gone(w)'
      BY <2>3 DEF Shutdown, LosesDriver, Becomes, channels, IndInv, Shape, Gone
    <3>. QED  BY <1>1, <3>1, EdgesKept DEF workerVars
  <2>4. CASE ComputeSuperstep(w)
    <3>1. phase \in Rounds /\ algorithmSet[w]
      BY <2>4, SuperstepBegins DEF IndInv, Rounds
    <3>2. /\ workerState[w] = "serving" /\ toWorker[w] # << >>
          /\ Asking(Head(toWorker[w])) /\ Head(toWorker[w]).type = "SuperstepBatch"
          /\ toWorker'[w] = Tail(toWorker[w]) /\ nonce' = nonce
      BY <2>4 DEF ComputeSuperstep, Receives, Asking, WorkerTakes, IndInv, Shape
    <3>3. Len(toWorker[w]) = 1 /\ Head(toWorker[w]) = toWorker[w][1] /\ ~Gone(w)
      BY <3>2, <1>1, AskedData DEF Gone
    <3>4. ~HasLoad(w) /\ ~BeforeLoad(w)
      BY <3>1, <3>2, <3>3, ShortQueue DEF HasLoad, Loading, BeforeLoad, Begin, Rounds
    <3>5. store'[w].edges = store[w].edges
      <4>1. \E m, t, k : store'[w] = ProcessSuperstep(store[w], m, t, k).db
        BY <2>4, <3>1, <1>1 DEF ComputeSuperstep, Common
      <4>2. \A db, m, t, k : ProcessSuperstep(db, m, t, k).db.edges = db.edges
        BY DEF ProcessSuperstep
      <4>. QED  BY <4>1, <4>2
    <3>6. phase # "loaded"
      BY <3>1 DEF Rounds
    <3>. QED  BY <1>1, <3>2, <3>3, <3>4, <3>5, <3>6, EdgesKept
  <2>5. CASE EmitBatch(w)
    <3>1. /\ UNCHANGED <<toWorker, store, nonce, computed>> /\ workerState[w] = "emitting"
      BY <2>5 DEF EmitBatch
    <3>2. phase # "loaded"
      BY <3>1 DEF IndInv, WorkerOK, TalkOK, Idle, Asked, Answered, Owes
    <3>3. ~Gone(w)
      BY <3>1 DEF Gone
    <3>. QED  BY <1>1, <3>1, <3>2, <3>3, EdgesKept
  <2>6. CASE CreateCheckpoint(w) \/ FetchVertices(w) \/ DumpVerticesCsv(w)
    <3>1. /\ UNCHANGED <<store, nonce, computed, workerState>>
          /\ workerState[w] = "serving"
          /\ toWorker[w] # << >> /\ toWorker'[w] = Tail(toWorker[w])
          /\ Head(toWorker[w]).type \in {"CreateCheckpoint", "FetchVertices", "DumpVerticesCsv"}
      BY <2>6 DEF CreateCheckpoint, FetchVertices, DumpVerticesCsv, Receives, WorkerTakes,
         workerVars, IndInv, Shape
    <3>2. Asking(Head(toWorker[w])) /\ ~Gone(w)
      BY <3>1 DEF Asking, Gone
    <3>3. Head(toWorker[w]).type = Question[phase] /\ Owes(w) /\ phase # "handshake"
      BY <3>1, <3>2, <1>1, AskedData
    <3>4. phase # "loaded"
      BY <3>1, <3>3 DEF Question
    <3>. QED  BY <1>1, <3>1, <3>2, <3>4, EdgesKept
  <2>7. CASE LoadCheckpoint(w)
    BY <2>7, <1>1, RestoreEdges DEF EdgeInv
  <2>. QED  BY <1>1, <2>1, <2>2, <2>3, <2>4, <2>5, <2>6, <2>7, LoadEdges, StreamEdges
            DEF WorkerStep
<1>5. ASSUME Unrecovered', NEW u \in Worker
      PROVE  HoldsEdges(images[u][saved.iteration].edges, u)'
  <2>1. Unrecovered /\ saved' = saved
    BY <1>1, <1>5, FixedMeans DEF Fixed
  <2>2. saved.iteration \in DOMAIN images[u]
    BY <2>1, <1>1 DEF Common
  <2>3. images'[u][saved.iteration] = images[u][saved.iteration]
    BY <2>2, ImageKept
  <2>. QED  BY <2>1, <2>3, EdgeParts DEF EdgeInv, HoldsEdges
<1>6. nonce' \in [Worker -> Nat] /\ unloaded' = unloaded /\ phase' = phase
  BY <1>1, <1>2 DEF OtherWorkers, Fixed
<1>. QED  BY <1>3, <1>4, <1>5, <1>6 DEF EdgeInv

LEMMA EdgeCrash ==
  ASSUME IndInv, DataInv, EdgeInv,
         \/ \E w \in Worker : WorkerCrash(w)
         \/ DriverCrash
         \/ UNCHANGED vars
  PROVE  EdgeInv'
<1>1. Fixed /\ UNCHANGED workerVars
  BY DEF WorkerCrash, DriverCrash, vars, clusterVars, driverVars, Fixed
<1>2. ASSUME NEW u \in Worker PROVE EdgesOK(u)'
  <2>1. /\ toDriver[u] = << >> => toDriver'[u] = << >>
        /\ Gone(u) => Gone(u)'
        /\ Gone(u)' \/ toWorker'[u] = toWorker[u]
    <3>1. CASE DriverCrash \/ UNCHANGED vars
      BY <3>1 DEF DriverCrash, channels, vars, Gone
    <3>2. ASSUME NEW w \in Worker, WorkerCrash(w)
          PROVE  /\ toDriver[u] = << >> => toDriver'[u] = << >>
                 /\ Gone(u) => Gone(u)'
                 /\ Gone(u)' \/ toWorker'[u] = toWorker[u]
      <4>1. /\ workerState' = [workerState EXCEPT ![w] = "exited"]
            /\ toWorker' = [toWorker EXCEPT ![w] = << >>]
        BY <3>2 DEF WorkerCrash
      <4>2. PICK n \in 0 .. Len(toDriver[w]) :
              toDriver' = [toDriver EXCEPT ![w] = SubSeq(@, 1, n)]
        BY <3>2 DEF WorkerCrash
      <4>3. IsQueue(toDriver[w])
        BY DEF IndInv, Shape
      <4>4. SubSeq(toDriver[w], 1, n) # << >> => toDriver[w] # << >>
        BY <4>3, QueuePrefix
      <4>. QED  BY <4>1, <4>2, <4>4 DEF IndInv, Shape, Gone
    <3>. QED  BY <3>1, <3>2
  <2>2. EdgesOK(u)
    BY DEF EdgeInv
  <2>. QED  BY <1>1, <2>1, <2>2, EdgesKept DEF workerVars
<1>3. ASSUME Unrecovered', NEW u \in Worker
      PROVE  HoldsEdges(images[u][saved.iteration].edges, u)'
  <2>1. Unrecovered /\ saved' = saved /\ images' = images
    BY <1>1, <1>3, FixedMeans DEF Fixed, workerVars
  <2>. QED  BY <2>1, EdgeParts DEF EdgeInv, HoldsEdges
<1>. QED  BY <1>1, <1>2, <1>3 DEF EdgeInv, Fixed, workerVars

(* When a file operation fails, no vertex computes and nothing is loaded.  *)
LEMMA FaultCalls ==
  ASSUME IndInv, DataInv, NEW w \in Worker, WorkerFaults(w)
  PROVE  /\ Fixed /\ UNCHANGED <<workerVars, workerState, driverAlive>>
         /\ phase \in FileCalls /\ ~Gone(w) /\ ~Gone(w)'
         /\ toWorker[w] # << >> /\ toWorker'[w] = Tail(toWorker[w])
         /\ Head(toWorker[w]).type \notin {"LoadGraph", "LoadGraphBatch"}
         /\ \A u \in Worker \ {w} : SameWorker(u)
<1>1. /\ Fixed /\ UNCHANGED <<workerVars, workerState, driverAlive>>
      /\ \A u \in Worker \ {w} : SameWorker(u)
  BY FaultFrame DEF IndInv, Fixed, driverVars
<1>2. /\ workerState[w] = "serving" /\ toWorker[w] # << >>
      /\ Head(toWorker[w]).type \in {"CreateCheckpoint", "LoadCheckpoint", "DumpVerticesCsv"}
      /\ WorkerTakes(w)
  BY DEF WorkerFaults, FileFails, Receives
<1>3. Asking(Head(toWorker[w])) /\ DataOK(w)
  BY <1>2 DEF Asking, DataInv
<1>4. phase \in FileCalls
  BY <1>2, <1>3, AskedData DEF Question, Owes, FileCalls
<1>. QED  BY <1>1, <1>2, <1>4 DEF WorkerTakes, Gone, IndInv, Shape

LEMMA EdgeFault ==
  ASSUME IndInv, DataInv, EdgeInv, NEW w \in Worker, WorkerFaults(w)
  PROVE  EdgeInv'
<1>1. Fixed /\ UNCHANGED workerVars
  BY FaultCalls
<1>2. ASSUME NEW u \in Worker PROVE EdgesOK(u)'
  <2>1. EdgesOK(u) /\ store'[u].edges = store[u].edges /\ nonce'[u] = nonce[u]
        /\ computed'[u] = computed[u]
    BY <1>1 DEF EdgeInv, workerVars
  <2>2. CASE u = w
    BY <1>1, <2>1, <2>2, FaultCalls, EdgesKept DEF FileCalls
  <2>3. CASE u # w
    <3>1. SameWorker(u)
      BY <2>3, FaultCalls
    <3>2. Gone(u) => Gone(u)'
      BY <3>1 DEF SameWorker, Gone
    <3>. QED  BY <1>1, <2>1, <3>1, <3>2, EdgesKept DEF SameWorker
  <2>. QED  BY <2>2, <2>3
<1>3. ASSUME Unrecovered', NEW u \in Worker
      PROVE  HoldsEdges(images[u][saved.iteration].edges, u)'
  <2>1. Unrecovered /\ saved' = saved /\ images' = images
    BY <1>1, <1>3, FixedMeans DEF Fixed, workerVars
  <2>. QED  BY <2>1, EdgeParts DEF EdgeInv, HoldsEdges
<1>. QED  BY <1>1, <1>2, <1>3 DEF EdgeInv, Fixed, workerVars

LEMMA EdgeInit ==
  ASSUME OwnRun, Init
  PROVE  EdgeInv
<1>1. PICK s \in Starts : StartsFrom(s)
  BY Zenon DEF Init, StartsFrom
<1>2. /\ phase = "connect" /\ unloaded = Input /\ nonce = [w \in Worker |-> 1]
  BY DEF Init, DriverInit, WorkerInit
<1>3. ASSUME NEW w \in Worker PROVE EdgesOK(w)
  <2>1. /\ toWorker[w] = << >> /\ store[w] = Leftover[w] /\ nonce[w] = 1 /\ computed[w] = 0
    BY <1>2 DEF Init, WorkerInit
  <2>2. 1 .. Len(toWorker[w]) = {}
    BY <2>1, EmptyQueue, ShortQueue
  <2>3. BeforeLoad(w)
    BY <1>2 DEF BeforeLoad, Begin
  <2>4. /\ Streaming => store[w].edges = {}
        /\ Replaced(store[w].edges, w)
    BY <2>1 DEF OwnRun, Replaced
  <2>5. CASE Streaming
    <3>1. PartitionOf(w).edges \subseteq Input.edges
      BY EdgeParts
    <3>. QED  BY <2>2, <2>4, <2>5, <3>1, <1>2 DEF EdgesOK, EdgesStreamed, Stored, Distinct
  <2>6. CASE ~Streaming
    BY <2>1, <2>2, <2>3, <2>4, <2>6 DEF EdgesOK, EdgesLoaded
  <2>. QED  BY <2>5, <2>6
<1>4. ASSUME Unrecovered, NEW w \in Worker
      PROVE  HoldsEdges(images[w][saved.iteration].edges, w)
  <2>1. saved = s.saved /\ Interval > 0 /\ s.saved.iteration > 0
    BY <1>1, <1>4 DEF StartsFrom, Unrecovered
  <2>2. w \in DOMAIN s.images
    BY <2>1 DEF OwnRun, OwnData
  <2>3. images[w] = s.images[w]
    BY <1>1, <2>2, Zenon DEF StartsFrom
  <2>4. HoldsEdges(s.images[w][s.saved.iteration].edges, w)
    BY <2>1 DEF OwnRun
  <2>. QED  BY <2>1, <2>3, <2>4
<1>. QED  BY <1>2, <1>3, <1>4 DEF EdgeInv, Begin

----------------------------------------------------------------------------
(* The steps of the driver, as far as they concern a round.                *)
RoundStays ==
  /\ UNCHANGED <<mail, nextMail, iteration, committed>>
  /\ phase' \in Rounds => iteration <= MaxIterations \/ phase \in Rounds
  /\ phase \in Rounds =>
       /\ phase' \in Rounds /\ toDriver' = toDriver
       /\ phase = "receive" => phase' = "receive" /\ turn' = turn
       /\ phase' = "receive" => toWorker' = toWorker
       /\ phase' = "send" => /\ turn' \in {turn, turn + 1}
                             /\ \A w \in Worker \ {turn} : toWorker'[w] = toWorker[w]
       /\ phase = "send" /\ phase' = "receive" => turn' = 1
  /\ phase \notin Rounds /\ phase' \in Rounds => phase = "round"

AlgorithmOnce ==
  \A w \in Worker :
    \/ toWorker'[w] = toWorker[w] \/ phase = "algorithm"
    \/ \E f : toWorker'[w] = Append(toWorker[w], f) /\ f.type # "SetAlgorithm"

LEMMA OtherSent ==
  ASSUME Shape, NEW u \in Worker, NEW f, DriverSends(u, f), f.type # "SetAlgorithm"
  PROVE  AlgorithmOnce
BY DEF Shape, DriverSends, AlgorithmOnce

LEMMA AlgorithmFrame ==
  ASSUME IndInv, DriverActs
  PROVE  AlgorithmOnce
<1>1. Shape /\ DriverStep
  BY DEF IndInv, DriverActs
<1>2. turn <= N => turn \in Worker
  BY <1>1, SizeAssumption DEF Shape, Worker
<1>3. CASE toWorker' = toWorker
  BY <1>3 DEF AlgorithmOnce
<1>4. CASE SetAlgorithmAll
  BY <1>4 DEF SetAlgorithmAll, SendsToAll, At, AlgorithmOnce
<1>5. CASE LoadAll \/ LoadCheckpointAll \/ CreateCheckpointAll \/ FetchAll \/ ShutdownAll
  <2>1. turn \in Worker
    BY <1>2, <1>5 DEF LoadAll, LoadCheckpointAll, CreateCheckpointAll, FetchAll, ShutdownAll,
       SendsToAll, At
  <2>2. CASE LoadAll
    <3>1. PICK f : f = [type |-> "LoadGraph", graph |-> PartitionOf(turn)]
      OBVIOUS
    <3>2. DriverSends(turn, f) /\ f.type = "LoadGraph"
      BY <2>2, <3>1 DEF LoadAll, SendsToAll
    <3>. QED  BY <1>1, <2>1, <3>2, OtherSent
  <2>3. CASE LoadCheckpointAll
    <3>1. PICK f : f = [type |-> "LoadCheckpoint", iteration |-> saved.iteration]
      OBVIOUS
    <3>2. DriverSends(turn, f) /\ f.type = "LoadCheckpoint"
      BY <2>3, <3>1 DEF LoadCheckpointAll, SendsToAll
    <3>. QED  BY <1>1, <2>1, <3>2, OtherSent
  <2>4. CASE CreateCheckpointAll
    <3>1. PICK f : f = [type |-> "CreateCheckpoint", iteration |-> iteration - 1]
      OBVIOUS
    <3>2. DriverSends(turn, f) /\ f.type = "CreateCheckpoint"
      BY <2>4, <3>1 DEF CreateCheckpointAll, SendsToAll
    <3>. QED  BY <1>1, <2>1, <3>2, OtherSent
  <2>5. CASE FetchAll
    <3>1. PICK f : f = [type |-> "FetchVertices"]
      OBVIOUS
    <3>2. DriverSends(turn, f) /\ f.type = "FetchVertices"
      BY <2>5, <3>1 DEF FetchAll, SendsToAll
    <3>. QED  BY <1>1, <2>1, <3>2, OtherSent
  <2>6. CASE ShutdownAll
    <3>1. PICK f : f = [type |-> "Shutdown"]
      OBVIOUS
    <3>2. DriverSends(turn, f) /\ f.type = "Shutdown"
      BY <2>6, <3>1 DEF ShutdownAll, SendsToAll
    <3>. QED  BY <1>1, <2>1, <3>2, OtherSent
  <2>. QED  BY <1>5, <2>2, <2>3, <2>4, <2>5, <2>6
<1>6. CASE DumpPart
  <2>1. PICK f : f = [type |-> "DumpVerticesCsv"]
    OBVIOUS
  <2>2. turn \in Worker /\ DriverSends(turn, f) /\ f.type = "DumpVerticesCsv"
    BY <1>2, <1>6, <2>1 DEF DumpPart, At
  <2>. QED  BY <1>1, <2>2, OtherSent
<1>7. ASSUME NEW u \in Worker, NEW g, NEW l, SendGraphBatch(u, g, l)
      PROVE  AlgorithmOnce
  <2>1. PICK f : f = [type |-> "LoadGraphBatch", graph |-> g, last |-> l]
    OBVIOUS
  <2>2. DriverSends(u, f) /\ f.type = "LoadGraphBatch"
    BY <1>7, <2>1 DEF SendGraphBatch
  <2>. QED  BY <1>1, <2>2, OtherSent
<1>8. CASE StreamBatch
  BY <1>7, <1>8, EdgesSent
<1>9. CASE SealBatch
  BY <1>2, <1>7, <1>9 DEF SealBatch, At
<1>10. CASE SendBatch
  <2>1. PICK inbox, last :
          DriverSends(turn, [type |-> "SuperstepBatch", iteration |-> iteration,
                             inbox |-> inbox, last |-> last])
    BY <1>10 DEF SendBatch
  <2>2. PICK f : f = [type |-> "SuperstepBatch", iteration |-> iteration,
                      inbox |-> inbox, last |-> last]
    OBVIOUS
  <2>3. turn \in Worker /\ DriverSends(turn, f) /\ f.type = "SuperstepBatch"
    BY <1>2, <1>10, <2>1, <2>2 DEF SendBatch, At
  <2>. QED  BY <1>1, <2>3, OtherSent
<1>11. \/ toWorker' = toWorker \/ SetAlgorithmAll \/ LoadAll \/ LoadCheckpointAll
       \/ CreateCheckpointAll \/ FetchAll \/ ShutdownAll \/ DumpPart \/ StreamBatch
       \/ SealBatch \/ SendBatch
  BY <1>1 DEF DriverStep, Connect, ReceiveReady, StreamEnds, ReceiveGraphLoaded, NextRound,
     ReceiveResult, EndRound, ReceiveCreated, Publish, ReceiveLoaded, Recover,
     ReceiveVertices, ReceiveDumped, NextCall, DriverFails, channels
<1>. QED  BY <1>3, <1>4, <1>5, <1>6, <1>8, <1>9, <1>10, <1>11

LEMMA RoundFrame ==
  ASSUME IndInv, DriverActs
  PROVE  driverAlive /\ (EndRound \/ Recover \/ ReceiveResult \/ RoundStays)
<1>1. Shape /\ DriverStep
  BY DEF IndInv, DriverActs
<1>2. driverAlive
  BY <1>1 DEF DriverStep, Connect, ReceiveReady, LoadAll, StreamBatch, StreamEnds, SealBatch,
     ReceiveGraphLoaded, SetAlgorithmAll, NextRound, SendBatch, ReceiveResult, EndRound,
     CreateCheckpointAll, ReceiveCreated, Publish, LoadCheckpointAll, ReceiveLoaded,
     Recover, FetchAll, ReceiveVertices, DumpPart, ReceiveDumped, ShutdownAll, NextCall,
     DriverFails, SendsToAll, At, Through
<1>3. phase = "receive" /\ turn > N => EndRound
  <2>. SUFFICES ASSUME phase = "receive", turn > N PROVE EndRound
    OBVIOUS
  <2>1. DriverStep => EndRound \/ NextCall \/ DriverFails \/ ReceiveResult
    BY DEF DriverStep, Connect, ReceiveReady, LoadAll, StreamBatch, StreamEnds, SealBatch,
     ReceiveGraphLoaded, SetAlgorithmAll, NextRound, SendBatch,
     CreateCheckpointAll, ReceiveCreated, Publish, LoadCheckpointAll, ReceiveLoaded,
     Recover, FetchAll, ReceiveVertices, DumpPart, ReceiveDumped, ShutdownAll,
     SendsToAll, At, Through
  <2>2. ~NextCall
    BY DEF NextCall, Successor, RunJobCalls, Graph500Calls
  <2>3. ~DriverFails /\ ~ReceiveResult
    BY <1>1, SizeAssumption DEF DriverFails, ReceiveResult, At, Shape
  <2>. QED  BY <1>1, <2>1, <2>2, <2>3
<1>4. EndRound \/ (~(phase = "receive" /\ turn > N) /\ committed' = committed)
  BY <1>3 DEF DriverActs
<1>5. CASE SendBatch
  <2>1. /\ phase = "send" /\ phase' = "send" /\ turn' \in {turn, turn + 1}
        /\ UNCHANGED <<mail, nextMail, iteration, toDriver>>
        /\ \A w \in Worker \ {turn} : toWorker'[w] = toWorker[w]
    BY <1>1, <1>5 DEF SendBatch, At, DriverSends, Shape
  <2>2. committed' = committed
    BY <1>4, <2>1 DEF EndRound, Through
  <2>. QED  BY <1>2, <2>1, <2>2 DEF RoundStays, Rounds
<1>6. CASE NextCall
  <2>1. UNCHANGED <<channels, mail, nextMail, iteration>> /\ turn' = 1
    BY <1>6 DEF NextCall, Goto
  <2>2. /\ phase # "receive" /\ (phase = "send" => phase' = "receive")
        /\ phase' # "send" /\ (phase' = "receive" => phase = "send")
    BY <1>6 DEF NextCall, Successor, RunJobCalls, Graph500Calls, Goto
  <2>3. committed' = committed
    BY <1>4, <2>2 DEF EndRound, Through
  <2>. QED  BY <1>2, <2>1, <2>2, <2>3 DEF RoundStays, Rounds, channels
<1>7. CASE NextRound
  <2>1. /\ phase = "round" /\ UNCHANGED <<channels, mail, nextMail, iteration>>
        /\ phase' = "send" => iteration <= MaxIterations
        /\ phase' # "receive"
    BY <1>7 DEF NextRound, BeginRound, Goto, Collecting
  <2>2. committed' = committed
    BY <1>4, <2>1 DEF EndRound, Through
  <2>. QED  BY <1>2, <2>1, <2>2 DEF RoundStays, Rounds
<1>8. CASE DriverFails
  <2>1. UNCHANGED <<channels, mail, nextMail, iteration, phase, turn>> /\ turn <= N
    BY <1>8 DEF DriverFails, driverVars
  <2>2. committed' = committed
    BY <1>1, <1>4, <2>1, SizeAssumption DEF EndRound, Through, Shape
  <2>. QED  BY <1>2, <2>1, <2>2 DEF RoundStays, Rounds, channels
<1>9. ASSUME UNCHANGED <<mail, nextMail, iteration>>, phase \notin Rounds, phase' \notin Rounds
      PROVE  RoundStays
  <2>1. committed' = committed
    BY <1>4, <1>9 DEF EndRound, Through, Rounds
  <2>. QED  BY <1>9, <2>1 DEF RoundStays
<1>10. \/ SendBatch \/ NextCall \/ NextRound \/ DriverFails \/ EndRound \/ Recover
       \/ ReceiveResult
       \/ UNCHANGED <<mail, nextMail, iteration>> /\ phase \notin Rounds /\ phase' \notin Rounds
  BY <1>1 DEF DriverStep, Connect, ReceiveReady, LoadAll, StreamBatch, StreamEnds, SealBatch,
     ReceiveGraphLoaded, SetAlgorithmAll, CreateCheckpointAll, ReceiveCreated, Publish,
     LoadCheckpointAll, ReceiveLoaded, FetchAll, ReceiveVertices, DumpPart, ReceiveDumped,
     ShutdownAll, SendsToAll, SendGraphBatch, At, Through, Goto, AfterRound, Collecting, Rounds
<1>. QED  BY <1>2, <1>5, <1>6, <1>7, <1>8, <1>9, <1>10

----------------------------------------------------------------------------
(* A worker that computes a superstep, or has, has the edges of its        *)
(* partition.                                                              *)
LEMMA RoundEdges ==
  ASSUME IndInv, EdgeInv, NEW w \in Worker, phase \in Rounds, ~HasLoad(w),
         computed[w] = iteration \/ ~Gone(w)
  PROVE  HoldsEdges(store[w].edges, w)
<1>1. EdgesOK(w) /\ ~BeforeLoad(w) /\ phase \notin Begin /\ phase # "loaded"
  BY DEF EdgeInv, BeforeLoad, Begin, Rounds
<1>2. CASE Streaming
  <2>1. unloaded.edges = {} /\ EdgesStreamed(w)
    BY <1>1, <1>2 DEF EdgeInv, EdgesOK
  <2>2. \A e \in PartitionOf(w).edges : e \in Stored(w)
    BY <1>1, <2>1 DEF EdgesStreamed
  <2>3. Distinct(store[w].edges) /\ Stored(w) \subseteq PartitionOf(w).edges
    BY <2>1 DEF EdgesStreamed
  <2>. QED  BY <2>2, <2>3 DEF HoldsEdges, Stored, Distinct
<1>3. CASE ~Streaming
  <2>1. EdgesLoaded(w) /\ iteration # 0
    BY <1>1, <1>3 DEF EdgesOK, IndInv, Shape
  <2>. QED  BY <1>1, <2>1 DEF EdgesLoaded
<1>. QED  BY <1>2, <1>3

LEMMA DoneEdges ==
  ASSUME IndInv, DataInv, EdgeInv, NEW w \in Worker, Done(w)
  PROVE  HoldsEdges(store[w].edges, w) /\ ~HasLoad(w)
<1>1. ~HasLoad(w)
  BY DEF DataInv, DataOK, QueueOK, Unheard, Done
<1>. QED  BY <1>1, RoundEdges DEF Done

(* A recovery ends with Recover. *)
LEMMA RecoveryEnds ==
  ASSUME IndInv, DataInv, DriverActs
  PROVE  /\ Unrecovered' => Unrecovered /\ saved' = saved
         /\ Unrecovered => Unrecovered' \/ Recover
<1>1. DriverMoves
  BY DriverFrame DEF DataInv
<1>2. Unrecovered' => Unrecovered /\ saved' = saved
  BY <1>1, IntervalAssumption, StreamingAssumption
     DEF Unrecovered, DriverMoves, GoesOn, Turns, Same, Collecting, Successor, RunJobCalls,
         Graph500Calls
<1>3. phase = "restored" => phase' = "restored" \/ Recover
  BY DEF DriverActs, DriverStep, Connect, ReceiveReady, LoadAll, StreamBatch, StreamEnds,
     SealBatch, ReceiveGraphLoaded, SetAlgorithmAll, NextRound, SendBatch, ReceiveResult,
     EndRound, CreateCheckpointAll, ReceiveCreated, Publish, LoadCheckpointAll,
     ReceiveLoaded, FetchAll, ReceiveVertices, DumpPart, ReceiveDumped, ShutdownAll,
     NextCall, DriverFails, SendsToAll, At, Through, Successor, RunJobCalls, Graph500Calls,
     driverVars
<1>4. Unrecovered => Unrecovered' \/ Recover
  <2>. SUFFICES ASSUME Unrecovered, ~Recover PROVE Unrecovered'
    OBVIOUS
  <2>1. ~Streaming /\ Interval > 0 /\ saved.iteration > 0
    BY StreamingAssumption, IntervalAssumption DEF Unrecovered
  <2>2. /\ saved' = saved
        /\ phase' \in {"connect", "handshake", "load", "algorithm", "restore", "restored"}
    BY <1>1, <1>3, <2>1
       DEF Unrecovered, DriverMoves, GoesOn, Turns, Same, Successor, RunJobCalls
  <2>. QED  BY <2>1, <2>2 DEF Unrecovered
<1>. QED  BY <1>2, <1>4

(* What a round is to compute does not change while it goes on. *)
LEMMA SameResults ==
  ASSUME UNCHANGED <<mail, iteration, committed>>
  PROVE  \A v : Result(v)' = Result(v)
BY DEF Result, Share

LEMMA SameMessages ==
  ASSUME UNCHANGED <<mail, iteration, committed>>, NEW w \in Worker,
         store'[w].edges = store[w].edges
  PROVE  Messages(w)' = Messages(w)
<1>1. \A v : Result(v)' = Result(v)
  BY SameResults
<1>2. Own(w)' = Own(w)
  BY DEF Own
<1>. QED  BY <1>1, <1>2 DEF Messages

(* The driver's steps within a round, and those outside of rounds.         *)
LEMMA TeleportDriver ==
  ASSUME IndInv, DataInv, DriverActs, NEW w \in Worker, TeleportOK(w)
  PROVE  TeleportOK(w)'
<1>1. DriverMoves /\ AlgorithmOnce /\ IsQueue(toWorker[w])
  BY DriverFrame, AlgorithmFrame DEF DataInv, IndInv, Shape
<1>2. /\ teleport' = teleport /\ computed' = computed /\ (Gone(w)' <=> Gone(w))
      /\ Share' = Share /\ Own(w)' = Own(w)
  BY <1>1 DEF DriverMoves, workerVars, Stays, Share, Own
<1>3. CASE toWorker'[w] = toWorker[w]
  BY <1>2, <1>3 DEF TeleportOK
<1>4. CASE phase = "algorithm"
  <2>1. computed[w] = 0
    BY <1>4 DEF IndInv, Shape, WorkerOK, ComputedOK, Rounds
  <2>. QED  BY <1>2, <2>1 DEF TeleportOK
<1>5. ASSUME NEW f, toWorker'[w] = Append(toWorker[w], f), f.type # "SetAlgorithm"
      PROVE  TeleportOK(w)'
  <2>1. \A i \in 1 .. Len(toWorker'[w]) :
          \/ i \in 1 .. Len(toWorker[w]) /\ toWorker'[w][i] = toWorker[w][i]
          \/ toWorker'[w][i] = f
    BY <1>1, <1>5, QueueAppend
  <2>. QED  BY <1>2, <1>5, <2>1 DEF TeleportOK
<1>. QED  BY <1>1, <1>3, <1>4, <1>5 DEF AlgorithmOnce

LEMMA StaysDone ==
  ASSUME IndInv, DataInv, DriverActs, RoundStays, NEW w \in Worker
  PROVE  /\ Done(w)' => Done(w) /\ phase \in Rounds
         /\ phase \in Rounds /\ Done(w) => Done(w)'
         /\ phase \in Rounds /\ Cutoff(w) => Cutoff(w)'
<1>1. /\ DriverMoves /\ Common /\ inboxes = OwnInboxes
      /\ driverAlive /\ computed' = computed /\ (Gone(w)' <=> Gone(w))
  BY DriverFrame, RoundFrame DEF DataInv, Common, DriverMoves, workerVars, Stays
<1>2. Done(w)' => Done(w) /\ phase \in Rounds
  <2>. SUFFICES ASSUME Done(w)' PROVE Done(w) /\ phase \in Rounds
    OBVIOUS
  <2>1. phase' \in Rounds /\ computed[w] = iteration
    BY <1>1 DEF Done, RoundStays
  <2>2. phase # "round"
    BY <2>1 DEF IndInv, Shape, WorkerOK, ComputedOK, Rounds
  <2>. QED  BY <2>1, <2>2 DEF Done, RoundStays
<1>3. phase \in Rounds /\ Done(w) => Done(w)'
  BY <1>1 DEF Done, RoundStays
<1>4. phase \in Rounds /\ Cutoff(w) => Cutoff(w)'
  <2>. SUFFICES ASSUME phase \in Rounds, Cutoff(w) PROVE Cutoff(w)'
    OBVIOUS
  <2>1. /\ Gone(w) /\ Owes(w) /\ toDriver' = toDriver
        /\ \A i \in 1 .. Len(toDriver[w]) : Results(w, i) => ~toDriver[w][i].last
    BY <1>1 DEF Cutoff, RoundStays
  <2>2. inboxes' = OwnInboxes
    BY <1>1, CommonDriver DEF Common, OwnInboxes
  <2>3. Owes(w)'
    BY <1>1, <2>1, <2>2, SizeAssumption
       DEF Owes, RoundStays, Rounds, OwnInboxes, Worker, IndInv, Shape
  <2>. QED  BY <1>1, <2>1, <2>3 DEF Cutoff, Results
<1>. QED  BY <1>2, <1>3, <1>4

LEMMA StaysOK ==
  ASSUME IndInv, DataInv, DriverActs, RoundStays, NEW w \in Worker, Once(w), ResultsOK(w)
  PROVE  Once(w)' /\ ResultsOK(w)'
<1>1. /\ DriverMoves /\ store' = store /\ outbox' = outbox /\ (Gone(w)' <=> Gone(w))
  BY DriverFrame DEF DataInv, DriverMoves, workerVars, Stays
<1>2. /\ \A v : Result(v)' = Result(v)
      /\ Messages(w)' = Messages(w) /\ Own(w)' = Own(w) /\ nextMail' = nextMail
  BY <1>1, SameResults, SameMessages DEF RoundStays, Own
<1>3. Once(w)'
  <2>. SUFFICES ASSUME Done(w)' PROVE NoQuestion(w)' /\ (phase' = "send" => w < turn')
    BY DEF Once
  <2>1. Done(w) /\ phase \in Rounds /\ phase' \in Rounds
    BY StaysDone DEF Done
  <2>2. NoQuestion(w) /\ (phase = "send" => w < turn)
    BY <2>1 DEF Once
  <2>3. CASE phase' = "receive"
    BY <1>1, <2>1, <2>2, <2>3 DEF RoundStays, NoQuestion
  <2>4. CASE phase' = "send"
    <3>1. phase = "send" /\ w < turn /\ w # turn
      BY <2>1, <2>2, <2>4, SizeAssumption DEF RoundStays, Rounds, IndInv, Shape, Worker
    <3>2. toWorker'[w] = toWorker[w] /\ w < turn'
      BY <2>1, <2>4, <3>1, SizeAssumption DEF RoundStays, IndInv, Shape, Worker
    <3>. QED  BY <1>1, <2>2, <3>2 DEF NoQuestion
  <2>. QED  BY <2>1, <2>3, <2>4 DEF Rounds
<1>4. ResultsOK(w)'
  <2>1. outbox'[w] # NoMail => Done(w)'
    <3>1. outbox'[w] # NoMail => Done(w) /\ phase \in Rounds
      BY <1>1 DEF ResultsOK, Done
    <3>. QED  BY <3>1, StaysDone
  <2>2. ASSUME Done(w)'
        PROVE  /\ Done(w) /\ toDriver' = toDriver
               /\ Cutoff(w) => Cutoff(w)'
    BY <2>2, StaysDone DEF RoundStays
  <2>. QED  BY <1>1, <1>2, <2>1, <2>2 DEF ResultsOK, Results
<1>. QED  BY <1>3, <1>4

LEMMA StaysRound ==
  ASSUME IndInv, DataInv, RoundInv, DriverActs, RoundStays
  PROVE  RoundInv'
<1>1. /\ UNCHANGED <<mail, nextMail, iteration, committed, store, teleport>>
      /\ Unrecovered' => Unrecovered /\ saved' = saved
      /\ Unrecovered => Unrecovered' \/ Recover
  BY DriverFrame, RecoveryEnds DEF RoundStays, DriverMoves, workerVars, DataInv
<1>2. ASSUME NEW w \in Worker PROVE Once(w)' /\ TeleportOK(w)' /\ ResultsOK(w)'
  BY TeleportDriver, StaysOK DEF RoundInv
<1>3. Gathered'
  <2>1. IsMap(nextMail)'
    BY <1>1 DEF RoundInv, Gathered, IsMap
  <2>2. ASSUME NEW e \in DOMAIN nextMail
        PROVE  \E w \in Worker : /\ Done(w)' /\ e \in DOMAIN Messages(w)'
                                 /\ nextMail[e] = Messages(w)'[e]
    <3>1. PICK w \in Worker : /\ Done(w) /\ e \in DOMAIN Messages(w)
                              /\ nextMail[e] = Messages(w)[e]
      BY DEF RoundInv, Gathered
    <3>2. Done(w)'
      BY <3>1, StaysDone DEF Done
    <3>3. Messages(w)' = Messages(w)
      BY <1>1, SameMessages
    <3>. QED  BY <3>1, <3>2, <3>3
  <2>. QED  BY <1>1, <2>1, <2>2 DEF Gathered
<1>4. MailOK(mail)' /\ (Unrecovered' => MailOK(saved.mail)' /\ Algorithm = "wcc")
  BY <1>1 DEF RoundInv, MailOK, IsMap, IsMail, Distinct, Plain
<1>5. phase' \in Rounds => iteration' <= MaxIterations
  BY <1>1 DEF RoundInv, RoundStays
<1>6. iteration' = 1 => Unrecovered' \/ (committed' = Input.vertices /\ mail' = NoMail)
  <2>1. Recover => iteration' # 1
    <3>. SUFFICES ASSUME Recover PROVE iteration' # 1
      OBVIOUS
    <3>1. iteration' = saved.iteration + 1 /\ phase = "restored"
      BY DEF Recover, Through
    <3>2. saved.iteration > 0 /\ saved.iteration \in Nat
      BY <3>1 DEF IndInv, Shape, DataInv, Common
    <3>. QED  BY <3>1, <3>2
  <2>. QED  BY <1>1, <2>1 DEF RoundInv
<1>. QED  BY <1>1, <1>2, <1>3, <1>4, <1>5, <1>6 DEF RoundInv

(* A recovered job takes up the messages that were saved.                  *)
LEMMA RecoverRound ==
  ASSUME IndInv, DataInv, RoundInv, DriverActs, Recover
  PROVE  RoundInv'
<1>1. /\ phase = "restored" /\ phase' = "round" /\ mail' = saved.mail
      /\ iteration' = saved.iteration + 1 /\ UNCHANGED <<nextMail, saved>>
      /\ committed' = committed
  BY DEF Recover, Through, Goto, DriverActs
<1>2. saved.iteration > 0 /\ saved.iteration \in Nat /\ Unrecovered /\ ~Unrecovered'
  BY <1>1 DEF IndInv, Shape, DataInv, Common, Unrecovered
<1>3. UNCHANGED <<store, outbox, teleport>>
  BY DriverFrame DEF DriverMoves, workerVars, DataInv
<1>4. DOMAIN nextMail = {}
  BY <1>1 DEF RoundInv, Gathered, Done, Rounds
<1>5. Gathered'
  BY <1>1, <1>4 DEF RoundInv, Gathered, IsMap
<1>6. ASSUME NEW w \in Worker PROVE Once(w)' /\ TeleportOK(w)' /\ ResultsOK(w)'
  <2>1. TeleportOK(w)'
    BY TeleportDriver DEF RoundInv
  <2>2. outbox[w] = NoMail
    BY <1>1 DEF RoundInv, ResultsOK, Done, Rounds
  <2>. QED  BY <1>1, <1>3, <2>1, <2>2 DEF Once, ResultsOK, Done, Rounds
<1>7. MailOK(mail)'
  BY <1>1, <1>2 DEF RoundInv, MailOK, IsMap, IsMail, Distinct, Plain
<1>. QED  BY <1>1, <1>2, <1>3, <1>5, <1>6, <1>7 DEF RoundInv, Rounds

(* The driver takes a batch of results. *)
LEMMA ReceiveRound ==
  ASSUME IndInv, DataInv, RoundInv, DriverActs, ReceiveResult
  PROVE  RoundInv'
<1> DEFINE reply == Head(toDriver[turn])
<1>1. /\ phase = "receive" /\ turn \in Worker /\ driverAlive
      /\ toDriver[turn] # << >> /\ reply.type = "SuperstepResultBatch"
      /\ toDriver'[turn] = Tail(toDriver[turn])
      /\ \A w \in Worker \ {turn} : toDriver'[w] = toDriver[w]
      /\ nextMail' = Merge(nextMail, reply.outbox)
      /\ turn' = IF reply.last THEN turn + 1 ELSE turn
      /\ UNCHANGED <<phase, mail, iteration, saved, toWorker, inboxes, driverAlive, workerState>>
    BY SizeAssumption DEF ReceiveResult, At, Receives, DriverTakes, IndInv, Shape, Worker
<1>2. UNCHANGED <<store, outbox, teleport, computed, committed>>
  <2>1. committed' = committed
    BY <1>1, SizeAssumption DEF DriverActs, Worker
  <2>. QED  BY <2>1, DriverFrame DEF DriverMoves, workerVars, DataInv
<1>3. /\ \A w \in Worker : (Done(w)' <=> Done(w)) /\ (Gone(w)' <=> Gone(w))
      /\ \A w \in Worker : Messages(w)' = Messages(w) /\ Own(w)' = Own(w)
      /\ \A v : Result(v)' = Result(v)
      /\ ~Unrecovered'
  BY <1>1, <1>2, SameMessages, SameResults DEF Done, Gone, Unrecovered, Own
<1>4. /\ IsQueue(toDriver[turn]) /\ Len(toDriver[turn]) \in Nat \ {0}
      /\ Len(toDriver'[turn]) = Len(toDriver[turn]) - 1
      /\ reply = toDriver[turn][1]
      /\ \A i \in 1 .. (Len(toDriver[turn]) - 1) : toDriver'[turn][i] = toDriver[turn][i + 1]
  BY <1>1, QueueTail DEF IndInv, Shape
<1>5. Done(turn)
  BY <1>1 DEF Done, Rounds, IndInv, WorkerOK, ComputedOK
<1>6. IsMap(reply.outbox) /\ Within(reply.outbox, Messages(turn))
  <2>1. 1 \in 1 .. Len(toDriver[turn]) /\ Results(turn, 1)
    BY <1>1, <1>4 DEF Results
  <2>. QED  BY <1>1, <1>4, <1>5, <2>1 DEF RoundInv, ResultsOK
<1> DEFINE out == reply.outbox
<1>7. /\ DOMAIN nextMail' = DOMAIN nextMail \cup DOMAIN out /\ IsMap(nextMail')
      /\ \A e \in DOMAIN nextMail' :
           nextMail'[e] = IF e \in DOMAIN out THEN out[e] ELSE nextMail[e]
  BY <1>1 DEF Merge, IsMap
<1> HIDE DEF reply
<1>8. Gathered'
  <2>1. ASSUME NEW e \in DOMAIN nextMail'
        PROVE  \E w \in Worker : /\ Done(w) /\ e \in DOMAIN Messages(w)
                                 /\ nextMail'[e] = Messages(w)[e]
    <3>1. CASE e \in DOMAIN out
      BY <1>1, <1>5, <1>6, <1>7, <3>1 DEF Within
    <3>2. CASE e \notin DOMAIN out
      BY <1>7, <3>2 DEF RoundInv, Gathered
    <3>. QED  BY <3>1, <3>2
  <2>. QED  BY <1>3, <1>7, <2>1 DEF Gathered
<1>9. ASSUME NEW w \in Worker PROVE Once(w)' /\ TeleportOK(w)'
  BY <1>1, <1>3, TeleportDriver DEF Once, NoQuestion, RoundInv
<1>10. ASSUME NEW w \in Worker, w # turn PROVE ResultsOK(w)'
  <2>1. Cutoff(w) => Cutoff(w)'
    <3>1. Owes(w) => Owes(w)'
      BY <1>1, <1>10, SizeAssumption DEF Owes, IndInv, Shape, Worker
    <3>. QED  BY <1>1, <1>3, <1>10, <3>1 DEF Cutoff, Results
  <2>. QED  BY <1>1, <1>2, <1>3, <1>7, <1>10, <2>1 DEF RoundInv, ResultsOK, Results
<1>11. ASSUME NEW w \in Worker, w = turn PROVE ResultsOK(w)'
  <2>2. ASSUME NEW i \in 1 .. Len(toDriver'[w])
        PROVE  /\ i + 1 \in 1 .. Len(toDriver[w]) /\ toDriver'[w][i] = toDriver[w][i + 1]
    BY <1>4, <1>11
  <2>3. Cutoff(w) => Cutoff(w)'
    <3>. SUFFICES ASSUME Cutoff(w) PROVE Cutoff(w)'
      OBVIOUS
    <3>1. /\ Gone(w)
          /\ \A i \in 1 .. Len(toDriver[w]) : Results(w, i) => ~toDriver[w][i].last
      BY <1>1 DEF Cutoff
    <3>2. 1 \in 1 .. Len(toDriver[w]) /\ Results(w, 1) /\ reply = toDriver[w][1]
      BY <1>1, <1>4, <1>11 DEF Results
    <3>3. turn' = turn
      BY <1>1, <3>1, <3>2
    <3>4. Owes(w)'
      BY <1>1, <1>11, <3>3, SizeAssumption, DriverDataInd
         DEF Owes, Worker, DataInv, Common, OwnInboxes
    <3>5. \A i \in 1 .. Len(toDriver'[w]) : Results(w, i)' => ~toDriver'[w][i].last
      BY <2>2, <3>1 DEF Results
    <3>. QED  BY <1>3, <3>1, <3>4, <3>5 DEF Cutoff
  <2>4. ASSUME NEW e \in DOMAIN Messages(w)
        PROVE  \/ e \in DOMAIN outbox[w] \/ e \in DOMAIN nextMail'
               \/ \E i \in 1 .. Len(toDriver'[w]) :
                     Results(w, i)' /\ e \in DOMAIN toDriver'[w][i].outbox
               \/ Cutoff(w)'
    <3>1. ASSUME NEW i \in 1 .. Len(toDriver[w]), Results(w, i),
                 e \in DOMAIN toDriver[w][i].outbox
          PROVE  \/ e \in DOMAIN nextMail'
                 \/ \E j \in 1 .. Len(toDriver'[w]) :
                       Results(w, j)' /\ e \in DOMAIN toDriver'[w][j].outbox
      <4>1. CASE i = 1
        BY <1>4, <1>7, <1>11, <3>1, <4>1
      <4>2. CASE i # 1
        <5>1. i - 1 \in 1 .. Len(toDriver'[w]) /\ (i - 1) + 1 = i
          BY <1>4, <1>11, <4>2
        <5>2. toDriver'[w][i - 1] = toDriver[w][i]
          BY <5>1, <2>2
        <5>. QED  BY <3>1, <5>1, <5>2 DEF Results
      <4>. QED  BY <4>1, <4>2
    <3>2. \/ e \in DOMAIN outbox[w] \/ e \in DOMAIN nextMail
          \/ \E i \in 1 .. Len(toDriver[w]) :
                Results(w, i) /\ e \in DOMAIN toDriver[w][i].outbox
          \/ Cutoff(w)
      BY <1>5, <1>11 DEF RoundInv, ResultsOK
    <3>. QED  BY <1>7, <2>3, <3>1, <3>2
  <2>5. \A i \in 1 .. Len(toDriver'[w]) :
          Results(w, i)' => /\ IsMap(toDriver'[w][i].outbox)
                           /\ Within(toDriver'[w][i].outbox, Messages(w))
    <3>1. \A i \in 1 .. Len(toDriver[w]) :
            Results(w, i) => /\ IsMap(toDriver[w][i].outbox)
                             /\ Within(toDriver[w][i].outbox, Messages(w))
      BY <1>5, <1>11 DEF RoundInv, ResultsOK
    <3>. TAKE i \in 1 .. Len(toDriver'[w])
    <3>. QED  BY <2>2, <3>1 DEF Results
  <2>6. /\ \A v \in Own(w) : store[w].vertices[v] = Result(v).value
        /\ IsMap(outbox[w]) /\ Within(outbox[w], Messages(w))
    BY <1>5, <1>11 DEF RoundInv, ResultsOK
  <2>. QED  BY <1>2, <1>3, <1>5, <1>11, <2>4, <2>5, <2>6 DEF ResultsOK
<1>12. \A w \in Worker : ResultsOK(w)'
  BY <1>10, <1>11
<1>13. MailOK(mail)'
  BY <1>1 DEF RoundInv, MailOK, IsMap, IsMail, Distinct, Plain
<1>. QED  BY <1>1, <1>2, <1>3, <1>8, <1>9, <1>12, <1>13 DEF RoundInv, Rounds, Unrecovered

(* Stored edges are counted by what they are in the input. *)
LEMMA PlainCount ==
  ASSUME NEW S, Distinct(S), IsFiniteSet({Plain(e) : e \in S})
  PROVE  IsFiniteSet(S) /\ Cardinality(S) = Cardinality({Plain(e) : e \in S})
<1> DEFINE T == {Plain(e) : e \in S}
           f == [e \in S |-> Plain(e)]
<1>1. f \in Injection(S, T) /\ f \in Surjection(S, T)
  <2>1. f \in [S -> T]
    OBVIOUS
  <2>2. \A a, b \in S : f[a] = f[b] => a = b
    BY DEF Distinct
  <2>3. \A t \in T : \E a \in S : f[a] = t
    OBVIOUS
  <2>. QED  BY <2>1, <2>2, <2>3 DEF Injection, Surjection, IsInjective
<1>. QED  BY <1>1, FS_Injection

(* What a round makes of integers are integers. *)
LEMMA MailFinite ==
  ASSUME NEW m, MailOK(m), NEW v
  PROVE  /\ IsFiniteSet(DOMAIN m) /\ IsFiniteSet(DOMAIN MailOf(m, v))
         /\ \A e \in DOMAIN MailOf(m, v) : e \in DOMAIN m /\ MailOf(m, v)[e] \in Int
<1>1. IsFiniteSet({Plain(e) : e \in DOMAIN m})
  BY InputAssumption, FS_Subset DEF MailOK, IsMail
<1>2. IsFiniteSet(DOMAIN m)
  BY <1>1, PlainCount DEF MailOK
<1>3. DOMAIN MailOf(m, v) \in SUBSET DOMAIN m
  BY DEF MailOf, Restrict
<1>. QED  BY <1>2, <1>3, FS_Subset DEF MailOf, Restrict, MailOK, IsMail

LEMMA ResultType ==
  ASSUME MailOK(mail), \A u \in DOMAIN Input.vertices : committed[u] \in Int,
         NEW v \in DOMAIN Input.vertices
  PROVE  Result(v).value \in Int /\ Result(v).send \subseteq Int
<1> DEFINE t == IF Algorithm = "wcc" THEN NoTeleport ELSE Share
           msgs == MailOf(mail, v)
           degree == Cardinality(OutOf(v))
<1>1. NoTeleport \in Int
  BY DEF NoTeleport
<1>2. t \in Int
  BY <1>1, InputAssumption, TeleportType DEF Share
<1>3. degree \in Nat
  BY InputAssumption, FS_Subset, FS_CardinalityType DEF OutOf
<1>4. IsFiniteSet(DOMAIN msgs) /\ \A e \in DOMAIN msgs : msgs[e] \in Int
  BY MailFinite
<1>5. v \in Int /\ committed[v] \in Int
  BY InputAssumption
<1>6. Result(v) = ComputeVertex(v, committed[v], degree, msgs, t, iteration)
  BY DEF Result
<1> HIDE DEF t, msgs, degree
<1>. QED  BY <1>2, <1>3, <1>4, <1>5, <1>6, ComputeType

LEMMA MessageType ==
  ASSUME MailOK(mail), \A u \in DOMAIN Input.vertices : committed[u] \in Int,
         NEW w \in Worker, NEW e \in DOMAIN Messages(w)
  PROVE  /\ Messages(w)[e] \in Int /\ Messages(w)[e] \in Result(e.src).send
         /\ e \in store[w].edges /\ e.src \in Own(w)
<1>1. e \in store[w].edges /\ e.src \in Own(w) /\ Result(e.src).send # {}
  BY DEF Messages
<1>2. Messages(w)[e] = CHOOSE m \in Result(e.src).send : TRUE
  BY <1>1 DEF Messages
<1>3. Messages(w)[e] \in Result(e.src).send
  BY <1>1, <1>2
<1>4. e.src \in DOMAIN Input.vertices
  BY <1>1 DEF Own
<1>. QED  BY <1>1, <1>3, <1>4, ResultType

(* When a round ends all workers have done their part of it, and all they  *)
(* sent has arrived.                                                       *)
LEMMA AllDone ==
  ASSUME IndInv, DataInv, RoundInv, EndRound, NEW w \in Worker
  PROVE  /\ Done(w) /\ outbox[w] = NoMail /\ ~Cutoff(w)
         /\ toDriver[w] = << >>
         /\ \A e \in DOMAIN Messages(w) : e \in DOMAIN nextMail
<1>1. phase = "receive" /\ w < turn /\ driverAlive
  BY SizeAssumption DEF EndRound, Through, Worker, IndInv, Shape
<1>2. ~Owes(w)
  BY <1>1, SizeAssumption DEF Owes, Worker, IndInv, Shape
<1>3. Done(w)
  BY <1>1 DEF Done, Rounds, IndInv, WorkerOK, ComputedOK
<1>4. toDriver[w] = << >>
  BY <1>2 DEF IndInv, WorkerOK, TalkOK, Idle
<1>5. outbox[w] = NoMail
  BY <1>2 DEF DataInv, DataOK, OutOK
<1>6. ~Cutoff(w)
  BY <1>1, <1>2 DEF Cutoff
<1>7. 1 .. Len(toDriver[w]) = {} /\ DOMAIN outbox[w] = {}
  BY <1>4, <1>5, EmptyQueue, ShortQueue
<1>. QED  BY <1>3, <1>4, <1>5, <1>6, <1>7 DEF RoundInv, ResultsOK

LEMMA EndRoundOutcome ==
  ASSUME IndInv, DataInv, EdgeInv, RoundInv, DriverActs, EndRound
  PROVE  /\ MailOK(nextMail)
         /\ \A v \in DOMAIN Input.vertices : committed'[v] = Result(v).value
<1>1. \A w \in Worker : Done(w) /\ HoldsEdges(store[w].edges, w)
  BY AllDone, DoneEdges
<1>2. \A w \in Worker : \A e \in store[w].edges :
        Plain(e) \in Input.edges /\ Part[e.src] = w /\ Plain(e).src = e.src
  <2>. SUFFICES ASSUME NEW w \in Worker, NEW e \in store[w].edges
                PROVE  Plain(e) \in Input.edges /\ Part[e.src] = w /\ Plain(e).src = e.src
    OBVIOUS
  <2>1. Plain(e).src = e.src
    BY DEF Plain
  <2>2. Plain(e) \in PartitionOf(w).edges
    BY <1>1 DEF HoldsEdges
  <2>. QED  BY <2>1, <2>2, EdgeParts
<1>3. ASSUME NEW e \in DOMAIN nextMail
      PROVE  \E w \in Worker : e \in store[w].edges /\ nextMail[e] \in Int
  BY MessageType DEF RoundInv, Gathered
<1>4. Distinct(DOMAIN nextMail)
  <2>. SUFFICES ASSUME NEW d \in DOMAIN nextMail, NEW e \in DOMAIN nextMail,
                       Plain(d) = Plain(e)
                PROVE  d = e
    BY DEF Distinct
  <2>1. PICK w \in Worker : d \in store[w].edges
    BY <1>3
  <2>2. PICK u \in Worker : e \in store[u].edges
    BY <1>3
  <2>3. u = w
    BY <1>2, <2>1, <2>2
  <2>. QED  BY <1>1, <2>1, <2>2, <2>3 DEF HoldsEdges
<1>5. IsMail(nextMail)
  BY <1>2, <1>3 DEF IsMail
<1>6. ASSUME NEW v \in DOMAIN Input.vertices
      PROVE  committed'[v] = Result(v).value
  <2>1. Part[v] \in Worker /\ v \in Own(Part[v])
    BY PartAssumption DEF Own
  <2>2. DOMAIN store[Part[v]].vertices = Own(Part[v])
    <3>1. DataOK(Part[v]) /\ phase = "receive" /\ Done(Part[v])
      BY <1>1, <2>1 DEF DataInv, EndRound, Through
    <3>2. ~Unrecovered /\ ~BeforeLoad(Part[v]) /\ ~Unheard(Part[v])
      BY <3>1 DEF Unrecovered, BeforeLoad, Begin, Unheard, Done
    <3>. QED  BY <3>1, <3>2 DEF DataOK, StoreOK, Right, Done, IsMapOn
  <2>3. committed'[v] = store[Part[v]].vertices[v]
    <3>1. phase = "receive" /\ turn > N /\ v \in DOMAIN committed
      BY DEF EndRound, Through, DataInv, Common, IsMapOn
    <3>. QED  BY <2>1, <2>2, <3>1 DEF DriverActs
  <2>. QED  BY <1>1, <2>1, <2>3 DEF RoundInv, ResultsOK
<1>. QED  BY <1>4, <1>5, <1>6 DEF MailOK, RoundInv, Gathered

LEMMA EndRoundRound ==
  ASSUME IndInv, DataInv, EdgeInv, RoundInv, DriverActs, EndRound
  PROVE  RoundInv'
<1>1. /\ phase' \notin Rounds /\ ~Unrecovered' /\ mail' = nextMail /\ nextMail' = NoMail
      /\ iteration' = iteration + 1 /\ iteration \in Nat \ {0}
  BY DEF EndRound, Goto, Unrecovered, AfterRound, Collecting, Rounds, IndInv, Shape
<1>2. outbox' = outbox /\ teleport' = teleport
  BY DriverFrame DEF DriverMoves, workerVars, DataInv
<1>3. MailOK(mail)' /\ \A v \in DOMAIN Input.vertices : committed'[v] \in Int
  <2>1. MailOK(nextMail) /\ \A v \in DOMAIN Input.vertices : committed'[v] = Result(v).value
    BY EndRoundOutcome
  <2>2. \A v \in DOMAIN Input.vertices : Result(v).value \in Int
    BY ResultType DEF RoundInv
  <2>. QED  BY <1>1, <2>1, <2>2 DEF MailOK, IsMap, IsMail, Distinct, Plain
<1>4. Gathered'
  BY <1>1, EmptyMap DEF Gathered, IsMap
<1>5. ASSUME NEW w \in Worker PROVE Once(w)' /\ TeleportOK(w)' /\ ResultsOK(w)'
  <2>1. TeleportOK(w)'
    BY TeleportDriver DEF RoundInv
  <2>2. outbox'[w] = NoMail
    BY <1>2, AllDone
  <2>. QED  BY <1>1, <2>1, <2>2 DEF Once, ResultsOK, Done
<1>. QED  BY <1>1, <1>2, <1>3, <1>4, <1>5 DEF RoundInv

LEMMA RoundDriver ==
  ASSUME IndInv, DataInv, EdgeInv, RoundInv, DriverActs
  PROVE  RoundInv'
BY RoundFrame, StaysRound, RecoverRound, ReceiveRound, EndRoundRound

----------------------------------------------------------------------------
(* The teleport: when all ranks are equal it is the same for every worker, *)
(* and it makes no difference to WCC or to a first superstep.              *)
LEMMA AnyTeleport ==
  ASSUME NEW v, NEW value, NEW degree, NEW msgs, NEW t, NEW u, NEW k,
         Algorithm = "wcc" \/ k = 1 \/ t = u
  PROVE  ComputeVertex(v, value, degree, msgs, t, k) = ComputeVertex(v, value, degree, msgs, u, k)
BY DEF ComputeVertex, PageRank

LEMMA ShareOfEqual ==
  ASSUME Algorithm = "pagerank", EqualRanks, NEW f, DOMAIN f \subseteq DOMAIN Input.vertices,
         \A x \in DOMAIN f : f[x] = Input.vertices[x],
         NEW u \in DOMAIN f, NEW v \in Int, u <= v
  PROVE  TeleportAt(f, NoTeleport, v) = Input.vertices[u] - Damp(Input.vertices[u])
<1> DEFINE positive == {x \in DOMAIN f : x <= v /\ f[x] > 0}
<1>1. u \in positive /\ positive \subseteq Nat
  BY InputAssumption DEF EqualRanks
<1>2. Min(positive) \in positive
  BY <1>1, MinIsLeast
<1>3. f[Min(positive)] = Input.vertices[u]
  BY <1>2 DEF EqualRanks
<1>. QED  BY <1>1, <1>3 DEF TeleportAt

LEMMA ShareIs ==
  ASSUME Algorithm = "pagerank", EqualRanks, NEW u \in DOMAIN Input.vertices
  PROVE  Share = Input.vertices[u] - Damp(Input.vertices[u]) /\ Share # NoTeleport
<1>1. LET m == Max(DOMAIN Input.vertices) IN m \in Int /\ u <= m
  <2>1. DOMAIN Input.vertices \subseteq Int
    BY InputAssumption
  <2>. QED  BY <2>1, InputAssumption, MaxOfFinite
<1>2. Share = Input.vertices[u] - Damp(Input.vertices[u])
  BY <1>1, ShareOfEqual DEF Share
<1>3. Input.vertices[u] \in Int /\ Input.vertices[u] > 0
  BY InputAssumption DEF EqualRanks
<1>. QED  BY <1>2, <1>3 DEF Damp, NoTeleport

LEMMA SetStays ==
  ASSUME NEW f, NEW t, NEW v, t # NoTeleport \/ Algorithm = "wcc"
  PROVE  TeleportAt(f, t, v) = t
BY DEF TeleportAt

(* A worker's part of a superstep is that of the whole graph: each of its  *)
(* vertices has all its out-edges and all its messages.                    *)
LEMMA DegreeRight ==
  ASSUME NEW w \in Worker, NEW edges, HoldsEdges(edges, w), NEW v \in Own(w)
  PROVE  Cardinality({e \in edges : e.src = v}) = Cardinality(OutOf(v))
<1> DEFINE S == {e \in edges : e.src = v}
<1>1. {Plain(e) : e \in S} = OutOf(v)
  <2>1. ASSUME NEW e \in S PROVE Plain(e) \in OutOf(v)
    <3>1. Plain(e) \in Input.edges
      BY EdgeParts DEF HoldsEdges
    <3>. QED  BY <3>1 DEF OutOf, Plain
  <2>2. ASSUME NEW d \in OutOf(v) PROVE \E e \in S : Plain(e) = d
    <3>1. d \in PartitionOf(w).edges
      BY EdgeParts DEF OutOf, Own
    <3>2. PICK e \in edges : Plain(e) = d
      BY <3>1 DEF HoldsEdges
    <3>. QED  BY <3>2 DEF OutOf, Plain
  <2>. QED  BY <2>1, <2>2
<1>2. IsFiniteSet(OutOf(v)) /\ Distinct(S)
  BY InputAssumption, FS_Subset DEF OutOf, HoldsEdges, Distinct
<1>. QED  BY <1>1, <1>2, PlainCount

LEMMA InboxRight ==
  ASSUME inboxes = OwnInboxes, NEW w \in Worker, NEW v \in Own(w)
  PROVE  MailOf(Inbox(w), v) = MailOf(mail, v)
<1>1. {e \in DOMAIN mail : Part[e.dst] = w /\ e.dst = v} = {e \in DOMAIN mail : e.dst = v}
  BY DEF Own
<1>2. /\ DOMAIN Inbox(w) = {e \in DOMAIN mail : Part[e.dst] = w}
      /\ \A e \in DOMAIN Inbox(w) : Inbox(w)[e] = mail[e]
  BY DEF Inbox, RouteTo, Restrict, OwnInboxes
<1>3. {e \in DOMAIN Inbox(w) : e.dst = v} = {e \in DOMAIN mail : e.dst = v}
  BY <1>1, <1>2
<1>. QED  BY <1>2, <1>3 DEF MailOf, Restrict

(* A superstep as its vertices see it: what it does if they compute g. *)
Computes(db, m, t, k, g) ==
  \A v \in DOMAIN db.vertices :
    ComputeVertex(v, db.vertices[v], Cardinality({e \in db.edges : e.src = v}),
                  MailOf(m, v), TeleportAt(db.vertices, t, v), k) = g[v]

Outbox(db, g) ==
  LET sent == {e \in db.edges : e.src \in DOMAIN db.vertices /\ g[e.src].send # {}}
  IN  [e \in sent |-> CHOOSE x \in g[e.src].send : TRUE]

Onward(db, t) ==
  IF DOMAIN db.vertices = {} THEN t
  ELSE TeleportAt(db.vertices, t, Max(DOMAIN db.vertices))

LEMMA SuperstepIs ==
  ASSUME NEW db, NEW m, NEW t, NEW k, NEW g, Computes(db, m, t, k, g)
  PROVE  ProcessSuperstep(db, m, t, k) =
           [ db       |-> [vertices |-> [v \in DOMAIN db.vertices |-> g[v].value],
                           edges    |-> db.edges],
             outbox   |-> Outbox(db, g),
             teleport |-> Onward(db, t) ]
<1> DEFINE stepped == [v \in DOMAIN db.vertices |->
                        ComputeVertex(v, db.vertices[v],
                                      Cardinality({e \in db.edges : e.src = v}),
                                      MailOf(m, v), TeleportAt(db.vertices, t, v), k)]
           was == {e \in db.edges : e.src \in DOMAIN stepped /\ stepped[e.src].send # {}}
           values == [v \in DOMAIN db.vertices |-> stepped[v].value]
           out == [e \in was |-> CHOOSE x \in stepped[e.src].send : TRUE]
<1>1. ProcessSuperstep(db, m, t, k)
        = [db |-> [vertices |-> values, edges |-> db.edges], outbox |-> out,
           teleport |-> Onward(db, t)]
  BY DEF ProcessSuperstep, Onward
<1>2. DOMAIN stepped = DOMAIN db.vertices /\ \A v \in DOMAIN db.vertices : stepped[v] = g[v]
  BY DEF Computes
<1> HIDE DEF stepped
<1>3. values = [v \in DOMAIN db.vertices |-> g[v].value]
  BY <1>2
<1>4. out = Outbox(db, g)
  <2> DEFINE sent == {e \in db.edges : e.src \in DOMAIN db.vertices /\ g[e.src].send # {}}
  <2>1. was = sent
    BY <1>2
  <2>2. out = [e \in sent |-> CHOOSE x \in stepped[e.src].send : TRUE]
    BY <2>1
  <2>3. [e \in sent |-> CHOOSE x \in stepped[e.src].send : TRUE]
          = [e \in sent |-> CHOOSE x \in g[e.src].send : TRUE]
    BY <1>2
  <2>. QED  BY <2>2, <2>3 DEF Outbox
<1> HIDE DEF values, out
<1>. QED  BY <1>1, <1>3, <1>4

LEMMA ComputeRight ==
  ASSUME OwnRun, IndInv, DataInv, EdgeInv, RoundInv, NEW w \in Worker, ComputeSuperstep(w)
  PROVE  /\ phase \in Rounds /\ Owes(w) /\ ~Done(w)
         /\ toDriver'[w] = << >> /\ toWorker'[w] = << >> /\ computed'[w] = iteration
         /\ store'[w].edges = store[w].edges
         /\ \A v \in Own(w) : store'[w].vertices[v] = Result(v).value
         /\ outbox'[w] = Messages(w)
         /\ Algorithm = "pagerank" =>
              teleport'[w] \in {NoTeleport, Share} /\ (Own(w) = {} \/ teleport'[w] = Share)
<1>1. Shape /\ WorkerOK(w) /\ DataOK(w) /\ Common
  BY DEF IndInv, DataInv
<1>2. /\ phase \in Rounds /\ Owes(w) /\ algorithmSet[w] /\ toDriver[w] = << >>
      /\ Tail(toWorker[w]) = << >> /\ Head(toWorker[w]).iteration = iteration
      /\ Assembled(w, Head(toWorker[w])) = Inbox(w)
  BY <1>1, SuperstepBegins DEF Rounds
<1> DEFINE r == ProcessSuperstep(store[w], Inbox(w), teleport[w], iteration)
<1>3. /\ workerState[w] = "serving" /\ toWorker[w] # << >>
      /\ Head(toWorker[w]).type = "SuperstepBatch" /\ Head(toWorker[w]).last
      /\ toWorker'[w] = << >> /\ toDriver'[w] = << >> /\ computed'[w] = iteration
      /\ store'[w] = r.db /\ outbox'[w] = r.outbox /\ teleport'[w] = r.teleport
  BY <1>1, <1>2 DEF ComputeSuperstep, Receives, WorkerTakes, Shape, Common, RoundInv
<1>4. /\ ~Gone(w) /\ ~NoQuestion(w) /\ Len(toWorker[w]) = 1
      /\ Head(toWorker[w]) = toWorker[w][1]
      /\ ~Unrecovered /\ ~BeforeLoad(w) => Right(w)
  <2>1. Asking(Head(toWorker[w])) /\ ~Gone(w)
    BY <1>3 DEF Asking, Gone
  <2>. QED  BY <1>1, <1>3, <2>1, AskedData, AskedLast
<1>5. ~Done(w)
  BY <1>4 DEF RoundInv, Once
<1>6. store[w].vertices = Value(w) /\ DOMAIN store[w].vertices = Own(w) /\ ~Unrecovered
  <2>1. ~Unrecovered /\ ~BeforeLoad(w)
    BY <1>2 DEF Unrecovered, BeforeLoad, Begin, Rounds
  <2>2. store[w].vertices = Value(w)
    BY <1>4, <1>5, <2>1 DEF Right, Done
  <2>. QED  BY <2>1, <2>2, Partitions
<1>7. HoldsEdges(store[w].edges, w)
  <2>1. ~HasLoad(w)
    BY <1>3, <1>4, ShortQueue DEF HasLoad, Loading
  <2>. QED  BY <1>2, <1>4, <2>1, RoundEdges
<1>8. /\ computed[w] \in {iteration - 1, iteration} /\ computed[w] # iteration
      /\ iteration \in Nat \ {0}
  BY <1>1, <1>2, <1>5 DEF WorkerOK, ComputedOK, Rounds, Done, Shape
<1>9. Algorithm = "pagerank" =>
        /\ EqualRanks
        /\ teleport[w] \in {NoTeleport, Share}
        /\ iteration # 1 => Own(w) = {} \/ teleport[w] = Share
  BY <1>8 DEF OwnRun, RoundInv, TeleportOK
<1>10. ASSUME NEW v \in Own(w)
       PROVE  ComputeVertex(v, store[w].vertices[v],
                            Cardinality({e \in store[w].edges : e.src = v}),
                            MailOf(Inbox(w), v),
                            TeleportAt(store[w].vertices, teleport[w], v), iteration)
                = Result(v)
  <2> DEFINE t == TeleportAt(store[w].vertices, teleport[w], v)
             u == IF Algorithm = "wcc" THEN NoTeleport ELSE Share
  <2>1. store[w].vertices[v] = committed[v]
    BY <1>6, Partitions
  <2>2. Cardinality({e \in store[w].edges : e.src = v}) = Cardinality(OutOf(v))
    BY <1>7, DegreeRight
  <2>3. MailOf(Inbox(w), v) = MailOf(mail, v)
    BY <1>1, InboxRight DEF Common
  <2>4. Algorithm = "wcc" \/ iteration = 1 \/ t = u
    <3>. SUFFICES ASSUME Algorithm # "wcc", iteration # 1 PROVE t = u
      OBVIOUS
    <3>1. v \in DOMAIN Input.vertices /\ Algorithm = "pagerank"
      BY AlgorithmAssumption DEF Own
    <3>2. teleport[w] = Share /\ Share # NoTeleport
      BY <1>9, <3>1, ShareIs
    <3>. QED  BY <3>2, SetStays
  <2> HIDE DEF t
  <2>5. ComputeVertex(v, committed[v], Cardinality(OutOf(v)), MailOf(mail, v), t, iteration)
          = ComputeVertex(v, committed[v], Cardinality(OutOf(v)), MailOf(mail, v), u, iteration)
    BY <2>4, AnyTeleport
  <2>. QED  BY <2>1, <2>2, <2>3, <2>5 DEF Result, t
<1> DEFINE g == [v \in Own(w) |-> Result(v)]
<1>11. /\ r.db.edges = store[w].edges /\ \A v \in Own(w) : r.db.vertices[v] = Result(v).value
       /\ r.outbox = Outbox(store[w], g)
       /\ r.teleport = IF Own(w) = {} THEN teleport[w]
                       ELSE TeleportAt(store[w].vertices, teleport[w], Max(Own(w)))
  <2>1. Computes(store[w], Inbox(w), teleport[w], iteration, g)
    BY <1>6, <1>10 DEF Computes
  <2> HIDE DEF g, r
  <2>2. r = [ db       |-> [vertices |-> [v \in DOMAIN store[w].vertices |-> g[v].value],
                            edges    |-> store[w].edges],
              outbox   |-> Outbox(store[w], g),
              teleport |-> Onward(store[w], teleport[w]) ]
    BY <2>1, SuperstepIs DEF r
  <2>3. \A v \in Own(w) : g[v] = Result(v)
    BY DEF g
  <2>. QED  BY <1>6, <2>2, <2>3 DEF Onward
<1>12. r.outbox = Messages(w)
  <2> DEFINE sent == {e \in store[w].edges : e.src \in Own(w) /\ Result(e.src).send # {}}
  <2>1. {e \in store[w].edges : e.src \in Own(w) /\ g[e.src].send # {}} = sent
    OBVIOUS
  <2>2. [e \in sent |-> CHOOSE x \in g[e.src].send : TRUE]
          = [e \in sent |-> CHOOSE x \in Result(e.src).send : TRUE]
    OBVIOUS
  <2>3. Outbox(store[w], g) = [e \in sent |-> CHOOSE x \in g[e.src].send : TRUE]
    BY <1>6, <2>1 DEF Outbox
  <2> HIDE DEF g, r
  <2>. QED  BY <1>11, <2>2, <2>3 DEF Messages
<1>13. Algorithm = "pagerank" =>
         r.teleport \in {NoTeleport, Share} /\ (Own(w) = {} \/ r.teleport = Share)
  <2>. SUFFICES ASSUME Algorithm = "pagerank"
                PROVE  r.teleport \in {NoTeleport, Share} /\ (Own(w) = {} \/ r.teleport = Share)
    OBVIOUS
  <2>1. CASE Own(w) = {}
    BY <1>9, <1>11, <2>1
  <2>2. CASE Own(w) # {} /\ teleport[w] = Share
    <3>1. Share # NoTeleport
      BY <1>9, <2>2, ShareIs DEF Own
    <3>. QED  BY <1>11, <2>2, <3>1, SetStays
  <2>3. CASE Own(w) # {} /\ teleport[w] # Share
    <3>1. teleport[w] = NoTeleport /\ iteration = 1
      BY <1>9, <2>3
    <3>2. committed = Input.vertices
      BY <1>6, <3>1 DEF RoundInv
    <3>3. store[w].vertices = Loaded(w)
      BY <1>6, <3>2, Partitions
    <3>4. Own(w) \subseteq Int /\ IsFiniteSet(Own(w)) /\ Own(w) \subseteq DOMAIN Input.vertices
      BY InputAssumption, FS_Subset DEF Own
    <3>5. Max(Own(w)) \in Own(w) /\ Max(Own(w)) \in Int
      BY <2>3, <3>4, MaxOfFinite
    <3> DEFINE u == Max(Own(w))
    <3>6. u \in DOMAIN Loaded(w) /\ u <= u /\ \A x \in DOMAIN Loaded(w) : Loaded(w)[x] = Input.vertices[x]
      BY <3>5, Partitions
    <3>7. DOMAIN Loaded(w) \subseteq DOMAIN Input.vertices
      BY <3>4, Partitions
    <3> HIDE DEF u
    <3>8. TeleportAt(Loaded(w), NoTeleport, u) = Input.vertices[u] - Damp(Input.vertices[u])
      BY <1>9, <3>5, <3>6, <3>7, ShareOfEqual DEF u
    <3>9. Share = Input.vertices[u] - Damp(Input.vertices[u])
      BY <1>9, <3>5, <3>4, ShareIs DEF u
    <3>. QED  BY <1>11, <2>3, <3>1, <3>3, <3>8, <3>9 DEF u
  <2>. QED  BY <2>1, <2>2, <2>3
<1> HIDE DEF r
<1>. QED  BY <1>2, <1>3, <1>5, <1>11, <1>12, <1>13

----------------------------------------------------------------------------
(* The steps of the workers. *)
RoundOK(w) == Once(w) /\ TeleportOK(w) /\ ResultsOK(w)

StaysDoneSo(w) == Done(w) => Done(w)' /\ store'[w].edges = store[w].edges

(* A worker that is at rest, or handles a frame outside of a round.        *)
LEMMA QuietRound ==
  ASSUME IndInv, NEW w \in Worker, RoundOK(w), Fixed, UNCHANGED <<mail, nextMail, driverAlive>>,
         outbox'[w] = outbox[w],
         Done(w) => /\ store'[w] = store[w] /\ computed'[w] = computed[w]
                    /\ toDriver'[w] = toDriver[w],
         computed'[w] = computed[w] \/ (~Done(w)' /\ Algorithm = "wcc"),
         \/ teleport'[w] = teleport[w]
         \/ /\ teleport'[w] = NoTeleport /\ ~Gone(w) /\ toWorker[w] # << >>
            /\ Head(toWorker[w]).type = "SetAlgorithm",
         Gone(w) => Gone(w)',
         \/ Gone(w)' \/ toWorker'[w] = toWorker[w]
         \/ toWorker[w] # << >> /\ toWorker'[w] = Tail(toWorker[w])
  PROVE  RoundOK(w)' /\ StaysDoneSo(w)
<1>1. /\ (Done(w)' => Done(w)) /\ (Done(w) => Done(w)') /\ (Owes(w)' <=> Owes(w))
      /\ UNCHANGED <<phase, turn, iteration, committed>>
      /\ Share' = Share /\ Own(w)' = Own(w)
  BY FixedMeans DEF Done, Fixed, Share, Own
<1>2. ASSUME NEW i \in 1 .. Len(toWorker'[w]), ~Gone(w)'
      PROVE  \E j \in 1 .. Len(toWorker[w]) : toWorker'[w][i] = toWorker[w][j]
  <2>1. CASE toWorker'[w] = toWorker[w]
    BY <2>1
  <2>2. CASE toWorker[w] # << >> /\ toWorker'[w] = Tail(toWorker[w])
    <3>1. /\ Len(toWorker[w]) \in Nat /\ Len(toWorker'[w]) = Len(toWorker[w]) - 1
          /\ \A k \in 1 .. (Len(toWorker[w]) - 1) : toWorker'[w][k] = toWorker[w][k + 1]
      BY <2>2, QueueTail DEF IndInv, Shape
    <3>2. i + 1 \in 1 .. Len(toWorker[w]) /\ toWorker'[w][i] = toWorker[w][i + 1]
      BY <3>1
    <3>. QED  BY <3>2
  <2>. QED  BY <1>2, <2>1, <2>2
<1>3. Once(w)'
  <2>. SUFFICES ASSUME Done(w)' PROVE NoQuestion(w)' /\ (phase' = "send" => w < turn')
    BY DEF Once
  <2>1. NoQuestion(w) /\ (phase = "send" => w < turn)
    BY <1>1 DEF RoundOK, Once
  <2>. QED  BY <1>1, <1>2, <2>1 DEF NoQuestion
<1>4. TeleportOK(w)'
  <2>. SUFFICES ASSUME Algorithm = "pagerank" PROVE TeleportOK(w)'
    BY DEF TeleportOK
  <2>1. computed'[w] = computed[w] /\ TeleportOK(w)
    BY DEF RoundOK
  <2>2. ASSUME computed[w] > 0 PROVE teleport'[w] = teleport[w]
    <3>. SUFFICES ASSUME ~Gone(w), toWorker[w] # << >>, Head(toWorker[w]).type = "SetAlgorithm"
                  PROVE  FALSE
      OBVIOUS
    <3>1. 1 \in 1 .. Len(toWorker[w]) /\ Head(toWorker[w]) = toWorker[w][1]
      BY QueueTail DEF IndInv, Shape
    <3>2. toWorker[w][1].type # "SetAlgorithm"
      BY <2>1, <2>2, <3>1 DEF TeleportOK
    <3>. QED  BY <3>1, <3>2
  <2>3. computed[w] > 0 =>
          Gone(w)' \/ \A i \in 1 .. Len(toWorker'[w]) : toWorker'[w][i].type # "SetAlgorithm"
    BY <1>2, <2>1 DEF TeleportOK
  <2>4. teleport'[w] \in {NoTeleport, Share}
    BY <2>1 DEF TeleportOK
  <2>. QED  BY <1>1, <2>1, <2>2, <2>3, <2>4 DEF TeleportOK
<1>5. ResultsOK(w)'
  <2>1. outbox'[w] # NoMail => Done(w)'
    BY <1>1 DEF RoundOK, ResultsOK
  <2>2. ASSUME Done(w)'
        PROVE  /\ store'[w] = store[w] /\ toDriver'[w] = toDriver[w] /\ Done(w)
               /\ Messages(w)' = Messages(w) /\ (\A v : Result(v)' = Result(v))
               /\ Cutoff(w) => Cutoff(w)'
    BY <1>1, <2>2, SameMessages, SameResults DEF Cutoff, Results
  <2>. QED  BY <1>1, <2>1, <2>2 DEF RoundOK, ResultsOK, Results
<1>. QED  BY <1>1, <1>3, <1>4, <1>5 DEF RoundOK, StaysDoneSo

(* A superstep is computed once, and as it should be. *)
LEMMA SuperstepRound ==
  ASSUME OwnRun, IndInv, DataInv, EdgeInv, RoundInv, NEW w \in Worker, Fixed,
         UNCHANGED <<mail, nextMail>>, ComputeSuperstep(w)
  PROVE  RoundOK(w)' /\ StaysDoneSo(w)
<1>1. /\ phase \in Rounds /\ Owes(w) /\ ~Done(w)
      /\ toDriver'[w] = << >> /\ toWorker'[w] = << >> /\ computed'[w] = iteration
      /\ store'[w].edges = store[w].edges
      /\ \A v \in Own(w) : store'[w].vertices[v] = Result(v).value
      /\ outbox'[w] = Messages(w)
      /\ Algorithm = "pagerank" =>
           teleport'[w] \in {NoTeleport, Share} /\ (Own(w) = {} \/ teleport'[w] = Share)
  BY ComputeRight
<1>2. /\ Messages(w)' = Messages(w) /\ (\A v : Result(v)' = Result(v)) /\ Own(w)' = Own(w)
      /\ Share' = Share /\ UNCHANGED <<phase, turn, iteration>>
  BY <1>1, SameMessages, SameResults DEF Fixed, Own, Share
<1>3. 1 .. Len(toWorker'[w]) = {} /\ 1 .. Len(toDriver'[w]) = {}
  BY <1>1, EmptyQueue, ShortQueue
<1>4. Once(w)'
  <2>1. phase = "send" => w < turn
    BY <1>1 DEF Owes
  <2>2. NoQuestion(w)'
    BY <1>3 DEF NoQuestion
  <2>. QED  BY <1>2, <2>1, <2>2 DEF Once
<1>5. TeleportOK(w)'
  BY <1>1, <1>2, <1>3 DEF TeleportOK
<1>6. ResultsOK(w)'
  <2>1. Done(w)'
    BY <1>1, <1>2 DEF Done
  <2>2. IsMap(Messages(w)) /\ Within(Messages(w), Messages(w))
    BY DEF Messages, IsMap, Within
  <2>. QED  BY <1>1, <1>2, <1>3, <2>1, <2>2 DEF ResultsOK
<1>. QED  BY <1>1, <1>4, <1>5, <1>6 DEF RoundOK, StaysDoneSo

(* What is emitted of the results is on its way, if the driver is there.   *)
LEMMA EmitRound ==
  ASSUME IndInv, DataInv, NEW w \in Worker, RoundOK(w), Fixed,
         UNCHANGED <<mail, nextMail>>, EmitBatch(w)
  PROVE  RoundOK(w)' /\ StaysDoneSo(w)
<1>1. PICK batch \in NextBatch(DOMAIN outbox[w]) :
        LET rest == DOMAIN outbox[w] \ batch
        IN  /\ WorkerSends(w, [ type   |-> "SuperstepResultBatch",
                                outbox |-> Restrict(outbox[w], batch),
                                last   |-> rest = {} ])
            /\ outbox' = [outbox EXCEPT ![w] = Restrict(@, rest)]
            /\ Becomes(w, IF rest = {} THEN "serving" ELSE "emitting")
  BY DEF EmitBatch
<1> DEFINE out == outbox[w]
           rest == DOMAIN out \ batch
<1>2. PICK f : f = [ type   |-> "SuperstepResultBatch", outbox |-> Restrict(out, batch),
                     last   |-> rest = {} ]
  OBVIOUS
<1>3. /\ workerState[w] = "emitting" /\ ~Gone(w) /\ ~Gone(w)'
      /\ UNCHANGED <<toWorker, driverAlive, store, computed, teleport>>
      /\ outbox'[w] = Restrict(out, rest)
      /\ toDriver'[w] = IF driverAlive THEN Append(toDriver[w], f) ELSE toDriver[w]
  <2>1. DOMAIN toDriver = Worker /\ DOMAIN workerState = Worker /\ DOMAIN outbox = Worker
    BY DEF IndInv, Shape, DataInv, Common
  <2>2. /\ workerState[w] = "emitting"
        /\ UNCHANGED <<toWorker, driverAlive, store, computed, teleport>>
    BY <1>1 DEF EmitBatch, WorkerSends, Becomes
  <2>3. ~Gone(w) /\ ~Gone(w)'
    BY <1>1, <2>1, <2>2 DEF Becomes, Gone
  <2>4. outbox'[w] = Restrict(out, rest)
    BY <1>1, <2>1
  <2>5. toDriver'[w] = IF driverAlive THEN Append(toDriver[w], f) ELSE toDriver[w]
    BY <1>1, <1>2, <2>1 DEF WorkerSends
  <2>. QED  BY <2>2, <2>3, <2>4, <2>5
<1>4. /\ Messages(w)' = Messages(w) /\ (\A v : Result(v)' = Result(v)) /\ Own(w)' = Own(w)
      /\ Share' = Share /\ UNCHANGED <<phase, turn, iteration>> /\ (Done(w)' <=> Done(w))
  BY <1>3, SameMessages, SameResults DEF Fixed, Own, Share, Done
<1>5. Done(w)
  <2>1. phase \in Rounds
    BY <1>3 DEF IndInv, WorkerOK, TalkOK, Idle, Asked, Answered, Rounds
  <2>. QED  BY <1>3, <2>1 DEF Done, Rounds, IndInv, WorkerOK, ComputedOK
<1>6. Once(w)' /\ TeleportOK(w)'
  BY <1>3, <1>4 DEF RoundOK, Once, TeleportOK, NoQuestion
<1>7. /\ IsMap(outbox'[w]) /\ DOMAIN outbox'[w] = rest
      /\ \A e \in rest : outbox'[w][e] = out[e]
      /\ IsMap(f.outbox) /\ DOMAIN f.outbox = batch \cap DOMAIN out /\ f.type = "SuperstepResultBatch"
      /\ \A e \in batch \cap DOMAIN out : f.outbox[e] = out[e]
  <2>1. batch \subseteq DOMAIN out
    BY DEF NextBatch, kSubset
  <2>. QED  BY <1>2, <1>3, <2>1 DEF Restrict, IsMap
<1>8. Within(out, Messages(w))
  BY <1>5 DEF RoundOK, ResultsOK
<1>9. Within(outbox'[w], Messages(w)) /\ Within(f.outbox, Messages(w))
  BY <1>7, <1>8 DEF Within
<1>10. ASSUME NEW i \in 1 .. Len(toDriver'[w])
       PROVE  \/ i \in 1 .. Len(toDriver[w]) /\ toDriver'[w][i] = toDriver[w][i]
              \/ toDriver'[w][i] = f
  BY <1>3, QueueAppend DEF IndInv, Shape
<1>11. ASSUME NEW i \in 1 .. Len(toDriver[w])
       PROVE  i \in 1 .. Len(toDriver'[w]) /\ toDriver'[w][i] = toDriver[w][i]
  BY <1>3, QueueAppend DEF IndInv, Shape
<1>12. driverAlive => /\ Len(toDriver'[w]) \in 1 .. Len(toDriver'[w])
                      /\ toDriver'[w][Len(toDriver'[w])] = f
  <2>1. IsQueue(toDriver[w])
    BY DEF IndInv, Shape
  <2>. QED  BY <1>3, <2>1, QueueAppend
<1>13. ASSUME NEW e \in DOMAIN Messages(w)
       PROVE  \/ e \in DOMAIN outbox'[w] \/ e \in DOMAIN nextMail'
              \/ \E i \in 1 .. Len(toDriver'[w]) :
                   Results(w, i)' /\ e \in DOMAIN toDriver'[w][i].outbox
              \/ Cutoff(w)'
  <2>1. \/ e \in DOMAIN out \/ e \in DOMAIN nextMail
        \/ \E i \in 1 .. Len(toDriver[w]) :
             Results(w, i) /\ e \in DOMAIN toDriver[w][i].outbox
        \/ Cutoff(w)
    BY <1>5 DEF RoundOK, ResultsOK
  <2>2. CASE ~driverAlive
    BY <1>3, <2>2 DEF Cutoff
  <2>3. CASE e \in DOMAIN out /\ driverAlive
    BY <1>7, <1>12, <2>3 DEF Results
  <2>4. ASSUME NEW i \in 1 .. Len(toDriver[w]), Results(w, i),
               e \in DOMAIN toDriver[w][i].outbox
        PROVE  \E j \in 1 .. Len(toDriver'[w]) :
                 Results(w, j)' /\ e \in DOMAIN toDriver'[w][j].outbox
    BY <1>11, <2>4 DEF Results
  <2>5. Cutoff(w) => ~driverAlive
    BY <1>3 DEF Cutoff
  <2>. QED  BY <2>1, <2>2, <2>3, <2>4, <2>5
<1>14. \A i \in 1 .. Len(toDriver'[w]) :
         Results(w, i)' => /\ IsMap(toDriver'[w][i].outbox)
                          /\ Within(toDriver'[w][i].outbox, Messages(w))
  BY <1>5, <1>7, <1>9, <1>10 DEF RoundOK, ResultsOK, Results
<1>15. \A v \in Own(w) : store[w].vertices[v] = Result(v).value
  BY <1>5 DEF RoundOK, ResultsOK
<1>16. ResultsOK(w)'
  BY <1>3, <1>4, <1>5, <1>7, <1>9, <1>13, <1>14, <1>15 DEF ResultsOK
<1>. QED  BY <1>3, <1>4, <1>6, <1>16 DEF RoundOK, StaysDoneSo

LEMMA ActorRound ==
  ASSUME OwnRun, IndInv, DataInv, EdgeInv, RoundInv, NEW w \in Worker, WorkerActs(w), Fixed,
         UNCHANGED <<mail, nextMail>>
  PROVE  RoundOK(w)' /\ StaysDoneSo(w)
<1>1. WorkerStep(w) /\ DataOK(w) /\ Common /\ RoundOK(w) /\ Shape /\ WorkerOK(w)
      /\ UNCHANGED driverAlive /\ DOMAIN teleport = Worker
  BY WorkerFrame DEF WorkerActs, DataInv, RoundInv, RoundOK, IndInv
<1>2. CASE Bind(w)
  <2>1. UNCHANGED <<toWorker, toDriver, workerVars>> /\ ~Gone(w)
    BY <1>2 DEF Bind, channels, Gone
  <2>. QED  BY <1>1, <2>1, QuietRound DEF workerVars
<1>3. CASE SendReady(w)
  <2>1. UNCHANGED <<toWorker, workerVars>> /\ ~Gone(w) /\ workerState[w] = "accepted"
    BY <1>3 DEF SendReady, channels, Gone
  <2>2. ~Done(w)
    BY <1>1, <2>1 DEF WorkerOK, TalkOK, Idle, Asked, Answered, Done, Rounds
  <2>. QED  BY <1>1, <2>1, <2>2, QuietRound DEF workerVars
<1>4. CASE LoadGraph(w)
  <2>1. /\ UNCHANGED <<toDriver, workerState, computed, outbox, teleport>> /\ ~Gone(w)
        /\ toWorker[w] # << >> /\ toWorker'[w] = Tail(toWorker[w])
        /\ Head(toWorker[w]).type = "LoadGraph"
    BY <1>1, <1>4 DEF LoadGraph, Receives, WorkerTakes, Gone, Shape
  <2>2. HasLoad(w)
    <3>1. 1 \in 1 .. Len(toWorker[w]) /\ Head(toWorker[w]) = toWorker[w][1]
      BY <1>1, <2>1, QueueTail DEF Shape
    <3>. QED  BY <2>1, <3>1 DEF HasLoad, Loading
  <2>3. ~Done(w)
    BY <1>1, <2>2 DEF DataOK, QueueOK, Unheard, Done
  <2>. QED  BY <1>1, <2>1, <2>3, QuietRound
<1>5. CASE SetAlgorithm(w)
  <2>1. /\ UNCHANGED <<toDriver, workerState, computed, outbox, store>> /\ ~Gone(w)
        /\ toWorker[w] # << >> /\ toWorker'[w] = Tail(toWorker[w])
        /\ Head(toWorker[w]).type = "SetAlgorithm" /\ teleport'[w] = NoTeleport
    BY <1>1, <1>5 DEF SetAlgorithm, Receives, WorkerTakes, Gone, Shape
  <2>. QED  BY <1>1, <2>1, QuietRound
<1>6. CASE KeepBatch(w)
  <2>1. /\ UNCHANGED <<toDriver, workerState, computed, outbox, store, teleport>> /\ ~Gone(w)
        /\ toWorker[w] # << >> /\ toWorker'[w] = Tail(toWorker[w])
    BY <1>1, <1>6 DEF KeepBatch, Receives, WorkerTakes, Gone, Shape
  <2>. QED  BY <1>1, <2>1, QuietRound
<1>7. CASE \/ LoadGraphBatch(w) \/ CreateCheckpoint(w) \/ FetchVertices(w)
           \/ DumpVerticesCsv(w) \/ LoadCheckpoint(w)
  <2>1. /\ UNCHANGED <<workerState, outbox, teleport>> /\ ~Gone(w) /\ workerState[w] = "serving"
        /\ toWorker[w] # << >> /\ toWorker'[w] = Tail(toWorker[w])
        /\ Head(toWorker[w]).type \in {"LoadGraphBatch", "CreateCheckpoint", "FetchVertices",
                                       "DumpVerticesCsv", "LoadCheckpoint"}
        /\ computed' = computed \/ LoadCheckpoint(w)
    BY <1>1, <1>7 DEF LoadGraphBatch, CreateCheckpoint, FetchVertices, DumpVerticesCsv,
       LoadCheckpoint, Receives, WorkerTakes, Gone, Shape, workerVars
  <2>2. Asking(Head(toWorker[w]))
    BY <2>1 DEF Asking
  <2>3. Head(toWorker[w]).type = Question[phase] /\ Owes(w) /\ phase # "handshake"
    BY <1>1, <2>1, <2>2, AskedData
  <2>4. phase \notin Rounds
    BY <2>1, <2>3 DEF Question, Rounds
  <2>5. ~Done(w) /\ ~Done(w)'
    BY <2>4 DEF Done, Fixed
  <2>6. LoadCheckpoint(w) => Algorithm = "wcc"
    <3>. SUFFICES ASSUME LoadCheckpoint(w) PROVE Algorithm = "wcc"
      OBVIOUS
    <3>1. Head(toWorker[w]).type = "LoadCheckpoint"
      BY DEF LoadCheckpoint, Receives
    <3>2. phase \in {"restore", "restored"}
      BY <2>3, <3>1 DEF Question, Owes
    <3>3. Unrecovered
      BY <1>1, <3>2 DEF Common, Unrecovered
    <3>. QED  BY <3>3 DEF RoundInv
  <2>. QED  BY <1>1, <2>1, <2>5, <2>6, QuietRound
<1>8. CASE Shutdown(w) \/ LosesDriver(w)
  <2>1. UNCHANGED <<toDriver, workerVars>> /\ Gone(w)'
    BY <1>1, <1>8 DEF Shutdown, LosesDriver, Becomes, channels, Shape, Gone
  <2>. QED  BY <1>1, <2>1, QuietRound DEF workerVars
<1>. QED  BY <1>1, <1>2, <1>3, <1>4, <1>5, <1>6, <1>7, <1>8, SuperstepRound, EmitRound
          DEF WorkerStep

(* Others do not notice. *)
LEMMA BystanderRound ==
  ASSUME IndInv, NEW w \in Worker, RoundOK(w), Fixed, SameWorker(w),
         UNCHANGED <<mail, nextMail, driverAlive>>,
         store'[w] = store[w], outbox'[w] = outbox[w], teleport'[w] = teleport[w]
  PROVE  RoundOK(w)' /\ StaysDoneSo(w)
<1>1. Gone(w) => Gone(w)'
  BY DEF SameWorker, Gone
<1>. QED  BY <1>1, QuietRound DEF SameWorker

(* A worker that dies takes along what it had not sent, and the driver     *)
(* waits for its last batch in vain.                                       *)
LEMMA DeathRound ==
  ASSUME IndInv, NEW w \in Worker, RoundOK(w), Fixed, UNCHANGED workerVars,
         UNCHANGED <<mail, nextMail>>, WorkerCrash(w)
  PROVE  RoundOK(w)' /\ StaysDoneSo(w)
<1>1. PICK n \in 0 .. Len(toDriver[w]) : toDriver'[w] = SubSeq(toDriver[w], 1, n)
  BY DEF WorkerCrash, IndInv, Shape
<1>2. /\ ~Gone(w) /\ Gone(w)' /\ driverAlive' = driverAlive /\ IsQueue(toDriver[w])
  BY DEF WorkerCrash, Gone, IndInv, Shape
<1>3. /\ Len(toDriver'[w]) = n /\ n \in Nat /\ Len(toDriver[w]) \in Nat
      /\ \A i \in 1 .. n : toDriver'[w][i] = toDriver[w][i] /\ i \in 1 .. Len(toDriver[w])
  <2>1. Len(toDriver[w]) \in Nat
    BY <1>2 DEF IsQueue
  <2>. QED  BY <1>1, <1>2, <2>1, QueuePrefix
<1>4. /\ (Done(w)' <=> Done(w)) /\ (Owes(w)' <=> Owes(w)) /\ Own(w)' = Own(w)
      /\ Messages(w)' = Messages(w) /\ (\A v : Result(v)' = Result(v)) /\ Share' = Share
      /\ UNCHANGED <<store, outbox, computed, teleport, phase, turn>>
  BY FixedMeans, SameMessages, SameResults DEF Done, Fixed, Share, workerVars
<1>5. Once(w)' /\ TeleportOK(w)'
  BY <1>2, <1>4 DEF RoundOK, Once, TeleportOK, NoQuestion
<1>6. ASSUME NEW i \in 1 .. Len(toDriver[w]), i \notin 1 .. n, Done(w)
      PROVE  Cutoff(w)'
  <2>1. toDriver[w] # << >>
    BY EmptyQueue, ShortQueue
  <2>2. Owes(w) /\ Answered(w)
    BY <2>1 DEF IndInv, WorkerOK, TalkOK, Idle, Asked
  <2>3. ASSUME NEW j \in 1 .. n PROVE ~toDriver[w][j].last
    BY <1>3, <1>6, <2>2, <2>3 DEF Answered, Done, Rounds
  <2>. QED  BY <1>2, <1>3, <1>4, <2>2, <2>3 DEF Cutoff
<1>7. ResultsOK(w)'
  <2>1. ASSUME Done(w), NEW e \in DOMAIN Messages(w)
        PROVE  \/ e \in DOMAIN outbox[w] \/ e \in DOMAIN nextMail
               \/ \E i \in 1 .. Len(toDriver'[w]) :
                    Results(w, i)' /\ e \in DOMAIN toDriver'[w][i].outbox
               \/ Cutoff(w)'
    <3>1. \/ e \in DOMAIN outbox[w] \/ e \in DOMAIN nextMail
          \/ \E i \in 1 .. Len(toDriver[w]) :
               Results(w, i) /\ e \in DOMAIN toDriver[w][i].outbox
          \/ Cutoff(w)
      BY <2>1 DEF RoundOK, ResultsOK
    <3>2. Cutoff(w) => Cutoff(w)'
      BY <1>2 DEF Cutoff
    <3>3. ASSUME NEW i \in 1 .. Len(toDriver[w]), Results(w, i),
                 e \in DOMAIN toDriver[w][i].outbox
          PROVE  \/ \E j \in 1 .. Len(toDriver'[w]) :
                      Results(w, j)' /\ e \in DOMAIN toDriver'[w][j].outbox
                 \/ Cutoff(w)'
      BY <1>3, <1>6, <2>1, <3>3 DEF Results
    <3>. QED  BY <3>1, <3>2, <3>3
  <2>2. Done(w) => \A i \in 1 .. Len(toDriver'[w]) :
          Results(w, i)' => /\ IsMap(toDriver'[w][i].outbox)
                           /\ Within(toDriver'[w][i].outbox, Messages(w))
    BY <1>3 DEF RoundOK, ResultsOK, Results
  <2>. QED  BY <1>4, <2>1, <2>2 DEF RoundOK, ResultsOK
<1>. QED  BY <1>4, <1>5, <1>7 DEF RoundOK, StaysDoneSo

LEMMA FixedRound ==
  ASSUME RoundInv, Fixed, UNCHANGED <<mail, nextMail>>, DOMAIN teleport' = Worker,
         \A w \in Worker : RoundOK(w)' /\ StaysDoneSo(w)
  PROVE  RoundInv'
<1>1. /\ UNCHANGED <<phase, iteration, committed, saved>> /\ (Unrecovered' <=> Unrecovered)
  BY DEF Fixed, Unrecovered
<1>2. Gathered'
  <2>1. ASSUME NEW e \in DOMAIN nextMail
        PROVE  \E w \in Worker : /\ Done(w)' /\ e \in DOMAIN Messages(w)'
                                 /\ nextMail[e] = Messages(w)'[e]
    <3>1. PICK w \in Worker : /\ Done(w) /\ e \in DOMAIN Messages(w)
                              /\ nextMail[e] = Messages(w)[e]
      BY DEF RoundInv, Gathered
    <3>2. Done(w)' /\ Messages(w)' = Messages(w)
      BY <1>1, <3>1, SameMessages DEF StaysDoneSo
    <3>. QED  BY <3>1, <3>2
  <2>. QED  BY <2>1 DEF RoundInv, Gathered, IsMap
<1>3. MailOK(mail)' /\ (Unrecovered' => MailOK(saved.mail)' /\ Algorithm = "wcc")
  BY <1>1 DEF RoundInv, MailOK, IsMap, IsMail, Distinct, Plain
<1>. QED  BY <1>1, <1>2, <1>3 DEF RoundInv, RoundOK

LEMMA RoundWorker ==
  ASSUME OwnRun, IndInv, DataInv, EdgeInv, RoundInv, NEW w \in Worker, WorkerActs(w)
  PROVE  RoundInv'
<1>1. Fixed /\ UNCHANGED <<mail, nextMail>> /\ WorkerStep(w)
  BY DEF WorkerActs, driverVars, clusterVars, Fixed
<1>2. (\A u \in Worker \ {w} : SameWorker(u)) /\ OtherWorkers(w) /\ driverAlive' = driverAlive
  BY <1>1, WorkerFrame, OtherFrame DEF IndInv, DataInv, Common, EdgeInv, RoundInv
<1>3. ASSUME NEW u \in Worker, u # w PROVE RoundOK(u)' /\ StaysDoneSo(u)
  <2>1. RoundOK(u)
    BY DEF RoundInv, RoundOK
  <2>. QED  BY <1>1, <1>2, <1>3, <2>1, BystanderRound DEF OtherWorkers
<1>4. RoundOK(w)' /\ StaysDoneSo(w)
  BY <1>1, ActorRound
<1>5. \A u \in Worker : RoundOK(u)' /\ StaysDoneSo(u)
  BY <1>3, <1>4
<1>6. DOMAIN teleport' = Worker
  BY <1>2 DEF OtherWorkers
<1>. QED  BY <1>1, <1>5, <1>6, FixedRound

LEMMA RoundCrash ==
  ASSUME IndInv, DataInv, RoundInv,
         \/ \E w \in Worker : WorkerCrash(w)
         \/ DriverCrash
         \/ UNCHANGED vars
  PROVE  RoundInv'
<1>1. Fixed /\ UNCHANGED workerVars /\ UNCHANGED <<mail, nextMail>>
  BY DEF WorkerCrash, DriverCrash, vars, clusterVars, driverVars, Fixed
<1>2. ASSUME NEW u \in Worker PROVE RoundOK(u)' /\ StaysDoneSo(u)
  <2>1. RoundOK(u) /\ UNCHANGED <<store, outbox, teleport>>
    BY <1>1 DEF RoundInv, RoundOK, workerVars
  <2>2. ASSUME NEW w \in Worker, WorkerCrash(w) PROVE RoundOK(u)' /\ StaysDoneSo(u)
    <3>1. CASE u = w
      BY <1>1, <2>1, <2>2, <3>1, DeathRound
    <3>2. CASE u # w
      <4>1. SameWorker(u) /\ driverAlive' = driverAlive
        BY <2>2, <3>2 DEF WorkerCrash, SameWorker, workerVars, IndInv, Shape
      <4>. QED  BY <1>1, <2>1, <4>1, BystanderRound
    <3>. QED  BY <3>1, <3>2
  <2>3. CASE DriverCrash
    <3>1. /\ UNCHANGED <<workerState, toWorker, toDriver, store, outbox, computed, teleport>>
          /\ ~driverAlive'
      BY <2>3 DEF DriverCrash, channels, workerVars
    <3>2. /\ (Done(u)' <=> Done(u)) /\ Own(u)' = Own(u) /\ (Gone(u)' <=> Gone(u))
          /\ Messages(u)' = Messages(u) /\ (\A v : Result(v)' = Result(v)) /\ Share' = Share
          /\ UNCHANGED <<phase, turn>> /\ Cutoff(u)'
      BY <1>1, <3>1, FixedMeans, SameMessages, SameResults DEF Done, Fixed, Share, Gone, Cutoff
    <3>3. Once(u)' /\ TeleportOK(u)'
      BY <2>1, <3>1, <3>2 DEF RoundOK, Once, TeleportOK, NoQuestion
    <3>4. ResultsOK(u)'
      BY <1>1, <2>1, <3>1, <3>2 DEF RoundOK, ResultsOK, Results
    <3>. QED  BY <3>1, <3>2, <3>3, <3>4 DEF RoundOK, StaysDoneSo
  <2>4. CASE UNCHANGED vars
    <3>1. SameWorker(u) /\ driverAlive' = driverAlive
      BY <2>4 DEF vars, channels, SameWorker, workerVars
    <3>. QED  BY <1>1, <2>1, <3>1, BystanderRound
  <2>. QED  BY <2>2, <2>3, <2>4
<1>3. DOMAIN teleport' = Worker
  BY <1>1 DEF workerVars, RoundInv
<1>. QED  BY <1>1, <1>2, <1>3, FixedRound

LEMMA RoundFault ==
  ASSUME IndInv, DataInv, RoundInv, NEW w \in Worker, WorkerFaults(w)
  PROVE  RoundInv'
<1>1. /\ Fixed /\ UNCHANGED workerVars /\ UNCHANGED <<mail, nextMail, driverAlive>>
  BY FaultCalls DEF WorkerFaults, driverVars
<1>2. ASSUME NEW u \in Worker PROVE RoundOK(u)' /\ StaysDoneSo(u)
  <2>1. RoundOK(u) /\ UNCHANGED <<store, outbox, teleport, computed>>
    BY <1>1 DEF RoundInv, RoundOK, workerVars
  <2>2. CASE u = w
    <3>1. phase \in FileCalls /\ ~Gone(w) /\ ~Gone(w)'
          /\ toWorker[w] # << >> /\ toWorker'[w] = Tail(toWorker[w])
      BY FaultCalls
    <3>2. ~Done(w)
      BY <3>1 DEF Done, FileCalls, Rounds
    <3>. QED  BY <1>1, <2>1, <2>2, <3>1, <3>2, QuietRound
  <2>3. CASE u # w
    <3>1. SameWorker(u)
      BY <2>3, FaultCalls
    <3>. QED  BY <1>1, <2>1, <3>1, BystanderRound
  <2>. QED  BY <2>2, <2>3
<1>3. DOMAIN teleport' = Worker
  BY <1>1 DEF workerVars, RoundInv
<1>. QED  BY <1>1, <1>2, <1>3, FixedRound

LEMMA OwnParts ==
  ASSUME OwnRun, NEW s \in Starts
  PROVE  s.saved.inboxes.part = Part
<1>1. OwnData
  BY DEF OwnRun
<1>2. s.saved.inboxes = OwnInboxes
  BY <1>1 DEF OwnData
<1>. QED  BY <1>2 DEF OwnInboxes

LEMMA RoundInit ==
  ASSUME OwnRun, Init
  PROVE  RoundInv
<1>1. PICK s \in Starts : StartsFrom(s)
  BY Zenon DEF Init, StartsFrom
<1>2. /\ phase = "connect" /\ iteration = 1 /\ mail = NoMail /\ nextMail = NoMail
      /\ outbox = [w \in Worker |-> NoMail] /\ teleport = [w \in Worker |-> NoTeleport]
      /\ computed = [w \in Worker |-> 0]
  BY DEF Init, DriverInit, WorkerInit
<1>3. IsMapOn(committed, DOMAIN Input.vertices) /\ (Unrecovered \/ committed = Input.vertices)
  BY <1>1, <1>2, InitCommitted
<1>4. Unrecovered =>
        /\ Algorithm = "wcc" /\ MailOK(saved.mail)
        /\ \A v \in DOMAIN Input.vertices : committed[v] \in Int
  <2>. SUFFICES ASSUME Unrecovered
                PROVE  /\ Algorithm = "wcc" /\ MailOK(saved.mail)
                       /\ \A v \in DOMAIN Input.vertices : committed[v] \in Int
    OBVIOUS
  <2> DEFINE k == s.saved.iteration
  <2>1. saved = s.saved /\ Interval > 0 /\ k > 0 /\ k \in Nat
    BY <1>1, StartsAssumption DEF StartsFrom, Unrecovered
  <2>2. /\ Algorithm = "wcc" /\ IsMap(s.saved.mail) /\ IsMail(s.saved.mail)
        /\ \A d, e \in DOMAIN s.saved.mail : Plain(d) = Plain(e) => d = e
        /\ \A w \in Worker : \A v \in DOMAIN PartitionOf(w).vertices :
             s.images[w][k].vertices[v] \in Int
    BY <2>1 DEF OwnRun
  <2>3. ASSUME NEW v \in DOMAIN Input.vertices PROVE committed[v] \in Int
    <3>1. committed = [x \in DOMAIN Input.vertices |->
                         s.images[s.saved.inboxes.part[x]][k].vertices[x]]
      <4>1. ~(Interval = 0 \/ s.saved.iteration = 0)
        BY <2>1
      <4>. QED  BY <1>1, <4>1, Zenon DEF StartsFrom
    <3>2. s.saved.inboxes.part = Part
      BY OwnParts
    <3>3. PICK w \in Worker : w = Part[v]
      BY PartAssumption
    <3>4. v \in DOMAIN PartitionOf(w).vertices
      BY <3>3, Partitions DEF Own
    <3>5. committed[v] = s.images[w][k].vertices[v]
      BY <3>1, <3>2, <3>3
    <3>. QED  BY <2>2, <3>4, <3>5
  <2>. QED  BY <2>1, <2>2, <2>3 DEF MailOK, Distinct
<1>5. \A v \in DOMAIN Input.vertices : committed[v] \in Int
  BY <1>3, <1>4, InputAssumption
<1>6. MailOK(NoMail) /\ DOMAIN NoMail = {} /\ IsMap(NoMail)
  BY EmptyMap DEF MailOK, IsMap, IsMail, Distinct
<1>7. Gathered
  BY <1>2, <1>6 DEF Gathered
<1>8. ASSUME NEW w \in Worker PROVE Once(w) /\ TeleportOK(w) /\ ResultsOK(w)
  BY <1>2 DEF Once, TeleportOK, ResultsOK, Done, Rounds
<1>. QED  BY <1>2, <1>3, <1>4, <1>5, <1>6, <1>7, <1>8 DEF RoundInv, Rounds

LEMMA NextRounds ==
  OwnRun /\ IndInv /\ DataInv /\ EdgeInv /\ RoundInv /\ [Next]_vars => EdgeInv' /\ RoundInv'
<1> SUFFICES ASSUME OwnRun, IndInv, DataInv, EdgeInv, RoundInv, [Next]_vars
             PROVE  EdgeInv' /\ RoundInv'
  OBVIOUS
<1>1. CASE DriverActs
  BY <1>1, EdgeDriver, RoundDriver
<1>2. ASSUME NEW w \in Worker, WorkerActs(w) PROVE EdgeInv' /\ RoundInv'
  BY <1>2, EdgeWorker, RoundWorker DEF RoundInv
<1>3. CASE (\E w \in Worker : WorkerCrash(w)) \/ DriverCrash \/ UNCHANGED vars
  BY <1>3, EdgeCrash, RoundCrash
<1>4. ASSUME NEW w \in Worker, WorkerFaults(w) PROVE EdgeInv' /\ RoundInv'
  BY <1>4, EdgeFault, RoundFault
<1>. QED  BY <1>1, <1>2, <1>3, <1>4 DEF Next

LEMMA RoundInvariance ==
  ASSUME OwnRun
  PROVE  Spec => [](IndInv /\ DataInv /\ EdgeInv /\ RoundInv)
<1>1. OwnData
  BY DEF OwnRun
<1>2. Init => IndInv /\ DataInv /\ EdgeInv /\ RoundInv
  BY <1>1, InitIsInd, InitData, EdgeInit, RoundInit
<1>3. IndInv /\ DataInv /\ EdgeInv /\ RoundInv /\ [Next]_vars
        => (IndInv /\ DataInv /\ EdgeInv /\ RoundInv)'
  BY NextInd, NextData, NextRounds
<1>. QED  BY <1>2, <1>3, PTL DEF Spec

----------------------------------------------------------------------------
(* The messages of a round as Bsp has them, on the edges of the input.     *)
LEMMA PlainMailIs ==
  ASSUME NEW m, MailOK(m)
  PROVE  /\ IsMap(PlainMail(m)) /\ DOMAIN PlainMail(m) = {Plain(x) : x \in DOMAIN m}
         /\ \A x \in DOMAIN m : PlainMail(m)[Plain(x)] = m[x]
         /\ PlainMail(m) = NoMail <=> m = NoMail
<1>1. IsMap(PlainMail(m)) /\ DOMAIN PlainMail(m) = {Plain(x) : x \in DOMAIN m}
  BY DEF PlainMail, IsMap
<1>2. ASSUME NEW x \in DOMAIN m PROVE PlainMail(m)[Plain(x)] = m[x]
  <2> DEFINE y == CHOOSE z \in DOMAIN m : Plain(z) = Plain(x)
  <2>1. PlainMail(m)[Plain(x)] = m[y]
    BY DEF PlainMail
  <2>2. y \in DOMAIN m /\ Plain(y) = Plain(x)
    OBVIOUS
  <2> HIDE DEF y
  <2>. QED  BY <2>1, <2>2 DEF MailOK, Distinct
<1>3. PlainMail(m) = NoMail <=> m = NoMail
  <2>1. DOMAIN PlainMail(m) = {} <=> DOMAIN m = {}
    BY <1>1
  <2>2. IsMap(m)
    BY DEF MailOK
  <2>. QED  BY <1>1, <2>1, <2>2, EmptyMap
<1>. QED  BY <1>1, <1>2, <1>3

LEMMA SameInbox ==
  ASSUME NEW m, MailOK(m), NEW v
  PROVE  /\ Range(MailOf(PlainMail(m), v)) = Range(MailOf(m, v))
         /\ SumFunction(MailOf(PlainMail(m), v)) = SumFunction(MailOf(m, v))
<1> DEFINE f == MailOf(m, v)
           b == MailOf(PlainMail(m), v)
           p == [e \in DOMAIN f |-> Plain(e)]
<1>1. /\ DOMAIN f = {e \in DOMAIN m : e.dst = v}
      /\ \A e \in DOMAIN f : f[e] = m[e]
  BY DEF MailOf, Restrict
<1>2. /\ DOMAIN b = {e \in DOMAIN PlainMail(m) : e.dst = v}
      /\ \A e \in DOMAIN b : b[e] = PlainMail(m)[e]
  BY DEF MailOf, Restrict
<1>3. IsFiniteSet(DOMAIN f) /\ \A e \in DOMAIN f : f[e] \in Int
  BY MailFinite
<1>4. /\ DOMAIN PlainMail(m) = {Plain(x) : x \in DOMAIN m}
      /\ \A x \in DOMAIN m : PlainMail(m)[Plain(x)] = m[x]
  BY PlainMailIs
<1>5. \A e : Plain(e).dst = e.dst
  BY DEF Plain
<1> HIDE DEF f, b
<1>6. \A x \in DOMAIN f : p[x] = Plain(x) /\ p[x] \in DOMAIN b /\ f[x] = b[p[x]]
  BY <1>1, <1>2, <1>4, <1>5
<1>7. ASSUME NEW y \in DOMAIN b PROVE \E x \in DOMAIN f : p[x] = y
  <2>1. PICK x \in DOMAIN m : Plain(x) = y
    BY <1>2, <1>4
  <2>2. x \in DOMAIN f
    BY <1>1, <1>2, <1>5, <2>1
  <2>. QED  BY <2>1, <2>2
<1> HIDE DEF p
<1>8. Renames(p, f, b)
  BY <1>1, <1>6 DEF Renames, MailOK, Distinct
<1>9. \A y \in DOMAIN b : b[y] \in Int
  BY <1>3, <1>6, <1>7
<1>10. IsFiniteSet(DOMAIN b)
  <2>1. p \in [DOMAIN f -> DOMAIN b]
    BY <1>6 DEF p
  <2>2. p \in Surjection(DOMAIN f, DOMAIN b)
    BY <1>7, <2>1 DEF Surjection
  <2>. QED  BY <1>3, <2>2, FS_Surjection
<1>11. SumFunction(f) = SumFunction(b)
  BY <1>3, <1>7, <1>8, <1>9, <1>10, SumRenamed
<1>12. Range(f) = Range(b)
  BY <1>6, <1>7 DEF Range
<1>. QED  BY <1>11, <1>12 DEF f, b

LEMMA ComputePlain ==
  ASSUME NEW m, MailOK(m), NEW v, NEW value, NEW degree, NEW t, NEW k
  PROVE  ComputeVertex(v, value, degree, MailOf(PlainMail(m), v), t, k)
           = ComputeVertex(v, value, degree, MailOf(m, v), t, k)
BY SameInbox DEF ComputeVertex, Wcc, PageRank

----------------------------------------------------------------------------
(* A round of the job is a superstep of Bsp, on the whole graph.           *)
Whole == [vertices |-> committed, edges |-> Input.edges]

WholeResults == [v \in DOMAIN Input.vertices |-> Result(v)]

LEMMA WholeTeleport ==
  ASSUME OwnRun, NEW v \in DOMAIN Input.vertices
  PROVE  \/ Algorithm = "wcc" \/ iteration = 1
         \/ TeleportAt(committed, BspTeleport, v) = Share
<1>. SUFFICES ASSUME Algorithm # "wcc", iteration # 1
              PROVE  TeleportAt(committed, BspTeleport, v) = Share
  OBVIOUS
<1>1. Algorithm = "pagerank" /\ EqualRanks
  BY AlgorithmAssumption DEF OwnRun
<1>2. BspTeleport = Share
  BY DEF BspTeleport, Share
<1>. QED  BY <1>1, <1>2, ShareIs, SetStays

LEMMA WholeComputes ==
  ASSUME OwnRun, DataInv, RoundInv
  PROVE  Computes(Whole, PlainMail(mail), BspTeleport, iteration, WholeResults)
<1>1. DOMAIN committed = DOMAIN Input.vertices
  BY DEF DataInv, Common, IsMapOn
<1>2. Whole.vertices = committed /\ Whole.edges = Input.edges
  BY DEF Whole
<1>3. ASSUME NEW v \in DOMAIN Input.vertices
      PROVE  ComputeVertex(v, committed[v], Cardinality({e \in Input.edges : e.src = v}),
                           MailOf(PlainMail(mail), v),
                           TeleportAt(committed, BspTeleport, v), iteration) = WholeResults[v]
  <2> DEFINE t == TeleportAt(committed, BspTeleport, v)
             u == IF Algorithm = "wcc" THEN NoTeleport ELSE Share
             n == Cardinality(OutOf(v))
  <2>1. WholeResults[v] = ComputeVertex(v, committed[v], n, MailOf(mail, v), u, iteration)
    BY DEF WholeResults, Result
  <2>2. Cardinality({e \in Input.edges : e.src = v}) = n
    BY DEF OutOf
  <2>3. Algorithm = "wcc" \/ iteration = 1 \/ t = u
    BY WholeTeleport
  <2> HIDE DEF t, u, n
  <2>4. ComputeVertex(v, committed[v], n, MailOf(PlainMail(mail), v), t, iteration)
          = ComputeVertex(v, committed[v], n, MailOf(mail, v), t, iteration)
    BY ComputePlain DEF RoundInv
  <2>5. ComputeVertex(v, committed[v], n, MailOf(mail, v), t, iteration)
          = ComputeVertex(v, committed[v], n, MailOf(mail, v), u, iteration)
    BY <2>3, AnyTeleport
  <2>. QED  BY <2>1, <2>2, <2>4, <2>5 DEF t
<1>. QED  BY <1>1, <1>2, <1>3 DEF Computes

LEMMA WholeOutbox ==
  ASSUME IndInv, DataInv, EdgeInv, RoundInv, DriverActs, EndRound
  PROVE  Outbox(Whole, WholeResults) = PlainMail(nextMail)
<1> DEFINE S == {e \in Input.edges :
                   e.src \in DOMAIN Input.vertices /\ Result(e.src).send # {}}
           sent(e) == CHOOSE x \in Result(e.src).send : TRUE
<1>1. Outbox(Whole, WholeResults) = [e \in S |-> sent(e)]
  <2>1. /\ Whole.edges = Input.edges /\ Whole.vertices = committed
        /\ DOMAIN committed = DOMAIN Input.vertices
    BY DEF Whole, DataInv, Common, IsMapOn
  <2>2. \A v \in DOMAIN Input.vertices : WholeResults[v] = Result(v)
    BY DEF WholeResults
  <2>3. S = {e \in Whole.edges : e.src \in DOMAIN Whole.vertices /\ WholeResults[e.src].send # {}}
    BY <2>1, <2>2
  <2>4. \A e \in S : sent(e) = CHOOSE x \in WholeResults[e.src].send : TRUE
    BY <2>2
  <2> HIDE DEF S, sent
  <2>. QED  BY <2>3, <2>4 DEF Outbox
<1>2. MailOK(nextMail)
  BY EndRoundOutcome
<1>3. /\ IsMap(PlainMail(nextMail)) /\ DOMAIN PlainMail(nextMail) = {Plain(x) : x \in DOMAIN nextMail}
      /\ \A x \in DOMAIN nextMail : PlainMail(nextMail)[Plain(x)] = nextMail[x]
  BY <1>2, PlainMailIs
<1>4. \A e : Plain(e).src = e.src
  BY DEF Plain
<1>5. ASSUME NEW w \in Worker, NEW d \in DOMAIN Messages(w)
      PROVE  /\ Messages(w)[d] = sent(d) /\ d.src \in DOMAIN Input.vertices
             /\ Result(d.src).send # {}
  BY DEF Messages, Own
<1>6. ASSUME NEW d \in DOMAIN nextMail
      PROVE  Plain(d) \in S /\ PlainMail(nextMail)[Plain(d)] = sent(Plain(d))
  <2>1. PICK w \in Worker : d \in DOMAIN Messages(w) /\ nextMail[d] = Messages(w)[d]
    BY DEF RoundInv, Gathered
  <2>2. Plain(d) \in Input.edges
    BY <1>2 DEF MailOK, IsMail
  <2>3. Plain(d).src = d.src /\ sent(Plain(d)) = sent(d)
    BY <1>4
  <2>4. Messages(w)[d] = sent(d) /\ d.src \in DOMAIN Input.vertices /\ Result(d.src).send # {}
    BY <1>5, <2>1
  <2>5. Plain(d) \in S
    BY <2>2, <2>3, <2>4
  <2> HIDE DEF S, sent
  <2>. QED  BY <1>3, <2>1, <2>3, <2>4, <2>5
<1>7. ASSUME NEW e \in S PROVE \E d \in DOMAIN nextMail : Plain(d) = e
  <2>1. PICK w \in Worker : w = Part[e.src]
    BY PartAssumption
  <2>2. HoldsEdges(store[w].edges, w)
    BY AllDone, DoneEdges
  <2>3. e \in PartitionOf(w).edges
    BY <2>1, EdgeParts
  <2>4. PICK d \in store[w].edges : Plain(d) = e
    BY <2>2, <2>3 DEF HoldsEdges
  <2>5. d.src = e.src /\ e.src \in Own(w)
    BY <1>4, <2>1, <2>4 DEF Own
  <2>6. d \in DOMAIN Messages(w)
    BY <2>5 DEF Messages
  <2>. QED  BY <2>4, <2>6, AllDone
<1> HIDE DEF S, sent
<1>8. DOMAIN PlainMail(nextMail) = S
  BY <1>3, <1>6, <1>7
<1>9. \A e \in S : PlainMail(nextMail)[e] = sent(e)
  BY <1>6, <1>7
<1>. QED  BY <1>1, <1>3, <1>8, <1>9 DEF IsMap

LEMMA WholeOnward ==
  ASSUME OwnRun, IndInv, DataInv, RoundInv, EndRound
  PROVE  Onward(Whole, BspTeleport) = BspTeleport'
<1> DEFINE last == Max(DOMAIN Input.vertices)
<1>1. iteration' # 1
  BY DEF EndRound, IndInv, Shape
<1>2. BspTeleport' = IF Algorithm = "wcc" THEN NoTeleport ELSE Share
  BY <1>1 DEF BspTeleport, Share
<1>3. Onward(Whole, BspTeleport) = IF DOMAIN Input.vertices = {} THEN BspTeleport
                                   ELSE TeleportAt(committed, BspTeleport, last)
  BY DEF Onward, Whole, DataInv, Common, IsMapOn
<1>4. BspTeleport = IF Algorithm = "wcc" \/ iteration = 1 THEN NoTeleport ELSE Share
  BY DEF BspTeleport, Share
<1>5. CASE Algorithm = "wcc"
  BY <1>2, <1>3, <1>4, <1>5, SetStays
<1>6. CASE Algorithm # "wcc" /\ DOMAIN Input.vertices = {}
  <2>1. Share = NoTeleport
    BY <1>6 DEF Share, TeleportAt
  <2>. QED  BY <1>2, <1>3, <1>4, <1>6, <2>1
<1>7. CASE Algorithm # "wcc" /\ DOMAIN Input.vertices # {} /\ iteration = 1
  <2>1. committed = Input.vertices
    BY <1>7 DEF RoundInv, EndRound, Through, Unrecovered
  <2>. QED  BY <1>2, <1>3, <1>4, <1>7, <2>1 DEF Share
<1>8. CASE Algorithm # "wcc" /\ DOMAIN Input.vertices # {} /\ iteration # 1
  <2>1. Algorithm = "pagerank" /\ EqualRanks
    BY <1>8, AlgorithmAssumption DEF OwnRun
  <2>2. Share # NoTeleport
    BY <1>8, <2>1, ShareIs
  <2>. QED  BY <1>2, <1>3, <1>4, <1>8, <2>2, SetStays
<1>. QED  BY <1>5, <1>6, <1>7, <1>8

LEMMA RoundIsSuperstep ==
  ASSUME OwnRun, IndInv, DataInv, EdgeInv, RoundInv, DriverActs, EndRound
  PROVE  ProcessSuperstep(Whole, PlainMail(mail), BspTeleport, iteration)
           = [db |-> Whole', outbox |-> PlainMail(nextMail), teleport |-> BspTeleport']
<1>1. ProcessSuperstep(Whole, PlainMail(mail), BspTeleport, iteration)
        = [ db       |-> [vertices |-> [v \in DOMAIN Whole.vertices |-> WholeResults[v].value],
                          edges    |-> Whole.edges],
            outbox   |-> Outbox(Whole, WholeResults),
            teleport |-> Onward(Whole, BspTeleport) ]
  BY WholeComputes, SuperstepIs
<1>2. [v \in DOMAIN Whole.vertices |-> WholeResults[v].value] = committed'
  <2>1. DOMAIN Whole.vertices = DOMAIN Input.vertices
    BY DEF Whole, DataInv, Common, IsMapOn
  <2>2. \A v \in DOMAIN Input.vertices : WholeResults[v].value = committed'[v]
    BY EndRoundOutcome DEF WholeResults
  <2>3. committed' = [v \in DOMAIN Input.vertices |-> committed'[v]]
    <3>1. DOMAIN committed = DOMAIN Input.vertices /\ phase = "receive" /\ turn > N
      BY DEF EndRound, Through, DataInv, Common, IsMapOn
    <3>2. committed' = [v \in DOMAIN committed |->
                          IF Part[v] \in Worker /\ v \in DOMAIN store[Part[v]].vertices
                            THEN store[Part[v]].vertices[v] ELSE committed[v]]
      BY <3>1 DEF DriverActs
    <3>. QED  BY <3>1, <3>2
  <2>. QED  BY <2>1, <2>2, <2>3
<1>3. Whole' = [vertices |-> committed', edges |-> Input.edges]
  BY DEF Whole
<1>4. Whole.edges = Input.edges
  BY DEF Whole
<1>. QED  BY <1>1, <1>2, <1>3, <1>4, WholeOutbox, WholeOnward


(* Where the job is in the sequential program; other phases than that of a *)
(* round's end change it only when the budget is spent, or not at all.     *)
Finished ==
  \/ phase \in {"fetch", "collect", "dump", "dumped", "shutdown", "done"}
  \/ phase \in {"checkpoint", "checkpointed"} /\ mail = NoMail

DueMail == IF Unrecovered THEN saved.mail ELSE mail

Reached == IF Unrecovered THEN saved.iteration + 1 ELSE iteration

LEMMA FinishedFrame ==
  ASSUME IndInv, DriverActs, ~EndRound
  PROVE  \/ (Finished' <=> Finished)
         \/ NextRound /\ iteration > MaxIterations /\ ~Finished /\ Finished'
<1>1. DriverStep
  BY DEF DriverActs
<1>2. CASE NextRound
  BY <1>2, MaxIterationsAssumption
     DEF NextRound, BeginRound, Goto, Collecting, Finished, IndInv, Shape
<1>3. CASE Publish \/ Recover
  BY <1>3 DEF Publish, Recover, Through, Goto, AfterRound, Collecting, Finished
<1>4. CASE NextCall
  BY <1>4 DEF NextCall, Successor, RunJobCalls, Graph500Calls, Goto, Finished
<1>5. CASE DriverFails
  BY <1>5 DEF DriverFails, driverVars, Finished
<1>. QED  BY <1>1, <1>2, <1>3, <1>4, <1>5
     DEF DriverStep, Connect, ReceiveReady, LoadAll, StreamBatch, StreamEnds, SealBatch,
     ReceiveGraphLoaded, SetAlgorithmAll, SendBatch, ReceiveResult, CreateCheckpointAll,
     ReceiveCreated, LoadCheckpointAll, ReceiveLoaded, FetchAll, ReceiveVertices, DumpPart,
     ReceiveDumped, ShutdownAll, SendsToAll, SendGraphBatch, At, Goto, Finished

LEMMA SameStage ==
  ASSUME IndInv, DataInv, RoundInv, DriverActs, ~EndRound
  PROVE  UNCHANGED <<DueMail, Reached, committed, BspTeleport>>
<1>1. /\ Unrecovered' => Unrecovered /\ saved' = saved
      /\ Unrecovered => Unrecovered' \/ Recover
  BY RecoveryEnds
<1>2. CASE Recover
  <2>1. /\ phase = "restored" /\ phase' = "round" /\ mail' = saved.mail
        /\ iteration' = saved.iteration + 1 /\ committed' = committed
    BY <1>2 DEF Recover, Through, Goto, DriverActs
  <2>2. Unrecovered /\ ~Unrecovered'
    BY <2>1 DEF IndInv, Shape, DataInv, Common, Unrecovered
  <2>3. Algorithm = "wcc"
    BY <2>2 DEF RoundInv
  <2>. QED  BY <2>1, <2>2, <2>3 DEF DueMail, Reached, BspTeleport
<1>3. CASE ~Recover
  <2>1. UNCHANGED <<mail, iteration, committed>>
    <3>1. RoundStays \/ ReceiveResult
      BY <1>3, RoundFrame
    <3>2. CASE RoundStays
      BY <3>2 DEF RoundStays
    <3>3. CASE ReceiveResult
      <4>1. UNCHANGED <<mail, iteration>> /\ phase = "receive" /\ turn <= N
        BY <3>3 DEF ReceiveResult, At
      <4>2. ~(turn > N)
        BY <4>1, SizeAssumption DEF IndInv, Shape
      <4>. QED  BY <4>1, <4>2 DEF DriverActs
    <3>. QED  BY <3>1, <3>2, <3>3
  <2>2. (Unrecovered' <=> Unrecovered) /\ (Unrecovered => saved' = saved)
    BY <1>1, <1>3
  <2>. QED  BY <2>1, <2>2 DEF DueMail, Reached, BspTeleport
<1>. QED  BY <1>2, <1>3

----------------------------------------------------------------------------
(* The operators of Bsp are those of the workers. *)
LEMMA SameTeleport ==
  ASSUME NEW vertices, NEW t, NEW v
  PROVE  Abstract!TeleportAt(vertices, t, v) = TeleportAt(vertices, t, v)
BY DEF Abstract!TeleportAt, TeleportAt, Abstract!NoTeleport, NoTeleport,
       Abstract!Damp, Damp, Abstract!Min, Min

LEMMA SameSum == ASSUME NEW f PROVE Abstract!SumFunction(f) = SumFunction(f)
BY DEF Abstract!SumFunction, SumFunction, Abstract!SumFunctionOnSet, SumFunctionOnSet,
       Abstract!FoldFunctionOnSet, FoldFunctionOnSet, Abstract!MapThenFoldSet,
       MapThenFoldSet

LEMMA SameCompute ==
  ASSUME NEW v, NEW value, NEW degree, NEW msgs, NEW t, NEW k
  PROVE  Abstract!ComputeVertex(v, value, degree, msgs, t, k)
           = ComputeVertex(v, value, degree, msgs, t, k)
BY SameSum
   DEF Abstract!ComputeVertex, ComputeVertex, Abstract!Wcc, Wcc, Abstract!PageRank,
       PageRank, Abstract!NoTeleport, NoTeleport, Abstract!Damp, Damp, Abstract!Min,
       Min, Abstract!Range, Range

LEMMA SameCardinality == \A S : Abstract!Cardinality(S) = Cardinality(S)
BY DEF Abstract!Cardinality, Cardinality

LEMMA SameSuperstep ==
  ASSUME NEW db, NEW m, NEW t, NEW k
  PROVE  Abstract!ProcessSuperstep(db, m, t, k) = ProcessSuperstep(db, m, t, k)
<1> DEFINE out(v) == {e \in db.edges : e.src = v}
           mine == [v \in DOMAIN db.vertices |->
                      ComputeVertex(v, db.vertices[v], Cardinality(out(v)),
                                    MailOf(m, v), TeleportAt(db.vertices, t, v), k)]
           its == [v \in DOMAIN db.vertices |->
                     Abstract!ComputeVertex(v, db.vertices[v],
                                            Abstract!Cardinality(out(v)),
                                            Abstract!MailOf(m, v),
                                            Abstract!TeleportAt(db.vertices, t, v), k)]
           after(r, last) ==
             LET sent == {e \in db.edges : e.src \in DOMAIN r /\ r[e.src].send # {}}
             IN  [ db       |-> [ vertices |-> [v \in DOMAIN db.vertices |-> r[v].value],
                                  edges    |-> db.edges ],
                   outbox   |-> [e \in sent |-> CHOOSE x \in r[e.src].send : TRUE],
                   teleport |-> IF DOMAIN db.vertices = {} THEN t ELSE last ]
           mineLast == TeleportAt(db.vertices, t, Max(DOMAIN db.vertices))
           itsLast == Abstract!TeleportAt(db.vertices, t, Abstract!Max(DOMAIN db.vertices))
<1>1. \A v : Abstract!MailOf(m, v) = MailOf(m, v)
  BY DEF Abstract!MailOf, MailOf, Abstract!Restrict, Restrict
<1>2. mine = its
  BY <1>1, SameTeleport, SameCompute, SameCardinality
<1>3. mineLast = itsLast
  BY SameTeleport DEF Abstract!Max, Max
<1>4. ProcessSuperstep(db, m, t, k) = after(mine, mineLast)
  BY DEF ProcessSuperstep
<1>5. Abstract!ProcessSuperstep(db, m, t, k) = after(its, itsLast)
  BY DEF Abstract!ProcessSuperstep
<1> HIDE DEF mine, its, mineLast, itsLast, after
<1>. QED  BY <1>2, <1>3, <1>4, <1>5

(* What is seen of the job in the sequential program.                      *)
LEMMA SeenStays ==
  ASSUME UNCHANGED <<DueMail, Reached, committed, BspTeleport>>, Finished' <=> Finished
  PROVE  UNCHANGED Abstract!vars
<1> DEFINE db == [vertices |-> committed, edges |-> Input.edges]
           messages == PlainMail(IF Unrecovered THEN saved.mail ELSE mail)
           superstep == IF Unrecovered THEN saved.iteration + 1 ELSE iteration
           status == IF \/ phase \in {"fetch", "collect", "dump", "dumped",
                                      "shutdown", "done"}
                        \/ phase \in {"checkpoint", "checkpointed"} /\ mail = NoMail
                       THEN "finished" ELSE "running"
<1>1. db' = db
  OBVIOUS
<1>2. messages' = messages
  <2>1. messages = PlainMail(DueMail)
    BY DEF DueMail
  <2>2. messages' = PlainMail(DueMail)'
    BY DEF DueMail
  <2>3. PlainMail(DueMail)' = PlainMail(DueMail)
    BY DEF PlainMail, Plain
  <2>. QED  BY <2>1, <2>2, <2>3
<1>3. superstep' = superstep
  BY DEF Reached
<1>4. status' = status
  BY DEF Finished
<1> HIDE DEF db, messages, superstep, status
<1>5. Abstract!vars = <<Input, db, messages, BspTeleport, superstep, status>>
  BY DEF Abstract!vars, db, messages, superstep, status
<1>6. Abstract!vars' = <<Input, db', messages', BspTeleport', superstep', status'>>
  BY DEF Abstract!vars, db, messages, superstep, status
<1>. QED  BY <1>1, <1>2, <1>3, <1>4, <1>5, <1>6


LEMMA EndRoundAbstract ==
  ASSUME OwnRun, IndInv, DataInv, EdgeInv, RoundInv, DriverActs, EndRound
  PROVE  Abstract!Superstep
<1>1. /\ phase = "receive" /\ ~Unrecovered /\ iteration <= MaxIterations
      /\ phase' \notin {"connect", "handshake", "load", "algorithm", "restore", "restored"}
      /\ mail' = nextMail /\ iteration' = iteration + 1
  BY DEF EndRound, Through, Goto, Unrecovered, AfterRound, Collecting, RoundInv, Rounds
<1>2. ~Unrecovered'
  BY <1>1 DEF Unrecovered
<1>3. ~Finished /\ (Finished' <=> nextMail = NoMail)
  BY <1>1 DEF Finished, EndRound, Goto, AfterRound, Collecting
<1>4. PlainMail(nextMail) = NoMail <=> nextMail = NoMail
  BY EndRoundOutcome, PlainMailIs
<1> DEFINE r == Abstract!ProcessSuperstep(Whole, PlainMail(mail), BspTeleport, iteration)
<1>5. r = [db |-> Whole', outbox |-> PlainMail(nextMail), teleport |-> BspTeleport']
  BY SameSuperstep, RoundIsSuperstep
<1>6. PlainMail(mail)' = PlainMail(nextMail)
  BY <1>1 DEF PlainMail, Plain
<1> DEFINE messages == PlainMail(IF Unrecovered THEN saved.mail ELSE mail)
           superstep == IF Unrecovered THEN saved.iteration + 1 ELSE iteration
           status == IF \/ phase \in {"fetch", "collect", "dump", "dumped",
                                      "shutdown", "done"}
                        \/ phase \in {"checkpoint", "checkpointed"} /\ mail = NoMail
                       THEN "finished" ELSE "running"
<1>7. messages = PlainMail(mail) /\ messages' = PlainMail(nextMail)
  <2>1. messages' = PlainMail(mail)'
    BY <1>2
  <2>. QED  BY <1>1, <1>6, <2>1
<1>8. superstep = iteration /\ superstep' = superstep + 1
  BY <1>1, <1>2
<1>9. status = "running" /\ status' = IF r.outbox = NoMail THEN "finished" ELSE "running"
  <2>1. status = (IF Finished THEN "finished" ELSE "running")
    BY DEF Finished
  <2>2. status' = (IF Finished' THEN "finished" ELSE "running")
    BY DEF Finished
  <2> HIDE DEF status, r
  <2>. QED  BY <1>3, <1>4, <1>5, <2>1, <2>2
<1>10. Abstract!NoMail = NoMail
  BY DEF Abstract!NoMail, NoMail
<1>11. r = Abstract!ProcessSuperstep(Whole, messages, BspTeleport, superstep)
  BY <1>7, <1>8
<1> HIDE DEF messages, superstep, status, r
<1>12. /\ status = "running" /\ superstep <= MaxIterations
       /\ Whole' = r.db /\ messages' = r.outbox /\ BspTeleport' = r.teleport
       /\ status' = IF r.outbox = Abstract!NoMail THEN "finished" ELSE "running"
       /\ superstep' = superstep + 1
  BY <1>1, <1>5, <1>7, <1>8, <1>9, <1>10
<1>. QED  BY <1>11, <1>12 DEF Abstract!Superstep, Whole, messages, superstep, status

LEMMA BudgetAbstract ==
  ASSUME IndInv, DriverActs, NextRound, iteration > MaxIterations, ~Finished, Finished',
         UNCHANGED <<DueMail, Reached, committed, BspTeleport>>
  PROVE  Abstract!BudgetSpent
<1>1. ~Unrecovered
  BY DEF NextRound, Unrecovered
<1> DEFINE db == [vertices |-> committed, edges |-> Input.edges]
           messages == PlainMail(IF Unrecovered THEN saved.mail ELSE mail)
           superstep == IF Unrecovered THEN saved.iteration + 1 ELSE iteration
           status == IF \/ phase \in {"fetch", "collect", "dump", "dumped",
                                      "shutdown", "done"}
                        \/ phase \in {"checkpoint", "checkpointed"} /\ mail = NoMail
                       THEN "finished" ELSE "running"
<1>2. db' = db
  OBVIOUS
<1>3. messages' = messages
  <2>1. messages = PlainMail(DueMail)
    BY DEF DueMail
  <2>2. messages' = PlainMail(DueMail)'
    BY DEF DueMail
  <2>3. PlainMail(DueMail)' = PlainMail(DueMail)
    BY DEF PlainMail, Plain
  <2>. QED  BY <2>1, <2>2, <2>3
<1>4. superstep = iteration /\ superstep' = superstep
  BY <1>1 DEF Reached
<1>5. status = "running" /\ status' = "finished"
  BY DEF Finished
<1> HIDE DEF db, messages, superstep, status
<1>. QED  BY <1>2, <1>3, <1>4, <1>5
     DEF Abstract!BudgetSpent, db, messages, superstep, status

LEMMA DriverAbstract ==
  ASSUME OwnRun, IndInv, DataInv, EdgeInv, RoundInv, DriverActs
  PROVE  [Abstract!Next]_(Abstract!vars)
<1>1. CASE EndRound
  BY <1>1, EndRoundAbstract DEF Abstract!Next
<1>2. CASE ~EndRound
  <2>1. UNCHANGED <<DueMail, Reached, committed, BspTeleport>>
    BY <1>2, SameStage
  <2>2. CASE Finished' <=> Finished
    BY <2>1, <2>2, SeenStays
  <2>3. CASE NextRound /\ iteration > MaxIterations /\ ~Finished /\ Finished'
    BY <2>1, <2>3, BudgetAbstract DEF Abstract!Next
  <2>. QED  BY <1>2, <2>2, <2>3, FinishedFrame
<1>. QED  BY <1>1, <1>2

(* Workers that work and processes that die do not show. *)
LEMMA OthersAbstract ==
  ASSUME UNCHANGED driverVars, committed' = committed
  PROVE  UNCHANGED Abstract!vars
<1>1. UNCHANGED <<phase, iteration, mail, saved>>
  BY DEF driverVars
<1>2. Unrecovered' <=> Unrecovered
  BY <1>1 DEF Unrecovered
<1>3. UNCHANGED <<DueMail, Reached, committed, BspTeleport>>
  BY <1>1, <1>2 DEF DueMail, Reached, BspTeleport
<1>4. Finished' <=> Finished
  BY <1>1 DEF Finished
<1>. QED  BY <1>3, <1>4, SeenStays

LEMMA NextAbstract ==
  OwnRun /\ IndInv /\ DataInv /\ EdgeInv /\ RoundInv /\ [Next]_vars
    => [Abstract!Next]_(Abstract!vars)
<1> SUFFICES ASSUME OwnRun, IndInv, DataInv, EdgeInv, RoundInv, [Next]_vars
             PROVE  [Abstract!Next]_(Abstract!vars)
  OBVIOUS
<1>1. CASE DriverActs
  BY <1>1, DriverAbstract
<1>2. ASSUME NEW w \in Worker, WorkerActs(w) \/ WorkerFaults(w) \/ WorkerCrash(w)
      PROVE  UNCHANGED driverVars /\ committed' = committed
  BY <1>2 DEF WorkerActs, WorkerFaults, WorkerCrash, clusterVars
<1>3. CASE DriverCrash
  BY <1>3, OthersAbstract DEF DriverCrash
<1>4. CASE UNCHANGED vars
  BY <1>4, OthersAbstract DEF vars, clusterVars
<1>. QED  BY <1>1, <1>2, <1>3, <1>4, OthersAbstract DEF Next

----------------------------------------------------------------------------
(* The job begins where the sequential program does, or where it is after  *)
(* the supersteps that the latest checkpoint was made after.               *)
LEMMA AfterNothing ==
  Abstract!After(Input, 0) = [db |-> Input, outbox |-> NoMail, teleport |-> NoTeleport]
<1> DEFINE start == [db |-> Input, outbox |-> Abstract!NoMail, teleport |-> Abstract!NoTeleport]
           Is(f) == f = [i \in 0 .. 0 |->
                           IF i = 0 THEN start
                           ELSE LET s == f[i-1]
                                IN  Abstract!ProcessSuperstep(s.db, s.outbox, s.teleport, i)]
           at == CHOOSE f : Is(f)
<1>1. Is([i \in 0 .. 0 |-> start])
  OBVIOUS
<1>2. Is(at)
  BY <1>1
<1>3. at[0] = start
  BY <1>2
<1>4. Abstract!After(Input, 0) = at[0]
  BY DEF Abstract!After
<1>. QED  BY <1>3, <1>4 DEF Abstract!NoMail, NoMail, Abstract!NoTeleport, NoTeleport


LEMMA BeginsAbstract ==
  ASSUME NEW k \in 0 .. MaxIterations, ~Finished, Reached = k + 1, BspTeleport = NoTeleport,
         Abstract!After(Input, k) =
           [db |-> Whole, outbox |-> PlainMail(DueMail), teleport |-> NoTeleport]
  PROVE  Abstract!InitAfter(k)
BY DEF Abstract!InitAfter, Whole, DueMail, Reached, Finished

LEMMA InitAbstract ==
  ASSUME OwnRun, Init
  PROVE  \E k \in 0 .. MaxIterations : Abstract!InitAfter(k)
<1>1. PICK s \in Starts : StartsFrom(s)
  BY Zenon DEF Init, StartsFrom
<1>2. phase = "connect" /\ iteration = 1 /\ mail = NoMail
  BY DEF Init, DriverInit
<1>3. ~Finished /\ BspTeleport = NoTeleport
  BY <1>2 DEF Finished, BspTeleport
<1>4. CASE ~Unrecovered
  <2>1. committed = Input.vertices
    BY <1>1, <1>2, <1>4, InitCommitted
  <2>2. Whole = Input
    BY <2>1, InputAssumption DEF Whole
  <2>3. DueMail = NoMail /\ Reached = 1
    BY <1>2, <1>4 DEF DueMail, Reached
  <2>4. PlainMail(NoMail) = NoMail
    <3>1. MailOK(NoMail)
      BY EmptyMap DEF MailOK, IsMap, IsMail, Distinct
    <3>. QED  BY <3>1, PlainMailIs
  <2>5. 0 \in 0 .. MaxIterations /\ Reached = 0 + 1
    BY <2>3, MaxIterationsAssumption
  <2>6. Abstract!After(Input, 0) =
          [db |-> Whole, outbox |-> PlainMail(DueMail), teleport |-> NoTeleport]
    BY <2>2, <2>3, <2>4, AfterNothing
  <2>. QED  BY <1>3, <2>5, <2>6, BeginsAbstract
<1>5. CASE Unrecovered
  <2> DEFINE k == s.saved.iteration
  <2>1. saved = s.saved /\ Interval > 0 /\ k > 0 /\ k \in Nat
    BY <1>1, <1>5, StartsAssumption DEF StartsFrom, Unrecovered
  <2>2. Abstract!After(Input, k) =
          [ db       |-> [ vertices |-> [v \in DOMAIN Input.vertices |->
                             s.images[Part[v]][k].vertices[v]],
                           edges    |-> Input.edges ],
            outbox   |-> PlainMail(s.saved.mail),
            teleport |-> NoTeleport ]
    BY <2>1 DEF OwnRun
  <2>3. committed = [v \in DOMAIN Input.vertices |-> s.images[Part[v]][k].vertices[v]]
    <3>1. ~(Interval = 0 \/ s.saved.iteration = 0)
      BY <2>1
    <3>2. committed = [v \in DOMAIN Input.vertices |->
                         s.images[s.saved.inboxes.part[v]][k].vertices[v]]
      BY <1>1, <3>1, Zenon DEF StartsFrom
    <3>3. s.saved.inboxes.part = Part
      BY OwnParts
    <3>. QED  BY <3>2, <3>3
  <2>4. DueMail = s.saved.mail /\ Reached = k + 1
    BY <1>5, <2>1 DEF DueMail, Reached
  <2>5. k \in 0 .. MaxIterations
    <3>1. k <= MaxIterations
      BY <2>1 DEF OwnRun
    <3> HIDE DEF k
    <3>. QED  BY <2>1, <3>1, MaxIterationsAssumption
  <2> HIDE DEF k
  <2>6. Abstract!After(Input, k) =
          [db |-> Whole, outbox |-> PlainMail(DueMail), teleport |-> NoTeleport]
    BY <2>2, <2>3, <2>4 DEF Whole
  <2>. QED  BY <1>3, <2>4, <2>5, <2>6, BeginsAbstract
<1>. QED  BY <1>4, <1>5

(* A job is the sequential program of Bsp, superstep by superstep, as seen *)
(* by its user: however the graph is divided among workers, whatever the   *)
(* sizes of batches and buffers, wherever workers and driver are with      *)
(* their frames, whichever processes die, and whether it begins anew or at *)
(* its latest checkpoint, nothing but that program is ever committed, and  *)
(* the job ends when it does (CycleScheduler::run, superstep_round,        *)
(* process_superstep).                                                     *)
THEOREM Refinement ==
  ASSUME OwnRun
  PROVE  Spec => ImplementsBsp
<1>1. Init => \E k \in 0 .. MaxIterations : Abstract!InitAfter(k)
  BY InitAbstract
<1>2. Spec => [](IndInv /\ DataInv /\ EdgeInv /\ RoundInv)
  BY RoundInvariance
<1>3. IndInv /\ DataInv /\ EdgeInv /\ RoundInv /\ [Next]_vars
        => [Abstract!Next]_(Abstract!vars)
  BY NextAbstract
<1>4. Spec => (\E k \in 0 .. MaxIterations : Abstract!InitAfter(k))
  BY <1>1 DEF Spec
<1>5. Spec => [][Abstract!Next]_(Abstract!vars)
  BY <1>2, <1>3, PTL DEF Spec
<1>. QED  BY <1>4, <1>5 DEF ImplementsBsp, Abstract!ResumedSpec

=============================================================================
