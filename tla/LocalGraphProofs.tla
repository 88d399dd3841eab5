-------------------------- MODULE LocalGraphProofs --------------------------
(***************************************************************************)
(* Theorems of LocalGraph, for every graph, number of partitions, number   *)
(* of supersteps and order in which vertices are visited.                  *)
(***************************************************************************)
EXTENDS LocalGraph, VertexProgramProofs

Out(v) == {e \in graph.edges : e.src = v}

(* Mail among the vertices: integers along edges of the graph. *)
IntMail(m) ==
  /\ m = [e \in DOMAIN m |-> m[e]]
  /\ DOMAIN m \subseteq graph.edges
  /\ \A e \in DOMAIN m : m[e] \in Int

(* An integer for each vertex. *)
IntValues(f) ==
  /\ f = [v \in Vertices |-> f[v]]
  /\ \A v \in Vertices : f[v] \in Int

TypeInv ==
  /\ graph \in Graphs
  /\ visited \subseteq Vertices
  /\ IntValues(values)
  /\ IntMail(inbox) /\ IntMail(outbox)
  /\ \A e \in DOMAIN outbox : e.src \in visited
  /\ DOMAIN teleport = IF OneFunction THEN {1} ELSE Partition
  /\ teleport = [f \in DOMAIN teleport |-> teleport[f]]
  /\ \A f \in DOMAIN teleport : teleport[f] \in Int
  /\ iteration \in 1 .. (MaxIterations + 1)
  /\ status \in {"running", "finished"}

----------------------------------------------------------------------------
LEMMA GraphShape ==
  ASSUME graph \in Graphs
  PROVE  /\ graph = [vertices |-> graph.vertices, edges |-> graph.edges]
         /\ Vertices \subseteq Nat
         /\ IsFiniteSet(Vertices) /\ IsFiniteSet(graph.edges)
         /\ IntValues(graph.vertices)
         /\ \A v \in Vertices : FunctionOf(v) \in IF OneFunction THEN {1} ELSE Partition
BY GraphsAssumption, LocalAssumption DEF Vertices, IntValues, FunctionOf

LEMMA MailRestricted ==
  ASSUME NEW m, IntMail(m), NEW S
  PROVE  IntMail(Restrict(m, DOMAIN m \cap S))
BY DEF IntMail, Restrict

LEMMA EmptyMail == IntMail(NoMail) /\ DOMAIN NoMail = {}
BY DEF IntMail, NoMail

(* A visit: what compute_vertex is given and returns. *)
Seen(v) == TeleportAt(Restrict(values, {v}), teleport[FunctionOf(v)], v)

Computed(v) ==
  ComputeVertex(v, values[v], Cardinality(Out(v)), MailOf(inbox, v), Seen(v), iteration)

LEMMA VisitActs ==
  ASSUME NEW v \in Vertices, Visit(v)
  PROVE  LET r == Computed(v)
             payloads == [e \in {d \in Out(v) : r.send # {}} |-> CHOOSE m \in r.send : TRUE]
         IN  /\ status = "running" /\ iteration <= MaxIterations /\ v \notin visited
             /\ visited' = visited \cup {v}
             /\ values' = [values EXCEPT ![v] = r.value]
             /\ teleport' = [teleport EXCEPT ![FunctionOf(v)] = Seen(v)]
             /\ inbox' = Restrict(inbox, DOMAIN inbox \ DOMAIN MailOf(inbox, v))
             /\ outbox' = Merge(outbox, payloads)
             /\ UNCHANGED <<graph, iteration, status, begun>>
BY DEF Visit, Computed, Seen, Out

LEMMA VisitType ==
  ASSUME TypeInv, NEW v \in Vertices
  PROVE  Seen(v) \in Int /\ Computed(v).value \in Int /\ Computed(v).send \subseteq Int
<1> DEFINE mine == MailOf(inbox, v)
           one == Restrict(values, {v})
<1>1. v \in Int /\ values[v] \in Int
  BY GraphShape DEF TypeInv, IntValues
<1>2. Cardinality(Out(v)) \in Nat
  BY GraphShape, FS_Subset, FS_CardinalityType DEF TypeInv, Out
<1>3. /\ IsFiniteSet(DOMAIN mine)
      /\ \A e \in DOMAIN mine : mine[e] \in Int
  <2>1. DOMAIN mine \subseteq graph.edges /\ \A e \in DOMAIN mine : mine[e] \in Int
    BY DEF TypeInv, IntMail, MailOf, Restrict
  <2>. QED  BY <2>1, GraphShape, FS_Subset DEF TypeInv
<1>4. Seen(v) \in Int
  <2>1. DOMAIN one \subseteq Nat /\ \A u \in DOMAIN one : one[u] \in Int
    BY <1>1, GraphShape DEF TypeInv, Restrict
  <2>2. teleport[FunctionOf(v)] \in Int
    BY GraphShape DEF TypeInv
  <2> HIDE DEF one
  <2>3. TeleportAt(one, teleport[FunctionOf(v)], v) \in Int
    BY <2>1, <2>2, TeleportType
  <2>. QED  BY <2>3 DEF Seen, one
<1> HIDE DEF mine
<1>5. LET r == ComputeVertex(v, values[v], Cardinality(Out(v)), mine, Seen(v), iteration)
      IN  r.value \in Int /\ r.send \subseteq Int
  BY <1>1, <1>2, <1>3, <1>4, ComputeType
<1>. QED  BY <1>4, <1>5 DEF Computed, mine

LEMMA InitType == Init => TypeInv
<1> SUFFICES ASSUME Init PROVE TypeInv
  OBVIOUS
<1>1. graph \in Graphs /\ IntValues(values) /\ IntMail(inbox) /\ IntMail(outbox)
  BY GraphShape, EmptyMail DEF Init
<1>2. /\ visited = {} /\ DOMAIN outbox = {}
      /\ iteration = 1 /\ status = "running"
      /\ teleport = [f \in IF OneFunction THEN {1} ELSE Partition |-> NoTeleport]
  BY EmptyMail DEF Init
<1>3. iteration \in 1 .. (MaxIterations + 1)
  BY <1>2, LocalAssumption
<1>. QED  BY <1>1, <1>2, <1>3 DEF TypeInv, NoTeleport

LEMMA VisitTypeInv ==
  ASSUME TypeInv, NEW v \in Vertices, Visit(v)
  PROVE  TypeInv'
<1> DEFINE r == Computed(v)
           payloads == [e \in {d \in Out(v) : r.send # {}} |-> CHOOSE m \in r.send : TRUE]
<1>1. /\ visited' = visited \cup {v}
      /\ values' = [values EXCEPT ![v] = r.value]
      /\ teleport' = [teleport EXCEPT ![FunctionOf(v)] = Seen(v)]
      /\ inbox' = Restrict(inbox, DOMAIN inbox \ DOMAIN MailOf(inbox, v))
      /\ outbox' = Merge(outbox, payloads)
      /\ UNCHANGED <<graph, iteration, status>>
  BY VisitActs
<1>2. Seen(v) \in Int /\ r.value \in Int /\ r.send \subseteq Int
  BY VisitType
<1> HIDE DEF r
<1>3. Vertices' = Vertices /\ IntValues(values)'
  BY <1>1, <1>2 DEF TypeInv, IntValues, Vertices
<1>4. IntMail(inbox)'
  BY <1>1 DEF TypeInv, IntMail, Restrict
<1>5. /\ DOMAIN payloads \subseteq graph.edges
      /\ \A e \in DOMAIN payloads : payloads[e] \in Int /\ e.src = v
  BY <1>2 DEF Out
<1> HIDE DEF payloads
<1>6. IntMail(outbox)' /\ \A e \in DOMAIN outbox' : e.src \in visited'
  BY <1>1, <1>5 DEF TypeInv, IntMail, Merge
<1>. QED  BY <1>1, <1>2, <1>3, <1>4, <1>6 DEF TypeInv

LEMMA NextType == TypeInv /\ [Next]_vars => TypeInv'
<1> SUFFICES ASSUME TypeInv, [Next]_vars PROVE TypeInv'
  OBVIOUS
<1>1. ASSUME NEW v \in Vertices, Visit(v) PROVE TypeInv'
  BY <1>1, VisitTypeInv
<1>2. CASE Exchange
  <2>1. /\ inbox' = outbox /\ outbox' = NoMail /\ visited' = {}
        /\ UNCHANGED <<graph, values, teleport>>
        /\ status' \in {"running", "finished"}
    BY <1>2 DEF Exchange
  <2>2. iteration' \in 1 .. (MaxIterations + 1)
    BY <1>2, LocalAssumption DEF Exchange, TypeInv
  <2>3. IntMail(inbox)' /\ IntMail(outbox)' /\ DOMAIN outbox' = {}
    BY <2>1, EmptyMail DEF TypeInv, IntMail
  <2>. QED  BY <2>1, <2>2, <2>3 DEF TypeInv, IntValues, Vertices
<1>3. CASE BudgetSpent
  BY <1>3 DEF BudgetSpent, TypeInv, IntValues, IntMail, Vertices
<1>4. CASE UNCHANGED vars
  BY <1>4 DEF vars, TypeInv, IntValues, IntMail, Vertices
<1>. QED  BY <1>1, <1>2, <1>3, <1>4 DEF Next

(* Every visit leaves an integer and sends integers along out-edges of the *)
(* vertex only, and no partition does more supersteps than it may.         *)
THEOREM Typing == Spec => []TypeOK
<1>1. TypeInv => TypeOK
  BY DEF TypeInv, TypeOK, IntValues, IntMail
<1>. QED  BY <1>1, InitType, NextType, PTL DEF Spec

----------------------------------------------------------------------------
(* PageRank takes the teleport from the first positive rank a function     *)
(* object meets.  Where all ranks are loaded equal and positive, as the    *)
(* callers load them, it is the same whichever vertex that is.             *)
EqualRanks ==
  \A g \in Graphs : \A u, v \in DOMAIN g.vertices :
    g.vertices[v] > 0 /\ g.vertices[u] = g.vertices[v]

OrderFree == Algorithm = "wcc" \/ EqualRanks

Share == TeleportAt(graph.vertices, NoTeleport, Max(Vertices))

(* What a visit of v in this superstep must compute, whenever it happens.  *)
Result(v) ==
  ComputeVertex(v, begun.values[v], Cardinality(Out(v)), MailOf(begun.mail, v),
                TeleportAt(begun.values, BspTeleport, v), iteration)

Payload(v) == CHOOSE m \in Result(v).send : TRUE

(* A superstep that is under way has done, of what it has to do, exactly   *)
(* what concerns the vertices it has visited.                              *)
ProgressInv ==
  /\ begun = [values |-> begun.values, mail |-> begun.mail]
  /\ IntValues(begun.values)
  /\ \A v \in Vertices :
       values[v] = IF v \in visited THEN Result(v).value ELSE begun.values[v]
  /\ inbox = Restrict(begun.mail, {e \in DOMAIN begun.mail : e.dst \notin visited})
  /\ DOMAIN outbox = {e \in graph.edges : e.src \in visited /\ Result(e.src).send # {}}
  /\ \A e \in DOMAIN outbox : outbox[e] = Payload(e.src)

(* A function object knows the teleport once it has visited a vertex.      *)
ShareInv ==
  Algorithm # "wcc" =>
    /\ iteration = 1 => begun.values = graph.vertices
    /\ \A f \in DOMAIN teleport : teleport[f] \in {NoTeleport, Share}
    /\ \A v \in Vertices :
         v \in visited \/ iteration > 1 => teleport[FunctionOf(v)] = Share

StepInv == TypeInv /\ ProgressInv /\ ShareInv

----------------------------------------------------------------------------
(* The teleport of equal positive ranks, from whichever vertex. *)
LEMMA ShareOfVertex ==
  ASSUME EqualRanks, Algorithm = "pagerank", graph \in Graphs, NEW v \in Vertices
  PROVE  /\ graph.vertices[v] > 0 /\ graph.vertices[v] \in Int
         /\ Share = graph.vertices[v] - Damp(graph.vertices[v])
         /\ Share # NoTeleport
<1> DEFINE rank == graph.vertices[v]
           positive == {u \in DOMAIN graph.vertices :
                          u <= Max(Vertices) /\ graph.vertices[u] > 0}
<1>1. /\ Vertices \subseteq Nat /\ IsFiniteSet(Vertices) /\ Vertices # {}
      /\ rank \in Int /\ rank > 0
      /\ \A u \in Vertices : graph.vertices[u] = rank
  BY GraphShape DEF EqualRanks, Vertices, IntValues
<1>2. Max(Vertices) \in Vertices
  <2>1. Vertices \subseteq Int
    BY <1>1
  <2>. QED  BY <1>1, <2>1, MaxOfFinite
<1>3. Max(Vertices) \in positive
  BY <1>1, <1>2 DEF Vertices
<1>4. Min(positive) \in positive
  BY <1>1, <1>3, MinIsLeast DEF Vertices
<1>5. graph.vertices[Min(positive)] = rank
  BY <1>1, <1>4 DEF Vertices
<1>6. Share = graph.vertices[Min(positive)] - Damp(graph.vertices[Min(positive)])
  BY <1>3 DEF Share, TeleportAt
<1> HIDE DEF rank
<1>7. rank - Damp(rank) # -1
  BY <1>1 DEF Damp
<1>. QED  BY <1>1, <1>5, <1>6, <1>7 DEF NoTeleport, rank

(* Without ranks there is no teleport. *)
LEMMA ShareOfNothing ==
  ASSUME Vertices = {}
  PROVE  Share = NoTeleport
BY DEF Share, TeleportAt, Vertices

LEMMA BspTeleportIs ==
  BspTeleport = IF Algorithm = "wcc" \/ iteration = 1 THEN NoTeleport ELSE Share
BY DEF BspTeleport, Share

LEMMA SetTeleportStays ==
  ASSUME NEW vertices, NEW t, NEW v, Algorithm = "wcc" \/ t # NoTeleport
  PROVE  TeleportAt(vertices, t, v) = t
BY AlgorithmAssumption DEF TeleportAt

(* A vertex that is visited has its own value and messages still. *)
LEMMA OwnInput ==
  ASSUME ProgressInv, NEW v \in Vertices, v \notin visited
  PROVE  values[v] = begun.values[v] /\ MailOf(inbox, v) = MailOf(begun.mail, v)
<1>1. values[v] = begun.values[v]
  BY DEF ProgressInv
<1>2. inbox = Restrict(begun.mail, {e \in DOMAIN begun.mail : e.dst \notin visited})
  BY DEF ProgressInv
<1>3. {e \in DOMAIN inbox : e.dst = v} = {e \in DOMAIN begun.mail : e.dst = v}
  BY <1>2 DEF Restrict
<1>4. \A e \in DOMAIN inbox : inbox[e] = begun.mail[e]
  BY <1>2 DEF Restrict
<1>. QED  BY <1>1, <1>3, <1>4 DEF MailOf, Restrict

(* The teleport a visit uses from the second superstep on, and leaves. *)
LEMMA SeenIsShare ==
  ASSUME StepInv, OrderFree, Algorithm # "wcc", NEW v \in Vertices, v \notin visited
  PROVE  Seen(v) = Share /\ Share # NoTeleport
<1>1. Algorithm = "pagerank" /\ EqualRanks /\ graph \in Graphs
  BY AlgorithmAssumption DEF OrderFree, StepInv, TypeInv
<1>2. Share # NoTeleport
  BY <1>1, ShareOfVertex
<1>3. FunctionOf(v) \in DOMAIN teleport
  BY <1>1, GraphShape DEF StepInv, TypeInv
<1>4. CASE teleport[FunctionOf(v)] = Share
  BY <1>2, <1>4, SetTeleportStays DEF Seen
<1>5. CASE teleport[FunctionOf(v)] = NoTeleport /\ iteration = 1
  <2> DEFINE one == Restrict(values, {v})
             positive == {u \in DOMAIN one : u <= v /\ one[u] > 0}
  <2>1. values[v] = graph.vertices[v]
    BY <1>1, <1>5, OwnInput DEF StepInv, ShareInv
  <2>2. DOMAIN values = Vertices
    BY DEF StepInv, TypeInv, IntValues
  <2>3. DOMAIN one = {v} /\ one[v] = graph.vertices[v]
    BY <2>1, <2>2 DEF Restrict
  <2> HIDE DEF one
  <2>4. v \in Nat /\ graph.vertices[v] > 0
    BY <1>1, GraphShape, ShareOfVertex
  <2>5. v <= v
    BY <2>4
  <2>6. positive = {v}
    BY <2>3, <2>4, <2>5
  <2>7. Min(positive) = v
    BY <2>4, <2>6, MinIsLeast
  <2>8. TeleportAt(one, NoTeleport, v) = one[v] - Damp(one[v])
    <3> HIDE DEF positive
    <3>1. positive # {}
      BY <2>6
    <3>. QED  BY <1>1, <2>7, <3>1 DEF TeleportAt, positive
  <2>. QED  BY <1>1, <1>2, <1>5, <2>3, <2>8, ShareOfVertex DEF Seen, one
<1>6. CASE iteration # 1
  <2>1. iteration > 1
    BY <1>6 DEF StepInv, TypeInv
  <2>. QED  BY <1>4, <2>1 DEF StepInv, ShareInv
<1>. QED  BY <1>3, <1>4, <1>5, <1>6 DEF StepInv, ShareInv

(* A visit computes what it must. *)
LEMMA VisitComputes ==
  ASSUME StepInv, OrderFree, NEW v \in Vertices, v \notin visited
  PROVE  Computed(v) = Result(v)
<1>1. values[v] = begun.values[v] /\ MailOf(inbox, v) = MailOf(begun.mail, v)
  BY OwnInput DEF StepInv
<1>2. CASE Algorithm = "wcc"
  BY <1>1, <1>2 DEF Computed, Result, ComputeVertex
<1>3. CASE Algorithm # "wcc" /\ iteration = 1
  BY <1>1, <1>3 DEF Computed, Result, ComputeVertex, PageRank
<1>4. CASE Algorithm # "wcc" /\ iteration # 1
  <2>1. Seen(v) = Share /\ Share # NoTeleport
    BY <1>4, SeenIsShare
  <2>2. BspTeleport = Share
    BY <1>4, BspTeleportIs
  <2>3. TeleportAt(begun.values, BspTeleport, v) = Seen(v)
    BY <2>1, <2>2, SetTeleportStays
  <2>. QED  BY <1>1, <2>3 DEF Computed, Result
<1>. QED  BY <1>2, <1>3, <1>4

----------------------------------------------------------------------------
LEMMA InitStep == Init => StepInv
<1> SUFFICES ASSUME Init PROVE StepInv
  OBVIOUS
<1>1. TypeInv
  BY InitType
<1>2. /\ graph \in Graphs /\ values = graph.vertices /\ visited = {}
      /\ inbox = NoMail /\ outbox = NoMail /\ iteration = 1
      /\ begun = [values |-> graph.vertices, mail |-> NoMail]
      /\ \A f \in DOMAIN teleport : teleport[f] = NoTeleport
  BY DEF Init
<1>3. ProgressInv
  <2>1. IntValues(begun.values)
    BY <1>2, GraphShape
  <2>2. inbox = Restrict(begun.mail, {e \in DOMAIN begun.mail : e.dst \notin visited})
    BY <1>2, EmptyMail DEF Restrict, IntMail
  <2>. QED  BY <1>2, <2>1, <2>2, EmptyMail DEF ProgressInv
<1>4. ShareInv
  BY <1>2 DEF ShareInv
<1>. QED  BY <1>1, <1>3, <1>4 DEF StepInv

LEMMA VisitStep ==
  ASSUME StepInv, OrderFree, NEW v \in Vertices, Visit(v)
  PROVE  StepInv'
<1> DEFINE r == Computed(v)
           payloads == [e \in {d \in Out(v) : r.send # {}} |-> CHOOSE m \in r.send : TRUE]
<1>1. /\ v \notin visited
      /\ visited' = visited \cup {v}
      /\ values' = [values EXCEPT ![v] = r.value]
      /\ teleport' = [teleport EXCEPT ![FunctionOf(v)] = Seen(v)]
      /\ inbox' = Restrict(inbox, DOMAIN inbox \ DOMAIN MailOf(inbox, v))
      /\ outbox' = Merge(outbox, payloads)
      /\ UNCHANGED <<graph, iteration, status, begun>>
  BY VisitActs
<1>2. TypeInv'
  BY VisitTypeInv DEF StepInv
<1>3. r = Result(v)
  BY <1>1, VisitComputes
<1>4. Vertices' = Vertices /\ Share' = Share
  BY <1>1 DEF Share, Vertices
<1>5. \A u : Result(u)' = Result(u) /\ Payload(u)' = Payload(u)
  BY <1>1, <1>4 DEF Result, Payload, Out, BspTeleport
<1>6. payloads = [e \in {d \in Out(v) : Result(v).send # {}} |-> Payload(v)]
  BY <1>3 DEF Payload
<1> HIDE DEF r, payloads
<1>7. ProgressInv'
  <2>1. begun' = begun /\ IntValues(begun.values)'
    BY <1>1, <1>4 DEF StepInv, ProgressInv, IntValues
  <2>2. ASSUME NEW u \in Vertices
        PROVE  values'[u] = IF u \in visited' THEN Result(u).value ELSE begun.values[u]
    <3>1. values'[u] = IF u = v THEN Result(v).value ELSE values[u]
      BY <1>1, <1>3 DEF StepInv, TypeInv, IntValues
    <3>2. values[u] = IF u \in visited THEN Result(u).value ELSE begun.values[u]
      BY DEF StepInv, ProgressInv
    <3>. QED  BY <1>1, <3>1, <3>2
  <2>3. inbox' = Restrict(begun.mail, {e \in DOMAIN begun.mail : e.dst \notin visited'})
    <3>1. inbox = Restrict(begun.mail, {e \in DOMAIN begun.mail : e.dst \notin visited})
      BY DEF StepInv, ProgressInv
    <3>2. DOMAIN inbox \ DOMAIN MailOf(inbox, v)
            = {e \in DOMAIN begun.mail : e.dst \notin visited'}
      BY <1>1, <3>1 DEF MailOf, Restrict
    <3>3. \A e \in DOMAIN inbox : inbox[e] = begun.mail[e]
      BY <3>1 DEF Restrict
    <3>4. {e \in DOMAIN begun.mail : e.dst \notin visited'} \subseteq DOMAIN inbox
      BY <1>1, <3>1 DEF Restrict
    <3>. QED  BY <1>1, <3>2, <3>3, <3>4 DEF Restrict
  <2>4. /\ DOMAIN outbox' = DOMAIN outbox \cup DOMAIN payloads
        /\ \A e \in DOMAIN outbox' :
             outbox'[e] = IF e \in DOMAIN payloads THEN payloads[e] ELSE outbox[e]
    BY <1>1 DEF Merge
  <2>5. DOMAIN outbox = {e \in graph.edges : e.src \in visited /\ Result(e.src).send # {}}
    BY DEF StepInv, ProgressInv
  <2>6. DOMAIN payloads = {e \in graph.edges : e.src = v /\ Result(v).send # {}}
    BY <1>6 DEF Out
  <2>7. DOMAIN outbox' = {e \in graph.edges : e.src \in visited' /\ Result(e.src).send # {}}
    BY <1>1, <2>4, <2>5, <2>6
  <2>8. ASSUME NEW e \in DOMAIN outbox' PROVE outbox'[e] = Payload(e.src)
    <3>1. CASE e \in DOMAIN payloads
      BY <1>6, <2>4, <2>6, <3>1
    <3>2. CASE e \notin DOMAIN payloads
      BY <2>4, <3>2 DEF StepInv, ProgressInv
    <3>. QED  BY <3>1, <3>2
  <2>9. begun' = [values |-> begun'.values, mail |-> begun'.mail]
    BY <2>1 DEF StepInv, ProgressInv
  <2>10. /\ \A u \in Vertices' :
              values'[u] = IF u \in visited' THEN Result(u)'.value ELSE begun'.values[u]
         /\ inbox' = Restrict(begun'.mail, {e \in DOMAIN begun'.mail : e.dst \notin visited'})
         /\ DOMAIN outbox' = {e \in graph'.edges : e.src \in visited' /\ Result(e.src)'.send # {}}
         /\ \A e \in DOMAIN outbox' : outbox'[e] = Payload(e.src)'
    BY <1>1, <1>4, <1>5, <2>1, <2>2, <2>3, <2>7, <2>8
  <2>. QED  BY <2>1, <2>9, <2>10 DEF ProgressInv
<1>8. ShareInv'
  <2> SUFFICES ASSUME Algorithm # "wcc" PROVE ShareInv'
    BY DEF ShareInv
  <2>1. Seen(v) = Share
    BY <1>1, SeenIsShare
  <2>2. FunctionOf(v) \in DOMAIN teleport
    BY GraphShape DEF StepInv, TypeInv
  <2>3. \A f \in DOMAIN teleport' :
          teleport'[f] = IF f = FunctionOf(v) THEN Share ELSE teleport[f]
    BY <1>1, <2>1
  <2>4. \A u \in Vertices : FunctionOf(u) \in DOMAIN teleport' /\ FunctionOf(u)' = FunctionOf(u)
    BY <1>1, GraphShape DEF StepInv, TypeInv, FunctionOf
  <2>5. /\ DOMAIN teleport' = DOMAIN teleport
        /\ iteration = 1 => begun.values = graph.vertices
        /\ \A f \in DOMAIN teleport : teleport[f] \in {NoTeleport, Share}
        /\ \A u \in Vertices :
             u \in visited \/ iteration > 1 => teleport[FunctionOf(u)] = Share
    BY <1>1 DEF StepInv, ShareInv
  <2>6. ASSUME NEW u \in Vertices, u \in visited' \/ iteration > 1
        PROVE  teleport'[FunctionOf(u)] = Share
    <3>1. CASE FunctionOf(u) = FunctionOf(v)
      BY <2>3, <2>4, <3>1
    <3>2. CASE FunctionOf(u) # FunctionOf(v)
      BY <1>1, <2>3, <2>4, <2>5, <2>6, <3>2
    <3>. QED  BY <3>1, <3>2
  <2>. QED  BY <1>1, <1>4, <2>3, <2>4, <2>5, <2>6 DEF ShareInv
<1>. QED  BY <1>2, <1>7, <1>8 DEF StepInv

(* When all vertices are visited, the superstep is that of the sequential  *)
(* program.                                                                *)
Whole == ProcessSuperstep([vertices |-> begun.values, edges |-> graph.edges],
                          begun.mail, BspTeleport, iteration)

LEMMA SuperstepDone ==
  ASSUME StepInv, visited = Vertices
  PROVE  /\ Whole.db = [vertices |-> values, edges |-> graph.edges]
         /\ Whole.outbox = outbox
<1> DEFINE db == [vertices |-> begun.values, edges |-> graph.edges]
           out(v) == {e \in db.edges : e.src = v}
           result == [v \in DOMAIN db.vertices |->
                        ComputeVertex(v, db.vertices[v], Cardinality(out(v)),
                                      MailOf(begun.mail, v),
                                      TeleportAt(db.vertices, BspTeleport, v), iteration)]
           sent == {e \in db.edges : e.src \in DOMAIN result /\ result[e.src].send # {}}
<1>1. /\ Whole.db = [vertices |-> [v \in DOMAIN db.vertices |-> result[v].value],
                     edges |-> db.edges]
      /\ Whole.outbox = [e \in sent |-> CHOOSE m \in result[e.src].send : TRUE]
  BY DEF Whole, ProcessSuperstep
<1>2. db.vertices = begun.values /\ db.edges = graph.edges /\ DOMAIN begun.values = Vertices
  BY DEF StepInv, ProgressInv, IntValues
<1>3. DOMAIN result = Vertices /\ \A v \in Vertices : result[v] = Result(v)
  BY <1>2 DEF Result, Out
<1> HIDE DEF result
<1>4. values = [v \in DOMAIN db.vertices |-> result[v].value]
  <2>1. values = [v \in Vertices |-> values[v]]
    BY DEF StepInv, TypeInv, IntValues
  <2>2. \A v \in Vertices : values[v] = result[v].value
    BY <1>3 DEF StepInv, ProgressInv
  <2>. QED  BY <1>2, <2>1, <2>2
<1>5. sent = DOMAIN outbox
  BY <1>2, <1>3 DEF StepInv, ProgressInv
<1>6. outbox = [e \in sent |-> CHOOSE m \in result[e.src].send : TRUE]
  <2>1. outbox = [e \in DOMAIN outbox |-> outbox[e]]
    BY DEF StepInv, TypeInv, IntMail
  <2>2. ASSUME NEW e \in DOMAIN outbox
        PROVE  outbox[e] = CHOOSE m \in result[e.src].send : TRUE
    <3>1. e.src \in Vertices
      BY DEF StepInv, TypeInv
    <3>. QED  BY <1>3, <3>1 DEF StepInv, ProgressInv, Payload
  <2> HIDE DEF sent
  <2>. QED  BY <1>5, <2>1, <2>2
<1>. QED  BY <1>1, <1>2, <1>4, <1>6

LEMMA ExchangeStep ==
  ASSUME StepInv, OrderFree, Exchange
  PROVE  StepInv'
<1>1. /\ visited = Vertices
      /\ inbox' = outbox /\ outbox' = NoMail /\ visited' = {}
      /\ iteration' = iteration + 1 /\ iteration' > 1
      /\ begun' = [values |-> values, mail |-> outbox]
      /\ UNCHANGED <<graph, values, teleport>>
  BY DEF Exchange, StepInv, TypeInv
<1>2. TypeInv'
  BY NextType DEF StepInv, Next
<1>3. Vertices' = Vertices /\ Share' = Share /\ \A v : FunctionOf(v)' = FunctionOf(v)
  BY <1>1 DEF Share, Vertices, FunctionOf
<1>4. ProgressInv'
  <2>1. IntValues(begun.values)'
    BY <1>1, <1>3 DEF StepInv, TypeInv, IntValues
  <2>2. inbox' = Restrict(begun'.mail, {e \in DOMAIN begun'.mail : e.dst \notin visited'})
    <3>1. outbox = [e \in DOMAIN outbox |-> outbox[e]]
      BY DEF StepInv, TypeInv, IntMail
    <3>2. begun'.mail = outbox /\ {e \in DOMAIN outbox : e.dst \notin visited'} = DOMAIN outbox
      BY <1>1
    <3>. QED  BY <1>1, <3>1, <3>2 DEF Restrict
  <2>3. DOMAIN outbox' = {}
    BY <1>1, EmptyMail
  <2>. QED  BY <1>1, <2>1, <2>2, <2>3 DEF ProgressInv
<1>5. ShareInv'
  BY <1>1, <1>3 DEF StepInv, ShareInv
<1>. QED  BY <1>2, <1>4, <1>5 DEF StepInv

LEMMA NextStep == OrderFree /\ StepInv /\ [Next]_vars => StepInv'
<1> SUFFICES ASSUME OrderFree, StepInv, [Next]_vars PROVE StepInv'
  OBVIOUS
<1>1. ASSUME NEW v \in Vertices, Visit(v) PROVE StepInv'
  BY <1>1, VisitStep
<1>2. CASE Exchange
  BY <1>2, ExchangeStep
<1>3. ASSUME UNCHANGED <<graph, values, visited, inbox, outbox, teleport, iteration, begun>>
      PROVE  StepInv'
  <2>1. TypeInv'
    BY NextType DEF StepInv
  <2>2. /\ Vertices' = Vertices /\ Share' = Share
        /\ \A v : Result(v)' = Result(v) /\ Payload(v)' = Payload(v)
                  /\ FunctionOf(v)' = FunctionOf(v)
    BY <1>3 DEF Result, Payload, Out, BspTeleport, Share, Vertices, FunctionOf
  <2>3. ProgressInv'
    BY <1>3, <2>2 DEF StepInv, ProgressInv, IntValues
  <2>4. ShareInv'
    BY <1>3, <2>2 DEF StepInv, ShareInv
  <2>. QED  BY <2>1, <2>3, <2>4 DEF StepInv
<1>4. CASE BudgetSpent
  BY <1>3, <1>4 DEF BudgetSpent
<1>5. CASE UNCHANGED vars
  BY <1>3, <1>5 DEF vars
<1>. QED  BY <1>1, <1>2, <1>4, <1>5 DEF Next

----------------------------------------------------------------------------
LEMMA TeleportDone ==
  ASSUME StepInv, OrderFree, Exchange
  PROVE  Whole.teleport = BspTeleport'
<1> DEFINE last == Max(DOMAIN begun.values)
<1>1. iteration' # 1 /\ graph' = graph /\ Vertices' = Vertices /\ Share' = Share
  BY DEF Exchange, StepInv, TypeInv, Share, Vertices
<1>2. BspTeleport' = IF Algorithm = "wcc" THEN NoTeleport ELSE Share
  BY <1>1 DEF BspTeleport, Share
<1>3. Whole.teleport = IF DOMAIN begun.values = {} THEN BspTeleport
                       ELSE TeleportAt(begun.values, BspTeleport, last)
  BY DEF Whole, ProcessSuperstep
<1>4. DOMAIN begun.values = Vertices /\ graph \in Graphs
  BY DEF StepInv, TypeInv, ProgressInv, IntValues
<1>5. CASE Algorithm = "wcc"
  BY <1>2, <1>3, <1>5, SetTeleportStays, BspTeleportIs
<1>6. CASE Algorithm # "wcc" /\ Vertices = {}
  BY <1>2, <1>3, <1>4, <1>6, ShareOfNothing, BspTeleportIs
<1>7. CASE Algorithm # "wcc" /\ Vertices # {} /\ iteration = 1
  <2>1. begun.values = graph.vertices /\ BspTeleport = NoTeleport
    BY <1>7, BspTeleportIs DEF StepInv, ShareInv
  <2>. QED  BY <1>2, <1>3, <1>4, <1>7, <2>1 DEF Share
<1>8. CASE Algorithm # "wcc" /\ Vertices # {} /\ iteration # 1
  <2>1. BspTeleport = Share /\ Algorithm = "pagerank" /\ EqualRanks
    BY <1>8, BspTeleportIs, AlgorithmAssumption DEF OrderFree
  <2>2. Share # NoTeleport
    BY <1>4, <1>8, <2>1, ShareOfVertex
  <2>. QED  BY <1>2, <1>3, <1>4, <1>8, <2>1, <2>2, SetTeleportStays
<1>. QED  BY <1>5, <1>6, <1>7, <1>8

(* The operators of Bsp are those of the local engine. *)
LEMMA SameTeleport ==
  ASSUME NEW vertices, NEW t, NEW v
  PROVE  Abstract!TeleportAt(vertices, t, v) = TeleportAt(vertices, t, v)
BY DEF Abstract!TeleportAt, TeleportAt, Abstract!NoTeleport, NoTeleport,
       Abstract!Damp, Damp, Abstract!Min, Min

LEMMA SameSum == ASSUME NEW f PROVE Abstract!SumFunction(f) = SumFunction(f)
BY DEF Abstract!SumFunction, SumFunction, Abstract!SumFunctionOnSet, SumFunctionOnSet,
       Abstract!FoldFunctionOnSet, FoldFunctionOnSet, Abstract!MapThenFoldSet,
       MapThenFoldSet

LEMMA SameCompute ==
  ASSUME NEW v, NEW value, NEW degree, NEW msgs, NEW t, NEW k
  PROVE  Abstract!ComputeVertex(v, value, degree, msgs, t, k)
           = ComputeVertex(v, value, degree, msgs, t, k)
BY SameSum
   DEF Abstract!ComputeVertex, ComputeVertex, Abstract!Wcc, Wcc, Abstract!PageRank,
       PageRank, Abstract!NoTeleport, NoTeleport, Abstract!Damp, Damp, Abstract!Min,
       Min, Abstract!Range, Range

LEMMA SameCardinality == \A S : Abstract!Cardinality(S) = Cardinality(S)
BY DEF Abstract!Cardinality, Cardinality

LEMMA SameSuperstep ==
  ASSUME NEW db, NEW m, NEW t, NEW k
  PROVE  Abstract!ProcessSuperstep(db, m, t, k) = ProcessSuperstep(db, m, t, k)
<1> DEFINE out(v) == {e \in db.edges : e.src = v}
           result == [v \in DOMAIN db.vertices |->
                        ComputeVertex(v, db.vertices[v], Cardinality(out(v)),
                                      MailOf(m, v), TeleportAt(db.vertices, t, v), k)]
           same == [v \in DOMAIN db.vertices |->
                      Abstract!ComputeVertex(v, db.vertices[v],
                                             Abstract!Cardinality(out(v)),
                                             Abstract!MailOf(m, v),
                                             Abstract!TeleportAt(db.vertices, t, v), k)]
           after(r) ==
             LET sent == {e \in db.edges : e.src \in DOMAIN r /\ r[e.src].send # {}}
             IN  [ db       |-> [ vertices |-> [v \in DOMAIN db.vertices |-> r[v].value],
                                  edges    |-> db.edges ],
                   outbox   |-> [e \in sent |-> CHOOSE x \in r[e.src].send : TRUE],
                   teleport |-> IF DOMAIN db.vertices = {} THEN t
                                ELSE TeleportAt(db.vertices, t, Max(DOMAIN db.vertices)) ]
<1>1. \A v : Abstract!MailOf(m, v) = MailOf(m, v)
  BY DEF Abstract!MailOf, MailOf, Abstract!Restrict, Restrict
<1>2. result = same
  BY <1>1, SameTeleport, SameCompute, SameCardinality
<1>3. ProcessSuperstep(db, m, t, k) = after(result)
  BY DEF ProcessSuperstep
<1>4. Abstract!TeleportAt(db.vertices, t, Abstract!Max(DOMAIN db.vertices))
        = TeleportAt(db.vertices, t, Max(DOMAIN db.vertices))
  BY SameTeleport DEF Abstract!Max, Max
<1> DEFINE done(r) ==
             LET sent == {e \in db.edges : e.src \in DOMAIN r /\ r[e.src].send # {}}
             IN  [ db       |-> [ vertices |-> [v \in DOMAIN db.vertices |-> r[v].value],
                                  edges    |-> db.edges ],
                   outbox   |-> [e \in sent |-> CHOOSE x \in r[e.src].send : TRUE],
                   teleport |-> IF DOMAIN db.vertices = {} THEN t
                                ELSE Abstract!TeleportAt(db.vertices, t,
                                       Abstract!Max(DOMAIN db.vertices)) ]
<1>5. Abstract!ProcessSuperstep(db, m, t, k) = done(same)
  BY DEF Abstract!ProcessSuperstep
<1> HIDE DEF result, same
<1>6. done(same) = after(same)
  BY <1>4
<1>. QED  BY <1>2, <1>3, <1>5, <1>6

LEMMA InitAbstract == Init => Abstract!Init
<1> SUFFICES ASSUME Init PROVE Abstract!Init
  OBVIOUS
<1>1. /\ graph \in Graphs /\ iteration = 1 /\ status = "running"
      /\ begun = [values |-> graph.vertices, mail |-> NoMail]
  BY DEF Init
<1>2. graph = [vertices |-> graph.vertices, edges |-> graph.edges]
  BY <1>1, GraphShape
<1>3. BspTeleport = NoTeleport
  BY <1>1, BspTeleportIs
<1>. QED  BY <1>1, <1>2, <1>3 DEF Abstract!Init, NoTeleport, Abstract!NoTeleport,
                                  NoMail, Abstract!NoMail

LEMMA NextAbstract ==
  OrderFree /\ StepInv /\ [Next]_vars => [Abstract!Next]_(Abstract!vars)
<1> SUFFICES ASSUME OrderFree, StepInv, [Next]_vars
             PROVE  [Abstract!Next]_(Abstract!vars)
  OBVIOUS
<1>1. ASSUME UNCHANGED <<graph, iteration, begun>>
      PROVE  BspTeleport' = BspTeleport
  BY <1>1 DEF BspTeleport, Vertices
<1>2. ASSUME NEW v \in Vertices, Visit(v) PROVE UNCHANGED Abstract!vars
  <2>1. UNCHANGED <<graph, iteration, status, begun>>
    BY <1>2, VisitActs
  <2>. QED  BY <1>1, <2>1 DEF Abstract!vars
<1>3. CASE Exchange
  <2>1. /\ status = "running" /\ iteration <= MaxIterations /\ visited = Vertices
        /\ graph' = graph /\ iteration' = iteration + 1
        /\ begun' = [values |-> values, mail |-> outbox]
        /\ status' = IF outbox = NoMail THEN "finished" ELSE "running"
    BY <1>3 DEF Exchange
  <2>2. /\ Whole.db = [vertices |-> values, edges |-> graph.edges]
        /\ Whole.outbox = outbox /\ Whole.teleport = BspTeleport'
    BY <1>3, <2>1, SuperstepDone, TeleportDone
  <2>3. Abstract!Superstep
    BY <2>1, <2>2, SameSuperstep DEF Abstract!Superstep, Whole, NoMail, Abstract!NoMail
  <2>. QED  BY <2>3 DEF Abstract!Next
<1>4. CASE BudgetSpent
  <2>1. /\ status = "running" /\ iteration > MaxIterations /\ status' = "finished"
        /\ UNCHANGED <<graph, iteration, begun>>
    BY <1>4 DEF BudgetSpent
  <2>. QED  BY <1>1, <2>1 DEF Abstract!Next, Abstract!BudgetSpent
<1>5. CASE UNCHANGED vars
  <2>1. UNCHANGED <<graph, iteration, status, begun>>
    BY <1>5 DEF vars
  <2>. QED  BY <1>1, <2>1 DEF Abstract!vars
<1>. QED  BY <1>2, <1>3, <1>4, <1>5 DEF Next

(* PartitionedGraph and InMemoryGraph: in whatever order vertices are      *)
(* visited, partitions interleaved and function objects shared, a run is   *)
(* one of the sequential program of Bsp, superstep by superstep.  For      *)
(* PageRank this takes ranks that are loaded equal and positive: the       *)
(* teleport is the business of whichever vertex comes first.               *)
THEOREM Refinement ==
  ASSUME OrderFree
  PROVE  Spec => LocalImplementsBsp
<1>1. Init => Abstract!Init /\ StepInv
  BY InitAbstract, InitStep
<1>2. StepInv /\ [Next]_vars => StepInv'
  BY NextStep
<1>3. StepInv /\ [Next]_vars => [Abstract!Next]_(Abstract!vars)
  BY NextAbstract
<1>. QED  BY <1>1, <1>2, <1>3, PTL DEF Spec, LocalImplementsBsp, Abstract!Spec

----------------------------------------------------------------------------
(* The ids that reach a vertex: what holds of 0 and is handed on from each *)
(* number to the next holds of all.                                        *)
LEMMA NumberInduction ==
  ASSUME NEW T, 0 \in T, \A k \in Nat : k \in T => k + 1 \in T
  PROVE  \A k \in Nat : k \in T
<1> TAKE k \in Nat
<1>1. 0 .. k \subseteq T
  BY IntervalInduction
<1>. QED  BY <1>1

(* One edge back from the ids of S. *)
Back(S) ==
  S \cup {e.src : e \in {d \in graph.edges : d.dst \in S /\ d.src \in Vertices}}

IsBack(f, v, k) == f = [i \in 0 .. k |-> IF i = 0 THEN {v} ELSE Back(f[i-1])]

Src(v, k) == Abstract!SourcesWithin(v, k)

LEMMA BackExists == ASSUME NEW v PROVE \A k \in Nat : \E f : IsBack(f, v, k)
<1> DEFINE T == {k \in Nat : \E f : IsBack(f, v, k)}
<1>1. 0 \in T
  <2> DEFINE f == [i \in 0 .. 0 |-> {v}]
  <2>1. f = [i \in 0 .. 0 |-> IF i = 0 THEN {v} ELSE Back(f[i-1])]
    OBVIOUS
  <2>. QED  BY <2>1 DEF IsBack
<1>2. ASSUME NEW k \in Nat, k \in T PROVE k + 1 \in T
  <2>1. PICK f : IsBack(f, v, k)
    BY <1>2
  <2> DEFINE g == [i \in 0 .. (k + 1) |-> IF i = 0 THEN {v} ELSE Back(f[i-1])]
  <2>2. ASSUME NEW i \in 0 .. (k + 1), i # 0 PROVE g[i-1] = f[i-1]
    <3>1. i - 1 \in 0 .. k /\ i - 1 \in 0 .. (k + 1)
      BY <2>2
    <3>. QED  BY <2>1, <3>1 DEF IsBack
  <2>3. \A i \in 0 .. (k + 1) : g[i] = IF i = 0 THEN {v} ELSE Back(g[i-1])
    BY <2>2
  <2>4. g = [i \in 0 .. (k + 1) |-> IF i = 0 THEN {v} ELSE Back(g[i-1])]
    BY <2>3
  <2> HIDE DEF g
  <2>. QED  BY <2>4 DEF IsBack
<1> HIDE DEF T
<1>3. \A k \in Nat : k \in T
  BY <1>1, <1>2, NumberInduction
<1>. QED  BY <1>3 DEF T

LEMMA BackIsUnique ==
  ASSUME NEW v, NEW k \in Nat, NEW f, NEW g, IsBack(f, v, k), IsBack(g, v, k + 1)
  PROVE  \A i \in 0 .. k : f[i] = g[i]
<1> DEFINE T == {i \in 0 .. k : f[i] = g[i]}
<1>1. 0 \in T
  BY DEF IsBack
<1>2. ASSUME NEW i \in 0 .. k, i \in T, i + 1 \in 0 .. k PROVE i + 1 \in T
  <2>1. i + 1 \in 0 .. (k + 1) /\ i + 1 # 0 /\ (i + 1) - 1 = i
    BY <1>2
  <2>2. f[i + 1] = Back(f[i]) /\ g[i + 1] = Back(g[i])
    BY <1>2, <2>1 DEF IsBack
  <2>. QED  BY <1>2, <2>2
<1> HIDE DEF T
<1>3. 0 .. k \subseteq T
  BY <1>1, <1>2, IntervalInduction
<1>. QED  BY <1>3 DEF T

LEMMA SourcesAre ==
  ASSUME NEW v, NEW k \in Nat
  PROVE  \E f : IsBack(f, v, k) /\ Src(v, k) = f[k]
<1> DEFINE f == CHOOSE g : IsBack(g, v, k)
<1>1. IsBack(f, v, k)
  BY BackExists
<1>2. Src(v, k) = f[k]
  BY DEF Src, Abstract!SourcesWithin, IsBack, Back, Vertices
<1>. QED  BY <1>1, <1>2

LEMMA SourcesStep ==
  ASSUME NEW v
  PROVE  /\ Src(v, 0) = {v}
         /\ \A k \in Nat : Src(v, k + 1) = Back(Src(v, k))
<1>1. Src(v, 0) = {v}
  <2>1. PICK f : IsBack(f, v, 0) /\ Src(v, 0) = f[0]
    BY SourcesAre
  <2>. QED  BY <2>1 DEF IsBack
<1>2. ASSUME NEW k \in Nat PROVE Src(v, k + 1) = Back(Src(v, k))
  <2>1. PICK f : IsBack(f, v, k) /\ Src(v, k) = f[k]
    BY SourcesAre
  <2>2. PICK g : IsBack(g, v, k + 1) /\ Src(v, k + 1) = g[k + 1]
    BY SourcesAre
  <2>3. k \in 0 .. k /\ k + 1 \in 0 .. (k + 1) /\ k + 1 # 0 /\ (k + 1) - 1 = k
    OBVIOUS
  <2>4. f[k] = g[k]
    BY <2>1, <2>2, <2>3, BackIsUnique
  <2>5. g[k + 1] = Back(g[k])
    BY <2>2, <2>3 DEF IsBack
  <2>. QED  BY <2>1, <2>2, <2>4, <2>5
<1>. QED  BY <1>1, <1>2

(* A vertex is reached by what reaches its neighbours over an edge less.   *)
Into(v) == {e \in graph.edges : e.dst = v /\ e.src \in Vertices}

LEMMA SourcesOverEdges ==
  \A k \in Nat : \A v :
    Src(v, k + 1) = {v} \cup UNION {Src(e.src, k) : e \in Into(v)}
<1> DEFINE over(v, k) == {v} \cup UNION {Src(e.src, k) : e \in Into(v)}
           T == {k \in Nat : \A v : Src(v, k + 1) = over(v, k)}
<1>1. 0 \in T
  <2> SUFFICES ASSUME NEW v PROVE Src(v, 0 + 1) = over(v, 0)
    OBVIOUS
  <2>1. Src(v, 0 + 1) = Back({v})
    BY SourcesStep
  <2>2. \A e : Src(e.src, 0) = {e.src}
    BY SourcesStep
  <2>3. \A x : x \in over(v, 0) <=> x = v \/ \E e \in Into(v) : x = e.src
    BY <2>2
  <2>4. \A x : x \in Back({v}) <=> x = v \/ \E e \in Into(v) : x = e.src
    BY DEF Back, Into
  <2> HIDE DEF over
  <2>5. Back({v}) = over(v, 0)
    BY <2>3, <2>4
  <2>. QED  BY <2>1, <2>5
<1>2. ASSUME NEW k \in Nat, k \in T PROVE k + 1 \in T
  <2> SUFFICES ASSUME NEW v PROVE Src(v, (k + 1) + 1) = over(v, k + 1)
    BY <1>2
  <2>1. Src(v, (k + 1) + 1) = Back(over(v, k))
    <3>1. k + 1 \in Nat
      OBVIOUS
    <3>2. Src(v, (k + 1) + 1) = Back(Src(v, k + 1))
      BY <3>1, SourcesStep
    <3>3. Src(v, k + 1) = over(v, k)
      BY <1>2
    <3> HIDE DEF over
    <3>. QED  BY <3>2, <3>3
  <2>2. \A u : Src(u, k + 1) = Back(Src(u, k))
    BY SourcesStep
  <2>3. \A u : u \in Src(u, k + 1)
    BY <1>2
  <2>4. ASSUME NEW x PROVE x \in Back(over(v, k)) <=> x \in over(v, k + 1)
    <3>1. ASSUME x \in Back(over(v, k)) PROVE x \in over(v, k + 1)
      <4>1. CASE x \in over(v, k)
        <5>1. \A e \in Into(v) : Src(e.src, k) \subseteq Src(e.src, k + 1)
          BY <2>2 DEF Back
        <5>. QED  BY <4>1, <5>1
      <4>2. CASE \E d \in graph.edges : d.dst \in over(v, k) /\ d.src \in Vertices /\ x = d.src
        <5>1. PICK d \in graph.edges : d.dst \in over(v, k) /\ d.src \in Vertices /\ x = d.src
          BY <4>2
        <5>2. CASE d.dst = v
          <6>1. d \in Into(v) /\ x \in Src(d.src, k + 1)
            BY <2>3, <5>1, <5>2 DEF Into
          <6>. QED  BY <6>1
        <5>3. CASE d.dst # v
          <6>1. PICK e \in Into(v) : d.dst \in Src(e.src, k)
            BY <5>1, <5>3
          <6>2. x \in Back(Src(e.src, k))
            BY <5>1, <6>1 DEF Back
          <6>3. x \in Src(e.src, k + 1)
            BY <2>2, <6>2
          <6>. QED  BY <6>1, <6>3
        <5>. QED  BY <5>2, <5>3
      <4>. QED  BY <3>1, <4>1, <4>2 DEF Back
    <3>2. ASSUME x \in over(v, k + 1) PROVE x \in Back(over(v, k))
      <4>1. CASE x = v
        BY <4>1 DEF Back
      <4>2. CASE x # v
        <5>1. PICK e \in Into(v) : x \in Src(e.src, k + 1)
          BY <3>2, <4>2
        <5>2. x \in Back(Src(e.src, k))
          BY <2>2, <5>1
        <5>3. Src(e.src, k) \subseteq over(v, k)
          BY <5>1
        <5>. QED  BY <5>2, <5>3 DEF Back
      <4>. QED  BY <4>1, <4>2
    <3>. QED  BY <3>1, <3>2
  <2>. QED  BY <2>1, <2>4
<1> HIDE DEF T
<1>3. \A k \in Nat : k \in T
  BY <1>1, <1>2, NumberInduction
<1>. QED  BY <1>3 DEF T

LEMMA SourcesShape ==
  ASSUME graph \in Graphs
  PROVE  \A k \in Nat : \A v \in Vertices :
           v \in Src(v, k) /\ Src(v, k) \subseteq Nat
<1> DEFINE T == {k \in Nat : \A v \in Vertices : v \in Src(v, k) /\ Src(v, k) \subseteq Nat}
<1>1. Vertices \subseteq Nat
  BY GraphShape
<1>2. 0 \in T
  BY <1>1, SourcesStep
<1>3. ASSUME NEW k \in Nat, k \in T PROVE k + 1 \in T
  <2> SUFFICES ASSUME NEW v \in Vertices
               PROVE  v \in Src(v, k + 1) /\ Src(v, k + 1) \subseteq Nat
    OBVIOUS
  <2>1. Src(v, k + 1) = Back(Src(v, k)) /\ v \in Src(v, k) /\ Src(v, k) \subseteq Nat
    BY <1>3, SourcesStep
  <2>. QED  BY <1>1, <2>1 DEF Back
<1> HIDE DEF T
<1>4. \A k \in Nat : k \in T
  BY <1>2, <1>3, NumberInduction
<1>. QED  BY <1>4 DEF T

----------------------------------------------------------------------------
(* Labels after a superstep: the least id that reaches the vertex over at  *)
(* most k edges.  An edge along which nothing was sent is one whose source *)
(* had that label a superstep before.                                      *)
Label(v, k) == Min(Src(v, k))

LabelInv ==
  Algorithm = "wcc" /\ iteration > 1 =>
    LET k == iteration - 2
    IN  /\ \A v \in Vertices : begun.values[v] = Label(v, k)
        /\ \A e \in DOMAIN begun.mail :
             /\ e \in graph.edges /\ e.src \in Vertices
             /\ begun.mail[e] = Label(e.src, k)
        /\ \A e \in graph.edges :
             e.src \in Vertices /\ e \notin DOMAIN begun.mail =>
               k >= 1 /\ Label(e.src, k) = Label(e.src, k - 1)

LEMMA LabelIs ==
  ASSUME graph \in Graphs, NEW v \in Vertices, NEW k \in Nat
  PROVE  /\ Label(v, k) \in Src(v, k) /\ Label(v, k) \in Nat
         /\ \A x \in Src(v, k) : Label(v, k) <= x
<1>1. Src(v, k) \subseteq Nat /\ Src(v, k) # {}
  BY SourcesShape
<1>. QED  BY <1>1, MinIsLeast DEF Label

LEMMA LabelOfFirst ==
  ASSUME graph \in Graphs, NEW v \in Vertices
  PROVE  Label(v, 0) = v
<1>1. Src(v, 0) = {v}
  BY SourcesStep
<1>2. Label(v, 0) \in Src(v, 0)
  BY LabelIs
<1>. QED  BY <1>1, <1>2

(* What a vertex makes of its label and its messages is its next label. *)
LEMMA LabelMeets ==
  ASSUME StepInv, LabelInv, Algorithm = "wcc", iteration > 1, NEW v \in Vertices
  PROVE  LET k == iteration - 2
             best == Min({begun.values[v]} \cup Range(MailOf(begun.mail, v)))
         IN  best = Label(v, k + 1)
<1> DEFINE k == iteration - 2
           mine == MailOf(begun.mail, v)
           all == {begun.values[v]} \cup Range(mine)
           best == Min(all)
<1>1. k \in Nat /\ graph \in Graphs
  BY LocalAssumption DEF StepInv, TypeInv
<1> HIDE DEF k
<1>2. /\ begun.values[v] = Label(v, k)
      /\ \A e \in DOMAIN begun.mail :
             /\ e \in graph.edges /\ e.src \in Vertices
             /\ begun.mail[e] = Label(e.src, k)
      /\ \A e \in graph.edges :
             e.src \in Vertices /\ e \notin DOMAIN begun.mail =>
               k >= 1 /\ Label(e.src, k) = Label(e.src, k - 1)
  BY DEF LabelInv, k
<1>3. \A x : x \in all <=> \/ x = Label(v, k)
                           \/ \E e \in DOMAIN begun.mail : e.dst = v /\ x = Label(e.src, k)
  <2>1. /\ DOMAIN mine = {e \in DOMAIN begun.mail : e.dst = v}
        /\ \A e \in DOMAIN mine : mine[e] = begun.mail[e]
    BY DEF MailOf, Restrict
  <2>2. Range(mine) = {mine[e] : e \in DOMAIN mine}
    BY DEF Range
  <2> HIDE DEF mine
  <2>. QED  BY <1>2, <2>1, <2>2
<1> HIDE DEF all
<1>4. \A e \in Into(v) : Src(e.src, k) \subseteq Src(v, k + 1)
  BY <1>1, SourcesOverEdges
<1>5. Src(v, k) \subseteq Src(v, k + 1)
  <2>1. Src(v, k + 1) = Back(Src(v, k))
    BY <1>1, SourcesStep
  <2>2. Src(v, k) \subseteq Back(Src(v, k))
    BY DEF Back
  <2>. QED  BY <2>1, <2>2
<1>6. all \subseteq Src(v, k + 1)
  <2> SUFFICES ASSUME NEW x \in all PROVE x \in Src(v, k + 1)
    OBVIOUS
  <2>1. CASE x = Label(v, k)
    BY <1>1, <1>5, <2>1, LabelIs
  <2>2. CASE \E e \in DOMAIN begun.mail : e.dst = v /\ x = Label(e.src, k)
    <3>1. PICK e \in DOMAIN begun.mail : e.dst = v /\ x = Label(e.src, k)
      BY <2>2
    <3>2. e \in Into(v) /\ e.src \in Vertices
      BY <1>2, <3>1 DEF Into
    <3>3. x \in Src(e.src, k)
      BY <1>1, <3>1, <3>2, LabelIs
    <3>. QED  BY <1>4, <3>2, <3>3
  <2>. QED  BY <1>3, <2>1, <2>2
<1>7. Src(v, k + 1) \subseteq Nat
  BY <1>1, SourcesShape
<1>8. best \in all /\ \A y \in all : best <= y
  <2>1. all \subseteq Nat /\ all # {}
    BY <1>3, <1>6, <1>7
  <2>. QED  BY <2>1, MinIsLeast
<1> HIDE DEF best
<1>9. best \in Nat /\ best <= Label(v, k) /\ Label(v, k) \in Nat
  BY <1>1, <1>3, <1>6, <1>7, <1>8, LabelIs
<1>10. ASSUME NEW x \in Src(v, k + 1) PROVE best <= x
  <2>1. x \in Nat
    BY <1>7
  <2>2. CASE x = v
    <3>1. v \in Src(v, k)
      BY <1>1, SourcesShape
    <3>2. Label(v, k) <= v
      BY <1>1, <3>1, LabelIs
    <3>. QED  BY <1>9, <2>1, <2>2, <3>2
  <2>3. CASE x # v
    <3>1. PICK e \in Into(v) : x \in Src(e.src, k)
      BY <1>1, <2>3, SourcesOverEdges
    <3>2. e \in graph.edges /\ e.dst = v /\ e.src \in Vertices
      BY DEF Into
    <3>3. Label(e.src, k) <= x /\ Label(e.src, k) \in Nat
      BY <1>1, <3>1, <3>2, LabelIs
    <3>4. CASE e \in DOMAIN begun.mail
      <4>1. best <= Label(e.src, k)
        BY <1>3, <1>8, <3>2, <3>4
      <4>. QED  BY <1>9, <2>1, <3>3, <4>1
    <3>5. CASE e \notin DOMAIN begun.mail
      <4>1. k - 1 \in Nat /\ (k - 1) + 1 = k /\ Label(e.src, k) = Label(e.src, k - 1)
        BY <1>1, <1>2, <3>2, <3>5
      <4>2. Src(e.src, k - 1) \subseteq Src(v, (k - 1) + 1)
        BY <4>1, SourcesOverEdges
      <4>3. Label(e.src, k - 1) \in Src(v, k)
        BY <1>1, <3>2, <4>1, <4>2, LabelIs
      <4>4. Label(v, k) <= Label(e.src, k)
        BY <1>1, <4>1, <4>3, LabelIs
      <4>. QED  BY <1>9, <2>1, <3>3, <4>4
    <3>. QED  BY <3>4, <3>5
  <2>. QED  BY <2>2, <2>3
<1>11. Label(v, k + 1) \in Src(v, k + 1) /\ \A x \in Src(v, k + 1) : Label(v, k + 1) <= x
  BY <1>1, LabelIs
<1>12. best <= Label(v, k + 1) /\ Label(v, k + 1) <= best /\ Label(v, k + 1) \in Nat
  BY <1>6, <1>7, <1>8, <1>10, <1>11
<1>13. best = Label(v, k + 1)
  BY <1>9, <1>12
<1>. QED  BY <1>13 DEF best, all, mine, k

LEMMA ExchangeLabels ==
  ASSUME StepInv, LabelInv, Exchange, Algorithm = "wcc"
  PROVE  LabelInv'
<1> DEFINE i == iteration - 1
<1>1. /\ visited = Vertices
      /\ iteration' = iteration + 1
      /\ begun' = [values |-> values, mail |-> outbox]
      /\ graph' = graph
  BY DEF Exchange
<1>2. iteration \in Nat /\ i \in Nat /\ iteration' - 2 = i /\ graph \in Graphs
  BY <1>1, LocalAssumption DEF StepInv, TypeInv
<1>3. Vertices' = Vertices /\ \A v, k : Label(v, k)' = Label(v, k)
  BY <1>1 DEF Vertices, Label, Src, Abstract!SourcesWithin
<1>4. ASSUME NEW v \in Vertices
      PROVE  /\ Result(v).value = Label(v, i)
             /\ Result(v).send # {} => Payload(v) = Label(v, i)
             /\ Result(v).send = {} => i >= 1 /\ Label(v, i) = Label(v, i - 1)
  <2> DEFINE best == Min({begun.values[v]} \cup Range(MailOf(begun.mail, v)))
  <2>1. Result(v) = IF iteration = 1
                      THEN [value |-> v, send |-> {v}]
                      ELSE [value |-> best,
                            send |-> IF best < begun.values[v] THEN {best} ELSE {}]
    BY DEF Result, ComputeVertex, Wcc
  <2> HIDE DEF best
  <2>2. CASE iteration = 1
    <3>1. Label(v, i) = v
      BY <1>2, <2>2, LabelOfFirst
    <3>2. Result(v).value = v /\ Result(v).send = {v}
      BY <2>1, <2>2
    <3>3. Payload(v) = v
      BY <3>2 DEF Payload
    <3>. QED  BY <3>1, <3>2, <3>3
  <2>3. CASE iteration # 1
    <3>1. iteration > 1 /\ (iteration - 2) + 1 = i /\ i - 1 = iteration - 2
          /\ i - 1 \in Nat /\ i >= 1
      BY <1>2, <2>3
    <3>2. best = Label(v, i)
      BY <3>1, LabelMeets DEF best
    <3>3. begun.values[v] = Label(v, i - 1)
      BY <3>1 DEF LabelInv
    <3>4. Label(v, i) \in Nat /\ Label(v, i - 1) \in Nat /\ Label(v, i) <= Label(v, i - 1)
      <4>1. Label(v, i) \in Nat /\ Label(v, i - 1) \in Nat
            /\ Label(v, i - 1) \in Src(v, i - 1)
        BY <1>2, <3>1, LabelIs
      <4>2. Src(v, (i - 1) + 1) = Back(Src(v, i - 1))
        BY <3>1, SourcesStep
      <4>3. Label(v, i - 1) \in Src(v, i)
        BY <3>1, <4>1, <4>2 DEF Back
      <4>. QED  BY <1>2, <4>1, <4>3, LabelIs
    <3>5. /\ Result(v).value = best
          /\ Result(v).send = IF best < begun.values[v] THEN {best} ELSE {}
      BY <2>1, <2>3
    <3>6. Result(v).send # {} => Payload(v) = best
      BY <3>5 DEF Payload
    <3>7. Result(v).send = {} => Label(v, i) = Label(v, i - 1)
      BY <3>2, <3>3, <3>4, <3>5
    <3>. QED  BY <3>1, <3>2, <3>5, <3>6, <3>7
  <2>. QED  BY <2>2, <2>3
<1>5. /\ \A v \in Vertices : values[v] = Result(v).value
      /\ DOMAIN outbox = {e \in graph.edges : e.src \in Vertices /\ Result(e.src).send # {}}
      /\ \A e \in DOMAIN outbox : outbox[e] = Payload(e.src)
  BY <1>1 DEF StepInv, ProgressInv
<1> HIDE DEF i
<1>6. /\ \A v \in Vertices : values[v] = Label(v, i)
      /\ \A e \in DOMAIN outbox :
           e \in graph.edges /\ e.src \in Vertices /\ outbox[e] = Label(e.src, i)
      /\ \A e \in graph.edges :
           e.src \in Vertices /\ e \notin DOMAIN outbox =>
             i >= 1 /\ Label(e.src, i) = Label(e.src, i - 1)
  BY <1>4, <1>5
<1>7. begun'.values = values /\ begun'.mail = outbox
  BY <1>1
<1>. QED  BY <1>1, <1>2, <1>3, <1>6, <1>7 DEF LabelInv

LEMMA InitLabels == Init => LabelInv
BY DEF Init, LabelInv

LEMMA NextLabels == StepInv /\ LabelInv /\ [Next]_vars => LabelInv'
<1> SUFFICES ASSUME StepInv, LabelInv, [Next]_vars, Algorithm = "wcc" PROVE LabelInv'
  BY DEF LabelInv
<1>1. ASSUME UNCHANGED <<graph, iteration, begun>> PROVE LabelInv'
  <2>1. Vertices' = Vertices /\ \A v, k : Label(v, k)' = Label(v, k)
    BY <1>1 DEF Vertices, Label, Src, Abstract!SourcesWithin
  <2>. QED  BY <1>1, <2>1 DEF LabelInv
<1>2. ASSUME NEW v \in Vertices, Visit(v) PROVE LabelInv'
  BY <1>1, <1>2, VisitActs
<1>3. CASE Exchange
  BY <1>3, ExchangeLabels
<1>4. CASE BudgetSpent
  BY <1>1, <1>4 DEF BudgetSpent
<1>5. CASE UNCHANGED vars
  BY <1>1, <1>5 DEF vars
<1>. QED  BY <1>2, <1>3, <1>4, <1>5 DEF Next

(* WCC: after superstep k a vertex holds the least id that reaches it over *)
(* at most k - 1 edges, for every graph, dangling edges, parallel edges    *)
(* and loops included, and whatever the vertices were loaded with.         *)
THEOREM Labels == Spec => []LabelsExact
<1> DEFINE Inv == Algorithm = "wcc" => StepInv /\ LabelInv
<1>1. Init => Inv
  BY InitStep, InitLabels
<1>2. Inv /\ [Next]_vars => Inv'
  <2> SUFFICES ASSUME Inv, [Next]_vars, Algorithm = "wcc"
               PROVE  (StepInv /\ LabelInv)'
    OBVIOUS
  <2>. QED  BY NextStep, NextLabels DEF OrderFree
<1>3. Inv => LabelsExact
  <2> SUFFICES ASSUME Inv, Algorithm = "wcc", iteration > 1,
                      NEW v \in DOMAIN begun.values
               PROVE  begun.values[v] = Abstract!Min(Abstract!SourcesWithin(v, iteration - 2))
    BY DEF LabelsExact, Abstract!WccLabelsExact
  <2>1. v \in Vertices
    BY DEF StepInv, ProgressInv, IntValues
  <2>2. begun.values[v] = Min(Src(v, iteration - 2))
    BY <2>1 DEF LabelInv, Label
  <2>. QED  BY <2>2 DEF Src, Abstract!Min, Min
<1> HIDE DEF Inv
<1>. QED  BY <1>1, <1>2, <1>3, PTL DEF Spec

----------------------------------------------------------------------------
(* The jobs of which PageRank promises to keep the sum of the ranks.       *)
Closed ==
  /\ Algorithm = "pagerank"
  /\ \A v \in Vertices : \E e \in graph.edges : e.src = v
  /\ \A e \in graph.edges : e.dst \in Vertices

Degree(v) == Cardinality(Out(v))

Received(v) == SumFunction(MailOf(begun.mail, v))

(* The engines divide floating-point numbers, the model integers: what it  *)
(* says of sums it says of runs in which no division has a remainder, as   *)
(* in those of the closed graphs of MCLocalGraph.                          *)
DivisionsExact ==
  Closed =>
    \A v \in Vertices :
      /\ graph.vertices[v] % 2 = 0 /\ Received(v) % 2 = 0
      /\ begun.values[v] % Degree(v) = 0

(* What was loaded is still there, and all of it is on its way: each rank  *)
(* in equal parts along the out-edges of its vertex.                       *)
RankInv ==
  Closed =>
    /\ SumFunction(begun.values) = SumFunction(graph.vertices)
    /\ iteration > 1 =>
         /\ DOMAIN begun.mail = {e \in graph.edges : e.src \in Vertices}
         /\ \A e \in DOMAIN begun.mail :
              begun.mail[e] = begun.values[e.src] \div Degree(e.src)

ConserveInv ==
  /\ StepInv /\ RankInv
  /\ IntMail(begun.mail)

(* In a closed graph every vertex has a neighbour to send to. *)
LEMMA DegreeIs ==
  ASSUME graph \in Graphs, Closed, NEW v \in Vertices
  PROVE  Degree(v) \in Nat /\ Degree(v) > 0 /\ IsFiniteSet(Out(v))
<1>1. IsFiniteSet(Out(v)) /\ Out(v) # {}
  <2>1. Out(v) \subseteq graph.edges /\ Out(v) # {}
    BY DEF Out, Closed
  <2>. QED  BY <2>1, GraphShape, FS_Subset
<1>2. Cardinality(Out(v)) \in Nat /\ Cardinality(Out(v)) # 0
  BY <1>1, FS_CardinalityType, FS_EmptySet
<1>. QED  BY <1>1, <1>2 DEF Degree

(* Mail is integers, finitely many, and so is what a vertex is sent of it. *)
LEMMA MailSums ==
  ASSUME graph \in Graphs, NEW m, IntMail(m)
  PROVE  /\ Summable(m)
         /\ \A v : MailOf(m, v) = Restrict(m, {e \in DOMAIN m : e.dst = v})
         /\ \A v : SumFunction(MailOf(m, v)) \in Int
<1>1. Summable(m)
  BY GraphShape, FS_Subset DEF IntMail, Summable
<1>2. \A v : MailOf(m, v) = Restrict(m, {e \in DOMAIN m : e.dst = v})
  BY DEF MailOf
<1>3. ASSUME NEW v PROVE SumFunction(MailOf(m, v)) \in Int
  <2>1. {e \in DOMAIN m : e.dst = v} \subseteq DOMAIN m
    OBVIOUS
  <2>2. SumOver(m, {e \in DOMAIN m : e.dst = v}) \in Int
    BY <1>1, <2>1, SumOverType
  <2>. QED  BY <1>2, <2>2 DEF SumOver
<1>. QED  BY <1>1, <1>2, <1>3

(* What the vertices receive together is the sum of what they held: along  *)
(* the edges of the graph it is counted once by target, once by source.    *)
LEMMA AllReceived ==
  ASSUME ConserveInv, DivisionsExact, Closed, iteration > 1
  PROVE  SumFunction([v \in Vertices |-> Received(v)]) = SumFunction(begun.values)
<1> DEFINE m == begun.mail
           dst == [e \in DOMAIN m |-> e.dst]
           src == [e \in DOMAIN m |-> e.src]
<1>1. graph \in Graphs /\ IntMail(m) /\ IntValues(begun.values)
  BY DEF ConserveInv, StepInv, TypeInv, ProgressInv
<1>2. /\ DOMAIN m = {e \in graph.edges : e.src \in Vertices}
      /\ \A e \in DOMAIN m : m[e] = begun.values[e.src] \div Degree(e.src)
  BY DEF ConserveInv, RankInv
<1>3. Summable(m) /\ IsFiniteSet(Vertices)
  BY <1>1, GraphShape, MailSums
<1> HIDE DEF m
<1>4. SumOver(m, DOMAIN m) = SumFunction(m)
  BY <1>1, SumOverAll DEF IntMail
<1>5. SumFunction([v \in Vertices |-> Received(v)]) = SumFunction(m)
  <2>1. \A v \in Vertices : Received(v) = SumOver(m, Group(dst, DOMAIN m, v))
    <3>1. \A v : Group(dst, DOMAIN m, v) = {e \in DOMAIN m : e.dst = v}
      BY DEF Group
    <3>. QED  BY <3>1 DEF Received, MailOf, SumOver, m
  <2>2. [v \in Vertices |-> Received(v)] = GroupSums(m, dst, DOMAIN m, Vertices)
    BY <2>1 DEF GroupSums
  <2>3. \A e \in DOMAIN m : dst[e] \in Vertices
    BY <1>2 DEF Closed
  <2> HIDE DEF dst
  <2>4. SumFunction(GroupSums(m, dst, DOMAIN m, Vertices)) = SumOver(m, DOMAIN m)
    BY <1>3, <2>3, SumByGroups
  <2>. QED  BY <1>4, <2>2, <2>4
<1>6. SumFunction(begun.values) = SumFunction(m)
  <2>1. ASSUME NEW v \in Vertices
        PROVE  begun.values[v] = SumOver(m, Group(src, DOMAIN m, v))
    <3> DEFINE c == begun.values[v] \div Degree(v)
    <3>1. Group(src, DOMAIN m, v) = Out(v) /\ Out(v) \subseteq DOMAIN m
      BY <1>2 DEF Group, Out
    <3>2. \A e \in Out(v) : m[e] = c
      BY <1>2, <3>1 DEF Out
    <3>3. Degree(v) \in Nat /\ Degree(v) > 0
      BY <1>1, DegreeIs
    <3>4. begun.values[v] \in Int /\ begun.values[v] % Degree(v) = 0
      BY <1>1, <3>3 DEF IntValues, DivisionsExact
    <3>5. c \in Int /\ c * Degree(v) = begun.values[v]
      BY <3>3, <3>4
    <3> HIDE DEF c
    <3>6. SumOver(m, Out(v)) = c * Degree(v)
      BY <1>3, <3>1, <3>2, <3>5, SumOfEqual DEF Degree
    <3>. QED  BY <3>1, <3>5, <3>6
  <2>2. begun.values = GroupSums(m, src, DOMAIN m, Vertices)
    BY <1>1, <2>1 DEF GroupSums, IntValues
  <2>3. \A e \in DOMAIN m : src[e] \in Vertices
    BY <1>2
  <2> HIDE DEF src
  <2>4. SumFunction(GroupSums(m, src, DOMAIN m, Vertices)) = SumOver(m, DOMAIN m)
    BY <1>3, <2>3, SumByGroups
  <2>. QED  BY <1>4, <2>2, <2>4
<1>. QED  BY <1>5, <1>6

(* What a vertex holds after a superstep, and what it sends. *)
LEMMA ClosedResult ==
  ASSUME StepInv, EqualRanks, Closed, NEW v \in Vertices
  PROVE  LET r == Result(v)
         IN  /\ iteration = 1 => r.value = begun.values[v]
             /\ iteration > 1 => r.value = Damp(Received(v)) + Share
             /\ r.send # {} /\ Payload(v) = r.value \div Degree(v)
<1> DEFINE rank == Result(v).value
<1>1. graph \in Graphs /\ Algorithm = "pagerank"
  BY DEF StepInv, TypeInv, Closed
<1>2. Degree(v) \in Nat /\ Degree(v) > 0
  BY <1>1, DegreeIs
<1>3. Result(v) = PageRank(begun.values[v], Degree(v), MailOf(begun.mail, v),
                           TeleportAt(begun.values, BspTeleport, v), iteration)
  BY <1>1 DEF Result, ComputeVertex, Degree
<1>4. Result(v).send = {rank \div Degree(v)}
  BY <1>2, <1>3 DEF PageRank
<1>5. iteration = 1 => rank = begun.values[v]
  BY <1>3 DEF PageRank
<1>6. ASSUME iteration > 1 PROVE rank = Damp(Received(v)) + Share
  <2>1. Share # NoTeleport
    BY <1>1, ShareOfVertex
  <2>2. TeleportAt(begun.values, BspTeleport, v) = Share
    BY <1>1, <1>6, <2>1, BspTeleportIs, SetTeleportStays
  <2>. QED  BY <1>3, <1>6, <2>1, <2>2 DEF PageRank, Received
<1> HIDE DEF rank
<1>7. Payload(v) = rank \div Degree(v)
  BY <1>4 DEF Payload
<1>. QED  BY <1>4, <1>5, <1>6, <1>7 DEF rank

(* A superstep hands on what it was given. *)
LEMMA ExchangeRanks ==
  ASSUME ConserveInv, DivisionsExact, EqualRanks, Exchange
  PROVE  RankInv'
<1> SUFFICES ASSUME Closed
             PROVE  /\ SumFunction(values) = SumFunction(graph.vertices)
                    /\ DOMAIN outbox = {e \in graph.edges : e.src \in Vertices}
                    /\ \A e \in DOMAIN outbox : outbox[e] = values[e.src] \div Degree(e.src)
  <2>1. begun' = [values |-> values, mail |-> outbox] /\ graph' = graph
    BY DEF Exchange
  <2>. QED  BY <2>1 DEF RankInv, Closed, Vertices, Degree, Out
<1>1. /\ graph \in Graphs /\ visited = Vertices
      /\ IntValues(values) /\ IntValues(begun.values) /\ IntMail(begun.mail)
      /\ iteration \in Nat /\ iteration > 0
  BY LocalAssumption DEF ConserveInv, StepInv, TypeInv, ProgressInv, Exchange
<1>2. /\ \A v \in Vertices : values[v] = Result(v).value
      /\ DOMAIN outbox = {e \in graph.edges : e.src \in Vertices /\ Result(e.src).send # {}}
      /\ \A e \in DOMAIN outbox : outbox[e] = Payload(e.src)
  BY <1>1 DEF ConserveInv, StepInv, ProgressInv
<1>3. \A v \in Vertices :
        /\ iteration = 1 => values[v] = begun.values[v]
        /\ iteration > 1 => values[v] = Damp(Received(v)) + Share
        /\ Result(v).send # {} /\ Payload(v) = values[v] \div Degree(v)
  BY <1>2, ClosedResult DEF ConserveInv
<1>4. SumFunction(values) = SumFunction(graph.vertices)
  <2>1. SumFunction(begun.values) = SumFunction(graph.vertices)
    BY DEF ConserveInv, RankInv
  <2>2. CASE iteration = 1
    <3>1. values = begun.values
      BY <1>1, <1>3, <2>2 DEF IntValues
    <3>. QED  BY <2>1, <3>1
  <2>3. CASE iteration > 1
    <3> DEFINE received == [v \in Vertices |-> Received(v)]
               loaded == graph.vertices
    <3>1. IntValues(loaded) /\ IsFiniteSet(Vertices)
      BY <1>1, GraphShape
    <3>2. \A v \in Vertices : Received(v) \in Int
      BY <1>1, MailSums DEF Received
    <3>3. ASSUME NEW v \in Vertices
          PROVE  2 * values[v] = received[v] + loaded[v]
      <4>1. loaded[v] \in Int /\ Share = loaded[v] - Damp(loaded[v])
        BY <1>1, ShareOfVertex DEF Closed
      <4>2. loaded[v] % 2 = 0 /\ Received(v) % 2 = 0
        BY DEF DivisionsExact
      <4>3. 2 * Damp(Received(v)) = Received(v) /\ 2 * Damp(loaded[v]) = loaded[v]
            /\ Damp(Received(v)) \in Int /\ Damp(loaded[v]) \in Int
        BY <3>2, <4>1, <4>2 DEF Damp
      <4>4. values[v] = Damp(Received(v)) + Share /\ received[v] = Received(v)
        BY <1>3, <2>3
      <4>. QED  BY <3>2, <4>1, <4>3, <4>4
    <3>4. /\ Summable(values) /\ Summable(received) /\ Summable(loaded)
          /\ DOMAIN values = Vertices /\ DOMAIN loaded = Vertices
          /\ DOMAIN received = Vertices
      BY <1>1, <3>1, <3>2 DEF IntValues, Summable
    <3>5. /\ SumOver(values, Vertices) = SumFunction(values)
          /\ SumOver(received, Vertices) = SumFunction(received)
          /\ SumOver(loaded, Vertices) = SumFunction(loaded)
      <4>1. /\ values = [v \in DOMAIN values |-> values[v]]
            /\ received = [v \in DOMAIN received |-> received[v]]
            /\ loaded = [v \in DOMAIN loaded |-> loaded[v]]
        BY <1>1, <3>1, <3>4 DEF IntValues
      <4> HIDE DEF received, loaded
      <4>. QED  BY <3>4, <4>1, SumOverAll
    <3>6. SumFunction(received) = SumFunction(loaded)
      BY <2>1, <2>3, AllReceived
    <3>7. SumFunction(values) \in Int /\ SumFunction(loaded) \in Int
      BY <3>4, SumType DEF Summable
    <3> HIDE DEF received, loaded
    <3>8. 2 * SumOver(values, Vertices)
            = SumOver(received, Vertices) + SumOver(loaded, Vertices)
      BY <3>3, <3>4, SumOfHalves
    <3>. QED  BY <3>5, <3>6, <3>7, <3>8 DEF loaded
  <2>. QED  BY <1>1, <2>2, <2>3
<1>. QED  BY <1>2, <1>3, <1>4

LEMMA InitRanks == Init => ConserveInv
<1> SUFFICES ASSUME Init PROVE ConserveInv
  OBVIOUS
<1>1. StepInv
  BY InitStep
<1>2. begun = [values |-> graph.vertices, mail |-> NoMail] /\ iteration = 1
  BY DEF Init
<1>. QED  BY <1>1, <1>2, EmptyMail DEF ConserveInv, RankInv

LEMMA NextRanks ==
  EqualRanks /\ DivisionsExact /\ ConserveInv /\ [Next]_vars => ConserveInv'
<1> SUFFICES ASSUME EqualRanks, DivisionsExact, ConserveInv, [Next]_vars
             PROVE  ConserveInv'
  OBVIOUS
<1>1. StepInv'
  BY NextStep DEF ConserveInv, OrderFree
<1>2. ASSUME UNCHANGED <<graph, iteration, begun>> PROVE ConserveInv'
  BY <1>1, <1>2 DEF ConserveInv, RankInv, Closed, Degree, Out, Vertices, IntMail
<1>3. ASSUME NEW v \in Vertices, Visit(v) PROVE ConserveInv'
  BY <1>2, <1>3, VisitActs
<1>4. CASE Exchange
  <2>1. RankInv'
    BY <1>4, ExchangeRanks
  <2>2. begun' = [values |-> values, mail |-> outbox] /\ graph' = graph
    BY <1>4 DEF Exchange
  <2>3. IntMail(begun.mail)'
    BY <2>2 DEF ConserveInv, StepInv, TypeInv, IntMail
  <2>. QED  BY <1>1, <2>1, <2>3 DEF ConserveInv
<1>5. CASE BudgetSpent
  BY <1>2, <1>5 DEF BudgetSpent
<1>6. CASE UNCHANGED vars
  BY <1>2, <1>6 DEF vars
<1>. QED  BY <1>3, <1>4, <1>5, <1>6 DEF Next

(* PageRank neither creates nor loses rank: on a closed graph loaded with  *)
(* equal positive ranks their sum is after every superstep what it was at  *)
(* first, in whatever order vertices are visited, as long as no division   *)
(* has a remainder; with the f64 of the code that is up to rounding.       *)
THEOREM Conservation ==
  ASSUME EqualRanks
  PROVE  Spec /\ []DivisionsExact => []RanksConserved
<1>1. Init => ConserveInv
  BY InitRanks
<1>2. DivisionsExact /\ ConserveInv /\ [Next]_vars => ConserveInv'
  BY NextRanks
<1>3. ConserveInv => RanksConserved
  <2> SUFFICES ASSUME ConserveInv,
                      Algorithm = "pagerank",
                      \A v \in DOMAIN graph.vertices :
                        \E e \in graph.edges : e.src = v,
                      \A e \in graph.edges : e.dst \in DOMAIN graph.vertices
               PROVE  Abstract!SumFunction(begun.values)
                        = Abstract!SumFunction(graph.vertices)
    BY DEF RanksConserved, Abstract!RankConserved
  <2>1. Closed
    BY DEF Closed, Vertices
  <2>. QED  BY <2>1, SameSum DEF ConserveInv, RankInv
<1>. QED  BY <1>1, <1>2, <1>3, PTL DEF Spec

============================================================================
