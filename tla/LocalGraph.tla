----------------------------- MODULE LocalGraph -----------------------------
(***************************************************************************)
(* The local engines: PartitionedGraph::compute and ::compute_algorithm    *)
(* (graph/partitioned_graph.rs) and InMemoryGraph::run_with_function       *)
(* (graph/mem_graph.rs), which is the case of a single partition.          *)
(*                                                                         *)
(* A partition visits its vertices in the order of a HashMap's keys, that  *)
(* is, in any order.  compute_algorithm visits the partitions in parallel, *)
(* each with a function object of its own; compute visits one partition    *)
(* after the other with a single function object.                          *)
(***************************************************************************)
EXTENDS VertexProgram

CONSTANTS
    Graphs,         \* the graphs it may be given: [vertices, edges]
    Partition,      \* the partitions, 1 .. k for some k
    Part,           \* partition_of: id -> partition
    OneFunction,    \* TRUE for compute, FALSE for compute_algorithm
    MaxIterations   \* algorithm.iterations(); compute has no such bound

ASSUME LocalAssumption ==
  /\ \A g \in Graphs : \A v \in DOMAIN g.vertices : Part[v] \in Partition
  /\ OneFunction \in BOOLEAN
  /\ MaxIterations \in Nat

(* A graph is in memory: finitely many vertices under u64 ids, with labels *)
(* or ranks for values, and finitely many edges.                           *)
ASSUME GraphsAssumption ==
  \A g \in Graphs :
    /\ g = [vertices |-> g.vertices, edges |-> g.edges]
    /\ g.vertices = [v \in DOMAIN g.vertices |-> g.vertices[v]]
    /\ DOMAIN g.vertices \subseteq Nat
    /\ \A v \in DOMAIN g.vertices : g.vertices[v] \in Int
    /\ IsFiniteSet(DOMAIN g.vertices) /\ IsFiniteSet(g.edges)

VARIABLES
    graph,       \* the graph it was given
    values,      \* vertex values, of all partitions
    visited,     \* vertices visited in this superstep
    inbox,       \* messages of the last superstep not yet handed to a vertex
    outbox,      \* messages of this superstep, of all partitions
    teleport,    \* per function object, PageRankFunction::teleport
    iteration,
    status,      \* "running" or "finished"
    begun        \* history: values and inbox when the superstep began

vars == <<graph, values, visited, inbox, outbox, teleport, iteration, status, begun>>

Vertices == DOMAIN graph.vertices

FunctionOf(v) == IF OneFunction THEN 1 ELSE Part[v]

Init ==
  /\ graph \in Graphs
  /\ values = graph.vertices
  /\ visited = {}
  /\ inbox = NoMail
  /\ outbox = NoMail
  /\ teleport = [f \in IF OneFunction THEN {1} ELSE Partition |-> NoTeleport]
  /\ iteration = 1
  /\ status = "running"
  /\ begun = [values |-> graph.vertices, mail |-> NoMail]

(* The body of the loop over a partition's keys, for the key v. *)
Visit(v) ==
  LET f == FunctionOf(v)
      out == {e \in graph.edges : e.src = v}
      mine == MailOf(inbox, v)
      seen == TeleportAt(Restrict(values, {v}), teleport[f], v)
      r == ComputeVertex(v, values[v], Cardinality(out), mine, seen, iteration)
      payloads == [e \in {d \in out : r.send # {}} |-> CHOOSE m \in r.send : TRUE]
  IN  /\ status = "running"
      /\ iteration <= MaxIterations
      /\ v \notin visited
      /\ OneFunction => \A u \in Vertices : Part[u] < Part[v] => u \in visited
      /\ visited' = visited \cup {v}
      /\ values' = [values EXCEPT ![v] = r.value]
      /\ teleport' = [teleport EXCEPT ![f] = seen]
      /\ inbox' = Restrict(inbox, DOMAIN inbox \ DOMAIN mine)
      /\ outbox' = Merge(outbox, payloads)
      /\ UNCHANGED <<graph, iteration, status, begun>>

(* Mutants of Exchange: outbox.clear() is missing; any_msg is what the     *)
(* last partition sent.                                                    *)
ExchangeUncleared ==
  /\ status = "running"
  /\ iteration <= MaxIterations
  /\ visited = Vertices
  /\ inbox' = outbox
  /\ visited' = {}
  /\ iteration' = iteration + 1
  /\ status' = IF outbox = NoMail THEN "finished" ELSE "running"
  /\ begun' = [values |-> values, mail |-> outbox]
  /\ UNCHANGED <<graph, values, outbox, teleport>>

ExchangeLastDecides ==
  /\ status = "running"
  /\ iteration <= MaxIterations
  /\ visited = Vertices
  /\ inbox' = outbox
  /\ outbox' = NoMail
  /\ visited' = {}
  /\ iteration' = iteration + 1
  /\ status' = IF \E e \in DOMAIN outbox : Part[e.src] = Max(Partition)
                 THEN "running" ELSE "finished"
  /\ begun' = [values |-> values, mail |-> outbox]
  /\ UNCHANGED <<graph, values, teleport>>

(* All partitions are through: their messages are delivered, and the next  *)
(* superstep begins unless there were none.                                *)
Exchange ==
  /\ status = "running"
  /\ iteration <= MaxIterations
  /\ visited = Vertices
  /\ inbox' = outbox
  /\ outbox' = NoMail
  /\ visited' = {}
  /\ iteration' = iteration + 1
  /\ status' = IF outbox = NoMail THEN "finished" ELSE "running"
  /\ begun' = [values |-> values, mail |-> outbox]
  /\ UNCHANGED <<graph, values, teleport>>

BudgetSpent ==
  /\ status = "running"
  /\ iteration > MaxIterations
  /\ status' = "finished"
  /\ UNCHANGED <<graph, values, visited, inbox, outbox, teleport, iteration,
                 begun>>

Next ==
  \/ \E v \in Vertices : Visit(v)
  \/ Exchange
  \/ BudgetSpent

(* A thread that can go on does; rayon returns when all partitions have.   *)
Spec == Init /\ [][Next]_vars /\ WF_vars(Next)

----------------------------------------------------------------------------
TypeOK ==
  /\ graph \in Graphs
  /\ DOMAIN values = Vertices /\ \A v \in Vertices : values[v] \in Int
  /\ visited \subseteq Vertices
  /\ DOMAIN inbox \subseteq graph.edges /\ \A e \in DOMAIN inbox : inbox[e] \in Int
  /\ DOMAIN outbox \subseteq graph.edges
  /\ \A e \in DOMAIN outbox : e.src \in visited /\ outbox[e] \in Int
  /\ \A f \in DOMAIN teleport : teleport[f] \in Int
  /\ iteration \in 1 .. (MaxIterations + 1)
  /\ status \in {"running", "finished"}

(* The local engine computes what the sequential program of Bsp does: the  *)
(* order in which vertices are visited, the interleaving of partitions and *)
(* the sharing of a function object do not show, and neither does the      *)
(* in-place update of values while other vertices are still to be visited. *)
BspTeleport ==
  IF Algorithm = "wcc" \/ iteration = 1
    THEN NoTeleport
    ELSE TeleportAt(graph.vertices, NoTeleport, Max(Vertices))

Abstract ==
  INSTANCE Bsp WITH
    db        <- [vertices |-> begun.values, edges |-> graph.edges],
    mail      <- begun.mail,
    teleport  <- BspTeleport

LocalImplementsBsp == Abstract!Spec

(* What the sequential program promises, of the local engine.  After       *)
(* superstep k of WCC a vertex holds the least id that reaches it over at  *)
(* most k - 1 edges, whatever it was loaded with.                          *)
LabelsExact == Abstract!WccLabelsExact

(* PageRank neither creates nor loses rank.                                *)
RanksConserved == Abstract!RankConserved

(* WCC ends on its own, without a cap on the number of supersteps, after   *)
(* one more than there are vertices, and then no edge can lower a label    *)
(* any more: where compute has no cap the termination test is all that     *)
(* stops it.                                                               *)
WccSettles ==
  Algorithm = "wcc" =>
    <>[] ( /\ status = "finished"
           /\ iteration <= Cardinality(Vertices) + 2
           /\ \A e \in graph.edges :
                {e.src, e.dst} \subseteq Vertices =>
                  values[e.dst] <= values[e.src] )

============================================================================
