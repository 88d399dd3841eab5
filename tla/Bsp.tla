-------------------------------- MODULE Bsp --------------------------------
(***************************************************************************)
(* What a job promises: the synchronous vertex program, run by one         *)
(* sequential machine over the whole graph.  One step is one superstep;    *)
(* the job ends when a superstep sends nothing or when the iteration       *)
(* budget of the job is spent (DistributedDriver::execute, and the loop of *)
(* CycleScheduler::run without checkpoints).                               *)
(***************************************************************************)
EXTENDS VertexProgram

CONSTANTS
    Graphs,         \* the databases a job may be given: [vertices, edges]
    MaxIterations   \* the iteration budget of the job's AlgorithmSpec

VARIABLES
    graph,       \* the job's input, as loaded
    db,          \* the vertices and edges now
    mail,        \* messages sent by the last superstep
    teleport,    \* PageRankAlgorithm::teleport
    iteration,   \* the superstep to run next
    status       \* "running" or "finished"

vars == <<graph, db, mail, teleport, iteration, status>>

Init ==
  /\ graph \in Graphs
  /\ db = graph
  /\ mail = NoMail
  /\ teleport = NoTeleport
  /\ iteration = 1
  /\ status = "running"

(* Where a run over g is after k supersteps. *)
After(g, k) ==
  LET at[i \in 0 .. k] ==
        IF i = 0 THEN [db |-> g, outbox |-> NoMail, teleport |-> NoTeleport]
        ELSE LET s == at[i-1] IN ProcessSuperstep(s.db, s.outbox, s.teleport, i)
  IN  at[k]

(* A run that is taken up after k supersteps, whether messages are left or not. *)
InitAfter(k) ==
  /\ graph \in Graphs
  /\ LET s == After(graph, k)
     IN  db = s.db /\ mail = s.outbox /\ teleport = s.teleport
  /\ iteration = k + 1
  /\ status = "running"

Superstep ==
  /\ status = "running"
  /\ iteration <= MaxIterations
  /\ LET r == ProcessSuperstep(db, mail, teleport, iteration)
     IN  /\ db' = r.db
         /\ mail' = r.outbox
         /\ teleport' = r.teleport
         /\ status' = IF r.outbox = NoMail THEN "finished" ELSE "running"
  /\ iteration' = iteration + 1
  /\ UNCHANGED graph

BudgetSpent ==
  /\ status = "running"
  /\ iteration > MaxIterations
  /\ status' = "finished"
  /\ UNCHANGED <<graph, db, mail, teleport, iteration>>

Next == Superstep \/ BudgetSpent

Spec == Init /\ [][Next]_vars

ResumedSpec == (\E k \in 0 .. MaxIterations : InitAfter(k)) /\ [][Next]_vars

----------------------------------------------------------------------------
(* The ids whose label can have reached v over at most k edges of the      *)
(* loaded graph.  Only stored vertices send.                               *)
SourcesWithin(v, k) ==
  LET back[i \in 0 .. k] ==
        IF i = 0 THEN {v}
        ELSE back[i-1] \cup {e.src : e \in {d \in graph.edges :
                               /\ d.dst \in back[i-1]
                               /\ d.src \in DOMAIN graph.vertices}}
  IN  back[k]

(* After superstep k of WCC a vertex holds the least id that reaches it    *)
(* over at most k - 1 edges, whatever values the vertices were loaded with *)
(* and whatever the shape of the graph: no message is lost, sent twice to  *)
(* effect, or applied a superstep early or late (algorithm.rs, Wcc).       *)
WccLabelsExact ==
  Algorithm = "wcc" /\ iteration > 1 =>
    \A v \in DOMAIN db.vertices :
      db.vertices[v] = Min(SourcesWithin(v, iteration - 2))

(* PageRank on a graph without sinks, loaded with equal ranks, neither     *)
(* creates nor loses rank: the sum stays what was loaded, so every rank    *)
(* sent is received exactly once and the teleport is the loaded one.       *)
RankConserved ==
  /\ Algorithm = "pagerank"
  /\ \A v \in DOMAIN graph.vertices :
       \E e \in graph.edges : e.src = v
  /\ \A e \in graph.edges : e.dst \in DOMAIN graph.vertices
  /\ \A u, v \in DOMAIN graph.vertices : graph.vertices[u] = graph.vertices[v]
  => SumFunction(db.vertices) = SumFunction(graph.vertices)

============================================================================
