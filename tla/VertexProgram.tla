--------------------------- MODULE VertexProgram ---------------------------
(***************************************************************************)
(* The vertex programs a worker runs and what one superstep does to one    *)
(* partition: distributed/algorithm.rs (WCC, PageRank), process_superstep  *)
(* of distributed/worker.rs and the routing of shuffle/mod.rs.             *)
(*                                                                         *)
(* Vertices are identified by their u64 ids.  An edge is a record          *)
(* [src, dst, key]: key stands for the (nonce, index) suffix of the        *)
(* edge's RocksDB key, which keeps parallel edges apart.  A vertex program *)
(* sends at most one message along an out-edge in a superstep, so a        *)
(* multiset of messages is a function from edges to payloads, and the     *)
(* target of a message is the dst of its edge.                             *)
(*                                                                         *)
(* Labels of WCC are ids.  Ranks of PageRank are fixed-point numbers: Unit *)
(* stands for 1.0, and instances choose Unit so that every division they   *)
(* make is exact.  alpha is 1/2.                                           *)
(***************************************************************************)
EXTENDS Integers, FiniteSets, FiniteSetsExt, Functions

CONSTANTS
    Algorithm,   \* the job's AlgorithmSpec: "wcc" or "pagerank"
    Unit         \* the fixed-point representation of the rank 1.0

ASSUME AlgorithmAssumption == Algorithm \in {"wcc", "pagerank"}
ASSUME UnitAssumption == Unit \in Nat \ {0}

(* PageRankAlgorithm::teleport is None. *)
NoTeleport == -1

Damp(x) == x \div 2

NoMail == << >>

(* A HashMap into which the entries of another one are inserted. *)
Merge(old, new) ==
  [x \in DOMAIN old \cup DOMAIN new |-> IF x \in DOMAIN new THEN new[x]
                                                          ELSE old[x]]

(* Messages of a mailbox that are addressed to v: what a worker removes    *)
(* from its inbox map when it visits v.                                    *)
MailOf(mail, v) == Restrict(mail, {e \in DOMAIN mail : e.dst = v})

(* route_outbox: the inbox of a partition holds the messages whose targets *)
(* belong to it.  p maps every id to a partition.                          *)
RouteTo(mail, p, w) == Restrict(mail, {e \in DOMAIN mail : p[e.dst] = w})

----------------------------------------------------------------------------
(* Mutants of Wcc: superstep 1 keeps the loaded value; a label is sent on  *)
(* although it is no improvement.                                          *)
WccKeepsLoaded(v, value, msgs, iteration) ==
  LET best == Min({value} \cup Range(msgs))
  IN  [value |-> best,
       send  |-> IF iteration = 1 \/ best < value THEN {best} ELSE {}]

WccSendsAlways(v, value, msgs, iteration) ==
  LET best == Min({value} \cup Range(msgs))
  IN  IF iteration = 1
        THEN [value |-> v, send |-> {v}]
        ELSE [value |-> best, send |-> IF best <= value THEN {best} ELSE {}]

(* What compute_vertex returns: the vertex's value after the call and the  *)
(* payload put on each of its out-edges, as a set of at most one payload.  *)

Wcc(v, value, msgs, iteration) ==
  LET best == Min({value} \cup Range(msgs))
  IN  IF iteration = 1
        THEN [value |-> v, send |-> {v}]
        ELSE [value |-> best, send |-> IF best < value THEN {best} ELSE {}]

(* Mutant of PageRank: the whole rank goes along every edge. *)
PageRankUndivided(value, degree, msgs, teleport, iteration) ==
  LET base == IF teleport = NoTeleport THEN Unit - Damp(Unit) ELSE teleport
      rank == IF iteration = 1 THEN value
                               ELSE Damp(SumFunction(msgs)) + base
  IN  [value |-> rank, send |-> IF degree > 0 THEN {rank} ELSE {}]

PageRank(value, degree, msgs, teleport, iteration) ==
  LET base == IF teleport = NoTeleport THEN Unit - Damp(Unit) ELSE teleport
      rank == IF iteration = 1 THEN value
                               ELSE Damp(SumFunction(msgs)) + base
  IN  [value |-> rank, send |-> IF degree > 0 THEN {rank \div degree} ELSE {}]

ComputeVertex(v, value, degree, msgs, teleport, iteration) ==
  IF Algorithm = "wcc" THEN Wcc(v, value, msgs, iteration)
                       ELSE PageRank(value, degree, msgs, teleport, iteration)

(* The algorithm object's teleport once the vertices up to v were visited, *)
(* in id order: it is set once, from the first positive rank it meets.     *)
(* A scan goes by the little-endian bytes of the ids, which is the order   *)
(* of the ids below 256 that instances use.                                *)
TeleportAt(vertices, teleport, v) ==
  LET positive == {u \in DOMAIN vertices : u <= v /\ vertices[u] > 0}
  IN  IF Algorithm = "pagerank" /\ teleport = NoTeleport /\ positive # {}
        THEN LET first == vertices[Min(positive)] IN first - Damp(first)
        ELSE teleport

----------------------------------------------------------------------------
(* process_superstep: every stored vertex is visited once, with its        *)
(* messages; the updates are stored in one batch and the messages are      *)
(* returned.  Messages for ids the partition does not store are dropped.   *)
(* db is [vertices, edges].                                                *)
ProcessSuperstep(db, mail, teleport, iteration) ==
  LET out(v) == {e \in db.edges : e.src = v}
      result == [v \in DOMAIN db.vertices |->
                   ComputeVertex(v, db.vertices[v], Cardinality(out(v)),
                                 MailOf(mail, v),
                                 TeleportAt(db.vertices, teleport, v),
                                 iteration)]
      sent == {e \in db.edges :
                 e.src \in DOMAIN result /\ result[e.src].send # {}}
  IN  [ db       |-> [ vertices |-> [v \in DOMAIN db.vertices |-> result[v].value],
                       edges    |-> db.edges ],
        outbox   |-> [e \in sent |-> CHOOSE m \in result[e.src].send : TRUE],
        teleport |-> IF DOMAIN db.vertices = {} THEN teleport
                     ELSE TeleportAt(db.vertices, teleport,
                                     Max(DOMAIN db.vertices)) ]

============================================================================
