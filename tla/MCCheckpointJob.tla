-------------------------- MODULE MCCheckpointJob --------------------------
(***************************************************************************)
(* Instances of CheckpointJob: a path of five vertices, both directions of *)
(* every edge, its vertices alternating between two workers, so that every *)
(* message crosses partitions.  WCC needs five supersteps to converge and  *)
(* a sixth to fall silent.                                                 *)
(***************************************************************************)
EXTENDS CheckpointJob, SequencesExt

CONSTANTS w1, w2

Workers == {w1, w2}
Ids == 1 .. 5
PartOf == [v \in Ids |-> IF v % 2 = 1 THEN w1 ELSE w2]

PathEdges ==
  {[src |-> p[1], dst |-> p[2], key |-> 0] :
     p \in {q \in Ids \X Ids : q[1] - q[2] \in {-1, 1}}}

WccInput == [vertices |-> [v \in Ids |-> v], edges |-> PathEdges]
RankInput == [vertices |-> [v \in Ids |-> Unit], edges |-> PathEdges]

(* The uninterrupted run, superstep by superstep.  (The CHOOSE, of one     *)
(* value, has TLC evaluate a round once and not at every use.)             *)
ReferenceRun ==
  FoldLeft(LAMBDA run, k : run @@ (k :> CHOOSE r \in {Round(run[k-1], k)} : r = r),
           0 :> [ db       |-> [w \in Worker |-> Loaded(w)],
                  mail     |-> NoMail,
                  teleport |-> [w \in Worker |-> NoTeleport] ],
           [k \in Iteration |-> k])

(* TLC evaluates a named constant once, but what a .cfg substitutes for a  *)
(* CONSTANT at every use: hence the second name.                           *)
Reference == ReferenceRun

============================================================================
