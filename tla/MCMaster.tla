------------------------------ MODULE MCMaster ------------------------------
(***************************************************************************)
(* Instances of Master: two workers, a heartbeat every other tick, and a   *)
(* time to live of exactly two periods and a delay: it spans one heartbeat *)
(* that is lost, and every comparison is taken to its limit.               *)
(***************************************************************************)
EXTENDS Master, TLC

Symmetry == Permutations(Worker)

============================================================================
