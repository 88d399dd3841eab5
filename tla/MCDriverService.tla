-------------------------- MODULE MCDriverService --------------------------
(***************************************************************************)
(* Instances of DriverService: two workers and two submissions, under one  *)
(* id or two, so that two jobs run at a time and an id is used again.      *)
(***************************************************************************)
EXTENDS DriverService

============================================================================
