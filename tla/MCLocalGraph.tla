---------------------------- MODULE MCLocalGraph ----------------------------
(***************************************************************************)
(* Instances of LocalGraph: every directed graph on three vertices, with   *)
(* and without an edge to an id that is no vertex, over two partitions.     *)
(* Labels are loaded different from the ids, ranks equal.                  *)
(***************************************************************************)
EXTENDS LocalGraph

Ids == 1 .. 3

EdgesOf(pairs) == {[src |-> p[1], dst |-> p[2], key |-> p[2]] : p \in pairs}

Shapes ==
  {EdgesOf(pairs \cup dangling) :
     pairs \in SUBSET {p \in Ids \X Ids : p[1] # p[2]},
     dangling \in {{}, {<<3, 4>>}}}

LabelledGraphs ==
  {[vertices |-> [v \in Ids |-> v + 1], edges |-> s] : s \in Shapes}

RankedGraphs ==
  {[vertices |-> [v \in Ids |-> Unit], edges |-> s] : s \in Shapes}

Two == 1 .. 2

PartOf == [v \in 1 .. 4 |-> IF v = 2 THEN 2 ELSE 1]

============================================================================
