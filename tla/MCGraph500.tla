----------------------------- MODULE MCGraph500 -----------------------------
(***************************************************************************)
(* An instance of Graph500: one dataset id that may be registered again    *)
(* with other files, jobs of none, one and two workers, one of which runs  *)
(* PageRank under both its names, and requests that are no JSON, no HTTP,  *)
(* too long, or not sent to the end.                                       *)
(***************************************************************************)
EXTENDS Graph500

CONSTANTS c1, d1

Clients == {c1}
Datasets == {d1}

Params == {"full", "short"}

Right == [kind \in Algorithms |-> [files |-> TRUE, truth |-> {"full"}]]
Flawed == [wcc |-> [files |-> TRUE, truth |-> {}], pr |-> [files |-> FALSE, truth |-> {}]]
Metas == {Right, Flawed}

Register(meta, valid) ==
  [call |-> "register", line |-> TRUE, header |-> 1, length |-> 1, sent |-> 2,
   valid |-> valid, dataset |-> d1, meta |-> meta]

Submit(workers, run, param, out) ==
  [call |-> "submit", line |-> TRUE, header |-> 1, length |-> 1, sent |-> 2,
   valid |-> TRUE, dataset |-> d1, workers |-> workers, run |-> run,
   param |-> [kind \in Algorithms |-> param], out |-> out]

Get(job, line, header, length, sent) ==
  [call |-> "get", line |-> line, header |-> header, length |-> length,
   sent |-> sent, valid |-> TRUE, job |-> job]

(* The last five: a header that fits just, with a body that may count as   *)
(* part of it; one that does not fit; a body that does not; one that is    *)
(* not sent; and a request line that is none.                              *)
Requests ==
  { Register(Right, TRUE), Register(Flawed, TRUE), Register(Right, FALSE),
    Submit(2, <<"pr">>, "full", TRUE), Submit(0, <<"wcc">>, "full", TRUE),
    Submit(1, <<"bfs", "pr", "pagerank">>, "full", TRUE),
    Submit(1, <<"wcc">>, "short", FALSE),
    Get(1, TRUE, 2, 1, 3), Get(1, TRUE, 3, 0, 3), Get(1, TRUE, 1, 2, 3),
    Get(2, TRUE, 1, 1, 1), Get(1, FALSE, 1, 0, 1) }

============================================================================
