----------------------------- MODULE MCCluster -----------------------------
(***************************************************************************)
(* Instances of Cluster: WCC on Kite over three workers, PageRank on a     *)
(* path over two.                                                          *)
(***************************************************************************)
EXTENDS Cluster, TLC

Empty == [vertices |-> NoMail, edges |-> {}]

FreshStores == [w \in Worker |-> Empty]

EdgesOf(lines) ==
  {[src |-> lines[k][1], dst |-> lines[k][2], key |-> k] : k \in DOMAIN lines}

(* Three vertices in a row, both directions of every edge, those from the  *)
(* middle twice, so that the edges of one source take several batches; the *)
(* ends in one partition, the middle in the other, so that every message   *)
(* crosses partitions and one worker gets two targets.                     *)
PathEdges ==
  EdgesOf(<< <<1, 2>>, <<2, 1>>, <<2, 3>>, <<3, 2>>, <<2, 1>>, <<2, 3>> >>)

RankPath == [vertices |-> [v \in 1 .. 3 |-> Unit], edges |-> PathEdges]

TwoParts == [v \in 1 .. 3 |-> IF v = 2 THEN 2 ELSE 1]

(* Three partitions; vertex 4 sends to an id that is no vertex, and gets   *)
(* messages from two workers; worker 2 has two vertices, so that its inbox *)
(* takes several batches.                                                  *)
Kite == [vertices |-> [v \in 1 .. 4 |-> v],
         edges |-> EdgesOf(<< <<1, 4>>, <<2, 4>>, <<4, 1>>, <<4, 3>>, <<4, 5>> >>)]

ThreeParts == [v \in 1 .. 5 |-> CASE v = 1 -> 1 [] v = 4 -> 3 [] OTHER -> 2]

(* The same graph on two workers. *)
TwoOfThree == [v \in 1 .. 5 |-> IF v = 1 THEN 1 ELSE 2]

----------------------------------------------------------------------------
(* What the worker of partition w of p has in its database after k         *)
(* supersteps of an earlier run, and the messages of the last of them.     *)
StoreAfter(k, p, w) ==
  LET db == Abstract!After(Input, k).db
  IN  PutGraph(Empty, [ vertices |-> Restrict(db.vertices,
                                     {v \in DOMAIN db.vertices : p[v] = w}),
                        edges    |-> {e \in db.edges : p[e.src] = w} ], 1)

MailAfter(k, p, n) ==
  LET m == Abstract!After(Input, k).outbox
      stored == UNION {StoreAfter(k, p, w).edges : w \in 1 .. n}
      sent == {e \in stored : Plain(e) \in DOMAIN m}
  IN  [e \in sent |-> m[Plain(e)]]

(* An earlier run that ended. *)
UsedStores == [w \in Worker |-> StoreAfter(MaxIterations, Part, w)]

NoStart == [saved |-> NoCheckpoint, images |-> << >>]

Fresh == {NoStart}

(* The latest checkpoint is of superstep k and n workers, none if k = 0;   *)
(* the directories of later attempts are there at the workers in `left`.   *)
StartAfter(k, p, n, left) ==
  LET made(w) == ({k} \ {0}) \cup (IF w \in left THEN {k + Interval} ELSE {})
  IN  [ saved  |-> [ iteration |-> k, mail |-> MailAfter(k, p, n),
                     inboxes |-> [count |-> n, part |-> p] ],
        images |-> [w \in 1 .. n |-> [i \in made(w) |-> StoreAfter(i, p, w)]] ]

(* A job that starts, recovers, or recovers after an attempt that died     *)
(* while one of its workers had made its part of the next checkpoint.      *)
Recoveries ==
  {StartAfter(0, Part, N, {}), StartAfter(Interval, Part, N, {}),
   StartAfter(Interval, Part, N, {2})}

(* The instances but the rescaled one are jobs of their own data. *)
ASSUME OwnRunAssumption ==
  (\A s \in Starts : s.saved.inboxes.count = N) => OwnRun /\ OwnTypes

(* A job of three workers is recovered on those of this one. *)
Rescaled == {StartAfter(Interval, ThreeParts, 3, {})}

============================================================================
