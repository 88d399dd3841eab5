--------------------------- MODULE ClusterProofs ---------------------------
(***************************************************************************)
(* Theorems of Cluster, for every number of workers, graph, division of    *)
(* it, batch size, channel capacity, checkpoint interval, iteration budget *)
(* and number of crashes.                                                  *)
(***************************************************************************)
EXTENDS Cluster, VertexProgramProofs, SequenceTheorems, TLAPS

IsQueue(s) == s \in Seq(Range(s))

(* A frame that makes its worker answer. *)
Asking(f) ==
  \/ f.type \in {"LoadGraphBatch", "CreateCheckpoint", "LoadCheckpoint",
                 "FetchVertices", "DumpVerticesCsv"}
  \/ f.type = "SuperstepBatch" /\ f.last

(* What the driver asks in a phase, and what it is answered. *)
Question ==
  [loaded |-> "LoadGraphBatch", sealed |-> "LoadGraphBatch",
   restore |-> "LoadCheckpoint", restored |-> "LoadCheckpoint",
   checkpoint |-> "CreateCheckpoint", checkpointed |-> "CreateCheckpoint",
   send |-> "SuperstepBatch", receive |-> "SuperstepBatch",
   fetch |-> "FetchVertices", collect |-> "FetchVertices",
   dumped |-> "DumpVerticesCsv"]

Answer ==
  [handshake |-> "Ready",
   loaded |-> "GraphLoaded", sealed |-> "GraphLoaded",
   restore |-> "CheckpointLoaded", restored |-> "CheckpointLoaded",
   checkpoint |-> "CheckpointCreated", checkpointed |-> "CheckpointCreated",
   send |-> "SuperstepResultBatch", receive |-> "SuperstepResultBatch",
   fetch |-> "Vertices", collect |-> "Vertices",
   dumped |-> "VerticesDumped"]

(* The workers the driver has an answer to come from. *)
Owes(w) ==
  \/ phase \in {"handshake", "loaded", "sealed", "dumped"} /\ w = turn
  \/ phase \in {"restore", "checkpoint", "send", "fetch"} /\ w < turn
  \/ phase \in {"restored", "checkpointed", "collect"} /\ w >= turn
  \/ phase = "receive" /\ w >= turn /\ w <= inboxes.count

Gone(w) == workerState[w] = "exited"

NoQuestion(w) ==
  Gone(w) \/ \A i \in 1 .. Len(toWorker[w]) : ~Asking(toWorker[w][i])

Idle(w) ==
  /\ workerState[w] \notin {"accepted", "emitting"}
  /\ NoQuestion(w)
  /\ toDriver[w] = << >>

Asked(w) ==
  /\ toDriver[w] = << >>
  /\ \/ phase = "handshake" /\ workerState[w] = "accepted" /\ NoQuestion(w)
     \/ /\ phase # "handshake"
        /\ workerState[w] \notin {"accepted", "emitting", "exited"}
        /\ toWorker[w] # << >>
        /\ \A i \in 1 .. Len(toWorker[w]) :
             Asking(toWorker[w][i]) <=> i = Len(toWorker[w])
        /\ toWorker[w][Len(toWorker[w])].type = Question[phase]

(* What makes a worker answer Error. *)
FileCalls == {"restore", "restored", "checkpoint", "checkpointed", "dumped"}

ErrorDue(w) ==
  \/ phase \in FileCalls /\ w \in faulty
  \/ phase \in {"checkpoint", "checkpointed"} /\ iteration - 1 \in found[w]

Answered(w) ==
  /\ workerState[w] # "accepted"
  /\ NoQuestion(w)
  /\ \A i \in 1 .. Len(toDriver[w]) :
       \/ toDriver[w][i].type = Answer[phase]
       \/ toDriver[w][i].type = "Error" /\ ErrorDue(w)
  /\ IF phase \in {"send", "receive"}
       THEN \A i \in 1 .. Len(toDriver[w]) : toDriver[w][i].last =>
              i = Len(toDriver[w]) /\ workerState[w] # "emitting"
       ELSE Len(toDriver[w]) <= 1 /\ workerState[w] # "emitting"

TalkOK(w) == IF Owes(w) THEN Asked(w) \/ Answered(w) ELSE Idle(w)

----------------------------------------------------------------------------
(* Before the workers are told the algorithm. *)
Early == {"connect", "handshake", "load", "stream", "loaded", "seal", "sealed"}

Shape ==
  /\ DOMAIN toWorker = Worker /\ DOMAIN toDriver = Worker
  /\ DOMAIN workerState = Worker /\ DOMAIN algorithmSet = Worker
  /\ DOMAIN pendingIteration = Worker /\ DOMAIN pendingInbox = Worker
  /\ DOMAIN computed = Worker /\ DOMAIN images = Worker
  /\ \A w \in Worker : IsQueue(toWorker[w]) /\ IsQueue(toDriver[w])
  /\ turn \in 1 .. (N + 1)
  /\ iteration \in Nat \ {0}
  /\ saved.iteration \in Nat /\ saved.inboxes.count \in Nat
  /\ inboxes.count \in Nat
  /\ phase = "send" => turn <= inboxes.count + 1
  /\ phase \in Early \cup {"algorithm", "restore", "restored"} => iteration = 1
  /\ crashes \in Nat

(* The algorithm is there, or will be when n - 1 frames are handled. *)
Programmed(w, n) ==
  \/ algorithmSet[w]
  \/ \E j \in 1 .. (n - 1) : toWorker[w][j].type = "SetAlgorithm"

(* Messages of the round are on their way to w. *)
Fed(w) ==
  /\ phase \in {"send", "receive"}
  /\ \/ phase = "send" /\ w = turn /\ w <= inboxes.count
     \/ ~NoQuestion(w)

FrameOK(w, i) ==
  LET f == toWorker[w][i]
  IN  /\ f.type = "SuperstepBatch" => f.iteration = iteration /\ Fed(w)
      /\ f.type = "CreateCheckpoint" =>
           f.iteration = iteration - 1 /\ phase \in {"checkpoint", "checkpointed"}
      /\ f.type = "LoadCheckpoint" =>
           f.iteration = saved.iteration /\ phase \in {"restore", "restored"}
      /\ f.type = "Shutdown" => (phase = "shutdown" /\ w < turn) \/ phase = "done"
      /\ f.type \in {"SuperstepBatch", "DumpVerticesCsv"} => Programmed(w, i)

FramesOK(w) ==
  Gone(w) \/ \A i \in 1 .. Len(toWorker[w]) : FrameOK(w, i)

ProgramOK(w) ==
  \/ Gone(w)
  \/ phase \in Early
  \/ phase = "algorithm" /\ w >= turn
  \/ Programmed(w, Len(toWorker[w]) + 1)

(* Without a crash only a worker that was told to shut down is gone. *)
ExitOK(w) ==
  driverAlive /\ crashes = 0 /\ Gone(w) =>
    (phase = "shutdown" /\ w < turn) \/ phase = "done"

(* Directories the job made itself. *)
Made(w) == DOMAIN images[w] \ found[w]

ImagesOK(w) ==
  \A k \in Made(w) :
    /\ k \in Int
    /\ IF phase \in {"restore", "restored"} THEN k <= saved.iteration
                                            ELSE k <= iteration - 1
    /\ (\/ phase = "checkpoint" /\ w >= turn
        \/ phase \in {"checkpoint", "checkpointed"} /\ ~NoQuestion(w))
       => k < iteration - 1

ComputedOK(w) ==
  /\ phase \in {"restore", "restored"} =>
       ((\/ \E i \in 1 .. Len(toDriver[w]) :
               toDriver[w][i].type = "CheckpointLoaded"
         \/ phase = "restored" /\ w < turn)
        => computed[w] = saved.iteration)
  /\ phase \in {"send", "receive"} =>
       /\ computed[w] \in {iteration - 1, iteration}
       /\ (\/ toDriver[w] # << >>
           \/ workerState[w] = "emitting"
           \/ phase = "receive" /\ w < turn)
          => computed[w] = iteration
  /\ phase \notin {"restore", "restored", "send", "receive"} =>
       computed[w] = iteration - 1

----------------------------------------------------------------------------
(* m is part of r. *)
Within(m, r) == \A e \in DOMAIN m : e \in DOMAIN r /\ m[e] = r[e]

Inbox(w) == RouteTo(mail, inboxes.part, w)

Held(w) == IF pendingIteration[w] = iteration THEN pendingInbox[w] ELSE NoMail

Rest(w) == IF phase = "send" /\ w = turn THEN unsent ELSE NoMail

Batch(w, i) == toWorker[w][i].type = "SuperstepBatch"

Feeding(w) ==
  /\ pendingIteration[w] \in {0, iteration}
  /\ Within(Held(w), Inbox(w)) /\ Within(Rest(w), Inbox(w))
  /\ \A i \in 1 .. Len(toWorker[w]) :
       Batch(w, i) => Within(toWorker[w][i].inbox, Inbox(w))
  /\ \A e \in DOMAIN Inbox(w) :
       \/ e \in DOMAIN Held(w) \/ e \in DOMAIN Rest(w)
       \/ \E i \in 1 .. Len(toWorker[w]) :
            Batch(w, i) /\ e \in DOMAIN toWorker[w][i].inbox

BatchOK(w) ==
  Gone(w) \/ IF Fed(w) THEN Feeding(w) ELSE pendingIteration[w] = 0

WorkerOK(w) ==
  /\ TalkOK(w) /\ FramesOK(w) /\ ProgramOK(w) /\ ExitOK(w) /\ ImagesOK(w)
  /\ ComputedOK(w) /\ BatchOK(w)

IndInv == Shape /\ FailsOnlyForCause /\ \A w \in Worker : WorkerOK(w)

(* A sequence is a queue, whatever its frames are.                         *)
LEMMA SeqIsQueue ==
  ASSUME NEW S, NEW s \in Seq(S)
  PROVE  IsQueue(s)
<1>1. Len(s) \in Nat /\ s \in [1 .. Len(s) -> S] /\ DOMAIN s = 1 .. Len(s)
  BY LenProperties
<1>2. s \in [1 .. Len(s) -> Range(s)]
  BY <1>1 DEF Range
<1>3. \E n \in Nat : s \in [1 .. n -> Range(s)]
  BY <1>1, <1>2
<1>4. s \in Seq(Range(s))
  BY <1>3, SeqDef
<1>. QED  BY <1>4 DEF IsQueue

(* What becomes of a queue that a frame is put into or taken out of.       *)
LEMMA QueueAppend ==
  ASSUME NEW s, NEW f, IsQueue(s)
  PROVE  /\ IsQueue(Append(s, f))
         /\ Append(s, f) # << >>
         /\ Len(s) \in Nat /\ Len(Append(s, f)) = Len(s) + 1
         /\ \A i \in 1 .. Len(s) : Append(s, f)[i] = s[i]
         /\ Append(s, f)[Len(s) + 1] = f
<1>1. PICK S : S = Range(s) \cup {f}
  OBVIOUS
<1>2. s \in Seq(S) /\ f \in S
  <2>1. s \in [1 .. Len(s) -> Range(s)] /\ Len(s) \in Nat
    BY LenProperties DEF IsQueue
  <2>2. s \in [1 .. Len(s) -> S]
    BY <2>1, <1>1
  <2>3. \E n \in Nat : s \in [1 .. n -> S]
    BY <2>1, <2>2
  <2>. QED  BY <2>3, SeqDef, <1>1
<1>3. IsQueue(Append(s, f))
  BY <1>2, AppendProperties, SeqIsQueue
<1>. QED  BY <1>2, <1>3, AppendProperties, LenProperties

LEMMA QueueTail ==
  ASSUME NEW s, IsQueue(s), s # << >>
  PROVE  /\ IsQueue(Tail(s))
         /\ Len(s) \in Nat \ {0} /\ Len(Tail(s)) = Len(s) - 1
         /\ Head(s) = s[1]
         /\ \A i \in 1 .. (Len(s) - 1) : Tail(s)[i] = s[i + 1]
         /\ Len(s) = 1 => Tail(s) = << >>
<1>1. PICK S : S = Range(s) /\ s \in Seq(S)
  BY DEF IsQueue
<1>2. /\ Tail(s) \in Seq(S) /\ Len(Tail(s)) = Len(s) - 1
      /\ \A i \in 1 .. Len(Tail(s)) : Tail(s)[i] = s[i + 1]
  BY <1>1, HeadTailProperties
<1>3. Len(s) \in Nat \ {0}
  BY <1>1, EmptySeq
<1>4. Len(s) = 1 => Tail(s) = << >>
  <2>1. \A q \in Seq(S) : q # << >> => Len(q) \in Nat \ {0}
    BY EmptySeq
  <2>2. Tail(s) # << >> => Len(Tail(s)) \in Nat \ {0}
    BY <2>1, <1>2
  <2>. QED  BY <2>2, <1>2
<1>5. IsQueue(Tail(s))
  BY <1>2, SeqIsQueue
<1>. QED  BY <1>2, <1>3, <1>4, <1>5

LEMMA QueuePrefix ==
  ASSUME NEW s, IsQueue(s), NEW n \in 0 .. Len(s)
  PROVE  /\ IsQueue(SubSeq(s, 1, n))
         /\ Len(SubSeq(s, 1, n)) = n
         /\ \A i \in 1 .. n : SubSeq(s, 1, n)[i] = s[i]
         /\ SubSeq(s, 1, n) # << >> => s # << >>
<1>1. PICK S : S = Range(s) /\ s \in Seq(S)
  BY DEF IsQueue
<1>2. Len(s) \in Nat /\ \A i \in 1 .. Len(s) : s[i] \in S
  BY <1>1, LenProperties
<1>3. /\ SubSeq(s, 1, n) \in Seq(S)
      /\ Len(SubSeq(s, 1, n)) = n
      /\ \A i \in 1 .. n : SubSeq(s, 1, n)[i] = s[i]
  <2>1. 1 \in Int /\ n \in Int /\ \A i \in 1 .. n : s[i] \in S
    BY <1>2
  <2>2. /\ SubSeq(s, 1, n) \in Seq(S)
        /\ Len(SubSeq(s, 1, n)) = IF 1 <= n THEN n - 1 + 1 ELSE 0
        /\ \A i \in 1 .. (n - 1 + 1) : SubSeq(s, 1, n)[i] = s[1 + i - 1]
    BY <2>1, SubSeqProperties
  <2>3. \A i \in 1 .. n : SubSeq(s, 1, n)[i] = s[i]
    <3>. TAKE i \in 1 .. n
    <3>1. i \in 1 .. (n - 1 + 1) /\ 1 + i - 1 = i
      BY <1>2
    <3>. QED  BY <2>2, <3>1
  <2>. QED  BY <2>2, <2>3, <1>2
<1>4. IsQueue(SubSeq(s, 1, n))
  BY <1>3, SeqIsQueue
<1>5. SubSeq(s, 1, n) # << >> => s # << >>
  <2>. SUFFICES ASSUME s = << >> PROVE SubSeq(s, 1, n) = << >>
    OBVIOUS
  <2>1. n = 0
    BY EmptySeq
  <2>. QED  BY <2>1, <1>3, EmptySeq
<1>. QED  BY <1>3, <1>4, <1>5

LEMMA EmptyQueue == IsQueue(<< >>) /\ Len(<< >>) = 0 /\ DOMAIN NoMail = {}
BY DEF IsQueue, NoMail

LEMMA ShortQueue ==
  ASSUME NEW n
  PROVE  /\ n = 0 => 1 .. n = {}
         /\ n = 1 => \A i \in 1 .. n : i = 1
OBVIOUS

LEMMA InitShape ==
  ASSUME Init
  PROVE  Shape /\ \A w \in Worker : Made(w) = {}
<1>1. PICK s \in Starts :
        /\ saved = s.saved
        /\ images = [w \in Worker |-> IF w \in DOMAIN s.images THEN s.images[w]
                                                              ELSE << >>]
        /\ found = [w \in Worker |-> DOMAIN images[w]]
  BY Zenon DEF Init
<1>2. DOMAIN images = Worker /\ \A w \in Worker : Made(w) = {}
  BY <1>1 DEF Made
<1>3. saved.iteration \in Nat /\ saved.inboxes.count \in Nat
  BY <1>1, StartsAssumption
<1>4. /\ DOMAIN toWorker = Worker /\ DOMAIN toDriver = Worker
      /\ \A w \in Worker : IsQueue(toWorker[w]) /\ IsQueue(toDriver[w])
  BY EmptyQueue DEF Init
<1>5. /\ DOMAIN workerState = Worker /\ DOMAIN algorithmSet = Worker
      /\ DOMAIN pendingIteration = Worker /\ DOMAIN pendingInbox = Worker
      /\ DOMAIN computed = Worker
  BY DEF Init, WorkerInit
<1>6. phase = "connect" /\ turn = 1 /\ iteration = 1 /\ crashes = 0
  BY DEF Init, DriverInit
<1>7. inboxes.count = N
  BY DEF Init, DriverInit, OwnInboxes
<1>8. N \in Nat
  BY SizeAssumption
<1>9. turn \in 1 .. (N + 1) /\ iteration \in Nat \ {0} /\ crashes \in Nat
  BY <1>6, <1>8
<1>10. phase # "send"
  BY <1>6
<1>. QED  BY <1>2, <1>3, <1>4, <1>5, <1>6, <1>7, <1>8, <1>9, <1>10 DEF Shape

LEMMA InitIsInd == Init => IndInv
<1>. SUFFICES ASSUME Init PROVE IndInv
  OBVIOUS
<1>1. Shape /\ \A w \in Worker : Made(w) = {}
  BY InitShape
<1>2. FailsOnlyForCause
  BY DEF Init, DriverInit, FailsOnlyForCause
<1>3. ASSUME NEW w \in Worker PROVE WorkerOK(w)
  <2>1. /\ phase = "connect" /\ workerState[w] = "down" /\ toDriver[w] = << >>
        /\ toWorker[w] = << >> /\ pendingIteration[w] = 0 /\ computed[w] = 0
        /\ iteration = 1
    BY DEF Init, DriverInit, WorkerInit
  <2>2. 1 .. Len(toWorker[w]) = {} /\ ~Gone(w)
    BY <2>1, EmptyQueue, ShortQueue DEF Gone
  <2>3. NoQuestion(w)
    BY <2>2 DEF NoQuestion
  <2>4. TalkOK(w)
    BY <2>1, <2>3 DEF TalkOK, Owes, Idle
  <2>5. FramesOK(w)
    BY <2>2 DEF FramesOK
  <2>6. ProgramOK(w) /\ ExitOK(w)
    BY <2>1, <2>2 DEF ProgramOK, ExitOK, Early
  <2>7. ImagesOK(w)
    BY <1>1 DEF ImagesOK
  <2>8. ComputedOK(w)
    BY <2>1 DEF ComputedOK
  <2>9. BatchOK(w)
    BY <2>1 DEF BatchOK, Fed
  <2>. QED  BY <2>4, <2>5, <2>6, <2>7, <2>8, <2>9 DEF WorkerOK
<1>. QED  BY <1>1, <1>2, <1>3 DEF IndInv

----------------------------------------------------------------------------
(* What a step leaves alone. *)
SameWorker(w) ==
  /\ toWorker'[w] = toWorker[w] /\ toDriver'[w] = toDriver[w]
  /\ workerState'[w] = workerState[w] /\ algorithmSet'[w] = algorithmSet[w]
  /\ pendingIteration'[w] = pendingIteration[w]
  /\ pendingInbox'[w] = pendingInbox[w]
  /\ computed'[w] = computed[w] /\ images'[w] = images[w]

SameDriver ==
  /\ phase' = phase /\ turn' = turn /\ iteration' = iteration /\ mail' = mail
  /\ inboxes' = inboxes /\ unsent' = unsent /\ saved' = saved
  /\ found' = found

(* Processes that died stay so, and failures are not forgotten. *)
NoRevival ==
  /\ driverAlive' => driverAlive
  /\ crashes' = 0 => crashes = 0
  /\ faulty \subseteq faulty'

LEMMA Untouched ==
  ASSUME NEW w \in Worker, WorkerOK(w), SameWorker(w), SameDriver, NoRevival
  PROVE  WorkerOK(w)'
<1>. USE DEF SameWorker, SameDriver
<1>1. (Gone(w)' <=> Gone(w)) /\ (NoQuestion(w)' <=> NoQuestion(w))
  BY DEF Gone, NoQuestion
<1>2. (Owes(w)' <=> Owes(w)) /\ (Fed(w)' <=> Fed(w))
  BY <1>1 DEF Owes, Fed
<1>3. TalkOK(w)'
  <2>1. ErrorDue(w) => ErrorDue(w)'
    BY DEF NoRevival, ErrorDue
  <2>. QED  BY <1>1, <1>2, <2>1 DEF WorkerOK, TalkOK, Idle, Asked, Answered
<1>4. FramesOK(w)'
  BY <1>1, <1>2 DEF WorkerOK, FramesOK, FrameOK, Programmed
<1>5. ProgramOK(w)' /\ ExitOK(w)'
  BY <1>1, NoRevival DEF NoRevival, WorkerOK, ProgramOK, ExitOK, Programmed
<1>6. ImagesOK(w)' /\ ComputedOK(w)'
  BY <1>1 DEF WorkerOK, ImagesOK, Made, ComputedOK
<1>7. BatchOK(w)'
  BY <1>1, <1>2 DEF WorkerOK, BatchOK, Feeding, Held, Rest, Batch, Inbox
<1>. QED  BY <1>3, <1>4, <1>5, <1>6, <1>7 DEF WorkerOK

(* A frame that asks is the only one left when its worker gets to it.      *)
LEMMA AskedLast ==
  ASSUME NEW w \in Worker, Shape, WorkerOK(w), toWorker[w] # << >>,
         workerState[w] = "serving", Asking(Head(toWorker[w]))
  PROVE  /\ Owes(w) /\ phase # "handshake" /\ toDriver[w] = << >>
         /\ Head(toWorker[w]).type = Question[phase]
         /\ Tail(toWorker[w]) = << >> /\ Len(toWorker[w]) = 1
         /\ Head(toWorker[w]) = toWorker[w][1]
         /\ ~NoQuestion(w)
<1>1. /\ Head(toWorker[w]) = toWorker[w][1] /\ Len(toWorker[w]) \in Nat \ {0}
      /\ Len(toWorker[w]) = 1 => Tail(toWorker[w]) = << >>
  BY QueueTail DEF Shape
<1>2. ~NoQuestion(w)
  BY <1>1 DEF NoQuestion, Gone
<1>3. Owes(w) /\ Asked(w)
  BY <1>2 DEF WorkerOK, TalkOK, Idle, Answered
<1>4. 1 \in 1 .. Len(toWorker[w])
  BY <1>1
<1>5. Len(toWorker[w]) = 1 /\ phase # "handshake"
  BY <1>1, <1>2, <1>3, <1>4 DEF Asked
<1>. QED  BY <1>1, <1>2, <1>3, <1>5 DEF Asked

(* A worker handles a frame it does not answer.                            *)
LEMMA QuietTake ==
  ASSUME NEW w \in Worker, Shape, WorkerOK(w), toWorker[w] # << >>,
         workerState[w] = "serving", ~Asking(Head(toWorker[w])),
         toWorker'[w] = Tail(toWorker[w]), toDriver'[w] = toDriver[w],
         workerState'[w] = "serving", SameDriver, NoRevival,
         algorithmSet[w] => algorithmSet'[w],
         Head(toWorker[w]).type = "SetAlgorithm" => algorithmSet'[w],
         images'[w] = images[w], computed'[w] = computed[w]
  PROVE  /\ TalkOK(w)' /\ FramesOK(w)' /\ ProgramOK(w)' /\ ExitOK(w)'
         /\ ImagesOK(w)' /\ ComputedOK(w)'
         /\ Fed(w)' <=> Fed(w)
<1>. DEFINE q == toWorker[w]
<1>. USE DEF SameDriver
<1>1. /\ Head(q) = q[1] /\ Len(q) \in Nat \ {0} /\ Len(Tail(q)) = Len(q) - 1
      /\ \A i \in 1 .. (Len(q) - 1) : Tail(q)[i] = q[i + 1]
      /\ Len(q) = 1 => Tail(q) = << >>
  BY QueueTail DEF Shape
<1>2. /\ Len(toWorker'[w]) = Len(q) - 1
      /\ \A i \in 1 .. Len(toWorker'[w]) : toWorker'[w][i] = q[i + 1] /\ i + 1 \in 1 .. Len(q)
      /\ \A i \in 2 .. Len(q) : q[i] = toWorker'[w][i - 1] /\ i - 1 \in 1 .. Len(toWorker'[w])
  BY <1>1
<1>3. ~Gone(w) /\ ~Gone(w)'
  BY DEF Gone
<1>4. NoQuestion(w)' <=> NoQuestion(w)
  <2>1. \A i \in 1 .. Len(q) : i = 1 \/ i \in 2 .. Len(q)
    BY <1>1
  <2>2. ~Asking(q[1])
    BY <1>1
  <2>. QED  BY <2>1, <2>2, <1>2, <1>3 DEF NoQuestion, Asking
<1>5. (Owes(w)' <=> Owes(w)) /\ (Fed(w)' <=> Fed(w))
  BY <1>4 DEF Owes, Fed
<1>6. TalkOK(w)'
  <2>1. CASE Idle(w) /\ ~Owes(w)
    BY <2>1, <1>4, <1>5 DEF TalkOK, Idle, WorkerOK
  <2>2. CASE Answered(w) /\ Owes(w)
    <3>1. ErrorDue(w) => ErrorDue(w)'
      BY DEF NoRevival, ErrorDue
    <3>. QED  BY <2>2, <3>1, <1>4, <1>5 DEF TalkOK, Answered
  <2>3. CASE Asked(w) /\ Owes(w)
    <3>1. /\ toDriver[w] = << >> /\ phase # "handshake"
          /\ \A i \in 1 .. Len(q) : Asking(q[i]) <=> i = Len(q)
          /\ q[Len(q)].type = Question[phase]
      BY <2>3 DEF Asked
    <3>2. Len(q) > 1
      BY <3>1, <1>1
    <3>3. toWorker'[w] # << >> /\ toWorker'[w][Len(toWorker'[w])] = q[Len(q)]
      <4>1. PICK n : n = Len(toWorker'[w])
        OBVIOUS
      <4>2. PICK m : m = Len(q)
        OBVIOUS
      <4>3. m \in Nat /\ m > 1 /\ n = m - 1
        BY <4>1, <4>2, <1>1, <1>2, <3>2
      <4>4. n \in Nat \ {0}
        BY <4>3
      <4>5. n \in 1 .. n
        BY <4>4
      <4>6. n + 1 = Len(q)
        BY <4>2, <4>3
      <4>7. toWorker'[w][n] = q[n + 1]
        BY <4>1, <4>5, <1>2
      <4>8. toWorker'[w] # << >>
        BY <4>1, <4>4, EmptyQueue
      <4>. QED  BY <4>1, <4>5, <4>6, <4>7, <4>8
    <3>4. ASSUME NEW i \in 1 .. Len(toWorker'[w])
          PROVE  Asking(toWorker'[w][i]) <=> i = Len(toWorker'[w])
      <4>1. toWorker'[w][i] = q[i + 1] /\ i + 1 \in 1 .. Len(q)
        BY <1>2
      <4>2. Asking(q[i + 1]) <=> i + 1 = Len(q)
        BY <3>1, <4>1
      <4>3. i + 1 = Len(q) <=> i = Len(toWorker'[w])
        BY <1>1, <1>2
      <4>. QED  BY <4>1, <4>2, <4>3
    <3>5. Asked(w)'
      BY <3>1, <3>3, <3>4 DEF Asked, Asking
    <3>. QED  BY <3>5, <2>3, <1>5 DEF TalkOK
  <2>. QED  BY <2>1, <2>2, <2>3 DEF TalkOK, WorkerOK
<1>7. ASSUME NEW n \in 2 .. (Len(q) + 1), Programmed(w, n)
      PROVE  Programmed(w, n - 1)'
  <2>1. CASE algorithmSet[w]
    BY <2>1 DEF Programmed
  <2>2. CASE \E j \in 1 .. (n - 1) : q[j].type = "SetAlgorithm"
    <3>1. PICK j \in 1 .. (n - 1) : q[j].type = "SetAlgorithm"
      BY <2>2
    <3>2. CASE j = 1
      BY <3>1, <3>2, <1>1 DEF Programmed
    <3>3. CASE j # 1
      <4>1. j \in 2 .. Len(q) /\ j - 1 \in 1 .. (n - 1 - 1)
        BY <3>3, <1>1
      <4>2. toWorker'[w][j - 1].type = "SetAlgorithm"
        BY <4>1, <3>1, <1>2
      <4>. QED  BY <4>1, <4>2 DEF Programmed
    <3>. QED  BY <3>2, <3>3
  <2>. QED  BY <1>7, <2>1, <2>2 DEF Programmed
<1>8. FramesOK(w)'
  <2>1. \A i \in 1 .. Len(q) : FrameOK(w, i)
    BY <1>3 DEF WorkerOK, FramesOK
  <2>2. ASSUME NEW i \in 1 .. Len(toWorker'[w]) PROVE FrameOK(w, i)'
    <3>1. FrameOK(w, i + 1) /\ toWorker'[w][i] = q[i + 1]
      BY <2>1, <1>2
    <3>2. i + 1 \in 2 .. (Len(q) + 1) /\ (i + 1) - 1 = i
      BY <1>1, <1>2
    <3>3. Programmed(w, i + 1) => Programmed(w, i)'
      BY <3>2, <1>7
    <3>. QED  BY <3>1, <3>3, <1>5 DEF FrameOK
  <2>. QED  BY <2>2 DEF FramesOK
<1>9. ProgramOK(w)'
  <2>1. PICK n \in 1 .. Len(q) : n = Len(q)
    BY <1>1
  <2>2. n + 1 \in 2 .. (Len(q) + 1) /\ (n + 1) - 1 = n /\ n = Len(toWorker'[w]) + 1
    BY <2>1, <1>1, <1>2
  <2>3. Programmed(w, n + 1) => Programmed(w, n)'
    BY <2>2, <1>7
  <2>4. Programmed(w, n)' => Programmed(w, Len(toWorker[w]) + 1)'
    BY <2>2 DEF Programmed
  <2>5. Programmed(w, Len(toWorker[w]) + 1) => Programmed(w, n + 1)
    BY <2>1
  <2>. QED  BY <2>3, <2>4, <2>5, <1>3 DEF ProgramOK, WorkerOK
<1>10. ExitOK(w)' /\ ImagesOK(w)' /\ ComputedOK(w)'
  BY <1>3, <1>4 DEF WorkerOK, ExitOK, ImagesOK, Made, ComputedOK
<1>. QED  BY <1>5, <1>6, <1>8, <1>9, <1>10

(* A worker answers, if the driver is still there.                         *)
LEMMA AnsweringTake ==
  ASSUME NEW w \in Worker, NEW a, Shape, WorkerOK(w), toWorker[w] # << >>,
         workerState[w] = "serving", Asking(Head(toWorker[w])),
         Head(toWorker[w]).type # "SuperstepBatch",
         toWorker'[w] = Tail(toWorker[w]),
         toDriver'[w] = IF driverAlive THEN Append(toDriver[w], a) ELSE toDriver[w],
         workerState'[w] = "serving", SameDriver, NoRevival,
         a.type = Answer[phase] \/ (a.type = "Error" /\ ErrorDue(w)'),
         algorithmSet'[w] = algorithmSet[w],
         pendingIteration'[w] = pendingIteration[w]
  PROVE  /\ TalkOK(w)' /\ FramesOK(w)' /\ ProgramOK(w)' /\ ExitOK(w)' /\ BatchOK(w)'
         /\ phase \notin {"send", "receive", "handshake"}
         /\ NoQuestion(w)'
<1>. USE DEF SameDriver
<1>1. /\ Owes(w) /\ phase # "handshake" /\ toDriver[w] = << >>
      /\ Head(toWorker[w]).type = Question[phase]
      /\ Tail(toWorker[w]) = << >> /\ Len(toWorker[w]) = 1 /\ ~NoQuestion(w)
      /\ Head(toWorker[w]) = toWorker[w][1]
  BY AskedLast
<1>2. phase \notin {"send", "receive"}
  BY <1>1 DEF Question
<1>3. toWorker'[w] = << >> /\ ~Gone(w) /\ ~Gone(w)'
  BY <1>1 DEF Gone
<1>4. NoQuestion(w)' /\ FramesOK(w)'
  <2>1. Len(toWorker'[w]) = 0
    BY <1>3, EmptyQueue
  <2>2. 1 .. Len(toWorker'[w]) = {}
    BY <2>1, ShortQueue
  <2>. QED  BY <2>2 DEF NoQuestion, FramesOK
<1>5. toDriver'[w] = << >> \/ toDriver'[w] = <<a>>
  BY <1>1
<1>6. /\ Len(toDriver'[w]) <= 1
      /\ \A i \in 1 .. Len(toDriver'[w]) : toDriver'[w][i] = a
  <2>1. Len(<<a>>) = 1 /\ <<a>>[1] = a
    OBVIOUS
  <2>2. CASE toDriver'[w] = <<a>>
    <3>1. Len(toDriver'[w]) = 1 /\ toDriver'[w][1] = a
      BY <2>1, <2>2
    <3>2. \A i \in 1 .. Len(toDriver'[w]) : i = 1
      BY <3>1, ShortQueue
    <3>. QED  BY <3>1, <3>2
  <2>3. CASE toDriver'[w] = << >>
    <3>1. Len(toDriver'[w]) = 0 /\ 1 .. Len(toDriver'[w]) = {}
      BY <2>3, EmptyQueue, ShortQueue
    <3>. QED  BY <3>1
  <2>. QED  BY <2>2, <2>3, <1>5
<1>7. Answered(w)'
  BY <1>2, <1>4, <1>6 DEF Answered
<1>8. Owes(w)' /\ ~Fed(w) /\ ~Fed(w)'
  BY <1>1, <1>2, <1>4 DEF Owes, Fed
<1>9. TalkOK(w)'
  BY <1>7, <1>8 DEF TalkOK
<1>10. ProgramOK(w)' /\ ExitOK(w)'
  <2>1. CASE algorithmSet[w]
    BY <2>1, <1>3 DEF ProgramOK, Programmed, ExitOK
  <2>2. CASE ~algorithmSet[w]
    <3>1. \A j \in 1 .. 1 : j = 1
      OBVIOUS
    <3>2. toWorker[w][1].type # "SetAlgorithm"
      BY <1>1 DEF Asking
    <3>3. ~Programmed(w, Len(toWorker[w]) + 1)
      BY <2>2, <3>1, <3>2, <1>1 DEF Programmed
    <3>. QED  BY <3>3, <1>3 DEF ProgramOK, WorkerOK, ExitOK
  <2>. QED  BY <2>1, <2>2
<1>11. BatchOK(w)'
  BY <1>3, <1>8 DEF BatchOK, WorkerOK
<1>. QED  BY <1>1, <1>2, <1>4, <1>9, <1>10, <1>11

(* A worker that is gone owes nothing any more.                            *)
LEMMA Exits ==
  ASSUME NEW w \in Worker, Shape, WorkerOK(w), workerState'[w] = "exited",
         SameDriver, NoRevival, IsQueue(toDriver'[w]),
         Len(toDriver'[w]) <= Len(toDriver[w]),
         \A i \in 1 .. Len(toDriver'[w]) : toDriver'[w][i] = toDriver[w][i],
         toDriver'[w] # << >> => toDriver[w] # << >>,
         images'[w] = images[w], computed'[w] = computed[w],
         driverAlive' /\ crashes' = 0 =>
           (phase = "shutdown" /\ w < turn) \/ phase = "done"
  PROVE  WorkerOK(w)'
<1>. USE DEF SameDriver
<1>1. Gone(w)' /\ NoQuestion(w)'
  BY DEF Gone, NoQuestion
<1>2. Owes(w)' <=> Owes(w)
  BY DEF Owes
<1>3. TalkOK(w)'
  <2>1. CASE ~Owes(w)
    BY <2>1, <1>1, <1>2 DEF TalkOK, Idle, WorkerOK
  <2>2. CASE Owes(w) /\ Asked(w)
    <3>1. toDriver'[w] = << >>
      BY <2>2 DEF Asked
    <3>2. Answered(w)'
      BY <3>1, <1>1, EmptyQueue DEF Answered
    <3>. QED  BY <3>2, <2>2, <1>2 DEF TalkOK
  <2>3. CASE Owes(w) /\ Answered(w)
    <3>1. Len(toDriver'[w]) \in Nat /\ Len(toDriver[w]) \in Nat
      BY LenProperties DEF IsQueue, Shape
    <3>2. \A i \in 1 .. Len(toDriver'[w]) : i \in 1 .. Len(toDriver[w])
      BY <3>1
    <3>3. \A i \in 1 .. Len(toDriver'[w]) :
            \/ toDriver'[w][i].type = Answer[phase]
            \/ toDriver'[w][i].type = "Error" /\ ErrorDue(w)'
      <4>1. ErrorDue(w) => ErrorDue(w)'
        BY DEF NoRevival, ErrorDue
      <4>. QED  BY <3>2, <4>1, <2>3 DEF Answered
    <3>4. ASSUME phase \in {"send", "receive"}, NEW i \in 1 .. Len(toDriver'[w]),
                 toDriver'[w][i].last
          PROVE  i = Len(toDriver'[w])
      <4>1. i = Len(toDriver[w])
        BY <3>2, <3>4, <2>3 DEF Answered
      <4>. QED  BY <4>1, <3>1
    <3>5. phase \notin {"send", "receive"} => Len(toDriver'[w]) <= 1
      BY <3>1, <2>3 DEF Answered
    <3>6. Answered(w)'
      BY <3>3, <3>4, <3>5, <1>1 DEF Answered
    <3>. QED  BY <3>6, <2>3, <1>2 DEF TalkOK
  <2>. QED  BY <2>1, <2>2, <2>3 DEF TalkOK, WorkerOK
<1>4. FramesOK(w)' /\ ProgramOK(w)' /\ ExitOK(w)' /\ BatchOK(w)'
  BY <1>1 DEF FramesOK, ProgramOK, ExitOK, BatchOK
<1>5. ImagesOK(w)' /\ ComputedOK(w)'
  <2>1. \A i \in 1 .. Len(toDriver'[w]) : i \in 1 .. Len(toDriver[w])
    BY LenProperties DEF IsQueue, Shape
  <2>. QED  BY <1>1, <2>1 DEF WorkerOK, ImagesOK, Made, ComputedOK
<1>. QED  BY <1>3, <1>4, <1>5 DEF WorkerOK

----------------------------------------------------------------------------
(* The steps of a worker.                                                  *)
LEMMA BindOK ==
  ASSUME NEW w \in Worker, Shape, WorkerOK(w), Bind(w), SameDriver, NoRevival
  PROVE  WorkerOK(w)'
<1>. USE DEF SameDriver
<1>1. /\ workerState[w] = "down" /\ workerState'[w] = "listening"
      /\ toWorker' = toWorker /\ toDriver' = toDriver
      /\ algorithmSet' = algorithmSet /\ images' = images /\ computed' = computed
      /\ pendingIteration' = pendingIteration /\ pendingInbox' = pendingInbox
  BY DEF Bind, Becomes, channels, workerVars, Shape
<1>2. ~Gone(w) /\ ~Gone(w)' /\ (NoQuestion(w)' <=> NoQuestion(w))
  BY <1>1 DEF Gone, NoQuestion
<1>3. (Owes(w)' <=> Owes(w)) /\ (Fed(w)' <=> Fed(w))
  BY <1>2 DEF Owes, Fed
<1>4. TalkOK(w)'
  <2>1. ErrorDue(w) => ErrorDue(w)'
    BY DEF NoRevival, ErrorDue
  <2>. QED  BY <1>1, <1>2, <1>3, <2>1 DEF WorkerOK, TalkOK, Idle, Asked, Answered
<1>5. FramesOK(w)' /\ ProgramOK(w)' /\ ExitOK(w)'
  BY <1>1, <1>2, <1>3 DEF WorkerOK, FramesOK, FrameOK, Programmed, ProgramOK, ExitOK
<1>6. ImagesOK(w)' /\ ComputedOK(w)'
  BY <1>1, <1>2 DEF WorkerOK, ImagesOK, Made, ComputedOK
<1>7. BatchOK(w)'
  BY <1>1, <1>2, <1>3 DEF WorkerOK, BatchOK, Feeding, Held, Rest, Batch, Inbox
<1>. QED  BY <1>4, <1>5, <1>6, <1>7 DEF WorkerOK

LEMMA SendReadyOK ==
  ASSUME NEW w \in Worker, Shape, WorkerOK(w), SendReady(w), SameDriver, NoRevival
  PROVE  WorkerOK(w)'
<1>. USE DEF SameDriver
<1>1. /\ workerState[w] = "accepted" /\ workerState'[w] = "serving"
      /\ toWorker' = toWorker
      /\ toDriver'[w] = IF driverAlive THEN Append(toDriver[w], [type |-> "Ready"])
                                       ELSE toDriver[w]
      /\ algorithmSet' = algorithmSet /\ images' = images /\ computed' = computed
      /\ pendingIteration' = pendingIteration /\ pendingInbox' = pendingInbox
  BY DEF SendReady, Becomes, WorkerSends, workerVars, Shape
<1>2. Owes(w) /\ toDriver[w] = << >> /\ phase = "handshake" /\ NoQuestion(w)
  BY <1>1 DEF WorkerOK, TalkOK, Idle, Asked, Answered
<1>3. ~Gone(w) /\ ~Gone(w)' /\ NoQuestion(w)'
  BY <1>1, <1>2 DEF Gone, NoQuestion
<1>4. Owes(w)' /\ ~Fed(w) /\ ~Fed(w)'
  BY <1>2, <1>3 DEF Owes, Fed
<1>5. toDriver'[w] = << >> \/ toDriver'[w] = <<[type |-> "Ready"]>>
  BY <1>1, <1>2
<1>6. /\ Len(toDriver'[w]) <= 1
      /\ \A i \in 1 .. Len(toDriver'[w]) : toDriver'[w][i].type = "Ready"
  <2>1. CASE toDriver'[w] = <<[type |-> "Ready"]>>
    <3>1. Len(toDriver'[w]) = 1 /\ toDriver'[w][1].type = "Ready"
      BY <2>1
    <3>2. \A i \in 1 .. Len(toDriver'[w]) : i = 1
      BY <3>1, ShortQueue
    <3>. QED  BY <3>1, <3>2
  <2>2. CASE toDriver'[w] = << >>
    <3>1. Len(toDriver'[w]) = 0 /\ 1 .. Len(toDriver'[w]) = {}
      BY <2>2, EmptyQueue, ShortQueue
    <3>. QED  BY <3>1
  <2>. QED  BY <2>1, <2>2, <1>5
<1>7. TalkOK(w)'
  BY <1>1, <1>2, <1>3, <1>4, <1>6 DEF TalkOK, Answered, Answer
<1>8. FramesOK(w)' /\ ProgramOK(w)' /\ ExitOK(w)'
  BY <1>1, <1>2, <1>3, <1>4 DEF WorkerOK, FramesOK, FrameOK, Programmed, ProgramOK, ExitOK
<1>9. ImagesOK(w)' /\ ComputedOK(w)' /\ BatchOK(w)'
  BY <1>1, <1>2, <1>3, <1>4 DEF WorkerOK, ImagesOK, Made, ComputedOK, BatchOK
<1>. QED  BY <1>7, <1>8, <1>9 DEF WorkerOK

LEMMA LoadGraphOK ==
  ASSUME NEW w \in Worker, Shape, WorkerOK(w), SameDriver, NoRevival,
         LoadGraph(w) \/ SetAlgorithm(w)
  PROVE  WorkerOK(w)'
<1>1. /\ workerState[w] = "serving" /\ workerState'[w] = "serving"
      /\ toWorker[w] # << >> /\ toWorker'[w] = Tail(toWorker[w])
      /\ toDriver'[w] = toDriver[w]
      /\ Head(toWorker[w]).type \in {"LoadGraph", "SetAlgorithm"}
      /\ algorithmSet[w] => algorithmSet'[w]
      /\ Head(toWorker[w]).type = "SetAlgorithm" => algorithmSet'[w]
      /\ images'[w] = images[w] /\ computed'[w] = computed[w]
      /\ pendingIteration'[w] = pendingIteration[w]
      /\ pendingInbox'[w] = pendingInbox[w]
  BY DEF LoadGraph, SetAlgorithm, Receives, WorkerTakes, Shape
<1>2. ~Asking(Head(toWorker[w]))
  BY <1>1 DEF Asking
<1>3. /\ TalkOK(w)' /\ FramesOK(w)' /\ ProgramOK(w)' /\ ExitOK(w)'
      /\ ImagesOK(w)' /\ ComputedOK(w)'
      /\ Fed(w)' <=> Fed(w)
  BY <1>1, <1>2, QuietTake
<1>4. BatchOK(w)'
  <2>. DEFINE q == toWorker[w]
  <2>1. /\ Head(q) = q[1] /\ Len(q) \in Nat \ {0} /\ Len(Tail(q)) = Len(q) - 1
        /\ \A i \in 1 .. (Len(q) - 1) : Tail(q)[i] = q[i + 1]
    BY <1>1, QueueTail DEF Shape
  <2>2. /\ \A i \in 1 .. Len(toWorker'[w]) : toWorker'[w][i] = q[i + 1] /\ i + 1 \in 1 .. Len(q)
        /\ \A i \in 2 .. Len(q) : q[i] = toWorker'[w][i - 1] /\ i - 1 \in 1 .. Len(toWorker'[w])
    BY <1>1, <2>1
  <2>3. ~Gone(w)
    BY <1>1 DEF Gone
  <2>4. CASE ~Fed(w)
    BY <2>3, <2>4, <1>1, <1>3 DEF WorkerOK, BatchOK
  <2>5. CASE Fed(w)
    <3>1. Feeding(w)
      BY <2>3, <2>5 DEF WorkerOK, BatchOK
    <3>2. Held(w)' = Held(w) /\ Rest(w)' = Rest(w) /\ Inbox(w)' = Inbox(w)
      BY <1>1 DEF SameDriver, Held, Rest, Inbox
    <3>3. \A i \in 1 .. Len(toWorker'[w]) :
            Batch(w, i)' => Within(toWorker'[w][i].inbox, Inbox(w))
      BY <2>2, <3>1 DEF Feeding, Batch
    <3>4. ASSUME NEW e \in DOMAIN Inbox(w), e \notin DOMAIN Held(w),
                 e \notin DOMAIN Rest(w)
          PROVE  \E i \in 1 .. Len(toWorker'[w]) :
                   Batch(w, i)' /\ e \in DOMAIN toWorker'[w][i].inbox
      <4>1. PICK i \in 1 .. Len(q) : Batch(w, i) /\ e \in DOMAIN q[i].inbox
        BY <3>1, <3>4 DEF Feeding
      <4>2. i # 1
        BY <4>1, <2>1, <1>1 DEF Batch
      <4>3. i \in 2 .. Len(q)
        BY <4>2, <2>1
      <4>. QED  BY <4>1, <4>3, <2>2 DEF Batch
    <3>5. pendingIteration'[w] \in {0, iteration'}
      BY <3>1, <1>1 DEF Feeding, SameDriver
    <3>6. Within(Held(w), Inbox(w))' /\ Within(Rest(w), Inbox(w))'
      BY <3>1, <3>2 DEF Feeding, Within
    <3>7. Feeding(w)'
      BY <3>2, <3>3, <3>4, <3>5, <3>6 DEF Feeding, Within
    <3>. QED  BY <3>7, <2>5, <1>3 DEF BatchOK
  <2>. QED  BY <2>4, <2>5
<1>. QED  BY <1>3, <1>4 DEF WorkerOK

LEMMA ShutdownOK ==
  ASSUME NEW w \in Worker, Shape, WorkerOK(w), SameDriver, NoRevival,
         Shutdown(w) \/ LosesDriver(w)
  PROVE  WorkerOK(w)'
<1>1. /\ workerState[w] # "exited" /\ workerState'[w] = "exited"
      /\ toDriver'[w] = toDriver[w]
      /\ images'[w] = images[w] /\ computed'[w] = computed[w]
  BY DEF Shutdown, LosesDriver, Becomes, workerVars, channels, Shape
<1>2. CASE Shutdown(w)
  <2>1. toWorker[w] # << >> /\ Head(toWorker[w]).type = "Shutdown"
    BY <1>2 DEF Shutdown, Receives
  <2>2. Head(toWorker[w]) = toWorker[w][1] /\ 1 \in 1 .. Len(toWorker[w])
    BY <2>1, QueueTail DEF Shape
  <2>3. (phase = "shutdown" /\ w < turn) \/ phase = "done"
    BY <1>1, <2>1, <2>2 DEF WorkerOK, FramesOK, FrameOK, Gone
  <2>. QED  BY <1>1, <2>3, Exits DEF Shape
<1>3. CASE LosesDriver(w)
  <2>1. ~driverAlive'
    BY <1>3 DEF LosesDriver
  <2>. QED  BY <1>1, <2>1, Exits DEF Shape
<1>. QED  BY <1>2, <1>3

(* The parts of an assembled inbox stay parts of the one that was routed.  *)
LEMMA KeepBatchOK ==
  ASSUME NEW w \in Worker, Shape, WorkerOK(w), KeepBatch(w), SameDriver, NoRevival
  PROVE  WorkerOK(w)'
<1>. DEFINE q == toWorker[w]
            b == Head(toWorker[w])
<1>1. /\ workerState[w] = "serving" /\ workerState'[w] = "serving"
      /\ q # << >> /\ toWorker'[w] = Tail(q)
      /\ toDriver'[w] = toDriver[w]
      /\ b.type = "SuperstepBatch" /\ ~b.last
      /\ algorithmSet'[w] = algorithmSet[w]
      /\ images'[w] = images[w] /\ computed'[w] = computed[w]
      /\ pendingIteration'[w] = b.iteration
      /\ pendingInbox'[w] = Assembled(w, b)
  BY DEF KeepBatch, Receives, WorkerTakes, Shape
<1>2. ~Asking(b)
  BY <1>1 DEF Asking
<1>3. /\ TalkOK(w)' /\ FramesOK(w)' /\ ProgramOK(w)' /\ ExitOK(w)'
      /\ ImagesOK(w)' /\ ComputedOK(w)'
      /\ Fed(w)' <=> Fed(w)
  BY <1>1, <1>2, QuietTake
<1>4. /\ b = q[1] /\ Len(q) \in Nat \ {0} /\ Len(Tail(q)) = Len(q) - 1
      /\ \A i \in 1 .. (Len(q) - 1) : Tail(q)[i] = q[i + 1]
  BY <1>1, QueueTail DEF Shape
<1>5. /\ \A i \in 1 .. Len(toWorker'[w]) : toWorker'[w][i] = q[i + 1] /\ i + 1 \in 1 .. Len(q)
      /\ \A i \in 2 .. Len(q) : q[i] = toWorker'[w][i - 1] /\ i - 1 \in 1 .. Len(toWorker'[w])
  BY <1>1, <1>4
<1>6. ~Gone(w) /\ 1 \in 1 .. Len(q)
  BY <1>1, <1>4 DEF Gone
<1>7. FrameOK(w, 1)
  BY <1>6 DEF WorkerOK, FramesOK
<1>8. b.iteration = iteration /\ Fed(w)
  BY <1>1, <1>4, <1>7 DEF FrameOK
<1>9. Feeding(w)
  BY <1>6, <1>8 DEF WorkerOK, BatchOK
<1>10. /\ DOMAIN Held(w)' = DOMAIN Held(w) \cup DOMAIN b.inbox
       /\ \A e \in DOMAIN Held(w)' :
            Held(w)'[e] = IF e \in DOMAIN b.inbox THEN b.inbox[e] ELSE Held(w)[e]
  <2>1. Held(w)' = Merge(Held(w), b.inbox)
    BY <1>1, <1>8 DEF Held, Assembled, SameDriver
  <2>. QED  BY <2>1 DEF Merge
<1>11. Rest(w)' = Rest(w) /\ Inbox(w)' = Inbox(w)
  BY DEF SameDriver, Rest, Inbox
<1>12. Within(b.inbox, Inbox(w))
  BY <1>1, <1>4, <1>6, <1>9 DEF Feeding, Batch
<1>13. Within(Held(w), Inbox(w))' /\ Within(Rest(w), Inbox(w))'
  BY <1>9, <1>10, <1>11, <1>12 DEF Feeding, Within
<1>14. ASSUME NEW i \in 1 .. Len(toWorker'[w]), Batch(w, i)'
       PROVE  Within(toWorker'[w][i].inbox, Inbox(w))
  BY <1>5, <1>9, <1>14 DEF Feeding, Batch
<1>15. ASSUME NEW e \in DOMAIN Inbox(w), e \notin DOMAIN Held(w)',
              e \notin DOMAIN Rest(w)
       PROVE  \E i \in 1 .. Len(toWorker'[w]) :
                Batch(w, i)' /\ e \in DOMAIN toWorker'[w][i].inbox
  <2>1. e \notin DOMAIN Held(w) /\ e \notin DOMAIN b.inbox
    BY <1>10, <1>15
  <2>2. PICK i \in 1 .. Len(q) : Batch(w, i) /\ e \in DOMAIN q[i].inbox
    BY <1>9, <1>15, <2>1 DEF Feeding
  <2>3. i # 1
    BY <2>1, <2>2, <1>4
  <2>4. i \in 2 .. Len(q)
    BY <2>3, <1>4
  <2>. QED  BY <2>2, <2>4, <1>5 DEF Batch
<1>16. pendingIteration'[w] = iteration'
  BY <1>1, <1>8 DEF SameDriver
<1>17. Feeding(w)'
  BY <1>11, <1>13, <1>14, <1>15, <1>16 DEF Feeding, Within
<1>18. BatchOK(w)'
  BY <1>3, <1>8, <1>17 DEF BatchOK
<1>. QED  BY <1>3, <1>18 DEF WorkerOK

(* A superstep begins at the driver's iteration, with all of its inbox.    *)
LEMMA SuperstepBegins ==
  ASSUME NEW w \in Worker, Shape, WorkerOK(w), ComputeSuperstep(w)
  PROVE  /\ phase \in {"send", "receive"} /\ Owes(w)
         /\ algorithmSet[w] /\ toDriver[w] = << >>
         /\ Tail(toWorker[w]) = << >>
         /\ Head(toWorker[w]).iteration = iteration
         /\ Assembled(w, Head(toWorker[w])) = Inbox(w)
<1>. DEFINE q == toWorker[w]
            b == Head(toWorker[w])
<1>1. /\ workerState[w] = "serving" /\ q # << >>
      /\ b.type = "SuperstepBatch" /\ b.last
  BY DEF ComputeSuperstep, Receives
<1>2. Asking(b)
  BY <1>1 DEF Asking
<1>3. /\ Owes(w) /\ phase # "handshake" /\ toDriver[w] = << >>
      /\ b.type = Question[phase]
      /\ Tail(q) = << >> /\ Len(q) = 1 /\ b = q[1]
      /\ ~NoQuestion(w)
  BY <1>1, <1>2, AskedLast
<1>4. \A i \in 1 .. Len(q) : i = 1
  BY <1>3, ShortQueue
<1>5. ~Gone(w) /\ 1 \in 1 .. Len(q)
  BY <1>1, <1>3 DEF Gone
<1>6. FrameOK(w, 1)
  BY <1>5 DEF WorkerOK, FramesOK
<1>7. b.iteration = iteration /\ Fed(w) /\ Programmed(w, 1)
  BY <1>1, <1>3, <1>6 DEF FrameOK
<1>8. algorithmSet[w]
  BY <1>7, ShortQueue DEF Programmed
<1>9. phase \in {"send", "receive"}
  BY <1>7 DEF Fed
<1>10. Feeding(w)
  BY <1>5, <1>7 DEF WorkerOK, BatchOK
<1>11. DOMAIN Rest(w) = {}
  BY <1>3, EmptyQueue DEF Rest, Owes, Worker, Shape
<1>12. DOMAIN Inbox(w) \subseteq DOMAIN Held(w) \cup DOMAIN b.inbox
  BY <1>3, <1>4, <1>10, <1>11 DEF Feeding
<1>13. Within(b.inbox, Inbox(w)) /\ Within(Held(w), Inbox(w))
  BY <1>1, <1>3, <1>5, <1>10 DEF Feeding, Batch
<1>14. Assembled(w, b) = Merge(Held(w), b.inbox)
  BY <1>7 DEF Assembled, Held
<1>15. Merge(Held(w), b.inbox) = Inbox(w)
  <2>1. DOMAIN Held(w) \cup DOMAIN b.inbox = DOMAIN Inbox(w)
    BY <1>12, <1>13 DEF Within
  <2>2. \A e \in DOMAIN Inbox(w) :
          (IF e \in DOMAIN b.inbox THEN b.inbox[e] ELSE Held(w)[e]) = Inbox(w)[e]
    BY <2>1, <1>13 DEF Within
  <2>3. Merge(Held(w), b.inbox) = [e \in DOMAIN Inbox(w) |-> Inbox(w)[e]]
    BY <2>1, <2>2 DEF Merge
  <2>4. Inbox(w) = [e \in DOMAIN Inbox(w) |-> Inbox(w)[e]]
    BY DEF Inbox, RouteTo, Restrict
  <2>. QED  BY <2>3, <2>4
<1>. QED  BY <1>3, <1>7, <1>8, <1>9, <1>14, <1>15

LEMMA ComputeSuperstepOK ==
  ASSUME NEW w \in Worker, Shape, WorkerOK(w), ComputeSuperstep(w), SameDriver,
         NoRevival
  PROVE  WorkerOK(w)'
<1>1. /\ phase \in {"send", "receive"} /\ Owes(w)
      /\ algorithmSet[w] /\ toDriver[w] = << >>
      /\ Tail(toWorker[w]) = << >>
      /\ Head(toWorker[w]).iteration = iteration
  BY SuperstepBegins
<1>2. /\ workerState'[w] = "emitting" /\ toWorker'[w] = << >>
      /\ toDriver'[w] = << >> /\ computed'[w] = iteration
      /\ pendingIteration'[w] = 0 /\ algorithmSet'[w] /\ images'[w] = images[w]
  BY <1>1 DEF ComputeSuperstep, WorkerTakes, Becomes, Shape
<1>3. Len(toWorker'[w]) = 0 /\ 1 .. Len(toWorker'[w]) = {}
      /\ Len(toDriver'[w]) = 0 /\ 1 .. Len(toDriver'[w]) = {}
  BY <1>2, EmptyQueue, ShortQueue
<1>4. NoQuestion(w)' /\ FramesOK(w)' /\ ~Gone(w)'
  BY <1>2, <1>3 DEF NoQuestion, FramesOK, Gone
<1>5. Answered(w)'
  BY <1>1, <1>2, <1>3, <1>4 DEF Answered, SameDriver
<1>6. Owes(w)' /\ ~Fed(w)'
  <2>1. Owes(w)'
    BY <1>1 DEF Owes, SameDriver
  <2>2. ~(phase = "send" /\ w = turn)
    BY <1>1 DEF Owes, Shape, Worker
  <2>. QED  BY <2>1, <2>2, <1>4 DEF Fed, SameDriver
<1>7. ProgramOK(w)' /\ ExitOK(w)' /\ TalkOK(w)' /\ BatchOK(w)'
  BY <1>2, <1>4, <1>5, <1>6 DEF ProgramOK, Programmed, ExitOK, TalkOK, BatchOK
<1>8. ImagesOK(w)' /\ ComputedOK(w)'
  BY <1>1, <1>2 DEF WorkerOK, ImagesOK, Made, ComputedOK, SameDriver
<1>. QED  BY <1>4, <1>7, <1>8 DEF WorkerOK

LEMMA EmitBatchOK ==
  ASSUME NEW w \in Worker, Shape, WorkerOK(w), EmitBatch(w), SameDriver, NoRevival
  PROVE  WorkerOK(w)'
<1>1. PICK f : /\ f.type = "SuperstepResultBatch"
               /\ toDriver'[w] = IF driverAlive THEN Append(toDriver[w], f)
                                                ELSE toDriver[w]
               /\ workerState'[w] = IF f.last THEN "serving" ELSE "emitting"
  <2>1. PICK batch \in NextBatch(DOMAIN outbox[w]) :
          /\ WorkerSends(w, [ type   |-> "SuperstepResultBatch",
                              outbox |-> Restrict(outbox[w], batch),
                              last   |-> DOMAIN outbox[w] \ batch = {} ])
          /\ Becomes(w, IF DOMAIN outbox[w] \ batch = {} THEN "serving"
                                                         ELSE "emitting")
    BY DEF EmitBatch
  <2>2. PICK f : f = [ type   |-> "SuperstepResultBatch",
                       outbox |-> Restrict(outbox[w], batch),
                       last   |-> DOMAIN outbox[w] \ batch = {} ]
    OBVIOUS
  <2>3. toDriver'[w] = IF driverAlive THEN Append(toDriver[w], f) ELSE toDriver[w]
    BY <2>1, <2>2 DEF WorkerSends, Shape
  <2>4. workerState'[w] = IF DOMAIN outbox[w] \ batch = {} THEN "serving"
                                                           ELSE "emitting"
    BY <2>1 DEF Becomes, Shape
  <2>5. f.type = "SuperstepResultBatch" /\ f.last = (DOMAIN outbox[w] \ batch = {})
    BY <2>2
  <2>. QED  BY <2>3, <2>4, <2>5
<1>2. /\ workerState[w] = "emitting" /\ toWorker'[w] = toWorker[w]
      /\ algorithmSet'[w] = algorithmSet[w] /\ images'[w] = images[w]
      /\ computed'[w] = computed[w]
      /\ pendingIteration'[w] = pendingIteration[w]
      /\ pendingInbox'[w] = pendingInbox[w]
  BY DEF EmitBatch
<1>3. Owes(w) /\ Answered(w) /\ phase \in {"send", "receive"}
  BY <1>2 DEF WorkerOK, TalkOK, Idle, Asked, Answered
<1>4. ~Gone(w) /\ ~Gone(w)' /\ (NoQuestion(w)' <=> NoQuestion(w))
  BY <1>1, <1>2 DEF Gone, NoQuestion
<1>5. (Owes(w)' <=> Owes(w)) /\ (Fed(w)' <=> Fed(w))
  BY <1>4 DEF Owes, Fed, SameDriver
<1>6. computed[w] = iteration
  BY <1>2, <1>3 DEF WorkerOK, ComputedOK
<1>7. \A i \in 1 .. Len(toDriver[w]) :
        toDriver[w][i].type = "SuperstepResultBatch" /\ ~toDriver[w][i].last
  BY <1>2, <1>3 DEF Answered, Answer, ErrorDue, FileCalls
<1>8. Answered(w)'
  <2>1. CASE ~driverAlive
    <3>1. toDriver'[w] = toDriver[w]
      BY <1>1, <2>1
    <3>2. workerState'[w] # "accepted"
      BY <1>1
    <3>. QED  BY <3>1, <3>2, <1>3, <1>4, <1>7 DEF Answered, Answer, SameDriver
  <2>2. CASE driverAlive
    <3>1. toDriver'[w] = Append(toDriver[w], f)
      BY <1>1, <2>2
    <3>2. /\ Len(toDriver[w]) \in Nat /\ Len(toDriver'[w]) = Len(toDriver[w]) + 1
          /\ \A i \in 1 .. Len(toDriver[w]) : toDriver'[w][i] = toDriver[w][i]
          /\ toDriver'[w][Len(toDriver[w]) + 1] = f
      BY <3>1, QueueAppend DEF Shape
    <3>3. \A i \in 1 .. Len(toDriver'[w]) :
            i \in 1 .. Len(toDriver[w]) \/ i = Len(toDriver[w]) + 1
      BY <3>2
    <3>4. \A i \in 1 .. Len(toDriver'[w]) :
            /\ toDriver'[w][i].type = "SuperstepResultBatch"
            /\ toDriver'[w][i].last => i = Len(toDriver'[w]) /\ workerState'[w] = "serving"
      BY <1>1, <1>7, <3>2, <3>3
    <3>5. workerState'[w] # "accepted"
      BY <1>1
    <3>. QED  BY <3>4, <3>5, <1>3, <1>4 DEF Answered, Answer, SameDriver
  <2>. QED  BY <2>1, <2>2
<1>9. TalkOK(w)'
  BY <1>3, <1>5, <1>8 DEF TalkOK
<1>10. FramesOK(w)' /\ ProgramOK(w)' /\ ExitOK(w)'
  BY <1>2, <1>4, <1>5 DEF WorkerOK, FramesOK, FrameOK, Programmed, ProgramOK, ExitOK,
     SameDriver
<1>11. ImagesOK(w)' /\ ComputedOK(w)'
  BY <1>2, <1>3, <1>4, <1>6 DEF WorkerOK, ImagesOK, Made, ComputedOK, SameDriver
<1>12. BatchOK(w)'
  BY <1>2, <1>4, <1>5 DEF WorkerOK, BatchOK, Feeding, Held, Rest, Batch, Inbox,
     SameDriver
<1>. QED  BY <1>9, <1>10, <1>11, <1>12 DEF WorkerOK

(* The answers that leave the database and its directories as they are.    *)
LEMMA FetchOK ==
  ASSUME NEW w \in Worker, Shape, WorkerOK(w), SameDriver, NoRevival,
         LoadGraphBatch(w) \/ FetchVertices(w) \/ DumpVerticesCsv(w)
  PROVE  WorkerOK(w)'
<1>. DEFINE q == toWorker[w]
            b == Head(toWorker[w])
<1>1. /\ workerState[w] = "serving" /\ workerState'[w] = "serving"
      /\ q # << >> /\ toWorker'[w] = Tail(q)
      /\ b.type \in {"LoadGraphBatch", "FetchVertices", "DumpVerticesCsv"}
      /\ images'[w] = images[w] /\ computed'[w] = computed[w]
      /\ algorithmSet'[w] = algorithmSet[w]
      /\ pendingIteration'[w] = pendingIteration[w]
  BY DEF LoadGraphBatch, FetchVertices, DumpVerticesCsv, Receives, WorkerTakes,
     workerVars, Shape
<1>2. Asking(b) /\ b.type # "SuperstepBatch"
  BY <1>1 DEF Asking
<1>3. /\ Owes(w) /\ phase # "handshake" /\ b.type = Question[phase]
      /\ b = q[1] /\ Len(q) = 1
  BY <1>1, <1>2, AskedLast
<1>4. phase \in {"loaded", "sealed", "fetch", "collect", "dumped"}
  BY <1>1, <1>3 DEF Question, Owes
<1>5. PICK a : /\ a.type = Answer[phase]
               /\ toDriver'[w] = IF driverAlive THEN Append(toDriver[w], a)
                                                ELSE toDriver[w]
  <2>1. CASE LoadGraphBatch(w)
    <3>1. PICK a : /\ a = [type |-> "GraphLoaded", last |-> b.last]
                   /\ WorkerSends(w, a)
      BY <2>1 DEF LoadGraphBatch
    <3>2. a.type = Answer[phase]
      BY <2>1, <3>1, <1>3, <1>4 DEF LoadGraphBatch, Receives, Question, Answer
    <3>. QED  BY <3>1, <3>2 DEF WorkerSends, Shape
  <2>2. CASE FetchVertices(w)
    <3>1. PICK a : /\ a = [type |-> "Vertices", vertices |-> store[w].vertices]
                   /\ WorkerSends(w, a)
      BY <2>2 DEF FetchVertices
    <3>2. a.type = Answer[phase]
      BY <2>2, <3>1, <1>3, <1>4 DEF FetchVertices, Receives, Question, Answer
    <3>. QED  BY <3>1, <3>2 DEF WorkerSends, Shape
  <2>3. CASE DumpVerticesCsv(w)
    <3>1. b.type = "DumpVerticesCsv"
      BY <2>3 DEF DumpVerticesCsv, Receives
    <3>2. 1 \in 1 .. Len(q) /\ ~Gone(w)
      BY <1>1, <1>3 DEF Gone
    <3>3. Programmed(w, 1)
      BY <1>3, <3>1, <3>2 DEF WorkerOK, FramesOK, FrameOK
    <3>4. algorithmSet[w]
      BY <3>3, ShortQueue DEF Programmed
    <3>5. PICK a : /\ a = [type |-> "VerticesDumped", vertices |-> store[w].vertices]
                   /\ WorkerSends(w, a)
      BY <2>3, <3>4 DEF DumpVerticesCsv
    <3>6. a.type = Answer[phase]
      BY <3>1, <3>5, <1>3, <1>4 DEF Question, Answer
    <3>. QED  BY <3>5, <3>6 DEF WorkerSends, Shape
  <2>. QED  BY <2>1, <2>2, <2>3
<1>6. /\ TalkOK(w)' /\ FramesOK(w)' /\ ProgramOK(w)' /\ ExitOK(w)' /\ BatchOK(w)'
  BY <1>1, <1>2, <1>5, AnsweringTake
<1>7. ImagesOK(w)' /\ ComputedOK(w)'
  BY <1>1, <1>4 DEF WorkerOK, ImagesOK, Made, ComputedOK, SameDriver
<1>. QED  BY <1>6, <1>7 DEF WorkerOK

LEMMA CreateCheckpointOK ==
  ASSUME NEW w \in Worker, Shape, WorkerOK(w), CreateCheckpoint(w), SameDriver,
         NoRevival
  PROVE  WorkerOK(w)'
<1>. DEFINE q == toWorker[w]
            b == Head(toWorker[w])
            k == Head(toWorker[w]).iteration
<1>1. /\ workerState[w] = "serving" /\ workerState'[w] = "serving"
      /\ q # << >> /\ toWorker'[w] = Tail(q)
      /\ b.type = "CreateCheckpoint" /\ computed'[w] = computed[w]
      /\ algorithmSet'[w] = algorithmSet[w]
      /\ pendingIteration'[w] = pendingIteration[w]
  BY DEF CreateCheckpoint, Receives, WorkerTakes, Shape
<1>2. Asking(b) /\ b.type # "SuperstepBatch"
  BY <1>1 DEF Asking
<1>3. /\ Owes(w) /\ phase # "handshake" /\ b.type = Question[phase]
      /\ b = q[1] /\ Len(q) = 1 /\ ~NoQuestion(w)
  BY <1>1, <1>2, AskedLast
<1>4. phase \in {"checkpoint", "checkpointed"}
  BY <1>1, <1>3 DEF Question, Owes
<1>5. 1 \in 1 .. Len(q) /\ ~Gone(w)
  BY <1>1, <1>3 DEF Gone
<1>6. k = iteration - 1
  BY <1>1, <1>3, <1>5 DEF WorkerOK, FramesOK, FrameOK
<1>7. PICK a : /\ a.type = Answer[phase] \/ (a.type = "Error" /\ ErrorDue(w)')
               /\ toDriver'[w] = IF driverAlive THEN Append(toDriver[w], a)
                                                ELSE toDriver[w]
  <2>1. CASE k \in DOMAIN images[w]
    <3>1. k \notin Made(w)
      <4>. SUFFICES ASSUME k \in Made(w) PROVE FALSE
        OBVIOUS
      <4>1. k \in Int /\ k < iteration - 1
        BY <1>3, <1>4 DEF WorkerOK, ImagesOK
      <4>. QED  BY <4>1, <1>6
    <3>2. ErrorDue(w)'
      BY <2>1, <3>1, <1>4, <1>6 DEF Made, ErrorDue, SameDriver
    <3>3. PICK a : a = [type |-> "Error"] /\ WorkerSends(w, a)
      BY <2>1 DEF CreateCheckpoint
    <3>4. a.type = "Error"
      BY <3>3
    <3>. QED  BY <3>2, <3>3, <3>4 DEF WorkerSends, Shape
  <2>2. CASE k \notin DOMAIN images[w]
    <3>1. PICK a : a = [type |-> "CheckpointCreated"] /\ WorkerSends(w, a)
      BY <2>2 DEF CreateCheckpoint
    <3>2. a.type = Answer[phase]
      BY <3>1, <1>4 DEF Answer
    <3>. QED  BY <3>1, <3>2 DEF WorkerSends, Shape
  <2>. QED  BY <2>1, <2>2
<1>8. /\ TalkOK(w)' /\ FramesOK(w)' /\ ProgramOK(w)' /\ ExitOK(w)' /\ BatchOK(w)'
      /\ NoQuestion(w)'
  BY <1>1, <1>2, <1>4, <1>7, AnsweringTake
<1>9. DOMAIN images'[w] \subseteq DOMAIN images[w] \cup {k}
  BY DEF CreateCheckpoint, Merge, Shape
<1>10. ImagesOK(w)'
  <2>1. Made(w)' \subseteq Made(w) \cup {iteration - 1}
    BY <1>6, <1>9 DEF Made, SameDriver
  <2>2. ~(phase = "checkpoint" /\ w >= turn)
    BY <1>3, <1>4 DEF Owes, Shape, Worker
  <2>3. iteration - 1 \in Int
    BY DEF Shape
  <2>4. \A i \in Made(w) : i \in Int /\ i <= iteration - 1
    BY <1>4 DEF WorkerOK, ImagesOK
  <2>5. \A i \in Made(w)' : i \in Int /\ i <= iteration - 1
    BY <2>1, <2>3, <2>4
  <2>. QED  BY <2>2, <2>5, <1>4, <1>8 DEF ImagesOK, SameDriver
<1>11. ComputedOK(w)'
  BY <1>1, <1>4 DEF WorkerOK, ComputedOK, SameDriver
<1>. QED  BY <1>8, <1>10, <1>11 DEF WorkerOK

LEMMA LoadCheckpointOK ==
  ASSUME NEW w \in Worker, Shape, WorkerOK(w), LoadCheckpoint(w), SameDriver,
         NoRevival
  PROVE  WorkerOK(w)'
<1>. DEFINE q == toWorker[w]
            b == Head(toWorker[w])
            k == Head(toWorker[w]).iteration
<1>1. /\ workerState[w] = "serving" /\ workerState'[w] = "serving"
      /\ q # << >> /\ toWorker'[w] = Tail(q)
      /\ b.type = "LoadCheckpoint" /\ computed'[w] = k
      /\ algorithmSet'[w] = algorithmSet[w]
      /\ pendingIteration'[w] = pendingIteration[w]
  BY DEF LoadCheckpoint, Receives, WorkerTakes, Shape
<1>2. Asking(b) /\ b.type # "SuperstepBatch"
  BY <1>1 DEF Asking
<1>3. /\ Owes(w) /\ phase # "handshake" /\ b.type = Question[phase]
      /\ b = q[1] /\ Len(q) = 1
  BY <1>1, <1>2, AskedLast
<1>4. phase \in {"restore", "restored"}
  BY <1>1, <1>3 DEF Question, Owes
<1>5. 1 \in 1 .. Len(q) /\ ~Gone(w)
  BY <1>1, <1>3 DEF Gone
<1>6. k = saved.iteration
  BY <1>1, <1>3, <1>5 DEF WorkerOK, FramesOK, FrameOK
<1>7. PICK a : a = [type |-> "CheckpointLoaded"] /\ WorkerSends(w, a)
  BY DEF LoadCheckpoint
<1>8. /\ toDriver'[w] = IF driverAlive THEN Append(toDriver[w], a) ELSE toDriver[w]
      /\ a.type = Answer[phase]
  <2>1. a.type = "CheckpointLoaded"
    BY <1>7
  <2>2. a.type = Answer[phase]
    BY <2>1, <1>4 DEF Answer
  <2>. QED  BY <2>2, <1>7 DEF WorkerSends, Shape
<1>9. /\ TalkOK(w)' /\ FramesOK(w)' /\ ProgramOK(w)' /\ ExitOK(w)' /\ BatchOK(w)'
  BY <1>1, <1>2, <1>8, AnsweringTake
<1>10. DOMAIN images'[w] \subseteq DOMAIN images[w] \cup {k}
  BY DEF LoadCheckpoint, Merge, Shape
<1>11. ImagesOK(w)'
  <2>1. Made(w)' \subseteq Made(w) \cup {saved.iteration}
    BY <1>6, <1>10 DEF Made, SameDriver
  <2>2. \A i \in Made(w) : i \in Int /\ i <= saved.iteration
    BY <1>4 DEF WorkerOK, ImagesOK
  <2>3. \A i \in Made(w)' : i \in Int /\ i <= saved.iteration
    BY <2>1, <2>2 DEF Shape
  <2>. QED  BY <2>3, <1>4 DEF ImagesOK, SameDriver
<1>12. ComputedOK(w)'
  BY <1>1, <1>4, <1>6 DEF WorkerOK, ComputedOK, SameDriver
<1>. QED  BY <1>9, <1>11, <1>12 DEF WorkerOK

(* A worker whose file operation fails owes no answer any more either.     *)
LEMMA FileFailsOK ==
  ASSUME NEW w \in Worker, Shape, WorkerOK(w), FileFails(w), SameDriver, NoRevival,
         w \in faulty'
  PROVE  WorkerOK(w)'
<1>. DEFINE q == toWorker[w]
            b == Head(toWorker[w])
<1>1. /\ workerState[w] = "serving" /\ workerState'[w] = "serving"
      /\ q # << >> /\ toWorker'[w] = Tail(q)
      /\ b.type \in {"CreateCheckpoint", "LoadCheckpoint", "DumpVerticesCsv"}
      /\ images'[w] = images[w] /\ computed'[w] = computed[w]
      /\ algorithmSet'[w] = algorithmSet[w]
      /\ pendingIteration'[w] = pendingIteration[w]
  BY DEF FileFails, Receives, WorkerTakes, workerVars, Shape
<1>2. Asking(b) /\ b.type # "SuperstepBatch"
  BY <1>1 DEF Asking
<1>3. /\ Owes(w) /\ phase # "handshake" /\ b.type = Question[phase]
      /\ toDriver[w] = << >> /\ ~NoQuestion(w)
  BY <1>1, <1>2, AskedLast
<1>4. phase \in FileCalls
  BY <1>1, <1>3 DEF Question, Owes, FileCalls
<1>5. PICK a : a = [type |-> "Error"] /\ WorkerSends(w, a)
  BY DEF FileFails
<1>6. /\ toDriver'[w] = IF driverAlive THEN Append(toDriver[w], a) ELSE toDriver[w]
      /\ a.type = "Error" /\ ErrorDue(w)'
  BY <1>4, <1>5 DEF WorkerSends, Shape, ErrorDue, SameDriver
<1>7. /\ TalkOK(w)' /\ FramesOK(w)' /\ ProgramOK(w)' /\ ExitOK(w)' /\ BatchOK(w)'
      /\ NoQuestion(w)'
  BY <1>1, <1>2, <1>6, AnsweringTake
<1>8. ImagesOK(w)'
  BY <1>1, <1>3, <1>7 DEF WorkerOK, ImagesOK, Made, SameDriver
<1>9. ComputedOK(w)'
  <2>1. \A i \in 1 .. Len(toDriver'[w]) : toDriver'[w][i].type = "Error"
    <3>1. toDriver'[w] = << >> \/ toDriver'[w] = <<a>>
      BY <1>3, <1>6
    <3>2. Len(<<a>>) = 1 /\ <<a>>[1] = a
      OBVIOUS
    <3>3. Len(toDriver'[w]) = 0 \/ (Len(toDriver'[w]) = 1 /\ toDriver'[w][1] = a)
      BY <3>1, <3>2, EmptyQueue
    <3>. QED  BY <3>3, <1>6, ShortQueue
  <2>. QED  BY <1>1, <1>4, <2>1 DEF WorkerOK, ComputedOK, SameDriver, FileCalls
<1>. QED  BY <1>7, <1>8, <1>9 DEF WorkerOK

(* A worker's step leaves the others and the driver alone.                 *)
LEMMA WorkerFrame ==
  ASSUME NEW w \in Worker, Shape, WorkerActs(w)
  PROVE  /\ SameDriver /\ NoRevival
         /\ \A u \in Worker \ {w} : SameWorker(u)
         /\ DOMAIN toWorker' = Worker /\ DOMAIN toDriver' = Worker
         /\ DOMAIN workerState' = Worker /\ DOMAIN algorithmSet' = Worker
         /\ DOMAIN pendingIteration' = Worker /\ DOMAIN pendingInbox' = Worker
         /\ DOMAIN computed' = Worker /\ DOMAIN images' = Worker
         /\ driverAlive' = driverAlive /\ crashes' = crashes /\ faulty' = faulty
<1>1. SameDriver /\ crashes' = crashes /\ faulty' = faulty
  BY DEF WorkerActs, driverVars, clusterVars, SameDriver
<1>2. WorkerStep(w)
  BY DEF WorkerActs
<1>. USE DEF Becomes, WorkerTakes, WorkerSends, channels, workerVars, Shape, SameWorker
<1>. DEFINE Goal ==
       /\ driverAlive' = driverAlive
       /\ \A u \in Worker \ {w} : SameWorker(u)
       /\ DOMAIN toWorker' = Worker /\ DOMAIN toDriver' = Worker
       /\ DOMAIN workerState' = Worker /\ DOMAIN algorithmSet' = Worker
       /\ DOMAIN pendingIteration' = Worker /\ DOMAIN pendingInbox' = Worker
       /\ DOMAIN computed' = Worker /\ DOMAIN images' = Worker
<1>3. Bind(w) => Goal
  BY DEF Bind
<1>4. SendReady(w) => Goal
  BY DEF SendReady
<1>5. LoadGraph(w) => Goal
  BY DEF LoadGraph
<1>6. LoadGraphBatch(w) => Goal
  BY DEF LoadGraphBatch
<1>7. SetAlgorithm(w) => Goal
  BY DEF SetAlgorithm
<1>8. KeepBatch(w) => Goal
  BY DEF KeepBatch
<1>9. ComputeSuperstep(w) => Goal
  BY DEF ComputeSuperstep
<1>10. EmitBatch(w) => Goal
  BY DEF EmitBatch
<1>11. CreateCheckpoint(w) => Goal
  BY DEF CreateCheckpoint
<1>12. LoadCheckpoint(w) => Goal
  BY DEF LoadCheckpoint
<1>13. FetchVertices(w) => Goal
  BY DEF FetchVertices
<1>14. DumpVerticesCsv(w) => Goal
  BY DEF DumpVerticesCsv
<1>15. Shutdown(w) => Goal
  BY DEF Shutdown
<1>16. LosesDriver(w) => Goal
  BY DEF LosesDriver
<1>17. Goal
  BY <1>2, <1>3, <1>4, <1>5, <1>6, <1>7, <1>8, <1>9, <1>10, <1>11, <1>12, <1>13,
     <1>14, <1>15, <1>16 DEF WorkerStep
<1>. QED  BY <1>1, <1>17 DEF NoRevival

LEMMA WorkerQueues ==
  ASSUME NEW w \in Worker, Shape, WorkerActs(w)
  PROVE  IsQueue(toWorker'[w]) /\ IsQueue(toDriver'[w])
<1>1. WorkerStep(w) /\ IsQueue(toWorker[w]) /\ IsQueue(toDriver[w])
  BY DEF WorkerActs, Shape
<1>2. toWorker[w] # << >> => IsQueue(Tail(toWorker[w]))
  BY <1>1, QueueTail
<1>3. \A f : IsQueue(Append(toDriver[w], f))
  BY <1>1, QueueAppend
<1>4. \/ toWorker'[w] = toWorker[w]
      \/ toWorker[w] # << >> /\ toWorker'[w] = Tail(toWorker[w])
  BY <1>1 DEF WorkerStep, Bind, SendReady, LoadGraph, LoadGraphBatch, SetAlgorithm,
     KeepBatch, ComputeSuperstep, EmitBatch, CreateCheckpoint, LoadCheckpoint,
     FetchVertices, DumpVerticesCsv, Shutdown, LosesDriver, Receives, WorkerTakes,
     channels, Shape
<1>5. IsQueue(toDriver'[w])
  <2>1. CASE toDriver' = toDriver
    BY <2>1, <1>1
  <2>2. ASSUME NEW f, WorkerSends(w, f) PROVE IsQueue(toDriver'[w])
    BY <2>2, <1>1, <1>3 DEF WorkerSends, Shape
  <2>3. CASE SendReady(w)
    BY <2>2, <2>3 DEF SendReady
  <2>4. CASE LoadGraphBatch(w)
    BY <2>2, <2>4 DEF LoadGraphBatch
  <2>5. CASE EmitBatch(w)
    BY <2>2, <2>5 DEF EmitBatch
  <2>6. CASE CreateCheckpoint(w)
    BY <2>2, <2>6 DEF CreateCheckpoint
  <2>7. CASE LoadCheckpoint(w)
    BY <2>2, <2>7 DEF LoadCheckpoint
  <2>8. CASE FetchVertices(w)
    BY <2>2, <2>8 DEF FetchVertices
  <2>9. CASE DumpVerticesCsv(w)
    BY <2>2, <2>9 DEF DumpVerticesCsv
  <2>10. CASE \/ Bind(w) \/ LoadGraph(w) \/ SetAlgorithm(w) \/ KeepBatch(w)
              \/ ComputeSuperstep(w) \/ Shutdown(w) \/ LosesDriver(w)
    <3>1. toDriver' = toDriver
      BY <2>10 DEF Bind, LoadGraph, SetAlgorithm, KeepBatch, ComputeSuperstep,
         Shutdown, LosesDriver, channels
    <3>. QED  BY <3>1, <2>1
  <2>. QED  BY <1>1, <2>3, <2>4, <2>5, <2>6, <2>7, <2>8, <2>9, <2>10 DEF WorkerStep
<1>. QED  BY <1>1, <1>2, <1>4, <1>5

LEMMA WorkerActsInd ==
  ASSUME NEW w \in Worker, IndInv, WorkerActs(w)
  PROVE  IndInv'
<1>. USE DEF IndInv
<1>1. /\ SameDriver /\ NoRevival
      /\ \A u \in Worker \ {w} : SameWorker(u)
      /\ driverAlive' = driverAlive /\ crashes' = crashes /\ faulty' = faulty
  BY WorkerFrame
<1>2. Shape'
  <2>1. \A u \in Worker : IsQueue(toWorker'[u]) /\ IsQueue(toDriver'[u])
    BY <1>1, WorkerQueues DEF SameWorker, Shape
  <2>. QED  BY <2>1, <1>1, WorkerFrame DEF Shape, SameDriver
<1>3. FailsOnlyForCause'
  BY <1>1 DEF FailsOnlyForCause, SameDriver
<1>4. ASSUME NEW u \in Worker \ {w} PROVE WorkerOK(u)'
  BY <1>1, Untouched
<1>5. WorkerOK(w)'
  <2>1. WorkerStep(w) /\ WorkerOK(w)
    BY DEF WorkerActs
  <2>. QED  BY <1>1, <2>1, BindOK, SendReadyOK, LoadGraphOK, ShutdownOK, KeepBatchOK,
            ComputeSuperstepOK, EmitBatchOK, FetchOK, CreateCheckpointOK,
            LoadCheckpointOK DEF WorkerStep
<1>. QED  BY <1>2, <1>3, <1>4, <1>5

(* What a failing file operation leaves alone.                             *)
LEMMA FaultFrame ==
  ASSUME NEW w \in Worker, Shape, WorkerFaults(w)
  PROVE  /\ SameDriver /\ NoRevival /\ w \in faulty'
         /\ \A u \in Worker \ {w} : SameWorker(u)
         /\ WorkerTakes(w) /\ toWorker[w] # << >>
         /\ WorkerSends(w, [type |-> "Error"])
         /\ UNCHANGED <<driverAlive, driverVars, workerState, workerVars, crashes,
                        found, committed>>
BY DEF WorkerFaults, FileFails, Receives, WorkerTakes, WorkerSends, driverVars,
   workerVars, SameDriver, SameWorker, NoRevival, Shape

LEMMA WorkerFaultsInd ==
  ASSUME NEW w \in Worker, IndInv, WorkerFaults(w)
  PROVE  IndInv'
<1>. USE DEF IndInv
<1>1. /\ SameDriver /\ NoRevival /\ w \in faulty'
      /\ \A u \in Worker \ {w} : SameWorker(u)
      /\ WorkerTakes(w) /\ toWorker[w] # << >>
      /\ WorkerSends(w, [type |-> "Error"])
      /\ UNCHANGED <<driverAlive, workerState, workerVars, crashes>>
  BY FaultFrame
<1>2. Shape'
  <2>1. \A f : IsQueue(Append(toDriver[w], f))
    BY QueueAppend DEF Shape
  <2>2. IsQueue(Tail(toWorker[w]))
    BY <1>1, QueueTail DEF Shape
  <2>3. \A u \in Worker : IsQueue(toWorker'[u]) /\ IsQueue(toDriver'[u])
    BY <1>1, <2>1, <2>2 DEF Shape, WorkerTakes, WorkerSends
  <2>4. DOMAIN toWorker' = Worker /\ DOMAIN toDriver' = Worker
    BY <1>1 DEF Shape, WorkerTakes, WorkerSends
  <2>. QED  BY <1>1, <2>3, <2>4 DEF Shape, SameDriver, workerVars
<1>3. FailsOnlyForCause'
  BY <1>1 DEF FailsOnlyForCause, SameDriver, NoRevival
<1>4. ASSUME NEW u \in Worker \ {w} PROVE WorkerOK(u)'
  BY <1>1, Untouched
<1>5. WorkerOK(w)'
  BY <1>1, FileFailsOK DEF WorkerFaults
<1>. QED  BY <1>2, <1>3, <1>4, <1>5

LEMMA WorkerCrashInd ==
  ASSUME NEW w \in Worker, IndInv, WorkerCrash(w)
  PROVE  IndInv'
<1>. USE DEF IndInv
<1>1. /\ SameDriver /\ driverAlive' = driverAlive
      /\ crashes' = crashes + 1 /\ crashes' # 0 /\ NoRevival
      /\ workerState' = [workerState EXCEPT ![w] = "exited"]
      /\ toWorker' = [toWorker EXCEPT ![w] = << >>]
      /\ UNCHANGED <<algorithmSet, pendingIteration, pendingInbox, computed, images>>
  BY DEF WorkerCrash, driverVars, workerVars, SameDriver, NoRevival, Shape
<1>2. PICK n \in 0 .. Len(toDriver[w]) :
        toDriver' = [toDriver EXCEPT ![w] = SubSeq(@, 1, n)]
  BY DEF WorkerCrash
<1>3. toDriver'[w] = SubSeq(toDriver[w], 1, n)
  BY <1>2 DEF Shape
<1>4. /\ IsQueue(toDriver'[w]) /\ Len(toDriver'[w]) = n
      /\ \A i \in 1 .. n : toDriver'[w][i] = toDriver[w][i]
      /\ toDriver'[w] # << >> => toDriver[w] # << >>
  <2>1. IsQueue(toDriver[w])
    BY DEF Shape
  <2>. QED  BY <2>1, <1>3, QueuePrefix
<1>5. WorkerOK(w)'
  <2>1. /\ workerState'[w] = "exited" /\ n <= Len(toDriver[w])
        /\ images'[w] = images[w] /\ computed'[w] = computed[w]
    BY <1>1, LenProperties DEF Shape, IsQueue
  <2>. QED  BY <2>1, <1>1, <1>4, Exits
<1>6. ASSUME NEW u \in Worker \ {w} PROVE WorkerOK(u)'
  <2>1. SameWorker(u)
    BY <1>1, <1>2 DEF Shape, SameWorker
  <2>. QED  BY <2>1, <1>1, Untouched
<1>7. Shape'
  <2>1. \A u \in Worker : IsQueue(toWorker'[u]) /\ IsQueue(toDriver'[u])
    BY <1>1, <1>2, <1>4, EmptyQueue DEF Shape
  <2>. QED  BY <2>1, <1>1, <1>2 DEF Shape, SameDriver
<1>8. FailsOnlyForCause'
  BY <1>1 DEF FailsOnlyForCause, Shape
<1>. QED  BY <1>5, <1>6, <1>7, <1>8

LEMMA DriverCrashInd ==
  ASSUME IndInv, DriverCrash
  PROVE  IndInv'
<1>1. /\ SameDriver /\ NoRevival /\ \A w \in Worker : SameWorker(w)
      /\ crashes' = crashes + 1 /\ crashes' \in Nat /\ crashes' > 0
      /\ UNCHANGED <<toWorker, toDriver, workerState, algorithmSet, pendingIteration,
                     pendingInbox, computed, images>>
  BY DEF DriverCrash, channels, driverVars, workerVars, SameDriver, SameWorker, NoRevival,
     IndInv, Shape
<1>2. \A w \in Worker : WorkerOK(w)'
  BY <1>1, Untouched DEF IndInv
<1>3. Shape' /\ FailsOnlyForCause'
  BY <1>1 DEF IndInv, Shape, FailsOnlyForCause, SameDriver
<1>. QED  BY <1>2, <1>3 DEF IndInv

----------------------------------------------------------------------------
(* The steps of the driver.                                                *)
Elsewhere == UNCHANGED <<workerVars, found, crashes, faulty>>

Rounds == {"send", "receive"}

(* The worker at turn is sent a frame that is not part of an inbox.        *)
LEMMA Sent ==
  ASSUME NEW w \in Worker, NEW f, Shape, WorkerOK(w), ~Owes(w), Elsewhere,
         DriverSends(w, f),
         UNCHANGED <<toDriver, workerState, iteration, saved>>,
         phase \notin Rounds \cup {"handshake", "done"},
         phase = "shutdown" => w >= turn,
         phase' \notin Rounds \cup {"handshake"},
         f.type # "SuperstepBatch",
         Asking(f) => Owes(w)' /\ f.type = Question[phase'],
         ~Asking(f) => ~Owes(w)',
         f.type = "CreateCheckpoint" =>
           f.iteration = iteration - 1 /\ phase' = "checkpoint",
         f.type = "LoadCheckpoint" =>
           f.iteration = saved.iteration /\ phase' = "restore",
         f.type = "Shutdown" => phase' = "shutdown" /\ w < turn',
         f.type = "DumpVerticesCsv" => phase \notin Early \cup {"algorithm"},
         \/ phase' \in Early
         \/ f.type = "SetAlgorithm"
         \/ phase \notin Early \cup {"algorithm"}
  PROVE  /\ TalkOK(w)' /\ FramesOK(w)' /\ ProgramOK(w)' /\ BatchOK(w)'
         /\ Gone(w)' <=> Gone(w)
<1>. DEFINE q == toWorker[w]
<1>. PICK n : n = Len(toWorker[w])
  OBVIOUS
<1>. USE DEF Elsewhere, workerVars
<1>1. (Gone(w)' <=> Gone(w)) /\ Idle(w) /\ toDriver'[w] = << >>
  BY DEF Gone, WorkerOK, TalkOK, Idle
<1>2. ~Fed(w) /\ ~Fed(w)'
  BY DEF Fed, Rounds
<1>3. CASE Gone(w)
  <2>1. NoQuestion(w)' /\ Idle(w)'
    BY <1>1, <1>3 DEF NoQuestion, Idle, Gone
  <2>2. Answered(w)'
    BY <1>1, <1>3, <2>1, EmptyQueue, ShortQueue DEF Answered, Idle, Rounds
  <2>. QED  BY <1>1, <1>3, <2>1, <2>2 DEF TalkOK, FramesOK, ProgramOK, BatchOK
<1>4. CASE ~Gone(w)
  <2>1. toWorker'[w] = Append(q, f)
    BY <1>4 DEF DriverSends, Gone, Shape
  <2>2. /\ n \in Nat /\ Len(toWorker'[w]) = n + 1 /\ toWorker'[w] # << >>
        /\ \A i \in 1 .. n : toWorker'[w][i] = q[i]
        /\ toWorker'[w][n + 1] = f
    <3>1. IsQueue(q)
      BY DEF Shape
    <3>. HIDE DEF q, Elsewhere, workerVars
    <3>2. n = Len(q)
      BY DEF q
    <3>3. /\ Append(q, f) # << >>
          /\ Len(q) \in Nat /\ Len(Append(q, f)) = Len(q) + 1
          /\ \A i \in 1 .. Len(q) : Append(q, f)[i] = q[i]
          /\ Append(q, f)[Len(q) + 1] = f
      BY <3>1, QueueAppend
    <3>. QED  BY <2>1, <3>2, <3>3 DEF q
  <2>3. \A i \in 1 .. Len(toWorker'[w]) : i \in 1 .. n \/ i = n + 1
    BY <2>2
  <2>4. \A i \in 1 .. n : ~Asking(q[i]) /\ i # n + 1
    BY <1>1, <1>4, <2>2 DEF Idle, NoQuestion
  <2>5. \A i \in 1 .. n :
          /\ q[i].type \notin {"SuperstepBatch", "CreateCheckpoint",
                               "LoadCheckpoint", "Shutdown", "DumpVerticesCsv"}
    <3>. TAKE i \in 1 .. n
    <3>1. FrameOK(w, i) /\ ~Asking(q[i])
      BY <1>4, <2>4 DEF WorkerOK, FramesOK
    <3>2. ~(phase = "shutdown" /\ w < turn)
      BY DEF Shape, Worker
    <3>. QED  BY <3>1, <3>2, <1>2 DEF FrameOK, Asking
  <2>6. TalkOK(w)'
    <3>1. CASE ~Asking(f)
      <4>1. \A i \in 1 .. Len(toWorker'[w]) : ~Asking(toWorker'[w][i])
        BY <2>2, <2>3, <2>4, <3>1
      <4>2. NoQuestion(w)'
        BY <4>1 DEF NoQuestion, Asking
      <4>3. Idle(w)'
        BY <1>1, <4>2 DEF Idle
      <4>. QED  BY <4>3, <3>1 DEF TalkOK
    <3>2. CASE Asking(f)
      <4>1. \A i \in 1 .. Len(toWorker'[w]) :
              Asking(toWorker'[w][i]) <=> i = Len(toWorker'[w])
        BY <2>2, <2>3, <2>4, <3>2
      <4>2. toWorker'[w][Len(toWorker'[w])].type = Question[phase']
        BY <2>2, <3>2
      <4>3. workerState'[w] \notin {"accepted", "emitting", "exited"}
        BY <1>1, <1>4 DEF Idle, Gone
      <4>4. Asked(w)'
        BY <1>1, <2>2, <4>1, <4>2, <4>3 DEF Asked, Asking, Question
      <4>. QED  BY <4>4, <3>2 DEF TalkOK
    <3>. QED  BY <3>1, <3>2
  <2>7. ASSUME NEW m \in Int, m <= n + 1, Programmed(w, m) PROVE Programmed(w, m)'
    <3>1. \A j \in 1 .. (m - 1) : j \in 1 .. n
      BY <2>2, <2>7
    <3>. QED  BY <3>1, <2>2, <2>7 DEF Programmed
  <2>8. phase \notin Early \cup {"algorithm"} => Programmed(w, n + 1)'
    <3>1. phase \notin Early \cup {"algorithm"} => Programmed(w, n + 1)
      BY <1>4 DEF WorkerOK, ProgramOK
    <3>2. PICK m \in Int : m = n + 1
      BY <2>2
    <3>3. Programmed(w, m) => Programmed(w, m)'
      BY <2>7, <3>2
    <3>. QED  BY <3>1, <3>2, <3>3
  <2>9. FramesOK(w)'
    <3>1. ASSUME NEW i \in 1 .. Len(toWorker'[w]) PROVE FrameOK(w, i)'
      <4>1. CASE i \in 1 .. n
        <5>1. toWorker'[w][i].type \notin {"SuperstepBatch", "CreateCheckpoint",
                         "LoadCheckpoint", "Shutdown", "DumpVerticesCsv"}
          BY <4>1, <2>2, <2>5
        <5>. QED  BY <5>1 DEF FrameOK
      <4>2. CASE i = n + 1
        <5>1. toWorker'[w][i] = f
          BY <4>2, <2>2
        <5>. QED  BY <4>2, <5>1, <2>8 DEF FrameOK
      <4>. QED  BY <4>1, <4>2, <2>3
    <3>. QED  BY <3>1 DEF FramesOK
  <2>10. ProgramOK(w)'
    <3>1. CASE phase' \in Early
      BY <3>1 DEF ProgramOK, Early
    <3>2. ASSUME \/ algorithmSet'[w]
                 \/ \E j \in 1 .. (n + 1) : toWorker'[w][j].type = "SetAlgorithm"
          PROVE  ProgramOK(w)'
      <4>1. (Len(toWorker'[w]) + 1) - 1 = n + 1
        BY <2>2
      <4>2. Programmed(w, Len(toWorker[w]) + 1)'
        BY <3>2, <4>1 DEF Programmed
      <4>. QED  BY <4>2 DEF ProgramOK
    <3>3. CASE f.type = "SetAlgorithm"
      <4>1. n + 1 \in 1 .. (n + 1)
        BY <2>2
      <4>. QED  BY <4>1, <3>2, <3>3, <2>2
    <3>4. CASE phase \notin Early \cup {"algorithm"}
      <4>1. \A j \in 1 .. (n + 1 - 1) : j \in 1 .. (n + 1)
        BY <2>2
      <4>2. Programmed(w, n + 1)'
        BY <2>8, <3>4
      <4>. QED  BY <4>1, <4>2, <3>2 DEF Programmed
    <3>. QED  BY <3>1, <3>3, <3>4
  <2>11. BatchOK(w)'
    BY <1>1, <1>2, <1>4 DEF WorkerOK, BatchOK
  <2>. QED  BY <2>6, <2>9, <2>10, <2>11, <1>1
<1>. QED  BY <1>3, <1>4

(* What the driver does with the worker at turn is not seen by another.    *)
LEMMA Passed ==
  ASSUME NEW w \in Worker, Shape, WorkerOK(w), SameWorker(w), NoRevival, w # turn,
         turn \in Worker, turn' = turn \/ turn' = turn + 1,
         UNCHANGED <<phase, iteration, mail, inboxes, saved, found>>,
         phase \notin {"handshake", "loaded", "sealed", "dumped", "send"}
  PROVE  WorkerOK(w)'
<1>. USE DEF SameWorker
<1>1. (Gone(w)' <=> Gone(w)) /\ (NoQuestion(w)' <=> NoQuestion(w))
  BY DEF Gone, NoQuestion
<1>2. /\ w < turn' <=> w < turn
      /\ w >= turn' <=> w >= turn
  BY DEF Shape, Worker
<1>3. (Owes(w)' <=> Owes(w)) /\ (Fed(w)' <=> Fed(w))
  BY <1>1, <1>2 DEF Owes, Fed
<1>4. TalkOK(w)'
  <2>1. ErrorDue(w) => ErrorDue(w)'
    BY DEF NoRevival, ErrorDue
  <2>. QED  BY <1>1, <1>3, <2>1 DEF WorkerOK, TalkOK, Idle, Asked, Answered
<1>5. FramesOK(w)'
  BY <1>1, <1>2, <1>3 DEF WorkerOK, FramesOK, FrameOK, Programmed
<1>6. ProgramOK(w)' /\ ExitOK(w)'
  BY <1>1, <1>2 DEF NoRevival, WorkerOK, ProgramOK, ExitOK, Programmed, Early
<1>7. ImagesOK(w)' /\ ComputedOK(w)'
  BY <1>1, <1>2 DEF WorkerOK, ImagesOK, Made, ComputedOK
<1>8. BatchOK(w)'
  BY <1>1, <1>3 DEF WorkerOK, BatchOK, Feeding, Held, Rest, Batch, Inbox
<1>. QED  BY <1>4, <1>5, <1>6, <1>7, <1>8 DEF WorkerOK

(* The driver goes on and w, which owes it nothing, notices nothing.       *)
LEMMA Quiet ==
  ASSUME NEW w \in Worker, Shape, WorkerOK(w), SameWorker(w), NoRevival,
         ~Owes(w), ~Owes(w)', phase # "send", phase # "done",
         \/ phase' \in Early
         \/ phase' = "algorithm" /\ w >= turn'
         \/ phase \notin Early /\ ~(phase = "algorithm" /\ w >= turn),
         phase = "shutdown" /\ w < turn =>
           (phase' = "shutdown" /\ w < turn') \/ phase' = "done"
  PROVE  /\ TalkOK(w)' /\ FramesOK(w)' /\ ProgramOK(w)' /\ ExitOK(w)'
         /\ phase' # "send" => BatchOK(w)'
         /\ NoQuestion(w)' /\ NoQuestion(w) /\ toDriver[w] = << >>
         /\ workerState[w] # "emitting"
         /\ Gone(w) \/ pendingIteration[w] = 0
         /\ Gone(w) \/ \A i \in 1 .. Len(toWorker[w]) : ~Batch(w, i)
<1>. USE DEF SameWorker
<1>1. (Gone(w)' <=> Gone(w)) /\ (NoQuestion(w)' <=> NoQuestion(w)) /\ Idle(w)
  BY DEF Gone, NoQuestion, WorkerOK, TalkOK
<1>2. NoQuestion(w) /\ ~Fed(w) /\ (phase' # "send" => ~Fed(w)')
  BY <1>1 DEF Idle, Fed
<1>3. TalkOK(w)'
  BY <1>1 DEF TalkOK, Idle
<1>4. ASSUME NEW i \in 1 .. Len(toWorker[w]), ~Gone(w)
      PROVE  /\ toWorker[w][i].type \notin {"SuperstepBatch", "CreateCheckpoint",
                                            "LoadCheckpoint", "DumpVerticesCsv"}
             /\ toWorker[w][i].type = "Shutdown" =>
                  (phase' = "shutdown" /\ w < turn') \/ phase' = "done"
  <2>1. FrameOK(w, i) /\ ~Asking(toWorker[w][i])
    BY <1>2, <1>4 DEF WorkerOK, FramesOK, NoQuestion
  <2>. QED  BY <2>1, <1>2 DEF FrameOK, Asking
<1>5. FramesOK(w)'
  BY <1>1, <1>4 DEF FramesOK, FrameOK
<1>6. ProgramOK(w)'
  BY <1>1 DEF WorkerOK, ProgramOK, Programmed, Early
<1>7. ExitOK(w)'
  BY <1>1 DEF NoRevival, WorkerOK, ExitOK
<1>8. phase' # "send" => BatchOK(w)'
  BY <1>1, <1>2 DEF WorkerOK, BatchOK
<1>9. Gone(w) \/ \A i \in 1 .. Len(toWorker[w]) : ~Batch(w, i)
  BY <1>4 DEF Batch
<1>10. Gone(w) \/ pendingIteration[w] = 0
  BY <1>2 DEF WorkerOK, BatchOK
<1>. QED  BY <1>1, <1>2, <1>3, <1>5, <1>6, <1>7, <1>8, <1>9, <1>10 DEF Idle

(* The driver takes the one answer of a call.                              *)
LEMMA Taken ==
  ASSUME NEW w \in Worker, Shape, WorkerOK(w), Elsewhere, NoRevival,
         toDriver[w] # << >>, toDriver'[w] = Tail(toDriver[w]),
         UNCHANGED <<toWorker, workerState, iteration, saved>>,
         phase \notin Rounds, phase' \notin Rounds, ~Owes(w)',
         phase' \in Early \/ phase \notin Early,
         phase' \notin {"shutdown", "done", "algorithm", "restore"}
  PROVE  /\ TalkOK(w)' /\ FramesOK(w)' /\ ProgramOK(w)' /\ ExitOK(w)'
         /\ BatchOK(w)' /\ NoQuestion(w)' /\ toDriver'[w] = << >>
         /\ Owes(w) /\ Answered(w)
<1>. USE DEF Elsewhere, workerVars, Rounds
<1>1. Owes(w) /\ Answered(w)
  BY DEF WorkerOK, TalkOK, Idle, Asked
<1>2. toDriver'[w] = << >>
  <2>1. Len(toDriver[w]) <= 1
    BY <1>1 DEF Answered
  <2>2. Len(toDriver[w]) \in Nat \ {0} /\ Len(toDriver[w]) = 1 => Tail(toDriver[w]) = << >>
    BY QueueTail DEF Shape
  <2>3. Len(toDriver[w]) \in Nat \ {0}
    BY QueueTail DEF Shape
  <2>. QED  BY <2>1, <2>2, <2>3
<1>3. (Gone(w)' <=> Gone(w)) /\ NoQuestion(w) /\ NoQuestion(w)'
  BY <1>1 DEF Gone, NoQuestion, Answered
<1>4. TalkOK(w)'
  BY <1>1, <1>2, <1>3 DEF TalkOK, Idle, Answered
<1>5. ~Fed(w) /\ ~Fed(w)'
  BY DEF Fed
<1>6. FramesOK(w)'
  <2>1. ASSUME NEW i \in 1 .. Len(toWorker[w]), ~Gone(w)
        PROVE  toWorker[w][i].type \notin {"SuperstepBatch", "CreateCheckpoint",
                             "LoadCheckpoint", "DumpVerticesCsv", "Shutdown"}
    <3>1. FrameOK(w, i) /\ ~Asking(toWorker[w][i])
      BY <1>3, <2>1 DEF WorkerOK, FramesOK, NoQuestion
    <3>2. phase \notin {"shutdown", "done"}
      BY <1>1 DEF Owes
    <3>. QED  BY <3>1, <3>2, <1>5 DEF FrameOK, Asking
  <2>. QED  BY <2>1, <1>3 DEF FramesOK, FrameOK
<1>7. ProgramOK(w)'
  BY <1>1, <1>3 DEF WorkerOK, ProgramOK, Programmed, Early, Owes
<1>8. ExitOK(w)'
  BY <1>1, <1>3 DEF NoRevival, WorkerOK, ExitOK, Owes
<1>9. BatchOK(w)'
  BY <1>3, <1>5 DEF WorkerOK, BatchOK
<1>. QED  BY <1>1, <1>2, <1>3, <1>4, <1>6, <1>7, <1>8, <1>9

LEMMA SendShape ==
  ASSUME NEW w \in Worker, NEW f, Shape, DriverSends(w, f)
  PROVE  /\ DOMAIN toWorker' = Worker
         /\ \A u \in Worker : IsQueue(toWorker'[u])
         /\ \A u \in Worker \ {w} : toWorker'[u] = toWorker[u]
<1>1. IsQueue(Append(toWorker[w], f))
  BY QueueAppend DEF Shape
<1>. QED  BY <1>1 DEF DriverSends, Shape

LEMMA TakeShape ==
  ASSUME NEW w \in Worker, Shape, toDriver[w] # << >>, DriverTakes(w)
  PROVE  /\ DOMAIN toDriver' = Worker
         /\ \A u \in Worker : IsQueue(toDriver'[u])
         /\ \A u \in Worker \ {w} : toDriver'[u] = toDriver[u]
         /\ toDriver'[w] = Tail(toDriver[w])
<1>1. IsQueue(Tail(toDriver[w]))
  BY QueueTail DEF Shape
<1>. QED  BY <1>1 DEF DriverTakes, Shape

(* Outside rounds, checkpoints and recovery nothing is said of either.     *)
LEMMA NothingComputed ==
  ASSUME NEW w \in Worker, Shape, WorkerOK(w), Elsewhere, UNCHANGED iteration,
         {phase, phase'} \cap (Rounds \cup {"restore", "restored", "checkpoint",
                                            "checkpointed"}) = {}
  PROVE  ImagesOK(w)' /\ ComputedOK(w)'
BY DEF Elsewhere, workerVars, WorkerOK, ImagesOK, Made, ComputedOK, Rounds

LEMMA SendsToAllOK ==
  ASSUME IndInv, NEW f, At(phase), DriverSends(turn, f), turn' = turn + 1, Elsewhere,
         UNCHANGED <<toDriver, driverAlive, workerState, phase, iteration, mail,
                     inboxes, unsent, nextMail, result, unloaded, saved>>,
         \/ phase = "load" /\ f.type = "LoadGraph"
         \/ phase = "algorithm" /\ f.type = "SetAlgorithm"
         \/ /\ phase = "restore" /\ f.type = "LoadCheckpoint"
            /\ f.iteration = saved.iteration
         \/ /\ phase = "checkpoint" /\ f.type = "CreateCheckpoint"
            /\ f.iteration = iteration - 1
         \/ phase = "fetch" /\ f.type = "FetchVertices"
         \/ phase = "shutdown" /\ f.type = "Shutdown"
  PROVE  IndInv'
<1>. USE DEF IndInv, Elsewhere, workerVars
<1>1. PICK t \in Worker : t = turn
  BY DEF At, Worker, Shape
<1>2. NoRevival /\ driverAlive
  BY DEF NoRevival, At
<1>3. Shape'
  <2>1. /\ DOMAIN toWorker' = Worker
        /\ \A u \in Worker : IsQueue(toWorker'[u]) /\ IsQueue(toDriver'[u])
    BY <1>1, SendShape DEF Shape
  <2>2. turn' \in 1 .. (N + 1)
    BY <1>1, SizeAssumption DEF Worker
  <2>. QED  BY <2>1, <2>2 DEF Shape, Early
<1>4. FailsOnlyForCause'
  BY <1>2 DEF FailsOnlyForCause
<1>5. ASSUME NEW w \in Worker, w # turn PROVE WorkerOK(w)'
  <2>1. SameWorker(w)
    BY <1>1, <1>5, SendShape DEF SameWorker
  <2>. QED  BY <2>1, <1>1, <1>2, <1>5, Passed
<1>6. WorkerOK(t)'
  <2>1. ~Owes(t) /\ t < turn' /\ ~(t >= turn')
    BY <1>1 DEF Owes, Worker
  <2>2. Asking(f) <=> phase \in {"restore", "checkpoint", "fetch"}
    BY DEF Asking
  <2>3. Asking(f) => Owes(t)' /\ f.type = Question[phase']
    <3>1. Asking(f) => Owes(t)'
      BY <2>1, <2>2 DEF Owes
    <3>2. Asking(f) => f.type = Question[phase']
      BY <2>2 DEF Question
    <3>. QED  BY <3>1, <3>2
  <2>4. ~Asking(f) => ~Owes(t)'
    BY <2>1, <2>2 DEF Owes
  <2>5. /\ TalkOK(t)' /\ FramesOK(t)' /\ ProgramOK(t)' /\ BatchOK(t)'
        /\ Gone(t)' <=> Gone(t)
    <3>1. DriverSends(t, f)
      BY <1>1
    <3>2. phase = "shutdown" => t >= turn
      BY <1>1 DEF Worker
    <3>3. f.type # "SuperstepBatch"
      OBVIOUS
    <3>4. f.type = "CreateCheckpoint" =>
            f.iteration = iteration - 1 /\ phase' = "checkpoint"
      OBVIOUS
    <3>5. f.type = "LoadCheckpoint" =>
            f.iteration = saved.iteration /\ phase' = "restore"
      OBVIOUS
    <3>6. f.type = "Shutdown" => phase' = "shutdown" /\ t < turn'
      BY <2>1
    <3>7. /\ f.type = "DumpVerticesCsv" => phase \notin Early \cup {"algorithm"}
          /\ \/ phase' \in Early
             \/ f.type = "SetAlgorithm"
             \/ phase \notin Early \cup {"algorithm"}
          /\ phase \notin Rounds \cup {"handshake", "done"}
          /\ phase' \notin Rounds \cup {"handshake"}
      BY DEF Early, Rounds
    <3>. QED  BY <2>1, <2>3, <2>4, <3>1, <3>2, <3>3, <3>4, <3>5, <3>6, <3>7, Sent
  <2>6. ExitOK(t)'
    BY <1>1, <2>1, <2>5 DEF WorkerOK, ExitOK
  <2>7. ImagesOK(t)'
    <3>1. t >= turn /\ Made(t)' = Made(t)
      BY <1>1 DEF Made, Worker
    <3>2. \A k \in Made(t) :
            /\ k \in Int
            /\ IF phase = "restore" THEN k <= saved.iteration ELSE k <= iteration - 1
            /\ phase = "checkpoint" => k < iteration - 1
      BY <3>1 DEF WorkerOK, ImagesOK
    <3>. QED  BY <3>1, <3>2 DEF ImagesOK
  <2>8. ComputedOK(t)'
    BY <1>1, <2>1 DEF WorkerOK, ComputedOK
  <2>. QED  BY <2>5, <2>6, <2>7, <2>8 DEF WorkerOK
<1>. QED  BY <1>1, <1>3, <1>4, <1>5, <1>6

(* One worker is sent a frame, and the driver waits for its answer.        *)
LEMMA SendsToOneOK ==
  ASSUME IndInv, NEW w \in Worker, NEW f, driverAlive, DriverSends(w, f), Elsewhere,
         UNCHANGED <<toDriver, driverAlive, workerState, iteration, mail,
                     inboxes, unsent, saved>>,
         turn' = w,
         \/ phase = "stream" /\ phase' = "loaded" /\ f.type = "LoadGraphBatch"
         \/ /\ phase = "seal" /\ phase' = "sealed" /\ f.type = "LoadGraphBatch"
         \/ /\ phase = "dump" /\ phase' = "dumped" /\ f.type = "DumpVerticesCsv"
  PROVE  IndInv'
<1>. USE DEF IndInv, Elsewhere, workerVars
<1>1. NoRevival
  BY DEF NoRevival
<1>2. Shape'
  <2>1. /\ DOMAIN toWorker' = Worker
        /\ \A u \in Worker : IsQueue(toWorker'[u]) /\ IsQueue(toDriver'[u])
    BY SendShape DEF Shape
  <2>2. turn' \in 1 .. (N + 1)
    BY SizeAssumption DEF Worker
  <2>. QED  BY <2>1, <2>2 DEF Shape, Early
<1>3. FailsOnlyForCause'
  BY DEF FailsOnlyForCause
<1>4. \A u \in Worker : ~Owes(u) /\ (Owes(u)' <=> u = w)
  BY DEF Owes
<1>5. \A u \in Worker : ImagesOK(u)' /\ ComputedOK(u)'
  BY NothingComputed DEF Rounds
<1>6. ASSUME NEW u \in Worker, u # w PROVE WorkerOK(u)'
  <2>1. SameWorker(u)
    BY <1>6, SendShape DEF SameWorker
  <2>2. TalkOK(u)' /\ FramesOK(u)' /\ ProgramOK(u)' /\ ExitOK(u)' /\ BatchOK(u)'
    BY <2>1, <1>1, <1>4, <1>6, Quiet DEF Early
  <2>. QED  BY <2>2, <1>5 DEF WorkerOK
<1>7. WorkerOK(w)'
  <2>1. /\ phase \notin Rounds \cup {"handshake", "done"}
        /\ phase' \notin Rounds \cup {"handshake"}
        /\ phase = "shutdown" => w >= turn
        /\ f.type \notin {"SuperstepBatch", "CreateCheckpoint", "LoadCheckpoint",
                          "Shutdown"}
        /\ f.type = "DumpVerticesCsv" => phase \notin Early \cup {"algorithm"}
        /\ \/ phase' \in Early
           \/ phase \notin Early \cup {"algorithm"}
    BY DEF Early, Rounds
  <2>2. Asking(f) /\ f.type = Question[phase'] /\ Owes(w)'
    BY <1>4 DEF Asking, Question
  <2>3. /\ TalkOK(w)' /\ FramesOK(w)' /\ ProgramOK(w)' /\ BatchOK(w)'
        /\ Gone(w)' <=> Gone(w)
    BY <1>4, <2>1, <2>2, Sent
  <2>4. ExitOK(w)'
    BY <2>3 DEF WorkerOK, ExitOK
  <2>. QED  BY <1>5, <2>3, <2>4 DEF WorkerOK
<1>. QED  BY <1>2, <1>3, <1>6, <1>7

(* A worker's answer to a call that goes through the workers one by one.   *)
LEMMA ReceivesOneOK ==
  ASSUME IndInv, driverAlive, turn \in Worker, Elsewhere,
         toDriver[turn] # << >>, DriverTakes(turn),
         UNCHANGED <<toWorker, driverAlive, workerState, iteration, mail,
                     inboxes, unsent, saved>>,
         turn' \in 1 .. (N + 1),
         \/ phase = "handshake" /\ phase' = "connect"
         \/ phase = "loaded" /\ phase' = "stream"
         \/ phase = "sealed" /\ phase' = "seal"
         \/ phase = "dumped" /\ phase' = "dump"
  PROVE  IndInv'
<1>. USE DEF IndInv, Elsewhere, workerVars
<1>1. PICK t \in Worker : t = turn
  OBVIOUS
<1>2. NoRevival
  BY DEF NoRevival
<1>3. /\ toDriver[t] # << >> /\ DriverTakes(t)
  BY <1>1
<1>4. Shape'
  BY <1>3, TakeShape DEF Shape, Early
<1>5. FailsOnlyForCause'
  BY DEF FailsOnlyForCause
<1>6. \A u \in Worker : (Owes(u) <=> u = t) /\ ~Owes(u)'
  BY <1>1 DEF Owes
<1>7. \A u \in Worker : ImagesOK(u)' /\ ComputedOK(u)'
  BY NothingComputed DEF Rounds
<1>8. ASSUME NEW u \in Worker, u # t PROVE WorkerOK(u)'
  <2>1. SameWorker(u)
    BY <1>3, <1>8, TakeShape DEF SameWorker
  <2>2. TalkOK(u)' /\ FramesOK(u)' /\ ProgramOK(u)' /\ ExitOK(u)' /\ BatchOK(u)'
    BY <2>1, <1>2, <1>6, <1>8, Quiet DEF Early
  <2>. QED  BY <2>2, <1>7 DEF WorkerOK
<1>9. WorkerOK(t)'
  <2>1. TalkOK(t)' /\ FramesOK(t)' /\ ProgramOK(t)' /\ ExitOK(t)' /\ BatchOK(t)'
    BY <1>2, <1>3, <1>6, TakeShape, Taken DEF Early, Rounds
  <2>. QED  BY <2>1, <1>7 DEF WorkerOK
<1>. QED  BY <1>4, <1>5, <1>8, <1>9

(* ... and to one that has been made to all of them.                       *)
LEMMA ReceivesAllOK ==
  ASSUME IndInv, At(phase), Elsewhere,
         toDriver[turn] # << >>, DriverTakes(turn), turn' = turn + 1,
         UNCHANGED <<toWorker, driverAlive, workerState, phase, iteration, mail,
                     inboxes, unsent, saved>>,
         phase \in {"restored", "checkpointed", "collect"},
         phase = "restored" => Head(toDriver[turn]).type = "CheckpointLoaded"
  PROVE  IndInv'
<1>. USE DEF IndInv, Elsewhere, workerVars
<1>1. PICK t \in Worker : t = turn
  BY DEF At, Worker, Shape
<1>2. NoRevival /\ driverAlive
  BY DEF NoRevival, At
<1>3. toDriver[t] # << >> /\ DriverTakes(t)
  BY <1>1
<1>4. Shape'
  <2>1. turn' \in 1 .. (N + 1)
    BY <1>1, SizeAssumption DEF Worker
  <2>. QED  BY <1>3, <2>1, TakeShape DEF Shape, Early
<1>5. FailsOnlyForCause'
  BY <1>2 DEF FailsOnlyForCause
<1>6. ASSUME NEW u \in Worker, u # t PROVE WorkerOK(u)'
  <2>1. SameWorker(u)
    BY <1>3, <1>6, TakeShape DEF SameWorker
  <2>. QED  BY <2>1, <1>1, <1>2, <1>6, Passed
<1>7. WorkerOK(t)'
  <2>1. ~Owes(t)' /\ Owes(t)
    BY <1>1 DEF Owes, Worker
  <2>2. /\ TalkOK(t)' /\ FramesOK(t)' /\ ProgramOK(t)' /\ ExitOK(t)' /\ BatchOK(t)'
        /\ NoQuestion(t)'
    BY <1>2, <1>3, <2>1, TakeShape, Taken DEF Early, Rounds
  <2>3. ImagesOK(t)'
    BY <2>2 DEF WorkerOK, ImagesOK, Made
  <2>4. ComputedOK(t)'
    <3>1. Head(toDriver[t]) = toDriver[t][1] /\ 1 \in 1 .. Len(toDriver[t])
      BY <1>3, QueueTail DEF Shape
    <3>2. phase = "restored" => computed[t] = saved.iteration
      BY <1>1, <3>1 DEF WorkerOK, ComputedOK
    <3>. QED  BY <3>2 DEF WorkerOK, ComputedOK
  <2>. QED  BY <2>2, <2>3, <2>4 DEF WorkerOK
<1>. QED  BY <1>4, <1>5, <1>6, <1>7

LEMMA ConnectOK ==
  ASSUME IndInv, Connect, Elsewhere
  PROVE  IndInv'
<1>. USE DEF IndInv, Elsewhere, workerVars
<1>1. PICK t \in Worker : t = turn
  BY DEF Connect, At, Worker, Shape
<1>2. /\ driverAlive /\ driverAlive' /\ NoRevival
      /\ phase = "connect" /\ phase' = "handshake" /\ workerState[t] = "listening"
      /\ workerState' = [workerState EXCEPT ![t] = "accepted"]
      /\ UNCHANGED <<toWorker, toDriver, turn, iteration, mail, inboxes, unsent, saved>>
  BY <1>1 DEF Connect, At, channels, NoRevival
<1>3. Shape' /\ FailsOnlyForCause'
  BY <1>2 DEF Shape, Early, FailsOnlyForCause
<1>4. \A u \in Worker : ~Owes(u) /\ (Owes(u)' <=> u = t)
  BY <1>1, <1>2 DEF Owes
<1>5. \A u \in Worker : ImagesOK(u)' /\ ComputedOK(u)'
  BY <1>2, NothingComputed DEF Rounds
<1>6. ASSUME NEW u \in Worker, u # t PROVE WorkerOK(u)'
  <2>1. SameWorker(u)
    BY <1>2, <1>6 DEF SameWorker, Shape
  <2>2. TalkOK(u)' /\ FramesOK(u)' /\ ProgramOK(u)' /\ ExitOK(u)' /\ BatchOK(u)'
    BY <2>1, <1>2, <1>4, <1>6, Quiet DEF Early
  <2>. QED  BY <2>2, <1>5 DEF WorkerOK
<1>7. WorkerOK(t)'
  <2>1. Idle(t) /\ ~Gone(t) /\ NoQuestion(t) /\ workerState'[t] = "accepted"
    BY <1>2, <1>4 DEF WorkerOK, TalkOK, Idle, Gone, Shape
  <2>2. NoQuestion(t)' /\ ~Gone(t)'
    BY <2>1, <1>2 DEF NoQuestion, Gone
  <2>3. TalkOK(t)'
    BY <1>2, <1>4, <2>1, <2>2 DEF TalkOK, Asked, Idle
  <2>4. ~Fed(t) /\ ~Fed(t)'
    BY <1>2 DEF Fed
  <2>5. FramesOK(t)' /\ ProgramOK(t)' /\ ExitOK(t)'
    BY <1>2, <2>1, <2>2, <2>4 DEF WorkerOK, FramesOK, FrameOK, Programmed, ProgramOK,
       ExitOK, Early
  <2>6. BatchOK(t)'
    BY <2>1, <2>4 DEF WorkerOK, BatchOK
  <2>. QED  BY <1>5, <2>3, <2>5, <2>6 DEF WorkerOK
<1>. QED  BY <1>3, <1>6, <1>7

(* A result batch: the worker is through with its last one.                *)
LEMMA ReceiveResultOK ==
  ASSUME IndInv, ReceiveResult, Elsewhere
  PROVE  IndInv'
<1>. USE DEF IndInv, Elsewhere, workerVars
<1>1. PICK t \in Worker : t = turn
  BY DEF ReceiveResult, At, Worker, Shape
<1>2. /\ driverAlive /\ driverAlive' /\ NoRevival /\ phase = "receive"
      /\ toDriver[t] # << >> /\ DriverTakes(t)
      /\ Head(toDriver[t]).type = "SuperstepResultBatch"
      /\ turn' = IF Head(toDriver[t]).last THEN turn + 1 ELSE turn
      /\ UNCHANGED <<toWorker, workerState, phase, iteration, mail, inboxes, unsent,
                     saved>>
  BY <1>1 DEF ReceiveResult, At, Receives, NoRevival
<1>3. turn' \in {turn, turn + 1} /\ turn' \in 1 .. (N + 1)
  BY <1>1, <1>2, SizeAssumption DEF Worker
<1>4. Shape' /\ FailsOnlyForCause'
  BY <1>2, <1>3, TakeShape DEF Shape, Early, FailsOnlyForCause
<1>5. ASSUME NEW u \in Worker, u # t PROVE WorkerOK(u)'
  <2>1. SameWorker(u)
    BY <1>2, <1>5, TakeShape DEF SameWorker
  <2>. QED  BY <2>1, <1>1, <1>2, <1>3, <1>5, Passed
<1>6. WorkerOK(t)'
  <2>. DEFINE q == toDriver[t]
  <2>1. Owes(t) /\ Answered(t)
    BY <1>2 DEF WorkerOK, TalkOK, Idle, Asked
  <2>2. /\ Head(q) = q[1] /\ Len(q) \in Nat \ {0} /\ Len(Tail(q)) = Len(q) - 1
        /\ \A i \in 1 .. (Len(q) - 1) : Tail(q)[i] = q[i + 1]
        /\ Len(q) = 1 => Tail(q) = << >>
    BY <1>2, QueueTail DEF Shape
  <2>3. toDriver'[t] = Tail(q)
    BY <1>2, TakeShape
  <2>4. NoQuestion(t) /\ NoQuestion(t)' /\ (Gone(t)' <=> Gone(t))
    BY <1>2, <2>1 DEF Answered, NoQuestion, Gone
  <2>5. ~Fed(t) /\ ~Fed(t)'
    BY <1>2, <2>4 DEF Fed
  <2>6. \A i \in 1 .. Len(toDriver'[t]) : toDriver'[t][i] = q[i + 1] /\ i + 1 \in 1 .. Len(q)
    BY <2>2, <2>3
  <2>7. ASSUME Head(q).last PROVE TalkOK(t)'
    <3>1. 1 = Len(q) /\ workerState[t] # "emitting"
      <4>1. 1 \in 1 .. Len(q)
        BY <2>2
      <4>. QED  BY <4>1, <1>2, <2>1, <2>2, <2>7 DEF Answered, Rounds
    <3>2. toDriver'[t] = << >> /\ ~Owes(t)'
      BY <1>1, <1>2, <2>2, <2>3, <2>7, <3>1 DEF Owes, Worker
    <3>. QED  BY <1>2, <2>1, <2>4, <3>1, <3>2 DEF TalkOK, Idle, Answered
  <2>8. ASSUME ~Head(q).last PROVE TalkOK(t)'
    <3>1. Owes(t)'
      BY <1>2, <2>1, <2>8 DEF Owes
    <3>2. ASSUME NEW i \in 1 .. Len(toDriver'[t])
          PROVE  /\ toDriver'[t][i].type = Answer[phase]
                 /\ toDriver'[t][i].last =>
                      i = Len(toDriver'[t]) /\ workerState[t] # "emitting"
      <4>1. toDriver'[t][i] = q[i + 1] /\ i + 1 \in 1 .. Len(q)
        BY <2>6
      <4>2. Len(toDriver'[t]) = Len(q) - 1
        BY <2>2, <2>3
      <4>3. i + 1 = Len(q) => i = Len(toDriver'[t])
        BY <2>2, <4>2
      <4>. QED  BY <1>2, <2>1, <4>1, <4>3 DEF Answered, ErrorDue, FileCalls
    <3>3. Answered(t)'
      BY <1>2, <2>1, <2>4, <3>2 DEF Answered
    <3>. QED  BY <3>1, <3>3 DEF TalkOK
  <2>9. FramesOK(t)' /\ ProgramOK(t)' /\ ExitOK(t)'
    <3>1. ASSUME NEW i \in 1 .. Len(toWorker[t]), ~Gone(t)
          PROVE  toWorker[t][i].type \notin {"SuperstepBatch", "CreateCheckpoint",
                               "LoadCheckpoint", "DumpVerticesCsv", "Shutdown"}
      <4>1. FrameOK(t, i) /\ ~Asking(toWorker[t][i])
        BY <2>4, <3>1 DEF WorkerOK, FramesOK, NoQuestion
      <4>. QED  BY <4>1, <1>2, <2>5 DEF FrameOK, Asking
    <3>2. FramesOK(t)'
      BY <1>2, <2>4, <3>1 DEF FramesOK, FrameOK
    <3>. QED  BY <3>2, <1>2, <2>4 DEF WorkerOK, ProgramOK, ExitOK, Programmed, Early
  <2>10. ImagesOK(t)' /\ BatchOK(t)'
    BY <1>2, <2>4, <2>5 DEF WorkerOK, ImagesOK, Made, BatchOK
  <2>11. ComputedOK(t)'
    BY <1>2 DEF WorkerOK, ComputedOK
  <2>. QED  BY <2>7, <2>8, <2>9, <2>10, <2>11 DEF WorkerOK
<1>. QED  BY <1>1, <1>4, <1>5, <1>6

(* The next call begins; every worker has answered the last one, or it has *)
(* only been made.                                                         *)
LEMMA IdleInvs ==
  ASSUME NEW w \in Worker, Shape, WorkerOK(w), Elsewhere,
         UNCHANGED <<toWorker, toDriver, workerState>>, driverAlive, driverAlive',
         turn > N, turn' = 1,
         phase \in {"connect", "load", "algorithm", "collect", "dump", "shutdown",
                    "restored", "receive", "checkpointed", "seal"},
         phase' # "handshake", phase' \notin {"loaded", "sealed", "dumped", "restored",
                                            "receive", "collect", "checkpointed"},
         phase' \in Early \cup {"algorithm"} \/ phase \notin Early,
         phase = "shutdown" => phase' = "done"
  PROVE  /\ TalkOK(w)' /\ FramesOK(w)' /\ ProgramOK(w)' /\ ExitOK(w)'
         /\ phase' # "send" => BatchOK(w)'
         /\ NoQuestion(w)' /\ toDriver'[w] = << >> /\ workerState'[w] # "emitting"
<1>. USE DEF Elsewhere, workerVars
<1>1. SameWorker(w) /\ NoRevival
  BY DEF SameWorker, NoRevival
<1>2. w < turn /\ ~(w >= turn) /\ w >= turn' /\ ~(w < turn')
  BY SizeAssumption DEF Shape, Worker
<1>3. ~Owes(w) /\ ~Owes(w)'
  BY <1>2 DEF Owes, Worker, Shape
<1>. QED  BY <1>1, <1>2, <1>3, Quiet DEF Early

(* One batch of an inbox: what is left of it, what is on its way and what  *)
(* the worker holds make up the inbox again.                               *)
LEMMA SendBatchOK ==
  ASSUME IndInv, SendBatch, Elsewhere
  PROVE  IndInv'
<1>. USE DEF IndInv, Elsewhere, workerVars
<1>1. PICK t \in Worker : t = turn
  BY DEF SendBatch, At, Worker, Shape
<1>2. /\ driverAlive /\ driverAlive' /\ NoRevival /\ phase = "send" /\ t <= inboxes.count
      /\ UNCHANGED <<toDriver, workerState, phase, iteration, mail, inboxes, saved>>
  BY <1>1 DEF SendBatch, At, NoRevival
<1>3. PICK f :
        /\ f.type = "SuperstepBatch" /\ f.iteration = iteration /\ f.last \in BOOLEAN
        /\ DriverSends(t, f)
        /\ Within(f.inbox, unsent)
        /\ f.last => unsent' = RouteTo(mail, inboxes.part, t + 1)
        /\ ~f.last => Within(unsent', unsent)
        /\ \A e \in DOMAIN unsent :
             e \in DOMAIN f.inbox \/ (~f.last /\ e \in DOMAIN unsent')
        /\ turn' = IF f.last THEN t + 1 ELSE t
  <2>. DEFINE targets == {e.dst : e \in DOMAIN unsent}
  <2>1. PICK batch \in NextBatch(targets) :
          LET now == {e \in DOMAIN unsent : e.dst \in batch}
              last == batch = targets
          IN  /\ DriverSends(turn, [ type      |-> "SuperstepBatch",
                                     iteration |-> iteration,
                                     inbox     |-> Restrict(unsent, now),
                                     last      |-> last ])
              /\ unsent' = IF last THEN RouteTo(mail, inboxes.part, turn + 1)
                           ELSE Restrict(unsent, DOMAIN unsent \ now)
              /\ turn' = IF last THEN turn + 1 ELSE turn
    BY DEF SendBatch
  <2>2. PICK now : now = {e \in DOMAIN unsent : e.dst \in batch}
    OBVIOUS
  <2>3. PICK last \in BOOLEAN : last = (batch = targets)
    OBVIOUS
  <2>4. PICK f : f = [ type |-> "SuperstepBatch", iteration |-> iteration,
                       inbox |-> Restrict(unsent, now), last |-> last ]
    OBVIOUS
  <2>5. DriverSends(turn, f)
    BY <2>1, <2>2, <2>3, <2>4
  <2>6. /\ f.type = "SuperstepBatch" /\ f.iteration = iteration /\ f.last = last
        /\ f.inbox = Restrict(unsent, now)
    BY <2>4
  <2>7. /\ unsent' = IF last THEN RouteTo(mail, inboxes.part, turn + 1)
                     ELSE Restrict(unsent, DOMAIN unsent \ now)
        /\ turn' = IF last THEN turn + 1 ELSE turn
    BY <2>1, <2>2, <2>3
  <2>8. now \subseteq DOMAIN unsent /\ (last => now = DOMAIN unsent)
    BY <2>2, <2>3
  <2>9. Within(f.inbox, unsent) /\ (~last => Within(unsent', unsent))
    BY <2>6, <2>7, <2>8 DEF Within, Restrict
  <2>10. \A e \in DOMAIN unsent :
           e \in DOMAIN f.inbox \/ (~last /\ e \in DOMAIN unsent')
    BY <2>6, <2>7, <2>8 DEF Restrict
  <2>. QED  BY <1>1, <2>5, <2>6, <2>7, <2>9, <2>10
<1>. DEFINE last == f.last
<1>4. Shape' /\ FailsOnlyForCause'
  <2>1. /\ DOMAIN toWorker' = Worker
        /\ \A u \in Worker : IsQueue(toWorker'[u]) /\ IsQueue(toDriver'[u])
    BY <1>2, <1>3, SendShape DEF Shape
  <2>2. turn' \in 1 .. (N + 1) /\ turn' <= inboxes.count + 1
    BY <1>2, <1>3, SizeAssumption DEF Worker, Shape
  <2>. QED  BY <1>2, <2>1, <2>2 DEF Shape, Early, FailsOnlyForCause
<1>5. ASSUME NEW w \in Worker, w # t PROVE WorkerOK(w)'
  <2>1. SameWorker(w)
    BY <1>2, <1>3, <1>5, SendShape DEF SameWorker
  <2>2. (Gone(w)' <=> Gone(w)) /\ (NoQuestion(w)' <=> NoQuestion(w))
    BY <2>1 DEF SameWorker, Gone, NoQuestion
  <2>3. Owes(w)' <=> Owes(w)
    BY <1>1, <1>2, <1>3, <1>5 DEF Owes, Worker
  <2>4. /\ Fed(w) <=> ~NoQuestion(w)
        /\ w # turn' => (Fed(w)' <=> Fed(w))
        /\ Fed(w) => Fed(w)'
        /\ Rest(w) = NoMail
        /\ w # turn' => Rest(w)' = NoMail
    BY <1>1, <1>2, <1>5, <2>2 DEF Fed, Rest
  <2>5. TalkOK(w)' /\ FramesOK(w)' /\ ProgramOK(w)' /\ ExitOK(w)'
    <3>1. ErrorDue(w) => ErrorDue(w)'
      BY <1>2 DEF ErrorDue, NoRevival
    <3>2. TalkOK(w)'
      BY <1>2, <2>1, <2>2, <2>3, <3>1 DEF SameWorker, WorkerOK, TalkOK, Idle, Asked,
         Answered
    <3>. QED  BY <1>2, <2>1, <2>2, <2>3, <2>4, <3>2 DEF SameWorker, WorkerOK, FramesOK,
              FrameOK, Programmed, ProgramOK, ExitOK, Early, NoRevival
  <2>6. ImagesOK(w)' /\ ComputedOK(w)'
    BY <1>2, <2>2 DEF WorkerOK, ImagesOK, Made, ComputedOK
  <2>7. CASE w # turn'
    <3>1. BatchOK(w)'
      BY <1>2, <2>1, <2>2, <2>4, <2>7 DEF SameWorker, WorkerOK, BatchOK, Feeding, Held,
         Batch, Inbox
    <3>. QED  BY <2>5, <2>6, <3>1 DEF WorkerOK
  <2>8. CASE w = turn'
    <3>1. w = t + 1 /\ last
      BY <1>3, <1>5, <2>8
    <3>2. ~Owes(w)
      BY <1>1, <1>2, <3>1 DEF Owes, Worker
    <3>3. NoQuestion(w) /\ ~Fed(w)
      BY <2>4, <3>2 DEF WorkerOK, TalkOK, Idle
    <3>4. CASE Gone(w)
      BY <2>2, <2>5, <2>6, <3>4 DEF WorkerOK, BatchOK
    <3>5. CASE ~Gone(w)
      <4>1. pendingIteration[w] = 0
        BY <3>3, <3>5 DEF WorkerOK, BatchOK
      <4>2. \A i \in 1 .. Len(toWorker[w]) : ~Batch(w, i)
        BY <3>3, <3>5 DEF WorkerOK, FramesOK, FrameOK, Batch
      <4>3. DOMAIN Held(w)' = {}
        BY <1>2, <4>1, EmptyQueue DEF Held, Shape
      <4>4. Rest(w)' = Inbox(w)'
        BY <1>2, <1>3, <2>8, <3>1 DEF Rest, Inbox
      <4>5. Feeding(w)'
        BY <2>1, <4>1, <4>2, <4>3, <4>4 DEF Feeding, Within, Batch, SameWorker
      <4>6. BatchOK(w)'
        BY <4>1, <4>5 DEF BatchOK
      <4>. QED  BY <2>5, <2>6, <4>6 DEF WorkerOK
    <3>. QED  BY <3>4, <3>5
  <2>. QED  BY <2>7, <2>8
<1>6. WorkerOK(t)'
  <2>. DEFINE q == toWorker[t]
  <2>. PICK n : n = Len(toWorker[t])
    OBVIOUS
  <2>1. /\ ~Owes(t) /\ Idle(t) /\ NoQuestion(t) /\ toDriver[t] = << >>
        /\ workerState[t] \notin {"accepted", "emitting"}
        /\ Owes(t)' <=> last
    BY <1>1, <1>2, <1>3 DEF Owes, WorkerOK, TalkOK, Idle, Worker
  <2>2. (Gone(t)' <=> Gone(t)) /\ Fed(t)
    BY <1>1, <1>2 DEF Gone, Fed
  <2>3. ImagesOK(t)' /\ ComputedOK(t)' /\ ExitOK(t)'
    BY <1>2, <2>2 DEF WorkerOK, ImagesOK, Made, ComputedOK, ExitOK, NoRevival
  <2>4. CASE Gone(t)
    <3>1. NoQuestion(t)' /\ Idle(t)'
      BY <1>2, <2>1, <2>2, <2>4 DEF NoQuestion, Idle
    <3>2. Answered(t)'
      BY <1>2, <2>1, <3>1, EmptyQueue, ShortQueue DEF Answered, Idle
    <3>. QED  BY <2>2, <2>3, <2>4, <3>1, <3>2 DEF WorkerOK, TalkOK, FramesOK, ProgramOK,
              BatchOK
  <2>5. CASE ~Gone(t)
    <3>1. toWorker'[t] = Append(q, f)
      BY <1>3, <2>5 DEF DriverSends, Gone, Shape
    <3>2. /\ n \in Nat /\ Len(toWorker'[t]) = n + 1 /\ toWorker'[t] # << >>
          /\ \A i \in 1 .. n : toWorker'[t][i] = q[i]
          /\ toWorker'[t][n + 1] = f
      <4>1. IsQueue(q)
        BY DEF Shape
      <4>. QED  BY <4>1, <3>1, QueueAppend
    <3>3. /\ \A i \in 1 .. Len(toWorker'[t]) : i \in 1 .. n \/ i = n + 1
          /\ \A i \in 1 .. n : i \in 1 .. Len(toWorker'[t]) /\ i # n + 1
          /\ n + 1 \in 1 .. Len(toWorker'[t])
      BY <3>2
    <3>4. \A i \in 1 .. n : ~Asking(q[i])
      BY <2>1, <2>5 DEF NoQuestion
    <3>5. Asking(f) <=> last
      BY <1>3 DEF Asking
    <3>6. TalkOK(t)' /\ Fed(t)'
      <4>1. CASE ~last
        <5>1. \A i \in 1 .. Len(toWorker'[t]) : ~Asking(toWorker'[t][i])
          BY <3>2, <3>3, <3>4, <3>5, <4>1
        <5>2. NoQuestion(t)'
          BY <5>1 DEF NoQuestion, Asking
        <5>. QED  BY <1>1, <1>2, <1>3, <2>1, <4>1, <5>2 DEF TalkOK, Idle, Fed
      <4>2. CASE last
        <5>1. \A i \in 1 .. Len(toWorker'[t]) :
                Asking(toWorker'[t][i]) <=> i = Len(toWorker'[t])
          BY <3>2, <3>3, <3>4, <3>5, <4>2
        <5>2. toWorker'[t][Len(toWorker'[t])].type = Question[phase']
          BY <1>2, <1>3, <3>2 DEF Question
        <5>3. workerState'[t] \notin {"accepted", "emitting", "exited"}
          BY <1>2, <2>1, <2>5 DEF Gone
        <5>4. Asked(t)'
          BY <1>2, <2>1, <3>2, <5>1, <5>2, <5>3 DEF Asked, Asking, Question
        <5>5. ~NoQuestion(t)'
          BY <2>2, <2>5, <3>2, <3>3, <5>1 DEF NoQuestion, Asking
        <5>. QED  BY <1>2, <2>1, <4>2, <5>4, <5>5 DEF TalkOK, Fed
      <4>. QED  BY <4>1, <4>2
    <3>7. ASSUME NEW m \in Int, m <= n + 1, Programmed(t, m) PROVE Programmed(t, m)'
      <4>1. \A j \in 1 .. (m - 1) : j \in 1 .. n
        BY <3>2, <3>7
      <4>. QED  BY <4>1, <3>2, <3>7 DEF Programmed
    <3>8. Programmed(t, n + 1)'
      <4>1. Programmed(t, n + 1)
        BY <1>2, <2>5 DEF WorkerOK, ProgramOK, Early
      <4>2. PICK m \in Int : m = n + 1
        BY <3>2
      <4>3. Programmed(t, m) => Programmed(t, m)'
        BY <3>7, <4>2
      <4>. QED  BY <4>1, <4>2, <4>3
    <3>9. FramesOK(t)'
      <4>1. ASSUME NEW i \in 1 .. Len(toWorker'[t]) PROVE FrameOK(t, i)'
        <5>1. CASE i \in 1 .. n
          <6>1. FrameOK(t, i) /\ toWorker'[t][i] = q[i]
            BY <2>5, <3>2, <5>1 DEF WorkerOK, FramesOK
          <6>2. i \in Int /\ i <= n + 1
            BY <3>2
          <6>3. Programmed(t, i) => Programmed(t, i)'
            BY <3>7, <6>2
          <6>. QED  BY <1>2, <3>6, <6>1, <6>3 DEF FrameOK
        <5>2. CASE i = n + 1
          <6>1. toWorker'[t][i] = f
            BY <3>2, <5>2
          <6>. QED  BY <1>2, <1>3, <3>6, <3>8, <5>2, <6>1 DEF FrameOK
        <5>. QED  BY <3>3, <5>1, <5>2
      <4>. QED  BY <4>1 DEF FramesOK
    <3>10. ProgramOK(t)'
      <4>1. \A j \in 1 .. (n + 1 - 1) : j \in 1 .. (n + 1 + 1 - 1)
        BY <3>2
      <4>2. Len(toWorker'[t]) + 1 - 1 = n + 1 + 1 - 1
        BY <3>2
      <4>3. Programmed(t, Len(toWorker[t]) + 1)'
        BY <3>8, <4>1, <4>2 DEF Programmed
      <4>. QED  BY <4>3 DEF ProgramOK
    <3>11. Feeding(t)'
      <4>1. Feeding(t) /\ Rest(t) = unsent
        BY <1>1, <1>2, <2>2, <2>5 DEF WorkerOK, BatchOK, Rest
      <4>2. Held(t)' = Held(t) /\ Inbox(t)' = Inbox(t) /\ pendingIteration'[t] \in {0, iteration'}
        BY <1>2, <4>1 DEF Held, Inbox, Feeding
      <4>3. Within(f.inbox, Inbox(t))
        BY <1>3, <4>1 DEF Feeding, Within
      <4>4. Within(Rest(t), Inbox(t))'
        <5>1. CASE last
          <6>1. Rest(t)' = NoMail
            BY <1>3, <5>1 DEF Rest, Worker
          <6>. QED  BY <6>1, EmptyQueue DEF Within
        <5>2. CASE ~last
          <6>1. Rest(t)' = unsent'
            BY <1>2, <1>3, <5>2 DEF Rest
          <6>2. Within(unsent', unsent) /\ Within(unsent, Inbox(t))
            BY <1>3, <4>1, <5>2 DEF Feeding
          <6>. QED  BY <4>2, <6>1, <6>2 DEF Within
        <5>. QED  BY <5>1, <5>2
      <4>5. \A i \in 1 .. Len(toWorker'[t]) :
              Batch(t, i)' => Within(toWorker'[t][i].inbox, Inbox(t))
        BY <3>2, <3>3, <4>1, <4>3 DEF Feeding, Batch
      <4>6. ASSUME NEW e \in DOMAIN Inbox(t), e \notin DOMAIN Held(t),
                   e \notin DOMAIN Rest(t)'
            PROVE  \E i \in 1 .. Len(toWorker'[t]) :
                     Batch(t, i)' /\ e \in DOMAIN toWorker'[t][i].inbox
        <5>1. CASE e \in DOMAIN unsent
          <6>1. ~last => Rest(t)' = unsent'
            BY <1>2, <1>3 DEF Rest
          <6>2. e \in DOMAIN f.inbox
            BY <1>3, <4>6, <5>1, <6>1
          <6>. QED  BY <1>3, <3>2, <3>3, <6>2 DEF Batch
        <5>2. CASE e \notin DOMAIN unsent
          <6>1. PICK i \in 1 .. n : Batch(t, i) /\ e \in DOMAIN q[i].inbox
            BY <4>1, <4>6, <5>2 DEF Feeding
          <6>. QED  BY <3>2, <3>3, <6>1 DEF Batch
        <5>. QED  BY <5>1, <5>2
      <4>7. Within(Held(t), Inbox(t))'
        BY <4>1, <4>2 DEF Feeding, Within
      <4>. QED  BY <4>2, <4>4, <4>5, <4>6, <4>7 DEF Feeding, Within
    <3>12. BatchOK(t)'
      BY <3>6, <3>11 DEF BatchOK
    <3>. QED  BY <2>3, <3>6, <3>9, <3>10, <3>12 DEF WorkerOK
  <2>. QED  BY <2>4, <2>5
<1>. QED  BY <1>1, <1>4, <1>5, <1>6

(* All workers are asked; the driver begins to wait for their answers.     *)
LEMMA AwaitsAll ==
  ASSUME NEW w \in Worker, Shape, WorkerOK(w), SameWorker(w), NoRevival, turn' = 1,
         UNCHANGED <<iteration, mail, inboxes, unsent, saved, found>>,
         \/ phase = "restore" /\ phase' = "restored" /\ turn > N
         \/ phase = "checkpoint" /\ phase' = "checkpointed" /\ turn > N
         \/ phase = "fetch" /\ phase' = "collect" /\ turn > N
         \/ phase = "send" /\ phase' = "receive" /\ (turn > N \/ turn > inboxes.count)
  PROVE  WorkerOK(w)'
<1>. USE DEF SameWorker
<1>1. (Gone(w)' <=> Gone(w)) /\ (NoQuestion(w)' <=> NoQuestion(w))
  BY DEF Gone, NoQuestion
<1>2. w \in Nat /\ w >= 1 /\ w <= N /\ N \in Nat /\ turn \in Nat /\ inboxes.count \in Nat
  BY SizeAssumption DEF Worker, Shape
<1>3. Owes(w)' <=> Owes(w)
  <2>1. phase = "send" => (w < turn <=> w <= inboxes.count)
    BY <1>2 DEF Shape
  <2>2. phase # "send" => Owes(w) /\ Owes(w)'
    BY <1>2 DEF Owes
  <2>3. phase = "send" => (Owes(w) <=> w < turn) /\ (Owes(w)' <=> w <= inboxes.count)
    BY <1>2 DEF Owes
  <2>. QED  BY <2>1, <2>2, <2>3
<1>4. Fed(w)' <=> Fed(w)
  BY <1>1, <1>2 DEF Fed
<1>5. phase = "send" /\ Fed(w) => w # turn
  BY <1>2 DEF Fed, Owes, WorkerOK, TalkOK, Idle
<1>6. Question[phase'] = Question[phase] /\ Answer[phase'] = Answer[phase]
  BY DEF Question, Answer
<1>7. TalkOK(w)'
  <2>1. CASE ~Owes(w)
    BY <1>1, <1>3, <2>1 DEF WorkerOK, TalkOK, Idle
  <2>2. CASE Owes(w) /\ Asked(w)
    BY <1>1, <1>3, <1>6, <2>2 DEF TalkOK, Asked
  <2>3. CASE Owes(w) /\ Answered(w)
    <3>1. ErrorDue(w) => ErrorDue(w)'
      BY DEF NoRevival, ErrorDue, FileCalls
    <3>2. Answered(w)'
      BY <1>1, <1>6, <2>3, <3>1 DEF Answered
    <3>. QED  BY <1>3, <2>3, <3>2 DEF TalkOK
  <2>. QED  BY <2>1, <2>2, <2>3 DEF WorkerOK, TalkOK
<1>8. FramesOK(w)'
  BY <1>1, <1>4 DEF WorkerOK, FramesOK, FrameOK, Programmed
<1>9. ProgramOK(w)' /\ ExitOK(w)'
  BY <1>1 DEF NoRevival, WorkerOK, ProgramOK, ExitOK, Programmed, Early
<1>10. ImagesOK(w)' /\ ComputedOK(w)'
  BY <1>1, <1>2 DEF WorkerOK, ImagesOK, Made, ComputedOK
<1>11. BatchOK(w)'
  BY <1>1, <1>4, <1>5 DEF WorkerOK, BatchOK, Feeding, Held, Rest, Batch, Inbox
<1>. QED  BY <1>7, <1>8, <1>9, <1>10, <1>11 DEF WorkerOK

LEMMA NextCallOK ==
  ASSUME IndInv, NextCall, Elsewhere
  PROVE  IndInv'
<1>. USE DEF IndInv, Elsewhere, workerVars
<1>1. /\ driverAlive /\ driverAlive' /\ NoRevival /\ turn' = 1
      /\ UNCHANGED <<toWorker, toDriver, workerState, iteration, mail, inboxes,
                     unsent, saved>>
  BY DEF NextCall, Goto, channels, NoRevival
<1>2. \/ /\ turn > N
         /\ \/ phase = "connect" /\ phase' \in {"load", "stream"}
            \/ phase = "load" /\ phase' = "algorithm"
            \/ phase = "seal" /\ phase' = "algorithm"
            \/ phase = "algorithm" /\ phase' \in {"restore", "round"}
            \/ phase = "collect" /\ phase' = "shutdown"
            \/ phase = "dump" /\ phase' = "shutdown"
            \/ phase = "shutdown" /\ phase' = "done"
      \/ phase = "restore" /\ phase' = "restored" /\ turn > N
      \/ phase = "checkpoint" /\ phase' = "checkpointed" /\ turn > N
      \/ phase = "fetch" /\ phase' = "collect" /\ turn > N
      \/ phase = "send" /\ phase' = "receive" /\ (turn > N \/ turn > inboxes.count)
  <2>1. CASE Streaming
    BY <2>1 DEF NextCall, Goto, Successor, Graph500Calls
  <2>2. CASE ~Streaming
    BY <2>2 DEF NextCall, Goto, Successor, RunJobCalls
  <2>. QED  BY <2>1, <2>2
<1>3. Shape' /\ FailsOnlyForCause'
  <2>1. turn' \in 1 .. (N + 1)
    BY <1>1, SizeAssumption
  <2>. QED  BY <1>1, <1>2, <2>1 DEF Shape, Early, FailsOnlyForCause
<1>4. CASE phase \in {"restore", "checkpoint", "fetch", "send"}
  <2>1. \A w \in Worker : SameWorker(w)
    BY <1>1 DEF SameWorker
  <2>2. \A w \in Worker : WorkerOK(w)'
    BY <1>1, <1>2, <1>4, <2>1, AwaitsAll
  <2>. QED  BY <1>3, <2>2
<1>5. CASE phase \notin {"restore", "checkpoint", "fetch", "send"}
  <2>1. \A w \in Worker :
          /\ TalkOK(w)' /\ FramesOK(w)' /\ ProgramOK(w)' /\ ExitOK(w)' /\ BatchOK(w)'
          /\ toDriver'[w] = << >>
    BY <1>1, <1>2, <1>5, IdleInvs DEF Early
  <2>2. ASSUME NEW w \in Worker PROVE ImagesOK(w)' /\ ComputedOK(w)'
    <3>1. CASE phase' # "restore"
      BY <1>1, <1>2, <1>5, <3>1, NothingComputed DEF Rounds
    <3>2. CASE phase' = "restore"
      <4>1. phase = "algorithm" /\ iteration = 1
        BY <1>2, <1>5, <3>2 DEF Shape
      <4>2. \A k \in Made(w) : k \in Int /\ k <= saved.iteration
        BY <4>1 DEF WorkerOK, ImagesOK, Shape
      <4>3. ImagesOK(w)'
        BY <1>1, <3>2, <4>2 DEF ImagesOK, Made
      <4>4. 1 .. Len(toDriver'[w]) = {}
        BY <2>1, EmptyQueue, ShortQueue
      <4>. QED  BY <3>2, <4>3, <4>4 DEF ComputedOK
    <3>. QED  BY <3>1, <3>2
  <2>. QED  BY <1>3, <2>1, <2>2 DEF WorkerOK
<1>. QED  BY <1>4, <1>5

LEMMA StreamEndsOK ==
  ASSUME IndInv, StreamEnds, Elsewhere
  PROVE  IndInv'
<1>. USE DEF IndInv, Elsewhere, workerVars
<1>1. /\ driverAlive /\ driverAlive' /\ NoRevival /\ turn' = 1
      /\ phase = "stream" /\ phase' = "seal"
      /\ UNCHANGED <<toWorker, toDriver, workerState, iteration, mail, inboxes,
                     unsent, saved>>
  BY DEF StreamEnds, At, Goto, channels, NoRevival
<1>2. Shape' /\ FailsOnlyForCause'
  <2>1. turn' \in 1 .. (N + 1)
    BY <1>1, SizeAssumption
  <2>. QED  BY <1>1, <2>1 DEF Shape, Early, FailsOnlyForCause
<1>3. ASSUME NEW w \in Worker PROVE WorkerOK(w)'
  <2>1. SameWorker(w) /\ ~Owes(w) /\ ~Owes(w)'
    BY <1>1 DEF SameWorker, Owes
  <2>2. TalkOK(w)' /\ FramesOK(w)' /\ ProgramOK(w)' /\ ExitOK(w)' /\ BatchOK(w)'
    BY <1>1, <2>1, Quiet DEF Early
  <2>3. ImagesOK(w)' /\ ComputedOK(w)'
    BY <1>1, NothingComputed DEF Rounds
  <2>. QED  BY <2>2, <2>3 DEF WorkerOK
<1>. QED  BY <1>2, <1>3

(* A round begins with the whole inbox of the first worker not yet sent.   *)
LEMMA NextRoundOK ==
  ASSUME IndInv, NextRound, Elsewhere
  PROVE  IndInv'
<1>. USE DEF IndInv, Elsewhere, workerVars
<1>1. /\ driverAlive /\ driverAlive' /\ NoRevival /\ turn' = 1
      /\ phase = "round" /\ phase' \in {"send", "fetch", "dump"}
      /\ phase' = "send" => unsent' = RouteTo(mail, inboxes.part, 1)
      /\ UNCHANGED <<toWorker, toDriver, workerState, iteration, mail, inboxes, saved>>
  BY DEF NextRound, BeginRound, Collecting, Goto, channels, NoRevival
<1>2. Shape' /\ FailsOnlyForCause'
  <2>1. turn' \in 1 .. (N + 1) /\ (inboxes.count \in Nat => turn' <= inboxes.count + 1)
    BY <1>1, SizeAssumption
  <2>. QED  BY <1>1, <2>1 DEF Shape, Early, FailsOnlyForCause
<1>3. ASSUME NEW w \in Worker PROVE WorkerOK(w)'
  <2>1. SameWorker(w) /\ ~Owes(w) /\ ~Owes(w)' /\ Gone(w)' = Gone(w)
    BY <1>1 DEF SameWorker, Owes, Worker, Gone
  <2>2. /\ TalkOK(w)' /\ FramesOK(w)' /\ ProgramOK(w)' /\ ExitOK(w)'
        /\ phase' # "send" => BatchOK(w)'
        /\ NoQuestion(w)' /\ toDriver[w] = << >> /\ workerState[w] # "emitting"
        /\ Gone(w) \/ pendingIteration[w] = 0
        /\ Gone(w) \/ \A i \in 1 .. Len(toWorker[w]) : ~Batch(w, i)
    BY <1>1, <2>1, Quiet DEF Early
  <2>3. ImagesOK(w)' /\ ComputedOK(w)'
    BY <1>1, <2>2 DEF WorkerOK, ImagesOK, Made, ComputedOK, Worker, Shape
  <2>4. ASSUME phase' = "send", ~Gone(w) PROVE BatchOK(w)'
    <3>1. CASE ~Fed(w)'
      BY <1>1, <2>2, <2>4, <3>1 DEF BatchOK
    <3>2. CASE Fed(w)'
      <4>1. w = turn'
        BY <2>2, <3>2 DEF Fed
      <4>2. DOMAIN Held(w)' = {}
        BY <1>1, <2>2, <2>4, EmptyQueue DEF Held, Shape
      <4>3. Rest(w)' = Inbox(w)'
        BY <1>1, <2>4, <4>1 DEF Rest, Inbox
      <4>4. \A i \in 1 .. Len(toWorker'[w]) : ~Batch(w, i)'
        BY <1>1, <2>2, <2>4 DEF Batch
      <4>5. Feeding(w)'
        BY <2>2, <2>4, <4>2, <4>3, <4>4 DEF Feeding, Within
      <4>. QED  BY <3>2, <4>5 DEF BatchOK
    <3>. QED  BY <3>1, <3>2
  <2>5. BatchOK(w)'
    BY <2>1, <2>2, <2>4 DEF BatchOK
  <2>. QED  BY <2>2, <2>3, <2>5 DEF WorkerOK
<1>. QED  BY <1>2, <1>3

(* A round, a checkpoint or a recovery is over: all workers have answered. *)
LEMMA EndRoundOK ==
  ASSUME IndInv, EndRound \/ Publish \/ Recover, Elsewhere
  PROVE  IndInv'
<1>. USE DEF IndInv, Elsewhere, workerVars
<1>1. /\ driverAlive /\ driverAlive' /\ NoRevival /\ turn' = 1 /\ turn > N
      /\ UNCHANGED <<toWorker, toDriver, workerState, unsent>>
  BY DEF EndRound, Publish, Recover, Through, Goto, channels, NoRevival
<1>2. \/ /\ phase = "receive" /\ phase' \in {"checkpoint", "round", "fetch", "dump"}
         /\ iteration' = iteration + 1 /\ saved' = saved /\ inboxes'.count = N
      \/ /\ phase = "checkpointed" /\ phase' \in {"round", "fetch", "dump"}
         /\ iteration' = iteration /\ inboxes' = inboxes
         /\ saved'.iteration = iteration - 1 /\ saved'.inboxes = inboxes
      \/ /\ phase = "restored" /\ phase' = "round"
         /\ iteration' = saved.iteration + 1 /\ saved' = saved
         /\ inboxes' = saved.inboxes
  BY DEF EndRound, Publish, Recover, Through, Goto, AfterRound, Collecting, OwnInboxes
<1>3. Shape' /\ FailsOnlyForCause'
  <2>1. turn' \in 1 .. (N + 1)
    BY <1>1, SizeAssumption
  <2>2. saved'.iteration \in Nat /\ saved'.inboxes.count \in Nat
    BY <1>2 DEF Shape
  <2>3. iteration' \in Nat \ {0} /\ inboxes'.count \in Nat
    BY <1>2, SizeAssumption DEF Shape
  <2>. QED  BY <1>1, <1>2, <2>1, <2>2, <2>3 DEF Shape, Early, FailsOnlyForCause
<1>4. ASSUME NEW w \in Worker PROVE WorkerOK(w)'
  <2>1. /\ TalkOK(w)' /\ FramesOK(w)' /\ ProgramOK(w)' /\ ExitOK(w)' /\ BatchOK(w)'
        /\ NoQuestion(w)'
    BY <1>1, <1>2, IdleInvs DEF Early
  <2>2. w < turn /\ Made(w)' = Made(w) /\ computed'[w] = computed[w]
    BY <1>1, SizeAssumption DEF Worker, Shape, Made
  <2>3. \A k \in Made(w) : k \in Int
    BY DEF WorkerOK, ImagesOK
  <2>4. CASE phase = "receive"
    <3>1. computed[w] = iteration /\ \A k \in Made(w) : k <= iteration - 1
      BY <2>2, <2>4 DEF WorkerOK, ComputedOK, ImagesOK
    <3>2. ImagesOK(w)'
      BY <1>2, <2>2, <2>3, <2>4, <3>1 DEF ImagesOK, Shape
    <3>3. ComputedOK(w)'
      BY <1>2, <2>2, <2>4, <3>1 DEF ComputedOK, Shape
    <3>. QED  BY <2>1, <3>2, <3>3 DEF WorkerOK
  <2>5. CASE phase = "checkpointed"
    <3>1. computed[w] = iteration - 1 /\ \A k \in Made(w) : k <= iteration - 1
      BY <2>5 DEF WorkerOK, ComputedOK, ImagesOK
    <3>2. ImagesOK(w)' /\ ComputedOK(w)'
      BY <1>2, <2>2, <2>3, <2>5, <3>1 DEF ImagesOK, ComputedOK, Shape
    <3>. QED  BY <2>1, <3>2 DEF WorkerOK
  <2>6. CASE phase = "restored"
    <3>1. computed[w] = saved.iteration /\ \A k \in Made(w) : k <= saved.iteration
      BY <2>2, <2>6 DEF WorkerOK, ComputedOK, ImagesOK
    <3>2. ImagesOK(w)' /\ ComputedOK(w)'
      BY <1>2, <2>2, <2>3, <2>6, <3>1 DEF ImagesOK, ComputedOK, Shape
    <3>. QED  BY <2>1, <3>2 DEF WorkerOK
  <2>. QED  BY <1>2, <2>4, <2>5, <2>6
<1>. QED  BY <1>3, <1>4

(* An answer that is taken is one that was asked for.                      *)
LEMMA DriverFailsOK ==
  ASSUME IndInv, DriverFails, Elsewhere
  PROVE  IndInv'
<1>. USE DEF IndInv
<1>1. /\ SameDriver /\ NoRevival /\ \A w \in Worker : SameWorker(w)
      /\ driverAlive /\ turn <= N /\ Failure
      /\ UNCHANGED <<channels, workerState, driverVars, workerVars, found, crashes,
                     faulty>>
  BY DEF DriverFails, Elsewhere, SameDriver, SameWorker, NoRevival, channels, driverVars,
     workerVars
<1>2. \A w \in Worker : WorkerOK(w)'
  BY <1>1, Untouched
<1>3. Shape'
  BY <1>1 DEF Shape, channels, driverVars, workerVars
<1>4. PICK t \in Worker : t = turn
  BY <1>1 DEF Worker, Shape
<1>5. CASE crashes > 0 \/ phase = "connect"
  <2>1. FailsOnlyForCause'
    BY <1>1, <1>5 DEF FailsOnlyForCause, driverVars
  <2>. QED  BY <1>2, <1>3, <2>1
<1>6. CASE ~(crashes > 0) /\ phase # "connect"
  <2>1. crashes = 0
    BY <1>6 DEF Shape
  <2>2. phase \in DOMAIN Expected => phase \notin {"shutdown", "done"}
    BY DEF Expected
  <2>3. workerState[t] # "exited"
    <3>1. SUFFICES ASSUME Gone(t) PROVE FALSE
      BY DEF Gone
    <3>2. phase = "done"
      BY <1>1, <1>4, <2>1, <3>1 DEF WorkerOK, ExitOK, Worker
    <3>. QED  BY <1>1, <2>2, <3>2 DEF Failure
  <2>4. /\ phase \in DOMAIN Expected /\ toDriver[t] # << >>
        /\ Head(toDriver[t]).type # Expected[phase]
    BY <1>1, <1>4, <1>6, <2>3 DEF Failure
  <2>5. Answered(t)
    BY <2>4 DEF WorkerOK, TalkOK, Idle, Asked
  <2>6. Head(toDriver[t]) = toDriver[t][1] /\ 1 \in 1 .. Len(toDriver[t])
    BY <2>4, QueueTail DEF Shape
  <2>7. phase \in DOMAIN Expected => Answer[phase] = Expected[phase]
    BY DEF Answer, Expected
  <2>8. ErrorDue(t)
    BY <2>4, <2>5, <2>6, <2>7 DEF Answered
  <2>9. \/ phase = "checkpointed" /\ iteration - 1 \in found[t]
        \/ phase \in {"restored", "checkpointed", "dumped"} /\ t \in faulty
    BY <2>4, <2>8 DEF Expected, ErrorDue, FileCalls
  <2>10. FailsOnlyForCause'
    BY <1>1, <1>4, <2>9 DEF FailsOnlyForCause, driverVars
  <2>. QED  BY <1>2, <1>3, <2>10
<1>. QED  BY <1>5, <1>6

LEMMA DriverActsInd ==
  ASSUME IndInv, DriverActs
  PROVE  IndInv'
<1>1. Elsewhere /\ DriverStep
  BY DEF DriverActs, Elsewhere
<1>2. CASE Connect
  BY <1>1, <1>2, ConnectOK
<1>3. CASE DriverFails
  BY <1>1, <1>3, DriverFailsOK
<1>4. CASE NextCall \/ StreamEnds \/ NextRound \/ EndRound \/ Publish \/ Recover
  BY <1>1, <1>4, NextCallOK, StreamEndsOK, NextRoundOK, EndRoundOK
<1>5. CASE SendBatch \/ ReceiveResult
  BY <1>1, <1>5, SendBatchOK, ReceiveResultOK
<1>6. CASE LoadAll
  <2>1. PICK f : f = [type |-> "LoadGraph", graph |-> PartitionOf(turn)]
    OBVIOUS
  <2>2. f.type = "LoadGraph"
    BY <2>1
  <2>3. /\ At(phase) /\ DriverSends(turn, f) /\ turn' = turn + 1 /\ phase = "load"
        /\ UNCHANGED <<toDriver, driverAlive, workerState, phase, iteration, mail,
                       inboxes, unsent, nextMail, result, unloaded, saved>>
    BY <1>6, <2>1 DEF LoadAll, SendsToAll, At
  <2>. QED  BY <1>1, <2>2, <2>3, SendsToAllOK
<1>7. CASE SetAlgorithmAll
  <2>1. PICK f : f = [type |-> "SetAlgorithm"]
    OBVIOUS
  <2>2. f.type = "SetAlgorithm"
    BY <2>1
  <2>3. /\ At(phase) /\ DriverSends(turn, f) /\ turn' = turn + 1 /\ phase = "algorithm"
        /\ UNCHANGED <<toDriver, driverAlive, workerState, phase, iteration, mail,
                       inboxes, unsent, nextMail, result, unloaded, saved>>
    BY <1>7, <2>1 DEF SetAlgorithmAll, SendsToAll, At
  <2>. QED  BY <1>1, <2>2, <2>3, SendsToAllOK
<1>8. CASE LoadCheckpointAll
  <2>1. PICK f : f = [type |-> "LoadCheckpoint", iteration |-> saved.iteration]
    OBVIOUS
  <2>2. f.type = "LoadCheckpoint" /\ f.iteration = saved.iteration
    BY <2>1
  <2>3. /\ At(phase) /\ DriverSends(turn, f) /\ turn' = turn + 1 /\ phase = "restore"
        /\ UNCHANGED <<toDriver, driverAlive, workerState, phase, iteration, mail,
                       inboxes, unsent, nextMail, result, unloaded, saved>>
    BY <1>8, <2>1 DEF LoadCheckpointAll, SendsToAll, At
  <2>. QED  BY <1>1, <2>2, <2>3, SendsToAllOK
<1>9. CASE CreateCheckpointAll
  <2>1. PICK f : f = [type |-> "CreateCheckpoint", iteration |-> iteration - 1]
    OBVIOUS
  <2>2. f.type = "CreateCheckpoint" /\ f.iteration = iteration - 1
    BY <2>1
  <2>3. /\ At(phase) /\ DriverSends(turn, f) /\ turn' = turn + 1 /\ phase = "checkpoint"
        /\ UNCHANGED <<toDriver, driverAlive, workerState, phase, iteration, mail,
                       inboxes, unsent, nextMail, result, unloaded, saved>>
    BY <1>9, <2>1 DEF CreateCheckpointAll, SendsToAll, At
  <2>. QED  BY <1>1, <2>2, <2>3, SendsToAllOK
<1>10. CASE FetchAll
  <2>1. PICK f : f = [type |-> "FetchVertices"]
    OBVIOUS
  <2>2. f.type = "FetchVertices"
    BY <2>1
  <2>3. /\ At(phase) /\ DriverSends(turn, f) /\ turn' = turn + 1 /\ phase = "fetch"
        /\ UNCHANGED <<toDriver, driverAlive, workerState, phase, iteration, mail,
                       inboxes, unsent, nextMail, result, unloaded, saved>>
    BY <1>10, <2>1 DEF FetchAll, SendsToAll, At
  <2>. QED  BY <1>1, <2>2, <2>3, SendsToAllOK
<1>11. CASE ShutdownAll
  <2>1. PICK f : f = [type |-> "Shutdown"]
    OBVIOUS
  <2>2. f.type = "Shutdown"
    BY <2>1
  <2>3. /\ At(phase) /\ DriverSends(turn, f) /\ turn' = turn + 1 /\ phase = "shutdown"
        /\ UNCHANGED <<toDriver, driverAlive, workerState, phase, iteration, mail,
                       inboxes, unsent, nextMail, result, unloaded, saved>>
    BY <1>11, <2>1 DEF ShutdownAll, SendsToAll, At
  <2>. QED  BY <1>1, <2>2, <2>3, SendsToAllOK
<1>12. ASSUME NEW w \in Worker, NEW g, NEW last, SendGraphBatch(w, g, last), driverAlive,
              (phase = "stream" /\ ~last) \/ (phase = "seal" /\ last)
       PROVE  IndInv'
  <2>1. PICK f : f = [type |-> "LoadGraphBatch", graph |-> g, last |-> last]
    OBVIOUS
  <2>2. f.type = "LoadGraphBatch"
    BY <2>1
  <2>3. /\ DriverSends(w, f) /\ turn' = w
        /\ phase' = IF last THEN "sealed" ELSE "loaded"
        /\ UNCHANGED <<toDriver, driverAlive, workerState, iteration, mail,
                       inboxes, unsent, saved>>
    BY <1>12, <2>1 DEF SendGraphBatch
  <2>. QED  BY <1>1, <1>12, <2>2, <2>3, SendsToOneOK
<1>13. CASE StreamBatch
  <2>1. \E w \in Worker : \E g : SendGraphBatch(w, g, FALSE)
    BY <1>13 DEF StreamBatch
  <2>2. driverAlive /\ phase = "stream"
    BY <1>13 DEF StreamBatch, At
  <2>. QED  BY <1>12, <2>1, <2>2
<1>14. CASE SealBatch
  <2>1. PICK t \in Worker : t = turn
    BY <1>14 DEF SealBatch, At, IndInv, Shape, Worker
  <2>2. SendGraphBatch(t, [vertices |-> NoMail, edges |-> {}], TRUE)
    BY <1>14, <2>1 DEF SealBatch
  <2>. QED  BY <1>12, <1>14, <2>2 DEF SealBatch, At
<1>15. CASE DumpPart
  <2>1. PICK t \in Worker : t = turn
    BY <1>15 DEF DumpPart, At, IndInv, Shape, Worker
  <2>2. PICK f : f = [type |-> "DumpVerticesCsv"]
    OBVIOUS
  <2>3. f.type = "DumpVerticesCsv"
    BY <2>2
  <2>4. /\ DriverSends(t, f) /\ turn' = t /\ driverAlive
        /\ phase = "dump" /\ phase' = "dumped"
        /\ UNCHANGED <<toDriver, driverAlive, workerState, iteration, mail,
                       inboxes, unsent, saved>>
    BY <1>15, <2>1, <2>2 DEF DumpPart, At
  <2>. QED  BY <1>1, <2>3, <2>4, SendsToOneOK
<1>16. CASE ReceiveReady \/ ReceiveGraphLoaded \/ ReceiveDumped
  <2>1. turn \in Worker /\ driverAlive
    BY <1>16 DEF ReceiveReady, ReceiveGraphLoaded, ReceiveDumped, At, IndInv, Shape, Worker
  <2>2. turn' \in {1, turn, turn + 1}
    BY <1>16 DEF ReceiveReady, ReceiveGraphLoaded, ReceiveDumped, Goto
  <2>3. turn' \in 1 .. (N + 1)
    BY <2>1, <2>2, SizeAssumption DEF Worker
  <2>4. /\ toDriver[turn] # << >> /\ DriverTakes(turn)
        /\ UNCHANGED <<toWorker, driverAlive, workerState, iteration, mail,
                       inboxes, unsent, saved>>
        /\ \/ phase = "handshake" /\ phase' = "connect"
           \/ phase = "loaded" /\ phase' = "stream"
           \/ phase = "sealed" /\ phase' = "seal"
           \/ phase = "dumped" /\ phase' = "dump"
    BY <1>16 DEF ReceiveReady, ReceiveGraphLoaded, ReceiveDumped, At, Receives, Goto
  <2>. QED  BY <1>1, <2>1, <2>3, <2>4, ReceivesOneOK
<1>17. CASE ReceiveCreated \/ ReceiveLoaded \/ ReceiveVertices
  <2>1. /\ At(phase) /\ toDriver[turn] # << >> /\ DriverTakes(turn) /\ turn' = turn + 1
        /\ UNCHANGED <<toWorker, driverAlive, workerState, phase, iteration, mail,
                       inboxes, unsent, saved>>
        /\ phase \in {"restored", "checkpointed", "collect"}
        /\ phase = "restored" => Head(toDriver[turn]).type = "CheckpointLoaded"
    BY <1>17 DEF ReceiveCreated, ReceiveLoaded, ReceiveVertices, At, Receives
  <2>. QED  BY <1>1, <2>1, ReceivesAllOK
<1>. QED  BY <1>1, <1>2, <1>3, <1>4, <1>5, <1>6, <1>7, <1>8, <1>9, <1>10, <1>11, <1>13,
          <1>14, <1>15, <1>16, <1>17 DEF DriverStep

LEMMA NextInd == IndInv /\ [Next]_vars => IndInv'
<1>. SUFFICES ASSUME IndInv, [Next]_vars PROVE IndInv'
  OBVIOUS
<1>1. CASE DriverActs
  BY <1>1, DriverActsInd
<1>2. ASSUME NEW w \in Worker, WorkerActs(w) PROVE IndInv'
  BY <1>2, WorkerActsInd
<1>3. ASSUME NEW w \in Worker, WorkerFaults(w) \/ WorkerCrash(w) PROVE IndInv'
  BY <1>3, WorkerFaultsInd, WorkerCrashInd
<1>4. CASE DriverCrash
  BY <1>4, DriverCrashInd
<1>5. CASE UNCHANGED vars
  <2>1. /\ SameDriver /\ NoRevival /\ \A w \in Worker : SameWorker(w)
        /\ UNCHANGED <<channels, driverAlive, workerState, driverVars, workerVars,
                       found, crashes, faulty>>
    BY <1>5 DEF vars, channels, driverVars, workerVars, clusterVars, SameDriver,
       SameWorker, NoRevival
  <2>2. \A w \in Worker : WorkerOK(w)'
    BY <2>1, Untouched DEF IndInv
  <2>3. Shape' /\ FailsOnlyForCause'
    BY <2>1 DEF IndInv, Shape, FailsOnlyForCause, channels, driverVars, workerVars
  <2>. QED  BY <2>2, <2>3 DEF IndInv
<1>. QED  BY <1>1, <1>2, <1>3, <1>4, <1>5 DEF Next

LEMMA Invariance == Spec => []IndInv
<1>. QED  BY InitIsInd, NextInd, PTL DEF Spec

----------------------------------------------------------------------------
(* The driver gives up only because a process died, a worker was not there *)
(* to connect to, the directory of a checkpoint was there, or a file       *)
(* operation of the worker it was hearing failed: on no schedule does it   *)
(* find a frame of the wrong kind on a connection or a worker that left by *)
(* itself (the match arms with bail! of driver.rs).                        *)
THEOREM FailureHasCause == Spec => []FailsOnlyForCause
<1>1. IndInv => FailsOnlyForCause
  BY DEF IndInv
<1>. QED  BY <1>1, Invariance, PTL

(* A worker computes the superstep the driver is at, when all have         *)
(* computed the one before, on everything the last round sent to its       *)
(* partition (send_inbox_batches of driver.rs, pending_inbox of worker.rs).*)
THEOREM RoundsAligned == Spec => SuperstepsAligned
<1>. DEFINE Aligned ==
       \A w \in Worker :
         workerState[w] = "serving" /\ workerState'[w] = "emitting" =>
         /\ computed'[w] = iteration
         /\ \A u \in Worker : computed[u] \in {iteration - 1, iteration}
         /\ Assembled(w, Head(toWorker[w])) = RouteTo(mail, inboxes.part, w)
<1>1. IndInv /\ [Next]_vars => [Aligned]_vars
  <2>. SUFFICES ASSUME IndInv, Next, NEW w \in Worker,
                       workerState[w] = "serving", workerState'[w] = "emitting"
                PROVE  /\ computed'[w] = iteration
                       /\ \A u \in Worker : computed[u] \in {iteration - 1, iteration}
                       /\ Assembled(w, Head(toWorker[w]))
                            = RouteTo(mail, inboxes.part, w)
    OBVIOUS
  <2>1. ComputeSuperstep(w)
    <3>1. DriverActs =>
            \/ workerState' = workerState
            \/ \E u \in Worker : workerState' = [workerState EXCEPT ![u] = "accepted"]
      <4>1. Connect => \E u \in Worker :
                          workerState' = [workerState EXCEPT ![u] = "accepted"]
        <5>1. Connect => turn \in Worker
          BY DEF Connect, At, IndInv, Shape, Worker
        <5>. QED  BY <5>1 DEF Connect
      <4>2. LoadAll \/ SetAlgorithmAll \/ LoadCheckpointAll \/ CreateCheckpointAll
              \/ FetchAll \/ ShutdownAll => workerState' = workerState
        BY DEF LoadAll, SetAlgorithmAll, LoadCheckpointAll, CreateCheckpointAll,
           FetchAll, ShutdownAll, SendsToAll
      <4>3. StreamBatch \/ SealBatch \/ SendBatch \/ DumpPart
              => workerState' = workerState
        BY DEF StreamBatch, SealBatch, SendGraphBatch, SendBatch, DumpPart
      <4>4. ReceiveReady \/ ReceiveGraphLoaded \/ ReceiveResult \/ ReceiveCreated
              \/ ReceiveLoaded \/ ReceiveVertices \/ ReceiveDumped
              => workerState' = workerState
        BY DEF ReceiveReady, ReceiveGraphLoaded, ReceiveResult, ReceiveCreated,
           ReceiveLoaded, ReceiveVertices, ReceiveDumped
      <4>5. StreamEnds \/ NextRound \/ EndRound \/ Publish \/ Recover \/ NextCall
              \/ DriverFails => workerState' = workerState
        BY DEF StreamEnds, NextRound, EndRound, Publish, Recover, NextCall, DriverFails
      <4>. QED  BY <4>1, <4>2, <4>3, <4>4, <4>5 DEF DriverActs, DriverStep
    <3>2. ~DriverActs /\ ~DriverCrash
      BY <3>1 DEF DriverCrash, IndInv, Shape
    <3>3. \A u \in Worker : ~WorkerFaults(u) /\ ~WorkerCrash(u)
      BY DEF WorkerFaults, FileFails, WorkerCrash, IndInv, Shape
    <3>4. ASSUME NEW u \in Worker, WorkerActs(u) PROVE u = w
      BY <3>4, WorkerFrame DEF SameWorker, IndInv
    <3>5. WorkerStep(w)
      BY <3>2, <3>3, <3>4 DEF Next, WorkerActs
    <3>6. ~(\/ Bind(w) \/ SendReady(w) \/ LoadGraph(w) \/ LoadGraphBatch(w)
            \/ SetAlgorithm(w) \/ KeepBatch(w) \/ EmitBatch(w) \/ Shutdown(w)
            \/ LosesDriver(w))
      BY DEF Bind, SendReady, LoadGraph, LoadGraphBatch, SetAlgorithm, KeepBatch,
         EmitBatch, Shutdown, LosesDriver, Becomes, IndInv, Shape
    <3>7. ~(\/ CreateCheckpoint(w) \/ LoadCheckpoint(w) \/ FetchVertices(w)
            \/ DumpVerticesCsv(w))
      BY DEF CreateCheckpoint, LoadCheckpoint, FetchVertices, DumpVerticesCsv
    <3>. QED  BY <3>5, <3>6, <3>7 DEF WorkerStep
  <2>2. /\ phase \in {"send", "receive"} /\ algorithmSet[w]
        /\ Head(toWorker[w]).iteration = iteration
        /\ Assembled(w, Head(toWorker[w])) = Inbox(w)
    BY <2>1, SuperstepBegins DEF IndInv
  <2>3. computed'[w] = iteration
    BY <2>1, <2>2 DEF ComputeSuperstep, IndInv, Shape
  <2>4. \A u \in Worker : computed[u] \in {iteration - 1, iteration}
    BY <2>2 DEF IndInv, WorkerOK, ComputedOK
  <2>. QED  BY <2>2, <2>3, <2>4 DEF Inbox
<1>2. SuperstepsAligned <=> [][Aligned]_vars
  BY PTL DEF SuperstepsAligned
<1>. QED  BY <1>1, <1>2, Invariance, PTL DEF Spec

----------------------------------------------------------------------------
(* Types: what may be in a mailbox, in a frame, on a connection, with a    *)
(* worker and with the driver.                                             *)
MailType(m) == IsMail(m) /\ IsFiniteSet(DOMAIN m)

QuestionType(w, f) ==
  /\ f.type \in DriverToWorker
  /\ f.type \in {"LoadGraph", "LoadGraphBatch"} => IsPart(f.graph, w)
  /\ f.type = "SuperstepBatch" =>
       f.iteration \in 1 .. MaxIterations /\ MailType(f.inbox)
  /\ f.type \in {"CreateCheckpoint", "LoadCheckpoint"} =>
       f.iteration \in 1 .. MaxIterations

AnswerType(f) ==
  /\ f.type \in WorkerToDriver
  /\ f.type = "SuperstepResultBatch" => MailType(f.outbox)
  /\ f.type \in {"Vertices", "VerticesDumped"} =>
       DOMAIN f.vertices \subseteq DOMAIN Input.vertices

QuestionsType(w, q) ==
  /\ Len(q) <= Capacity
  /\ \A i \in 1 .. Len(q) : QuestionType(w, q[i])

AnswersType(q) ==
  /\ Len(q) <= Capacity
  /\ \A i \in 1 .. Len(q) : AnswerType(q[i])

(* Of a worker. *)
States == {"down", "listening", "accepted", "serving", "emitting", "exited"}

WorkerType(w) ==
  /\ IsPart(store[w], w)
  /\ DOMAIN images[w] \subseteq 1 .. MaxIterations
  /\ \A k \in DOMAIN images[w] : IsPart(images[w][k], w)
  /\ pendingIteration[w] \in 0 .. MaxIterations
  /\ MailType(pendingInbox[w]) /\ MailType(outbox[w])
  /\ computed[w] \in 0 .. MaxIterations

WorkersType ==
  /\ DOMAIN store = Worker /\ DOMAIN outbox = Worker
  /\ algorithmSet \in [Worker -> BOOLEAN] /\ teleport \in [Worker -> Int]
  /\ \A w \in Worker : WorkerType(w)

(* Of the driver, which loads and collects in one of two ways. *)
Phases ==
  IF Streaming
    THEN {"connect", "handshake", "stream", "loaded", "seal", "sealed", "algorithm",
          "round", "send", "receive", "dump", "dumped", "shutdown", "done"}
    ELSE {"connect", "handshake", "load", "algorithm", "restore", "restored",
          "round", "send", "receive", "checkpoint", "checkpointed", "fetch",
          "collect", "shutdown", "done"}

PhaseType ==
  /\ phase \in Phases
  /\ saved.iteration \in 0 .. MaxIterations /\ iteration \in 1 .. (MaxIterations + 1)
  /\ phase \in {"restore", "restored"} => saved.iteration > 0
  /\ phase \in {"checkpoint", "checkpointed"} => iteration > 1
  /\ phase \in {"send", "receive"} => iteration <= MaxIterations

GraphType ==
  /\ DOMAIN unloaded.vertices \subseteq DOMAIN Input.vertices
  /\ \A v \in DOMAIN unloaded.vertices : unloaded.vertices[v] \in Int
  /\ unloaded.edges \subseteq Input.edges
  /\ DOMAIN result \subseteq DOMAIN Input.vertices

DriverType ==
  /\ PhaseType /\ GraphType /\ driverAlive \in BOOLEAN
  /\ MailType(mail) /\ MailType(unsent) /\ MailType(nextMail) /\ MailType(saved.mail)

ChannelType ==
  \A w \in Worker : QuestionsType(w, toWorker[w]) /\ AnswersType(toDriver[w])

TypeInv ==
  /\ Shape /\ DriverType /\ WorkersType /\ ChannelType
  /\ workerState \in [Worker -> States] /\ crashes \in 0 .. MaxCrashes
  /\ faulty \subseteq Worker

----------------------------------------------------------------------------
(* Mail that is taken apart or put together is mail. *)
LEMMA NoMailType == MailType(NoMail)
<1>1. DOMAIN NoMail = {}
  BY EmptyQueue
<1>. QED  BY <1>1, FS_EmptySet DEF MailType, IsMail

LEMMA RestrictType ==
  ASSUME NEW m, MailType(m), NEW S, S \subseteq DOMAIN m
  PROVE  MailType(Restrict(m, S))
<1>1. DOMAIN Restrict(m, S) = S /\ \A e \in S : Restrict(m, S)[e] = m[e]
  BY DEF Restrict
<1>2. IsFiniteSet(S)
  BY FS_Subset DEF MailType
<1>. QED  BY <1>1, <1>2 DEF MailType, IsMail

LEMMA MergeType ==
  ASSUME NEW m, MailType(m), NEW n, MailType(n)
  PROVE  MailType(Merge(m, n))
<1>1. DOMAIN Merge(m, n) = DOMAIN m \cup DOMAIN n
  BY DEF Merge
<1>2. IsFiniteSet(DOMAIN Merge(m, n))
  BY <1>1, FS_Union DEF MailType
<1>3. \A e \in DOMAIN Merge(m, n) : Merge(m, n)[e] \in Int
  BY <1>1 DEF Merge, MailType, IsMail
<1>. QED  BY <1>1, <1>2, <1>3 DEF MailType, IsMail

LEMMA RouteType ==
  ASSUME NEW m, MailType(m), NEW p, NEW w
  PROVE  MailType(RouteTo(m, p, w))
<1>1. {e \in DOMAIN m : p[e.dst] = w} \subseteq DOMAIN m
  OBVIOUS
<1>. QED  BY <1>1, RestrictType DEF RouteTo

(* The partitions. *)
LEMMA PartIs ==
  ASSUME NEW w
  PROVE  /\ DOMAIN PartitionOf(w).vertices = {v \in DOMAIN Input.vertices : Part[v] = w}
         /\ PartitionOf(w).edges = {e \in Input.edges : Part[e.src] = w}
         /\ IsFiniteSet(PartitionOf(w).edges)
<1>1. /\ DOMAIN PartitionOf(w).vertices = {v \in DOMAIN Input.vertices : Part[v] = w}
      /\ PartitionOf(w).edges = {e \in Input.edges : Part[e.src] = w}
  BY DEF PartitionOf, ShareOf, Restrict
<1>. QED  BY <1>1, InputAssumption, FS_Subset

(* Edges of the input are as they are stored.                              *)
LEMMA PlainEdges ==
  ASSUME NEW S, S \subseteq Input.edges
  PROVE  {Plain(e) : e \in S} = S
BY InputAssumption DEF Plain

(* What is loaded into a partition's database leaves it one.               *)
LEMMA PutType ==
  ASSUME NEW w, NEW db, IsPart(db, w), NEW g, IsPart(g, w), NEW n
  PROVE  IsPart(PutGraph(db, g, n), w)
<1> DEFINE put(e) == [src |-> e.src, dst |-> e.dst, key |-> e.key,
                      at |-> Suffix(e, g.edges, n)]
           stored == {put(e) : e \in g.edges}
           left == {e \in db.edges : \A f \in stored : ~(f.src = e.src /\ f.at = e.at)}
<1>1. PutGraph(db, g, n) = [vertices |-> Merge(db.vertices, g.vertices),
                            edges |-> stored \cup left]
  BY DEF PutGraph, PutEdges
<1>2. {Plain(e) : e \in stored} = {Plain(e) : e \in g.edges}
  <2>1. \A e \in g.edges : Plain(put(e)) = Plain(e)
    BY DEF Plain
  <2> HIDE DEF put
  <2>. QED  BY <2>1
<1>3. IsFiniteSet(stored)
  <2>1. IsFiniteSet(g.edges)
    BY DEF IsPart
  <2> HIDE DEF put
  <2>2. [e \in g.edges |-> put(e)] \in Surjection(g.edges, stored)
    BY DEF Surjection
  <2>. QED  BY <2>1, <2>2, FS_Surjection
<1>4. IsFiniteSet(left) /\ left \subseteq db.edges
  <2> HIDE DEF stored
  <2>1. left \subseteq db.edges
    OBVIOUS
  <2>. QED  BY <2>1, FS_Subset DEF IsPart
<1> HIDE DEF stored, left
<1>5. IsFiniteSet(stored \cup left)
  BY <1>3, <1>4, FS_Union
<1>6. {Plain(e) : e \in stored \cup left} \subseteq PartitionOf(w).edges
  BY <1>2, <1>4 DEF IsPart
<1>7. /\ DOMAIN Merge(db.vertices, g.vertices) \subseteq DOMAIN PartitionOf(w).vertices
      /\ \A v \in DOMAIN Merge(db.vertices, g.vertices) :
           Merge(db.vertices, g.vertices)[v] \in Int
  BY DEF Merge, IsPart
<1>. QED  BY <1>1, <1>5, <1>6, <1>7 DEF IsPart

(* What a superstep makes of a partition. *)
LEMMA SuperstepOfPart ==
  ASSUME NEW w, NEW db, IsPart(db, w), NEW m, MailType(m), NEW t \in Int, NEW k
  PROVE  LET r == ProcessSuperstep(db, m, t, k)
         IN  IsPart(r.db, w) /\ MailType(r.outbox) /\ r.teleport \in Int
<1> DEFINE out(v) == {e \in db.edges : e.src = v}
           stepped == [v \in DOMAIN db.vertices |->
                        ComputeVertex(v, db.vertices[v], Cardinality(out(v)), MailOf(m, v),
                                      TeleportAt(db.vertices, t, v), k)]
           sent == {e \in db.edges : e.src \in DOMAIN stepped /\ stepped[e.src].send # {}}
           outbox1 == [e \in sent |-> CHOOSE x \in stepped[e.src].send : TRUE]
           after == [v \in DOMAIN db.vertices |-> stepped[v].value]
           last == IF DOMAIN db.vertices = {} THEN t
                   ELSE TeleportAt(db.vertices, t, Max(DOMAIN db.vertices))
<1>1. ProcessSuperstep(db, m, t, k)
        = [db |-> [vertices |-> after, edges |-> db.edges], outbox |-> outbox1,
           teleport |-> last]
  BY DEF ProcessSuperstep
<1>2. /\ DOMAIN db.vertices \subseteq Nat
      /\ \A v \in DOMAIN db.vertices : db.vertices[v] \in Int
  BY PartIs, InputAssumption DEF IsPart
<1>3. \A v \in DOMAIN db.vertices : stepped[v].value \in Int /\ stepped[v].send \subseteq Int
  <2>. TAKE v \in DOMAIN db.vertices
  <2>1. IsFiniteSet(out(v))
    BY FS_Subset DEF IsPart
  <2>2. Cardinality(out(v)) \in Nat
    BY <2>1, FS_CardinalityType
  <2>3. TeleportAt(db.vertices, t, v) \in Int
    BY <1>2, TeleportType
  <2>4. IsFiniteSet(DOMAIN MailOf(m, v)) /\ \A e \in DOMAIN MailOf(m, v) : MailOf(m, v)[e] \in Int
    <3>1. {e \in DOMAIN m : e.dst = v} \subseteq DOMAIN m
      OBVIOUS
    <3>. QED  BY <3>1, RestrictType DEF MailOf, MailType, IsMail
  <2>5. v \in Int /\ db.vertices[v] \in Int
    BY <1>2
  <2> HIDE DEF out
  <2>6. stepped[v] = ComputeVertex(v, db.vertices[v], Cardinality(out(v)), MailOf(m, v),
                                  TeleportAt(db.vertices, t, v), k)
    OBVIOUS
  <2> HIDE DEF stepped
  <2>. QED  BY <2>2, <2>3, <2>4, <2>5, <2>6, ComputeType
<1>4. DOMAIN stepped = DOMAIN db.vertices
  OBVIOUS
<1> HIDE DEF stepped
<1>5. DOMAIN after = DOMAIN db.vertices /\ \A v \in DOMAIN after : after[v] \in Int
  BY <1>3
<1>6. MailType(outbox1)
  <2>1. DOMAIN outbox1 = sent /\ sent \subseteq db.edges
    OBVIOUS
  <2>2. IsFiniteSet(sent)
    BY <2>1, FS_Subset DEF IsPart
  <2>3. {Plain(e) : e \in sent} \subseteq Input.edges
    BY <2>1, PartIs DEF IsPart
  <2>4. \A e \in sent : outbox1[e] \in Int
    <3>. TAKE e \in sent
    <3>1. stepped[e.src].send # {} /\ stepped[e.src].send \subseteq Int
      BY <1>3, <1>4
    <3>2. outbox1[e] = CHOOSE x \in stepped[e.src].send : TRUE
      OBVIOUS
    <3>. QED  BY <3>1, <3>2
  <2> HIDE DEF outbox1
  <2>. QED  BY <2>1, <2>2, <2>3, <2>4 DEF MailType, IsMail
<1>7. last \in Int
  BY <1>2, TeleportType
<1> HIDE DEF after, outbox1, last
<1>. QED  BY <1>1, <1>5, <1>6, <1>7 DEF IsPart

(* What is sent and what is taken. *)
LEMMA QuestionSent ==
  ASSUME Shape, ChannelType, NEW u \in Worker, NEW f, QuestionType(u, f),
         DriverSends(u, f)
  PROVE  \A w \in Worker : QuestionsType(w, toWorker[w])'
<1>1. ASSUME NEW w \in Worker PROVE QuestionsType(w, toWorker[w])'
  <2>1. CASE toWorker'[w] = toWorker[w]
    BY <2>1 DEF ChannelType, QuestionsType
  <2>2. CASE w = u /\ Len(toWorker[u]) < Capacity /\ toWorker'[u] = Append(toWorker[u], f)
    <3>1. /\ Len(toWorker'[u]) = Len(toWorker[u]) + 1 /\ Len(toWorker[u]) \in Nat
          /\ \A i \in 1 .. Len(toWorker[u]) : toWorker'[u][i] = toWorker[u][i]
          /\ toWorker'[u][Len(toWorker[u]) + 1] = f
      BY <2>2, QueueAppend DEF Shape
    <3>2. ASSUME NEW i \in 1 .. Len(toWorker'[u]) PROVE QuestionType(u, toWorker'[u][i])
      <4>1. CASE i \in 1 .. Len(toWorker[u])
        BY <3>1, <4>1 DEF ChannelType, QuestionsType
      <4>2. CASE i = Len(toWorker[u]) + 1
        BY <3>1, <4>2
      <4>. QED  BY <3>1, <4>1, <4>2
    <3>3. Len(toWorker'[u]) <= Capacity
      BY <2>2, <3>1, SizeAssumption
    <3>. QED  BY <2>2, <3>2, <3>3 DEF QuestionsType
  <2>. QED  BY <2>1, <2>2 DEF DriverSends, Shape
<1>. QED  BY <1>1

LEMMA AnswerTaken ==
  ASSUME Shape, ChannelType, NEW u \in Worker, toDriver[u] # << >>, DriverTakes(u)
  PROVE  /\ \A w \in Worker : AnswersType(toDriver[w])'
         /\ AnswerType(Head(toDriver[u]))
<1>1. /\ Len(toDriver[u]) \in Nat \ {0} /\ Len(Tail(toDriver[u])) = Len(toDriver[u]) - 1
      /\ Head(toDriver[u]) = toDriver[u][1]
      /\ \A i \in 1 .. (Len(toDriver[u]) - 1) : Tail(toDriver[u])[i] = toDriver[u][i + 1]
  BY QueueTail DEF Shape
<1>2. ASSUME NEW w \in Worker PROVE AnswersType(toDriver[w])'
  <2>1. CASE w # u
    BY <2>1 DEF DriverTakes, Shape, ChannelType, AnswersType
  <2>2. CASE w = u
    <3>1. toDriver'[u] = Tail(toDriver[u])
      BY DEF DriverTakes, Shape
    <3>. QED  BY <1>1, <2>2, <3>1, SizeAssumption DEF ChannelType, AnswersType
  <2>. QED  BY <2>1, <2>2
<1>3. AnswerType(Head(toDriver[u]))
  BY <1>1 DEF ChannelType, AnswersType
<1>. QED  BY <1>2, <1>3

(* The same on the side of a worker, which may do both at once. *)
LEMMA QuestionTaken ==
  ASSUME Shape, ChannelType, NEW u \in Worker, toWorker[u] # << >>
  PROVE  /\ QuestionType(u, Head(toWorker[u]))
         /\ WorkerTakes(u) => \A w \in Worker : QuestionsType(w, toWorker[w])'
<1>1. /\ Len(toWorker[u]) \in Nat \ {0} /\ Len(Tail(toWorker[u])) = Len(toWorker[u]) - 1
      /\ Head(toWorker[u]) = toWorker[u][1]
      /\ \A i \in 1 .. (Len(toWorker[u]) - 1) : Tail(toWorker[u])[i] = toWorker[u][i + 1]
  BY QueueTail DEF Shape
<1>2. ASSUME WorkerTakes(u), NEW w \in Worker PROVE QuestionsType(w, toWorker[w])'
  <2>1. CASE w # u
    BY <1>2, <2>1 DEF WorkerTakes, Shape, ChannelType, QuestionsType
  <2>2. CASE w = u
    <3>1. toWorker'[u] = Tail(toWorker[u])
      BY <1>2 DEF WorkerTakes, Shape
    <3>. QED  BY <1>1, <2>2, <3>1, SizeAssumption DEF ChannelType, QuestionsType
  <2>. QED  BY <2>1, <2>2
<1>3. QuestionType(u, Head(toWorker[u]))
  BY <1>1 DEF ChannelType, QuestionsType
<1>. QED  BY <1>2, <1>3

LEMMA AnswerSent ==
  ASSUME Shape, ChannelType, NEW u \in Worker, NEW f, AnswerType(f), WorkerSends(u, f)
  PROVE  \A w \in Worker : AnswersType(toDriver[w])'
<1>. TAKE w \in Worker
<1>1. CASE toDriver'[w] = toDriver[w]
  BY <1>1 DEF ChannelType, AnswersType
<1>2. CASE w = u /\ Len(toDriver[u]) < Capacity /\ toDriver'[u] = Append(toDriver[u], f)
  <2>1. /\ Len(toDriver'[u]) = Len(toDriver[u]) + 1 /\ Len(toDriver[u]) \in Nat
        /\ \A i \in 1 .. Len(toDriver[u]) : toDriver'[u][i] = toDriver[u][i]
        /\ toDriver'[u][Len(toDriver[u]) + 1] = f
    BY <1>2, QueueAppend DEF Shape
  <2>2. ASSUME NEW i \in 1 .. Len(toDriver'[u]) PROVE AnswerType(toDriver'[u][i])
    <3>1. CASE i \in 1 .. Len(toDriver[u])
      BY <2>1, <3>1 DEF ChannelType, AnswersType
    <3>2. CASE i = Len(toDriver[u]) + 1
      BY <2>1, <3>2
    <3>. QED  BY <2>1, <3>1, <3>2
  <2>3. Len(toDriver'[u]) <= Capacity
    BY <1>2, <2>1, SizeAssumption
  <2>. QED  BY <1>2, <2>2, <2>3 DEF AnswersType
<1>. QED  BY <1>1, <1>2 DEF WorkerSends, Shape

LEMMA NothingIsPart ==
  ASSUME NEW w
  PROVE  IsPart([vertices |-> NoMail, edges |-> {}], w)
BY EmptyQueue, FS_EmptySet DEF IsPart

(* The steps of a worker. *)
Typed(w) ==
  /\ toWorker' = toWorker \/ (toWorker[w] # << >> /\ WorkerTakes(w))
  /\ toDriver' = toDriver \/ \E f : AnswerType(f) /\ WorkerSends(w, f)
  /\ WorkerType(w)' /\ workerState' \in [Worker -> States]
  /\ teleport' \in [Worker -> Int]

LEMMA LoadTyped ==
  ASSUME Shape, WorkersType, ChannelType, workerState \in [Worker -> States],
         NEW w \in Worker, LoadGraph(w) \/ LoadGraphBatch(w)
  PROVE  Typed(w)
<1>1. /\ toWorker[w] # << >> /\ WorkerTakes(w)
      /\ Head(toWorker[w]).type \in {"LoadGraph", "LoadGraphBatch"}
      /\ store' = [store EXCEPT ![w] = PutGraph(@, Head(toWorker[w]).graph, nonce[w])]
      /\ UNCHANGED <<workerState, images, teleport, pendingIteration, pendingInbox,
                     outbox, computed>>
  BY DEF LoadGraph, LoadGraphBatch, Receives
<1>2. IsPart(Head(toWorker[w]).graph, w)
  BY <1>1, QuestionTaken DEF QuestionType
<1>3. IsPart(store'[w], w)
  <2>1. store'[w] = PutGraph(store[w], Head(toWorker[w]).graph, nonce[w])
    BY <1>1 DEF WorkersType
  <2>. QED  BY <1>2, <2>1, PutType DEF WorkersType, WorkerType
<1>4. WorkerType(w)' /\ teleport' \in [Worker -> Int] /\ workerState' \in [Worker -> States]
  BY <1>1, <1>3 DEF WorkersType, WorkerType
<1>5. toDriver' = toDriver \/ \E f : AnswerType(f) /\ WorkerSends(w, f)
  <2>1. CASE LoadGraph(w)
    BY <2>1 DEF LoadGraph
  <2>2. CASE LoadGraphBatch(w)
    <3>1. PICK f : f = [type |-> "GraphLoaded", last |-> Head(toWorker[w]).last]
      OBVIOUS
    <3>2. WorkerSends(w, f)
      BY <2>2, <3>1 DEF LoadGraphBatch
    <3>3. AnswerType(f)
      BY <3>1 DEF AnswerType, WorkerToDriver
    <3>. QED  BY <3>2, <3>3
  <2>. QED  BY <2>1, <2>2
<1>. QED  BY <1>1, <1>4, <1>5 DEF Typed

LEMMA AssembledType ==
  ASSUME Shape, WorkersType, ChannelType, NEW w \in Worker,
         Receives(toWorker, w, "SuperstepBatch")
  PROVE  /\ Head(toWorker[w]).iteration \in 1 .. MaxIterations
         /\ MailType(Assembled(w, Head(toWorker[w])))
<1>1. /\ Head(toWorker[w]).iteration \in 1 .. MaxIterations
      /\ MailType(Head(toWorker[w]).inbox)
  BY QuestionTaken DEF QuestionType, Receives
<1>2. MailType(pendingInbox[w]) /\ MailType(NoMail)
  BY NoMailType DEF WorkersType, WorkerType
<1>. QED  BY <1>1, <1>2, MergeType DEF Assembled

LEMMA KeepTyped ==
  ASSUME Shape, WorkersType, ChannelType, workerState \in [Worker -> States],
         NEW w \in Worker, KeepBatch(w)
  PROVE  Typed(w)
<1>1. /\ toWorker[w] # << >> /\ WorkerTakes(w) /\ Receives(toWorker, w, "SuperstepBatch")
      /\ UNCHANGED <<toDriver, workerState, store, images, teleport, outbox, computed>>
      /\ pendingIteration'[w] = Head(toWorker[w]).iteration
      /\ pendingInbox'[w] = Assembled(w, Head(toWorker[w]))
  BY DEF KeepBatch, Receives, Shape
<1>2. Head(toWorker[w]).iteration \in 0 .. MaxIterations
  BY <1>1, AssembledType, MaxIterationsAssumption
<1>3. MailType(pendingInbox'[w])
  BY <1>1, AssembledType
<1>. QED  BY <1>1, <1>2, <1>3 DEF Typed, WorkersType, WorkerType

LEMMA ComputeTyped ==
  ASSUME Shape, WorkersType, ChannelType, workerState \in [Worker -> States],
         NEW w \in Worker, ComputeSuperstep(w)
  PROVE  Typed(w)
<1> DEFINE batch == Head(toWorker[w])
           r == ProcessSuperstep(store[w], Assembled(w, batch), teleport[w],
                                 batch.iteration)
<1>1. /\ toWorker[w] # << >> /\ WorkerTakes(w) /\ Receives(toWorker, w, "SuperstepBatch")
      /\ UNCHANGED <<toDriver, images>>
      /\ pendingIteration'[w] = 0 /\ pendingInbox'[w] = NoMail
  BY DEF ComputeSuperstep, Receives, Shape
<1>2. \/ /\ store' = [store EXCEPT ![w] = r.db]
         /\ teleport' = [teleport EXCEPT ![w] = r.teleport]
         /\ outbox' = [outbox EXCEPT ![w] = r.outbox]
         /\ computed' = [computed EXCEPT ![w] = batch.iteration]
         /\ Becomes(w, "emitting")
      \/ Becomes(w, "exited") /\ UNCHANGED <<store, teleport, outbox, computed>>
  BY DEF ComputeSuperstep
<1>3. batch.iteration \in 1 .. MaxIterations /\ MailType(Assembled(w, batch))
  BY <1>1, AssembledType
<1>4. IsPart(r.db, w) /\ MailType(r.outbox) /\ r.teleport \in Int
  <2>1. IsPart(store[w], w) /\ teleport[w] \in Int
    BY DEF WorkersType, WorkerType
  <2>. QED  BY <1>3, <2>1, SuperstepOfPart
<1> HIDE DEF r, batch
<1>5. IsPart(store'[w], w) /\ MailType(outbox'[w]) /\ teleport' \in [Worker -> Int]
      /\ computed'[w] \in 0 .. MaxIterations
  BY <1>2, <1>3, <1>4, MaxIterationsAssumption DEF WorkersType, WorkerType, Shape
<1>6. workerState' \in [Worker -> States]
  BY <1>2 DEF Becomes, States
<1>7. WorkerType(w)'
  BY <1>1, <1>5, NoMailType, MaxIterationsAssumption DEF WorkersType, WorkerType
<1>. QED  BY <1>1, <1>5, <1>6, <1>7 DEF Typed

LEMMA EmitTyped ==
  ASSUME Shape, WorkersType, ChannelType, workerState \in [Worker -> States],
         NEW w \in Worker, EmitBatch(w)
  PROVE  Typed(w)
<1>1. PICK batch \in NextBatch(DOMAIN outbox[w]) :
        /\ WorkerSends(w, [ type   |-> "SuperstepResultBatch",
                            outbox |-> Restrict(outbox[w], batch),
                            last   |-> DOMAIN outbox[w] \ batch = {} ])
        /\ outbox' = [outbox EXCEPT ![w] = Restrict(@, DOMAIN outbox[w] \ batch)]
        /\ Becomes(w, IF DOMAIN outbox[w] \ batch = {} THEN "serving" ELSE "emitting")
  BY DEF EmitBatch
<1>2. UNCHANGED <<toWorker, store, images, teleport, pendingIteration, pendingInbox,
                  computed>>
  BY DEF EmitBatch
<1>3. batch \subseteq DOMAIN outbox[w] /\ MailType(outbox[w])
  BY <1>1 DEF NextBatch, kSubset, WorkersType, WorkerType
<1>4. MailType(Restrict(outbox[w], batch)) /\ MailType(outbox'[w])
  <2>1. outbox'[w] = Restrict(outbox[w], DOMAIN outbox[w] \ batch)
    BY <1>1 DEF WorkersType
  <2>2. DOMAIN outbox[w] \ batch \subseteq DOMAIN outbox[w]
    OBVIOUS
  <2>. QED  BY <1>3, <2>1, <2>2, RestrictType
<1>5. \E f : AnswerType(f) /\ WorkerSends(w, f)
  <2>1. PICK f : f = [ type   |-> "SuperstepResultBatch",
                       outbox |-> Restrict(outbox[w], batch),
                       last   |-> DOMAIN outbox[w] \ batch = {} ]
    OBVIOUS
  <2>2. f.type = "SuperstepResultBatch" /\ f.outbox = Restrict(outbox[w], batch)
    BY <2>1
  <2>3. AnswerType(f)
    BY <1>4, <2>2 DEF AnswerType, WorkerToDriver
  <2>. QED  BY <1>1, <2>1, <2>3
<1>6. workerState' \in [Worker -> States]
  BY <1>1 DEF Becomes, States
<1>7. WorkerType(w)' /\ teleport' \in [Worker -> Int]
  BY <1>2, <1>4 DEF WorkersType, WorkerType
<1>. QED  BY <1>2, <1>5, <1>6, <1>7 DEF Typed

(* An answer with nothing in it. *)
LEMMA PlainAnswer ==
  ASSUME NEW t \in {"Ready", "GraphLoaded", "CheckpointCreated", "CheckpointLoaded", "Error"}
  PROVE  AnswerType([type |-> t])
BY DEF AnswerType, WorkerToDriver

LEMMA CreateTyped ==
  ASSUME Shape, WorkersType, ChannelType, workerState \in [Worker -> States],
         NEW w \in Worker, CreateCheckpoint(w)
  PROVE  Typed(w)
<1> DEFINE k == Head(toWorker[w]).iteration
<1>1. /\ toWorker[w] # << >> /\ WorkerTakes(w)
      /\ Head(toWorker[w]).type = "CreateCheckpoint"
      /\ UNCHANGED <<workerState, store, teleport, pendingIteration, pendingInbox,
                     outbox, computed>>
      /\ \/ images' = images
         \/ images' = [images EXCEPT ![w] = Merge(@, [i \in {k} |-> store[w]])]
  BY DEF CreateCheckpoint, Receives
<1>2. \E f : AnswerType(f) /\ WorkerSends(w, f)
  BY PlainAnswer DEF CreateCheckpoint
<1>3. k \in 1 .. MaxIterations
  BY <1>1, QuestionTaken DEF QuestionType
<1> HIDE DEF k
<1>4. /\ DOMAIN images'[w] \subseteq 1 .. MaxIterations
      /\ \A i \in DOMAIN images'[w] : IsPart(images'[w][i], w)
  <2>1. CASE images' = images
    BY <2>1 DEF WorkersType, WorkerType
  <2>2. CASE images' = [images EXCEPT ![w] = Merge(@, [i \in {k} |-> store[w]])]
    <3>1. images'[w] = Merge(images[w], [i \in {k} |-> store[w]])
      BY <2>2 DEF Shape
    <3>. QED  BY <1>3, <3>1 DEF Merge, WorkersType, WorkerType
  <2>. QED  BY <1>1, <2>1, <2>2
<1>5. WorkerType(w)' /\ teleport' \in [Worker -> Int] /\ workerState' \in [Worker -> States]
  BY <1>1, <1>4 DEF WorkersType, WorkerType
<1>. QED  BY <1>1, <1>2, <1>5 DEF Typed

LEMMA RestoreTyped ==
  ASSUME Shape, WorkersType, ChannelType, workerState \in [Worker -> States],
         NEW w \in Worker, LoadCheckpoint(w)
  PROVE  Typed(w)
<1> DEFINE k == Head(toWorker[w]).iteration
           created == [i \in {k} |-> [vertices |-> NoMail, edges |-> {}]]
<1>1. /\ toWorker[w] # << >> /\ WorkerTakes(w)
      /\ Head(toWorker[w]).type = "LoadCheckpoint"
      /\ UNCHANGED <<workerState, teleport, pendingIteration, pendingInbox, outbox>>
      /\ images'[w] = Merge(created, images[w]) /\ store'[w] = images'[w][k]
      /\ computed'[w] = k
  BY DEF LoadCheckpoint, Receives, Shape, WorkersType
<1>2. \E f : AnswerType(f) /\ WorkerSends(w, f)
  BY PlainAnswer DEF LoadCheckpoint
<1>3. k \in 1 .. MaxIterations
  BY <1>1, QuestionTaken DEF QuestionType
<1> HIDE DEF k
<1>4. /\ DOMAIN images'[w] \subseteq 1 .. MaxIterations /\ k \in DOMAIN images'[w]
      /\ \A i \in DOMAIN images'[w] : IsPart(images'[w][i], w)
  <2>1. /\ DOMAIN created = {k}
        /\ \A i \in {k} : IsPart(created[i], w)
    BY NothingIsPart
  <2>2. /\ DOMAIN images[w] \subseteq 1 .. MaxIterations
        /\ \A i \in DOMAIN images[w] : IsPart(images[w][i], w)
    BY DEF WorkersType, WorkerType
  <2> HIDE DEF created
  <2>. QED  BY <1>1, <1>3, <2>1, <2>2 DEF Merge
<1> HIDE DEF created
<1>5. computed'[w] \in 0 .. MaxIterations /\ IsPart(store'[w], w)
  <2>1. computed'[w] = k /\ store'[w] = images'[w][k]
    BY <1>1
  <2>2. IsPart(images'[w][k], w)
    BY <1>4
  <2>. QED  BY <1>3, <2>1, <2>2, MaxIterationsAssumption
<1>6. WorkerType(w)' /\ teleport' \in [Worker -> Int] /\ workerState' \in [Worker -> States]
  BY <1>1, <1>4, <1>5 DEF WorkersType, WorkerType
<1>. QED  BY <1>1, <1>2, <1>6 DEF Typed

LEMMA PlainTyped ==
  ASSUME Shape, WorkersType, ChannelType, workerState \in [Worker -> States],
         NEW w \in Worker,
         \/ Bind(w) \/ SendReady(w) \/ SetAlgorithm(w) \/ FetchVertices(w)
         \/ DumpVerticesCsv(w) \/ Shutdown(w) \/ LosesDriver(w)
  PROVE  Typed(w)
<1>1. UNCHANGED <<store, images, pendingIteration, pendingInbox, outbox, computed>>
  BY DEF Bind, SendReady, SetAlgorithm, FetchVertices, DumpVerticesCsv, Shutdown,
     LosesDriver, workerVars
<1>2. WorkerType(w)'
  BY <1>1 DEF WorkersType, WorkerType
<1>3. teleport' \in [Worker -> Int]
  BY DEF Bind, SendReady, SetAlgorithm, FetchVertices, DumpVerticesCsv, Shutdown,
     LosesDriver, workerVars, WorkersType, NoTeleport
<1>4. workerState' \in [Worker -> States]
  BY DEF Bind, SendReady, SetAlgorithm, FetchVertices, DumpVerticesCsv, Shutdown,
     LosesDriver, Becomes, States
<1>5. toWorker' = toWorker \/ (toWorker[w] # << >> /\ WorkerTakes(w))
  BY DEF Bind, SendReady, SetAlgorithm, FetchVertices, DumpVerticesCsv, Shutdown,
     LosesDriver, channels, Receives
<1>6. toDriver' = toDriver \/ \E f : AnswerType(f) /\ WorkerSends(w, f)
  <2>1. CASE Bind(w) \/ SetAlgorithm(w) \/ Shutdown(w) \/ LosesDriver(w)
    BY <2>1 DEF Bind, SetAlgorithm, Shutdown, LosesDriver, channels
  <2>2. CASE SendReady(w)
    BY <2>2, PlainAnswer DEF SendReady
  <2>3. ASSUME NEW t \in {"Vertices", "VerticesDumped"}
        PROVE  AnswerType([type |-> t, vertices |-> store[w].vertices])
    BY PartIs DEF AnswerType, WorkerToDriver, WorkersType, WorkerType, IsPart
  <2>4. CASE FetchVertices(w)
    BY <2>3, <2>4 DEF FetchVertices
  <2>5. CASE DumpVerticesCsv(w)
    BY <2>3, <2>5, PlainAnswer DEF DumpVerticesCsv
  <2>. QED  BY <2>1, <2>2, <2>4, <2>5
<1>. QED  BY <1>2, <1>3, <1>4, <1>5, <1>6 DEF Typed

LEMMA WorkerTypes ==
  ASSUME Shape, WorkersType, ChannelType, workerState \in [Worker -> States],
         NEW u \in Worker, WorkerActs(u)
  PROVE  WorkersType' /\ ChannelType' /\ workerState' \in [Worker -> States]
<1>1. WorkerStep(u)
  BY DEF WorkerActs
<1>2. Typed(u)
  BY <1>1, LoadTyped, KeepTyped, ComputeTyped, EmitTyped, CreateTyped, RestoreTyped,
     PlainTyped DEF WorkerStep
<1>3. /\ DOMAIN store' = Worker /\ DOMAIN outbox' = Worker
      /\ algorithmSet' \in [Worker -> BOOLEAN]
      /\ \A w \in Worker \ {u} : store'[w] = store[w] /\ outbox'[w] = outbox[w]
  <2>. USE <1>1 DEF WorkersType
  <2>1. CASE \/ Bind(u) \/ SendReady(u) \/ FetchVertices(u) \/ DumpVerticesCsv(u)
             \/ Shutdown(u) \/ LosesDriver(u) \/ CreateCheckpoint(u) \/ SetAlgorithm(u)
             \/ KeepBatch(u)
    BY <2>1 DEF Bind, SendReady, FetchVertices, DumpVerticesCsv, Shutdown, LosesDriver,
       CreateCheckpoint, SetAlgorithm, KeepBatch, workerVars
  <2>2. CASE LoadGraph(u) \/ LoadGraphBatch(u)
    BY <2>2 DEF LoadGraph, LoadGraphBatch
  <2>3. CASE ComputeSuperstep(u)
    BY <2>3 DEF ComputeSuperstep
  <2>4. CASE EmitBatch(u)
    BY <2>4 DEF EmitBatch
  <2>5. CASE LoadCheckpoint(u)
    BY <2>5 DEF LoadCheckpoint
  <2>. QED  BY <2>1, <2>2, <2>3, <2>4, <2>5 DEF WorkerStep
<1>4. ASSUME NEW w \in Worker PROVE WorkerType(w)'
  <2>1. CASE w = u
    BY <1>2, <2>1 DEF Typed
  <2>2. CASE w # u
    <3>1. SameWorker(w)
      BY <2>2, WorkerFrame
    <3>. QED  BY <1>3, <2>2, <3>1 DEF SameWorker, WorkersType, WorkerType
  <2>. QED  BY <2>1, <2>2
<1>5. \A w \in Worker : QuestionsType(w, toWorker[w])'
  <2>1. CASE toWorker' = toWorker
    BY <2>1 DEF ChannelType, QuestionsType
  <2>2. CASE toWorker[u] # << >> /\ WorkerTakes(u)
    BY <2>2, QuestionTaken
  <2>. QED  BY <1>2, <2>1, <2>2 DEF Typed
<1>6. \A w \in Worker : AnswersType(toDriver[w])'
  <2>1. CASE toDriver' = toDriver
    BY <2>1 DEF ChannelType, AnswersType
  <2>2. ASSUME NEW f, AnswerType(f), WorkerSends(u, f)
        PROVE  \A w \in Worker : AnswersType(toDriver[w])'
    BY <2>2, AnswerSent
  <2>. QED  BY <1>2, <2>1, <2>2 DEF Typed
<1>. QED  BY <1>2, <1>3, <1>4, <1>5, <1>6 DEF Typed, WorkersType, ChannelType

----------------------------------------------------------------------------
(* The steps of the driver: what it sends and takes, and what it has then. *)
Says == toWorker' = toWorker \/ \E w \in Worker : \E f : QuestionType(w, f) /\ DriverSends(w, f)

Hears == toDriver' = toDriver \/ (turn \in Worker /\ toDriver[turn] # << >> /\ DriverTakes(turn))

DriverTyped == Says /\ Hears /\ DriverType' /\ workerState' \in [Worker -> States]

(* Whose turn it is. *)
LEMMA TurnOf ==
  ASSUME Shape, turn <= N
  PROVE  turn \in Worker
BY SizeAssumption DEF Shape, Worker

(* A frame with nothing in it. *)
LEMMA PlainQuestion ==
  ASSUME NEW w, NEW f,
         f.type \in {"SetAlgorithm", "FetchVertices", "DumpVerticesCsv", "Shutdown"}
  PROVE  QuestionType(w, f)
BY DEF QuestionType, DriverToWorker

LEMMA ToAllTyped ==
  ASSUME Shape, DriverType, workerState \in [Worker -> States],
         \/ LoadAll \/ SetAlgorithmAll \/ LoadCheckpointAll \/ CreateCheckpointAll
         \/ FetchAll \/ ShutdownAll
  PROVE  DriverTyped
<1>1. /\ UNCHANGED <<toDriver, driverAlive, workerState, phase, iteration, mail,
                     inboxes, unsent, nextMail, result, unloaded, saved>>
      /\ turn <= N
  BY DEF LoadAll, SetAlgorithmAll, LoadCheckpointAll, CreateCheckpointAll, FetchAll,
     ShutdownAll, SendsToAll, At
<1>2. DriverType'
  BY <1>1 DEF DriverType, PhaseType, GraphType, Phases
<1>3. turn \in Worker
  BY <1>1, TurnOf
<1>4. \E f : QuestionType(turn, f) /\ DriverSends(turn, f)
  <2>1. CASE LoadAll
    <3>1. PICK f : f = [type |-> "LoadGraph", graph |-> PartitionOf(turn)]
      OBVIOUS
    <3>2. f.type = "LoadGraph" /\ f.graph = PartitionOf(turn)
      BY <3>1
    <3>3. DriverSends(turn, f)
      BY <2>1, <3>1 DEF LoadAll, SendsToAll
    <3>4. IsPart(PartitionOf(turn), turn)
      <4>1. \A v \in DOMAIN PartitionOf(turn).vertices : PartitionOf(turn).vertices[v] \in Int
        BY InputAssumption DEF PartitionOf, ShareOf, Restrict
      <4>2. {Plain(e) : e \in PartitionOf(turn).edges} = PartitionOf(turn).edges
        BY PartIs, PlainEdges
      <4>. QED  BY <4>1, <4>2, PartIs DEF IsPart
    <3>. QED  BY <3>2, <3>3, <3>4 DEF QuestionType, DriverToWorker
  <2>2. CASE LoadCheckpointAll
    <3>1. PICK f : f = [type |-> "LoadCheckpoint", iteration |-> saved.iteration]
      OBVIOUS
    <3>2. f.type = "LoadCheckpoint" /\ f.iteration = saved.iteration
      BY <3>1
    <3>3. DriverSends(turn, f) /\ phase = "restore"
      BY <2>2, <3>1 DEF LoadCheckpointAll, SendsToAll, At
    <3>4. f.iteration \in 1 .. MaxIterations
      BY <3>2, <3>3, MaxIterationsAssumption DEF DriverType, PhaseType
    <3>. QED  BY <3>2, <3>3, <3>4 DEF QuestionType, DriverToWorker
  <2>3. CASE CreateCheckpointAll
    <3>1. PICK f : f = [type |-> "CreateCheckpoint", iteration |-> iteration - 1]
      OBVIOUS
    <3>2. f.type = "CreateCheckpoint" /\ f.iteration = iteration - 1
      BY <3>1
    <3>3. DriverSends(turn, f) /\ phase = "checkpoint"
      BY <2>3, <3>1 DEF CreateCheckpointAll, SendsToAll, At
    <3>4. f.iteration \in 1 .. MaxIterations
      BY <3>2, <3>3, MaxIterationsAssumption DEF DriverType, PhaseType
    <3>. QED  BY <3>2, <3>3, <3>4 DEF QuestionType, DriverToWorker
  <2>4. CASE SetAlgorithmAll
    BY <2>4, PlainQuestion DEF SetAlgorithmAll, SendsToAll
  <2>5. CASE FetchAll
    BY <2>5, PlainQuestion DEF FetchAll, SendsToAll
  <2>6. CASE ShutdownAll
    BY <2>6, PlainQuestion DEF ShutdownAll, SendsToAll
  <2>. QED  BY <2>1, <2>2, <2>3, <2>4, <2>5, <2>6
<1>. QED  BY <1>1, <1>2, <1>3, <1>4 DEF DriverTyped, Says, Hears

(* A part of a streamed graph. *)
LEMMA GraphSent ==
  ASSUME DriverType, NEW w \in Worker, NEW g, IsPart(g, w), NEW last,
         SendGraphBatch(w, g, last), workerState \in [Worker -> States]
  PROVE  Says /\ Hears /\ workerState' \in [Worker -> States]
<1>1. PICK f : f = [type |-> "LoadGraphBatch", graph |-> g, last |-> last]
  OBVIOUS
<1>2. f.type = "LoadGraphBatch" /\ f.graph = g
  BY <1>1
<1>3. DriverSends(w, f) /\ UNCHANGED <<toDriver, workerState>>
  BY <1>1 DEF SendGraphBatch
<1>4. QuestionType(w, f)
  BY <1>2 DEF QuestionType, DriverToWorker
<1>. QED  BY <1>3, <1>4 DEF Says, Hears

LEMMA StreamTyped ==
  ASSUME Shape, DriverType, workerState \in [Worker -> States], StreamBatch
  PROVE  DriverTyped
<1> DEFINE graph(batch) == IF unloaded.vertices # NoMail
                             THEN [vertices |-> Restrict(unloaded.vertices, batch),
                                   edges    |-> {}]
                             ELSE [vertices |-> NoMail, edges |-> batch]
<1>1. PICK w \in Worker :
        \E batch \in IF FileRead THEN {Unread(w)} ELSE kSubset(LoadEntries, Unread(w)) :
          /\ SendGraphBatch(w, graph(batch), FALSE)
          /\ unloaded' = [ vertices |-> Restrict(unloaded.vertices,
                                          DOMAIN unloaded.vertices
                                            \ DOMAIN graph(batch).vertices),
                           edges    |-> unloaded.edges \ graph(batch).edges ]
  BY DEF StreamBatch
<1>2. PICK batch \in IF FileRead THEN {Unread(w)} ELSE kSubset(LoadEntries, Unread(w)) :
          /\ SendGraphBatch(w, graph(batch), FALSE)
          /\ unloaded' = [ vertices |-> Restrict(unloaded.vertices,
                                          DOMAIN unloaded.vertices
                                            \ DOMAIN graph(batch).vertices),
                           edges    |-> unloaded.edges \ graph(batch).edges ]
  BY <1>1
<1>3. batch \subseteq Unread(w)
  BY <1>2 DEF kSubset
<1>4. IsPart(graph(batch), w)
  <2>1. CASE unloaded.vertices # NoMail
    <3>1. batch \subseteq {v \in DOMAIN unloaded.vertices : Part[v] = w}
      BY <1>3, <2>1 DEF Unread, ShareOf, Restrict
    <3>2. /\ graph(batch).vertices = [v \in batch |-> unloaded.vertices[v]]
          /\ graph(batch).edges = {}
      BY <2>1 DEF Restrict
    <3>3. {Plain(e) : e \in graph(batch).edges} = {} /\ IsFiniteSet(graph(batch).edges)
      BY <3>2, FS_EmptySet
    <3> HIDE DEF graph
    <3>. QED  BY <3>1, <3>2, <3>3, PartIs DEF IsPart, DriverType, GraphType
  <2>2. CASE unloaded.vertices = NoMail
    <3>1. batch \subseteq {e \in unloaded.edges : Part[e.src] = w}
      BY <1>3, <2>2 DEF Unread, ShareOf
    <3>2. batch \subseteq PartitionOf(w).edges
      BY <3>1, PartIs DEF DriverType, GraphType
    <3>3. graph(batch).vertices = NoMail /\ graph(batch).edges = batch
      BY <2>2
    <3>4. {Plain(e) : e \in batch} = batch /\ IsFiniteSet(batch)
      BY <3>2, PartIs, PlainEdges, FS_Subset
    <3> HIDE DEF graph
    <3>. QED  BY <3>2, <3>3, <3>4, EmptyQueue DEF IsPart
  <2>. QED  BY <2>1, <2>2
<1> HIDE DEF graph
<1>5. Says /\ Hears /\ workerState' \in [Worker -> States]
  BY <1>2, <1>4, GraphSent
<1>6. /\ phase = "stream" /\ phase' = "loaded"
      /\ UNCHANGED <<driverAlive, iteration, mail, unsent, nextMail, result, saved>>
  BY <1>2 DEF SendGraphBatch, StreamBatch, At
<1>7. PhaseType'
  BY <1>6 DEF DriverType, PhaseType, Phases
<1>8. GraphType'
  <2>1. /\ unloaded'.edges \subseteq unloaded.edges
        /\ unloaded'.vertices = Restrict(unloaded.vertices,
                                  DOMAIN unloaded.vertices \ DOMAIN graph(batch).vertices)
    BY <1>2
  <2>2. /\ DOMAIN unloaded'.vertices \subseteq DOMAIN unloaded.vertices
        /\ \A v \in DOMAIN unloaded'.vertices : unloaded'.vertices[v] = unloaded.vertices[v]
    BY <2>1 DEF Restrict
  <2>. QED  BY <1>6, <2>1, <2>2 DEF DriverType, GraphType
<1>. QED  BY <1>5, <1>6, <1>7, <1>8 DEF DriverTyped, DriverType

LEMMA OneTyped ==
  ASSUME Shape, DriverType, workerState \in [Worker -> States], SealBatch \/ DumpPart
  PROVE  DriverTyped
<1>1. turn \in Worker
  BY TurnOf DEF SealBatch, DumpPart, At
<1>2. /\ \/ phase = "seal" /\ phase' = "sealed"
         \/ phase = "dump" /\ phase' = "dumped"
      /\ UNCHANGED <<toDriver, driverAlive, workerState, iteration, mail, unsent, nextMail,
                     result, unloaded, saved>>
  BY DEF SealBatch, DumpPart, At, SendGraphBatch
<1>3. DriverType'
  BY <1>2 DEF DriverType, PhaseType, GraphType, Phases
<1>4. Says
  <2>1. CASE SealBatch
    BY <1>1, <2>1, NothingIsPart, GraphSent DEF SealBatch
  <2>2. CASE DumpPart
    BY <1>1, <2>2, PlainQuestion DEF DumpPart, Says
  <2>. QED  BY <2>1, <2>2
<1>. QED  BY <1>2, <1>3, <1>4 DEF DriverTyped, Hears

LEMMA SendBatchTyped ==
  ASSUME Shape, DriverType, workerState \in [Worker -> States], SendBatch
  PROVE  DriverTyped
<1> DEFINE targets == {e.dst : e \in DOMAIN unsent}
           now(batch) == {e \in DOMAIN unsent : e.dst \in batch}
<1>1. PICK batch \in NextBatch(targets) :
        /\ DriverSends(turn, [ type      |-> "SuperstepBatch",
                               iteration |-> iteration,
                               inbox     |-> Restrict(unsent, now(batch)),
                               last      |-> batch = targets ])
        /\ unsent' = IF batch = targets THEN RouteTo(mail, inboxes.part, turn + 1)
                     ELSE Restrict(unsent, DOMAIN unsent \ now(batch))
  BY DEF SendBatch
<1>2. /\ phase = "send" /\ turn \in Worker
      /\ UNCHANGED <<toDriver, driverAlive, workerState, phase, iteration, mail,
                     inboxes, nextMail, unloaded, result, saved>>
  BY TurnOf DEF SendBatch, At
<1>3. /\ now(batch) \subseteq DOMAIN unsent
      /\ DOMAIN unsent \ now(batch) \subseteq DOMAIN unsent
  OBVIOUS
<1> HIDE DEF now, targets
<1>4. MailType(unsent) /\ MailType(mail)
  BY DEF DriverType
<1>5. MailType(Restrict(unsent, now(batch))) /\ MailType(unsent')
  BY <1>1, <1>3, <1>4, RestrictType, RouteType
<1>6. Says
  <2>1. PICK f : f = [ type      |-> "SuperstepBatch",
                       iteration |-> iteration,
                       inbox     |-> Restrict(unsent, now(batch)),
                       last      |-> batch = targets ]
    OBVIOUS
  <2>2. /\ f.type = "SuperstepBatch" /\ f.iteration = iteration
        /\ f.inbox = Restrict(unsent, now(batch))
    BY <2>1
  <2>3. iteration \in 1 .. MaxIterations
    BY <1>2, MaxIterationsAssumption DEF DriverType, PhaseType
  <2>4. QuestionType(turn, f)
    BY <1>5, <2>2, <2>3 DEF QuestionType, DriverToWorker
  <2>5. DriverSends(turn, f)
    BY <1>1, <2>1
  <2>. QED  BY <1>2, <2>4, <2>5 DEF Says
<1>7. DriverType'
  BY <1>2, <1>5 DEF DriverType, PhaseType, GraphType, Phases
<1>. QED  BY <1>2, <1>6, <1>7 DEF DriverTyped, Hears

(* What the driver takes. *)
LEMMA TakesTyped ==
  ASSUME Shape, DriverType, ChannelType, workerState \in [Worker -> States],
         \/ ReceiveReady \/ ReceiveGraphLoaded \/ ReceiveResult \/ ReceiveCreated
         \/ ReceiveLoaded \/ ReceiveVertices \/ ReceiveDumped
  PROVE  DriverTyped
<1>1. /\ turn \in Worker /\ toDriver[turn] # << >> /\ DriverTakes(turn)
      /\ UNCHANGED <<toWorker, driverAlive, workerState, iteration, mail, unsent,
                     unloaded, saved>>
  BY TurnOf DEF ReceiveReady, ReceiveGraphLoaded, ReceiveResult, ReceiveCreated,
     ReceiveLoaded, ReceiveVertices, ReceiveDumped, At, Receives
<1>2. AnswerType(Head(toDriver[turn]))
  BY <1>1, AnswerTaken
<1>3. \/ phase' = phase
      \/ phase = "handshake" /\ phase' = "connect"
      \/ phase = "loaded" /\ phase' = "stream"
      \/ phase = "sealed" /\ phase' = "seal"
      \/ phase = "dumped" /\ phase' = "dump"
  BY DEF ReceiveReady, ReceiveGraphLoaded, ReceiveResult, ReceiveCreated,
     ReceiveLoaded, ReceiveVertices, ReceiveDumped, At, Goto
<1>4. PhaseType'
  BY <1>1, <1>3 DEF DriverType, PhaseType, Phases
<1>5. MailType(nextMail')
  <2>1. CASE ReceiveResult
    <3>1. MailType(Head(toDriver[turn]).outbox)
      BY <1>2, <2>1 DEF ReceiveResult, Receives, AnswerType
    <3>2. nextMail' = Merge(nextMail, Head(toDriver[turn]).outbox)
      BY <2>1 DEF ReceiveResult
    <3>. QED  BY <3>1, <3>2, MergeType DEF DriverType
  <2>2. CASE ~ReceiveResult
    <3>1. nextMail' = nextMail
      BY <2>2 DEF ReceiveReady, ReceiveGraphLoaded, ReceiveCreated, ReceiveLoaded,
         ReceiveVertices, ReceiveDumped
    <3>. QED  BY <3>1 DEF DriverType
  <2>. QED  BY <2>1, <2>2
<1>6. DOMAIN result' \subseteq DOMAIN Input.vertices
  <2>1. CASE ReceiveVertices \/ ReceiveDumped
    <3>1. DOMAIN Head(toDriver[turn]).vertices \subseteq DOMAIN Input.vertices
      BY <1>2, <2>1 DEF ReceiveVertices, ReceiveDumped, Receives, AnswerType
    <3>2. result' = Merge(result, Head(toDriver[turn]).vertices)
      BY <2>1 DEF ReceiveVertices, ReceiveDumped
    <3>. QED  BY <3>1, <3>2 DEF DriverType, GraphType, Merge
  <2>2. CASE ~(ReceiveVertices \/ ReceiveDumped)
    <3>1. result' = result
      BY <2>2 DEF ReceiveReady, ReceiveGraphLoaded, ReceiveCreated, ReceiveLoaded,
         ReceiveResult
    <3>. QED  BY <3>1 DEF DriverType, GraphType
  <2>. QED  BY <2>1, <2>2
<1>. QED  BY <1>1, <1>4, <1>5, <1>6 DEF DriverTyped, Says, Hears, DriverType, GraphType

(* From one call to the next. *)
LEMMA NextCallTyped ==
  ASSUME Shape, DriverType, workerState \in [Worker -> States],
         NextCall \/ StreamEnds
  PROVE  DriverTyped
<1>1. UNCHANGED <<channels, driverAlive, workerState, iteration, mail, unsent, nextMail,
                  result, unloaded, saved>>
  BY DEF NextCall, StreamEnds
<1>2. PhaseType'
  <2>1. CASE StreamEnds
    BY <1>1, <2>1 DEF StreamEnds, At, Goto, DriverType, PhaseType, Phases
  <2>2. CASE NextCall /\ Streaming
    BY <1>1, <2>2 DEF NextCall, Goto, Successor, Graph500Calls, DriverType, PhaseType, Phases
  <2>3. CASE NextCall /\ ~Streaming
    BY <1>1, <2>3 DEF NextCall, Goto, Successor, RunJobCalls, DriverType, PhaseType, Phases
  <2>. QED  BY <2>1, <2>2, <2>3
<1>. QED  BY <1>1, <1>2 DEF DriverTyped, Says, Hears, DriverType, GraphType, channels

LEMMA NextRoundTyped ==
  ASSUME Shape, DriverType, workerState \in [Worker -> States], NextRound
  PROVE  DriverTyped
<1>1. UNCHANGED <<channels, driverAlive, workerState, iteration, mail, nextMail,
                  result, unloaded, saved>>
  BY DEF NextRound
<1>2. \/ /\ iteration <= MaxIterations /\ phase' = "send"
         /\ unsent' = RouteTo(mail, inboxes.part, 1)
      \/ phase' = Collecting /\ unsent' = unsent
  BY DEF NextRound, BeginRound, Goto
<1>3. PhaseType'
  BY <1>1, <1>2 DEF DriverType, PhaseType, Phases, Collecting
<1>4. MailType(unsent')
  BY <1>2, RouteType DEF DriverType
<1>. QED  BY <1>1, <1>3, <1>4 DEF DriverTyped, Says, Hears, DriverType, GraphType, channels

LEMMA RoundEndsTyped ==
  ASSUME Shape, DriverType, workerState \in [Worker -> States],
         EndRound \/ Publish \/ Recover
  PROVE  DriverTyped
<1>1. UNCHANGED <<channels, driverAlive, workerState, unsent, result, unloaded>>
  BY DEF EndRound, Publish, Recover
<1>2. MailType(mail') /\ MailType(nextMail') /\ MailType(saved'.mail)
  BY NoMailType DEF EndRound, Publish, Recover, DriverType
<1>3. \A m : AfterRound(m) \in {"round", Collecting}
  BY DEF AfterRound
<1>4. CASE EndRound
  <2>1. /\ phase = "receive" /\ iteration' = iteration + 1 /\ saved' = saved
        /\ phase' = IF Checkpoints(iteration) THEN "checkpoint" ELSE AfterRound(nextMail)
    BY <1>4 DEF EndRound, Through, Goto
  <2>2. Streaming => ~Checkpoints(iteration)
    BY StreamingAssumption DEF Checkpoints
  <2>3. phase' \in {"round", Collecting} \/ (phase' = "checkpoint" /\ ~Streaming)
    BY <1>3, <2>1, <2>2
  <2>4. iteration' \in 2 .. (MaxIterations + 1)
    BY <2>1, MaxIterationsAssumption DEF DriverType, PhaseType
  <2>5. PhaseType'
    BY <2>1, <2>3, <2>4 DEF DriverType, PhaseType, Phases, Collecting
  <2>. QED  BY <1>1, <1>2, <2>5 DEF DriverTyped, Says, Hears, DriverType, GraphType, channels
<1>5. CASE Publish
  <2>1. /\ phase = "checkpointed" /\ iteration' = iteration
        /\ saved'.iteration = iteration - 1 /\ phase' = AfterRound(mail)
    BY <1>5 DEF Publish, Through, Goto
  <2>2. saved'.iteration \in 0 .. MaxIterations
    BY <2>1, MaxIterationsAssumption DEF DriverType, PhaseType
  <2>3. PhaseType'
    BY <1>3, <2>1, <2>2 DEF DriverType, PhaseType, Phases, Collecting
  <2>. QED  BY <1>1, <1>2, <2>3 DEF DriverTyped, Says, Hears, DriverType, GraphType, channels
<1>6. CASE Recover
  <2>1. /\ phase = "restored" /\ iteration' = saved.iteration + 1
        /\ saved' = saved /\ phase' = "round"
    BY <1>6 DEF Recover, Through, Goto
  <2>2. iteration' \in 1 .. (MaxIterations + 1)
    BY <2>1, MaxIterationsAssumption DEF DriverType, PhaseType
  <2>3. PhaseType'
    BY <2>1, <2>2 DEF DriverType, PhaseType, Phases
  <2>. QED  BY <1>1, <1>2, <2>3 DEF DriverTyped, Says, Hears, DriverType, GraphType, channels
<1>. QED  BY <1>4, <1>5, <1>6

(* Connecting to a worker, and giving up. *)
LEMMA ConnectTyped ==
  ASSUME Shape, DriverType, workerState \in [Worker -> States], Connect \/ DriverFails
  PROVE  DriverTyped
<1>1. /\ UNCHANGED <<channels, iteration, mail, unsent, nextMail, result, unloaded, saved>>
      /\ phase' = phase \/ (phase = "connect" /\ phase' = "handshake")
      /\ driverAlive' = driverAlive \/ driverAlive' = FALSE
  BY DEF Connect, DriverFails, At, driverVars
<1>2. PhaseType'
  BY <1>1 DEF DriverType, PhaseType, Phases
<1>3. driverAlive' \in BOOLEAN
  BY <1>1 DEF DriverType
<1>4. workerState' \in [Worker -> States]
  BY DEF Connect, DriverFails, States
<1>. QED  BY <1>1, <1>2, <1>3, <1>4 DEF DriverTyped, Says, Hears, DriverType, GraphType,
          channels

LEMMA DriverTypes ==
  ASSUME Shape, DriverType, WorkersType, ChannelType, workerState \in [Worker -> States],
         DriverActs
  PROVE  DriverType' /\ WorkersType' /\ ChannelType' /\ workerState' \in [Worker -> States]
<1>1. DriverStep /\ UNCHANGED workerVars
  BY DEF DriverActs
<1>2. DriverTyped
  BY <1>1, ToAllTyped, StreamTyped, OneTyped, SendBatchTyped, TakesTyped, NextCallTyped,
     NextRoundTyped, RoundEndsTyped, ConnectTyped DEF DriverStep
<1>3. WorkersType'
  BY <1>1 DEF workerVars, WorkersType, WorkerType
<1>4. \A w \in Worker : QuestionsType(w, toWorker[w])'
  <2>1. CASE toWorker' = toWorker
    BY <2>1 DEF ChannelType, QuestionsType
  <2>2. ASSUME NEW u \in Worker, NEW f, QuestionType(u, f), DriverSends(u, f)
        PROVE  \A w \in Worker : QuestionsType(w, toWorker[w])'
    BY <2>2, QuestionSent
  <2>. QED  BY <1>2, <2>1, <2>2 DEF DriverTyped, Says
<1>5. \A w \in Worker : AnswersType(toDriver[w])'
  <2>1. CASE toDriver' = toDriver
    BY <2>1 DEF ChannelType, AnswersType
  <2>2. CASE turn \in Worker /\ toDriver[turn] # << >> /\ DriverTakes(turn)
    BY <2>2, AnswerTaken
  <2>. QED  BY <1>2, <2>1, <2>2 DEF DriverTyped, Hears
<1>. QED  BY <1>2, <1>3, <1>4, <1>5 DEF DriverTyped, ChannelType

----------------------------------------------------------------------------
LEMMA InitTypes ==
  ASSUME OwnTypes, Init
  PROVE  TypeInv
<1>1. PICK s \in Starts :
        /\ saved = s.saved
        /\ images = [w \in Worker |-> IF w \in DOMAIN s.images THEN s.images[w]
                                                              ELSE << >>]
  BY Zenon DEF Init
<1>2. /\ saved.iteration \in 0 .. MaxIterations /\ MailType(saved.mail)
      /\ \A w \in Worker :
           /\ DOMAIN images[w] \subseteq 1 .. MaxIterations
           /\ \A k \in DOMAIN images[w] : IsPart(images[w][k], w)
  <2>1. DOMAIN << >> = {}
    OBVIOUS
  <2>. QED  BY <1>1, <2>1 DEF OwnTypes, MailType
<1>3. /\ phase = "connect" /\ iteration = 1 /\ driverAlive = TRUE /\ crashes = 0
      /\ mail = NoMail /\ unsent = NoMail /\ nextMail = NoMail /\ unloaded = Input
      /\ result = NoMail
  BY DEF Init, DriverInit
<1>4. PhaseType
  BY <1>2, <1>3, MaxIterationsAssumption DEF PhaseType, Phases
<1>5. GraphType
  BY <1>3, EmptyQueue, InputAssumption DEF GraphType
<1>6. DriverType
  BY <1>2, <1>3, <1>4, <1>5, NoMailType DEF DriverType
<1>7. WorkersType
  <2>1. /\ DOMAIN store = Worker /\ DOMAIN outbox = Worker
        /\ algorithmSet \in [Worker -> BOOLEAN] /\ teleport \in [Worker -> Int]
    <3>1. NoTeleport \in Int
      BY DEF NoTeleport
    <3>2. /\ store = [w \in Worker |-> Leftover[w]]
          /\ algorithmSet = [w \in Worker |-> FALSE]
          /\ teleport = [w \in Worker |-> NoTeleport]
          /\ outbox = [w \in Worker |-> NoMail]
      BY DEF Init, WorkerInit
    <3>. QED  BY <3>1, <3>2
  <2>2. ASSUME NEW w \in Worker PROVE WorkerType(w)
    <3>1. /\ store[w] = Leftover[w] /\ pendingIteration[w] = 0 /\ computed[w] = 0
          /\ pendingInbox[w] = NoMail /\ outbox[w] = NoMail
      BY DEF Init, WorkerInit
    <3>. QED  BY <1>2, <3>1, NoMailType, MaxIterationsAssumption DEF OwnTypes, WorkerType
  <2>. QED  BY <2>1, <2>2 DEF WorkersType
<1>8. ChannelType
  <2>1. \A w \in Worker : toWorker[w] = << >> /\ toDriver[w] = << >>
    BY DEF Init
  <2>. QED  BY <2>1, EmptyQueue, ShortQueue, SizeAssumption
            DEF ChannelType, QuestionsType, AnswersType
<1>9. workerState \in [Worker -> States] /\ faulty \subseteq Worker
  BY DEF Init, WorkerInit, States
<1>. QED  BY <1>3, <1>6, <1>7, <1>8, <1>9, InitShape, CrashesAssumption DEF TypeInv

LEMMA FaultTypes ==
  ASSUME TypeInv, NEW u \in Worker, WorkerFaults(u)
  PROVE  DriverType' /\ WorkersType' /\ ChannelType' /\ workerState' \in [Worker -> States]
<1>. USE DEF TypeInv
<1>1. /\ WorkerTakes(u) /\ toWorker[u] # << >>
      /\ WorkerSends(u, [type |-> "Error"])
      /\ UNCHANGED <<driverAlive, driverVars, workerState, workerVars>>
  BY FaultFrame
<1>2. DriverType' /\ WorkersType'
  BY <1>1 DEF driverVars, workerVars, DriverType, PhaseType, Phases, GraphType,
     WorkersType, WorkerType
<1>3. AnswerType([type |-> "Error"])
  BY PlainAnswer
<1>4. \A w \in Worker : QuestionsType(w, toWorker[w])'
  BY <1>1, QuestionTaken
<1>5. \A w \in Worker : AnswersType(toDriver[w])'
  BY <1>1, <1>3, AnswerSent
<1>. QED  BY <1>1, <1>2, <1>4, <1>5 DEF ChannelType

LEMMA CrashTypes ==
  ASSUME TypeInv, NEW u \in Worker, WorkerCrash(u)
  PROVE  DriverType' /\ WorkersType' /\ ChannelType' /\ workerState' \in [Worker -> States]
<1>1. PICK n \in 0 .. Len(toDriver[u]) :
        toDriver' = [toDriver EXCEPT ![u] = SubSeq(@, 1, n)]
  BY DEF WorkerCrash
<1>2. /\ UNCHANGED <<driverAlive, driverVars, workerVars>>
      /\ workerState' = [workerState EXCEPT ![u] = "exited"]
      /\ toWorker' = [toWorker EXCEPT ![u] = << >>]
  BY DEF WorkerCrash
<1>3. DriverType' /\ WorkersType'
  BY <1>2 DEF TypeInv, driverVars, workerVars, DriverType, PhaseType, Phases, GraphType,
     WorkersType, WorkerType
<1>4. workerState' \in [Worker -> States]
  BY <1>2 DEF TypeInv, States
<1>5. ASSUME NEW w \in Worker PROVE QuestionsType(w, toWorker[w])'
  <2>1. CASE w = u
    <3>1. toWorker'[w] = << >>
      BY <1>2, <2>1 DEF TypeInv, Shape
    <3>. QED  BY <3>1, EmptyQueue, ShortQueue, SizeAssumption DEF QuestionsType
  <2>2. CASE w # u
    BY <1>2, <2>2 DEF TypeInv, Shape, ChannelType, QuestionsType
  <2>. QED  BY <2>1, <2>2
<1>6. ASSUME NEW w \in Worker PROVE AnswersType(toDriver[w])'
  <2>1. CASE w = u
    <3>1. toDriver'[u] = SubSeq(toDriver[u], 1, n) /\ IsQueue(toDriver[u])
      BY <1>1 DEF TypeInv, Shape
    <3>2. /\ Len(toDriver'[u]) = n
          /\ \A i \in 1 .. n : toDriver'[u][i] = toDriver[u][i]
          /\ Len(toDriver[u]) \in Nat
      BY <3>1, QueuePrefix, LenProperties DEF IsQueue
    <3>3. AnswersType(toDriver[u])
      BY DEF TypeInv, ChannelType
    <3>. QED  BY <2>1, <3>2, <3>3, SizeAssumption DEF AnswersType
  <2>2. CASE w # u
    BY <1>1, <2>2 DEF TypeInv, Shape, ChannelType, AnswersType
  <2>. QED  BY <2>1, <2>2
<1>. QED  BY <1>3, <1>4, <1>5, <1>6 DEF ChannelType

LEMMA NextTypes ==
  ASSUME IndInv, TypeInv, [Next]_vars
  PROVE  TypeInv'
<1>. USE DEF TypeInv
<1>1. Shape'
  BY NextInd DEF IndInv
<1>2. /\ DriverType' /\ WorkersType' /\ ChannelType'
      /\ workerState' \in [Worker -> States]
  <2>1. CASE DriverActs
    BY <2>1, DriverTypes
  <2>2. ASSUME NEW w \in Worker, WorkerActs(w)
        PROVE  /\ DriverType' /\ WorkersType' /\ ChannelType'
               /\ workerState' \in [Worker -> States]
    <3>1. driverAlive' = driverAlive /\ UNCHANGED driverVars
      BY <2>2, WorkerFrame DEF WorkerActs
    <3>2. DriverType'
      BY <3>1 DEF driverVars, DriverType, PhaseType, Phases, GraphType
    <3>. QED  BY <2>2, <3>2, WorkerTypes
  <2>3. ASSUME NEW w \in Worker, WorkerFaults(w) \/ WorkerCrash(w)
        PROVE  /\ DriverType' /\ WorkersType' /\ ChannelType'
               /\ workerState' \in [Worker -> States]
    BY <2>3, FaultTypes, CrashTypes
  <2>4. CASE DriverCrash \/ UNCHANGED vars
    <3>1. /\ UNCHANGED <<channels, workerState, driverVars, workerVars>>
          /\ driverAlive' = driverAlive \/ driverAlive' = FALSE
      BY <2>4 DEF DriverCrash, vars
    <3>. QED  BY <3>1 DEF channels, driverVars, workerVars, DriverType, PhaseType, Phases,
              GraphType, WorkersType, WorkerType, ChannelType, QuestionsType, AnswersType
  <2>. QED  BY <2>1, <2>2, <2>3, <2>4 DEF Next
<1>3. crashes' \in 0 .. MaxCrashes
  <2>1. crashes' = crashes \/ (crashes < MaxCrashes /\ crashes' = crashes + 1)
    BY DEF Next, DriverActs, WorkerActs, WorkerFaults, WorkerCrash, DriverCrash,
       clusterVars, vars
  <2>. QED  BY <2>1, CrashesAssumption
<1>4. faulty' \subseteq Worker
  BY DEF Next, DriverActs, WorkerActs, WorkerFaults, WorkerCrash, DriverCrash,
     clusterVars, vars
<1>. QED  BY <1>1, <1>2, <1>3, <1>4

(* Every variable has its type: in particular the iteration the driver is  *)
(* at stays within the budget, messages are those of edges of the input,   *)
(* and no worker is given a vertex or an edge that is not its own.         *)
THEOREM TypeCorrect ==
  ASSUME OwnTypes
  PROVE  Spec => []TypeOK
<1>1. Init => IndInv /\ TypeInv
  BY InitIsInd, InitTypes
<1>2. (IndInv /\ TypeInv) /\ [Next]_vars => (IndInv /\ TypeInv)'
  BY NextInd, NextTypes
<1>3. TypeInv => TypeOK
  <2>. SUFFICES ASSUME TypeInv PROVE TypeOK
    OBVIOUS
  <2>1. ASSUME NEW w \in Worker
        PROVE  /\ Len(toWorker[w]) <= Capacity /\ Len(toDriver[w]) <= Capacity
               /\ \A f \in Range(toWorker[w]) : f.type \in DriverToWorker
               /\ \A f \in Range(toDriver[w]) : f.type \in WorkerToDriver
    <3>1. DOMAIN toWorker[w] = 1 .. Len(toWorker[w]) /\ DOMAIN toDriver[w] = 1 .. Len(toDriver[w])
      BY LenProperties DEF TypeInv, Shape, IsQueue
    <3>. QED  BY <3>1 DEF TypeInv, ChannelType, QuestionsType, QuestionType, AnswersType,
              AnswerType, Range
  <2>2. phase \in DOMAIN Successor \cup DOMAIN Expected \cup {"stream", "round", "done"}
    BY DEF TypeInv, DriverType, PhaseType, Phases, Successor, Graph500Calls, RunJobCalls,
       Expected
  <2>3. /\ turn \in 1 .. (N + 1) /\ IsMail(mail) /\ IsMail(unsent) /\ IsMail(nextMail)
        /\ saved.iteration \in 0 .. MaxIterations /\ iteration \in 1 .. (MaxIterations + 1)
        /\ DOMAIN unloaded.vertices \subseteq DOMAIN Input.vertices
        /\ unloaded.edges \subseteq Input.edges
        /\ DOMAIN result \subseteq DOMAIN Input.vertices
        /\ driverAlive \in BOOLEAN
    BY DEF TypeInv, Shape, DriverType, PhaseType, GraphType, MailType
  <2>4. ASSUME NEW w \in Worker
        PROVE  /\ DOMAIN store[w].vertices \subseteq DOMAIN PartitionOf(w).vertices
               /\ {Plain(e) : e \in store[w].edges} \subseteq PartitionOf(w).edges
               /\ DOMAIN images[w] \subseteq 1 .. MaxIterations
               /\ pendingIteration[w] \in 0 .. MaxIterations
               /\ IsMail(pendingInbox[w]) /\ IsMail(outbox[w])
               /\ computed[w] \in 0 .. MaxIterations
    BY DEF TypeInv, WorkersType, WorkerType, IsPart, MailType
  <2>5. /\ workerState \in [Worker -> States] /\ crashes \in 0 .. MaxCrashes
        /\ algorithmSet \in [Worker -> BOOLEAN] /\ teleport \in [Worker -> Int]
        /\ faulty \subseteq Worker
    BY DEF TypeInv, WorkersType
  <2>. QED  BY <2>1, <2>2, <2>3, <2>4, <2>5 DEF TypeOK, States
<1>. QED  BY <1>1, <1>2, <1>3, PTL DEF Spec

=============================================================================
