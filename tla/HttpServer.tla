----------------------------- MODULE HttpServer -----------------------------
(***************************************************************************)
(* The server of http/mod.rs that hands whole requests to its handler      *)
(* (serve_http_v2): a task per connection reads the request, calls the     *)
(* handler and writes the response, and the connection is closed.          *)
(*                                                                         *)
(* A request is a record with the fields `header`, the units of its        *)
(* header, its end included, `line`, whether its first line names a method *)
(* and a path, `length`, its Content-Length, `sent`, the units its client  *)
(* sends before it is silent or gone, `valid`, whether the body of that    *)
(* length is what its handler takes, and whatever else the handler looks   *)
(* at.  Each read returns some units of what was sent.                     *)
(***************************************************************************)
EXTENDS Integers

CONSTANTS
    Client,       \* clients of the server, each with one connection at a time
    MaxAsks,      \* bound on the number of requests
    Chunk,        \* the most a read returns, the length of tmp
    MaxHeader,    \* MAX_HEADER_BYTES
    MaxBody       \* MAX_BODY_BYTES

ASSUME HttpAssumption == {MaxAsks, Chunk, MaxHeader, MaxBody} \subseteq Nat

VARIABLES
    exchange,  \* per client, its connection: the request, how many units of
               \* it were read, and the answer
    asks       \* number of requests made

httpVars == <<exchange, asks>>

Unanswered == [status |-> 0, body |-> << >>]

Closed == [read |-> 0, answer |-> Unanswered]

HttpInit ==
  /\ exchange = [c \in Client |-> Closed]
  /\ asks = 0

Waiting(c) == exchange[c] # Closed /\ exchange[c].answer = Unanswered

(* A client connects and starts to send. *)
Ask(c, request) ==
  /\ ~Waiting(c)
  /\ asks < MaxAsks
  /\ asks' = asks + 1
  /\ exchange' = [exchange EXCEPT ![c] =
                    [request |-> request, read |-> 0, answer |-> Unanswered]]

(* The status line that is written for a status of the handler. *)
StatusLine(status) == IF status \in {200, 404, 500} THEN status ELSE 200

Answers(c, status, body) ==
  /\ exchange' = [exchange EXCEPT ![c].answer =
                    [status |-> StatusLine(status), body |-> body]]
  /\ UNCHANGED asks

----------------------------------------------------------------------------
(* read_request.  Units that one read may return next. *)
Reads(c) ==
  {n \in 1 .. Chunk : exchange[c].read + n <= exchange[c].request.sent}

HasHeader(c) == exchange[c].read >= exchange[c].request.header

(* Mutant of ReadHeader: the buffer is measured before the read. *)
ReadHeaderLate(c) ==
  /\ Waiting(c)
  /\ ~HasHeader(c)
  /\ \E n \in Reads(c) :
       IF exchange[c].read > MaxHeader
         THEN Answers(c, 500, <<"error">>)
         ELSE exchange' = [exchange EXCEPT ![c].read = @ + n] /\ UNCHANGED asks

(* A read while the end of the header is not in the buffer.  The buffer is *)
(* measured first, with what it may hold of the body by now.               *)
ReadHeader(c) ==
  /\ Waiting(c)
  /\ ~HasHeader(c)
  /\ \E n \in Reads(c) :
       IF exchange[c].read + n > MaxHeader
         THEN Answers(c, 500, <<"error">>)
         ELSE exchange' = [exchange EXCEPT ![c].read = @ + n] /\ UNCHANGED asks

(* The header that was read is one to go on with. *)
GoodHeader(c) ==
  HasHeader(c) /\ exchange[c].request.line /\ exchange[c].request.length <= MaxBody

(* As many units as Content-Length says follow the header. *)
HasBody(c) ==
  exchange[c].read >= exchange[c].request.header + exchange[c].request.length

ReadBody(c) ==
  /\ Waiting(c)
  /\ GoodHeader(c)
  /\ ~HasBody(c)
  /\ \E n \in Reads(c) : exchange' = [exchange EXCEPT ![c].read = @ + n]
  /\ UNCHANGED asks

(* The request line is no good or Content-Length over the limit, or        *)
(* nothing comes any more and the request is not whole.  The handler is    *)
(* not called.                                                             *)
ReadFails(c) ==
  /\ Waiting(c)
  /\ \/ HasHeader(c) /\ ~GoodHeader(c)
     \/ exchange[c].read = exchange[c].request.sent /\ ~(HasHeader(c) /\ HasBody(c))
  /\ Answers(c, 500, <<"error">>)

(* read_request returns a request; more than its body is left aside. *)
Whole(c) == Waiting(c) /\ GoodHeader(c) /\ HasBody(c)

(* The body that is handed on can be parsed. *)
Parses(c) == HasBody(c) /\ exchange[c].request.valid

ServerReads(c) == ReadHeader(c) \/ ReadBody(c) \/ ReadFails(c)

----------------------------------------------------------------------------
(* What a client is answered does not depend on the segments its request   *)
(* comes in, but for one case.  It is handled only if it came whole, with  *)
(* a request line, and both limits were kept, and called malformed only if *)
(* it is; it is turned away only if one of these is missing, where the     *)
(* limit of the header counts what the read that brought the end of the    *)
(* header may have brought of the body.                                    *)
Justified(request, body) ==
  IF body = <<"error">>
    THEN \/ ~request.line
         \/ request.sent < request.header + request.length
         \/ request.length > MaxBody
         \/ request.sent > MaxHeader /\ request.header + Chunk > MaxHeader + 1
    ELSE /\ request.line
         /\ request.sent >= request.header + request.length
         /\ request.header <= MaxHeader /\ request.length <= MaxBody
         /\ body = <<"refused">> => ~request.valid

HandledAsSent ==
  \A c \in Client : ~Waiting(c) /\ exchange[c] # Closed =>
    Justified(exchange[c].request, exchange[c].answer.body)

============================================================================
