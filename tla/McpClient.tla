----------------------------- MODULE McpClient -----------------------------
(***************************************************************************)
(* adapters/mcp_client.py: one StdioMcpClient and the server it started.   *)
(* The caller makes one request at a time and waits for the line that      *)
(* answers it; a thread moves what the server prints into a queue.  The    *)
(* client never waits for one answer longer than its timeout after the     *)
(* last line, so an answer may come when nobody waits for it any more.     *)
(*                                                                         *)
(* A request is named by its id, its place in the sequence of requests.    *)
(* What a server is, is read off how the client uses it: it handles the    *)
(* requests it has read in any order, acts on them or refuses them,        *)
(* prints at most one answer to each, and may exit at any time.            *)
(***************************************************************************)
EXTENDS Naturals, Sequences

CONSTANTS
  MaxRequests,  \* bound: requests of one client
  MaxStray,     \* bound: lines of the server that answer nothing
  MaxLines,     \* bound: lines in the queue
  Chatty        \* stray lines are not counted: the server never falls silent

ASSUME McpClientAssumption ==
  /\ MaxRequests \in Nat
  /\ MaxStray \in Nat
  /\ MaxLines \in Nat
  /\ Chatty \in BOOLEAN

VARIABLES
  phase,      \* "new", "starting", "ready", "over"
  calls,      \* the requests sent, in order
  awaiting,   \* the request whose answer is awaited, or NoId
  answer,     \* how each request ended for the caller
  lines,      \* the queue of lines the server printed
  child,      \* the server process: "none", "up", "exited"
  work,       \* what the server made of each request
  printed,    \* the requests the server has answered
  stray       \* counts stray lines

client == <<phase, calls, awaiting, answer>>
server == <<child, work, printed, stray>>
clientVars == <<phase, calls, awaiting, answer, lines, child, work, printed, stray>>

Ids == 1..MaxRequests
NoId == 0

Operations == {"task_create", "task_refund"}

\* For "prepare" and "submit", op is the operation; a "submit" names the
\* confirmation, which is named by the request that prepared it.
Call == [ tool : {"initialize", "read", "prepare", "submit"},
          op : Operations \cup {"none"}, conf : Ids \cup {NoId} ]

\* "result": a result without isError; "toolError": McpToolError; "rpcError":
\* McpProtocolError, an error object or a result that is no object;
\* "malformed": an error object of another form, at which decoding it raises
\* something else; "transport": McpTransportError with dispatched set.
Reply == {"result", "toolError", "rpcError"}
Outcome == Reply \cup {"malformed", "transport"}

Line == [kind : Reply \cup {"ping", "junk"}, id : Ids] \cup {[kind |-> "eof", id |-> NoId]}

\* "executed" and "refused" are final, and so is "lost".
Work == {"unsent", "sent", "accepted", "executed", "refused", "lost"}

TypeOK ==
  /\ phase \in {"new", "starting", "ready", "over"}
  /\ calls \in Seq(Call) /\ Len(calls) <= MaxRequests
  /\ awaiting \in DOMAIN calls \cup {NoId}
  /\ answer \in [Ids -> Outcome \cup {"none"}]
  /\ lines \in Seq(Line)
  /\ child \in {"none", "up", "exited"}
  /\ work \in [Ids -> Work]
  /\ printed \subseteq Ids
  /\ stray \in 0..MaxStray

Init ==
  /\ phase = "new"
  /\ calls = <<>>
  /\ awaiting = NoId
  /\ answer = [i \in Ids |-> "none"]
  /\ lines = <<>>
  /\ child = "none"
  /\ work = [i \in Ids |-> "unsent"]
  /\ printed = {}
  /\ stray = 0

(***************************************************************************)
(* The client.                                                             *)
(***************************************************************************)

\* _request and _send: the next id is taken and the request written.
\* Mutated form: the answer to the id after it is awaited.
SendNextId(call) ==
  /\ awaiting = NoId
  /\ Len(calls) < MaxRequests
  /\ calls' = Append(calls, call)
  /\ awaiting' = Len(calls) + 2
  /\ work' = [work EXCEPT ![Len(calls) + 1] = "sent"]
  /\ UNCHANGED <<answer, lines, printed, stray>>
Send(call) ==
  /\ awaiting = NoId
  /\ Len(calls) < MaxRequests
  /\ calls' = Append(calls, call)
  /\ awaiting' = Len(calls) + 1
  /\ work' = [work EXCEPT ![Len(calls) + 1] = "sent"]
  /\ UNCHANGED <<answer, lines, printed, stray>>

Handshake == [tool |-> "initialize", op |-> "none", conf |-> NoId]

\* start: the server is started and the handshake begun.
Start ==
  /\ phase = "new"
  /\ phase' = "starting"
  /\ child' = "up"
  /\ Send(Handshake)

\* start: the program cannot be started.  Nothing was sent.
StartFails ==
  /\ phase = "new"
  /\ phase' = "over"
  /\ UNCHANGED <<calls, awaiting, answer, lines, server>>

\* call_tool on a started client.
Request(call) ==
  /\ phase = "ready"
  /\ Send(call)
  /\ UNCHANGED <<phase, child>>

\* The awaited request ends.  After the handshake start writes a notification,
\* which fails if the server is gone; a client that did not start is dropped.
Settle(outcome) ==
  /\ answer' = [answer EXCEPT ![awaiting] = outcome]
  /\ awaiting' = NoId
  /\ phase' = IF phase # "starting" THEN phase
              ELSE IF outcome = "result" /\ child = "up" THEN "ready" ELSE "over"
  /\ UNCHANGED calls

\* Is this line the answer to request i?
\* Mutated form: whatever answer comes next is.
AnswersAny(line, i) == line.kind \in Reply
Answers(line, i) == line.id = i /\ line.kind \in Reply

\* What the caller gets of an answer.  Of what form an error object is only
\* makes a difference to a submit: all else has merely failed.
Decoded(kind, i) ==
  IF kind = "rpcError" /\ calls[i].tool = "submit" THEN {"rpcError", "malformed"} ELSE {kind}

\* The queue without the line that was taken.
\* Mutated form: a line of no use to this request is put back for others.
RemainingPutBack(i) ==
  IF Answers(Head(lines), i) \/ Head(lines).kind = "eof" THEN Tail(lines)
  ELSE Append(Tail(lines), Head(lines))
Remaining(i) == Tail(lines)

\* _await takes the next line of the queue: the answer; the end of output; a
\* ping, whose pong may fail; or a line that is ignored.
Take ==
  LET line == Head(lines)
      own == Answers(line, awaiting)
  IN /\ awaiting # NoId
     /\ lines # <<>>
     /\ \/ own /\ \E outcome \in Decoded(line.kind, awaiting) : Settle(outcome)
        \/ line.kind = "eof" /\ Settle("transport")
        \/ line.kind = "ping" /\ child = "exited" /\ Settle("transport")
        \/ /\ ~own
           /\ line.kind # "eof"
           /\ line.kind = "ping" => child = "up"
           /\ UNCHANGED client
     /\ lines' = Remaining(awaiting)
     /\ UNCHANGED server

\* _await: no line came in time.
Timeout ==
  /\ awaiting # NoId
  /\ lines = <<>>
  /\ Settle("transport")
  /\ UNCHANGED <<lines, server>>

\* _send: the write itself fails, the server has exited.
WriteFails ==
  /\ awaiting # NoId
  /\ child = "exited"
  /\ work[awaiting] = "sent"
  /\ Settle("transport")
  /\ UNCHANGED <<lines, server>>

\* close.  The server may still handle what it has read before it exits.
Close ==
  /\ phase = "ready"
  /\ awaiting = NoId
  /\ phase' = "over"
  /\ UNCHANGED <<calls, awaiting, answer, lines, server>>

(***************************************************************************)
(* The server.                                                             *)
(***************************************************************************)
PutLine(line) ==
  /\ child = "up"
  /\ Len(lines) < MaxLines
  /\ lines' = Append(lines, line)

\* The server reads its input in order.
Accept(i) ==
  /\ child = "up"
  /\ work[i] = "sent"
  /\ \A j \in 1..i-1 : work[j] # "sent"
  /\ work' = [work EXCEPT ![i] = "accepted"]
  /\ UNCHANGED <<client, lines, child, printed, stray>>

\* What was accepted is acted on or refused in the end, be it after the server
\* has answered or exited: a transaction it sent may settle later.
Handle(i) ==
  /\ work[i] = "accepted"
  /\ \E w \in {"executed", "refused"} : work' = [work EXCEPT ![i] = w]
  /\ UNCHANGED <<client, lines, child, printed, stray>>

\* A result and a tool error tell what happened, the others do not.
ReplyTo(i) ==
  /\ i \notin printed
  /\ \E kind \in Reply :
       /\ kind = "result" => work[i] = "executed"
       /\ kind = "toolError" => work[i] = "refused"
       /\ work[i] \in {"accepted", "executed", "refused"}
       /\ PutLine([kind |-> kind, id |-> i])
  /\ printed' = printed \cup {i}
  /\ UNCHANGED <<client, child, work, stray>>

\* A ping, with an id that may be the client's newest, or a line that is a
\* notification or no JSON-RPC.
Stray ==
  /\ stray < MaxStray
  /\ \E kind \in {"ping", "junk"} : PutLine([kind |-> kind, id |-> Len(calls)])
  /\ stray' = IF Chatty THEN stray ELSE stray + 1
  /\ UNCHANGED <<client, child, work, printed>>

Exit ==
  /\ child = "up"
  /\ child' = "exited"
  /\ lines' = Append(lines, [kind |-> "eof", id |-> NoId])
  /\ UNCHANGED <<client, work, printed, stray>>

\* A request the server exited without having read.
Lose(i) ==
  /\ child = "exited"
  /\ work[i] = "sent"
  /\ work' = [work EXCEPT ![i] = "lost"]
  /\ UNCHANGED <<client, lines, child, printed, stray>>

ClientStep == Start \/ StartFails \/ Take \/ Timeout \/ WriteFails \/ Close

ServerStep ==
  \/ \E i \in Ids : Accept(i) \/ Handle(i) \/ ReplyTo(i) \/ Lose(i)
  \/ Stray
  \/ Exit

\* The client runs on; so does a server, which acts in the end on what it has
\* read and loses what it has not read when it exits.
ClientFairness == WF_clientVars(Take \/ Timeout \/ WriteFails)
ServerFairness == \A i \in Ids : WF_clientVars(Accept(i) \/ Lose(i)) /\ WF_clientVars(Handle(i))

(***************************************************************************)
(* Properties.                                                             *)
(***************************************************************************)

\* A caller gets its own answer: what it is told of a request is so, although
\* answers to requests given up earlier are still in the queue, and pings
\* carry ids of the server's choosing.
OwnAnswer ==
  \A i \in DOMAIN calls :
    /\ answer[i] = "result" => work[i] = "executed"
    /\ answer[i] = "toolError" => work[i] = "refused"

\* Every call comes back, with an answer or with an error.
CallEnds == awaiting # NoId ~> awaiting = NoId
=============================================================================
