------------------------- MODULE GibworkAdapterProofs -------------------------
(***************************************************************************)
(* Theorems of GibworkAdapter, for any number of requests, of stray lines  *)
(* and of lines in the queue, and for every order in which the server      *)
(* reads, acts, answers and exits: a caller is told of its request only    *)
(* what is so (OwnAnswer), a confirmation is submitted once                *)
(* (SubmittedOnce), and the adapter implements Submission (KeepsWord).     *)
(*                                                                         *)
(* The argument for OwnAnswer is that a line is true when it is printed    *)
(* (LinesTrue) and stays true, since what the server made of a request is  *)
(* final; so however old the line is that _await matches by its id, it     *)
(* tells what happened.  For SubmittedOnce it is that _consumed is exactly *)
(* the set of confirmations a submit was sent for (ConsumedIs).            *)
(***************************************************************************)
EXTENDS GibworkAdapter, SequenceTheorems, FiniteSetTheorems, TLAPS

\* The handshake comes first, and there is no server before it.
Begun ==
  /\ phase = "new" => calls = <<>> /\ child = "none"
  /\ phase \in {"starting", "ready"} \/ child # "none" => calls # <<>>
  /\ calls # <<>> => calls[1].tool = "initialize"

\* Requests that were not made yet have no history, the others have one, and the
\* awaited one has no answer.
OnlySent ==
  /\ \A i \in Ids : work[i] = "unsent" <=> i \notin DOMAIN calls
  /\ \A i \in Ids : answer[i] # "none" => i \in DOMAIN calls /\ i # awaiting

\* What a line in the queue says is so.
Tells(line) ==
  /\ line.kind = "result" => work[line.id] = "executed"
  /\ line.kind = "toolError" => work[line.id] = "refused"
LinesTrue == \A k \in DOMAIN lines : Tells(lines[k])

\* _consumed is the confirmations a submit was sent for.
ConsumedIs == consumed = {c \in Ids : SubmitsOf(c) # {}}

\* A submit is the only one of its confirmation, which was prepared before it
\* for the same operation.
Unique ==
  \A c \in Ids : \A i \in SubmitsOf(c) :
    /\ SubmitsOf(c) = {i}
    /\ c < i
    /\ calls[c].tool = "prepare"
    /\ calls[c].op = calls[i].op
    /\ answer[c] = "result"

\* A submit names a confirmation.
Named == \A i \in DOMAIN calls : calls[i].tool = "submit" => calls[i].conf \in Ids

\* The inductive invariant.
AInv ==
  /\ TypeOK
  /\ Begun
  /\ OnlySent
  /\ LinesTrue
  /\ OwnAnswer
  /\ ConsumedIs
  /\ Unique
  /\ Named

\* What happened to a request, and what was answered, is final.
Final ==
  \A i \in Ids :
    /\ work[i] \in {"executed", "refused"} => work'[i] = work[i]
    /\ answer[i] # "none" => answer'[i] = answer[i]

(***************************************************************************)
(* Lemmas.                                                                 *)
(***************************************************************************)
\* The sequence of requests as a function on its ids.
LEMMA CallsAre ==
  ASSUME TypeOK
  PROVE  /\ Len(calls) \in 0..MaxRequests
         /\ DOMAIN calls = 1..Len(calls)
         /\ DOMAIN calls \subseteq Ids
         /\ \A i \in DOMAIN calls : calls[i] \in Call
         /\ calls # <<>> => Len(calls) > 0
         /\ awaiting \in Ids \cup {NoId}
<1>1. calls \in Seq(Call) /\ Len(calls) <= MaxRequests /\ MaxRequests \in Nat
  BY McpClientAssumption DEF TypeOK
<1>2. /\ Len(calls) \in Nat
      /\ DOMAIN calls = 1..Len(calls)
      /\ \A i \in 1..Len(calls) : calls[i] \in Call
      /\ calls # <<>> => Len(calls) > 0
  BY <1>1
<1>3. 1..Len(calls) \subseteq Ids
  BY <1>1, <1>2 DEF Ids
<1>. QED
  BY <1>1, <1>2, <1>3 DEF TypeOK

\* The queue loses its first line.
LEMMA TailOfLines ==
  ASSUME TypeOK, lines # <<>>
  PROVE  /\ Head(lines) \in Line
         /\ Tail(lines) \in Seq(Line)
         /\ LinesTrue => Tells(Head(lines)) /\ \A k \in DOMAIN Tail(lines) : Tells(Tail(lines)[k])
<1>1. lines \in Seq(Line)
  BY DEF TypeOK
<1>2. /\ Head(lines) \in Line
      /\ Tail(lines) \in Seq(Line)
      /\ Head(lines) = lines[1]
      /\ 1 \in DOMAIN lines
      /\ \A k \in DOMAIN Tail(lines) : k + 1 \in DOMAIN lines /\ Tail(lines)[k] = lines[k + 1]
  BY <1>1
<1>. QED
  BY <1>2 DEF LinesTrue

\* A line is added to the queue.
LEMMA MoreLines ==
  ASSUME TypeOK, NEW line \in Line
  PROVE  /\ Append(lines, line) \in Seq(Line)
         /\ \A k \in DOMAIN Append(lines, line) :
              \/ k \in DOMAIN lines /\ Append(lines, line)[k] = lines[k]
              \/ Append(lines, line)[k] = line
BY DEF TypeOK

\* A request is added to the sequence.
LEMMA MoreCalls ==
  ASSUME TypeOK, NEW call \in Call, Len(calls) < MaxRequests
  PROVE  LET more == Append(calls, call)
         IN /\ more \in Seq(Call)
            /\ Len(more) = Len(calls) + 1
            /\ DOMAIN more = DOMAIN calls \cup {Len(calls) + 1}
            /\ \A i \in DOMAIN calls : more[i] = calls[i]
            /\ more[Len(calls) + 1] = call
            /\ Len(calls) + 1 \in Ids
            /\ Len(calls) + 1 \notin DOMAIN calls
            /\ \A i \in DOMAIN calls : i < Len(calls) + 1
            /\ more # <<>>
<1>1. calls \in Seq(Call) /\ Len(calls) \in Nat
  BY DEF TypeOK
<1>2. Len(calls) + 1 \in Ids
  BY <1>1, McpClientAssumption DEF Ids
<1>. QED
  BY <1>1, <1>2

\* What a line may be by its kind.
LEMMA LineKinds ==
  /\ \A line \in Line : line.kind \in Reply \cup {"ping", "junk", "eof"}
  /\ \A line \in Line : line.kind # "eof" => line.id \in Ids
  /\ \A kind \in Reply \cup {"ping", "junk"}, i \in Ids : [kind |-> kind, id |-> i] \in Line
  /\ [kind |-> "eof", id |-> NoId] \in Line
BY DEF Line, Reply

\* As long as no request is sent, the submits and their confirmations stay.
LEMMA ConfirmationsKept ==
  ASSUME AInv, UNCHANGED <<calls, consumed>>, Final
  PROVE  (ConsumedIs /\ Unique /\ Named)'
<1>1. \A c \in Ids : SubmitsOf(c)' = SubmitsOf(c)
  BY DEF SubmitsOf
<1>2. ConsumedIs'
  BY <1>1 DEF AInv, ConsumedIs
<1>3. \A c \in Ids : answer[c] = "result" => answer'[c] = "result"
  BY DEF Final
<1>4. Unique'
  BY <1>1, <1>3 DEF AInv, Unique
<1>5. Named'
  BY DEF AInv, Named
<1>. QED
  BY <1>2, <1>4, <1>5

\* What was true of the lines that are left, and of the answers that stay, stays
\* true.
LEMMA TruthKept ==
  ASSUME AInv, TypeOK', Final,
         \A k \in DOMAIN lines' :
           \/ \E j \in DOMAIN lines : lines'[k] = lines[j]
           \/ Tells(lines[k])',
         \A i \in Ids : answer'[i] # answer[i] =>
           /\ answer'[i] = "result" => work'[i] = "executed"
           /\ answer'[i] = "toolError" => work'[i] = "refused"
  PROVE  (LinesTrue /\ OwnAnswer)'
<1>1. LinesTrue'
  <2>. SUFFICES ASSUME NEW k \in DOMAIN lines', NEW j \in DOMAIN lines, lines'[k] = lines[j]
                PROVE  Tells(lines[k])'
    BY DEF LinesTrue
  <2>1. lines[j] \in Line /\ Tells(lines[j])
    BY DEF AInv, TypeOK, LinesTrue
  <2>2. lines[j].kind \in {"result", "toolError"} => lines[j].id \in Ids
    BY <2>1, LineKinds
  <2>. QED
    BY <2>1, <2>2 DEF Tells, Final
<1>2. OwnAnswer'
  <2>. SUFFICES ASSUME NEW i \in DOMAIN calls'
                PROVE  /\ answer'[i] = "result" => work'[i] = "executed"
                       /\ answer'[i] = "toolError" => work'[i] = "refused"
    BY DEF OwnAnswer
  <2>1. i \in Ids
    BY McpClientAssumption DEF TypeOK, Ids
  <2>2. CASE answer'[i] # answer[i]
    BY <2>1, <2>2
  <2>3. CASE answer'[i] = answer[i]
    <3>1. answer[i] # "none" => i \in DOMAIN calls
      BY <2>1 DEF AInv, OnlySent
    <3>. QED
      BY <2>1, <2>3, <3>1 DEF AInv, OwnAnswer, Final
  <2>. QED
    BY <2>2, <2>3
<1>. QED
  BY <1>1, <1>2

(***************************************************************************)
(* The requests of the client.                                             *)
(***************************************************************************)
\* What Send leaves behind, whatever the request is for.
LEMMA SendGives ==
  ASSUME AInv, NEW call \in Call, Send(call)
  PROVE  /\ calls' \in Seq(Call) /\ Len(calls') <= MaxRequests
         /\ awaiting' \in DOMAIN calls'
         /\ work' \in [Ids -> Work]
         /\ OnlySent'
         /\ Final
         /\ calls' # <<>>
         /\ calls'[1] = IF calls = <<>> THEN call ELSE calls[1]
<1> DEFINE n == Len(calls) + 1
<1>0. TypeOK /\ OnlySent /\ Len(calls) < MaxRequests /\ calls' = Append(calls, call)
  BY DEF AInv, Send
<1>1. /\ calls' \in Seq(Call)
      /\ Len(calls') = n
      /\ DOMAIN calls' = DOMAIN calls \cup {n}
      /\ \A i \in DOMAIN calls : calls'[i] = calls[i]
      /\ calls'[n] = call
      /\ n \in Ids /\ n \notin DOMAIN calls
      /\ calls' # <<>>
  BY <1>0, MoreCalls
<1>2. n <= MaxRequests
  BY <1>1, McpClientAssumption DEF Ids
<1>3. awaiting' = n /\ awaiting' \in DOMAIN calls'
  BY <1>1 DEF Send
<1>4. /\ work[n] = "unsent" /\ answer[n] = "none"
      /\ work' = [work EXCEPT ![n] = "sent"] /\ answer' = answer
  BY <1>0, <1>1 DEF OnlySent, Send
<1>5. /\ work' \in [Ids -> Work]
      /\ \A i \in Ids : work'[i] = IF i = n THEN "sent" ELSE work[i]
  BY <1>0, <1>1, <1>4 DEF TypeOK, Work
<1>6. OnlySent'
  BY <1>0, <1>1, <1>3, <1>4, <1>5 DEF OnlySent
<1>7. Final
  BY <1>4, <1>5 DEF Final
<1>8. calls'[1] = IF calls = <<>> THEN call ELSE calls[1]
  <2>1. CASE calls = <<>>
    BY <1>1, <2>1
  <2>2. CASE calls # <<>>
    <3>1. 1 \in DOMAIN calls
      BY <1>0, <2>2, CallsAre
    <3>. QED
      BY <1>1, <2>2, <3>1
  <2>. QED
    BY <2>1, <2>2
<1>. QED
  BY <1>1, <1>2, <1>3, <1>5, <1>6, <1>7, <1>8

\* A request that is no submit leaves the submits as they are.
LEMMA SendOther ==
  ASSUME AInv, NEW call \in Call, Send(call), call.tool # "submit", consumed' = consumed
  PROVE  /\ (ConsumedIs /\ Unique /\ Named)'
         /\ \A c \in Ids : SubmitsOf(c)' = SubmitsOf(c)
<1> DEFINE n == Len(calls) + 1
<1>0. TypeOK /\ Len(calls) < MaxRequests /\ calls' = Append(calls, call)
  BY DEF AInv, Send
<1>1. /\ DOMAIN calls' = DOMAIN calls \cup {n}
      /\ \A i \in DOMAIN calls : calls'[i] = calls[i]
      /\ calls'[n] = call
  BY <1>0, MoreCalls
<1>2. \A c \in Ids : SubmitsOf(c)' = SubmitsOf(c)
  BY <1>1 DEF SubmitsOf
<1>3. ConsumedIs'
  BY <1>2 DEF AInv, ConsumedIs
<1>4. Named'
  BY <1>1 DEF AInv, Named
<1>5. Unique'
  <2>. SUFFICES ASSUME NEW c \in Ids, NEW i \in SubmitsOf(c)
                PROVE  /\ SubmitsOf(c) = {i}
                       /\ c < i
                       /\ calls'[c].tool = "prepare"
                       /\ calls'[c].op = calls'[i].op
                       /\ answer'[c] = "result"
    BY <1>2 DEF Unique
  <2>1. i \in DOMAIN calls /\ answer[c] = "result"
    BY DEF AInv, Unique, SubmitsOf
  <2>2. c \in DOMAIN calls
    BY <2>1 DEF AInv, OnlySent
  <2>3. answer' = answer
    BY DEF Send
  <2>. QED
    BY <1>1, <2>1, <2>2, <2>3 DEF AInv, Unique
<1>. QED
  BY <1>2, <1>3, <1>4, <1>5

\* A submit becomes the only one of its confirmation.
LEMMA SendSubmit ==
  ASSUME AInv, NEW c \in Ids, NEW op \in Operations, Submit(c, op)
  PROVE  LET n == Len(calls) + 1
             call == [tool |-> "submit", op |-> op, conf |-> c]
         IN /\ call \in Call /\ Send(call)
            /\ SubmitsOf(c) = {} /\ SubmitsOf(c)' = {n}
            /\ n \in Ids /\ work'[n] = "sent" /\ answer'[n] = "none"
            /\ \A d \in Ids \ {c} : SubmitsOf(d)' = SubmitsOf(d)
            /\ (ConsumedIs /\ Unique /\ Named)'
<1> DEFINE n == Len(calls) + 1
<1> DEFINE call == [tool |-> "submit", op |-> op, conf |-> c]
<1>0. TypeOK /\ Len(calls) < MaxRequests /\ calls' = Append(calls, call) /\ Send(call)
  BY DEF AInv, Submit, Request, Send
<1>1. call \in Call
  BY DEF Call
<1>2. /\ DOMAIN calls' = DOMAIN calls \cup {n}
      /\ \A i \in DOMAIN calls : calls'[i] = calls[i] /\ i < n
      /\ calls'[n] = call
      /\ n \in Ids /\ n \notin DOMAIN calls
  BY <1>0, <1>1, MoreCalls
<1>3. /\ c \in DOMAIN calls /\ calls[c].tool = "prepare" /\ calls[c].op = op
      /\ answer[c] = "result"
      /\ c \notin consumed
      /\ consumed' = consumed \cup {c}
  BY DEF Submit, Prepared
<1>4. answer' = answer /\ work'[n] = "sent" /\ answer'[n] = "none"
  BY <1>0, <1>2 DEF Send, AInv, OnlySent, TypeOK
<1>5. SubmitsOf(c) = {}
  BY <1>3 DEF AInv, ConsumedIs
<1>6. SubmitsOf(c)' = {n}
  BY <1>2, <1>5 DEF SubmitsOf
<1>7. \A d \in Ids \ {c} : SubmitsOf(d)' = SubmitsOf(d)
  BY <1>2 DEF SubmitsOf
<1>8. ConsumedIs'
  BY <1>3, <1>6, <1>7 DEF AInv, ConsumedIs
<1>9. Named'
  BY <1>2 DEF AInv, Named
<1>10. Unique'
  <2>. SUFFICES ASSUME NEW d \in Ids, NEW i \in SubmitsOf(d)'
                PROVE  /\ SubmitsOf(d)' = {i}
                       /\ d < i
                       /\ calls'[d].tool = "prepare"
                       /\ calls'[d].op = calls'[i].op
                       /\ answer'[d] = "result"
    BY DEF Unique
  <2>1. CASE d = c
    BY <1>2, <1>3, <1>4, <1>6, <2>1
  <2>2. CASE d # c
    <3>1. /\ i \in SubmitsOf(d) /\ SubmitsOf(d)' = {i} /\ d < i
          /\ calls[d].tool = "prepare" /\ calls[d].op = calls[i].op /\ answer[d] = "result"
      BY <1>7, <2>2 DEF AInv, Unique
    <3>2. i \in DOMAIN calls /\ d \in DOMAIN calls
      BY <3>1 DEF AInv, OnlySent, SubmitsOf
    <3>. QED
      BY <1>2, <1>4, <3>1, <3>2
  <2>. QED
    BY <2>1, <2>2
<1>. QED
  BY <1>0, <1>1, <1>2, <1>4, <1>5, <1>6, <1>7, <1>8, <1>9, <1>10

\* The next four are the requests.  Start sends the handshake.
LEMMA StartKeeps ==
  ASSUME AInv, Start, consumed' = consumed
  PROVE  AInv'
<1>1. Handshake \in Call /\ Handshake.tool = "initialize" /\ Send(Handshake)
  BY DEF Handshake, Call, Start
<1>2. calls = <<>>
  BY DEF AInv, Begun, Start
<1>3. TypeOK'
  BY <1>1, SendGives DEF AInv, TypeOK, Start, Send
<1>4. Begun'
  BY <1>1, <1>2, SendGives DEF Begun, Start
<1>5. (LinesTrue /\ OwnAnswer)'
  BY <1>1, <1>3, SendGives, TruthKept DEF Send
<1>. QED
  BY <1>1, <1>3, <1>4, <1>5, SendGives, SendOther DEF AInv

\* What every other request keeps.
LEMMA RequestKeeps ==
  ASSUME AInv, NEW call \in Call, Request(call)
  PROVE  (TypeOK /\ Begun /\ OnlySent /\ LinesTrue /\ OwnAnswer)'
<1>1. Send(call) /\ phase' = phase /\ child' = child /\ phase = "ready" /\ calls # <<>>
  BY DEF AInv, Begun, Request
<1>2. TypeOK'
  BY <1>1, SendGives DEF AInv, TypeOK, Send
<1>3. Begun'
  BY <1>1, SendGives DEF AInv, Begun
<1>4. (LinesTrue /\ OwnAnswer)'
  BY <1>1, <1>2, SendGives, TruthKept DEF Send
<1>. QED
  BY <1>1, <1>2, <1>3, <1>4, SendGives

\* Read, and PrepareOp.
LEMMA OtherRequestKeeps ==
  ASSUME AInv, Read \/ \E op \in Operations : PrepareOp(op)
  PROVE  AInv'
<1>1. PICK call \in Call : Request(call) /\ call.tool # "submit" /\ consumed' = consumed
  <2>1. [tool |-> "read", op |-> "none", conf |-> NoId] \in Call
    BY DEF Call
  <2>2. \A op \in Operations : [tool |-> "prepare", op |-> op, conf |-> NoId] \in Call
    BY DEF Call
  <2>3. CASE Read
    BY <2>1, <2>3 DEF Read
  <2>4. ASSUME NEW op \in Operations, PrepareOp(op)
        PROVE  Request([tool |-> "prepare", op |-> op, conf |-> NoId]) /\ consumed' = consumed
    BY <2>4 DEF PrepareOp
  <2>. QED
    BY <2>2, <2>3, <2>4
<1>2. Send(call)
  BY <1>1 DEF Request
<1>. QED
  BY <1>1, <1>2, RequestKeeps, SendOther DEF AInv

\* Submit.
LEMMA SubmitKeeps ==
  ASSUME AInv, NEW c \in Ids, NEW op \in Operations, Submit(c, op)
  PROVE  AInv'
<1> DEFINE call == [tool |-> "submit", op |-> op, conf |-> c]
<1>1. call \in Call /\ Request(call)
  BY DEF Call, Submit
<1>. QED
  BY <1>1, RequestKeeps, SendSubmit DEF AInv

(***************************************************************************)
(* The other steps of the client.  None of them sends a request.           *)
(***************************************************************************)
\* What Settle leaves behind.
LEMMA SettleGives ==
  ASSUME AInv, awaiting # NoId, NEW outcome \in Outcome, Settle(outcome),
         UNCHANGED <<child, work>>
  PROVE  /\ phase' \in {"new", "starting", "ready", "over"}
         /\ answer' \in [Ids -> Outcome \cup {"none"}]
         /\ awaiting' = NoId
         /\ Begun' /\ OnlySent' /\ Final
         /\ answer[awaiting] = "none" /\ answer'[awaiting] = outcome
         /\ \A i \in Ids : i # awaiting => answer'[i] = answer[i]
<1>1. /\ TypeOK /\ Begun /\ OnlySent
      /\ awaiting \in DOMAIN calls /\ awaiting \in Ids
      /\ answer \in [Ids -> Outcome \cup {"none"}]
  BY CallsAre DEF AInv, TypeOK
<1>2. /\ answer' = [answer EXCEPT ![awaiting] = outcome]
      /\ awaiting' = NoId /\ calls' = calls
      /\ phase' = phase \/ (phase = "starting" /\ phase' \in {"ready", "over"})
  BY DEF Settle
<1>3. answer[awaiting] = "none"
  BY <1>1 DEF OnlySent
<1>4. \A i \in Ids : answer'[i] = IF i = awaiting THEN outcome ELSE answer[i]
  BY <1>1, <1>2
<1>5. Begun'
  BY <1>1, <1>2 DEF Begun
<1>6. OnlySent'
  BY <1>1, <1>2, <1>4 DEF OnlySent, Ids, NoId
<1>7. Final
  BY <1>3, <1>4 DEF Final
<1>. QED
  BY <1>1, <1>2, <1>3, <1>4, <1>5, <1>6, <1>7 DEF TypeOK

\* A request ends with an outcome that is true of it.
LEMMA SettleKeeps ==
  ASSUME AInv, awaiting # NoId, NEW outcome \in Outcome, Settle(outcome),
         UNCHANGED <<server, consumed>>, lines' \in Seq(Line),
         \A k \in DOMAIN lines' : \E j \in DOMAIN lines : lines'[k] = lines[j],
         outcome = "result" => work[awaiting] = "executed",
         outcome = "toolError" => work[awaiting] = "refused"
  PROVE  AInv'
<1>1. calls' = calls /\ UNCHANGED <<child, work, printed, stray>>
  BY DEF Settle, server
<1>2. TypeOK'
  BY <1>1, SettleGives, McpClientAssumption DEF AInv, TypeOK, NoId
<1>3. (LinesTrue /\ OwnAnswer)'
  BY <1>1, <1>2, SettleGives, TruthKept
<1>. QED
  BY <1>1, <1>2, <1>3, SettleGives, ConfirmationsKept DEF AInv

\* _await took a line.
LEMMA TakeKeeps ==
  ASSUME AInv, Take, consumed' = consumed
  PROVE  AInv'
<1> DEFINE line == Head(lines)
<1>1. /\ awaiting # NoId /\ lines # <<>> /\ lines' = Tail(lines)
      /\ UNCHANGED <<child, work, printed, stray>>
  BY DEF Take, Remaining, server
<1>2. /\ line \in Line /\ Tells(line) /\ lines' \in Seq(Line)
  BY <1>1, TailOfLines DEF AInv
<1>3. \A k \in DOMAIN lines' : \E j \in DOMAIN lines : lines'[k] = lines[j]
  <2>1. lines \in Seq(Line)
    BY DEF AInv, TypeOK
  <2>. QED
    BY <1>1, <2>1
<1>4. ASSUME Answers(line, awaiting), NEW outcome \in Decoded(line.kind, awaiting), Settle(outcome)
      PROVE  AInv'
  <2>1. line.id = awaiting /\ line.kind \in Reply
    BY <1>4 DEF Answers
  <2>2. outcome = line.kind \/ outcome \in {"rpcError", "malformed"}
    BY <1>4 DEF Decoded
  <2>3. outcome \in Outcome
    BY <2>1, <2>2 DEF Outcome, Reply
  <2>. QED
    BY <1>1, <1>2, <1>3, <1>4, <2>1, <2>2, <2>3, SettleKeeps DEF Tells, server
<1>5. ASSUME Settle("transport")
      PROVE  AInv'
  <2>1. "transport" \in Outcome
    BY DEF Outcome
  <2>. QED
    BY <1>1, <1>2, <1>3, <1>5, <2>1, SettleKeeps DEF server
<1>6. ASSUME UNCHANGED client
      PROVE  AInv'
  <2>1. UNCHANGED <<phase, calls, awaiting, answer, child, work, printed, stray>>
    BY <1>1, <1>6 DEF client
  <2>2. TypeOK'
    BY <1>2, <2>1 DEF AInv, TypeOK
  <2>3. Begun' /\ OnlySent' /\ Final
    BY <2>1 DEF AInv, Begun, OnlySent, Final
  <2>4. (LinesTrue /\ OwnAnswer)'
    BY <1>3, <2>1, <2>2, <2>3, TruthKept
  <2>. QED
    BY <2>1, <2>2, <2>3, <2>4, ConfirmationsKept DEF AInv
<1>. QED
  BY <1>4, <1>5, <1>6 DEF Take

\* Timeout and WriteFails: the request ends without an answer.
LEMMA NoAnswerKeeps ==
  ASSUME AInv, Timeout \/ WriteFails, consumed' = consumed
  PROVE  AInv'
<1>1. awaiting # NoId /\ Settle("transport") /\ UNCHANGED <<lines, server>>
  BY DEF Timeout, WriteFails
<1>2. "transport" \in Outcome
  BY DEF Outcome
<1>3. lines' \in Seq(Line)
  BY <1>1 DEF AInv, TypeOK
<1>. QED
  BY <1>1, <1>2, <1>3, SettleKeeps

\* Steps that make no request and settle none: StartFails, Close and what the
\* server does.
LEMMA QuietKeeps ==
  ASSUME AInv, TypeOK', Begun', UNCHANGED <<calls, awaiting, answer, consumed>>,
         \A i \in Ids : work'[i] # work[i] =>
           work[i] \in {"sent", "accepted"} /\ work'[i] # "unsent",
         \A k \in DOMAIN lines' :
           \/ \E j \in DOMAIN lines : lines'[k] = lines[j]
           \/ Tells(lines[k])'
  PROVE  AInv'
<1>1. Final
  BY DEF Final
<1>2. OnlySent'
  BY DEF AInv, OnlySent
<1>. QED
  BY <1>1, <1>2, ConfirmationsKept, TruthKept DEF AInv

\* StartFails and Close.
LEMMA StopKeeps ==
  ASSUME AInv, StartFails \/ Close, consumed' = consumed
  PROVE  AInv'
<1>1. /\ UNCHANGED <<calls, awaiting, answer, lines, child, work, printed, stray>>
      /\ phase' = "over"
  BY DEF StartFails, Close, server
<1>2. TypeOK' /\ Begun'
  BY <1>1 DEF AInv, TypeOK, Begun
<1>. QED
  BY <1>1, <1>2, QuietKeeps

(***************************************************************************)
(* The steps of the server.                                                *)
(***************************************************************************)
\* The server reads a request, acts on it or loses it.
LEMMA WorkKeeps ==
  ASSUME AInv, NEW i \in Ids, Accept(i) \/ Handle(i) \/ Lose(i), consumed' = consumed
  PROVE  AInv'
<1>1. /\ UNCHANGED <<phase, calls, awaiting, answer, lines, child, printed, stray>>
      /\ work[i] \in {"sent", "accepted"}
      /\ \E w \in {"accepted", "executed", "refused", "lost"} : work' = [work EXCEPT ![i] = w]
  BY DEF Accept, Handle, Lose, client
<1>2. TypeOK' /\ Begun'
  BY <1>1 DEF AInv, TypeOK, Begun, Work
<1>3. \A j \in Ids : work'[j] # work[j] => work[j] \in {"sent", "accepted"} /\ work'[j] # "unsent"
  BY <1>1 DEF AInv, TypeOK
<1>. QED
  BY <1>1, <1>2, <1>3, QuietKeeps

\* A line that is true when it is printed.
LEMMA PrintKeeps ==
  ASSUME AInv, NEW line \in Line, lines' = Append(lines, line), Tells(line),
         child' \in {child, "exited"}, child = "up",
         UNCHANGED <<client, work, consumed>>,
         printed' \subseteq Ids, stray' \in 0..MaxStray
  PROVE  AInv'
<1>1. UNCHANGED <<phase, calls, awaiting, answer, work>>
  BY DEF client
<1>2. TypeOK'
  BY <1>1, MoreLines DEF AInv, TypeOK
<1>3. Begun'
  BY <1>1 DEF AInv, Begun
<1>4. Tells(line)'
  BY <1>1 DEF Tells
<1>5. \A k \in DOMAIN lines' : (\E j \in DOMAIN lines : lines'[k] = lines[j]) \/ Tells(lines[k])'
  <2>. SUFFICES ASSUME NEW k \in DOMAIN lines'
                PROVE  (\E j \in DOMAIN lines : lines'[k] = lines[j]) \/ Tells(lines[k])'
    OBVIOUS
  <2>1. CASE k \in DOMAIN lines /\ lines'[k] = lines[k]
    BY <2>1
  <2>2. CASE lines'[k] = line
    BY <1>4, <2>2 DEF Tells
  <2>. QED
    BY <2>1, <2>2, MoreLines DEF AInv
<1>. QED
  BY <1>1, <1>2, <1>3, <1>5, QuietKeeps

\* ReplyTo, Stray and Exit print a line.
LEMMA LineKeeps ==
  ASSUME AInv, (\E i \in Ids : ReplyTo(i)) \/ Stray \/ Exit, consumed' = consumed
  PROVE  AInv'
<1>0. TypeOK /\ printed \subseteq Ids /\ stray \in 0..MaxStray
  BY DEF AInv, TypeOK
<1>1. ASSUME NEW i \in Ids, ReplyTo(i)
      PROVE  AInv'
  <2>1. PICK kind \in Reply :
          /\ kind = "result" => work[i] = "executed"
          /\ kind = "toolError" => work[i] = "refused"
          /\ PutLine([kind |-> kind, id |-> i])
    BY <1>1 DEF ReplyTo
  <2> DEFINE line == [kind |-> kind, id |-> i]
  <2>2. line \in Line /\ Tells(line)
    BY <2>1, LineKinds DEF Tells
  <2>3. /\ lines' = Append(lines, line) /\ child = "up"
        /\ UNCHANGED <<client, child, work, stray>> /\ printed' = printed \cup {i}
    BY <1>1, <2>1 DEF ReplyTo, PutLine
  <2>. HIDE DEF line
  <2>. QED
    BY <1>0, <2>2, <2>3, PrintKeeps
<1>2. ASSUME Stray
      PROVE  AInv'
  <2>1. PICK kind \in {"ping", "junk"} : PutLine([kind |-> kind, id |-> Len(calls)])
    BY <1>2 DEF Stray
  <2> DEFINE line == [kind |-> kind, id |-> Len(calls)]
  <2>2. child = "up" /\ lines' = Append(lines, line)
    BY <2>1 DEF PutLine
  <2>3. Len(calls) \in Ids
    BY <1>0, <2>2, CallsAre, McpClientAssumption DEF AInv, Begun, Ids
  <2>4. line \in Line /\ Tells(line)
    BY <2>3, LineKinds DEF Tells
  <2>5. UNCHANGED <<client, child, work, printed>> /\ stray' \in 0..MaxStray
    BY <1>0, <1>2, McpClientAssumption DEF Stray
  <2>. HIDE DEF line
  <2>. QED
    BY <1>0, <2>2, <2>4, <2>5, PrintKeeps
<1>3. ASSUME Exit
      PROVE  AInv'
  <2> DEFINE line == [kind |-> "eof", id |-> NoId]
  <2>1. line \in Line /\ Tells(line)
    BY LineKinds DEF Tells
  <2>2. /\ child = "up" /\ child' = "exited" /\ lines' = Append(lines, line)
        /\ UNCHANGED <<client, work, printed, stray>>
    BY <1>3 DEF Exit
  <2>. HIDE DEF line
  <2>. QED
    BY <1>0, <2>1, <2>2, PrintKeeps
<1>. QED
  BY <1>1, <1>2, <1>3

(***************************************************************************)
(* The theorems.                                                           *)
(***************************************************************************)
\* A session starts in the invariant.
LEMMA AInvInit == AdapterInit => AInv
<1>. SUFFICES ASSUME AdapterInit
              PROVE  AInv
  OBVIOUS
<1>1. /\ phase = "new" /\ calls = <<>> /\ awaiting = NoId /\ lines = <<>> /\ child = "none"
      /\ answer = [i \in Ids |-> "none"] /\ work = [i \in Ids |-> "unsent"]
      /\ printed = {} /\ stray = 0 /\ consumed = {}
  BY DEF AdapterInit, Init
<1>2. DOMAIN calls = {} /\ DOMAIN lines = {} /\ calls \in Seq(Call) /\ lines \in Seq(Line)
      /\ Len(calls) = 0
  BY <1>1
<1>3. TypeOK
  BY <1>1, <1>2, McpClientAssumption DEF TypeOK, Work
<1>4. \A c \in Ids : SubmitsOf(c) = {}
  BY <1>2 DEF SubmitsOf
<1>. QED
  BY <1>1, <1>2, <1>3, <1>4
     DEF AInv, Begun, OnlySent, LinesTrue, OwnAnswer, ConsumedIs, Unique, Named

\* Every step keeps it.
LEMMA AInvNext == AInv /\ [AdapterNext]_vars => AInv'
<1>. SUFFICES ASSUME AInv, [AdapterNext]_vars
              PROVE  AInv'
  OBVIOUS
<1>1. CASE ClientStep /\ consumed' = consumed
  BY <1>1, StartKeeps, StopKeeps, TakeKeeps, NoAnswerKeeps DEF ClientStep
<1>2. CASE ServerStep /\ consumed' = consumed
  BY <1>2, WorkKeeps, LineKeeps DEF ServerStep
<1>3. CASE Read \/ \E op \in Operations : PrepareOp(op)
  BY <1>3, OtherRequestKeeps
<1>4. ASSUME NEW op \in Operations, NEW c \in Ids, Submit(c, op)
      PROVE  AInv'
  BY <1>4, SubmitKeeps
<1>5. CASE UNCHANGED vars
  BY <1>5 DEF vars, clientVars, AInv, TypeOK, Begun, OnlySent, LinesTrue, Tells, OwnAnswer,
              ConsumedIs, Unique, Named, SubmitsOf
<1>. QED
  BY <1>1, <1>2, <1>3, <1>4, <1>5 DEF AdapterNext

\* The invariant of a session.
THEOREM AdapterInvariance == Spec => []AInv
BY AInvInit, AInvNext, PTL DEF Spec

\* The variables of a session have their types, so that no queue holds a line
\* of another form and no call waits for an id it did not send.
THEOREM AdapterTypeCorrect == Spec => []TypeOK
<1>1. AInv => TypeOK
  BY DEF AInv
<1>. QED
  BY <1>1, AdapterInvariance, PTL

\* A caller gets its own answer, however many calls were given up before it and
\* whatever the server prints in between.
THEOREM AnswersAreOwn == Spec => []OwnAnswer
<1>1. AInv => OwnAnswer
  BY DEF AInv
<1>. QED
  BY <1>1, AdapterInvariance, PTL

\* A confirmation is submitted once, with the operation it was prepared for and
\* after the server said it was prepared.
THEOREM SubmitsOnce == Spec => []SubmittedOnce
<1>1. ASSUME AInv
      PROVE  SubmittedOnce
  <2>. SUFFICES ASSUME NEW c \in Ids
                PROVE  /\ Cardinality(SubmitsOf(c)) <= 1
                       /\ \A i \in SubmitsOf(c) :
                            /\ c < i /\ calls[c].tool = "prepare"
                            /\ calls[c].op = calls[i].op /\ work[c] = "executed"
    BY DEF SubmittedOnce
  <2>1. Cardinality(SubmitsOf(c)) <= 1
    <3>1. SubmitsOf(c) = {} \/ \E i \in SubmitsOf(c) : SubmitsOf(c) = {i}
      BY <1>1 DEF AInv, Unique
    <3>2. Cardinality({}) = 0 /\ \A i : Cardinality({i}) = 1
      BY FS_EmptySet, FS_Singleton, Zenon
    <3>. QED
      BY <3>1, <3>2
  <2>2. ASSUME NEW i \in SubmitsOf(c)
        PROVE  /\ c < i /\ calls[c].tool = "prepare"
               /\ calls[c].op = calls[i].op /\ work[c] = "executed"
    <3>1. /\ c < i /\ calls[c].tool = "prepare"
          /\ calls[c].op = calls[i].op /\ answer[c] = "result"
      BY <1>1 DEF AInv, Unique
    <3>2. c \in DOMAIN calls
      BY <1>1, <3>1 DEF AInv, OnlySent
    <3>. QED
      BY <1>1, <3>1, <3>2 DEF AInv, OwnAnswer
  <2>. QED
    BY <2>1, <2>2
<1>. QED
  BY <1>1, AdapterInvariance, PTL

(***************************************************************************)
(* The adapter implements Submission: the refinement of KeepsWord.         *)
(***************************************************************************)
\* A confirmation some request i submits: its fate is what the server made of
\* i, and what its caller was told is the answer to i.
FateAs(w) ==
  CASE w \in {"sent", "accepted"} -> "inflight"
    [] w = "executed" -> "applied"
    [] OTHER -> "doomed"

\* The request that submits a confirmation is the one submit of it.
LEMMA SubmitOfIs ==
  ASSUME NEW c, NEW i, SubmitsOf(c) = {i}, i \in Nat \ {0}
  PROVE  /\ SubmitOf(c) = i
         /\ FateOf(c) = FateAs(work[i])
         /\ ToldOf(c) = Told(answer[i])
<1>1. SubmitOf(c) = i
  <2>1. \A j \in SubmitsOf(c) : i <= j
    OBVIOUS
  <2>. QED
    BY <2>1 DEF SubmitOf
<1>. QED
  BY <1>1 DEF FateOf, ToldOf, FateAs, NoId

\* A confirmation that was not submitted.
LEMMA NotSubmitted ==
  ASSUME NEW c, SubmitsOf(c) = {}
  PROVE  FateOf(c) = "unsent" /\ ToldOf(c) = "nothing"
BY DEF SubmitOf, FateOf, ToldOf, NoId

\* What Submission sees of every confirmation but c stays.
OthersStay(c) ==
  \A d \in Confirmable \ {c} : FateOf(d)' = FateOf(d) /\ ToldOf(d)' = ToldOf(d)

fateBar == [c \in Confirmable |-> FateOf(c)]
toldBar == [c \in Confirmable |-> ToldOf(c)]

\* Nothing of what Submission sees changes.
LEMMA MapStutter ==
  ASSUME \A c \in Confirmable : FateOf(c)' = FateOf(c) /\ ToldOf(c)' = ToldOf(c)
  PROVE  UNCHANGED Promise!vars
BY DEF Promise!vars

\* The submit of c was dispatched.
LEMMA MapDispatch ==
  ASSUME NEW c \in Confirmable, OthersStay(c),
         FateOf(c) = "unsent", FateOf(c)' = "inflight", ToldOf(c)' = ToldOf(c)
  PROVE  Promise!Next
<1>1. fateBar[c] = "unsent" /\ fateBar' = [fateBar EXCEPT ![c] = "inflight"]
  BY DEF fateBar, OthersStay
<1>2. toldBar' = toldBar
  BY DEF toldBar, OthersStay
<1>3. Promise!Dispatch(c)
  BY <1>1, <1>2 DEF Promise!Dispatch, fateBar, toldBar
<1>4. fateBar' # fateBar
  BY <1>1 DEF fateBar
<1>. QED
  BY <1>3, <1>4 DEF Promise!Next, Promise!vars, fateBar

\* The server acted on the submit of c, or never will.
LEMMA MapAct ==
  ASSUME NEW c \in Confirmable, OthersStay(c),
         FateOf(c) = "inflight", FateOf(c)' \in {"applied", "doomed"}, ToldOf(c)' = ToldOf(c)
  PROVE  Promise!Next
<1>1. fateBar[c] = "inflight" /\ \E f \in {"applied", "doomed"} : fateBar' = [fateBar EXCEPT ![c] = f]
  BY DEF fateBar, OthersStay
<1>2. toldBar' = toldBar
  BY DEF toldBar, OthersStay
<1>3. Promise!Act(c)
  BY <1>1, <1>2 DEF Promise!Act, fateBar, toldBar
<1>4. fateBar' # fateBar
  BY <1>1 DEF fateBar
<1>. QED
  BY <1>3, <1>4 DEF Promise!Next, Promise!vars, fateBar

\* The caller of submit was told of c.
LEMMA MapTell ==
  ASSUME NEW c \in Confirmable, OthersStay(c), FateOf(c) # "unsent", FateOf(c)' = FateOf(c),
         ToldOf(c) = "nothing", ToldOf(c)' \in {"submitted", "failed", "ambiguous"},
         ToldOf(c)' = "submitted" => FateOf(c) = "applied",
         ToldOf(c)' = "failed" => FateOf(c) = "doomed"
  PROVE  Promise!Next
<1>1. /\ toldBar[c] = "nothing"
      /\ \E word \in {"submitted", "failed", "ambiguous"} :
           /\ word = "submitted" => fateBar[c] = "applied"
           /\ word = "failed" => fateBar[c] = "doomed"
           /\ toldBar' = [toldBar EXCEPT ![c] = word]
  BY DEF fateBar, toldBar, OthersStay
<1>2. fateBar' = fateBar /\ fateBar[c] # "unsent"
  BY DEF fateBar, OthersStay
<1>3. Promise!Tell(c)
  BY <1>1, <1>2 DEF Promise!Tell, fateBar, toldBar
<1>4. toldBar' # toldBar
  BY <1>1 DEF toldBar
<1>. QED
  BY <1>3, <1>4 DEF Promise!Next, Promise!vars, toldBar

\* A request is of interest when it is a submit.
LEMMA SubmitsAre ==
  ASSUME AInv, NEW c \in Confirmable
  PROVE  SubmitsOf(c) = {} \/ \E i \in DOMAIN calls : SubmitsOf(c) = {i}
<1>1. c \in Ids
  BY McpClientAssumption DEF Confirmable, Ids
<1>. QED
  BY <1>1 DEF AInv, Unique, SubmitsOf

\* A request is the submit of at most one confirmation, which is confirmable:
\* the handshake prepares nothing, and what is prepared last is not submitted.
LEMMA ConfirmationOf ==
  ASSUME AInv, NEW i \in DOMAIN calls, calls[i].tool = "submit"
  PROVE  LET c == calls[i].conf
         IN /\ c \in Confirmable
            /\ SubmitsOf(c) = {i}
            /\ \A d \in Ids \ {c} : i \notin SubmitsOf(d)
<1> DEFINE c == calls[i].conf
<1>1. c \in Ids /\ i \in SubmitsOf(c)
  BY DEF AInv, Named, SubmitsOf
<1>2. SubmitsOf(c) = {i} /\ c < i /\ calls[c].tool = "prepare"
  BY <1>1 DEF AInv, Unique
<1>3. i \in Ids /\ calls # <<>>
  BY CallsAre DEF AInv
<1>4. c # 1
  BY <1>2, <1>3 DEF AInv, Begun
<1>. QED
  BY <1>1, <1>2, <1>3, <1>4, McpClientAssumption DEF Confirmable, Ids, SubmitsOf

\* What Submission sees of a confirmation depends on the submits of it and on
\* what became of them.
LEMMA SeenStays ==
  ASSUME AInv, NEW c \in Confirmable, SubmitsOf(c)' = SubmitsOf(c),
         \A i \in SubmitsOf(c) : FateAs(work'[i]) = FateAs(work[i]) /\ answer'[i] = answer[i]
  PROVE  FateOf(c)' = FateOf(c) /\ ToldOf(c)' = ToldOf(c)
<1>1. CASE SubmitsOf(c) = {}
  BY <1>1, NotSubmitted DEF FateOf, ToldOf, SubmitOf
<1>2. ASSUME NEW i \in DOMAIN calls, SubmitsOf(c) = {i}
      PROVE  FateOf(c)' = FateOf(c) /\ ToldOf(c)' = ToldOf(c)
  <2>1. i \in Nat \ {0}
    BY CallsAre DEF AInv, Ids
  <2>2. FateOf(c) = FateAs(work[i]) /\ ToldOf(c) = Told(answer[i])
    BY <1>2, <2>1, SubmitOfIs
  <2>3. SubmitOf(c)' = SubmitOf(c) /\ SubmitOf(c) = i
    BY <1>2, <2>1, SubmitOfIs DEF SubmitOf
  <2>. QED
    BY <1>2, <2>1, <2>2, <2>3 DEF FateOf, ToldOf, FateAs, NoId
<1>. QED
  BY <1>1, <1>2, SubmitsAre

\* The same after a step.
LEMMA SeenAfter ==
  ASSUME NEW c, NEW i \in Nat \ {0}, SubmitsOf(c)' = {i}
  PROVE  /\ FateOf(c)' = FateAs(work'[i])
         /\ ToldOf(c)' = Told(answer'[i])
<1>1. SubmitOf(c)' = i
  <2>1. \A j \in SubmitsOf(c)' : i <= j
    OBVIOUS
  <2>. QED
    BY <2>1 DEF SubmitOf
<1>. QED
  BY <1>1 DEF FateOf, ToldOf, FateAs, NoId

\* Steps that neither send a submit nor act on nor settle one.
LEMMA UnseenStutters ==
  ASSUME AInv, \A c \in Ids : SubmitsOf(c)' = SubmitsOf(c),
         \A i \in DOMAIN calls :
           calls[i].tool = "submit" => FateAs(work'[i]) = FateAs(work[i]) /\ answer'[i] = answer[i]
  PROVE  UNCHANGED Promise!vars
<1>1. Confirmable \subseteq Ids
  BY McpClientAssumption DEF Confirmable, Ids
<1>2. ASSUME NEW c \in Confirmable
      PROVE  FateOf(c)' = FateOf(c) /\ ToldOf(c)' = ToldOf(c)
  <2>1. \A i \in SubmitsOf(c) : i \in DOMAIN calls /\ calls[i].tool = "submit"
    BY DEF SubmitsOf
  <2>. QED
    BY <1>1, <2>1, SeenStays
<1>. QED
  BY <1>2, MapStutter

\* A request that is no submit.
LEMMA OtherRequestMaps ==
  ASSUME AInv, NEW call \in Call, Send(call), call.tool # "submit", consumed' = consumed
  PROVE  UNCHANGED Promise!vars
<1>1. \A c \in Ids : SubmitsOf(c)' = SubmitsOf(c)
  BY SendOther
<1>2. TypeOK /\ Len(calls) < MaxRequests
  BY DEF AInv, Send
<1>3. \A i \in DOMAIN calls : work'[i] = work[i]
  BY <1>2, MoreCalls, CallsAre DEF TypeOK, Send
<1>4. answer' = answer
  BY DEF Send
<1>. QED
  BY <1>1, <1>3, <1>4, UnseenStutters

\* A submit dispatches its confirmation.
LEMMA SubmitMaps ==
  ASSUME AInv, NEW c \in Ids, NEW op \in Operations, Submit(c, op)
  PROVE  Promise!Next
<1> DEFINE n == Len(calls) + 1
<1>0. TypeOK /\ Len(calls) < MaxRequests
  BY DEF AInv, Submit, Request, Send
<1>1. /\ SubmitsOf(c) = {} /\ SubmitsOf(c)' = {n}
      /\ n \in Ids /\ work'[n] = "sent" /\ answer'[n] = "none"
      /\ \A d \in Ids \ {c} : SubmitsOf(d)' = SubmitsOf(d)
  BY SendSubmit
<1>2. c \in Confirmable
  <2>1. c \in DOMAIN calls /\ calls[c].tool = "prepare"
    BY DEF Submit, Prepared
  <2>2. c # 1
    BY <1>0, <2>1, CallsAre DEF AInv, Begun
  <2>. QED
    BY <1>0, <2>1, <2>2, CallsAre, McpClientAssumption DEF Confirmable, Ids
<1>3. FateOf(c)' = "inflight" /\ ToldOf(c)' = "nothing"
  <2>1. n \in Nat \ {0}
    BY <1>1 DEF Ids
  <2>. QED
    BY <1>1, <2>1, SeenAfter DEF FateAs, Told
<1>4. FateOf(c) = "unsent" /\ ToldOf(c) = "nothing"
  BY <1>1, NotSubmitted
<1>5. OthersStay(c)
  <2>. SUFFICES ASSUME NEW d \in Confirmable \ {c}
                PROVE  FateOf(d)' = FateOf(d) /\ ToldOf(d)' = ToldOf(d)
    BY DEF OthersStay
  <2>1. d \in Ids
    BY McpClientAssumption DEF Confirmable, Ids
  <2>2. answer' = answer /\ \A i \in DOMAIN calls : work'[i] = work[i]
    BY <1>0, CallsAre DEF Submit, Request, Send, AInv, TypeOK
  <2>3. \A i \in SubmitsOf(d) : i \in DOMAIN calls
    BY DEF SubmitsOf
  <2>. QED
    BY <1>1, <2>1, <2>2, <2>3, SeenStays
<1>. QED
  BY <1>2, <1>3, <1>4, <1>5, MapDispatch

\* What happens to one request is seen of the confirmation it submits only.
LEMMA OneSeen ==
  ASSUME AInv, NEW i \in DOMAIN calls, calls[i].tool = "submit", calls' = calls,
         \A j \in DOMAIN calls \ {i} : work'[j] = work[j] /\ answer'[j] = answer[j]
  PROVE  \E c \in Confirmable :
           /\ OthersStay(c)
           /\ FateOf(c) = FateAs(work[i]) /\ ToldOf(c) = Told(answer[i])
           /\ FateOf(c)' = FateAs(work'[i]) /\ ToldOf(c)' = Told(answer'[i])
<1>1. PICK c \in Confirmable : SubmitsOf(c) = {i} /\ \A d \in Ids \ {c} : i \notin SubmitsOf(d)
  BY ConfirmationOf
<1>2. i \in Nat \ {0} /\ Confirmable \subseteq Ids
  BY CallsAre, McpClientAssumption DEF AInv, Confirmable, Ids
<1>3. \A d \in Ids : SubmitsOf(d)' = SubmitsOf(d)
  BY DEF SubmitsOf
<1>4. ASSUME NEW d \in Confirmable \ {c}
      PROVE  FateOf(d)' = FateOf(d) /\ ToldOf(d)' = ToldOf(d)
  <2>1. \A j \in SubmitsOf(d) : j \in DOMAIN calls \ {i}
    BY <1>1, <1>2 DEF SubmitsOf
  <2>. QED
    BY <1>2, <1>3, <2>1, SeenStays
<1>5. FateOf(c) = FateAs(work[i]) /\ ToldOf(c) = Told(answer[i])
  BY <1>1, <1>2, SubmitOfIs
<1>6. FateOf(c)' = FateAs(work'[i]) /\ ToldOf(c)' = Told(answer'[i])
  <2>1. SubmitsOf(c)' = {i}
    BY <1>1, <1>2, <1>3
  <2>. QED
    BY <1>2, <2>1, SeenAfter
<1>. QED
  BY <1>1, <1>4, <1>5, <1>6 DEF OthersStay

\* A submit that ends is told of; one whose error cannot be decoded is not.
LEMMA SettleMaps ==
  ASSUME AInv, awaiting # NoId, NEW outcome \in Outcome, Settle(outcome),
         UNCHANGED server,
         outcome = "result" => work[awaiting] = "executed",
         outcome = "toolError" => work[awaiting] = "refused"
  PROVE  Promise!Next \/ UNCHANGED Promise!vars
<1>1. /\ calls' = calls /\ work' = work /\ child' = child
      /\ awaiting \in DOMAIN calls /\ DOMAIN calls \subseteq Ids
  BY CallsAre DEF Settle, server, AInv, TypeOK
<1>2. /\ answer[awaiting] = "none" /\ answer'[awaiting] = outcome
      /\ \A i \in Ids : i # awaiting => answer'[i] = answer[i]
  BY <1>1, SettleGives
<1>3. CASE calls[awaiting].tool # "submit"
  <2>1. \A c \in Ids : SubmitsOf(c)' = SubmitsOf(c)
    BY <1>1 DEF SubmitsOf
  <2>. QED
    BY <1>1, <1>2, <1>3, <2>1, UnseenStutters
<1>4. CASE calls[awaiting].tool = "submit"
  <2>0. \A j \in DOMAIN calls \ {awaiting} : work'[j] = work[j] /\ answer'[j] = answer[j]
    BY <1>1, <1>2
  <2>1. PICK c \in Confirmable :
          /\ OthersStay(c)
          /\ FateOf(c) = FateAs(work[awaiting]) /\ ToldOf(c) = Told("none")
          /\ FateOf(c)' = FateOf(c) /\ ToldOf(c)' = Told(outcome)
    BY <1>1, <1>2, <1>4, <2>0, OneSeen
  <2>2. ToldOf(c) = "nothing" /\ FateOf(c) \in {"inflight", "applied", "doomed"}
    BY <2>1 DEF Told, FateAs
  <2>3. CASE outcome = "malformed"
    <3>1. ToldOf(c)' = ToldOf(c)
      BY <2>1, <2>3 DEF Told
    <3>2. UNCHANGED Promise!vars
      BY <2>1, <3>1, MapStutter DEF OthersStay
    <3>. QED
      BY <3>2
  <2>4. CASE outcome # "malformed"
    <3>1. /\ Told(outcome) \in {"submitted", "failed", "ambiguous"}
          /\ Told(outcome) = "submitted" => outcome = "result"
          /\ Told(outcome) = "failed" => outcome = "toolError"
      BY <2>4 DEF Told, Outcome, Reply
    <3>2. ToldOf(c)' = "submitted" => FateOf(c) = "applied"
      BY <2>1, <3>1 DEF FateAs
    <3>3. ToldOf(c)' = "failed" => FateOf(c) = "doomed"
      BY <2>1, <3>1 DEF FateAs
    <3>. QED
      BY <2>1, <2>2, <3>1, <3>2, <3>3, MapTell
  <2>. QED
    BY <2>3, <2>4
<1>. QED
  BY <1>3, <1>4

\* The server reads, acts on or loses a request.
LEMMA WorkMaps ==
  ASSUME AInv, NEW i \in Ids, Accept(i) \/ Handle(i) \/ Lose(i)
  PROVE  Promise!Next \/ UNCHANGED Promise!vars
<1>1. /\ calls' = calls /\ answer' = answer /\ work[i] \in {"sent", "accepted"}
      /\ i \in DOMAIN calls /\ DOMAIN calls \subseteq Ids
  BY CallsAre DEF Accept, Handle, Lose, client, AInv, OnlySent
<1>2. PICK w \in {"accepted", "executed", "refused", "lost"} : work' = [work EXCEPT ![i] = w]
  BY DEF Accept, Handle, Lose
<1>3. \A j \in Ids : work'[j] = IF j = i THEN w ELSE work[j]
  BY <1>2 DEF AInv, TypeOK
<1>4. \A c \in Ids : SubmitsOf(c)' = SubmitsOf(c)
  BY <1>1 DEF SubmitsOf
<1>5. CASE calls[i].tool # "submit" \/ w = "accepted"
  <2>1. \A j \in DOMAIN calls : calls[j].tool = "submit" => FateAs(work'[j]) = FateAs(work[j])
    BY <1>1, <1>3, <1>5 DEF FateAs
  <2>2. UNCHANGED Promise!vars
    BY <1>1, <1>4, <2>1, UnseenStutters
  <2>. QED
    BY <2>2
<1>6. CASE calls[i].tool = "submit" /\ w # "accepted"
  <2>1. PICK c \in Confirmable :
          /\ OthersStay(c)
          /\ FateOf(c) = FateAs(work[i]) /\ FateOf(c)' = FateAs(w) /\ ToldOf(c)' = ToldOf(c)
    BY <1>1, <1>3, <1>6, OneSeen
  <2>2. FateAs(work[i]) = "inflight" /\ FateAs(w) \in {"applied", "doomed"}
    BY <1>1, <1>6 DEF FateAs
  <2>. QED
    BY <2>1, <2>2, MapAct
<1>. QED
  BY <1>5, <1>6

\* The rest is not seen.
LEMMA RestMaps ==
  ASSUME AInv, UNCHANGED <<calls, answer, work>>
  PROVE  UNCHANGED Promise!vars
<1>1. \A c \in Ids : SubmitsOf(c)' = SubmitsOf(c)
  BY DEF SubmitsOf
<1>. QED
  BY <1>1, UnseenStutters

\* _await takes a line: only the answer and the end of output are passed on.
LEMMA TakeMaps ==
  ASSUME AInv, Take
  PROVE  Promise!Next \/ UNCHANGED Promise!vars
<1> DEFINE line == Head(lines)
<1>1. awaiting # NoId /\ lines # <<>> /\ UNCHANGED server
  BY DEF Take
<1>2. Tells(line)
  BY <1>1, TailOfLines DEF AInv
<1>3. ASSUME Answers(line, awaiting), NEW outcome \in Decoded(line.kind, awaiting), Settle(outcome)
      PROVE  Promise!Next \/ UNCHANGED Promise!vars
  <2>1. line.id = awaiting /\ line.kind \in Reply
    BY <1>3 DEF Answers
  <2>2. outcome = line.kind \/ outcome \in {"rpcError", "malformed"}
    BY <1>3 DEF Decoded
  <2>3. outcome \in Outcome
    BY <2>1, <2>2 DEF Outcome, Reply
  <2>. QED
    BY <1>1, <1>2, <1>3, <2>1, <2>2, <2>3, SettleMaps DEF Tells
<1>4. ASSUME Settle("transport")
      PROVE  Promise!Next \/ UNCHANGED Promise!vars
  <2>1. "transport" \in Outcome
    BY DEF Outcome
  <2>. QED
    BY <1>1, <1>4, <2>1, SettleMaps
<1>5. ASSUME UNCHANGED client
      PROVE  UNCHANGED Promise!vars
  BY <1>1, <1>5, RestMaps DEF client, server
<1>. QED
  BY <1>3, <1>4, <1>5 DEF Take

\* Every step of a session is a step of Submission or none.
LEMMA StepsMap ==
  ASSUME AInv, [AdapterNext]_vars
  PROVE  Promise!Next \/ UNCHANGED Promise!vars
<1>1. CASE Start /\ consumed' = consumed
  <2>1. Handshake \in Call /\ Handshake.tool # "submit" /\ Send(Handshake)
    BY <1>1 DEF Handshake, Call, Start
  <2>. QED
    BY <1>1, <2>1, OtherRequestMaps
<1>2. CASE Take
  BY <1>2, TakeMaps
<1>3. CASE Timeout \/ WriteFails
  <2>1. awaiting # NoId /\ Settle("transport") /\ UNCHANGED server /\ "transport" \in Outcome
    BY <1>3 DEF Timeout, WriteFails, Outcome
  <2>. QED
    BY <2>1, SettleMaps
<1>4. CASE StartFails \/ Close
  BY <1>4, RestMaps DEF StartFails, Close, server
<1>5. ASSUME NEW i \in Ids, Accept(i) \/ Handle(i) \/ Lose(i)
      PROVE  Promise!Next \/ UNCHANGED Promise!vars
  BY <1>5, WorkMaps
<1>6. CASE (\E i \in Ids : ReplyTo(i)) \/ Stray \/ Exit
  BY <1>6, RestMaps DEF ReplyTo, Stray, Exit, client
<1>7. CASE Read
  <2>1. [tool |-> "read", op |-> "none", conf |-> NoId] \in Call
    BY DEF Call
  <2>. QED
    BY <1>7, <2>1, OtherRequestMaps DEF Read, Request
<1>8. ASSUME NEW op \in Operations, PrepareOp(op)
      PROVE  Promise!Next \/ UNCHANGED Promise!vars
  <2>1. [tool |-> "prepare", op |-> op, conf |-> NoId] \in Call
    BY DEF Call
  <2>. QED
    BY <1>8, <2>1, OtherRequestMaps DEF PrepareOp, Request
<1>9. ASSUME NEW op \in Operations, NEW c \in Ids, Submit(c, op)
      PROVE  Promise!Next \/ UNCHANGED Promise!vars
  BY <1>9, SubmitMaps
<1>10. CASE UNCHANGED vars
  BY <1>10, RestMaps DEF vars, clientVars
<1>. QED
  BY <1>1, <1>2, <1>3, <1>4, <1>5, <1>6, <1>7, <1>8, <1>9, <1>10
     DEF AdapterNext, ClientStep, ServerStep

\* The adapter implements what adapters/base.py promises of submits, whatever
\* the server does and however often the adapter is called: each confirmation is
\* dispatched at most once, "submitted" is said of what took effect only, and
\* "failed" of what never will.
THEOREM AdapterKeepsWord == Spec => KeepsWord
<1>1. AdapterInit => Promise!Init
  <2>. SUFFICES ASSUME AdapterInit
                PROVE  Promise!Init
    OBVIOUS
  <2>1. \A c \in Confirmable : SubmitsOf(c) = {}
    BY DEF AdapterInit, Init, SubmitsOf
  <2>2. \A c \in Confirmable : FateOf(c) = "unsent" /\ ToldOf(c) = "nothing"
    BY <2>1, NotSubmitted
  <2>. QED
    BY <2>2 DEF Promise!Init
<1>2. AInv /\ [AdapterNext]_vars => [Promise!Next]_(Promise!vars)
  BY StepsMap
<1>. QED
  BY <1>1, <1>2, AdapterInvariance, PTL DEF Spec, KeepsWord, Promise!Spec
=============================================================================
