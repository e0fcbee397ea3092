--------------------------- MODULE GibworkAdapter ---------------------------
(***************************************************************************)
(* adapters/gibwork.py: one GibworkMcpAdapter over one McpClient.  It may  *)
(* be called in any order, also after a call that failed; it starts the    *)
(* server with its first call and does not outlive its close().            *)
(*                                                                         *)
(* What the adapter remembers of a prepared confirmation (_prepared) can   *)
(* be read off the client's requests and answers; _consumed is its own.    *)
(***************************************************************************)
EXTENDS McpClient, FiniteSets

CONSTANT Writes     \* opened with writes=True

ASSUME GibworkAdapterAssumption == Writes \in BOOLEAN

VARIABLE consumed   \* the confirmations submitted from this session

vars == <<clientVars, consumed>>

AdapterInit == Init /\ consumed = {}

\* _prepared: the confirmations the server returned, by operation.
Prepared(op) ==
  {c \in DOMAIN calls : /\ calls[c].tool = "prepare"
                        /\ calls[c].op = op
                        /\ answer[c] = "result"}

\* wallet_status, get_task, the lists.
Read ==
  /\ Request([tool |-> "read", op |-> "none", conf |-> NoId])
  /\ UNCHANGED consumed

\* prepare_task, prepare_refund.
PrepareOp(op) ==
  /\ Writes
  /\ Request([tool |-> "prepare", op |-> op, conf |-> NoId])
  /\ UNCHANGED consumed

\* _submit.  A confirmation is consumed before its submit is dispatched;
\* _prepared and _consumed refuse all others.
\* Mutated form: it is consumed by a submit that succeeded.
SubmitNotConsumed(c, op) ==
  /\ Writes
  /\ c \in Prepared(op)
  /\ \A i \in DOMAIN calls : calls[i].tool = "submit" /\ calls[i].conf = c => answer[i] # "result"
  /\ Request([tool |-> "submit", op |-> op, conf |-> c])
  /\ UNCHANGED consumed
Submit(c, op) ==
  /\ Writes
  /\ c \notin consumed
  /\ c \in Prepared(op)
  /\ consumed' = consumed \cup {c}
  /\ Request([tool |-> "submit", op |-> op, conf |-> c])

SubmitsOf(c) == {i \in DOMAIN calls : calls[i].tool = "submit" /\ calls[i].conf = c}

\* _call and _submit: how the end of a submit is passed on.  A tool error is
\* some AdapterError; no answer and a protocol error are AmbiguousSubmit; what
\* else is raised goes through, and the caller of submit is not told a thing.
\* Mutated form: a protocol error is passed on as an AdapterError.
ToldRpcFailed(outcome) ==
  CASE outcome = "result" -> "submitted"
    [] outcome \in {"toolError", "rpcError"} -> "failed"
    [] outcome = "transport" -> "ambiguous"
    [] outcome \in {"malformed", "none"} -> "nothing"
Told(outcome) ==
  CASE outcome = "result" -> "submitted"
    [] outcome = "toolError" -> "failed"
    [] outcome \in {"transport", "rpcError"} -> "ambiguous"
    [] outcome \in {"malformed", "none"} -> "nothing"

AdapterNext ==
  \/ ClientStep /\ UNCHANGED consumed
  \/ ServerStep /\ UNCHANGED consumed
  \/ Read
  \/ \E op \in Operations :
       \/ PrepareOp(op)
       \/ \E c \in Ids : Submit(c, op)

Spec == AdapterInit /\ [][AdapterNext]_vars

FairSpec == Spec /\ ClientFairness /\ ServerFairness

(***************************************************************************)
(* Properties.                                                             *)
(***************************************************************************)

\* A confirmation is submitted once, however its submit ended and however
\* often the adapter is asked to, with the operation it was prepared for.
SubmittedOnce ==
  \A c \in Ids :
    /\ Cardinality(SubmitsOf(c)) <= 1
    /\ \A i \in SubmitsOf(c) :
         c < i /\ calls[c].tool = "prepare" /\ calls[c].op = calls[i].op /\ work[c] = "executed"

\* The first submit of a confirmation.
SubmitOf(c) ==
  IF SubmitsOf(c) = {} THEN NoId ELSE CHOOSE i \in SubmitsOf(c) : \A j \in SubmitsOf(c) : i <= j

FateOf(c) ==
  LET i == SubmitOf(c)
  IN CASE i = NoId -> "unsent"
       [] i # NoId /\ work[i] \in {"sent", "accepted"} -> "inflight"
       [] i # NoId /\ work[i] = "executed" -> "applied"
       [] OTHER -> "doomed"

ToldOf(c) == LET i == SubmitOf(c) IN IF i = NoId THEN "nothing" ELSE Told(answer[i])

\* The first request is the handshake, and a submit follows its prepare.
Confirmable == 2..MaxRequests - 1

Promise == INSTANCE Submission WITH
  Confirmations <- Confirmable,
  fate <- [c \in Confirmable |-> FateOf(c)],
  told <- [c \in Confirmable |-> ToldOf(c)]

\* The adapter submits as adapters/base.py promises.
KeepsWord == Promise!Spec
=============================================================================
