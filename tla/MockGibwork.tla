---------------------------- MODULE MockGibwork ----------------------------
(***************************************************************************)
(* adapters/mock.py: the mock backend.  Every invocation builds an adapter *)
(* of its own, which reads the JSON file once, works on what it read and   *)
(* writes all of it back after each change.  A front end submits what it   *)
(* prepared itself; between the two a person may take their time.          *)
(*                                                                         *)
(* Confirmations are numbered in the order they are issued; the number of  *)
(* a create also names its task.  Time is counted in ticks.                *)
(***************************************************************************)
EXTENDS Integers, FiniteSets, FiniteSetsExt

CONSTANTS
  Invocations,
  Overlap,      \* may invocations run at the same time?
  MaxIssued,    \* bound: confirmations
  MaxNow,       \* bound: the time
  Ttl,          \* CONFIRMATION_TTL, in ticks
  Amounts,      \* what a bounty may be funded with
  Balance       \* what the wallet holds at first

ASSUME MockGibworkAssumption ==
  /\ Overlap \in BOOLEAN
  /\ MaxIssued \in Nat /\ MaxNow \in Nat /\ Ttl \in Nat /\ Balance \in Nat
  /\ Amounts \subseteq Nat

VARIABLES
  file,       \* the state in the JSON file
  memory,     \* the state of each invocation's adapter, or Closed
  prepared,   \* the confirmations each invocation was given
  issued,     \* how many confirmations were issued
  now,        \* the clock
  told        \* the confirmations whose submit has ended, when, and the answer

vars == <<file, memory, prepared, issued, now, told>>

Ids == 1..MaxIssued
Closed == [state |-> "closed"]

Kinds == {"task_create", "task_refund"}

\* _PendingConfirmation
Confirmation == [kind : Kinds, task : Ids, amount : Amounts, expires : Nat, consumed : BOOLEAN]

\* _State, of which a confirmation or task that is not there is no field.
StateOK(s) ==
  /\ s.state = "open"
  /\ s.balance \in 0..Balance
  /\ DOMAIN s.pending \subseteq Ids
  /\ \A c \in DOMAIN s.pending : s.pending[c] \in Confirmation
  /\ DOMAIN s.tasks \subseteq Ids
  /\ \A t \in DOMAIN s.tasks : s.tasks[t] \in [is_open : BOOLEAN, amount : Amounts]

TypeOK ==
  /\ StateOK(file)
  /\ \A i \in Invocations : memory[i] = Closed \/ StateOK(memory[i])
  /\ prepared \in [Invocations -> SUBSET Ids]
  /\ issued \in 0..MaxIssued
  /\ now \in 0..MaxNow
  /\ told \subseteq [conf : Ids, at : 0..MaxNow, word : {"submitted", "failed"}]

Nothing == [x \in {} |-> x]

\* _State()
Fresh == [state |-> "open", balance |-> Balance, pending |-> Nothing, tasks |-> Nothing]

Init ==
  /\ file = Fresh
  /\ memory = [i \in Invocations |-> Closed]
  /\ prepared = [i \in Invocations |-> {}]
  /\ issued = 0
  /\ now = 0
  /\ told = {}

Extended(f, x, y) == [z \in DOMAIN f \cup {x} |-> IF z = x THEN y ELSE f[z]]

\* __init__: the file is read and written back as it was read, in one step: an
\* invocation that writes in between loses no more than to a later save.
\* Mutated form: it is not read.
OpenFresh(i) ==
  /\ memory[i] = Closed
  /\ Overlap \/ \A j \in Invocations : memory[j] = Closed
  /\ memory' = [memory EXCEPT ![i] = Fresh]
  /\ file' = Fresh
  /\ UNCHANGED <<prepared, issued, now, told>>
Open(i) ==
  /\ memory[i] = Closed
  /\ Overlap \/ \A j \in Invocations : memory[j] = Closed
  /\ memory' = [memory EXCEPT ![i] = file]
  /\ UNCHANGED <<file, prepared, issued, now, told>>

\* The invocation ends, at whatever point.
End(i) ==
  /\ memory[i] # Closed
  /\ memory' = [memory EXCEPT ![i] = Closed]
  /\ prepared' = [prepared EXCEPT ![i] = {}]
  /\ UNCHANGED <<file, issued, now, told>>

\* The adapter's state becomes s and _save writes it.
Save(i, s) ==
  /\ memory' = [memory EXCEPT ![i] = s]
  /\ file' = s

Issue(i, kind, task, amount) ==
  LET conf == [kind |-> kind, task |-> task, amount |-> amount,
               expires |-> now + Ttl, consumed |-> FALSE]
  IN /\ issued < MaxIssued
     /\ issued' = issued + 1
     /\ prepared' = [prepared EXCEPT ![i] = @ \cup {issued + 1}]
     /\ Save(i, [memory[i] EXCEPT !.pending = Extended(@, issued + 1, conf)])
     /\ UNCHANGED <<now, told>>

PrepareTask(i, amount) ==
  /\ memory[i] # Closed
  /\ prepared[i] = {}
  /\ Issue(i, "task_create", issued + 1, amount)

PrepareRefund(i, task) ==
  /\ memory[i] # Closed
  /\ prepared[i] = {}
  /\ task \in DOMAIN memory[i].tasks
  /\ memory[i].tasks[task].is_open
  /\ Issue(i, "task_refund", task, memory[i].tasks[task].amount)

\* _take: may the confirmation be used for this operation?
\* Mutated form: it still may at the moment it expires.
TakeableLate(s, c, kind) ==
  /\ c \in DOMAIN s.pending
  /\ ~s.pending[c].consumed
  /\ s.pending[c].kind = kind
  /\ now <= s.pending[c].expires
Takeable(s, c, kind) ==
  /\ c \in DOMAIN s.pending
  /\ ~s.pending[c].consumed
  /\ s.pending[c].kind = kind
  /\ now < s.pending[c].expires
Taken(s, c) == [s EXCEPT !.pending[c].consumed = TRUE]

Answered(c, word) ==
  /\ told' = told \cup {[conf |-> c, at |-> now, word |-> word]}
  /\ UNCHANGED <<issued, now>>

Settled(c) ==
  /\ Answered(c, "submitted")
  /\ UNCHANGED prepared

\* submit_task.
\* Mutated form: the wallet is not looked at.
SubmitTaskUnfunded(i, c) ==
  LET s == memory[i]
      conf == s.pending[c]
  IN /\ s # Closed
     /\ c \in prepared[i]
     /\ Takeable(s, c, "task_create")
     /\ Save(i, [Taken(s, c) EXCEPT
                   !.balance = @ - conf.amount,
                   !.tasks = Extended(@, conf.task, [is_open |-> TRUE, amount |-> conf.amount])])
     /\ Settled(c)
SubmitTask(i, c) ==
  LET s == memory[i]
      conf == s.pending[c]
  IN /\ s # Closed
     /\ c \in prepared[i]
     /\ Takeable(s, c, "task_create")
     /\ s.balance >= conf.amount
     /\ Save(i, [Taken(s, c) EXCEPT
                   !.balance = @ - conf.amount,
                   !.tasks = Extended(@, conf.task, [is_open |-> TRUE, amount |-> conf.amount])])
     /\ Settled(c)

\* submit_refund.  Whether the task is still open is not looked at again.
\* Mutated form: the task stays open.
SubmitRefundLeavesOpen(i, c) ==
  LET s == memory[i]
      conf == s.pending[c]
  IN /\ s # Closed
     /\ c \in prepared[i]
     /\ Takeable(s, c, "task_refund")
     /\ Save(i, [Taken(s, c) EXCEPT !.balance = @ + conf.amount])
     /\ Settled(c)
SubmitRefund(i, c) ==
  LET s == memory[i]
      conf == s.pending[c]
  IN /\ s # Closed
     /\ c \in prepared[i]
     /\ Takeable(s, c, "task_refund")
     /\ Save(i, [Taken(s, c) EXCEPT
                   !.balance = @ + conf.amount,
                   !.tasks[conf.task].is_open = FALSE])
     /\ Settled(c)

\* submit_task, submit_refund: the confirmation may not be used any more, or
\* there are not the funds, in which case it is given back as it was and nothing
\* is saved.  A front end then ends.
\* Mutated form: it is saved as taken before the funds are looked at.
SubmitRefusedTaken(i, c) ==
  LET s == memory[i]
      conf == s.pending[c]
  IN /\ s # Closed
     /\ c \in prepared[i]
     /\ \A use \in told : use.conf # c
     /\ ~Takeable(s, c, conf.kind) \/ (conf.kind = "task_create" /\ s.balance < conf.amount)
     /\ file' = Taken(s, c)
     /\ memory' = [memory EXCEPT ![i] = Closed]
     /\ prepared' = [prepared EXCEPT ![i] = {}]
     /\ Answered(c, "failed")
SubmitRefused(i, c) ==
  LET s == memory[i]
      conf == s.pending[c]
  IN /\ s # Closed
     /\ c \in prepared[i]
     /\ \A use \in told : use.conf # c
     /\ ~Takeable(s, c, conf.kind) \/ (conf.kind = "task_create" /\ s.balance < conf.amount)
     /\ memory' = [memory EXCEPT ![i] = Closed]
     /\ prepared' = [prepared EXCEPT ![i] = {}]
     /\ Answered(c, "failed")
     /\ UNCHANGED file

Tick ==
  /\ now < MaxNow
  /\ now' = now + 1
  /\ UNCHANGED <<file, memory, prepared, issued, told>>

Next ==
  \/ \E i \in Invocations :
       \/ Open(i)
       \/ End(i)
       \/ \E amount \in Amounts : PrepareTask(i, amount)
       \/ \E t \in Ids : PrepareRefund(i, t)
       \/ \E c \in Ids : SubmitTask(i, c) \/ SubmitRefund(i, c) \/ SubmitRefused(i, c)
  \/ Tick

Spec == Init /\ [][Next]_vars

(***************************************************************************)
(* Properties.                                                             *)
(***************************************************************************)

\* Money is neither made nor lost: the wallet and the open bounties of the file
\* together hold what the wallet held at first.
Conserved ==
  LET inEscrow == {t \in DOMAIN file.tasks : file.tasks[t].is_open}
  IN file.balance + MapThenSumSet(LAMBDA t : file.tasks[t].amount, inEscrow) = Balance

\* A confirmation is used once, and before it expires; one whose submit was
\* refused is never used.
UsedOnceInTime ==
  \A use \in told :
    /\ \A other \in told : other.conf = use.conf => other = use
    /\ use.word = "submitted" /\ use.conf \in DOMAIN file.pending =>
         /\ use.at < file.pending[use.conf].expires
         /\ file.pending[use.conf].consumed

\* mock.py: "State can be persisted to a JSON file so CLI invocations share it."
\* What a caller was told has been submitted is in the file they share, and in
\* what every later invocation reads.
SettledIsKept ==
  \A use \in {u \in told : u.word = "submitted"} :
    /\ use.conf \in DOMAIN file.pending
    /\ file.pending[use.conf].consumed
    /\ file.pending[use.conf].kind = "task_create" => use.conf \in DOMAIN file.tasks
    /\ file.pending[use.conf].kind = "task_refund" => ~file.tasks[file.pending[use.conf].task].is_open

Word(c) ==
  IF \E use \in told : use.conf = c THEN (CHOOSE use \in told : use.conf = c).word ELSE "nothing"

FateOf(c) ==
  CASE c \in DOMAIN file.pending /\ file.pending[c].consumed -> "applied"
    [] Word(c) = "failed" -> "doomed"
    [] OTHER -> "unsent"

Promise == INSTANCE Submission WITH
  Confirmations <- Ids,
  fate <- [c \in Ids |-> FateOf(c)],
  told <- [c \in Ids |-> Word(c)]

\* The mock submits as adapters/base.py promises, so that what is tried out on it
\* holds of the other backend: a confirmation that expired or found no funds is
\* refused for good and has moved nothing, in the file too.
MockKeepsWord == Promise!Spec
=============================================================================
