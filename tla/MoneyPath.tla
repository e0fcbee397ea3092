------------------------------ MODULE MoneyPath ------------------------------
(***************************************************************************)
(* The life of one Task Contract's money: service.py's MoneySession,       *)
(* refresh, reconcile and resolve_uncertain, run by several front-end      *)
(* invocations (hf commands, MCP tool calls) over one SQLite row and the   *)
(* Gibwork backends.  Contracts share no state, so one is enough.          *)
(*                                                                         *)
(* A step ends wherever another actor can see a difference: a save of the  *)
(* row, a read of the row kept for later, a request leaving for the        *)
(* backend, the backend acting on it.  Every invocation works on the copy  *)
(* it read when it started and saves that copy whole (store/sqlite.py has  *)
(* no version check).                                                      *)
(***************************************************************************)
EXTENDS Contract, FiniteSets

CONSTANTS
  Procs,              \* front-end invocations that may overlap
  Adapters,           \* backends: "mock", "gibwork"
  Crashes,            \* may an invocation die while it awaits an answer?
  IndefiniteErrors    \* may a tool error come back for a submit that can
                      \* still take effect (network error, "already used")?

ASSUME MoneyPathAssumption ==
  /\ Crashes \in BOOLEAN
  /\ IndefiniteErrors \in BOOLEAN
  /\ "none" \notin Adapters

VARIABLES
  row,      \* the contract as the store holds it
  sess,     \* what each invocation is doing, and its copy of the contract
  prep,     \* what was fixed when each confirmation was prepared
  fate,     \* what has become of each confirmation at its backend
  task,     \* the bounties at the backends, by the confirmation creating them
  worked    \* the bounties that have submissions

store == <<row, sess>>
backend == <<prep, fate, task, worked>>
vars == <<row, sess, prep, fate, task, worked>>

Confirmation ==
  [ op : MoneyOperation, adapter : Adapters, task : Conf, origin : Status ]

Unprepared == [op |-> "none", adapter |-> "none", task |-> NoId, origin |-> "none"]

\* "doomed": will never take effect.  "inflight": left for the backend, which
\* has yet to act on it; a lost request stays inflight until it is doomed.
Fate == {"unused", "prepared", "inflight", "applied", "doomed"}

Dispatched == {"inflight", "applied", "doomed"}

TaskState == {"none", "open", "refunded", "paid"}

Over == {"refunded", "paid"}

PC == {"idle", "opened", "prepared", "waiting", "refreshing", "reconciling", "resolving"}

\* What get_task has answered.
Answer == [task : TaskState, worked : BOOLEAN]
NoAnswerYet == [task |-> "none", worked |-> FALSE]

Session ==
  [ pc : PC, op : MoneyOperation, via : Adapters \cup {"none"},
    copy : TaskContract, conf : Conf \cup {NoId}, seen : Answer ]

Idle == [pc |-> "idle", op |-> "task_create", via |-> "none",
         copy |-> NewContract("draft"), conf |-> NoId, seen |-> NoAnswerYet]

TypeOK ==
  /\ row \in TaskContract
  /\ sess \in [Procs -> Session]
  /\ prep \in [Conf -> Confirmation \cup {Unprepared}]
  /\ fate \in [Conf -> Fate]
  /\ task \in [Conf -> TaskState]
  /\ worked \in SUBSET Conf

\* The contract has just been created and saved.
Init ==
  /\ row \in {NewContract("ready"), NewContract("draft")}
  /\ sess = [p \in Procs |-> Idle]
  /\ prep = [c \in Conf |-> Unprepared]
  /\ fate = [c \in Conf |-> "unused"]
  /\ task = [c \in Conf |-> "none"]
  /\ worked = {}

(***************************************************************************)
(* Starting and ending an invocation.                                      *)
(***************************************************************************)

\* get_contract: p keeps a copy of the row.
Begin(p, pc, op, a) ==
  /\ sess[p].pc = "idle"
  /\ sess' = [sess EXCEPT ![p] = [pc |-> pc, op |-> op, via |-> a,
                                  copy |-> row, conf |-> NoId,
                                  seen |-> NoAnswerYet]]
  /\ UNCHANGED <<row, backend>>

\* save: the whole row becomes p's copy k, whatever the row held.
SaveAndEnd(p, k) ==
  /\ row' = k
  /\ sess' = [sess EXCEPT ![p] = Idle]

End(p) ==
  /\ sess' = [sess EXCEPT ![p] = Idle]
  /\ UNCHANGED row

\* The invocation stops with nothing dispatched and nothing saved: the adapter
\* failed to open, prepare or read; the task was not found; a dry run, MCP's
\* delegate_prepare or a declined prompt closed the session; or it was killed.
Abandon(p) ==
  /\ sess[p].pc \notin {"idle", "waiting"}
  /\ End(p)
  /\ UNCHANGED backend

(***************************************************************************)
(* Opening a money session.                                                *)
(***************************************************************************)
MayDelegate(k) == ~Locked(k) /\ k.status \in DELEGATABLE

OpenDelegation(p, a) ==
  /\ MayDelegate(row)
  /\ Begin(p, "opened", "task_create", a)

OpenRefund(p, a) ==
  /\ ~Locked(row)
  /\ row.status \in REFUNDABLE
  /\ row.delegation # NoId
  /\ prep[row.delegation].adapter = a
  /\ Begin(p, "opened", "task_refund", a)

(***************************************************************************)
(* MoneySession.prepare: the backend issues a confirmation, an attempt is  *)
(* appended to p's copy, the copy is saved.  A backend prepares a refund   *)
(* only of a task that is open there.                                      *)
(***************************************************************************)
NextConf(c) ==
  /\ fate[c] = "unused"
  /\ \A d \in Conf : d < c => fate[d] # "unused"

\* prepare gives the quote it has, if it has one.
\* Mutated form: it asks for a fresh one.
MayPrepareAgain(s) == s.pc \in {"opened", "prepared"}
MayPrepare(s) == s.pc = "opened"

\* Mutated form: the attempt is kept in memory until the submit is over.
PrepareUnsaved(p) ==
  /\ sess[p].pc = "opened"
  /\ \E c \in Conf :
       LET s == sess[p]
           t == IF s.op = "task_create" THEN c ELSE s.copy.delegation
           k == RecordPrepared(s.copy, c)
       IN /\ NextConf(c)
          /\ s.op = "task_refund" => task[t] = "open"
          /\ prep' = [prep EXCEPT ![c] = [op |-> s.op, adapter |-> s.via,
                                          task |-> t, origin |-> s.copy.status]]
          /\ fate' = [fate EXCEPT ![c] = "prepared"]
          /\ sess' = [sess EXCEPT ![p].pc = "prepared", ![p].copy = k, ![p].conf = c]
  /\ UNCHANGED <<row, task, worked>>
Prepare(p) ==
  /\ MayPrepare(sess[p])
  /\ \E c \in Conf :
       LET s == sess[p]
           t == IF s.op = "task_create" THEN c ELSE s.copy.delegation
           k == RecordPrepared(s.copy, c)
       IN /\ NextConf(c)
          /\ s.op = "task_refund" => task[t] = "open"
          /\ prep' = [prep EXCEPT ![c] = [op |-> s.op, adapter |-> s.via,
                                          task |-> t, origin |-> s.copy.status]]
          /\ fate' = [fate EXCEPT ![c] = "prepared"]
          /\ row' = k
          /\ sess' = [sess EXCEPT ![p].pc = "prepared", ![p].copy = k, ![p].conf = c]
  /\ UNCHANGED <<task, worked>>

(***************************************************************************)
(* MoneySession.submit, after a person approved the quote.                 *)
(***************************************************************************)

\* The request leaves for the backend.  The row is not touched yet.
Dispatch(p) ==
  /\ sess[p].pc = "prepared"
  /\ fate' = [fate EXCEPT ![sess[p].conf] = "inflight"]
  /\ sess' = [sess EXCEPT ![p].pc = "waiting"]
  /\ UNCHANGED <<row, prep, task, worked>>

\* An AdapterError before anything left: expired, consumed, not enough funds,
\* a dead connection.
SubmitRefused(p) ==
  /\ sess[p].pc = "prepared"
  /\ fate' = [fate EXCEPT ![sess[p].conf] = "doomed"]
  /\ SaveAndEnd(p, RecordFailed(sess[p].copy, sess[p].conf))
  /\ UNCHANGED <<prep, task, worked>>

\* The operation took effect and the answer says so.
AnswerOk(p) ==
  LET s == sess[p]
      c == s.conf
  IN /\ s.pc = "waiting"
     /\ fate[c] = "applied"
     /\ \/ /\ s.op = "task_create"
           /\ CanTransitionTo(s.copy, "delegated")
           /\ SaveAndEnd(p, RecordDelegated(s.copy, c, prep[c].task, "submitted"))
        \/ /\ s.op = "task_refund"
           /\ CanTransitionTo(s.copy, "closed")
           /\ SaveAndEnd(p, RecordRefunded(s.copy, c, "submitted"))
     /\ UNCHANGED backend

\* The answer is a tool error, which translate_error maps to some AdapterError
\* other than AmbiguousSubmit whatever its code.
AnswerError(p) ==
  /\ sess[p].pc = "waiting"
  /\ fate[sess[p].conf] = "doomed" \/ IndefiniteErrors
  /\ SaveAndEnd(p, RecordFailed(sess[p].copy, sess[p].conf))
  /\ UNCHANGED backend

\* No answer (timeout, server exit, broken pipe) or a protocol error: the
\* adapter raises AmbiguousSubmit.
\* Mutated form: a timeout is recorded as a plain failure.
NoAnswerFailed(p) ==
  /\ sess[p].pc = "waiting"
  /\ SaveAndEnd(p, RecordFailed(sess[p].copy, sess[p].conf))
  /\ UNCHANGED backend
NoAnswer(p) ==
  /\ sess[p].pc = "waiting"
  /\ CanTransitionTo(sess[p].copy, "submit_uncertain")
  /\ SaveAndEnd(p, RecordAmbiguous(sess[p].copy, sess[p].conf))
  /\ UNCHANGED backend

\* The invocation dies between dispatch and save: killed, Ctrl-C, or an
\* exception that is no AdapterError (a reply that fails validation, a save
\* that fails).
CrashWaiting(p) ==
  /\ Crashes
  /\ sess[p].pc = "waiting"
  /\ End(p)
  /\ UNCHANGED backend

(***************************************************************************)
(* refresh and reconcile: read the row, ask the backend for the bounty,    *)
(* close the adapter, save.  The answer may be stale by then.  No bounty,  *)
(* or for reconcile none that settles the attempt, ends in Abandon.        *)
(***************************************************************************)
MayRefresh(k) == k.delegation # NoId

RefreshRead(p, a) ==
  /\ MayRefresh(row)
  /\ Begin(p, "refreshing", "task_create", a)

MayReconcile(k, a) ==
  /\ Locked(k)
  /\ UncertainAttempt(k) # NoId
  /\ prep[UncertainAttempt(k)].adapter = a

ReconcileRead(p, a) ==
  /\ MayReconcile(row, a)
  /\ Begin(p, "reconciling", prep[UncertainAttempt(row)].op, a)

\* The bounty an invocation asks for.
Asked(s, confs) ==
  IF s.pc = "refreshing" THEN s.copy.delegation
  ELSE confs[UncertainAttempt(s.copy)].task

GetTask(p) ==
  LET t == Asked(sess[p], prep)
  IN /\ sess[p].pc \in {"refreshing", "reconciling"}
     /\ sess[p].seen = NoAnswerYet
     /\ task[t] # "none"
     /\ prep[t].adapter = sess[p].via
     /\ sess' = [sess EXCEPT ![p].seen = [task |-> task[t], worked |-> t \in worked]]
     /\ UNCHANGED <<row, backend>>

RefreshSave(p) ==
  LET s == sess[p]
  IN /\ s.pc = "refreshing"
     /\ s.seen # NoAnswerYet
     /\ SaveAndEnd(p, RecordRemote(s.copy, s.seen.task = "open", s.seen.worked))
     /\ UNCHANGED backend

\* Mutated form: a refund is confirmed by any task, open or not.
ReconcileSaveOpenTask(p) ==
  LET s == sess[p]
      c == UncertainAttempt(s.copy)
  IN /\ s.pc = "reconciling"
     /\ s.seen # NoAnswerYet
     /\ SaveAndEnd(p, IF prep[c].op = "task_create"
                      THEN RecordDelegated(s.copy, c, prep[c].task, "reconciled_confirmed")
                      ELSE RecordRefunded(s.copy, c, "reconciled_confirmed"))
     /\ UNCHANGED backend
ReconcileSave(p) ==
  LET s == sess[p]
      c == UncertainAttempt(s.copy)
  IN /\ s.pc = "reconciling"
     /\ \/ /\ prep[c].op = "task_create"
           /\ s.seen # NoAnswerYet
           /\ CanTransitionTo(s.copy, "delegated")
           /\ SaveAndEnd(p, RecordDelegated(s.copy, c, prep[c].task, "reconciled_confirmed"))
        \/ /\ prep[c].op = "task_refund"
           /\ s.seen.task \in Over
           /\ CanTransitionTo(s.copy, "closed")
           /\ SaveAndEnd(p, RecordRefunded(s.copy, c, "reconciled_confirmed"))
     /\ UNCHANGED backend

(***************************************************************************)
(* resolve_uncertain.  The person has verified what they assert: the       *)
(* uncertain attempt did not and will not take effect.                     *)
(***************************************************************************)
MayResolve(k, op) ==
  /\ Locked(k)
  /\ UncertainAttempt(k) # NoId
  /\ prep[UncertainAttempt(k)].op = op

ResolveRead(p, op) ==
  /\ MayResolve(row, op)
  /\ fate[UncertainAttempt(row)] = "doomed"
  /\ Begin(p, "resolving", op, "none")

ResolveSave(p) ==
  LET k == sess[p].copy
      c == UncertainAttempt(k)
  IN /\ sess[p].pc = "resolving"
     /\ CanTransitionTo(k, prep[c].origin)
     /\ SaveAndEnd(p, RecordNotFound(k, c, prep[c].origin))
     /\ UNCHANGED backend

(***************************************************************************)
(* The backends and the people at them.                                    *)
(***************************************************************************)

\* A submit reaches the backend and takes effect, at most once, whether or
\* not anyone still waits for it.
Apply(c) ==
  /\ fate[c] = "inflight"
  /\ \/ /\ prep[c].op = "task_create"
        /\ task' = [task EXCEPT ![prep[c].task] = "open"]
     \/ /\ prep[c].op = "task_refund"
        /\ task[prep[c].task] = "open"
        /\ task' = [task EXCEPT ![prep[c].task] = "refunded"]
  /\ fate' = [fate EXCEPT ![c] = "applied"]
  /\ UNCHANGED <<store, prep, worked>>

\* A submit is refused by the backend, or lost on the way.
Doom(c) ==
  /\ fate[c] = "inflight"
  /\ fate' = [fate EXCEPT ![c] = "doomed"]
  /\ UNCHANGED <<store, prep, task, worked>>

\* A worker hands in a submission.
HandIn(t) ==
  /\ task[t] = "open"
  /\ worked' = worked \cup {t}
  /\ UNCHANGED <<store, prep, fate, task>>

\* The bounty is paid out at the backend, where submissions are approved.
PayOut(t) ==
  /\ task[t] = "open"
  /\ t \in worked
  /\ task' = [task EXCEPT ![t] = "paid"]
  /\ UNCHANGED <<store, prep, fate, worked>>

ProcStep(p) ==
  \/ \E a \in Adapters :
       \/ OpenDelegation(p, a)
       \/ OpenRefund(p, a)
       \/ RefreshRead(p, a)
       \/ ReconcileRead(p, a)
  \/ \E op \in MoneyOperation : ResolveRead(p, op)
  \/ Abandon(p)
  \/ Prepare(p)
  \/ Dispatch(p)
  \/ SubmitRefused(p)
  \/ AnswerOk(p)
  \/ AnswerError(p)
  \/ NoAnswer(p)
  \/ CrashWaiting(p)
  \/ GetTask(p)
  \/ RefreshSave(p)
  \/ ReconcileSave(p)
  \/ ResolveSave(p)

BackendStep(c) == Apply(c) \/ Doom(c) \/ HandIn(c) \/ PayOut(c)

Next ==
  \/ \E p \in Procs : ProcStep(p)
  \/ \E c \in Conf : BackendStep(c)

Spec == Init /\ [][Next]_vars

(***************************************************************************)
(* Fairness, for the liveness properties.  A backend sooner or later acts  *)
(* on a submit or has lost it.  An invocation that awaits an answer gets   *)
(* one or times out (mcp_client.py's per-line timeout).  A person whose    *)
(* contract is locked keeps coming back, as every CONTRACT_LOCKED refusal  *)
(* tells them to: reconcile and resolve are tried again and again and not  *)
(* cut short every single time.                                            *)
(***************************************************************************)
Answered(p) == AnswerOk(p) \/ AnswerError(p) \/ NoAnswer(p)

Fairness ==
  /\ \A c \in Conf : WF_vars(Apply(c) \/ Doom(c))
  /\ \A p \in Procs :
       /\ WF_vars(Answered(p))
       /\ WF_vars(RefreshSave(p) \/ ReconcileSave(p) \/ ResolveSave(p) \/ Abandon(p))
       /\ \A a \in Adapters : SF_vars(ReconcileRead(p, a))
       /\ SF_vars(sess[p].pc = "reconciling" /\ GetTask(p))
       /\ SF_vars(ReconcileSave(p))
       /\ \A op \in MoneyOperation : SF_vars(ResolveRead(p, op))
       /\ SF_vars(ResolveSave(p))

FairSpec == Spec /\ Fairness

(***************************************************************************)
(* Safety that holds however invocations overlap and wherever they die.    *)
(***************************************************************************)
\* The row, and every copy an invocation may yet save over it, is consistent
\* with itself, although saves overwrite one another.
RowCoherent == Coherent(row, prep) /\ \A p \in Procs : Coherent(sess[p].copy, prep)

\* What a copy of the contract says of the backend is so: a confirmed create
\* has its bounty, a refund recorded as submitted took effect, a refund that
\* reconcile confirmed is of a bounty no longer open, an attempt resolved as
\* not found never took and never will take effect, an ambiguous one was
\* dispatched, and a bounty last seen closed is closed.
TruthfulCopy(k, confs, fates, tasks) ==
  /\ \A c \in Conf :
       /\ k.attempts[c] = "submitted" => fates[c] = "applied"
       /\ k.attempts[c] = "reconciled_confirmed" =>
            IF confs[c].op = "task_create" THEN fates[c] = "applied"
            ELSE tasks[confs[c].task] \in Over
       /\ k.attempts[c] = "reconciled_not_found" => fates[c] = "doomed"
       /\ k.attempts[c] = "ambiguous" => fates[c] \in Dispatched
  /\ k.delegation # NoId => tasks[k.delegation] # "none"
  /\ k.remote = "closed" => k.delegation # NoId /\ tasks[k.delegation] \in Over

Truthful ==
  /\ TruthfulCopy(row, prep, fate, task)
  /\ \A p \in Procs : TruthfulCopy(sess[p].copy, prep, fate, task)

\* models/contract.py: a FAILED attempt was rejected, it is safe to retry.
FailedIsSafe ==
  \A c \in Conf : row.attempts[c] = "failed" => fate[c] = "doomed"

\* transition_to never raises while an answer is being recorded, which would
\* skip the save after money may have moved, nor when a lock is to be cleared.
TransitionsAllowed ==
  \A p \in Procs :
    LET s == sess[p]
    IN /\ s.pc = "waiting" =>
            {"submit_uncertain", IF s.op = "task_create" THEN "delegated" ELSE "closed"}
              \subseteq TRANSITIONS[s.copy.status]
       /\ s.pc \in {"reconciling", "resolving"} =>
            /\ UncertainAttempt(s.copy) # NoId
            /\ {"delegated", "closed", prep[UncertainAttempt(s.copy)].origin}
                 \subseteq TRANSITIONS[s.copy.status]

(***************************************************************************)
(* Safety that needs invocations on one contract not to overlap: LockHeld, *)
(* LedgerKept, AuditComplete; the others also need them not to die while   *)
(* they wait (one process, Crashes = FALSE).                               *)
(***************************************************************************)

\* The write-ahead record: whatever was handed to a backend is named in the
\* stored ledger, though the invocation died before it learned the outcome.
AuditComplete ==
  \A c \in Conf : fate[c] \in Dispatched => row.attempts[c] # "absent"

Live(c) == fate[c] \in {"inflight", "applied"}

\* README: the bounty is funded once.  No two task_create confirmations of the
\* contract have taken effect or still may.
FundedOnce ==
  \A c, d \in Conf :
    Live(c) /\ Live(d) /\ prep[c].op = "task_create" /\ prep[d].op = "task_create" => c = d

\* Nor do two refunds: a retry needs the first one known to have failed.
RefundAskedOnce ==
  \A c, d \in Conf :
    Live(c) /\ Live(d) /\ prep[c].op = "task_refund" /\ prep[d].op = "task_refund" => c = d

\* README: if a submit is dispatched and the outcome is unknown, the contract
\* enters submit_uncertain.  Whatever took or may take effect is awaited, or
\* locks the row, or is on record there.
NothingForgotten ==
  \A c \in Conf : Live(c) =>
    \/ \E p \in Procs : sess[p].pc = "waiting" /\ sess[p].conf = c
    \/ Locked(row) /\ UncertainAttempt(row) = c
    \/ row.attempts[c] \in Confirmed

\* README, TRANSITIONS' comment: SUBMIT_UNCERTAIN is left only through
\* reconciliation or an explicit manual resolution.
LockHeld ==
  [][Locked(row) /\ ~Locked(row') =>
       \E p \in Procs : sess[p].pc \in {"reconciling", "resolving"}]_vars

\* The row's audit trail: an attempt is never dropped, and its outcome only
\* moves on from prepared, once, or through ambiguous.
Settles ==
  [ absent |-> AttemptOutcome, prepared |-> AttemptOutcome,
    ambiguous |-> {"reconciled_confirmed", "reconciled_not_found"},
    submitted |-> {}, failed |-> {},
    reconciled_confirmed |-> {}, reconciled_not_found |-> {} ]

LedgerKept ==
  [][\A c \in Conf : row'.attempts[c] \in {row.attempts[c]} \cup Settles[row.attempts[c]]]_vars

(***************************************************************************)
(* The promise of the money path, Escrow, read off the detailed state.     *)
(***************************************************************************)
Bounties == {task[t] : t \in Conf} \ {"none"}

Pending ==
  {sess[p].op : p \in {q \in Procs : sess[q].pc = "waiting"}}
    \cup IF Locked(row) THEN {prep[UncertainAttempt(row)].op} ELSE {}

Promise == INSTANCE Escrow WITH
  money   <- IF Bounties = {} THEN "wallet" ELSE CHOOSE b \in Bounties : TRUE,
  pending <- IF Pending = {} THEN "none" ELSE CHOOSE op \in Pending : TRUE,
  record  <- CASE row.refund # NoId -> "closed"
               [] row.refund = NoId /\ row.delegation # NoId -> "funded"
               [] OTHER -> "unfunded"

\* Taken one at a time, invocations treat the money as Escrow promises.
KeepsPromise == Promise!Spec

(***************************************************************************)
(* Liveness, under FairSpec.                                               *)
(***************************************************************************)

\* A lock does not stay for ever.
LockClears == Locked(row) ~> ~Locked(row)

\* Money that moved is on record in the end.
MovedIsRecorded ==
  \A c \in Conf : fate[c] = "applied" ~> row.attempts[c] \in Confirmed
=============================================================================
