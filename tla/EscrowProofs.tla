----------------------------- MODULE EscrowProofs -----------------------------
(***************************************************************************)
(* MoneyPath implements Escrow: run one at a time, never killed while they *)
(* wait and with definite tool errors, the invocations of service.py treat *)
(* the money of a contract as the abstract specification promises.         *)
(*                                                                         *)
(* The refinement mapping of Promise chooses the state of the one bounty   *)
(* and the one operation pending.  The invariant FInv of SerialProofs is   *)
(* what makes them one: a second bounty or a second pending operation      *)
(* would be an operation that the row forgot.  RefundedBy is the converse  *)
(* of BackendOK's last clause, for the step that forgets a refund.         *)
(***************************************************************************)
EXTENDS SerialProofs

\* A bounty is refunded only by a refund of it that took effect.
RefundedBy ==
  \A t \in Conf : task[t] = "refunded" =>
    \E d \in Conf : fate[d] = "applied" /\ prep[d].op = "task_refund" /\ prep[d].task = t

\* The inductive invariant.
EInv == FInv /\ RefundedBy

(***************************************************************************)
(* The refinement mapping, and the same as a function of the state it      *)
(* reads, so that a lemma about it speaks of the next state too.           *)
(***************************************************************************)
moneyBar == IF Bounties = {} THEN "wallet" ELSE CHOOSE b \in Bounties : TRUE

pendingBar == IF Pending = {} THEN "none" ELSE CHOOSE op \in Pending : TRUE

recordBar ==
  CASE row.refund # NoId -> "closed"
    [] row.refund = NoId /\ row.delegation # NoId -> "funded"
    [] OTHER -> "unfunded"

MoneyOf(tasks) ==
  LET states == {tasks[t] : t \in Conf} \ {"none"}
  IN IF states = {} THEN "wallet" ELSE CHOOSE b \in states : TRUE

PendingOf(sessions, k, confs) ==
  LET ops == {sessions[p].op : p \in {q \in Procs : sessions[q].pc = "waiting"}}
               \cup IF Locked(k) THEN {confs[UncertainAttempt(k)].op} ELSE {}
  IN IF ops = {} THEN "none" ELSE CHOOSE op \in ops : TRUE

RecordOf(k) ==
  CASE k.refund # NoId -> "closed"
    [] k.refund = NoId /\ k.delegation # NoId -> "funded"
    [] OTHER -> "unfunded"

\* The mapping of this state and of the next.
LEMMA Bars ==
  /\ moneyBar = MoneyOf(task) /\ moneyBar' = MoneyOf(task')
  /\ pendingBar = PendingOf(sess, row, prep) /\ pendingBar' = PendingOf(sess', row', prep')
  /\ recordBar = RecordOf(row) /\ recordBar' = RecordOf(row')
BY DEF moneyBar, MoneyOf, Bounties, pendingBar, PendingOf, Pending, recordBar, RecordOf, Locked,
       UncertainAttempt, Ambiguous

\* The money is where the only bounty is.
LEMMA MoneyIs ==
  ASSUME NEW tasks, NEW t \in Conf, tasks[t] # "none", \A u \in Conf \ {t} : tasks[u] = "none"
  PROVE  MoneyOf(tasks) = tasks[t]
<1>1. {tasks[u] : u \in Conf} \ {"none"} = {tasks[t]}
  OBVIOUS
<1>. QED
  BY <1>1 DEF MoneyOf

\* It is in the wallet if there is no bounty.
LEMMA MoneyUnmoved ==
  ASSUME NEW tasks, \A u \in Conf : tasks[u] = "none"
  PROVE  MoneyOf(tasks) = "wallet"
BY DEF MoneyOf

\* The pending operation is the one that is awaited.
LEMMA PendingWaits ==
  ASSUME OneAtATime, NEW ss, NEW k, NEW confs, NEW p \in Procs, ss[p].pc = "waiting", ~Locked(k)
  PROVE  PendingOf(ss, k, confs) = ss[p].op
<1>1. {ss[q].op : q \in {r \in Procs : ss[r].pc = "waiting"}} = {ss[p].op}
  BY DEF OneAtATime
<1>. QED
  BY <1>1 DEF PendingOf

\* With nothing awaited it is the one that locks the contract.
LEMMA PendingLocks ==
  ASSUME NEW ss, NEW k, NEW confs, \A p \in Procs : ss[p].pc # "waiting", Locked(k)
  PROVE  PendingOf(ss, k, confs) = confs[UncertainAttempt(k)].op
BY DEF PendingOf

\* With nothing awaited and no lock there is none.
LEMMA PendingNone ==
  ASSUME NEW ss, NEW k, NEW confs, \A p \in Procs : ss[p].pc # "waiting", ~Locked(k)
  PROVE  PendingOf(ss, k, confs) = "none"
BY DEF PendingOf

(***************************************************************************)
(* The abstract steps, in terms of the mapping.                            *)
(***************************************************************************)
\* An operation is submitted.
LEMMA MapSubmit ==
  ASSUME NEW op \in {"task_create", "task_refund"}, pendingBar = "none",
         recordBar = IF op = "task_create" THEN "unfunded" ELSE "funded",
         op = "task_create" => moneyBar = "wallet",
         pendingBar' = op, moneyBar' = moneyBar, recordBar' = recordBar
  PROVE  Promise!Next
BY DEF Promise!Next, Promise!Submit, moneyBar, pendingBar, recordBar

\* The pending operation takes effect.
LEMMA MapTakeEffect ==
  ASSUME \/ pendingBar = "task_create" /\ moneyBar = "wallet" /\ moneyBar' = "open"
         \/ pendingBar = "task_refund" /\ moneyBar = "open" /\ moneyBar' = "refunded",
         pendingBar' = pendingBar, recordBar' = recordBar
  PROVE  Promise!Next
BY DEF Promise!Next, Promise!TakeEffect, moneyBar, pendingBar, recordBar

\* The pending operation is learned to have taken effect.
LEMMA MapLearn ==
  ASSUME \/ pendingBar = "task_create" /\ moneyBar # "wallet" /\ recordBar' = "funded"
         \/ pendingBar = "task_refund" /\ moneyBar \in {"refunded", "paid"} /\ recordBar' = "closed",
         pendingBar' = "none", moneyBar' = moneyBar
  PROVE  Promise!Next
BY DEF Promise!Next, Promise!Learn, moneyBar, pendingBar, recordBar

\* The pending operation is forgotten, not having moved the money.
LEMMA MapForget ==
  ASSUME \/ pendingBar = "task_create" /\ moneyBar = "wallet"
         \/ pendingBar = "task_refund" /\ moneyBar # "refunded",
         pendingBar' = "none", moneyBar' = moneyBar, recordBar' = recordBar
  PROVE  Promise!Next
BY DEF Promise!Next, Promise!Forget, moneyBar, pendingBar, recordBar

\* A worker is paid.
LEMMA MapPayOut ==
  ASSUME moneyBar = "open", moneyBar' = "paid", pendingBar' = pendingBar, recordBar' = recordBar
  PROVE  Promise!Next
BY DEF Promise!Next, Promise!PayOut, moneyBar, pendingBar, recordBar

\* Nothing that the promise speaks of changes.
LEMMA MapStutter ==
  ASSUME moneyBar' = moneyBar, pendingBar' = pendingBar, recordBar' = recordBar
  PROVE  UNCHANGED Promise!vars
BY DEF Promise!vars, moneyBar, pendingBar, recordBar

\* A bounty is live as the task_create that made it, and it is the only one.
LEMMA OneBounty ==
  ASSUME FInv, OneAtATime, NEW t \in Conf, task[t] # "none"
  PROVE  /\ Live(t) /\ fate[t] = "applied"
         /\ prep[t].op = "task_create" /\ prep[t].task = t
         /\ \A u \in Conf \ {t} : task[u] = "none"
<1>1. \A u \in Conf : task[u] # "none" =>
        Live(u) /\ fate[u] = "applied" /\ prep[u].op = "task_create" /\ prep[u].task = u
  BY DEF FInv, SInv, IInv, BackendOK, Live
<1>. QED
  BY <1>1, OneOfAKind

(***************************************************************************)
(* What is known of the money when the row has no bounty, or no refund.    *)
(***************************************************************************)
\* What is pending has not taken effect.
PendingUnapplied ==
  /\ \A p \in Procs : sess[p].pc = "waiting" => fate[sess[p].conf] # "applied"
  /\ Locked(row) => fate[UncertainAttempt(row)] # "applied"

\* Then a bounty that exists is one the row names.
LEMMA NoBounty ==
  ASSUME FInv, OneAtATime, PendingUnapplied, row.delegation = NoId
  PROVE  moneyBar = "wallet"
<1>1. ASSUME NEW t \in Conf, task[t] # "none"
      PROVE  FALSE
  <2>1. Live(t) /\ fate[t] = "applied" /\ prep[t].op = "task_create" /\ t # NoId
    BY <1>1, OneBounty, MaxPreparesAssumption DEF Conf, NoId
  <2>. QED
    BY <2>1, LiveIs DEF PendingUnapplied
<1>. QED
  BY <1>1, MoneyUnmoved, Bars

\* So is a refund that has happened.
LEMMA NoRefund ==
  ASSUME EInv, OneAtATime, PendingUnapplied, row.refund = NoId
  PROVE  moneyBar # "refunded"
<1>0. FInv
  BY DEF EInv
<1>1. ASSUME NEW t \in Conf, task[t] = "refunded"
      PROVE  FALSE
  <2>1. PICK d \in Conf : fate[d] = "applied" /\ prep[d].op = "task_refund"
    BY <1>1 DEF EInv, RefundedBy
  <2>2. Live(d) /\ d # NoId
    BY <2>1, MaxPreparesAssumption DEF Live, Conf, NoId
  <2>. QED
    BY <1>0, <2>1, <2>2, LiveIs DEF PendingUnapplied
<1>2. CASE \A u \in Conf : task[u] = "none"
  BY <1>2, MoneyUnmoved, Bars
<1>3. ASSUME NEW t \in Conf, task[t] # "none"
      PROVE  moneyBar # "refunded"
  BY <1>0, <1>1, <1>3, OneBounty, MoneyIs, Bars
<1>. QED
  BY <1>2, <1>3

\* A bounty that exists is where the money is.
LEMMA MoneyAt ==
  ASSUME FInv, OneAtATime, NEW t \in Conf, task[t] # "none"
  PROVE  moneyBar = task[t]
BY OneBounty, MoneyIs, Bars

\* The pending operation, told by what p is doing.
LEMMA PendingNow ==
  ASSUME SInv, OneAtATime, NEW p \in Procs
  PROVE  /\ sess[p].pc = "waiting" => pendingBar = sess[p].op
         /\ sess[p].pc \in {"opened", "prepared"} => pendingBar = "none"
         /\ sess[p].pc \in {"reconciling", "resolving"} =>
              pendingBar = prep[UncertainAttempt(row)].op
<1>1. CASE sess[p].pc = "waiting"
  BY <1>1, OpenUnlocked, PendingWaits, Bars
<1>2. CASE sess[p].pc \in {"opened", "prepared"}
  <2>1. ~Locked(row) /\ \A q \in Procs : sess[q].pc # "waiting"
    BY <1>2, OpenUnlocked DEF OneAtATime
  <2>. QED
    BY <1>2, <2>1, PendingNone, Bars
<1>3. CASE sess[p].pc \in {"reconciling", "resolving"}
  <2>1. Locked(row) /\ \A q \in Procs : sess[q].pc # "waiting"
    BY <1>3, Sees DEF OneAtATime, SessionOK
  <2>. QED
    BY <1>3, <2>1, PendingLocks, Bars
<1>. QED
  BY <1>1, <1>2, <1>3

\* Once p has saved k, nothing is awaited.
LEMMA SavedBars ==
  ASSUME SInv, OneAtATime, NEW p \in Procs, NEW k, SaveAndEnd(p, k), task' = task
  PROVE  /\ moneyBar' = moneyBar /\ recordBar' = RecordOf(k)
         /\ pendingBar' = IF Locked(k) THEN prep'[UncertainAttempt(k)].op ELSE "none"
<1>1. row' = k /\ sess' = [sess EXCEPT ![p] = Idle]
  BY DEF SaveAndEnd
<1>2. \A q \in Procs : sess'[q].pc # "waiting"
  BY <1>1 DEF OneAtATime, SInv, IInv, Idle
<1>. QED
  BY <1>1, <1>2, PendingNone, PendingLocks, Bars

(***************************************************************************)
(* One lemma per kind of action.                                           *)
(***************************************************************************)
\* A step of an invocation that waits neither before nor after, and leaves the
\* lock, the bounty and the refund of the row alone.
LEMMA QuietKeeps ==
  ASSUME NEW p \in Procs, OneAtATime, sess[p].pc # "waiting", sess'[p].pc # "waiting",
         task' = task, row'.delegation = row.delegation, row'.refund = row.refund,
         Locked(row') <=> Locked(row),
         Locked(row) => prep'[UncertainAttempt(row')].op = prep[UncertainAttempt(row)].op
  PROVE  UNCHANGED Promise!vars
<1>1. moneyBar' = moneyBar /\ recordBar' = recordBar
  BY Bars DEF RecordOf
<1>2. \A q \in Procs : sess[q].pc # "waiting" /\ sess'[q].pc # "waiting"
  BY DEF OneAtATime
<1>3. CASE Locked(row)
  BY <1>1, <1>2, <1>3, PendingLocks, Bars, MapStutter
<1>4. CASE ~Locked(row)
  BY <1>1, <1>2, <1>4, PendingNone, Bars, MapStutter
<1>. QED
  BY <1>3, <1>4

\* Reading, asking the backend and giving up say nothing new.
LEMMA ReadKeeps ==
  ASSUME SInv, OneAtATime, NEW p \in Procs,
         \/ \E a \in Adapters :
              \/ OpenDelegation(p, a) \/ OpenRefund(p, a)
              \/ RefreshRead(p, a) \/ ReconcileRead(p, a)
         \/ \E op \in MoneyOperation : ResolveRead(p, op)
         \/ Abandon(p) \/ GetTask(p)
  PROVE  UNCHANGED Promise!vars
<1>1. /\ sess[p].pc # "waiting" /\ sess'[p].pc # "waiting"
      /\ UNCHANGED <<row, task, prep>>
  <2>1. CASE Abandon(p)
    BY <2>1 DEF Abandon, End, Idle, backend, SInv, IInv
  <2>2. CASE GetTask(p)
    <3>1. sess[p] \in Session
      BY DEF SInv, IInv
    <3>. QED
      BY <2>2, <3>1 DEF GetTask, backend, SInv, IInv, Session
  <2>3. ASSUME NEW pc \in {"opened", "refreshing", "reconciling", "resolving"}, NEW op, NEW a,
               Begin(p, pc, op, a)
        PROVE  /\ sess[p].pc # "waiting" /\ sess'[p].pc # "waiting"
               /\ UNCHANGED <<row, task, prep>>
    BY <2>3 DEF Begin, backend, SInv, IInv
  <2>. QED
    BY <2>1, <2>2, <2>3 DEF OpenDelegation, MayDelegate, OpenRefund, RefreshRead, MayRefresh,
       ReconcileRead, MayReconcile, ResolveRead, MayResolve
<1>. QED
  BY <1>1, QuietKeeps

\* A confirmation is issued or refused: no submit yet, and none any more.
LEMMA QuoteKeeps ==
  ASSUME SInv, OneAtATime, NEW p \in Procs, Prepare(p) \/ SubmitRefused(p)
  PROVE  UNCHANGED Promise!vars
<1>0. sess[p].pc \in {"opened", "prepared"} /\ task' = task
  BY DEF Prepare, MayPrepare, SubmitRefused
<1>1. ~Locked(row) /\ sess[p].copy = row /\ row \in TaskContract /\ sess[p] \in Session
  BY <1>0, OpenUnlocked, Sees
<1>2. /\ sess'[p].pc # "waiting" /\ row'.status = row.status
      /\ row'.delegation = row.delegation /\ row'.refund = row.refund
  <2>1. CASE Prepare(p)
    <3>1. PICK c \in Conf :
            /\ row' = RecordPrepared(row, c)
            /\ sess' = [sess EXCEPT ![p].pc = "prepared", ![p].copy = RecordPrepared(row, c),
                                    ![p].conf = c]
      BY <1>1, <2>1 DEF Prepare, MayPrepare
    <3>2. sess'[p].pc = "prepared"
      BY <1>1, <3>1 DEF SInv, IInv, Session
    <3>. QED
      BY <1>1, <3>1, <3>2, PreparedLeaves
  <2>2. CASE SubmitRefused(p)
    <3>1. sess[p].conf \in Conf
      BY <2>2, HoldsConf DEF SubmitRefused, SInv
    <3>2. row' = RecordFailed(row, sess[p].conf) /\ sess' = [sess EXCEPT ![p] = Idle]
      BY <1>1, <2>2 DEF SubmitRefused, SaveAndEnd
    <3>. QED
      BY <1>1, <3>1, <3>2, FailedLeaves DEF SInv, IInv, Idle
  <2>. QED
    BY <2>1, <2>2
<1>. QED
  BY <1>0, <1>1, <1>2, QuietKeeps DEF Locked

\* refresh says what Escrow leaves open: whether the bounty is still there.
LEMMA RefreshKeeps ==
  ASSUME SInv, OneAtATime, NEW p \in Procs, RefreshSave(p)
  PROVE  UNCHANGED Promise!vars
<1>. DEFINE open == sess[p].seen.task = "open"
            has == sess[p].seen.worked
            k == RecordRemote(row, open, has)
<1>0. sess[p].pc = "refreshing" /\ task' = task /\ prep' = prep
  BY DEF RefreshSave, backend
<1>1. sess[p].copy = row /\ row \in TaskContract /\ sess[p] \in Session
  BY <1>0, Sees
<1>2. open \in BOOLEAN /\ has \in BOOLEAN
  BY <1>1 DEF Session, Answer
<1>3. row' = k /\ sess'[p] = Idle
  BY <1>1 DEF RefreshSave, SaveAndEnd, SInv, IInv
<1>. HIDE DEF open, has
<1>4. /\ k.attempts = row.attempts /\ (Locked(k) <=> Locked(row))
      /\ k.delegation = row.delegation /\ k.refund = row.refund
  BY <1>1, <1>2, RemoteEdit
<1>. HIDE DEF k
<1>5. UncertainAttempt(k) = UncertainAttempt(row)
  BY <1>4 DEF UncertainAttempt, Ambiguous
<1>. QED
  BY <1>0, <1>3, <1>4, <1>5, QuietKeeps DEF Idle

\* A dispatch is a submit of the promise: nothing is pending, and a bounty is
\* paid for only from the wallet.
LEMMA DispatchSubmits ==
  ASSUME EInv, OneAtATime, NEW p \in Procs, Dispatch(p)
  PROVE  Promise!Next
<1>. DEFINE op == sess[p].op
<1>0. FInv /\ SInv
  BY DEF EInv, FInv
<1>1. sess[p].pc = "prepared" /\ UNCHANGED <<row, task, prep>>
  BY DEF Dispatch
<1>2. /\ ~Locked(row) /\ sess[p] \in Session /\ Coherent(row, prep)
      /\ \/ op = "task_create" /\ row.status \in DELEGATABLE
         \/ op = "task_refund" /\ row.status \in REFUNDABLE
  BY <1>0, <1>1, OpenUnlocked, Sees DEF CopyOK
<1>3. pendingBar = "none"
  BY <1>0, <1>1, PendingNow
<1>4. pendingBar' = op
  <2>1. sess'[p].pc = "waiting" /\ sess'[p].op = op
    BY <1>0, <1>2 DEF Dispatch, SInv, IInv, Session
  <2>. HIDE DEF op
  <2>. QED
    BY <1>1, <1>2, <2>1, PendingWaits, Bars
<1>5. op = "task_create" => row.delegation = NoId /\ row.refund = NoId
  BY <1>2 DEF Coherent, DELEGATABLE, REFUNDABLE
<1>6. op = "task_refund" => row.delegation # NoId /\ row.refund = NoId
  BY <1>2 DEF Coherent, DELEGATABLE, REFUNDABLE
<1>7. op = "task_create" => moneyBar = "wallet"
  <2>1. PendingUnapplied
    BY <1>1, <1>2 DEF PendingUnapplied, OneAtATime
  <2>. QED
    BY <1>0, <1>5, <2>1, NoBounty
<1>8. recordBar = IF op = "task_create" THEN "unfunded" ELSE "funded"
  BY <1>2, <1>5, <1>6, Bars DEF RecordOf
<1>9. moneyBar' = moneyBar /\ recordBar' = recordBar
  BY <1>1, Bars
<1>10. op \in {"task_create", "task_refund"}
  BY <1>2
<1>. HIDE DEF op
<1>. QED
  BY <1>3, <1>4, <1>7, <1>8, <1>9, <1>10, MapSubmit

\* The answer to a submit is learned: the bounty it tells of is there, and the
\* refund has happened.
LEMMA AnswerLearns ==
  ASSUME FInv, OneAtATime, NEW p \in Procs, AnswerOk(p)
  PROVE  Promise!Next
<1>. DEFINE c == sess[p].conf
<1>0. SInv /\ BackendOK(prep, fate, task)
  BY DEF FInv, SInv, IInv
<1>1. /\ sess[p].pc = "waiting" /\ fate[c] = "applied" /\ task' = task
      /\ sess[p].copy = row /\ row \in TaskContract /\ Coherent(row, prep)
  BY <1>0, Sees DEF AnswerOk, backend, CopyOK
<1>2. /\ c \in Conf /\ c # NoId /\ prep[c].op = sess[p].op /\ pendingBar = sess[p].op
      /\ sess[p].op = "task_refund" => prep[c].task = row.delegation
      /\ row.status \in DELEGATABLE \cup REFUNDABLE
  BY <1>0, <1>1, HoldsConf, PendingNow, MaxPreparesAssumption DEF SInv, Conf, NoId
<1>3. row.refund = NoId
  BY <1>1, <1>2 DEF Coherent, DELEGATABLE, REFUNDABLE
<1>4. CASE sess[p].op = "task_create" /\ SaveAndEnd(p, RecordDelegated(row, c, prep[c].task, "submitted"))
  <2>. DEFINE k == RecordDelegated(row, c, prep[c].task, "submitted")
  <2>1. prep[c].task = c /\ task[c] # "none" /\ task[c] \in TaskState
    BY <1>0, <1>1, <1>2, <1>4 DEF BackendOK
  <2>2. k.status = "delegated" /\ k.delegation = c /\ k.refund = NoId
    BY <1>1, <1>2, <1>3, <2>1, DelegatedLeaves
  <2>3. moneyBar = task[c]
    BY <1>2, <2>1, MoneyAt
  <2>4. moneyBar # "wallet"
    BY <2>1, <2>3 DEF TaskState
  <2>. HIDE DEF k
  <2>5. SaveAndEnd(p, k)
    BY <1>4 DEF k
  <2>6. moneyBar' = moneyBar /\ recordBar' = "funded" /\ pendingBar' = "none"
    BY <1>0, <1>1, <1>2, <2>2, <2>5, SavedBars DEF RecordOf, Locked
  <2>. QED
    BY <1>2, <1>4, <2>4, <2>6, MapLearn
<1>5. CASE sess[p].op = "task_refund" /\ SaveAndEnd(p, RecordRefunded(row, c, "submitted"))
  <2>. DEFINE k == RecordRefunded(row, c, "submitted")
              t == prep[c].task
  <2>1. t \in Conf /\ task[t] = "refunded"
    BY <1>0, <1>1, <1>2, <1>5 DEF BackendOK, Confirmation
  <2>2. k.status = "closed" /\ k.refund = c
    BY <1>1, <1>2, RefundedLeaves
  <2>3. moneyBar = "refunded"
    BY <2>1, MoneyAt
  <2>. HIDE DEF k
  <2>4. SaveAndEnd(p, k)
    BY <1>5 DEF k
  <2>5. moneyBar' = moneyBar /\ recordBar' = "closed" /\ pendingBar' = "none"
    BY <1>0, <1>1, <1>2, <2>2, <2>4, SavedBars DEF RecordOf, Locked
  <2>. QED
    BY <1>2, <1>5, <2>3, <2>5, MapLearn
<1>. QED
  BY <1>1, <1>4, <1>5 DEF AnswerOk

\* reconcile learns of the operation that locks the row.
LEMMA ReconcileLearns ==
  ASSUME FInv, OneAtATime, NEW p \in Procs, ReconcileSave(p)
  PROVE  Promise!Next
<1>. DEFINE c == UncertainAttempt(row)
            t == prep[c].task
<1>0. SInv /\ BackendOK(prep, fate, task)
  BY DEF FInv, SInv, IInv
<1>1. /\ sess[p].pc = "reconciling" /\ task' = task
      /\ sess[p].copy = row /\ row \in TaskContract /\ Coherent(row, prep)
      /\ SessionOK(sess[p], prep, fate, task)
  BY <1>0, Sees DEF ReconcileSave, backend, CopyOK
<1>2. /\ c \in Conf /\ c # NoId /\ pendingBar = prep[c].op /\ fate[c] # "unused"
      /\ Locked(row)
  BY <1>0, <1>1, HoldsLock, PendingNow, MaxPreparesAssumption DEF SInv, Conf, NoId, Dispatched
<1>3. row.refund = NoId /\ t \in Conf
  BY <1>0, <1>1, <1>2 DEF Coherent, Locked, BackendOK, Confirmation
<1>4. sess[p].seen # NoAnswerYet =>
        task[t] # "none" /\ (sess[p].seen.task \in Over => task[t] \in Over)
  BY <1>1 DEF SessionOK, Asked
<1>5. CASE /\ prep[c].op = "task_create" /\ sess[p].seen # NoAnswerYet
           /\ SaveAndEnd(p, RecordDelegated(row, c, t, "reconciled_confirmed"))
  <2>. DEFINE k == RecordDelegated(row, c, t, "reconciled_confirmed")
  <2>. HIDE DEF c, t
  <2>1. t # NoId /\ task[t] # "none" /\ task[t] \in TaskState
    BY <1>0, <1>3, <1>4, <1>5, MaxPreparesAssumption DEF BackendOK, Conf, NoId
  <2>2. k.status = "delegated" /\ k.delegation = t /\ k.refund = NoId
    BY <1>1, <1>2, <1>3, DelegatedLeaves
  <2>3. moneyBar = task[t]
    BY <1>3, <2>1, MoneyAt
  <2>4. moneyBar # "wallet"
    BY <2>1, <2>3 DEF TaskState
  <2>. HIDE DEF k
  <2>5. SaveAndEnd(p, k)
    BY <1>5 DEF k
  <2>6. moneyBar' = moneyBar /\ recordBar' = "funded" /\ pendingBar' = "none"
    BY <1>0, <1>1, <2>1, <2>2, <2>5, SavedBars DEF RecordOf, Locked
  <2>. QED
    BY <1>2, <1>5, <2>4, <2>6, MapLearn
<1>6. CASE /\ prep[c].op = "task_refund" /\ sess[p].seen.task \in Over
           /\ SaveAndEnd(p, RecordRefunded(row, c, "reconciled_confirmed"))
  <2>. DEFINE k == RecordRefunded(row, c, "reconciled_confirmed")
  <2>. HIDE DEF c, t
  <2>1. sess[p].seen # NoAnswerYet
    BY <1>6 DEF NoAnswerYet, Over
  <2>2. task[t] \in Over /\ task[t] # "none"
    BY <1>4, <1>6, <2>1
  <2>3. k.status = "closed" /\ k.refund = c
    BY <1>1, <1>2, RefundedLeaves
  <2>4. moneyBar \in {"refunded", "paid"}
    BY <1>3, <2>2, MoneyAt DEF Over
  <2>. HIDE DEF k
  <2>5. SaveAndEnd(p, k)
    BY <1>6 DEF k
  <2>6. moneyBar' = moneyBar /\ recordBar' = "closed" /\ pendingBar' = "none"
    BY <1>0, <1>1, <1>2, <2>3, <2>5, SavedBars DEF RecordOf, Locked
  <2>. QED
    BY <1>2, <1>6, <2>4, <2>6, MapLearn
<1>. QED
  BY <1>1, <1>5, <1>6 DEF ReconcileSave

\* A tool error, or a person's word, forgets an operation that did not move the
\* money.
LEMMA DoomedForgets ==
  ASSUME EInv, OneAtATime, ~IndefiniteErrors, NEW p \in Procs, AnswerError(p) \/ ResolveSave(p)
  PROVE  Promise!Next
<1>0. FInv /\ SInv /\ BackendOK(prep, fate, task)
  BY DEF EInv, FInv, SInv, IInv
<1>1. /\ sess[p].pc \in {"waiting", "resolving"} /\ task' = task
      /\ sess[p].copy = row /\ row \in TaskContract /\ Coherent(row, prep)
  BY <1>0, Sees DEF AnswerError, ResolveSave, backend, CopyOK
<1>2. PICK c \in Conf :
        /\ fate[c] = "doomed" /\ pendingBar = prep[c].op
        /\ sess[p].pc = "waiting" => c = sess[p].conf
        /\ Locked(row) => c = UncertainAttempt(row)
        /\ prep[c].op = "task_create" => row.delegation = NoId
        /\ row.refund = NoId
        /\ prep[c].op \in MoneyOperation
  <2>1. CASE AnswerError(p)
    <3>. DEFINE c == sess[p].conf
    <3>1. sess[p].pc = "waiting" /\ fate[c] = "doomed"
      BY <2>1 DEF AnswerError
    <3>2. /\ c \in Conf /\ prep[c].op = sess[p].op /\ pendingBar = sess[p].op /\ ~Locked(row)
          /\ \/ sess[p].op = "task_create" /\ row.status \in DELEGATABLE
             \/ sess[p].op = "task_refund" /\ row.status \in REFUNDABLE
      BY <1>0, <3>1, HoldsConf, PendingNow, OpenUnlocked DEF SInv
    <3>3. row.refund = NoId /\ (sess[p].op = "task_create" => row.delegation = NoId)
      BY <1>1, <3>2 DEF Coherent, DELEGATABLE, REFUNDABLE
    <3>. QED
      BY <3>1, <3>2, <3>3 DEF MoneyOperation
  <2>2. CASE ResolveSave(p)
    <3>. DEFINE c == UncertainAttempt(row)
    <3>1. sess[p].pc = "resolving"
      BY <2>2 DEF ResolveSave
    <3>2. /\ c \in Conf /\ Locked(row) /\ c \in Ambiguous(row)
          /\ pendingBar = prep[c].op /\ fate[c] = "doomed"
      BY <1>0, <1>1, <3>1, Sees, HoldsLock, PendingNow DEF SInv, SessionOK
    <3>. HIDE DEF c
    <3>3. row.refund = NoId
      BY <1>1, <3>2 DEF Coherent, Locked
    <3>4. prep[c].op \in MoneyOperation /\ (prep[c].op = "task_create" => row.delegation = NoId)
      BY <1>1, <3>2 DEF Coherent, MoneyOperation
    <3>. QED
      BY <3>1, <3>2, <3>3, <3>4 DEF c
  <2>. QED
    BY <2>1, <2>2
<1>3. PendingUnapplied
  BY <1>2 DEF PendingUnapplied, OneAtATime
<1>4. \/ pendingBar = "task_create" /\ moneyBar = "wallet"
      \/ pendingBar = "task_refund" /\ moneyBar # "refunded"
  BY <1>0, <1>2, <1>3, NoBounty, NoRefund DEF MoneyOperation
<1>5. PICK k : /\ SaveAndEnd(p, k) /\ ~Locked(k)
              /\ k.delegation = row.delegation /\ k.refund = row.refund
  <2>1. CASE AnswerError(p)
    <3>1. sess[p].conf \in Conf /\ SaveAndEnd(p, RecordFailed(row, sess[p].conf)) /\ ~Locked(row)
      BY <1>0, <1>1, <2>1, HoldsConf, OpenUnlocked DEF AnswerError, SInv
    <3>. QED
      BY <1>1, <3>1, FailedLeaves DEF Locked
  <2>2. CASE ResolveSave(p)
    <3>. DEFINE d == UncertainAttempt(row)
    <3>1. sess[p].pc = "resolving" /\ SaveAndEnd(p, RecordNotFound(row, d, prep[d].origin))
      BY <1>1, <2>2 DEF ResolveSave
    <3>2. d \in Conf /\ d \in Ambiguous(row)
      BY <1>0, <1>1, <3>1, HoldsLock DEF SInv
    <3>. HIDE DEF d
    <3>3. prep[d].origin # "submit_uncertain"
      BY <1>1, <3>2 DEF Coherent, DELEGATABLE, REFUNDABLE
    <3>. QED
      BY <1>1, <3>1, <3>2, <3>3, NotFoundLeaves DEF Locked
  <2>. QED
    BY <2>1, <2>2
<1>6. moneyBar' = moneyBar /\ pendingBar' = "none" /\ recordBar' = recordBar
  BY <1>0, <1>1, <1>5, SavedBars, Bars DEF RecordOf
<1>. QED
  BY <1>4, <1>6, MapForget

\* No answer: what was awaited locks the row, and is pending still.
LEMMA NoAnswerKeeps ==
  ASSUME SInv, IInv', OneAtATime, NEW p \in Procs, NoAnswer(p)
  PROVE  UNCHANGED Promise!vars
<1>. DEFINE c == sess[p].conf
<1>1. /\ sess[p].pc = "waiting" /\ task' = task /\ prep' = prep
      /\ sess[p].copy = row /\ row \in TaskContract
  BY Sees DEF NoAnswer, backend
<1>2. c \in Conf /\ prep[c].op = sess[p].op /\ pendingBar = sess[p].op
  BY <1>1, HoldsConf, PendingNow DEF SInv
<1>3. row' = RecordAmbiguous(row, c)
  BY <1>1 DEF NoAnswer, SaveAndEnd
<1>. HIDE DEF c
<1>4. row'.attempts = [row.attempts EXCEPT ![c] = "ambiguous"]
  BY <1>1, <1>2, <1>3, AmbiguousSettles
<1>5. Locked(row') /\ row'.delegation = row.delegation /\ row'.refund = row.refund
  BY <1>1, <1>2, <1>3, AmbiguousLeaves DEF Locked
<1>6. Ambiguous(row') = {UncertainAttempt(row')}
  BY <1>5, UncertainIs DEF IInv, CopyOK
<1>7. UncertainAttempt(row') = c
  BY <1>1, <1>2, <1>4, <1>6 DEF Ambiguous, TaskContract
<1>8. SaveAndEnd(p, row')
  BY <1>3 DEF NoAnswer, SaveAndEnd
<1>9. moneyBar' = moneyBar /\ recordBar' = recordBar /\ pendingBar' = pendingBar
  BY <1>1, <1>2, <1>5, <1>7, <1>8, SavedBars, Bars DEF RecordOf
<1>. QED
  BY <1>9, MapStutter

\* A submit takes effect at the backend: it is the pending operation.
LEMMA ApplyTakesEffect ==
  ASSUME EInv, IInv', OneAtATime, NEW c \in Conf, Apply(c)
  PROVE  Promise!Next
<1>. DEFINE t == prep[c].task
<1>0. FInv /\ SInv /\ BackendOK(prep, fate, task) /\ TruthfulCopy(row, prep, fate, task)
  BY DEF EInv, FInv, SInv, IInv, CopyOK
<1>1. /\ fate[c] = "inflight" /\ fate' = [fate EXCEPT ![c] = "applied"]
      /\ UNCHANGED <<row, sess, prep>>
  BY DEF Apply, store
<1>2. Live(c) /\ prep[c].op \in MoneyOperation /\ t \in Conf
  BY <1>0, <1>1 DEF Live, BackendOK, Confirmation
<1>3. recordBar' = recordBar /\ pendingBar' = pendingBar
  BY <1>1, Bars
<1>4. prep[c].op = "task_create" => task[t] = "none" /\ t = c
  BY <1>0, <1>1 DEF BackendOK
<1>5. prep[c].op = "task_refund" => task[t] = "open"
  BY DEF Apply
<1>6. pendingBar = prep[c].op
  <2>1. \/ \E p \in Procs : sess[p].pc = "waiting" /\ sess[p].conf = c
        \/ Locked(row) /\ UncertainAttempt(row) = c /\ \A p \in Procs : sess[p].pc # "waiting"
        \/ row.attempts[c] \in Confirmed
    BY <1>0, <1>2, OpenUnlocked DEF FInv, NothingForgotten
  <2>2. row.attempts[c] \notin Confirmed
    BY <1>0, <1>1, <1>2, <1>5 DEF TruthfulCopy, Confirmed, MoneyOperation, Over
  <2>3. ASSUME NEW p \in Procs, sess[p].pc = "waiting", sess[p].conf = c
        PROVE  pendingBar = prep[c].op
    BY <1>0, <2>3, HoldsConf, PendingNow DEF SInv
  <2>4. CASE Locked(row) /\ UncertainAttempt(row) = c /\ \A p \in Procs : sess[p].pc # "waiting"
    BY <2>4, PendingLocks, Bars
  <2>. QED
    BY <2>1, <2>2, <2>3, <2>4
<1>7. CASE prep[c].op = "task_create"
  <2>1. \A u \in Conf : task[u] = "none"
    <3>. SUFFICES ASSUME NEW u \in Conf, task[u] # "none" PROVE FALSE
      OBVIOUS
    <3>1. Live(u) /\ prep[u].op = "task_create"
      BY <1>0, OneBounty
    <3>2. u = c
      BY <1>0, <1>2, <1>7, <3>1, OneOfAKind
    <3>. QED
      BY <1>4, <1>7, <3>2
  <2>2. task' = [task EXCEPT ![c] = "open"]
    BY <1>4, <1>7 DEF Apply
  <2>3. task'[c] = "open" /\ \A u \in Conf \ {c} : task'[u] = "none"
    BY <1>0, <2>1, <2>2 DEF BackendOK
  <2>4. moneyBar = "wallet" /\ moneyBar' = "open"
    BY <2>1, <2>3, MoneyUnmoved, MoneyIs, Bars
  <2>. QED
    BY <1>3, <1>6, <1>7, <2>4, MapTakeEffect
<1>8. CASE prep[c].op = "task_refund"
  <2>. HIDE DEF t
  <2>1. \A u \in Conf \ {t} : task[u] = "none"
    BY <1>0, <1>2, <1>5, <1>8, OneBounty
  <2>2. task' = [task EXCEPT ![t] = "refunded"]
    BY <1>8 DEF Apply, t
  <2>3. task'[t] = "refunded" /\ \A u \in Conf \ {t} : task'[u] = "none"
    BY <1>0, <1>2, <2>1, <2>2 DEF BackendOK
  <2>4. moneyBar = "open" /\ moneyBar' = "refunded"
    BY <1>2, <1>5, <1>8, <2>1, <2>3, MoneyIs, Bars
  <2>. QED
    BY <1>3, <1>6, <1>8, <2>4, MapTakeEffect
<1>. QED
  BY <1>2, <1>7, <1>8 DEF MoneyOperation

\* A payout pays the worker of the one bounty.
LEMMA PayOutPays ==
  ASSUME FInv, OneAtATime, NEW t \in Conf, PayOut(t)
  PROVE  Promise!Next
<1>1. /\ task[t] = "open" /\ task' = [task EXCEPT ![t] = "paid"]
      /\ UNCHANGED <<row, sess, prep>> /\ BackendOK(prep, fate, task)
  BY DEF PayOut, store, FInv, SInv, IInv
<1>2. \A u \in Conf \ {t} : task[u] = "none"
  BY <1>1, OneBounty
<1>3. task'[t] = "paid" /\ \A u \in Conf \ {t} : task'[u] = "none"
  BY <1>1, <1>2 DEF BackendOK
<1>4. moneyBar = "open" /\ moneyBar' = "paid"
  BY <1>1, <1>2, <1>3, MoneyIs, Bars
<1>5. recordBar' = recordBar /\ pendingBar' = pendingBar
  BY <1>1, Bars
<1>. QED
  BY <1>4, <1>5, MapPayOut

(***************************************************************************)
(* The invariant, and the refinement.                                      *)
(***************************************************************************)
\* An invocation changes no bounty, and no confirmation that took effect.
LEMMA ProcLeavesApplied ==
  ASSUME IInv, NEW p \in Procs, ProcStep(p)
  PROVE  /\ task' = task
         /\ \A d \in Conf : fate[d] = "applied" => fate'[d] = "applied" /\ prep'[d] = prep[d]
<1>1. CASE Prepare(p)
  BY <1>1 DEF Prepare, MayPrepare, NextConf, IInv, BackendOK
<1>2. CASE Dispatch(p) \/ SubmitRefused(p)
  <2>1. fate[sess[p].conf] = "prepared" /\ sess[p].conf \in Conf
    BY <1>2, HoldsConf DEF Dispatch, SubmitRefused, SessionOK
  <2>. QED
    BY <1>2, <2>1 DEF Dispatch, SubmitRefused, IInv, BackendOK
<1>3. CASE UNCHANGED backend
  BY <1>3 DEF backend
<1>. QED
  BY <1>1, <1>2, <1>3 DEF ProcStep, OpenDelegation, MayDelegate, OpenRefund, RefreshRead,
     MayRefresh, ReconcileRead, MayReconcile,
     ResolveRead, MayResolve, Begin, Abandon, AnswerOk, AnswerError, NoAnswer, CrashWaiting,
        GetTask,
     RefreshSave, ReconcileSave, ResolveSave

\* Every step keeps the invariant.
LEMMA EscrowNext ==
  ASSUME NeverLost
  PROVE  EInv /\ [Next]_vars => EInv'
<1>. SUFFICES ASSUME EInv, [Next]_vars PROVE EInv'
  OBVIOUS
<1>0. FInv /\ IInv /\ BackendOK(prep, fate, task) /\ RefundedBy
  BY DEF EInv, FInv, SInv, IInv
<1>1. FInv'
  BY <1>0, ForgetsNext
<1>2. ASSUME NEW p \in Procs, ProcStep(p)
      PROVE  RefundedBy'
  BY <1>0, <1>2, ProcLeavesApplied DEF RefundedBy
<1>3. ASSUME NEW c \in Conf, Apply(c)
      PROVE  RefundedBy'
  <2>1. prep' = prep /\ fate' = [fate EXCEPT ![c] = "applied"]
    BY <1>3 DEF Apply
  <2>2. \A d \in Conf : fate[d] = "applied" => fate'[d] = "applied"
    BY <1>0, <2>1 DEF BackendOK
  <2>3. fate'[c] = "applied"
    BY <1>0, <2>1 DEF BackendOK
  <2>4. ASSUME NEW t \in Conf, task'[t] = "refunded"
        PROVE  task[t] = "refunded" \/ (prep[c].op = "task_refund" /\ prep[c].task = t)
    BY <1>0, <1>3, <2>4 DEF Apply, BackendOK
  <2>. QED
    BY <1>0, <2>1, <2>2, <2>3, <2>4 DEF RefundedBy
<1>4. ASSUME NEW c \in Conf, Doom(c) \/ HandIn(c) \/ PayOut(c)
      PROVE  RefundedBy'
  BY <1>0, <1>4 DEF RefundedBy, Doom, HandIn, PayOut, BackendOK
<1>5. ASSUME UNCHANGED vars
      PROVE  RefundedBy'
  BY <1>0, <1>5 DEF RefundedBy, vars
<1>6. RefundedBy'
  BY <1>2, <1>3, <1>4, <1>5 DEF Next, BackendStep
<1>. QED
  BY <1>1, <1>6 DEF EInv

\* The initial contract is the promise's initial state: nothing asked, nothing
\* moved.
LEMMA EscrowInit == Init => EInv /\ Promise!Init
<1>. SUFFICES ASSUME Init PROVE EInv /\ Promise!Init
  OBVIOUS
<1>1. EInv
  <2>1. NothingForgotten /\ RefundedBy
    BY DEF Init, NothingForgotten, RefundedBy, Live
  <2>. QED
    BY <2>1, SerialInit DEF EInv, FInv
<1>2. moneyBar = "wallet"
  BY MoneyUnmoved, Bars DEF Init
<1>3. row.delegation = NoId /\ row.refund = NoId /\ ~Locked(row)
  BY DEF Init, NewContract, Locked
<1>4. \A p \in Procs : sess[p].pc # "waiting"
  BY DEF Init, Idle
<1>5. pendingBar = "none" /\ recordBar = "unfunded"
  BY <1>3, <1>4, PendingNone, Bars DEF RecordOf
<1>. QED
  BY <1>1, <1>2, <1>5 DEF Promise!Init, moneyBar, pendingBar, recordBar

\* Every step of the money path is a step of the promise, or nothing to it.
LEMMA EscrowStep ==
  ASSUME NeverLost
  PROVE  EInv /\ [Next]_vars => [Promise!Next]_(Promise!vars)
<1>. SUFFICES ASSUME EInv, [Next]_vars PROVE [Promise!Next]_(Promise!vars)
  OBVIOUS
<1>0. FInv /\ SInv /\ OneAtATime /\ ~Crashes /\ ~IndefiniteErrors /\ IInv'
  BY EscrowNext DEF EInv, FInv, SInv, NeverLost
<1>1. ASSUME NEW p \in Procs, ProcStep(p)
      PROVE  [Promise!Next]_(Promise!vars)
  <2>1. CASE \/ \E a \in Adapters :
                  \/ OpenDelegation(p, a) \/ OpenRefund(p, a)
                  \/ RefreshRead(p, a) \/ ReconcileRead(p, a)
             \/ \E op \in MoneyOperation : ResolveRead(p, op)
             \/ Abandon(p) \/ GetTask(p)
    BY <1>0, <2>1, ReadKeeps
  <2>2. CASE Prepare(p) \/ SubmitRefused(p)
    BY <1>0, <2>2, QuoteKeeps
  <2>3. CASE Dispatch(p)
    BY <1>0, <2>3, DispatchSubmits
  <2>4. CASE AnswerOk(p)
    BY <1>0, <2>4, AnswerLearns
  <2>5. CASE AnswerError(p) \/ ResolveSave(p)
    BY <1>0, <2>5, DoomedForgets
  <2>6. CASE NoAnswer(p)
    BY <1>0, <2>6, NoAnswerKeeps
  <2>7. CASE ReconcileSave(p)
    BY <1>0, <2>7, ReconcileLearns
  <2>8. CASE RefreshSave(p)
    BY <1>0, <2>8, RefreshKeeps
  <2>9. CASE CrashWaiting(p)
    BY <1>0, <2>9 DEF CrashWaiting
  <2>. QED
    BY <1>1, <2>1, <2>2, <2>3, <2>4, <2>5, <2>6, <2>7, <2>8, <2>9 DEF ProcStep
<1>2. ASSUME NEW c \in Conf, BackendStep(c)
      PROVE  [Promise!Next]_(Promise!vars)
  <2>1. CASE Apply(c)
    BY <1>0, <2>1, ApplyTakesEffect
  <2>2. CASE PayOut(c)
    BY <1>0, <2>2, PayOutPays
  <2>3. CASE Doom(c) \/ HandIn(c)
    <3>1. UNCHANGED <<row, sess, prep, task>>
      BY <2>3 DEF Doom, HandIn, store
    <3>. QED
      BY <3>1, Bars, MapStutter
  <2>. QED
    BY <1>2, <2>1, <2>2, <2>3 DEF BackendStep
<1>3. CASE UNCHANGED vars
  BY <1>3, Bars, MapStutter DEF vars
<1>. QED
  BY <1>1, <1>2, <1>3 DEF Next

\* One at a time, not killed while waiting, with definite errors: the contract
\* pays for one bounty, forgets nothing that moved the money, and its record
\* follows the money.
THEOREM MoneyPathKeepsPromise ==
  ASSUME NeverLost
  PROVE  Spec => KeepsPromise
<1>1. Init => EInv /\ Promise!Init
  BY EscrowInit
<1>. QED
  BY <1>1, EscrowNext, EscrowStep, PTL DEF Spec, KeepsPromise, Promise!Spec
=============================================================================
