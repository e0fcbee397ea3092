----------------------------- MODULE SerialProofs -----------------------------
(***************************************************************************)
(* Theorems of MoneyPath for invocations that run one at a time, which is  *)
(* what LedgerKept, LockHeld and AuditComplete need: overlapping saves     *)
(* lose updates, as the runs overlap_funds_twice and overlap_drops_lock    *)
(* show.  Invocations may still be any number one after another, over any  *)
(* adapters and confirmations, may die where they please, and a tool error *)
(* may come back for a submit that can still take effect.                  *)
(*                                                                         *)
(* What one at a time buys is CopyIsRow: nothing has been saved since the  *)
(* running invocation read the row, so whatever it saves is an edit of the *)
(* row itself, and what SessionOK says of its copy holds of the row.       *)
(***************************************************************************)
EXTENDS MoneyPathProofs

\* No two invocations overlap: at most one is ever running.
OneAtATime == \A p, q \in Procs : p = q

\* The copy an invocation works on is still what the store holds.
CopyIsRow == \A p \in Procs : sess[p].pc # "idle" => sess[p].copy = row

\* The write-ahead record, from the moment the confirmation exists.
Written == \A c \in Conf : fate[c] # "unused" => row.attempts[c] # "absent"

\* The inductive invariant.
SInv == IInv /\ CopyIsRow /\ Written

\* From the ledger of k to that of k2 no attempt is dropped and each outcome
\* stays or settles.
MovesOn(k, k2) ==
  \A c \in Conf : k2.attempts[c] \in {k.attempts[c]} \cup Settles[k.attempts[c]]

\* What a step of invocation p does to the row.
RowStep(p) ==
  /\ CopyIsRow'
  /\ MovesOn(row, row')
  /\ \A c \in Conf : fate'[c] # "unused" => fate[c] # "unused" \/ row'.attempts[c] # "absent"
  /\ Locked(row) /\ ~Locked(row') => sess[p].pc \in {"reconciling", "resolving"}

(***************************************************************************)
(* Lemmas about the edits and about a lone invocation.                     *)
(***************************************************************************)
\* What each edit does, in two lemmas.  prepare adds one attempt to the ledger.
LEMMA PreparedSettles ==
  ASSUME NEW k \in TaskContract, NEW c \in Conf, NEW k2, k2 = RecordPrepared(k, c)
  PROVE  k2.attempts = [k.attempts EXCEPT ![c] = "prepared"]
BY DEF RecordPrepared, TaskContract

\* prepare leaves status, bounty and refund.
LEMMA PreparedLeaves ==
  ASSUME NEW k \in TaskContract, NEW c \in Conf, NEW k2, k2 = RecordPrepared(k, c)
  PROVE  k2.status = k.status /\ k2.delegation = k.delegation /\ k2.refund = k.refund
BY DEF RecordPrepared, TaskContract

\* A definite refusal settles the attempt as failed.
LEMMA FailedSettles ==
  ASSUME NEW k \in TaskContract, NEW c \in Conf, NEW k2, k2 = RecordFailed(k, c)
  PROVE  k2.attempts = [k.attempts EXCEPT ![c] = "failed"]
BY DEF RecordFailed, TaskContract

\* So does a definite refusal.
LEMMA FailedLeaves ==
  ASSUME NEW k \in TaskContract, NEW c \in Conf, NEW k2, k2 = RecordFailed(k, c)
  PROVE  k2.status = k.status /\ k2.delegation = k.delegation /\ k2.refund = k.refund
BY DEF RecordFailed, TaskContract

\* An outcome not known settles it as ambiguous.
LEMMA AmbiguousSettles ==
  ASSUME NEW k \in TaskContract, NEW c \in Conf, NEW k2, k2 = RecordAmbiguous(k, c)
  PROVE  k2.attempts = [k.attempts EXCEPT ![c] = "ambiguous"]
BY DEF RecordAmbiguous, TaskContract

\* An outcome not known locks the contract.
LEMMA AmbiguousLeaves ==
  ASSUME NEW k \in TaskContract, NEW c \in Conf, NEW k2, k2 = RecordAmbiguous(k, c)
  PROVE  k2.status = "submit_uncertain" /\ k2.delegation = k.delegation /\ k2.refund = k.refund
BY DEF RecordAmbiguous, TaskContract

\* A bounty that goes on record settles the attempt that paid for it.
LEMMA DelegatedSettles ==
  ASSUME NEW k \in TaskContract, NEW c \in Conf, NEW t, NEW v, NEW k2, k2 = RecordDelegated(k, c, t, v)
  PROVE  k2.attempts = [k.attempts EXCEPT ![c] = v]
BY DEF RecordDelegated, TaskContract

\* A bounty on record is named, and the status delegated.
LEMMA DelegatedLeaves ==
  ASSUME NEW k \in TaskContract, NEW c \in Conf, NEW t, NEW v, NEW k2, k2 = RecordDelegated(k, c, t, v)
  PROVE  k2.status = "delegated" /\ k2.delegation = t /\ k2.refund = k.refund
BY DEF RecordDelegated, TaskContract

\* A refund that goes on record settles the attempt that asked for it.
LEMMA RefundedSettles ==
  ASSUME NEW k \in TaskContract, NEW c \in Conf, NEW v, NEW k2, k2 = RecordRefunded(k, c, v)
  PROVE  k2.attempts = [k.attempts EXCEPT ![c] = v]
BY DEF RecordRefunded, TaskContract

\* A refund on record closes the contract.
LEMMA RefundedLeaves ==
  ASSUME NEW k \in TaskContract, NEW c \in Conf, NEW v, NEW k2, k2 = RecordRefunded(k, c, v)
  PROVE  k2.status = "closed" /\ k2.delegation = k.delegation /\ k2.refund = c
BY DEF RecordRefunded, TaskContract

\* A person's word that nothing happened settles the attempt as not found.
LEMMA NotFoundSettles ==
  ASSUME NEW k \in TaskContract, NEW c \in Conf, NEW origin, NEW k2, k2 = RecordNotFound(k, c, origin)
  PROVE  k2.attempts = [k.attempts EXCEPT ![c] = "reconciled_not_found"]
BY DEF RecordNotFound, TaskContract

\* A person's word puts the status back where it came from.
LEMMA NotFoundLeaves ==
  ASSUME NEW k \in TaskContract, NEW c \in Conf, NEW origin, NEW k2, k2 = RecordNotFound(k, c, origin)
  PROVE  k2.status = origin /\ k2.delegation = k.delegation /\ k2.refund = k.refund
BY DEF RecordNotFound, TaskContract

\* refresh leaves the ledger, the lock, the bounty and the refund as they are.
LEMMA RemoteEdit ==
  ASSUME NEW k \in TaskContract, NEW open \in BOOLEAN, NEW has \in BOOLEAN
  PROVE  LET k2 == RecordRemote(k, open, has)
         IN /\ k2.attempts = k.attempts
            /\ k2.delegation = k.delegation /\ k2.refund = k.refund
            /\ k2.status = k.status \/ (k.status = "delegated" /\ k2.status = "submitted")
            /\ Locked(k2) <=> Locked(k)
<1>. DEFINE r  == IF open THEN "open" ELSE "closed"
            st == IF k.status = "delegated" /\ has THEN "submitted" ELSE k.status
            k2 == [k EXCEPT !.remote = r, !.status = st]
<1>1. RecordRemote(k, open, has) = k2
  BY DEF RecordRemote, TaskContract
<1>2. k2.attempts = k.attempts /\ k2.delegation = k.delegation /\ k2.refund = k.refund
      /\ k2.status = st
  BY DEF TaskContract
<1>3. st = k.status \/ (k.status = "delegated" /\ st = "submitted")
  OBVIOUS
<1>. HIDE DEF k2, st
<1>. QED
  BY <1>1, <1>2, <1>3 DEF Locked

\* An outcome is never forgotten, whatever it settles as.
LEMMA SettlesOn ==
  /\ Settles["absent"] = AttemptOutcome /\ Settles["prepared"] = AttemptOutcome
  /\ Settles["ambiguous"] = {"reconciled_confirmed", "reconciled_not_found"}
  /\ \A v \in AttemptOutcome : "absent" \notin {v} \cup Settles[v]
BY DEF Settles, AttemptOutcome

\* To settle one attempt is to move the ledger on.
LEMMA SettleOne ==
  ASSUME NEW k \in TaskContract, NEW k2, NEW c \in Conf, NEW v,
         k2.attempts = [k.attempts EXCEPT ![c] = v], v \in Settles[k.attempts[c]]
  PROVE  MovesOn(k, k2)
BY DEF MovesOn, TaskContract

\* A ledger that moves on drops no attempt.
LEMMA NoneDropped ==
  ASSUME NEW k \in TaskContract, NEW k2, MovesOn(k, k2), NEW c \in Conf,
         k.attempts[c] # "absent"
  PROVE  k2.attempts[c] # "absent"
<1>1. k.attempts[c] \in AttemptOutcome
  BY DEF TaskContract
<1>. QED
  BY <1>1, SettlesOn DEF MovesOn

\* What a running invocation knows of its copy holds of the row.
LEMMA Sees ==
  ASSUME SInv, NEW p \in Procs, sess[p].pc # "idle"
  PROVE  /\ sess[p].copy = row
         /\ sess[p] \in Session
         /\ SessionOK(sess[p], prep, fate, task)
         /\ CopyOK(row, prep, fate, task)
         /\ row \in TaskContract
BY DEF SInv, IInv, CopyIsRow, CopyOK

\* The steps that leave the row alone.
LEMMA RowLeft ==
  ASSUME SInv, OneAtATime, NEW p \in Procs, NEW s,
         sess' = [sess EXCEPT ![p] = s], s.pc = "idle" \/ s.copy = row,
         row' = row, \A c \in Conf : fate'[c] # "unused" => fate[c] # "unused"
  PROVE  RowStep(p)
<1>1. sess'[p] = s /\ \A q \in Procs : q = p
  BY DEF OneAtATime, SInv, IInv
<1>2. CopyIsRow'
  BY <1>1 DEF CopyIsRow
<1>. QED
  BY <1>2 DEF RowStep, MovesOn

\* The steps that save an edit of the row.
LEMMA RowSaved ==
  ASSUME SInv, OneAtATime, NEW p \in Procs, NEW k, SaveAndEnd(p, k), MovesOn(row, k),
         \A c \in Conf : fate'[c] # "unused" => fate[c] # "unused",
         Locked(row) /\ ~Locked(k) => sess[p].pc \in {"reconciling", "resolving"}
  PROVE  RowStep(p)
<1>1. row' = k /\ sess' = [sess EXCEPT ![p] = Idle]
  BY DEF SaveAndEnd
<1>2. sess'[p] = Idle /\ \A q \in Procs : q = p
  BY <1>1 DEF OneAtATime, SInv, IInv
<1>3. CopyIsRow'
  BY <1>2 DEF CopyIsRow, Idle
<1>. QED
  BY <1>1, <1>3 DEF RowStep

(***************************************************************************)
(* One lemma per kind of action.                                           *)
(***************************************************************************)
\* OpenDelegation, OpenRefund, RefreshRead, ReconcileRead and ResolveRead.
LEMMA ReadRow ==
  ASSUME SInv, OneAtATime, NEW p \in Procs,
         \/ \E a \in Adapters :
              \/ OpenDelegation(p, a) \/ OpenRefund(p, a)
              \/ RefreshRead(p, a) \/ ReconcileRead(p, a)
         \/ \E op \in MoneyOperation : ResolveRead(p, op)
  PROVE  RowStep(p)
<1>1. PICK pc, op, a : Begin(p, pc, op, a)
  BY DEF OpenDelegation, MayDelegate, OpenRefund, RefreshRead, MayRefresh, ReconcileRead,
     MayReconcile, ResolveRead, MayResolve
<1>. DEFINE s == [pc |-> pc, op |-> op, via |-> a, copy |-> row, conf |-> NoId,
                  seen |-> NoAnswerYet]
<1>2. sess' = [sess EXCEPT ![p] = s] /\ row' = row /\ fate' = fate /\ s.copy = row
  BY <1>1 DEF Begin, backend
<1>. HIDE DEF s
<1>. QED
  BY <1>2, RowLeft

\* MoneySession.prepare: the new attempt is in the row from the start, and was
\* in no row before.
LEMMA PrepareRow ==
  ASSUME SInv, OneAtATime, NEW p \in Procs, Prepare(p)
  PROVE  RowStep(p)
<1>0. sess[p].pc = "opened"
  BY DEF Prepare, MayPrepare
<1>1. PICK c \in Conf :
        /\ NextConf(c)
        /\ fate' = [fate EXCEPT ![c] = "prepared"]
        /\ row' = RecordPrepared(sess[p].copy, c)
        /\ sess' = [sess EXCEPT ![p].pc = "prepared",
                                ![p].copy = RecordPrepared(sess[p].copy, c),
                                ![p].conf = c]
  BY DEF Prepare, MayPrepare
<1>2. /\ sess[p].copy = row /\ sess[p] \in Session /\ row \in TaskContract
      /\ SessionOK(sess[p], prep, fate, task) /\ CopyOK(row, prep, fate, task)
  BY <1>0, Sees
<1>. DEFINE k == RecordPrepared(row, c)
<1>3. k.attempts = [row.attempts EXCEPT ![c] = "prepared"] /\ k.status = row.status
  BY <1>2, PreparedSettles, PreparedLeaves
<1>. HIDE DEF k
<1>4. row' = k
  BY <1>1, <1>2 DEF k
<1>5. sess'[p].copy = k
  <2>1. sess' = [sess EXCEPT ![p].pc = "prepared", ![p].copy = k, ![p].conf = c]
    BY <1>1, <1>2 DEF k
  <2>. QED
    BY <1>2, <2>1 DEF SInv, IInv, Session
<1>6. CopyIsRow'
  BY <1>4, <1>5 DEF OneAtATime, CopyIsRow
<1>7. row.attempts[c] = "absent"
  BY <1>1, <1>2 DEF NextConf, CopyOK, LedgerOK
<1>8. MovesOn(row, k)
  BY <1>2, <1>3, <1>7, SettleOne, SettlesOn DEF AttemptOutcome
<1>9. \A d \in Conf : fate'[d] # "unused" => fate[d] # "unused" \/ k.attempts[d] # "absent"
  BY <1>1, <1>2, <1>3 DEF SInv, IInv, BackendOK, TaskContract
<1>10. Locked(row) <=> Locked(k)
  BY <1>3 DEF Locked
<1>. QED
  BY <1>4, <1>6, <1>8, <1>9, <1>10 DEF RowStep

\* The answer to a submit, or its absence, is recorded in the row the invocation
\* read; the attempt was still only prepared there, and the row not locked.
LEMMA AnswerRow ==
  ASSUME SInv, OneAtATime, NEW p \in Procs,
         SubmitRefused(p) \/ AnswerOk(p) \/ AnswerError(p) \/ NoAnswer(p)
  PROVE  RowStep(p)
<1>. DEFINE c == sess[p].conf
<1>0. sess[p].pc \in {"prepared", "waiting"}
  BY DEF SubmitRefused, AnswerOk, AnswerError, NoAnswer
<1>1. sess[p].copy = row /\ row \in TaskContract
  BY <1>0, Sees
<1>2. /\ c \in Conf /\ row.attempts[c] = "prepared"
      /\ row.status \in DELEGATABLE \cup REFUNDABLE
  BY <1>0, <1>1, HoldsConf DEF SInv
<1>3. ~Locked(row)
  BY <1>2 DEF Locked, DELEGATABLE, REFUNDABLE
<1>4. PICK k : \E v \in AttemptOutcome :
        SaveAndEnd(p, k) /\ k.attempts = [row.attempts EXCEPT ![c] = v]
  <2>1. CASE SubmitRefused(p) \/ AnswerError(p)
    <3>1. SaveAndEnd(p, RecordFailed(row, c))
      BY <1>1, <2>1 DEF SubmitRefused, AnswerError
    <3>. QED
      BY <1>1, <1>2, <3>1, FailedSettles DEF AttemptOutcome
  <2>2. CASE NoAnswer(p)
    <3>1. SaveAndEnd(p, RecordAmbiguous(row, c))
      BY <1>1, <2>2 DEF NoAnswer
    <3>. QED
      BY <1>1, <1>2, <3>1, AmbiguousSettles DEF AttemptOutcome
  <2>3. CASE AnswerOk(p)
    <3>1. \/ SaveAndEnd(p, RecordDelegated(row, c, prep[c].task, "submitted"))
          \/ SaveAndEnd(p, RecordRefunded(row, c, "submitted"))
      BY <1>1, <2>3 DEF AnswerOk
    <3>. QED
      BY <1>1, <1>2, <3>1, DelegatedSettles, RefundedSettles DEF AttemptOutcome
  <2>. QED
    BY <2>1, <2>2, <2>3
<1>5. MovesOn(row, k)
  BY <1>1, <1>2, <1>4, SettleOne, SettlesOn
<1>6. \A d \in Conf : fate'[d] # "unused" => fate[d] # "unused"
  BY <1>2 DEF SubmitRefused, AnswerOk, AnswerError, NoAnswer, backend, SInv, IInv, BackendOK,
              SessionOK
<1>. QED
  BY <1>3, <1>4, <1>5, <1>6, RowSaved

\* reconcile and resolve_uncertain settle the attempt that locks the row.
LEMMA UnlockRow ==
  ASSUME SInv, OneAtATime, NEW p \in Procs, ReconcileSave(p) \/ ResolveSave(p)
  PROVE  RowStep(p)
<1>. DEFINE c == UncertainAttempt(row)
<1>0. sess[p].pc \in {"reconciling", "resolving"} /\ fate' = fate
  BY DEF ReconcileSave, ResolveSave, backend
<1>1. sess[p].copy = row /\ row \in TaskContract /\ Coherent(row, prep)
  BY <1>0, Sees DEF CopyOK
<1>2. Locked(row)
  BY <1>0, Sees DEF SessionOK
<1>3. c \in Conf /\ row.attempts[c] = "ambiguous"
  BY <1>1, <1>2, UncertainIs
<1>4. PICK k : \E v \in {"reconciled_confirmed", "reconciled_not_found"} :
        SaveAndEnd(p, k) /\ k.attempts = [row.attempts EXCEPT ![c] = v]
  <2>. HIDE DEF c
  <2>1. CASE ReconcileSave(p)
    <3>1. \/ SaveAndEnd(p, RecordDelegated(row, c, prep[c].task, "reconciled_confirmed"))
          \/ SaveAndEnd(p, RecordRefunded(row, c, "reconciled_confirmed"))
      BY <1>1, <2>1 DEF ReconcileSave, c
    <3>. QED
      BY <1>1, <1>3, <3>1, DelegatedSettles, RefundedSettles
  <2>2. CASE ResolveSave(p)
    <3>1. SaveAndEnd(p, RecordNotFound(row, c, prep[c].origin))
      BY <1>1, <2>2 DEF ResolveSave, c
    <3>. QED
      BY <1>1, <1>3, <3>1, NotFoundSettles
  <2>. QED
    BY <2>1, <2>2
<1>. HIDE DEF c
<1>5. MovesOn(row, k)
  BY <1>1, <1>3, <1>4, SettleOne, SettlesOn
<1>. QED
  BY <1>0, <1>4, <1>5, RowSaved

\* refresh saves the backend's word on the bounty.
LEMMA RefreshRow ==
  ASSUME SInv, OneAtATime, NEW p \in Procs, RefreshSave(p)
  PROVE  RowStep(p)
<1>. DEFINE open == sess[p].seen.task = "open"
            has == sess[p].seen.worked
<1>0. sess[p].pc = "refreshing" /\ fate' = fate
  BY DEF RefreshSave, backend
<1>1. sess[p].copy = row /\ row \in TaskContract /\ sess[p] \in Session
  BY <1>0, Sees
<1>2. open \in BOOLEAN /\ has \in BOOLEAN
  BY <1>1 DEF Session, Answer
<1>3. SaveAndEnd(p, RecordRemote(row, open, has))
  BY <1>1 DEF RefreshSave
<1>. HIDE DEF open, has
<1>4. /\ RecordRemote(row, open, has).attempts = row.attempts
      /\ Locked(RecordRemote(row, open, has)) <=> Locked(row)
  BY <1>1, <1>2, RemoteEdit
<1>5. MovesOn(row, RecordRemote(row, open, has))
  BY <1>4 DEF MovesOn
<1>. QED
  BY <1>0, <1>3, <1>4, <1>5, RowSaved

\* A step that ends without saving, or moves on without touching the row.
LEMMA QuietRow ==
  ASSUME SInv, OneAtATime, NEW p \in Procs,
         Abandon(p) \/ CrashWaiting(p) \/ Dispatch(p) \/ GetTask(p)
  PROVE  RowStep(p)
<1>1. CASE Abandon(p) \/ CrashWaiting(p)
  <2>1. sess' = [sess EXCEPT ![p] = Idle] /\ row' = row /\ fate' = fate /\ Idle.pc = "idle"
    BY <1>1 DEF Abandon, CrashWaiting, End, backend, Idle
  <2>. QED
    BY <2>1, RowLeft
<1>2. CASE Dispatch(p)
  <2>. DEFINE s == [sess[p] EXCEPT !.pc = "waiting"]
  <2>1. /\ sess[p].pc = "prepared" /\ row' = row
        /\ fate' = [fate EXCEPT ![sess[p].conf] = "inflight"]
        /\ sess' = [sess EXCEPT ![p].pc = "waiting"]
    BY <1>2 DEF Dispatch
  <2>2. /\ sess[p].copy = row /\ sess[p] \in Session
        /\ sess[p].conf \in Conf /\ fate[sess[p].conf] = "prepared"
    BY <2>1, Sees DEF SessionOK
  <2>3. sess' = [sess EXCEPT ![p] = s] /\ s.copy = row
    BY <2>1, <2>2 DEF Session, SInv, IInv
  <2>4. \A c \in Conf : fate'[c] # "unused" => fate[c] # "unused"
    BY <2>1, <2>2 DEF SInv, IInv, BackendOK
  <2>. HIDE DEF s
  <2>. QED
    BY <2>1, <2>3, <2>4, RowLeft
<1>3. CASE GetTask(p)
  <2>. DEFINE seen == [task |-> task[Asked(sess[p], prep)],
                       worked |-> Asked(sess[p], prep) \in worked]
              s == [sess[p] EXCEPT !.seen = seen]
  <2>1. /\ sess[p].pc # "idle" /\ row' = row /\ fate' = fate
        /\ sess' = [sess EXCEPT ![p].seen = seen]
    BY <1>3 DEF GetTask, backend
  <2>. HIDE DEF seen
  <2>2. sess[p].copy = row /\ sess[p] \in Session
    BY <2>1, Sees
  <2>3. sess' = [sess EXCEPT ![p] = s] /\ s.copy = row
    BY <2>1, <2>2 DEF Session, SInv, IInv
  <2>. HIDE DEF s
  <2>. QED
    BY <2>1, <2>3, RowLeft
<1>. QED
  BY <1>1, <1>2, <1>3

\* Every step of a lone invocation: the ledger moves on, the write-ahead record
\* is there, and only reconcile and resolve unlock.
LEMMA ProcRow ==
  ASSUME SInv, OneAtATime, NEW p \in Procs, ProcStep(p)
  PROVE  RowStep(p)
BY ReadRow, PrepareRow, AnswerRow, UnlockRow, RefreshRow, QuietRow, ProcStep(p) DEF ProcStep

\* The backends touch neither the row nor a copy, and issue no confirmation.
LEMMA BackendRow ==
  ASSUME SInv, NEW c \in Conf, BackendStep(c)
  PROVE  /\ UNCHANGED <<row, sess>>
         /\ \A d \in Conf : fate'[d] # "unused" => fate[d] # "unused"
BY DEF BackendStep, Apply, Doom, HandIn, PayOut, store, SInv, IInv, BackendOK

(***************************************************************************)
(* The invariant and what follows.                                         *)
(***************************************************************************)
\* A contract just created: nothing runs and nothing was prepared.
LEMMA SerialInit == Init => SInv
<1>1. Init => CopyIsRow /\ Written
  BY DEF Init, CopyIsRow, Written, Idle
<1>. QED
  BY <1>1, InitOK DEF SInv

\* Every step keeps the copy the row, and the written record complete.
LEMMA SerialNext ==
  ASSUME OneAtATime
  PROVE  SInv /\ [Next]_vars => SInv'
<1>. SUFFICES ASSUME SInv, [Next]_vars PROVE SInv'
  OBVIOUS
<1>1. IInv'
  BY NextOK DEF SInv
<1>2. CopyIsRow' /\ Written'
  <2>1. ASSUME NEW p \in Procs, ProcStep(p)
        PROVE  CopyIsRow' /\ Written'
    <3>1. RowStep(p)
      BY <2>1, ProcRow
    <3>2. \A c \in Conf : row.attempts[c] # "absent" => row'.attempts[c] # "absent"
      BY <3>1, NoneDropped DEF RowStep, SInv, IInv, CopyOK
    <3>. QED
      BY <3>1, <3>2 DEF RowStep, SInv, Written
  <2>2. ASSUME NEW c \in Conf, BackendStep(c)
        PROVE  CopyIsRow' /\ Written'
    BY <2>2, BackendRow DEF SInv, CopyIsRow, Written
  <2>3. CASE UNCHANGED vars
    BY <2>3 DEF vars, SInv, CopyIsRow, Written
  <2>. QED
    BY <2>1, <2>2, <2>3 DEF Next
<1>. QED
  BY <1>1, <1>2 DEF SInv

\* The inductive invariant holds of every behaviour without overlap.
THEOREM SerialInvariance ==
  ASSUME OneAtATime
  PROVE  Spec => []SInv
BY SerialInit, SerialNext, PTL DEF Spec

\* Whatever was handed to a backend is named in the stored ledger, wherever the
\* invocation that did it died.
THEOREM Audit ==
  ASSUME OneAtATime
  PROVE  Spec => []AuditComplete
<1>1. SInv => AuditComplete
  BY DEF SInv, Written, AuditComplete, Dispatched
<1>. QED
  BY <1>1, SerialInvariance, PTL

\* The row's audit trail only grows: no attempt is dropped, and an outcome
\* moves on from prepared, once, or through ambiguous.
THEOREM LedgerOnlyGrows ==
  ASSUME OneAtATime
  PROVE  Spec => LedgerKept
<1>1. SInv /\ [Next]_vars =>
        [\A c \in Conf : row'.attempts[c] \in {row.attempts[c]} \cup Settles[row.attempts[c]]]_vars
  <2>. SUFFICES ASSUME SInv, Next PROVE MovesOn(row, row')
    BY DEF MovesOn
  <2>1. ASSUME NEW p \in Procs, ProcStep(p)
        PROVE  MovesOn(row, row')
    BY <2>1, ProcRow DEF RowStep
  <2>2. ASSUME NEW c \in Conf, BackendStep(c)
        PROVE  MovesOn(row, row')
    BY <2>2, BackendRow DEF MovesOn
  <2>. QED
    BY <2>1, <2>2 DEF Next
<1>. QED
  BY <1>1, SerialInvariance, PTL DEF Spec, LedgerKept

\* submit_uncertain is left only through reconcile or resolve_uncertain.
THEOREM LockOnlySettled ==
  ASSUME OneAtATime
  PROVE  Spec => LockHeld
<1>1. SInv /\ [Next]_vars =>
        [Locked(row) /\ ~Locked(row') =>
           \E p \in Procs : sess[p].pc \in {"reconciling", "resolving"}]_vars
  <2>. SUFFICES ASSUME SInv, Next, Locked(row), ~Locked(row')
                PROVE  \E p \in Procs : sess[p].pc \in {"reconciling", "resolving"}
    OBVIOUS
  <2>1. ASSUME NEW p \in Procs, ProcStep(p)
        PROVE  sess[p].pc \in {"reconciling", "resolving"}
    BY <2>1, ProcRow DEF RowStep
  <2>2. ASSUME NEW c \in Conf, BackendStep(c)
        PROVE  FALSE
    BY <2>2, BackendRow
  <2>. QED
    BY <2>1, <2>2 DEF Next
<1>. QED
  BY <1>1, SerialInvariance, PTL DEF Spec, LockHeld

(***************************************************************************)
(* If an invocation moreover is never killed while it waits, and a tool    *)
(* error is always a definite refusal, nothing that took or may take       *)
(* effect is forgotten (the runs crash_forgets and indefinite_error show   *)
(* what happens otherwise), and so nothing is paid for twice.              *)
(***************************************************************************)
NeverLost == OneAtATime /\ ~Crashes /\ ~IndefiniteErrors

\* The inductive invariant.
FInv == SInv /\ NothingForgotten

\* What is known of a live confirmation while nobody waits and nothing is
\* locked: it is on record.
LEMMA OnRecord ==
  ASSUME FInv, OneAtATime, NEW p \in Procs, NEW c \in Conf, Live(c),
         ~Locked(row), sess[p].pc = "waiting" => sess[p].conf # c
  PROVE  row.attempts[c] \in Confirmed
BY DEF FInv, NothingForgotten, OneAtATime

\* A confirmed outcome is final.
LEMMA ConfirmedStays ==
  ASSUME SInv, OneAtATime, NEW p \in Procs, ProcStep(p),
         NEW c \in Conf, row.attempts[c] \in Confirmed
  PROVE  row'.attempts[c] \in Confirmed
<1>1. MovesOn(row, row')
  BY ProcRow DEF RowStep
<1>2. Settles["submitted"] = {} /\ Settles["reconciled_confirmed"] = {}
  BY DEF Settles
<1>. QED
  BY <1>1, <1>2 DEF MovesOn, Confirmed

\* An invocation that has a session open saw an unlocked row.
LEMMA OpenUnlocked ==
  ASSUME SInv, NEW p \in Procs, sess[p].pc \in {"opened", "prepared", "waiting"}
  PROVE  /\ ~Locked(row)
         /\ \/ sess[p].op = "task_create" /\ row.status \in DELEGATABLE
            \/ sess[p].op = "task_refund" /\ row.status \in REFUNDABLE
BY Sees DEF SessionOK, Session, MoneyOperation, Locked, DELEGATABLE, REFUNDABLE

\* Steps that neither dispatch nor save.
LEMMA QuietForgets ==
  ASSUME FInv, OneAtATime, NEW p \in Procs, sess[p].pc # "waiting",
         UNCHANGED <<row, fate>>
  PROVE  NothingForgotten'
<1>. SUFFICES ASSUME NEW c \in Conf, Live(c)'
              PROVE  (Locked(row) /\ UncertainAttempt(row) = c) \/ row.attempts[c] \in Confirmed
  BY DEF NothingForgotten
<1>. QED
  BY DEF FInv, NothingForgotten, OneAtATime, Live

\* A confirmation is issued, dispatched or refused.
LEMMA SubmitForgets ==
  ASSUME FInv, NeverLost, NEW p \in Procs, ProcStep(p),
         Prepare(p) \/ Dispatch(p) \/ SubmitRefused(p)
  PROVE  NothingForgotten'
<1>. SUFFICES ASSUME NEW c \in Conf, Live(c)'
              PROVE  \/ sess'[p].pc = "waiting" /\ sess'[p].conf = c
                     \/ row'.attempts[c] \in Confirmed
  BY DEF NothingForgotten
<1>0. SInv /\ OneAtATime
  BY DEF FInv, NeverLost
<1>1. sess[p].pc \in {"opened", "prepared"} /\ ~Locked(row)
  BY <1>0, OpenUnlocked DEF Prepare, MayPrepare, Dispatch, SubmitRefused
<1>2. Live(c) => row'.attempts[c] \in Confirmed
  BY <1>0, <1>1, OnRecord, ConfirmedStays
<1>3. CASE Prepare(p)
  BY <1>0, <1>2, <1>3 DEF Prepare, MayPrepare, Live, SInv, IInv, BackendOK
<1>4. CASE Dispatch(p)
  <2>1. sess[p] \in Session
    BY <1>0, <1>1, Sees
  <2>2. sess'[p].pc = "waiting" /\ sess'[p].conf = sess[p].conf
    BY <1>0, <1>4, <2>1 DEF Dispatch, Session, SInv, IInv
  <2>. QED
    BY <1>0, <1>2, <1>4, <2>2 DEF Dispatch, Live, SInv, IInv, BackendOK
<1>5. CASE SubmitRefused(p)
  BY <1>0, <1>2, <1>5 DEF SubmitRefused, Live, SInv, IInv, BackendOK
<1>. QED
  BY <1>3, <1>4, <1>5

\* The outcome of a submit is recorded, or locks the row.
LEMMA AnswerForgets ==
  ASSUME FInv, IInv', NeverLost, NEW p \in Procs, ProcStep(p),
         AnswerOk(p) \/ AnswerError(p) \/ NoAnswer(p)
  PROVE  NothingForgotten'
<1>. DEFINE d == sess[p].conf
<1>. SUFFICES ASSUME NEW c \in Conf, Live(c)'
              PROVE  \/ Locked(row') /\ UncertainAttempt(row') = c
                     \/ row'.attempts[c] \in Confirmed
  BY DEF NothingForgotten
<1>0. SInv /\ OneAtATime
  BY DEF FInv, NeverLost
<1>1. /\ sess[p].pc = "waiting" /\ ~Locked(row) /\ fate' = fate
      /\ sess[p].copy = row /\ row \in TaskContract
  BY <1>0, OpenUnlocked, Sees DEF AnswerOk, AnswerError, NoAnswer, backend
<1>2. d \in Conf
  BY <1>0, <1>1, HoldsConf DEF SInv
<1>3. c # d => row'.attempts[c] \in Confirmed
  BY <1>0, <1>1, OnRecord, ConfirmedStays DEF Live
<1>4. CASE AnswerOk(p) /\ c = d
  <2>1. \/ row' = RecordDelegated(row, d, prep[d].task, "submitted")
        \/ row' = RecordRefunded(row, d, "submitted")
    BY <1>1, <1>4 DEF AnswerOk, SaveAndEnd
  <2>2. row'.attempts = [row.attempts EXCEPT ![d] = "submitted"]
    BY <1>1, <1>2, <2>1, DelegatedSettles, RefundedSettles
  <2>. QED
    BY <1>1, <1>2, <1>4, <2>2 DEF Confirmed, TaskContract
<1>5. CASE AnswerError(p) /\ c = d
  BY <1>1, <1>5 DEF AnswerError, NeverLost, Live
<1>6. CASE NoAnswer(p) /\ c = d
  <2>1. row' = RecordAmbiguous(row, d)
    BY <1>1, <1>6 DEF NoAnswer, SaveAndEnd
  <2>2. row'.attempts = [row.attempts EXCEPT ![d] = "ambiguous"] /\ Locked(row')
    BY <1>1, <1>2, <2>1, AmbiguousSettles, AmbiguousLeaves DEF Locked
  <2>3. Coherent(row', prep')
    BY DEF IInv, CopyOK
  <2>4. Ambiguous(row') = {UncertainAttempt(row')}
    BY <2>2, <2>3, UncertainIs
  <2>. QED
    BY <1>1, <1>2, <1>6, <2>2, <2>4 DEF Ambiguous, TaskContract
<1>. QED
  BY <1>3, <1>4, <1>5, <1>6

\* The uncertain attempt is confirmed, or known never to take effect.
LEMMA UnlockForgets ==
  ASSUME FInv, NeverLost, NEW p \in Procs, ProcStep(p), ReconcileSave(p) \/ ResolveSave(p)
  PROVE  NothingForgotten'
<1>. DEFINE d == UncertainAttempt(row)
<1>. SUFFICES ASSUME NEW c \in Conf, Live(c)'
              PROVE  row'.attempts[c] \in Confirmed
  BY DEF NothingForgotten
<1>0. SInv /\ OneAtATime
  BY DEF FInv, NeverLost
<1>1. sess[p].pc \in {"reconciling", "resolving"} /\ fate' = fate
  BY DEF ReconcileSave, ResolveSave, backend
<1>2. sess[p].copy = row /\ row \in TaskContract /\ d \in Conf
  BY <1>0, <1>1, Sees, HoldsLock DEF SInv
<1>3. c = d \/ row.attempts[c] \in Confirmed
  BY <1>1 DEF FInv, NothingForgotten, NeverLost, OneAtATime, Live
<1>4. CASE c = d /\ ReconcileSave(p)
  <2>. HIDE DEF d
  <2>1. \/ row' = RecordDelegated(row, d, prep[d].task, "reconciled_confirmed")
        \/ row' = RecordRefunded(row, d, "reconciled_confirmed")
    BY <1>2, <1>4 DEF ReconcileSave, SaveAndEnd, d
  <2>2. row'.attempts = [row.attempts EXCEPT ![d] = "reconciled_confirmed"]
    BY <1>2, <2>1, DelegatedSettles, RefundedSettles
  <2>. QED
    BY <1>2, <1>4, <2>2 DEF Confirmed, TaskContract
<1>5. CASE c = d /\ ResolveSave(p)
  <2>1. sess[p].pc = "resolving"
    BY <1>5 DEF ResolveSave
  <2>2. fate[d] = "doomed"
    BY <1>0, <1>2, <2>1, Sees DEF SessionOK
  <2>. QED
    BY <1>1, <1>5, <2>2 DEF Live
<1>. QED
  BY <1>0, <1>3, <1>4, <1>5, ConfirmedStays

\* refresh leaves the lock on the same attempt.
LEMMA RefreshForgets ==
  ASSUME FInv, OneAtATime, NEW p \in Procs, RefreshSave(p)
  PROVE  NothingForgotten'
<1>. DEFINE open == sess[p].seen.task = "open"
            has == sess[p].seen.worked
            k == RecordRemote(row, open, has)
<1>0. SInv /\ sess[p].pc = "refreshing" /\ fate' = fate
  BY DEF RefreshSave, backend, FInv
<1>1. sess[p].copy = row /\ row \in TaskContract /\ sess[p] \in Session
  BY <1>0, Sees
<1>2. open \in BOOLEAN /\ has \in BOOLEAN
  BY <1>1 DEF Session, Answer
<1>3. row' = k
  BY <1>1 DEF RefreshSave, SaveAndEnd
<1>. HIDE DEF open, has
<1>4. k.attempts = row.attempts /\ (Locked(k) <=> Locked(row))
  BY <1>1, <1>2, RemoteEdit
<1>. HIDE DEF k
<1>5. UncertainAttempt(k) = UncertainAttempt(row)
  BY <1>4 DEF UncertainAttempt, Ambiguous
<1>6. ASSUME NEW c \in Conf, Live(c)'
      PROVE  (Locked(k) /\ UncertainAttempt(k) = c) \/ k.attempts[c] \in Confirmed
  <2>1. sess[p].pc # "waiting" /\ Live(c) /\ \A q \in Procs : q = p
    BY <1>0, <1>6 DEF Live, OneAtATime
  <2>2. (Locked(row) /\ UncertainAttempt(row) = c) \/ row.attempts[c] \in Confirmed
    BY <2>1 DEF FInv, NothingForgotten
  <2>. QED
    BY <1>4, <1>5, <2>2
<1>. QED
  BY <1>3, <1>6 DEF NothingForgotten

\* Every step remembers what took or may take effect.
LEMMA ForgetsNext ==
  ASSUME NeverLost
  PROVE  FInv /\ [Next]_vars => FInv'
<1>. SUFFICES ASSUME FInv, [Next]_vars PROVE FInv'
  OBVIOUS
<1>0. SInv /\ OneAtATime /\ ~Crashes
  BY DEF FInv, NeverLost
<1>1. SInv'
  BY <1>0, SerialNext
<1>2. ASSUME NEW p \in Procs, ProcStep(p)
      PROVE  NothingForgotten'
  <2>1. CASE \/ \E a \in Adapters :
                  \/ OpenDelegation(p, a) \/ OpenRefund(p, a)
                  \/ RefreshRead(p, a) \/ ReconcileRead(p, a)
             \/ \E op \in MoneyOperation : ResolveRead(p, op)
    <3>1. sess[p].pc # "waiting" /\ UNCHANGED <<row, fate>>
      BY <2>1 DEF OpenDelegation, MayDelegate, OpenRefund, RefreshRead, MayRefresh,
         ReconcileRead, MayReconcile, ResolveRead, MayResolve, Begin, backend
    <3>. QED
      BY <1>0, <3>1, QuietForgets
  <2>2. CASE Abandon(p) \/ GetTask(p)
    <3>1. sess[p].pc # "waiting" /\ UNCHANGED <<row, fate>>
      BY <2>2 DEF Abandon, End, GetTask, backend
    <3>. QED
      BY <1>0, <3>1, QuietForgets
  <2>3. CASE Prepare(p) \/ Dispatch(p) \/ SubmitRefused(p)
    BY <1>2, <2>3, SubmitForgets
  <2>4. CASE AnswerOk(p) \/ AnswerError(p) \/ NoAnswer(p)
    BY <1>1, <1>2, <2>4, AnswerForgets DEF SInv
  <2>5. CASE ReconcileSave(p) \/ ResolveSave(p)
    BY <1>2, <2>5, UnlockForgets
  <2>6. CASE RefreshSave(p)
    BY <1>0, <2>6, RefreshForgets
  <2>7. CASE CrashWaiting(p)
    BY <1>0, <2>7 DEF CrashWaiting
  <2>. QED
    BY <1>2, <2>1, <2>2, <2>3, <2>4, <2>5, <2>6, <2>7 DEF ProcStep
<1>3. ASSUME NEW c \in Conf, BackendStep(c)
      PROVE  NothingForgotten'
  <2>1. UNCHANGED <<row, sess>>
    BY <1>0, <1>3, BackendRow
  <2>2. \A d \in Conf : Live(d)' => Live(d)
    BY <1>0, <1>3 DEF Live, BackendStep, Apply, Doom, HandIn, PayOut, SInv, IInv, BackendOK
  <2>. QED
    BY <2>1, <2>2 DEF FInv, NothingForgotten
<1>4. ASSUME UNCHANGED vars
      PROVE  NothingForgotten'
  BY <1>4 DEF vars, FInv, NothingForgotten, Live
<1>5. NothingForgotten'
  BY <1>2, <1>3, <1>4 DEF Next
<1>. QED
  BY <1>1, <1>5 DEF FInv

\* The inductive invariant holds of every such behaviour.
THEOREM ForgetsInvariance ==
  ASSUME NeverLost
  PROVE  Spec => []FInv
<1>1. Init => FInv
  BY SerialInit DEF Init, FInv, NothingForgotten, Live
<1>. QED
  BY <1>1, ForgetsNext, PTL DEF Spec

\* Whatever took effect or still may is awaited, or locks the row, or is on
\* record there.
THEOREM Remembered ==
  ASSUME NeverLost
  PROVE  Spec => []NothingForgotten
<1>1. FInv => NothingForgotten
  BY DEF FInv
<1>. QED
  BY <1>1, ForgetsInvariance, PTL

\* A live operation is the one awaited, while the row names neither its result
\* nor another live one; or it locks the row, likewise; or the row names it.
LEMMA LiveIs ==
  ASSUME FInv, OneAtATime, NEW c \in Conf, Live(c)
  PROVE  /\ prep[c].op \in MoneyOperation
         /\ \/ \E p \in Procs :
                 /\ sess[p].pc = "waiting" /\ sess[p].conf = c /\ ~Locked(row)
                 /\ IF prep[c].op = "task_create" THEN row.delegation = NoId ELSE row.refund = NoId
            \/ /\ Locked(row) /\ UncertainAttempt(row) = c
               /\ IF prep[c].op = "task_create" THEN row.delegation = NoId ELSE row.refund = NoId
               /\ \A p \in Procs : sess[p].pc # "waiting"
            \/ c = IF prep[c].op = "task_create" THEN row.delegation ELSE row.refund
<1>0. SInv /\ Coherent(row, prep) /\ row \in TaskContract /\ BackendOK(prep, fate, task)
  BY DEF FInv, SInv, IInv, CopyOK
<1>1. prep[c].op \in MoneyOperation /\ c # NoId
  BY <1>0, MaxPreparesAssumption DEF BackendOK, Live, Confirmation, Conf, NoId
<1>2. ASSUME NEW p \in Procs, sess[p].pc = "waiting", sess[p].conf = c
      PROVE  /\ ~Locked(row)
             /\ IF prep[c].op = "task_create" THEN row.delegation = NoId ELSE row.refund = NoId
  <2>1. /\ ~Locked(row) /\ prep[c].op = sess[p].op
        /\ \/ sess[p].op = "task_create" /\ row.status \in DELEGATABLE
           \/ sess[p].op = "task_refund" /\ row.status \in REFUNDABLE
    BY <1>0, <1>2, OpenUnlocked, HoldsConf DEF SInv
  <2>. QED
    BY <1>0, <2>1 DEF Coherent, DELEGATABLE, REFUNDABLE
<1>3. ASSUME Locked(row), UncertainAttempt(row) = c
      PROVE  /\ IF prep[c].op = "task_create" THEN row.delegation = NoId ELSE row.refund = NoId
             /\ \A p \in Procs : sess[p].pc # "waiting"
  <2>1. c \in Ambiguous(row)
    BY <1>0, <1>3, UncertainIs
  <2>2. row.status = "submit_uncertain"
    BY <1>3 DEF Locked
  <2>. QED
    BY <1>0, <1>3, <2>1, <2>2, OpenUnlocked DEF Coherent
<1>4. ASSUME row.attempts[c] \in Confirmed
      PROVE  c = IF prep[c].op = "task_create" THEN row.delegation ELSE row.refund
  BY <1>0, <1>1, <1>4 DEF Coherent
<1>. QED
  BY <1>1, <1>2, <1>3, <1>4 DEF FInv, NothingForgotten

\* Two live operations of one kind are one.
LEMMA OneOfAKind ==
  ASSUME FInv, OneAtATime, NEW c \in Conf, NEW d \in Conf, Live(c), Live(d),
         prep[c].op = prep[d].op
  PROVE  c = d
<1>1. c # NoId /\ d # NoId
  BY MaxPreparesAssumption DEF Conf, NoId
<1>. QED
  BY <1>1, LiveIs DEF OneAtATime

\* The bounty is funded once: no two task_create confirmations of the contract
\* take effect, or are on their way to.
THEOREM FundedOnlyOnce ==
  ASSUME NeverLost
  PROVE  Spec => []FundedOnce
<1>1. FInv => FundedOnce
  BY OneOfAKind DEF FundedOnce, NeverLost
<1>. QED
  BY <1>1, ForgetsInvariance, PTL

\* Nor is a refund asked for twice.
THEOREM RefundedOnlyOnce ==
  ASSUME NeverLost
  PROVE  Spec => []RefundAskedOnce
<1>1. FInv => RefundAskedOnce
  BY OneOfAKind DEF RefundAskedOnce, NeverLost
<1>. QED
  BY <1>1, ForgetsInvariance, PTL
=============================================================================
