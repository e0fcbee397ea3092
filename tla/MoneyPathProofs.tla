--------------------------- MODULE MoneyPathProofs ---------------------------
(***************************************************************************)
(* Theorems of MoneyPath, for every set of overlapping invocations, every  *)
(* set of adapters and any number of confirmations, with crashes and       *)
(* indefinite errors or without.                                           *)
(*                                                                         *)
(* None of the invariants is inductive alone.  A saved copy overwrites the *)
(* row, so what must hold of the row must hold of every copy (CopyOK); a   *)
(* copy stays sound while the backends move on only if they never take     *)
(* back what it relies on (Grows); and a save after an answer is sound     *)
(* only because the invocation still holds its own prepared attempt, which *)
(* nobody else submits or edits in that copy (SessionOK, OwnConf).  IInv   *)
(* is their conjunction with what ties the bounties at the backends to the *)
(* confirmations that took effect (BackendOK).                             *)
(***************************************************************************)
EXTENDS MoneyPath, TLAPS

\* An attempt on record was prepared; a failed one is doomed, unless a tool
\* error may come back for a submit that can still take effect.
LedgerOK(k, fates) ==
  \A c \in Conf :
    /\ k.attempts[c] # "absent" => fates[c] # "unused"
    /\ k.attempts[c] = "failed" => fates[c] = "doomed" \/ IndefiniteErrors

\* A contract that may be the row: consistent with itself and truthful.
CopyOK(k, confs, fates, tasks) ==
  /\ k \in TaskContract
  /\ Coherent(k, confs)
  /\ TruthfulCopy(k, confs, fates, tasks)
  /\ LedgerOK(k, fates)

\* What an invocation knows at each point of its run, from the row it read.
SessionOK(s, confs, fates, tasks) ==
  /\ s \in Session
  /\ s.pc \in {"opened", "prepared", "waiting"} =>
       IF s.op = "task_create" THEN s.copy.status \in DELEGATABLE
       ELSE s.copy.status \in REFUNDABLE
  /\ s.pc \in {"opened", "refreshing", "reconciling"} => s.via \in Adapters
  /\ s.pc \in {"prepared", "waiting"} =>
       /\ s.conf \in Conf
       /\ confs[s.conf].op = s.op
       /\ confs[s.conf].origin = s.copy.status
       /\ confs[s.conf].task = IF s.op = "task_create" THEN s.conf ELSE s.copy.delegation
       /\ s.copy.attempts[s.conf] = "prepared"
  /\ s.pc = "prepared" => fates[s.conf] = "prepared"
  /\ s.pc = "waiting" => fates[s.conf] \in Dispatched
  /\ s.pc \in {"reconciling", "resolving"} => Locked(s.copy)
  /\ s.pc = "resolving" => fates[UncertainAttempt(s.copy)] = "doomed"
  /\ s.pc = "refreshing" => s.copy.delegation # NoId
  /\ s.seen # NoAnswerYet =>
       /\ s.pc \in {"refreshing", "reconciling"}
       /\ s.seen.task # "none"
       /\ tasks[Asked(s, confs)] # "none"
       /\ s.seen.task \in Over => tasks[Asked(s, confs)] \in Over

\* The bounties at the backends are those of the confirmations that took effect.
BackendOK(confs, fates, tasks) ==
  /\ confs \in [Conf -> Confirmation \cup {Unprepared}]
  /\ fates \in [Conf -> Fate]
  /\ tasks \in [Conf -> TaskState]
  /\ \A c \in Conf :
       /\ fates[c] # "unused" => confs[c] \in Confirmation
       /\ confs[c].op = "task_create" => confs[c].task = c
       /\ tasks[c] # "none" => fates[c] = "applied" /\ confs[c].op = "task_create"
       /\ fates[c] = "applied" =>
            IF confs[c].op = "task_create" THEN tasks[c] # "none"
            ELSE tasks[confs[c].task] = "refunded"

\* No two invocations hold one confirmation.
OwnConf ==
  \A p, q \in Procs :
    /\ sess[p].pc \in {"prepared", "waiting"}
    /\ sess[q].pc \in {"prepared", "waiting"}
    /\ sess[p].conf = sess[q].conf
    => p = q

\* The inductive invariant.
IInv ==
  /\ worked \in SUBSET Conf
  /\ BackendOK(prep, fate, task)
  /\ CopyOK(row, prep, fate, task)
  /\ sess \in [Procs -> Session]
  /\ \A p \in Procs :
       SessionOK(sess[p], prep, fate, task) /\ CopyOK(sess[p].copy, prep, fate, task)
  /\ OwnConf

(***************************************************************************)
(* Lemmas about the pieces.                                                *)
(***************************************************************************)

\* From one backend state to a later one: what was fixed stays fixed, what was
\* dispatched stays dispatched, applied, doomed and over are final.
Grows(confs, fates, tasks, confs2, fates2, tasks2) ==
  \A c \in Conf :
    /\ fates[c] # "unused" => confs2[c] = confs[c] /\ fates2[c] # "unused"
    /\ fates[c] \in {"applied", "doomed"} => fates2[c] = fates[c]
    /\ fates[c] \in Dispatched => fates2[c] \in Dispatched
    /\ tasks[c] # "none" => tasks2[c] # "none"
    /\ tasks[c] \in Over => tasks2[c] = tasks[c]

\* The uncertain attempt of a locked contract is its one ambiguous attempt.
LEMMA UncertainIs ==
  ASSUME NEW k, NEW confs, Coherent(k, confs), Locked(k)
  PROVE  /\ UncertainAttempt(k) \in Conf
         /\ Ambiguous(k) = {UncertainAttempt(k)}
         /\ k.attempts[UncertainAttempt(k)] = "ambiguous"
<1>1. PICK c \in Conf : Ambiguous(k) = {c}
  BY DEF Coherent
<1>2. UncertainAttempt(k) = CHOOSE d \in {c} : \A e \in {c} : e <= d
  BY <1>1 DEF UncertainAttempt
<1>3. c <= c
  BY <1>1, MaxPreparesAssumption DEF Conf
<1>4. UncertainAttempt(k) = c
  BY <1>2, <1>3
<1>. QED
  BY <1>1, <1>4 DEF Ambiguous

\* A sound copy of the contract stays sound while the backends move on.
LEMMA CopyKept ==
  ASSUME NEW k, NEW confs, NEW fates, NEW tasks,
         NEW confs2, NEW fates2, NEW tasks2,
         BackendOK(confs, fates, tasks),
         Grows(confs, fates, tasks, confs2, fates2, tasks2),
         CopyOK(k, confs, fates, tasks)
  PROVE  CopyOK(k, confs2, fates2, tasks2)
<1>1. k \in TaskContract
  BY DEF CopyOK
<1>2. \A c \in Conf : k.attempts[c] # "absent" =>
         /\ fates[c] # "unused"
         /\ confs2[c] = confs[c]
         /\ confs[c] \in Confirmation
  BY DEF CopyOK, LedgerOK, Grows, BackendOK
<1>3. Coherent(k, confs2)
  <2>1. \A c \in Conf : k.attempts[c] \in Confirmed \cup {"ambiguous"} => confs2[c] = confs[c]
    BY <1>2 DEF Confirmed
  <2>2. \A c \in Ambiguous(k) : c \in Conf /\ confs2[c] = confs[c]
    BY <2>1 DEF Ambiguous
  <2>3. k.delegation # NoId => confs2[k.delegation] = confs[k.delegation]
    BY <1>1, <2>1 DEF CopyOK, Coherent, TaskContract
  <2>4. k.refund # NoId => confs2[k.refund] = confs[k.refund]
    BY <1>1, <2>1 DEF CopyOK, Coherent, TaskContract
  <2>. QED
    BY <2>2, <2>3, <2>4 DEF CopyOK, Coherent
<1>4. TruthfulCopy(k, confs2, fates2, tasks2)
  <2>1. \A c \in Conf : k.attempts[c] # "absent" => confs2[c] = confs[c] /\ confs[c].task \in Conf
    BY <1>2 DEF Confirmation
  <2>. QED
    BY <1>1, <2>1 DEF CopyOK, TruthfulCopy, Grows, TaskContract
<1>5. LedgerOK(k, fates2)
  BY DEF CopyOK, LedgerOK, Grows
<1>. QED
  BY <1>1, <1>3, <1>4, <1>5 DEF CopyOK

(***************************************************************************)
(* The edits keep a copy consistent and truthful, each under what the      *)
(* action that makes it knows.                                             *)
(***************************************************************************)
\* MoneySession.prepare appends an attempt the copy did not have.
LEMMA PreparedOK ==
  ASSUME NEW k, NEW confs, NEW fates, NEW tasks, NEW c \in Conf,
         CopyOK(k, confs, fates, tasks), k.attempts[c] = "absent", fates[c] # "unused"
  PROVE  CopyOK(RecordPrepared(k, c), confs, fates, tasks)
<1>. DEFINE k2 == RecordPrepared(k, c)
<1>1. k2 \in TaskContract
  BY DEF RecordPrepared, CopyOK, TaskContract, AttemptOutcome
<1>2. /\ \A d \in Conf : d # c => k2.attempts[d] = k.attempts[d]
      /\ k2.attempts[c] = "prepared"
      /\ k2.status = k.status /\ k2.delegation = k.delegation
      /\ k2.refund = k.refund /\ k2.remote = k.remote
  BY DEF RecordPrepared, CopyOK, TaskContract
<1>3. Ambiguous(k2) = Ambiguous(k)
  BY <1>2 DEF Ambiguous
<1>4. Coherent(k2, confs)
  BY <1>2, <1>3 DEF CopyOK, Coherent, Confirmed, TaskContract, Locked
<1>5. TruthfulCopy(k2, confs, fates, tasks)
  BY <1>2 DEF CopyOK, TruthfulCopy
<1>6. LedgerOK(k2, fates)
  BY <1>2 DEF CopyOK, LedgerOK
<1>. QED
  BY <1>1, <1>4, <1>5, <1>6 DEF CopyOK

\* MoneySession.submit records a definite refusal.
LEMMA FailedOK ==
  ASSUME NEW k, NEW confs, NEW fates, NEW tasks, NEW c \in Conf,
         CopyOK(k, confs, fates, tasks), k.attempts[c] = "prepared",
         fates[c] = "doomed" \/ IndefiniteErrors
  PROVE  CopyOK(RecordFailed(k, c), confs, fates, tasks)
<1>. DEFINE k2 == RecordFailed(k, c)
<1>1. k2 \in TaskContract
  BY DEF RecordFailed, CopyOK, TaskContract, AttemptOutcome
<1>2. /\ \A d \in Conf : d # c => k2.attempts[d] = k.attempts[d]
      /\ k2.attempts[c] = "failed"
      /\ k2.status = k.status /\ k2.delegation = k.delegation
      /\ k2.refund = k.refund /\ k2.remote = k.remote
  BY DEF RecordFailed, CopyOK, TaskContract
<1>3. Ambiguous(k2) = Ambiguous(k)
  BY <1>2 DEF Ambiguous
<1>4. Coherent(k2, confs)
  BY <1>2, <1>3 DEF CopyOK, Coherent, Confirmed, TaskContract, Locked
<1>5. TruthfulCopy(k2, confs, fates, tasks)
  BY <1>2 DEF CopyOK, TruthfulCopy
<1>6. LedgerOK(k2, fates)
  BY <1>2 DEF CopyOK, LedgerOK
<1>. QED
  BY <1>1, <1>4, <1>5, <1>6 DEF CopyOK

\* MoneySession.submit locks the contract on an unknown outcome.
LEMMA AmbiguousOK ==
  ASSUME NEW k, NEW confs, NEW fates, NEW tasks, NEW c \in Conf,
         CopyOK(k, confs, fates, tasks), k.attempts[c] = "prepared",
         fates[c] \in Dispatched,
         confs[c].origin = k.status,
         \/ confs[c].op = "task_create" /\ k.status \in DELEGATABLE
         \/ /\ confs[c].op = "task_refund" /\ k.status \in REFUNDABLE
            /\ confs[c].task = k.delegation
  PROVE  CopyOK(RecordAmbiguous(k, c), confs, fates, tasks)
<1>. DEFINE k2 == RecordAmbiguous(k, c)
<1>1. k2 \in TaskContract
  BY DEF RecordAmbiguous, CopyOK, TaskContract, AttemptOutcome, Status
<1>2. /\ \A d \in Conf : d # c => k2.attempts[d] = k.attempts[d]
      /\ k2.attempts[c] = "ambiguous"
      /\ k2.status = "submit_uncertain" /\ k2.delegation = k.delegation
      /\ k2.refund = k.refund /\ k2.remote = k.remote
  BY DEF RecordAmbiguous, CopyOK, TaskContract
<1>3. Ambiguous(k2) = {c}
  <2>1. Ambiguous(k) = {}
    BY DEF CopyOK, Coherent, Locked, DELEGATABLE, REFUNDABLE
  <2>. QED
    BY <1>2, <2>1 DEF Ambiguous
<1>4. Coherent(k2, confs)
  BY <1>1, <1>2, <1>3 DEF CopyOK, Coherent, Confirmed, TaskContract, Locked, DELEGATABLE, REFUNDABLE
<1>5. TruthfulCopy(k2, confs, fates, tasks)
  BY <1>2 DEF CopyOK, TruthfulCopy
<1>6. LedgerOK(k2, fates)
  BY <1>2 DEF CopyOK, LedgerOK, Dispatched
<1>. QED
  BY <1>1, <1>4, <1>5, <1>6 DEF CopyOK

\* submit or reconcile records the bounty that an applied task_create made.
LEMMA DelegatedOK ==
  ASSUME NEW k, NEW confs, NEW fates, NEW tasks, NEW c \in Conf,
         NEW outcome \in Confirmed,
         CopyOK(k, confs, fates, tasks), BackendOK(confs, fates, tasks),
         \/ k.attempts[c] = "prepared" /\ k.status \in DELEGATABLE
         \/ Locked(k) /\ Ambiguous(k) = {c},
         fates[c] = "applied", confs[c].op = "task_create"
  PROVE  CopyOK(RecordDelegated(k, c, confs[c].task, outcome), confs, fates, tasks)
<1>. DEFINE k2 == RecordDelegated(k, c, confs[c].task, outcome)
<1>0. confs[c].task = c
  BY DEF BackendOK
<1>1. k2 \in TaskContract
  BY <1>0 DEF RecordDelegated, CopyOK, TaskContract, AttemptOutcome, Status, Confirmed
<1>2. /\ \A d \in Conf : d # c => k2.attempts[d] = k.attempts[d]
      /\ k2.attempts[c] = outcome
      /\ k2.status = "delegated" /\ k2.delegation = c
      /\ k2.refund = k.refund /\ k2.remote = k.remote
  BY <1>0 DEF RecordDelegated, CopyOK, TaskContract
<1>3. Ambiguous(k2) = {}
  <2>1. Ambiguous(k) \subseteq {c}
    BY DEF CopyOK, Coherent, Locked, DELEGATABLE
  <2>. QED
    BY <1>2, <2>1 DEF Ambiguous, Confirmed
<1>4. k.delegation = NoId /\ k.refund = NoId
  BY DEF CopyOK, Coherent, Locked, DELEGATABLE
<1>5. Coherent(k2, confs)
  BY <1>1, <1>2, <1>3, <1>4 DEF CopyOK, Coherent, Confirmed, TaskContract, Locked, NoId, Conf
<1>6. TruthfulCopy(k2, confs, fates, tasks)
  BY <1>2, <1>4 DEF CopyOK, TruthfulCopy, BackendOK, Confirmed
<1>7. LedgerOK(k2, fates)
  BY <1>2 DEF CopyOK, LedgerOK, Confirmed
<1>. QED
  BY <1>1, <1>5, <1>6, <1>7 DEF CopyOK

\* submit or reconcile records a refund: submit of one that took effect,
\* reconcile of a bounty that is no longer open.
LEMMA RefundedOK ==
  ASSUME NEW k, NEW confs, NEW fates, NEW tasks, NEW c \in Conf,
         NEW outcome \in Confirmed,
         CopyOK(k, confs, fates, tasks), BackendOK(confs, fates, tasks),
         \/ k.attempts[c] = "prepared" /\ k.status \in REFUNDABLE
         \/ Locked(k) /\ Ambiguous(k) = {c},
         confs[c].op = "task_refund", confs[c].task = k.delegation,
         fates[c] # "unused",
         IF outcome = "submitted" THEN fates[c] = "applied"
         ELSE tasks[confs[c].task] \in Over
  PROVE  CopyOK(RecordRefunded(k, c, outcome), confs, fates, tasks)
<1>. DEFINE k2 == RecordRefunded(k, c, outcome)
<1>1. k2 \in TaskContract
  BY DEF RecordRefunded, CopyOK, TaskContract, AttemptOutcome, Status, Confirmed
<1>2. /\ \A d \in Conf : d # c => k2.attempts[d] = k.attempts[d]
      /\ k2.attempts[c] = outcome
      /\ k2.status = "closed" /\ k2.delegation = k.delegation
      /\ k2.refund = c /\ k2.remote = k.remote
  BY DEF RecordRefunded, CopyOK, TaskContract
<1>3. Ambiguous(k2) = {}
  <2>1. Ambiguous(k) \subseteq {c}
    BY DEF CopyOK, Coherent, Locked, REFUNDABLE
  <2>. QED
    BY <1>2, <2>1 DEF Ambiguous, Confirmed
<1>4. k.delegation # NoId /\ k.refund = NoId /\ k.delegation # c
  <2>1. c # NoId
    BY MaxPreparesAssumption DEF Conf, NoId
  <2>2. confs[c].task \in Conf
    BY DEF BackendOK, Confirmation
  <2>3. k.delegation # NoId
    BY <2>2, MaxPreparesAssumption DEF Conf, NoId
  <2>. QED
    BY <2>3 DEF CopyOK, Coherent, Locked, REFUNDABLE
<1>5. Coherent(k2, confs)
  BY <1>1, <1>2, <1>3, <1>4 DEF CopyOK, Coherent, Confirmed, TaskContract, Locked, NoId, Conf
<1>6. TruthfulCopy(k2, confs, fates, tasks)
  BY <1>2, <1>4 DEF CopyOK, TruthfulCopy, Confirmed
<1>7. LedgerOK(k2, fates)
  BY <1>2 DEF CopyOK, LedgerOK, Confirmed
<1>. QED
  BY <1>1, <1>5, <1>6, <1>7 DEF CopyOK

\* resolve_uncertain unlocks a copy whose ambiguous attempt is doomed.
LEMMA NotFoundOK ==
  ASSUME NEW k, NEW confs, NEW fates, NEW tasks, NEW c \in Conf,
         CopyOK(k, confs, fates, tasks), BackendOK(confs, fates, tasks),
         Locked(k), Ambiguous(k) = {c}, fates[c] = "doomed"
  PROVE  CopyOK(RecordNotFound(k, c, confs[c].origin), confs, fates, tasks)
<1>. DEFINE k2 == RecordNotFound(k, c, confs[c].origin)
<1>0. confs[c].origin \in Status
  BY DEF BackendOK, Confirmation
<1>1. k2 \in TaskContract
  BY <1>0 DEF RecordNotFound, CopyOK, TaskContract, AttemptOutcome
<1>2. /\ \A d \in Conf : d # c => k2.attempts[d] = k.attempts[d]
      /\ k2.attempts[c] = "reconciled_not_found"
      /\ k2.status = confs[c].origin /\ k2.delegation = k.delegation
      /\ k2.refund = k.refund /\ k2.remote = k.remote
  BY DEF RecordNotFound, CopyOK, TaskContract
<1>3. Ambiguous(k2) = {}
  BY <1>2 DEF Ambiguous
<1>4. k.attempts[c] = "ambiguous"
  BY DEF Ambiguous
<1>5. Coherent(k2, confs)
  BY <1>1, <1>2, <1>3, <1>4
     DEF CopyOK, Coherent, Confirmed, TaskContract, Locked, DELEGATABLE, REFUNDABLE
<1>6. TruthfulCopy(k2, confs, fates, tasks)
  BY <1>2 DEF CopyOK, TruthfulCopy
<1>7. LedgerOK(k2, fates)
  BY <1>2 DEF CopyOK, LedgerOK
<1>. QED
  BY <1>1, <1>5, <1>6, <1>7 DEF CopyOK

\* refresh records what the backend says of the bounty.
LEMMA RemoteOK ==
  ASSUME NEW k, NEW confs, NEW fates, NEW tasks, NEW has \in BOOLEAN,
         NEW open \in BOOLEAN,
         CopyOK(k, confs, fates, tasks),
         k.delegation # NoId, open \/ tasks[k.delegation] \in Over
  PROVE  CopyOK(RecordRemote(k, open, has), confs, fates, tasks)
<1>. DEFINE k2 == RecordRemote(k, open, has)
            r  == IF open THEN "open" ELSE "closed"
            st == IF k.status = "delegated" /\ has THEN "submitted" ELSE k.status
<1>0. /\ k \in TaskContract
      /\ k2 = [k EXCEPT !.remote = r, !.status = st]
      /\ r \in {"open", "closed"} /\ st \in Status
  BY DEF RecordRemote, CopyOK, TaskContract, Status
<1>1. k2 \in TaskContract
  BY <1>0 DEF TaskContract
<1>2. /\ k2.attempts = k.attempts
      /\ k2.status = k.status \/ (k.status = "delegated" /\ k2.status = "submitted")
      /\ k2.delegation = k.delegation /\ k2.refund = k.refund
      /\ k2.remote = r
  <2>1. k2.status = st /\ k2.attempts = k.attempts /\ k2.remote = r
        /\ k2.delegation = k.delegation /\ k2.refund = k.refund
    BY <1>0 DEF TaskContract
  <2>2. st = k.status \/ (k.status = "delegated" /\ st = "submitted")
    OBVIOUS
  <2>. HIDE DEF k2, r, st
  <2>. QED
    BY <2>1, <2>2
<1>3. Ambiguous(k2) = Ambiguous(k)
  BY <1>2 DEF Ambiguous
<1>4. Coherent(k2, confs)
  BY <1>2, <1>3 DEF CopyOK, Coherent, Locked
<1>5. TruthfulCopy(k2, confs, fates, tasks)
  BY <1>2 DEF CopyOK, TruthfulCopy
<1>6. LedgerOK(k2, fates)
  BY <1>2 DEF CopyOK, LedgerOK
<1>. QED
  BY <1>1, <1>4, <1>5, <1>6 DEF CopyOK

\* create_contract's contract claims nothing.
LEMMA NewContractOK ==
  ASSUME NEW confs, NEW fates, NEW tasks, NEW status \in {"ready", "draft"}
  PROVE  CopyOK(NewContract(status), confs, fates, tasks)
<1>1. NewContract(status) \in TaskContract
  BY DEF NewContract, TaskContract, Status, NoId
<1>2. Ambiguous(NewContract(status)) = {}
  BY DEF NewContract, Ambiguous
<1>. QED
  BY <1>1, <1>2 DEF NewContract, CopyOK, Coherent, TruthfulCopy, LedgerOK, Locked, Confirmed, NoId

\* The bounty that refresh or reconcile asks for is one a confirmation names.
LEMMA AskedFor ==
  ASSUME NEW s, NEW confs, NEW fates, NEW tasks,
         BackendOK(confs, fates, tasks), SessionOK(s, confs, fates, tasks),
         CopyOK(s.copy, confs, fates, tasks), s.pc \in {"refreshing", "reconciling"}
  PROVE  /\ Asked(s, confs) \in Conf
         /\ s.pc = "reconciling" =>
              UncertainAttempt(s.copy) \in Conf /\ fates[UncertainAttempt(s.copy)] # "unused"
<1>1. CASE s.pc = "refreshing"
  BY <1>1 DEF SessionOK, CopyOK, TaskContract, Asked
<1>2. CASE s.pc = "reconciling"
  <2>. DEFINE c == UncertainAttempt(s.copy)
  <2>1. c \in Conf /\ s.copy.attempts[c] = "ambiguous"
    BY <1>2, UncertainIs DEF SessionOK, CopyOK
  <2>2. Asked(s, confs) = confs[c].task
    BY <1>2 DEF Asked
  <2>. HIDE DEF c
  <2>3. fates[c] # "unused"
    BY <2>1 DEF CopyOK, LedgerOK
  <2>4. confs[c].task \in Conf
    BY <2>1, <2>3 DEF BackendOK, Confirmation
  <2>. QED
    BY <1>2, <2>1, <2>2, <2>3, <2>4 DEF c
<1>. QED
  BY <1>1, <1>2

(***************************************************************************)
(* A session is not disturbed by what others do, as long as nobody else    *)
(* touches its confirmation before it is dispatched.                       *)
(***************************************************************************)
\* What an invocation knows, a step that leaves its confirmation alone keeps.
LEMMA SessionKept ==
  ASSUME NEW s, NEW confs, NEW fates, NEW tasks,
         NEW confs2, NEW fates2, NEW tasks2,
         BackendOK(confs, fates, tasks),
         Grows(confs, fates, tasks, confs2, fates2, tasks2),
         SessionOK(s, confs, fates, tasks), CopyOK(s.copy, confs, fates, tasks),
         s.pc = "prepared" => fates2[s.conf] = "prepared"
  PROVE  SessionOK(s, confs2, fates2, tasks2)
<1>1. s.pc \in {"prepared", "waiting"} =>
         s.conf \in Conf /\ fates[s.conf] # "unused" /\ confs2[s.conf] = confs[s.conf]
  BY DEF SessionOK, Grows, Dispatched
<1>2. s.pc = "waiting" => fates2[s.conf] \in Dispatched
  BY <1>1 DEF SessionOK, Grows
<1>3. s.pc = "resolving" => fates2[UncertainAttempt(s.copy)] = "doomed"
  <2>. SUFFICES ASSUME s.pc = "resolving"
                PROVE  fates2[UncertainAttempt(s.copy)] = "doomed"
    OBVIOUS
  <2>1. UncertainAttempt(s.copy) \in Conf
    BY UncertainIs DEF SessionOK, CopyOK
  <2>. QED
    BY <2>1 DEF SessionOK, Grows
<1>4. s.seen # NoAnswerYet =>
        /\ s.pc \in {"refreshing", "reconciling"}
        /\ tasks2[Asked(s, confs2)] # "none"
        /\ s.seen.task \in Over => tasks2[Asked(s, confs2)] \in Over
  <2>. SUFFICES ASSUME s.seen # NoAnswerYet
                PROVE  /\ s.pc \in {"refreshing", "reconciling"}
                       /\ tasks2[Asked(s, confs2)] # "none"
                       /\ s.seen.task \in Over => tasks2[Asked(s, confs2)] \in Over
    OBVIOUS
  <2>1. /\ s.pc \in {"refreshing", "reconciling"}
        /\ tasks[Asked(s, confs)] # "none"
        /\ s.seen.task \in Over => tasks[Asked(s, confs)] \in Over
    BY DEF SessionOK
  <2>2. /\ Asked(s, confs) \in Conf
        /\ s.pc = "reconciling" =>
             UncertainAttempt(s.copy) \in Conf /\ fates[UncertainAttempt(s.copy)] # "unused"
    BY <2>1, AskedFor
  <2>3. Asked(s, confs2) = Asked(s, confs)
    BY <2>1, <2>2 DEF Asked, Grows
  <2>. QED
    BY <2>1, <2>2, <2>3 DEF Grows
<1>. QED
  BY <1>1, <1>2, <1>3, <1>4 DEF SessionOK

\* An invocation that is not running holds nothing.
LEMMA IdleOK ==
  ASSUME NEW confs, NEW fates, NEW tasks
  PROVE  SessionOK(Idle, confs, fates, tasks) /\ CopyOK(Idle.copy, confs, fates, tasks)
<1>1. CopyOK(NewContract("draft"), confs, fates, tasks)
  BY NewContractOK
<1>2. Idle \in Session
  BY <1>1 DEF Idle, Session, PC, MoneyOperation, NoId, CopyOK, NoAnswerYet, Answer, TaskState
<1>. QED
  BY <1>1, <1>2 DEF Idle, SessionOK

(***************************************************************************)
(* Every step of an invocation p has this shape, so the proof for each     *)
(* action below is about what p itself changes.                            *)
(***************************************************************************)
\* A step that changes one session, and the rest soundly, keeps the invariant.
LEMMA OneSessionStep ==
  ASSUME IInv, NEW p \in Procs,
         sess' = [sess EXCEPT ![p] = sess'[p]],
         worked' = worked,
         BackendOK(prep', fate', task'),
         Grows(prep, fate, task, prep', fate', task'),
         CopyOK(row', prep', fate', task'),
         SessionOK(sess'[p], prep', fate', task'),
         CopyOK(sess'[p].copy, prep', fate', task'),
         \A q \in Procs \ {p} :
           /\ sess[q].pc = "prepared" => fate'[sess[q].conf] = "prepared"
           /\ sess[q].pc \in {"prepared", "waiting"} /\ sess'[p].pc \in {"prepared", "waiting"}
                => sess[q].conf # sess'[p].conf
  PROVE  IInv'
<1>1. \A q \in Procs \ {p} : sess'[q] = sess[q]
  BY DEF IInv
<1>2. sess' \in [Procs -> Session]
  BY DEF IInv, SessionOK
<1>3. ASSUME NEW q \in Procs
      PROVE  SessionOK(sess'[q], prep', fate', task') /\ CopyOK(sess'[q].copy, prep', fate', task')
  <2>1. CASE q = p
    BY <2>1
  <2>2. CASE q # p
    <3>1. SessionOK(sess[q], prep, fate, task) /\ CopyOK(sess[q].copy, prep, fate, task)
      BY DEF IInv
    <3>2. BackendOK(prep, fate, task)
      BY DEF IInv
    <3>3. SessionOK(sess[q], prep', fate', task')
      BY <2>2, <3>1, <3>2, SessionKept
    <3>4. CopyOK(sess[q].copy, prep', fate', task')
      BY <3>1, <3>2, CopyKept
    <3>. QED
      BY <1>1, <2>2, <3>3, <3>4
  <2>. QED
    BY <2>1, <2>2
<1>4. OwnConf'
  <2>. SUFFICES ASSUME NEW q \in Procs, NEW r \in Procs, q # r,
                       sess'[q].pc \in {"prepared", "waiting"},
                       sess'[r].pc \in {"prepared", "waiting"}
                PROVE  sess'[q].conf # sess'[r].conf
    BY DEF OwnConf
  <2>. QED
    BY <1>1 DEF IInv, OwnConf
<1>. QED
  BY <1>2, <1>3, <1>4 DEF IInv

\* As OneSessionStep, for the steps that leave the backends alone.
LEMMA LocalStep ==
  ASSUME IInv, NEW p \in Procs,
         sess' = [sess EXCEPT ![p] = sess'[p]],
         UNCHANGED backend,
         CopyOK(row', prep, fate, task),
         SessionOK(sess'[p], prep, fate, task),
         CopyOK(sess'[p].copy, prep, fate, task),
         sess'[p].pc \notin {"prepared", "waiting"}
  PROVE  IInv'
<1>1. prep' = prep /\ fate' = fate /\ task' = task /\ worked' = worked
  BY DEF backend
<1>2. Grows(prep, fate, task, prep', fate', task')
  BY <1>1 DEF Grows
<1>3. BackendOK(prep, fate, task)
  BY DEF IInv
<1>4. \A q \in Procs : sess[q].pc = "prepared" => fate[sess[q].conf] = "prepared"
  BY DEF IInv, SessionOK
<1>. QED
  BY <1>1, <1>2, <1>3, <1>4, OneSessionStep

\* A step in which p ends without saving.
LEMMA EndStep ==
  ASSUME IInv, NEW p \in Procs, End(p), UNCHANGED backend
  PROVE  IInv'
<1>1. sess' = [sess EXCEPT ![p] = Idle] /\ row' = row
  BY DEF End
<1>2. sess'[p] = Idle
  BY <1>1 DEF IInv
<1>3. SessionOK(Idle, prep, fate, task) /\ CopyOK(Idle.copy, prep, fate, task)
  BY IdleOK
<1>4. Idle.pc = "idle"
  BY DEF Idle
<1>5. CopyOK(row, prep, fate, task)
  BY DEF IInv
<1>. QED
  BY <1>1, <1>2, <1>3, <1>4, <1>5, LocalStep

\* A step in which p saves the sound copy k and ends.
LEMMA SaveStep ==
  ASSUME IInv, NEW p \in Procs, NEW k, SaveAndEnd(p, k), UNCHANGED backend,
         CopyOK(k, prep, fate, task)
  PROVE  IInv'
<1>1. sess' = [sess EXCEPT ![p] = Idle] /\ row' = k
  BY DEF SaveAndEnd
<1>2. sess'[p] = Idle
  BY <1>1 DEF IInv
<1>3. SessionOK(Idle, prep, fate, task) /\ CopyOK(Idle.copy, prep, fate, task)
  BY IdleOK
<1>4. Idle.pc = "idle"
  BY DEF Idle
<1>. QED
  BY <1>1, <1>2, <1>3, <1>4, LocalStep

(***************************************************************************)
(* One lemma per action.                                                   *)
(***************************************************************************)
\* A step in which p reads the row and starts.
LEMMA BeginStep ==
  ASSUME IInv, NEW p \in Procs, NEW pc \in {"opened", "refreshing", "reconciling", "resolving"},
         NEW op \in MoneyOperation, NEW a \in Adapters \cup {"none"}, Begin(p, pc, op, a),
         pc = "opened" =>
           IF op = "task_create" THEN row.status \in DELEGATABLE ELSE row.status \in REFUNDABLE,
         pc # "resolving" => a \in Adapters,
         pc \in {"reconciling", "resolving"} => Locked(row),
         pc = "resolving" => fate[UncertainAttempt(row)] = "doomed",
         pc = "refreshing" => row.delegation # NoId
  PROVE  IInv'
<1>. DEFINE s == [pc |-> pc, op |-> op, via |-> a, copy |-> row, conf |-> NoId,
                  seen |-> NoAnswerYet]
<1>1. sess' = [sess EXCEPT ![p] = s] /\ row' = row /\ UNCHANGED backend
  BY DEF Begin
<1>2. sess'[p] = s
  BY <1>1 DEF IInv
<1>3. CopyOK(row, prep, fate, task) /\ row \in TaskContract
  BY DEF IInv, CopyOK
<1>4. s \in Session
  BY <1>3 DEF Session, PC, NoId, NoAnswerYet, Answer, TaskState
<1>5. SessionOK(s, prep, fate, task)
  BY <1>4 DEF SessionOK
<1>6. s.pc \notin {"prepared", "waiting"} /\ s.copy = row
  OBVIOUS
<1>. HIDE DEF s
<1>. QED
  BY <1>1, <1>2, <1>3, <1>5, <1>6, LocalStep

\* MoneySession.prepare: the new confirmation is p's own and nobody else's.
LEMMA PrepareStep ==
  ASSUME IInv, NEW p \in Procs, Prepare(p)
  PROVE  IInv'
<1>. DEFINE s == sess[p]
<1>0. SessionOK(s, prep, fate, task) /\ CopyOK(s.copy, prep, fate, task) /\ BackendOK(prep, fate, task)
  BY DEF IInv
<1>1. PICK c \in Conf :
        LET t == IF s.op = "task_create" THEN c ELSE s.copy.delegation
            k == RecordPrepared(s.copy, c)
        IN /\ NextConf(c)
           /\ s.op = "task_refund" => task[t] = "open"
           /\ prep' = [prep EXCEPT ![c] = [op |-> s.op, adapter |-> s.via,
                                           task |-> t, origin |-> s.copy.status]]
           /\ fate' = [fate EXCEPT ![c] = "prepared"]
           /\ row' = k
           /\ sess' = [sess EXCEPT ![p].pc = "prepared", ![p].copy = k, ![p].conf = c]
  BY DEF Prepare, MayPrepare
<1>. DEFINE t == IF s.op = "task_create" THEN c ELSE s.copy.delegation
            k == RecordPrepared(s.copy, c)
            f == [op |-> s.op, adapter |-> s.via, task |-> t, origin |-> s.copy.status]
            s2 == [s EXCEPT !.pc = "prepared", !.copy = k, !.conf = c]
<1>2. s.pc = "opened" /\ task' = task /\ worked' = worked
  BY DEF Prepare, MayPrepare
<1>3. s \in Session /\ s.via \in Adapters /\ s.copy \in TaskContract
  BY <1>0, <1>2 DEF SessionOK, CopyOK
<1>4. fate[c] = "unused"
  BY <1>1 DEF NextConf
<1>5. t \in Conf
  <2>1. CASE s.op = "task_create"
    BY <2>1
  <2>2. CASE s.op # "task_create"
    BY <1>0, <1>2, <1>3, <2>2 DEF SessionOK, CopyOK, Coherent, REFUNDABLE, TaskContract
  <2>. QED
    BY <2>1, <2>2
<1>6. f \in Confirmation
  BY <1>3, <1>5 DEF Confirmation, Session, TaskContract
<1>7. prep' = [prep EXCEPT ![c] = f] /\ fate' = [fate EXCEPT ![c] = "prepared"]
  BY <1>1
<1>8. Grows(prep, fate, task, prep', fate', task')
  BY <1>0, <1>2, <1>4, <1>7 DEF Grows, BackendOK, Dispatched
<1>9. f.op = s.op /\ f.task = t /\ f.origin = s.copy.status
  OBVIOUS
<1>10. BackendOK(prep', fate', task')
  <2>1. \A d \in Conf : d # c => prep'[d] = prep[d] /\ fate'[d] = fate[d]
    BY <1>0, <1>7 DEF BackendOK
  <2>2. prep'[c] = f /\ fate'[c] = "prepared"
    BY <1>0, <1>7 DEF BackendOK
  <2>3. task[c] = "none"
    BY <1>0, <1>4 DEF BackendOK
  <2>4. f.op = "task_create" => f.task = c
    BY <1>9
  <2>5. prep' \in [Conf -> Confirmation \cup {Unprepared}] /\ fate' \in [Conf -> Fate]
    BY <1>0, <1>6, <1>7 DEF BackendOK, Fate
  <2>. HIDE DEF f, t, s
  <2>. QED
    BY <1>0, <1>2, <1>6, <2>1, <2>2, <2>3, <2>4, <2>5 DEF BackendOK
<1>11. CopyOK(k, prep', fate', task')
  <2>1. CopyOK(s.copy, prep', fate', task')
    BY <1>0, <1>8, CopyKept
  <2>2. s.copy.attempts[c] = "absent"
    BY <1>0, <1>4 DEF CopyOK, LedgerOK
  <2>3. fate'[c] # "unused"
    BY <1>0, <1>7 DEF BackendOK
  <2>. QED
    BY <2>1, <2>2, <2>3, PreparedOK
<1>12. /\ s2.pc = "prepared" /\ s2.copy = k /\ s2.conf = c /\ s2.op = s.op /\ s2.via = s.via
       /\ s2 \in Session /\ s2.seen = s.seen
  <2>1. k \in TaskContract
    BY <1>11 DEF CopyOK
  <2>. HIDE DEF k
  <2>. QED
    BY <1>3, <2>1 DEF Session, PC
<1>13. sess' = [sess EXCEPT ![p] = s2] /\ sess'[p] = s2
  <2>. HIDE DEF k
  <2>1. sess' = [sess EXCEPT ![p].pc = "prepared", ![p].copy = k, ![p].conf = c]
    BY <1>1 DEF k
  <2>. QED
    BY <2>1 DEF IInv
<1>14. k.status = s.copy.status /\ k.delegation = s.copy.delegation /\ k.attempts[c] = "prepared"
  BY <1>3 DEF RecordPrepared, TaskContract
<1>15. prep'[c] = f /\ fate'[c] = "prepared"
  BY <1>0, <1>7 DEF BackendOK
<1>16. SessionOK(s2, prep', fate', task')
  <2>1. s.op \in MoneyOperation
    BY <1>3 DEF Session
  <2>2. IF s.op = "task_create" THEN s.copy.status \in DELEGATABLE
        ELSE s.copy.status \in REFUNDABLE
    BY <1>0, <1>2 DEF SessionOK
  <2>3. s.seen = NoAnswerYet
    BY <1>0, <1>2 DEF SessionOK
  <2>. HIDE DEF s2, k, f
  <2>. QED
    BY <1>9, <1>12, <1>14, <1>15, <2>2, <2>3 DEF SessionOK
<1>17. ASSUME NEW q \in Procs \ {p}
       PROVE  /\ sess[q].pc = "prepared" => fate'[sess[q].conf] = "prepared"
              /\ sess[q].pc \in {"prepared", "waiting"} => sess[q].conf # c
  <2>1. SessionOK(sess[q], prep, fate, task)
    BY DEF IInv
  <2>2. sess[q].pc \in {"prepared", "waiting"} =>
          sess[q].conf \in Conf /\ fate[sess[q].conf] # "unused"
    BY <2>1 DEF SessionOK, Dispatched
  <2>3. \A d \in Conf : d # c => fate'[d] = fate[d]
    BY <1>0, <1>7 DEF BackendOK
  <2>. QED
    BY <1>4, <2>1, <2>2, <2>3 DEF SessionOK
<1>. HIDE DEF s2, k, f, t, s
<1>18. row' = k
  BY <1>1 DEF k
<1>19. sess' = [sess EXCEPT ![p] = sess'[p]]
  BY <1>13
<1>20. /\ CopyOK(row', prep', fate', task')
       /\ SessionOK(sess'[p], prep', fate', task')
       /\ CopyOK(sess'[p].copy, prep', fate', task')
  BY <1>11, <1>12, <1>13, <1>16, <1>18
<1>21. \A q \in Procs \ {p} :
         /\ sess[q].pc = "prepared" => fate'[sess[q].conf] = "prepared"
         /\ sess[q].pc \in {"prepared", "waiting"} /\ sess'[p].pc \in {"prepared", "waiting"}
              => sess[q].conf # sess'[p].conf
  BY <1>12, <1>13, <1>17
<1>. QED
  BY <1>2, <1>8, <1>10, <1>19, <1>20, <1>21, OneSessionStep

\* What an invocation that has prepared, or that waits, knows.
LEMMA HoldsConf ==
  ASSUME IInv, NEW p \in Procs, sess[p].pc \in {"prepared", "waiting"}
  PROVE  /\ sess[p] \in Session
         /\ SessionOK(sess[p], prep, fate, task)
         /\ CopyOK(sess[p].copy, prep, fate, task)
         /\ sess[p].conf \in Conf
         /\ sess[p].copy.attempts[sess[p].conf] = "prepared"
         /\ prep[sess[p].conf].op = sess[p].op
         /\ prep[sess[p].conf].origin = sess[p].copy.status
         /\ sess[p].op = "task_refund" => prep[sess[p].conf].task = sess[p].copy.delegation
         /\ \/ sess[p].op = "task_create" /\ sess[p].copy.status \in DELEGATABLE
            \/ sess[p].op = "task_refund" /\ sess[p].copy.status \in REFUNDABLE
         /\ \A q \in Procs \ {p} : sess[q].pc \in {"prepared", "waiting"} =>
              sess[q].conf \in Conf /\ sess[q].conf # sess[p].conf
<1>1. SessionOK(sess[p], prep, fate, task) /\ CopyOK(sess[p].copy, prep, fate, task)
  BY DEF IInv
<1>2. sess[p].op \in MoneyOperation
  BY <1>1 DEF SessionOK, Session
<1>3. \A q \in Procs : SessionOK(sess[q], prep, fate, task)
  BY DEF IInv
<1>4. \A q \in Procs \ {p} : sess[q].pc \in {"prepared", "waiting"} =>
        sess[q].conf \in Conf /\ sess[q].conf # sess[p].conf
  BY <1>3 DEF IInv, OwnConf, SessionOK
<1>. QED
  BY <1>1, <1>2, <1>4 DEF SessionOK, MoneyOperation

\* A confirmation is dispatched or refused: the backends' state stays sound
\* and only grows.
LEMMA FateStep ==
  ASSUME BackendOK(prep, fate, task), NEW c \in Conf, NEW f \in {"inflight", "doomed"},
         fate[c] \in {"prepared", "inflight"},
         fate' = [fate EXCEPT ![c] = f], UNCHANGED <<prep, task>>
  PROVE  /\ BackendOK(prep', fate', task')
         /\ Grows(prep, fate, task, prep', fate', task')
         /\ fate'[c] = f
         /\ \A d \in Conf \ {c} : fate'[d] = fate[d]
<1>1. fate'[c] = f /\ \A d \in Conf \ {c} : fate'[d] = fate[d]
  BY DEF BackendOK
<1>2. Grows(prep, fate, task, prep', fate', task')
  BY <1>1 DEF Grows, Dispatched
<1>3. fate' \in [Conf -> Fate]
  BY DEF BackendOK, Fate
<1>. QED
  BY <1>1, <1>2, <1>3 DEF BackendOK

\* The request of a prepared submit leaves.
LEMMA DispatchStep ==
  ASSUME IInv, NEW p \in Procs, Dispatch(p)
  PROVE  IInv'
<1>. DEFINE s == sess[p]
            s2 == [s EXCEPT !.pc = "waiting"]
<1>1. /\ s.pc = "prepared"
      /\ fate' = [fate EXCEPT ![s.conf] = "inflight"]
      /\ sess' = [sess EXCEPT ![p].pc = "waiting"]
      /\ UNCHANGED <<prep, task>> /\ worked' = worked /\ row' = row
  BY DEF Dispatch
<1>2. /\ s \in Session /\ SessionOK(s, prep, fate, task)
      /\ CopyOK(s.copy, prep, fate, task) /\ s.conf \in Conf
      /\ \A q \in Procs \ {p} : sess[q].pc \in {"prepared", "waiting"} =>
           sess[q].conf \in Conf /\ sess[q].conf # s.conf
  BY <1>1, HoldsConf
<1>3. fate[s.conf] = "prepared"
  BY <1>1, <1>2 DEF SessionOK
<1>4. BackendOK(prep, fate, task) /\ CopyOK(row, prep, fate, task)
  BY DEF IInv
<1>5. /\ BackendOK(prep', fate', task')
      /\ Grows(prep, fate, task, prep', fate', task')
      /\ fate'[s.conf] = "inflight"
      /\ \A d \in Conf \ {s.conf} : fate'[d] = fate[d]
  BY <1>1, <1>2, <1>3, <1>4, FateStep
<1>6. CopyOK(row', prep', fate', task') /\ CopyOK(s.copy, prep', fate', task')
  BY <1>1, <1>2, <1>4, <1>5, CopyKept
<1>7. s2 \in Session /\ s2.pc = "waiting" /\ s2.copy = s.copy /\ s2.conf = s.conf
      /\ s2.op = s.op /\ s2.seen = s.seen
  BY <1>2 DEF Session, PC
<1>8. sess' = [sess EXCEPT ![p] = s2] /\ sess'[p] = s2
  BY <1>1 DEF IInv
<1>9. SessionOK(s2, prep', fate', task')
  <2>1. s.seen = NoAnswerYet
    BY <1>1, <1>2 DEF SessionOK
  <2>. HIDE DEF s2
  <2>. QED
    BY <1>1, <1>2, <1>5, <1>7, <2>1 DEF SessionOK, Dispatched
<1>10. \A q \in Procs \ {p} :
         /\ sess[q].pc = "prepared" => fate'[sess[q].conf] = "prepared"
         /\ sess[q].pc \in {"prepared", "waiting"} => sess[q].conf # s2.conf
  <2>1. \A q \in Procs : sess[q].pc = "prepared" => fate[sess[q].conf] = "prepared"
    BY DEF IInv, SessionOK
  <2>. QED
    BY <1>2, <1>5, <1>7, <2>1
<1>. HIDE DEF s2, s
<1>11. /\ sess' = [sess EXCEPT ![p] = sess'[p]]
       /\ SessionOK(sess'[p], prep', fate', task')
       /\ CopyOK(sess'[p].copy, prep', fate', task')
       /\ \A q \in Procs \ {p} :
            /\ sess[q].pc = "prepared" => fate'[sess[q].conf] = "prepared"
            /\ sess[q].pc \in {"prepared", "waiting"} /\ sess'[p].pc \in {"prepared", "waiting"}
                 => sess[q].conf # sess'[p].conf
  BY <1>6, <1>7, <1>8, <1>9, <1>10
<1>. QED
  BY <1>1, <1>5, <1>6, <1>11, OneSessionStep

\* A submit is refused before it leaves.
LEMMA SubmitRefusedStep ==
  ASSUME IInv, NEW p \in Procs, SubmitRefused(p)
  PROVE  IInv'
<1>. DEFINE s == sess[p]
            k == RecordFailed(s.copy, s.conf)
<1>1. /\ s.pc = "prepared"
      /\ fate' = [fate EXCEPT ![s.conf] = "doomed"]
      /\ SaveAndEnd(p, k)
      /\ UNCHANGED <<prep, task>> /\ worked' = worked
  BY DEF SubmitRefused
<1>2. /\ SessionOK(s, prep, fate, task) /\ s.copy.attempts[s.conf] = "prepared"
      /\ CopyOK(s.copy, prep, fate, task) /\ s.conf \in Conf
      /\ \A q \in Procs \ {p} : sess[q].pc \in {"prepared", "waiting"} =>
           sess[q].conf \in Conf /\ sess[q].conf # s.conf
  BY <1>1, HoldsConf
<1>3. fate[s.conf] = "prepared"
  BY <1>1, <1>2 DEF SessionOK
<1>4. BackendOK(prep, fate, task)
  BY DEF IInv
<1>5. /\ BackendOK(prep', fate', task')
      /\ Grows(prep, fate, task, prep', fate', task')
      /\ fate'[s.conf] = "doomed"
      /\ \A d \in Conf \ {s.conf} : fate'[d] = fate[d]
  BY <1>1, <1>2, <1>3, <1>4, FateStep
<1>6. CopyOK(s.copy, prep', fate', task')
  BY <1>2, <1>4, <1>5, CopyKept
<1>7. CopyOK(k, prep', fate', task')
  BY <1>2, <1>5, <1>6, FailedOK
<1>. HIDE DEF k
<1>8. sess' = [sess EXCEPT ![p] = Idle] /\ row' = k /\ sess'[p] = Idle
  BY <1>1 DEF SaveAndEnd, IInv
<1>9. SessionOK(Idle, prep', fate', task') /\ CopyOK(Idle.copy, prep', fate', task') /\ Idle.pc = "idle"
  <2>1. Idle.pc = "idle"
    BY DEF Idle
  <2>. QED
    BY <2>1, IdleOK
<1>10. \A q \in Procs \ {p} :
         sess[q].pc = "prepared" => fate'[sess[q].conf] = "prepared"
  <2>1. \A q \in Procs : sess[q].pc = "prepared" => fate[sess[q].conf] = "prepared"
    BY DEF IInv, SessionOK
  <2>. QED
    BY <1>2, <1>5, <2>1
<1>. HIDE DEF s
<1>. QED
  BY <1>1, <1>5, <1>7, <1>8, <1>9, <1>10, OneSessionStep

\* The answer to a submit is recorded.
LEMMA AnswerOkStep ==
  ASSUME IInv, NEW p \in Procs, AnswerOk(p)
  PROVE  IInv'
<1>. DEFINE s == sess[p]
            c == s.conf
<1>1. s.pc = "waiting" /\ fate[c] = "applied" /\ UNCHANGED backend
  BY DEF AnswerOk
<1>2. /\ CopyOK(s.copy, prep, fate, task) /\ c \in Conf
      /\ s.copy.attempts[c] = "prepared" /\ prep[c].op = s.op
      /\ s.op = "task_refund" => prep[c].task = s.copy.delegation
      /\ \/ s.op = "task_create" /\ s.copy.status \in DELEGATABLE
         \/ s.op = "task_refund" /\ s.copy.status \in REFUNDABLE
  BY <1>1, HoldsConf
<1>3. BackendOK(prep, fate, task) /\ "submitted" \in Confirmed
  BY DEF IInv, Confirmed
<1>4. CASE s.op = "task_create" /\ SaveAndEnd(p, RecordDelegated(s.copy, c, prep[c].task, "submitted"))
  <2>1. CopyOK(RecordDelegated(s.copy, c, prep[c].task, "submitted"), prep, fate, task)
    BY <1>1, <1>2, <1>3, <1>4, DelegatedOK
  <2>. QED
    BY <1>1, <1>4, <2>1, SaveStep
<1>5. CASE s.op = "task_refund" /\ SaveAndEnd(p, RecordRefunded(s.copy, c, "submitted"))
  <2>1. CopyOK(RecordRefunded(s.copy, c, "submitted"), prep, fate, task)
    BY <1>1, <1>2, <1>3, <1>5, RefundedOK
  <2>. QED
    BY <1>1, <1>5, <2>1, SaveStep
<1>. QED
  BY <1>4, <1>5 DEF AnswerOk

\* A tool error is recorded as a failed attempt.
LEMMA AnswerErrorStep ==
  ASSUME IInv, NEW p \in Procs, AnswerError(p)
  PROVE  IInv'
<1>1. /\ sess[p].pc = "waiting" /\ UNCHANGED backend
      /\ SaveAndEnd(p, RecordFailed(sess[p].copy, sess[p].conf))
      /\ fate[sess[p].conf] = "doomed" \/ IndefiniteErrors
  BY DEF AnswerError
<1>2. CopyOK(RecordFailed(sess[p].copy, sess[p].conf), prep, fate, task)
  BY <1>1, HoldsConf, FailedOK
<1>. QED
  BY <1>1, <1>2, SaveStep

\* A submit without an answer locks the contract.
LEMMA NoAnswerStep ==
  ASSUME IInv, NEW p \in Procs, NoAnswer(p)
  PROVE  IInv'
<1>1. /\ sess[p].pc = "waiting" /\ UNCHANGED backend
      /\ SaveAndEnd(p, RecordAmbiguous(sess[p].copy, sess[p].conf))
  BY DEF NoAnswer
<1>2. SessionOK(sess[p], prep, fate, task)
  BY DEF IInv
<1>3. fate[sess[p].conf] \in Dispatched
  BY <1>1, <1>2 DEF SessionOK
<1>4. CopyOK(RecordAmbiguous(sess[p].copy, sess[p].conf), prep, fate, task)
  BY <1>1, <1>3, HoldsConf, AmbiguousOK
<1>. QED
  BY <1>1, <1>4, SaveStep

\* OpenDelegation, OpenRefund, RefreshRead, ReconcileRead and ResolveRead.
LEMMA ReadStep ==
  ASSUME IInv, NEW p \in Procs,
         \/ \E a \in Adapters :
              \/ OpenDelegation(p, a) \/ OpenRefund(p, a)
              \/ RefreshRead(p, a) \/ ReconcileRead(p, a)
         \/ \E op \in MoneyOperation : ResolveRead(p, op)
  PROVE  IInv'
<1>1. ASSUME NEW a \in Adapters, OpenDelegation(p, a)
      PROVE  IInv'
  BY <1>1, BeginStep DEF OpenDelegation, MayDelegate, MoneyOperation
<1>2. ASSUME NEW a \in Adapters, OpenRefund(p, a)
      PROVE  IInv'
  BY <1>2, BeginStep DEF OpenRefund, MoneyOperation
<1>3. ASSUME NEW a \in Adapters, RefreshRead(p, a)
      PROVE  IInv'
  BY <1>3, BeginStep DEF RefreshRead, MayRefresh, MoneyOperation
<1>4. ASSUME NEW a \in Adapters, ReconcileRead(p, a)
      PROVE  IInv'
  <2>. DEFINE c == UncertainAttempt(row)
  <2>1. Locked(row) /\ Begin(p, "reconciling", prep[c].op, a)
    BY <1>4 DEF ReconcileRead, MayReconcile
  <2>2. prep[c].op \in MoneyOperation
    <3>1. Coherent(row, prep)
      BY DEF IInv, CopyOK
    <3>2. c \in Ambiguous(row)
      BY <2>1, <3>1, UncertainIs
    <3>. QED
      BY <3>1, <3>2 DEF Coherent, MoneyOperation
  <2>. HIDE DEF c
  <2>. QED
    BY <2>1, <2>2, BeginStep
<1>5. ASSUME NEW op \in MoneyOperation, ResolveRead(p, op)
      PROVE  IInv'
  BY <1>5, BeginStep DEF ResolveRead, MayResolve
<1>. QED
  BY <1>1, <1>2, <1>3, <1>4, <1>5

\* get_task answers: p keeps what it saw of the bounty.
LEMMA GetTaskStep ==
  ASSUME IInv, NEW p \in Procs, GetTask(p)
  PROVE  IInv'
<1>. DEFINE s == sess[p]
            t == Asked(s, prep)
            s2 == [s EXCEPT !.seen = [task |-> task[t], worked |-> t \in worked]]
<1>1. /\ s.pc \in {"refreshing", "reconciling"} /\ task[t] # "none"
      /\ sess' = [sess EXCEPT ![p].seen = [task |-> task[t], worked |-> t \in worked]]
      /\ row' = row /\ UNCHANGED backend
  BY DEF GetTask
<1>2. /\ SessionOK(s, prep, fate, task) /\ CopyOK(s.copy, prep, fate, task)
      /\ BackendOK(prep, fate, task) /\ CopyOK(row, prep, fate, task)
  BY DEF IInv
<1>3. t \in Conf
  BY <1>1, <1>2, AskedFor
<1>4. sess' = [sess EXCEPT ![p] = s2] /\ sess'[p] = s2
  BY <1>1 DEF IInv
<1>. HIDE DEF t
<1>5. [task |-> task[t], worked |-> t \in worked] \in Answer
  BY <1>2, <1>3 DEF BackendOK, Answer
<1>6. s \in Session
  BY <1>2 DEF SessionOK
<1>7. /\ s2 \in Session /\ s2.pc = s.pc /\ s2.op = s.op /\ s2.via = s.via
      /\ s2.copy = s.copy /\ s2.seen.task = task[t]
  BY <1>5, <1>6 DEF Session
<1>. HIDE DEF s2
<1>8. Asked(s2, prep) = t
  BY <1>7 DEF Asked, t
<1>9. SessionOK(s2, prep, fate, task)
  BY <1>1, <1>2, <1>7, <1>8 DEF SessionOK
<1>. HIDE DEF s
<1>. QED
  BY <1>1, <1>2, <1>4, <1>7, <1>9, LocalStep

\* refresh saves what the backend said of the bounty.
LEMMA RefreshSaveStep ==
  ASSUME IInv, NEW p \in Procs, RefreshSave(p)
  PROVE  IInv'
<1>. DEFINE s == sess[p]
            k2 == RecordRemote(s.copy, s.seen.task = "open", s.seen.worked)
<1>1. s.pc = "refreshing" /\ s.seen # NoAnswerYet /\ SaveAndEnd(p, k2) /\ UNCHANGED backend
  BY DEF RefreshSave
<1>2. SessionOK(s, prep, fate, task) /\ CopyOK(s.copy, prep, fate, task)
  BY DEF IInv
<1>3. s.copy.delegation # NoId /\ Asked(s, prep) = s.copy.delegation /\ s.seen \in Answer
  BY <1>1, <1>2 DEF SessionOK, Asked, Session
<1>4. s.seen.worked \in BOOLEAN /\ (s.seen.task = "open") \in BOOLEAN
  BY <1>3 DEF Answer
<1>5. s.seen.task = "open" \/ task[s.copy.delegation] \in Over
  <2>. HIDE DEF s
  <2>1. s.seen.task \in {"none", "open"} \cup Over
    BY <1>3 DEF Answer, TaskState, Over
  <2>. QED
    BY <1>1, <1>2, <1>3, <2>1 DEF SessionOK
<1>6. CopyOK(k2, prep, fate, task)
  <2>. HIDE DEF s
  <2>. QED
    BY <1>2, <1>3, <1>4, <1>5, RemoteOK
<1>. HIDE DEF k2
<1>. QED
  BY <1>1, <1>6, SaveStep

\* What an invocation that reconciles or resolves knows of its attempt.
LEMMA HoldsLock ==
  ASSUME IInv, NEW p \in Procs, sess[p].pc \in {"reconciling", "resolving"}
  PROVE  LET k == sess[p].copy
             c == UncertainAttempt(k)
         IN /\ c \in Conf
            /\ Locked(k) /\ Ambiguous(k) = {c}
            /\ fate[c] \in Dispatched
            /\ prep[c].op = "task_refund" => prep[c].task = k.delegation
            /\ CopyOK(k, prep, fate, task)
            /\ BackendOK(prep, fate, task)
<1>. DEFINE k == sess[p].copy
            c == UncertainAttempt(k)
<1>1. SessionOK(sess[p], prep, fate, task) /\ CopyOK(k, prep, fate, task) /\ BackendOK(prep, fate, task)
  BY DEF IInv
<1>2. Locked(k)
  BY <1>1 DEF SessionOK
<1>3. Coherent(k, prep) /\ TruthfulCopy(k, prep, fate, task)
  BY <1>1 DEF CopyOK
<1>4. c \in Conf /\ Ambiguous(k) = {c} /\ k.attempts[c] = "ambiguous"
  BY <1>2, <1>3, UncertainIs
<1>. HIDE DEF c, k
<1>5. fate[c] \in Dispatched
  BY <1>3, <1>4 DEF TruthfulCopy
<1>6. prep[c].op = "task_refund" => prep[c].task = k.delegation
  BY <1>3, <1>4 DEF Coherent
<1>. QED
  BY <1>1, <1>2, <1>4, <1>5, <1>6 DEF k, c

\* reconcile records what the backend confirms.
LEMMA ReconcileSaveStep ==
  ASSUME IInv, NEW p \in Procs, ReconcileSave(p)
  PROVE  IInv'
<1>. DEFINE k == sess[p].copy
            c == UncertainAttempt(k)
<1>1. sess[p].pc = "reconciling" /\ UNCHANGED backend
  BY DEF ReconcileSave
<1>0. sess[p].seen # NoAnswerYet =>
        /\ task[prep[c].task] # "none"
        /\ sess[p].seen.task \in Over => task[prep[c].task] \in Over
  BY <1>1 DEF IInv, SessionOK, Asked
<1>2. /\ c \in Conf
      /\ Locked(k) /\ Ambiguous(k) = {c}
      /\ fate[c] \in Dispatched
      /\ prep[c].op = "task_refund" => prep[c].task = k.delegation
      /\ CopyOK(k, prep, fate, task)
      /\ BackendOK(prep, fate, task)
  BY <1>1, HoldsLock
<1>3. "reconciled_confirmed" \in Confirmed
  BY DEF Confirmed
<1>4. CASE /\ prep[c].op = "task_create" /\ sess[p].seen # NoAnswerYet
           /\ SaveAndEnd(p, RecordDelegated(k, c, prep[c].task, "reconciled_confirmed"))
  <2>. HIDE DEF c, k
  <2>1. fate[c] = "applied"
    <3>1. task[prep[c].task] # "none"
      BY <1>0, <1>4
    <3>. QED
      BY <1>2, <1>4, <3>1 DEF BackendOK
  <2>2. CopyOK(RecordDelegated(k, c, prep[c].task, "reconciled_confirmed"), prep, fate, task)
    BY <1>2, <1>3, <1>4, <2>1, DelegatedOK
  <2>. QED
    BY <1>1, <1>4, <2>2, SaveStep
<1>5. CASE /\ prep[c].op = "task_refund" /\ sess[p].seen.task \in Over
           /\ SaveAndEnd(p, RecordRefunded(k, c, "reconciled_confirmed"))
  <2>. HIDE DEF c, k
  <2>1. fate[c] # "unused" /\ task[prep[c].task] \in Over
    <3>1. sess[p].seen # NoAnswerYet
      BY <1>5 DEF NoAnswerYet, Over
    <3>. QED
      BY <1>0, <1>2, <1>5, <3>1 DEF Dispatched
  <2>2. CopyOK(RecordRefunded(k, c, "reconciled_confirmed"), prep, fate, task)
    BY <1>2, <1>3, <1>5, <2>1, RefundedOK
  <2>. QED
    BY <1>1, <1>5, <2>2, SaveStep
<1>. QED
  BY <1>4, <1>5 DEF ReconcileSave

\* resolve_uncertain records what a person asserts.
LEMMA ResolveSaveStep ==
  ASSUME IInv, NEW p \in Procs, ResolveSave(p)
  PROVE  IInv'
<1>. DEFINE k == sess[p].copy
            c == UncertainAttempt(k)
            k2 == RecordNotFound(k, c, prep[c].origin)
<1>1. sess[p].pc = "resolving" /\ SaveAndEnd(p, k2) /\ UNCHANGED backend
  BY DEF ResolveSave
<1>2. /\ c \in Conf
      /\ Locked(k) /\ Ambiguous(k) = {c}
      /\ CopyOK(k, prep, fate, task)
      /\ BackendOK(prep, fate, task)
  BY <1>1, HoldsLock
<1>3. fate[c] = "doomed"
  BY <1>1 DEF IInv, SessionOK
<1>4. CopyOK(k2, prep, fate, task)
  <2>. HIDE DEF c, k
  <2>. QED
    BY <1>2, <1>3, NotFoundOK
<1>. HIDE DEF k2
<1>. QED
  BY <1>1, <1>4, SaveStep

\* A step of a backend: the store is left alone, and nothing a copy relies on
\* is undone.
LEMMA RemoteStep ==
  ASSUME IInv, UNCHANGED store, worked' \in SUBSET Conf,
         BackendOK(prep', fate', task'),
         Grows(prep, fate, task, prep', fate', task'),
         \A p \in Procs : sess[p].pc = "prepared" => fate'[sess[p].conf] = fate[sess[p].conf]
  PROVE  IInv'
<1>1. row' = row /\ sess' = sess
  BY DEF store
<1>2. BackendOK(prep, fate, task) /\ CopyOK(row, prep, fate, task)
  BY DEF IInv
<1>3. CopyOK(row', prep', fate', task')
  BY <1>1, <1>2, CopyKept
<1>4. ASSUME NEW p \in Procs
      PROVE  SessionOK(sess[p], prep', fate', task') /\ CopyOK(sess[p].copy, prep', fate', task')
  <2>1. SessionOK(sess[p], prep, fate, task) /\ CopyOK(sess[p].copy, prep, fate, task)
    BY DEF IInv
  <2>2. sess[p].pc = "prepared" => fate'[sess[p].conf] = "prepared"
    BY <2>1 DEF SessionOK
  <2>. QED
    BY <1>2, <2>1, <2>2, SessionKept, CopyKept
<1>. QED
  BY <1>1, <1>3, <1>4 DEF IInv, OwnConf

\* A confirmation an invocation still holds back is not yet at the backend.
LEMMA PreparedFate ==
  ASSUME IInv, NEW p \in Procs, sess[p].pc = "prepared"
  PROVE  sess[p].conf \in Conf /\ fate[sess[p].conf] = "prepared"
BY DEF IInv, SessionOK

\* A backend refuses a submit, or it is lost.
LEMMA DoomStep ==
  ASSUME IInv, NEW c \in Conf, Doom(c)
  PROVE  IInv'
<1>1. /\ fate[c] = "inflight" /\ fate' = [fate EXCEPT ![c] = "doomed"]
      /\ UNCHANGED <<prep, task>> /\ UNCHANGED store /\ worked' = worked
  BY DEF Doom
<1>2. BackendOK(prep, fate, task) /\ worked \in SUBSET Conf
  BY DEF IInv
<1>3. /\ BackendOK(prep', fate', task')
      /\ Grows(prep, fate, task, prep', fate', task')
      /\ \A d \in Conf \ {c} : fate'[d] = fate[d]
  BY <1>1, <1>2, FateStep
<1>. QED
  BY <1>1, <1>2, <1>3, PreparedFate, RemoteStep

\* A submit takes effect at a backend.
LEMMA ApplyStep ==
  ASSUME IInv, NEW c \in Conf, Apply(c)
  PROVE  IInv'
<1>. DEFINE t == prep[c].task
<1>1. /\ fate[c] = "inflight" /\ fate' = [fate EXCEPT ![c] = "applied"]
      /\ prep' = prep /\ UNCHANGED store /\ worked' = worked
  BY DEF Apply
<1>2. BackendOK(prep, fate, task) /\ worked \in SUBSET Conf
  BY DEF IInv
<1>3. prep[c] \in Confirmation /\ t \in Conf
  BY <1>1, <1>2 DEF BackendOK, Confirmation
<1>4. fate'[c] = "applied" /\ \A d \in Conf \ {c} : fate'[d] = fate[d]
  BY <1>1, <1>2 DEF BackendOK
<1>5. fate' \in [Conf -> Fate]
  BY <1>1, <1>2 DEF BackendOK, Fate
<1>6. PICK s \in {"open", "refunded"} :
        /\ task' = [task EXCEPT ![t] = s]
        /\ IF prep[c].op = "task_create" THEN s = "open" ELSE s = "refunded" /\ task[t] = "open"
  BY DEF Apply
<1>. HIDE DEF t
<1>7. /\ task' \in [Conf -> TaskState] /\ task'[t] = s
      /\ \A d \in Conf \ {t} : task'[d] = task[d]
  BY <1>2, <1>3, <1>6 DEF BackendOK, TaskState
<1>8. task[t] \notin Over
  <2>1. CASE prep[c].op = "task_create"
    BY <1>1, <1>2, <2>1 DEF BackendOK, t, Over
  <2>2. CASE prep[c].op # "task_create"
    BY <1>6, <2>2 DEF Over
  <2>. QED
    BY <2>1, <2>2
<1>9. Grows(prep, fate, task, prep', fate', task')
  BY <1>1, <1>4, <1>7, <1>8 DEF Grows, Dispatched
<1>10. prep[c].op = "task_create" => t = c
  BY <1>2 DEF BackendOK, t
<1>11. BackendOK(prep', fate', task')
  <2>1. \A d \in Conf : fate'[d] # "unused" => prep'[d] \in Confirmation
    BY <1>1, <1>2, <1>3, <1>4 DEF BackendOK
  <2>2. ASSUME NEW d \in Conf, task'[d] # "none"
        PROVE  fate'[d] = "applied" /\ prep'[d].op = "task_create"
    <3>1. CASE d = t /\ prep[c].op = "task_create"
      BY <1>1, <1>4, <1>10, <3>1
    <3>2. CASE d # t \/ prep[c].op # "task_create"
      <4>1. task[d] # "none"
        BY <1>6, <1>7, <2>2, <3>2
      <4>. QED
        BY <1>1, <1>2, <1>4, <4>1 DEF BackendOK
    <3>. QED
      BY <3>1, <3>2
  <2>3. ASSUME NEW d \in Conf, fate'[d] = "applied"
        PROVE  IF prep'[d].op = "task_create" THEN task'[d] # "none"
               ELSE task'[prep'[d].task] = "refunded"
    <3>1. CASE d = c
      BY <1>1, <1>6, <1>7, <1>10, <3>1 DEF t
    <3>2. CASE d # c
      <4>1. /\ IF prep[d].op = "task_create" THEN task[d] # "none"
               ELSE task[prep[d].task] = "refunded"
            /\ prep[d] \in Confirmation
        BY <1>1, <1>2, <1>4, <2>3, <3>2 DEF BackendOK
      <4>2. prep[d].task \in Conf
        BY <4>1 DEF Confirmation
      <4>. QED
        BY <1>1, <1>7, <1>8, <4>1, <4>2 DEF Over
    <3>. QED
      BY <3>1, <3>2
  <2>. QED
    BY <1>1, <1>2, <1>5, <1>7, <2>1, <2>2, <2>3 DEF BackendOK
<1>. QED
  BY <1>1, <1>2, <1>4, <1>9, <1>11, PreparedFate, RemoteStep

\* A worker hands in a submission.
LEMMA HandInStep ==
  ASSUME IInv, NEW t \in Conf, HandIn(t)
  PROVE  IInv'
<1>1. UNCHANGED <<prep, fate, task>> /\ UNCHANGED store /\ worked' = worked \cup {t}
  BY DEF HandIn
<1>2. BackendOK(prep, fate, task) /\ worked \in SUBSET Conf
  BY DEF IInv
<1>3. Grows(prep, fate, task, prep', fate', task')
  BY <1>1 DEF Grows
<1>. QED
  BY <1>1, <1>2, <1>3, RemoteStep

\* A backend pays a bounty out.
LEMMA PayOutStep ==
  ASSUME IInv, NEW t \in Conf, PayOut(t)
  PROVE  IInv'
<1>1. /\ task[t] = "open" /\ task' = [task EXCEPT ![t] = "paid"]
      /\ UNCHANGED <<prep, fate>> /\ UNCHANGED store /\ worked' = worked
  BY DEF PayOut
<1>2. BackendOK(prep, fate, task) /\ worked \in SUBSET Conf
  BY DEF IInv
<1>3. /\ task' \in [Conf -> TaskState] /\ task'[t] = "paid"
      /\ \A d \in Conf \ {t} : task'[d] = task[d]
  BY <1>1, <1>2 DEF BackendOK, TaskState
<1>4. Grows(prep, fate, task, prep', fate', task')
  BY <1>1, <1>3 DEF Grows, Over
<1>5. \A d \in Conf : fate[d] = "applied" /\ prep[d].op # "task_create" => prep[d].task # t
  BY <1>1, <1>2 DEF BackendOK
<1>6. \A d \in Conf : fate[d] # "unused" => prep[d].task \in Conf
  BY <1>2 DEF BackendOK, Confirmation
<1>7. BackendOK(prep', fate', task')
  <2>1. \A d \in Conf : task'[d] # "none" => task[d] # "none"
    BY <1>1, <1>3
  <2>2. ASSUME NEW d \in Conf, fate'[d] = "applied"
        PROVE  IF prep'[d].op = "task_create" THEN task'[d] # "none"
               ELSE task'[prep'[d].task] = "refunded"
    <3>1. /\ fate[d] = "applied" /\ prep'[d] = prep[d]
          /\ IF prep[d].op = "task_create" THEN task[d] # "none"
             ELSE task[prep[d].task] = "refunded"
      BY <1>1, <1>2, <2>2 DEF BackendOK
    <3>2. prep[d].task \in Conf
      BY <1>6, <3>1
    <3>. QED
      BY <1>3, <1>5, <3>1, <3>2
  <2>. QED
    BY <1>1, <1>2, <1>3, <2>1, <2>2 DEF BackendOK
<1>. QED
  BY <1>1, <1>2, <1>4, <1>7, RemoteStep

(***************************************************************************)
(* The invariant, and what follows from it for every number of             *)
(* overlapping invocations, adapters and confirmations.                    *)
(***************************************************************************)
\* A contract that has just been created satisfies the invariant.
LEMMA InitOK == Init => IInv
<1>. SUFFICES ASSUME Init PROVE IInv
  OBVIOUS
<1>1. BackendOK(prep, fate, task)
  BY DEF Init, BackendOK, Unprepared, Fate, TaskState
<1>2. CopyOK(row, prep, fate, task)
  BY NewContractOK DEF Init
<1>3. \A p \in Procs : sess[p] = Idle
  BY DEF Init
<1>4. SessionOK(Idle, prep, fate, task) /\ CopyOK(Idle.copy, prep, fate, task)
  BY IdleOK
<1>5. Idle.pc = "idle" /\ Idle \in Session
  BY <1>4 DEF Idle, SessionOK
<1>6. sess \in [Procs -> Session] /\ worked = {}
  BY <1>5 DEF Init
<1>7. OwnConf
  BY <1>3, <1>5 DEF OwnConf
<1>. QED
  BY <1>1, <1>2, <1>3, <1>4, <1>6, <1>7 DEF IInv

\* Every step preserves the invariant: one case per action.
LEMMA NextOK == IInv /\ [Next]_vars => IInv'
<1>. SUFFICES ASSUME IInv, [Next]_vars PROVE IInv'
  OBVIOUS
<1>1. CASE UNCHANGED vars
  <2>1. UNCHANGED <<row, sess, prep, fate, task, worked>>
    BY <1>1 DEF vars
  <2>. QED
    BY <2>1 DEF IInv, OwnConf
<1>2. ASSUME NEW p \in Procs, ProcStep(p)
      PROVE  IInv'
  <2>1. CASE \/ \E a \in Adapters :
                  \/ OpenDelegation(p, a) \/ OpenRefund(p, a)
                  \/ RefreshRead(p, a) \/ ReconcileRead(p, a)
             \/ \E op \in MoneyOperation : ResolveRead(p, op)
    BY <2>1, ReadStep
  <2>2. CASE Abandon(p)
    BY <2>2, EndStep DEF Abandon
  <2>3. CASE Prepare(p)
    BY <2>3, PrepareStep
  <2>4. CASE Dispatch(p)
    BY <2>4, DispatchStep
  <2>5. CASE SubmitRefused(p)
    BY <2>5, SubmitRefusedStep
  <2>6. CASE AnswerOk(p)
    BY <2>6, AnswerOkStep
  <2>7. CASE AnswerError(p)
    BY <2>7, AnswerErrorStep
  <2>8. CASE NoAnswer(p)
    BY <2>8, NoAnswerStep
  <2>9. CASE CrashWaiting(p)
    BY <2>9, EndStep DEF CrashWaiting
  <2>13. CASE GetTask(p)
    BY <2>13, GetTaskStep
  <2>10. CASE RefreshSave(p)
    BY <2>10, RefreshSaveStep
  <2>11. CASE ReconcileSave(p)
    BY <2>11, ReconcileSaveStep
  <2>12. CASE ResolveSave(p)
    BY <2>12, ResolveSaveStep
  <2>. QED
    BY <1>2, <2>1, <2>2, <2>3, <2>4, <2>5, <2>6, <2>7, <2>8, <2>9, <2>10, <2>11, <2>12, <2>13
       DEF ProcStep
<1>3. ASSUME NEW c \in Conf, BackendStep(c)
      PROVE  IInv'
  BY <1>3, ApplyStep, DoomStep, HandInStep, PayOutStep DEF BackendStep
<1>. QED
  BY <1>1, <1>2, <1>3 DEF Next

\* The inductive invariant holds of every behaviour of service.py over a row,
\* however invocations overlap and whatever the backends do.
THEOREM Invariance == Spec => []IInv
BY InitOK, NextOK, PTL DEF Spec

\* Every variable keeps its type.
THEOREM TypeCorrect == Spec => []TypeOK
<1>1. IInv => TypeOK
  BY DEF IInv, TypeOK, BackendOK, CopyOK
<1>. QED
  BY <1>1, Invariance, PTL

\* The row, and each copy that may yet be saved over it, is a contract whose
\* status, bounty, refund and ledger agree: overlapping saves of whole rows
\* lose updates but never mix two of them.
THEOREM Coherence == Spec => []RowCoherent
<1>1. IInv => RowCoherent
  BY DEF IInv, RowCoherent, CopyOK
<1>. QED
  BY <1>1, Invariance, PTL

\* What the row or a copy says happened at the backend did happen.
THEOREM Truth == Spec => []Truthful
<1>1. IInv => Truthful
  BY DEF IInv, Truthful, CopyOK
<1>. QED
  BY <1>1, Invariance, PTL

\* An attempt recorded FAILED is safe to retry, if a tool error is always a
\* definite refusal.
THEOREM FailedSafe ==
  ASSUME ~IndefiniteErrors
  PROVE  Spec => []FailedIsSafe
<1>1. IInv => FailedIsSafe
  BY DEF IInv, FailedIsSafe, CopyOK, LedgerOK
<1>. QED
  BY <1>1, Invariance, PTL

\* transition_to never raises between an answer and the save that records it,
\* nor when a lock is to be cleared.
THEOREM NeverRaises == Spec => []TransitionsAllowed
<1>1. IInv => TransitionsAllowed
  <2>. SUFFICES ASSUME IInv, NEW p \in Procs
                PROVE  LET s == sess[p]
                       IN /\ s.pc = "waiting" =>
                             {"submit_uncertain", IF s.op = "task_create" THEN "delegated" ELSE "closed"}
                               \subseteq TRANSITIONS[s.copy.status]
                          /\ s.pc \in {"reconciling", "resolving"} =>
                             /\ UncertainAttempt(s.copy) # NoId
                             /\ {"delegated", "closed", prep[UncertainAttempt(s.copy)].origin}
                                  \subseteq TRANSITIONS[s.copy.status]
    BY DEF TransitionsAllowed
  <2>. DEFINE s == sess[p]
  <2>1. CASE s.pc = "waiting"
    <3>1. \/ s.op = "task_create" /\ s.copy.status = "ready"
          \/ s.op = "task_refund" /\ s.copy.status \in {"delegated", "submitted"}
      BY <2>1, HoldsConf DEF DELEGATABLE, REFUNDABLE
    <3>. QED
      BY <2>1, <3>1 DEF TRANSITIONS
  <2>2. CASE s.pc \in {"reconciling", "resolving"}
    <3>. DEFINE c == UncertainAttempt(s.copy)
    <3>1. /\ c \in Conf /\ Locked(s.copy) /\ Ambiguous(s.copy) = {c}
          /\ Coherent(s.copy, prep)
      BY <2>2, HoldsLock DEF CopyOK
    <3>. HIDE DEF c
    <3>2. prep[c].origin \in {"ready", "delegated", "submitted"}
      BY <3>1 DEF Coherent, DELEGATABLE, REFUNDABLE
    <3>3. c # NoId
      BY <3>1, MaxPreparesAssumption DEF Conf, NoId
    <3>4. s.copy.status = "submit_uncertain"
      BY <3>1 DEF Locked
    <3>5. {"delegated", "closed", prep[c].origin} \subseteq TRANSITIONS[s.copy.status]
      BY <3>2, <3>4 DEF TRANSITIONS
    <3>6. s.pc # "waiting"
      BY <2>2
    <3>. QED
      BY <3>3, <3>5, <3>6 DEF c
  <2>. QED
    BY <2>1, <2>2
<1>. QED
  BY <1>1, Invariance, PTL
=============================================================================
