------------------------------ MODULE Contract ------------------------------
(***************************************************************************)
(* The Task Contract of models/contract.py as a value: its status and the  *)
(* transition table, the delegation, refund and remote records, the        *)
(* attempt ledger, and the edits that service.py makes to a contract it    *)
(* holds in memory before it saves it.                                     *)
(*                                                                         *)
(* A confirmation is named by a number, in the order the backends issue    *)
(* them.  One prepare yields one confirmation and one attempt, so the      *)
(* number names the attempt too, and the task a task_create confirmation   *)
(* would create.  What an attempt records for good when it is prepared     *)
(* (operation, adapter, task, origin status) is kept once, in MoneyPath's  *)
(* prep; what changes, its outcome, is kept in each copy of the contract.  *)
(***************************************************************************)
EXTENDS Naturals

CONSTANT MaxPrepares        \* bound: how many confirmations are ever issued
ASSUME MaxPreparesAssumption == MaxPrepares \in Nat

Conf == 1..MaxPrepares
NoId == 0                   \* None, where a confirmation or task id may be

Status == {"draft", "ready", "submit_uncertain", "delegated", "submitted",
           "approved", "rejected", "closed"}

\* Mutated form: a contract under review cannot be locked.
TRANSITIONSNoLockUnderReview ==
  [ draft            |-> {"ready", "closed"},
    ready            |-> {"delegated", "draft", "closed", "submit_uncertain"},
    submit_uncertain |-> {"ready", "delegated", "submitted", "closed"},
    delegated        |-> {"submitted", "closed", "submit_uncertain"},
    submitted        |-> {"approved", "rejected", "closed"},
    approved         |-> {"closed"},
    rejected         |-> {"submitted", "closed"},
    closed           |-> {} ]
TRANSITIONS ==
  [ draft            |-> {"ready", "closed"},
    ready            |-> {"delegated", "draft", "closed", "submit_uncertain"},
    submit_uncertain |-> {"ready", "delegated", "submitted", "closed"},
    delegated        |-> {"submitted", "closed", "submit_uncertain"},
    submitted        |-> {"approved", "rejected", "closed", "submit_uncertain"},
    approved         |-> {"closed"},
    rejected         |-> {"submitted", "closed"},
    closed           |-> {} ]

DELEGATABLE == {"ready"}
REFUNDABLE == {"delegated", "submitted"}

MoneyOperation == {"task_create", "task_refund"}

AttemptOutcome == {"prepared", "submitted", "failed", "ambiguous",
                   "reconciled_confirmed", "reconciled_not_found"}

\* The ledger maps a confirmation to its outcome, "absent" when this copy of
\* the contract has no attempt for it.
TaskContract ==
  [ status     : Status,
    delegation : Conf \cup {NoId},      \* the task DelegationRecord names
    refund     : Conf \cup {NoId},      \* the confirmation RefundRecord names
    remote     : {"none", "open", "closed"},
    attempts   : [Conf -> AttemptOutcome \cup {"absent"}] ]

\* Service.create_contract: READY when a human is required, otherwise (force)
\* DRAFT; see contracts/builder.py.
NewContract(status) ==
  [ status |-> status, delegation |-> NoId, refund |-> NoId,
    remote |-> "none", attempts |-> [c \in Conf |-> "absent"] ]

Ambiguous(k) == {c \in Conf : k.attempts[c] = "ambiguous"}

\* The newest ambiguous attempt, NoId when there is none.
UncertainAttempt(k) ==
  IF Ambiguous(k) = {} THEN NoId
  ELSE CHOOSE c \in Ambiguous(k) : \A d \in Ambiguous(k) : d <= c

CanTransitionTo(k, status) == status \in TRANSITIONS[k.status]

\* Service._refuse_if_locked.
Locked(k) == k.status = "submit_uncertain"

(***************************************************************************)
(* The edits.  Each is one straight-line block of service.py between the   *)
(* answer it reacts to and its save().                                     *)
(***************************************************************************)
\* Mutated form: the attempts list is replaced, not appended to.
RecordPreparedAfresh(k, c) ==
  [k EXCEPT !.attempts = [d \in Conf |-> IF d = c THEN "prepared" ELSE "absent"]]
RecordPrepared(k, c) == [k EXCEPT !.attempts[c] = "prepared"]

\* MoneySession.submit, the adapter raised AmbiguousSubmit: lock.
\* Mutated form: the status is left as it was.
RecordAmbiguousUnlocked(k, c) == [k EXCEPT !.attempts[c] = "ambiguous"]
RecordAmbiguous(k, c) ==
  [k EXCEPT !.attempts[c] = "ambiguous", !.status = "submit_uncertain"]

\* MoneySession.submit, the adapter raised any other AdapterError.
RecordFailed(k, c) == [k EXCEPT !.attempts[c] = "failed"]

\* The bounty t that confirmation c paid for exists.
RecordDelegated(k, c, t, outcome) ==
  [k EXCEPT !.attempts[c] = outcome, !.delegation = t, !.status = "delegated"]

\* The refund confirmation c asked for has happened.
RecordRefunded(k, c, outcome) ==
  [k EXCEPT !.attempts[c] = outcome, !.refund = c, !.status = "closed"]

\* resolve_uncertain: a person asserts that attempt c never took effect.
\* Mutated form: the status is left as it was.
RecordNotFoundStillLocked(k, c, origin) ==
  [k EXCEPT !.attempts[c] = "reconciled_not_found"]
RecordNotFound(k, c, origin) ==
  [k EXCEPT !.attempts[c] = "reconciled_not_found", !.status = origin]

\* refresh: the backend's current word on the bounty.
\* Mutated forms: the backend's own word for the status is stored; the status
\* is not looked at.
RecordRemoteRaw(k, open, hasSubmissions) ==
  [k EXCEPT !.remote = IF open THEN "CREATED" ELSE "CLOSED"]
RecordRemoteAnyStatus(k, open, hasSubmissions) ==
  [k EXCEPT !.remote = IF open THEN "open" ELSE "closed",
            !.status = IF hasSubmissions THEN "submitted" ELSE @]
RecordRemote(k, open, hasSubmissions) ==
  [k EXCEPT !.remote = IF open THEN "open" ELSE "closed",
            !.status = IF @ = "delegated" /\ hasSubmissions
                       THEN "submitted" ELSE @]

(***************************************************************************)
(* What makes one copy of the contract consistent with itself: it is       *)
(* locked exactly when one attempt is ambiguous, an attempt that can be    *)
(* sent back to where it came from; it names a bounty exactly when its     *)
(* status says funded, one that a confirmed task_create made; and it is    *)
(* closed exactly when a confirmed refund of that bounty is on record.     *)
(* confs[c] is what was fixed when confirmation c was prepared.            *)
(***************************************************************************)
Confirmed == {"submitted", "reconciled_confirmed"}

Coherent(k, confs) ==
  /\ IF Locked(k) THEN \E c \in Conf : Ambiguous(k) = {c} ELSE Ambiguous(k) = {}
  /\ k.status \in {"draft", "ready"} => k.delegation = NoId
  /\ k.status \notin {"draft", "ready", "submit_uncertain"} => k.delegation # NoId
  /\ k.status = "closed" <=> k.refund # NoId
  /\ k.delegation # NoId =>
       confs[k.delegation].op = "task_create" /\ k.attempts[k.delegation] \in Confirmed
  /\ k.refund # NoId =>
       /\ confs[k.refund].op = "task_refund"
       /\ confs[k.refund].task = k.delegation
       /\ k.attempts[k.refund] \in Confirmed
  /\ \A c \in Conf : k.attempts[c] \in Confirmed => c \in {k.delegation, k.refund}
  /\ \A c \in Ambiguous(k) :
       \/ /\ confs[c].op = "task_create"
          /\ confs[c].origin \in DELEGATABLE
          /\ k.delegation = NoId
       \/ /\ confs[c].op = "task_refund"
          /\ confs[c].origin \in REFUNDABLE
          /\ k.delegation # NoId
          /\ confs[c].task = k.delegation
=============================================================================
