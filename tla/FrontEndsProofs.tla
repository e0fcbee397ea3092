--------------------------- MODULE FrontEndsProofs ---------------------------
(***************************************************************************)
(* Theorems of FrontEnds, for any terminals and MCP servers.  The front    *)
(* ends add nothing to the money path but restrictions (Refines), so what  *)
(* MoneyPathProofs and SerialProofs show of Spec holds of every run of hf  *)
(* commands and tool calls.  No money moves without approval, however they *)
(* overlap; and one at a time, what a command said of its confirmation     *)
(* stays so.                                                               *)
(***************************************************************************)
EXTENDS FrontEnds, SerialProofs

\* A command is a step of an invocation, or leaves the money path alone.
LEMMA CommandStep ==
  ASSUME NEW p \in Procs, Command(p)
  PROVE  ProcStep(p) \/ UNCHANGED vars
<1>1. CASE \E a \in Adapters, flags \in Flags :
             DelegateCommand(p, a, flags) \/ RefundCommand(p, a, flags)
  BY <1>1 DEF DelegateCommand, RefundCommand, ProcStep
<1>2. CASE DelegatePrepareTool(p)
  BY <1>2, FrontEndsAssumption DEF DelegatePrepareTool, ProcStep
<1>3. CASE Quote(p)
  BY <1>3 DEF Quote, ProcStep
<1>4. CASE NoSubmit(p) \/ Decline(p) \/ Dies(p)
  BY <1>4 DEF NoSubmit, Decline, Dies, ProcStep
<1>5. CASE Approve(p)
  BY <1>5 DEF Approve
<1>6. CASE Submit(p) \/ SubmitFails(p)
  BY <1>6 DEF Submit, SubmitFails, ProcStep
<1>7. CASE Succeeds(p) \/ Fails(p) \/ EndsUncertain(p)
  BY <1>7 DEF Succeeds, Fails, EndsUncertain, ProcStep
<1>8. CASE Refresh(p)
  BY <1>8 DEF Refresh, ProcStep
<1>9. CASE Reconcile(p)
  BY <1>9 DEF Reconcile, ProcStep
<1>10. CASE Resolve(p)
  BY <1>10 DEF Resolve, ProcStep
<1>. QED
  BY <1>1, <1>2, <1>3, <1>4, <1>5, <1>6, <1>7, <1>8, <1>9, <1>10, Command(p) DEF Command

\* Commands and tool calls are invocations of MoneyPath: whatever the front ends
\* do, the money path does.
THEOREM Refines == FrontSpec => Spec
<1>1. FrontInit => Init
  BY DEF FrontInit
<1>2. [FrontNext]_frontVars => [Next]_vars
  <2>1. ASSUME NEW p \in Procs, Command(p)
        PROVE  [Next]_vars
    BY <2>1, CommandStep DEF Next
  <2>2. ASSUME NEW c \in Conf, Backend(c)
        PROVE  [Next]_vars
    BY <2>2 DEF Backend, Next
  <2>3. ASSUME UNCHANGED frontVars
        PROVE  [Next]_vars
    BY <2>3 DEF frontVars, vars
  <2>. QED
    BY <2>1, <2>2, <2>3 DEF FrontNext
<1>. QED
  BY <1>1, <1>2, PTL DEF FrontSpec, Spec

\* So hf commands and tool calls keep the row and every copy consistent, and
\* truthful about the backends.
THEOREM FrontEndsTruthful == FrontSpec => [](RowCoherent /\ Truthful)
  BY Refines, Coherence, Truth, PTL

\* The step of an invocation makes a confirmation live only when it dispatches
\* it, and it dispatches only what its own session holds, past its own prompt.
LEMMA OnlyDispatch ==
  ASSUME NEW p \in Procs, Command(p), TypeOK, NEW c \in Conf,
         fate'[c] \in {"inflight", "applied"}
  PROVE  fate[c] = fate'[c] \/ (mode[p] = "agreed" /\ c = sess[p].conf)
<1>1. CASE Submit(p)
  BY <1>1 DEF Submit, Dispatch, TypeOK
<1>2. CASE SubmitFails(p)
  BY <1>2 DEF SubmitFails, SubmitRefused, TypeOK
<1>3. CASE Quote(p)
  BY <1>3 DEF Quote, Prepare, MayPrepare, TypeOK
<1>4. CASE \E a \in Adapters, flags \in Flags :
             DelegateCommand(p, a, flags) \/ RefundCommand(p, a, flags)
  BY <1>4 DEF DelegateCommand, RefundCommand, OpenDelegation, MayDelegate, OpenRefund, Begin,
     backend
<1>5. CASE DelegatePrepareTool(p)
  BY <1>5 DEF DelegatePrepareTool, OpenDelegation, MayDelegate, Begin, backend
<1>6. CASE NoSubmit(p) \/ Decline(p) \/ Dies(p)
  BY <1>6 DEF NoSubmit, Decline, Dies, Abandon, CrashWaiting, backend
<1>7. CASE Approve(p)
  BY <1>7 DEF Approve, vars
<1>8. CASE Succeeds(p) \/ Fails(p) \/ EndsUncertain(p)
  BY <1>8 DEF Succeeds, Fails, EndsUncertain, AnswerOk, AnswerError, NoAnswer, backend
<1>9. CASE Refresh(p)
  BY <1>9 DEF Refresh, RefreshRead, MayRefresh, GetTask, RefreshSave, Begin, backend
<1>10. CASE Reconcile(p)
  BY <1>10 DEF Reconcile, ReconcileRead, MayReconcile, GetTask, ReconcileSave, Begin, backend
<1>11. CASE Resolve(p)
  BY <1>11 DEF Resolve, ResolveRead, MayResolve, ResolveSave, Begin, backend
<1>. QED
  BY <1>1, <1>2, <1>3, <1>4, <1>5, <1>6, <1>7, <1>8, <1>9, <1>10, <1>11, Command(p) DEF Command

\* Approval is never taken back.
LEMMA ApprovedGrows ==
  ASSUME FrontNext
  PROVE  approved \subseteq approved'
<1>1. ASSUME NEW p \in Procs, Command(p)
      PROVE  approved \subseteq approved'
  BY <1>1 DEF Command, DelegateCommand, RefundCommand, DelegatePrepareTool, Quote, NoSubmit,
     Approve, Decline, Submit, SubmitFails, Succeeds, Fails, EndsUncertain, Dies,
     Refresh, Reconcile, Resolve, Called, Says, Silent, front
<1>2. ASSUME NEW c \in Conf, Backend(c)
      PROVE  approved \subseteq approved'
  BY <1>2 DEF Backend, Silent, front
<1>. QED
  BY <1>1, <1>2, FrontNext DEF FrontNext

(***************************************************************************)
(* The type invariant.                                                     *)
(***************************************************************************)
\* The session that p opened, quoted, submitted and ended, or the row it read:
\* what it is doing after the step.
LEMMA PCAfter ==
  ASSUME IInv, NEW p \in Procs
  PROVE  /\ \A a \in Adapters : OpenDelegation(p, a) \/ OpenRefund(p, a) => sess'[p].pc = "opened"
         /\ \A a \in Adapters : RefreshRead(p, a) \/ ReconcileRead(p, a) =>
              sess[p].pc = "idle" /\ sess'[p].pc \in {"refreshing", "reconciling"}
         /\ \A op \in MoneyOperation : ResolveRead(p, op) =>
              sess[p].pc = "idle" /\ sess'[p].pc = "resolving"
         /\ Prepare(p) => sess[p].pc = "opened" /\ sess'[p].pc = "prepared"
         /\ Dispatch(p) => sess[p].pc = "prepared" /\ sess'[p].pc = "waiting"
         /\ GetTask(p) => sess[p].pc = sess'[p].pc
         /\ \/ Abandon(p) \/ CrashWaiting(p) \/ SubmitRefused(p)
            \/ AnswerOk(p) \/ AnswerError(p) \/ NoAnswer(p)
            \/ RefreshSave(p) \/ ReconcileSave(p) \/ ResolveSave(p)
            => sess'[p].pc = "idle"
         /\ ProcStep(p) => \A q \in Procs \ {p} : sess'[q] = sess[q]
<1>0. sess \in [Procs -> Session] /\ sess[p] \in Session
  BY DEF IInv
<1>1. \A a \in Adapters : OpenDelegation(p, a) \/ OpenRefund(p, a) => sess'[p].pc = "opened"
  BY <1>0 DEF OpenDelegation, MayDelegate, OpenRefund, Begin
<1>2. \A a \in Adapters : RefreshRead(p, a) \/ ReconcileRead(p, a) =>
              sess[p].pc = "idle" /\ sess'[p].pc \in {"refreshing", "reconciling"}
  BY <1>0 DEF RefreshRead, MayRefresh, ReconcileRead, MayReconcile, Begin
<1>3. \A op \in MoneyOperation : ResolveRead(p, op) =>
              sess[p].pc = "idle" /\ sess'[p].pc = "resolving"
  BY <1>0 DEF ResolveRead, MayResolve, Begin
<1>4. Prepare(p) => sess[p].pc = "opened" /\ sess'[p].pc = "prepared"
  BY <1>0 DEF Prepare, MayPrepare, Session
<1>5. Dispatch(p) => sess[p].pc = "prepared" /\ sess'[p].pc = "waiting"
  BY <1>0 DEF Dispatch, Session
<1>6. GetTask(p) => sess[p].pc = sess'[p].pc
  BY <1>0 DEF GetTask, Session
<1>7. \/ Abandon(p) \/ CrashWaiting(p) \/ SubmitRefused(p)
      \/ AnswerOk(p) \/ AnswerError(p) \/ NoAnswer(p)
      \/ RefreshSave(p) \/ ReconcileSave(p) \/ ResolveSave(p)
      => sess' = [sess EXCEPT ![p] = Idle]
  BY DEF Abandon, CrashWaiting, SubmitRefused, AnswerOk, AnswerError, NoAnswer, RefreshSave,
         ReconcileSave, ResolveSave, SaveAndEnd, End
<1>8. ProcStep(p) => \E s : sess' = [sess EXCEPT ![p] = s]
  <2>1. \A pc, op, a : Begin(p, pc, op, a) => \E s : sess' = [sess EXCEPT ![p] = s]
    BY DEF Begin
  <2>2. Prepare(p) => \E s : sess' = [sess EXCEPT ![p] = s]
    BY <1>0 DEF Prepare, MayPrepare
  <2>3. Dispatch(p) \/ GetTask(p) => \E s : sess' = [sess EXCEPT ![p] = s]
    BY <1>0 DEF Dispatch, GetTask
  <2>. QED
    BY <1>7, <2>1, <2>2, <2>3 DEF ProcStep, OpenDelegation, MayDelegate, OpenRefund, RefreshRead,
       MayRefresh, ReconcileRead, MayReconcile,
       ResolveRead, MayResolve
<1>. QED
  BY <1>0, <1>1, <1>2, <1>3, <1>4, <1>5, <1>6, <1>7, <1>8 DEF Idle

\* A confirmation that was issued stays issued.
LEMMA StaysIssued ==
  ASSUME IInv, [Next]_vars, NEW c \in Conf, fate[c] # "unused"
  PROVE  fate'[c] # "unused"
<1>0. BackendOK(prep, fate, task)
  BY DEF IInv
<1>1. ASSUME NEW p \in Procs, ProcStep(p)
      PROVE  fate'[c] # "unused"
  <2>1. CASE Prepare(p)
    BY <1>0, <2>1 DEF Prepare, MayPrepare, BackendOK
  <2>2. CASE Dispatch(p) \/ SubmitRefused(p)
    BY <1>0, <2>2 DEF Dispatch, SubmitRefused, BackendOK
  <2>3. CASE UNCHANGED backend
    BY <2>3 DEF backend
  <2>. QED
    BY <1>1, <2>1, <2>2, <2>3 DEF ProcStep, OpenDelegation, MayDelegate, OpenRefund, RefreshRead,
       MayRefresh,
       ReconcileRead, MayReconcile, ResolveRead, MayResolve, Begin, Abandon, AnswerOk,
          AnswerError, NoAnswer, CrashWaiting,
       GetTask, RefreshSave, ReconcileSave, ResolveSave
<1>2. ASSUME NEW d \in Conf, BackendStep(d)
      PROVE  fate'[c] # "unused"
  BY <1>0, <1>2 DEF BackendStep, Apply, Doom, HandIn, PayOut, BackendOK
<1>3. CASE UNCHANGED vars
  BY <1>3 DEF vars
<1>. QED
  BY <1>1, <1>2, <1>3 DEF Next

\* Whose command is running has called it some way, and nobody else has.
ModeIs(m, ss) ==
  /\ m \in [Procs -> Modes]
  /\ \A p \in Procs : m[p] # "none" <=> ss[p].pc \in {"opened", "prepared", "waiting"}

\* A command opens, keeps or ends its session together with its mode.
LEMMA CommandMode ==
  ASSUME IInv, NEW p \in Procs, Command(p), ModeIs(mode, sess)
  PROVE  ModeIs(mode', sess')
<1>. DEFINE OpenPC == {"opened", "prepared", "waiting"}
<1>0. mode \in [Procs -> Modes] /\ (mode[p] # "none" <=> sess[p].pc \in OpenPC)
  BY DEF ModeIs
<1>1. \A q \in Procs \ {p} : sess'[q] = sess[q]
  BY CommandStep, PCAfter DEF vars
<1>2. \/ mode' = mode /\ (sess'[p].pc \in OpenPC <=> sess[p].pc \in OpenPC)
      \/ mode' = [mode EXCEPT ![p] = "none"] /\ sess'[p].pc = "idle"
      \/ \E m \in Modes \ {"none"} : mode' = [mode EXCEPT ![p] = m] /\ sess'[p].pc \in OpenPC
  <2>1. CASE \E a \in Adapters, flags \in Flags :
               DelegateCommand(p, a, flags) \/ RefundCommand(p, a, flags)
    BY <2>1, PCAfter DEF DelegateCommand, RefundCommand, Called, Modes, Flags
  <2>2. CASE DelegatePrepareTool(p)
    BY <2>2, PCAfter, FrontEndsAssumption DEF DelegatePrepareTool, Called, Modes
  <2>3. CASE Quote(p)
    BY <2>3, PCAfter DEF Quote, Silent, front
  <2>4. CASE NoSubmit(p) \/ Decline(p)
    BY <2>4, PCAfter DEF NoSubmit, Decline, Says
  <2>5. CASE Dies(p)
    BY <2>5, PCAfter DEF Dies, Called
  <2>6. CASE Approve(p)
    BY <2>6 DEF Approve, vars, Modes
  <2>7. CASE Submit(p)
    BY <2>7, PCAfter DEF Submit, Silent, front
  <2>8. CASE SubmitFails(p) \/ Succeeds(p) \/ Fails(p) \/ EndsUncertain(p)
    BY <2>8, PCAfter DEF SubmitFails, Succeeds, Fails, EndsUncertain, Says
  <2>9. CASE Refresh(p)
    <3>1. mode' = mode
      BY <2>9 DEF Refresh, Silent, front
    <3>2. sess[p].pc \notin OpenPC /\ sess'[p].pc \notin OpenPC
      BY <2>9, PCAfter DEF Refresh, RefreshSave
    <3>. QED
      BY <3>1, <3>2
  <2>10. CASE Reconcile(p)
    <3>1. mode' = mode
      BY <2>10 DEF Reconcile, Silent, front
    <3>2. sess[p].pc \notin OpenPC /\ sess'[p].pc \notin OpenPC
      BY <2>10, PCAfter DEF Reconcile, ReconcileSave
    <3>. QED
      BY <3>1, <3>2
  <2>11. CASE Resolve(p)
    <3>1. mode' = mode
      BY <2>11 DEF Resolve, Silent, front
    <3>2. sess[p].pc \notin OpenPC /\ sess'[p].pc \notin OpenPC
      BY <2>11, PCAfter DEF Resolve, ResolveSave
    <3>. QED
      BY <3>1, <3>2
  <2>. QED
    BY <2>1, <2>2, <2>3, <2>4, <2>5, <2>6, <2>7, <2>8, <2>9, <2>10, <2>11, Command(p) DEF Command
<1>. HIDE DEF OpenPC
<1>3. \A q \in Procs \ {p} : mode'[q] = mode[q]
  BY <1>0, <1>2
<1>4. mode' \in [Procs -> Modes]
  BY <1>0, <1>2 DEF Modes
<1>5. mode'[p] # "none" <=> sess'[p].pc \in OpenPC
  BY <1>0, <1>2 DEF OpenPC
<1>. QED
  BY <1>1, <1>3, <1>4, <1>5 DEF ModeIs, OpenPC

\* What a command says or approves is one of the confirmations, and words.
LEMMA CommandSays ==
  ASSUME IInv, NEW p \in Procs, Command(p)
  PROVE  /\ \/ said' = said
            \/ /\ sess[p].pc \in {"prepared", "waiting"}
               /\ \E word \in Words : said' = [said EXCEPT ![sess[p].conf] = word]
         /\ \/ approved' = approved
            \/ sess[p].pc = "prepared" /\ approved' = approved \cup {sess[p].conf}
<1>1. CASE NoSubmit(p) \/ Decline(p) \/ SubmitFails(p) \/ Succeeds(p) \/ Fails(p) \/ EndsUncertain(p)
  <2>1. PICK word \in Words : Says(p, word)
    BY <1>1 DEF NoSubmit, Decline, SubmitFails, Succeeds, Fails, EndsUncertain, Words
  <2>2. sess[p].pc \in {"prepared", "waiting"}
    BY <1>1 DEF NoSubmit, Decline, SubmitFails, Succeeds, Fails, EndsUncertain, AnswerOk,
       AnswerError, NoAnswer, SubmitRefused
  <2>. QED
    BY <2>1, <2>2 DEF Says
<1>2. CASE Approve(p)
  BY <1>2 DEF Approve
<1>3. CASE UNCHANGED <<approved, said>>
  BY <1>3
<1>. QED
  BY <1>1, <1>2, <1>3, Command(p) DEF Command, DelegateCommand, RefundCommand,
     DelegatePrepareTool, Quote, Submit, Dies, Refresh, Reconcile, Resolve, Called, Silent, front

\* The front ends' variables keep their types: in particular, a mode is on
\* record for exactly the invocations that have a money session open.
THEOREM FrontTypeCorrect == FrontSpec => []FrontTypeOK
<1>. DEFINE T == /\ ModeIs(mode, sess)
                 /\ approved \subseteq {c \in Conf : fate[c] # "unused"}
                 /\ said \in [Conf -> Words]
<1>1. FrontInit => T
  BY DEF FrontInit, Init, Idle, ModeIs, Modes, Words
<1>2. IInv /\ T /\ [FrontNext]_frontVars => T'
  <2>. SUFFICES ASSUME IInv, T, [FrontNext]_frontVars PROVE T'
    OBVIOUS
  <2>0. BackendOK(prep, fate, task)
    BY DEF IInv
  <2>1. ASSUME NEW p \in Procs, Command(p)
        PROVE  T'
    <3>1. ModeIs(mode', sess')
      BY <2>1, CommandMode
    <3>2. [Next]_vars
      BY <2>1, CommandStep DEF Next
    <3>3. \A c \in Conf : fate[c] # "unused" => fate'[c] # "unused"
      BY <3>2, StaysIssued
    <3>4. sess[p].pc \in {"prepared", "waiting"} => sess[p].conf \in Conf /\ fate[sess[p].conf] # "unused"
      BY HoldsConf DEF SessionOK, Dispatched
    <3>5. approved' \subseteq {c \in Conf : fate'[c] # "unused"}
      BY <2>1, <3>3, <3>4, CommandSays
    <3>6. said' \in [Conf -> Words]
      BY <2>1, <3>4, CommandSays
    <3>. QED
      BY <3>1, <3>5, <3>6
  <2>2. ASSUME NEW c \in Conf, Backend(c)
        PROVE  T'
    <3>1. [Next]_vars
      BY <2>2 DEF Backend, Next
    <3>2. \A d \in Conf : fate[d] # "unused" => fate'[d] # "unused"
      BY <3>1, StaysIssued
    <3>3. sess' = sess /\ UNCHANGED front
      BY <2>2 DEF Backend, BackendStep, Apply, Doom, HandIn, PayOut, store, Silent
    <3>. QED
      BY <3>2, <3>3 DEF front
  <2>3. CASE UNCHANGED frontVars
    BY <2>3 DEF frontVars
  <2>. QED
    BY <2>1, <2>2, <2>3 DEF FrontNext
<1>3. T => FrontTypeOK
  BY DEF FrontTypeOK, ModeIs
<1>. HIDE DEF T
<1>. QED
  BY <1>1, <1>2, <1>3, Refines, Invariance, PTL DEF FrontSpec

(***************************************************************************)
(* Approval.  The y that a command was given is for the quote on display,  *)
(* and the command goes on with whatever its session holds; so the         *)
(* invariant ties the two together: an invocation past its prompt holds    *)
(* the very confirmation that was approved, and will not get another.      *)
(***************************************************************************)
AgreedOnOwn ==
  \A p \in Procs : mode[p] = "agreed" =>
    /\ sess[p].pc \in {"prepared", "waiting"}
    /\ sess[p].conf \in approved

\* A command leaves no invocation past its prompt with a quote that nobody
\* approved.
LEMMA CommandAgreed ==
  ASSUME IInv, NEW p \in Procs, Command(p), mode \in [Procs -> Modes], AgreedOnOwn
  PROVE  AgreedOnOwn'
<1>0. sess \in [Procs -> Session] /\ sess[p] \in Session
  BY DEF IInv
<1>1. \A q \in Procs \ {p} : sess'[q] = sess[q]
  BY CommandStep, PCAfter DEF vars
<1>2. approved \subseteq approved'
  BY ApprovedGrows DEF FrontNext
<1>3. /\ \A q \in Procs \ {p} : mode'[q] = mode[q]
      /\ mode'[p] = "agreed" => /\ sess'[p].pc \in {"prepared", "waiting"}
                               /\ sess'[p].conf \in approved'
  <2>1. CASE \E a \in Adapters, flags \in Flags :
               DelegateCommand(p, a, flags) \/ RefundCommand(p, a, flags)
    BY <2>1 DEF DelegateCommand, RefundCommand, Called, Flags
  <2>2. CASE DelegatePrepareTool(p)
    BY <2>2 DEF DelegatePrepareTool, Called
  <2>3. CASE Quote(p)
    BY <2>3, PCAfter DEF Quote, Silent, front, AgreedOnOwn
  <2>4. CASE NoSubmit(p) \/ Decline(p) \/ SubmitFails(p)
    BY <2>4 DEF NoSubmit, Decline, SubmitFails, Says
  <2>5. CASE Approve(p)
    BY <2>5 DEF Approve, vars
  <2>6. CASE Submit(p)
    BY <1>0, <2>6 DEF Submit, Dispatch, Silent, front, AgreedOnOwn, Session
  <2>7. CASE Succeeds(p) \/ Fails(p) \/ EndsUncertain(p)
    BY <2>7 DEF Succeeds, Fails, EndsUncertain, Says
  <2>8. CASE Dies(p)
    BY <2>8 DEF Dies, Called
  <2>9. CASE Refresh(p)
    BY <2>9, PCAfter DEF Refresh, RefreshSave, Silent, front, AgreedOnOwn
  <2>10. CASE Reconcile(p)
    BY <2>10, PCAfter DEF Reconcile, ReconcileSave, Silent, front, AgreedOnOwn
  <2>11. CASE Resolve(p)
    BY <2>11, PCAfter DEF Resolve, ResolveSave, Silent, front, AgreedOnOwn
  <2>. QED
    BY <2>1, <2>2, <2>3, <2>4, <2>5, <2>6, <2>7, <2>8, <2>9, <2>10, <2>11, Command(p) DEF Command
<1>. QED
  BY <1>1, <1>2, <1>3 DEF AgreedOnOwn

\* What leaves for a backend is a quote that a person was shown and approved,
\* although a command goes by its own y and submits whatever its session holds:
\* a session has one quote, for good, and no y outlives its command.
THEOREM Approval == FrontSpec => []ApprovedOnly
<1>1. FrontInit => ApprovedOnly /\ AgreedOnOwn
  BY DEF FrontInit, Init, ApprovedOnly, AgreedOnOwn
<1>2. IInv /\ TypeOK /\ FrontTypeOK /\ ApprovedOnly /\ AgreedOnOwn /\ [FrontNext]_frontVars
        => ApprovedOnly' /\ AgreedOnOwn'
  <2>. SUFFICES ASSUME IInv, TypeOK, FrontTypeOK, ApprovedOnly, AgreedOnOwn,
                       [FrontNext]_frontVars
                PROVE  ApprovedOnly' /\ AgreedOnOwn'
    OBVIOUS
  <2>1. ASSUME NEW p \in Procs, Command(p)
        PROVE  ApprovedOnly' /\ AgreedOnOwn'
    <3>1. AgreedOnOwn'
      BY <2>1, CommandAgreed DEF FrontTypeOK
    <3>2. approved \subseteq approved'
      BY <2>1, ApprovedGrows DEF FrontNext
    <3>3. ASSUME NEW c \in Conf, fate'[c] \in {"inflight", "applied"}
          PROVE  c \in approved
      <4>1. fate[c] = fate'[c] \/ (mode[p] = "agreed" /\ c = sess[p].conf)
        BY <2>1, <3>3, OnlyDispatch
      <4>. QED
        BY <3>3, <4>1 DEF ApprovedOnly, AgreedOnOwn
    <3>. QED
      BY <3>1, <3>2, <3>3 DEF ApprovedOnly
  <2>2. ASSUME NEW d \in Conf, Backend(d)
        PROVE  ApprovedOnly' /\ AgreedOnOwn'
    <3>1. UNCHANGED <<sess, mode, approved>>
      BY <2>2 DEF Backend, BackendStep, Apply, Doom, HandIn, PayOut, store, Silent, front
    <3>2. ASSUME NEW c \in Conf, fate'[c] \in {"inflight", "applied"}
          PROVE  fate[c] \in {"inflight", "applied"}
      BY <2>2, <3>2 DEF Backend, BackendStep, Apply, Doom, HandIn, PayOut, TypeOK
    <3>. QED
      BY <3>1, <3>2 DEF ApprovedOnly, AgreedOnOwn
  <2>3. CASE UNCHANGED frontVars
    BY <2>3 DEF frontVars, ApprovedOnly, AgreedOnOwn
  <2>. QED
    BY <2>1, <2>2, <2>3 DEF FrontNext
<1>. QED
  BY <1>1, <1>2, Refines, Invariance, TypeCorrect, FrontTypeCorrect, PTL DEF FrontSpec

(***************************************************************************)
(* What was said stays so, one invocation at a time.  What a command said  *)
(* is kept true by the ledger of the row, which only moves on, and by      *)
(* nobody else holding the confirmation; nothing is said of one that is    *)
(* still held, or not issued yet.                                          *)
(***************************************************************************)
\* What the ledger and the backend hold of a confirmation that a command has
\* said this word of.
Tells(word, c, k, fates) ==
  /\ word = "unsubmitted" => fates[c] = "prepared" /\ k.attempts[c] = "prepared"
  /\ word = "error" => k.attempts[c] = "failed"
  /\ word = "uncertain" =>
       k.attempts[c] \in {"ambiguous", "reconciled_confirmed", "reconciled_not_found"}
  /\ word = "done" => k.attempts[c] = "submitted"

SaidOnRecord(k, fates, words) == \A c \in Conf : Tells(words[c], c, k, fates)

\* Nothing has been said of a confirmation not issued yet, or still held.
HeldUnheard ==
  \A c \in Conf :
    \/ fate[c] = "unused"
    \/ \E p \in Procs : sess[p].pc \in {"prepared", "waiting"} /\ sess[p].conf = c
    => said[c] = "unheard"

\* The inductive invariant.
SaidInv ==
  /\ SInv
  /\ said \in [Conf -> Words]
  /\ SaidOnRecord(row, fate, said)
  /\ HeldUnheard

\* A prepared attempt that the invocation does not hold, its step leaves alone.
LEMMA Untouched ==
  ASSUME SInv, OneAtATime, NEW p \in Procs, ProcStep(p), NEW c \in Conf,
         fate[c] = "prepared", row.attempts[c] = "prepared",
         sess[p].pc \in {"prepared", "waiting"} => sess[p].conf # c
  PROVE  fate'[c] = "prepared" /\ row'.attempts[c] = "prepared"
<1>0. BackendOK(prep, fate, task) /\ row \in TaskContract
  BY DEF SInv, IInv, CopyOK
<1>1. CASE UNCHANGED <<row, fate>>
  BY <1>1
<1>2. CASE Prepare(p)
  <2>1. sess[p].copy = row
    BY <1>2, Sees DEF Prepare, MayPrepare
  <2>2. PICK d \in Conf : /\ fate[d] = "unused" /\ row' = RecordPrepared(row, d)
                          /\ fate' = [fate EXCEPT ![d] = "prepared"]
    BY <1>2, <2>1 DEF Prepare, MayPrepare, NextConf
  <2>3. row'.attempts = [row.attempts EXCEPT ![d] = "prepared"]
    BY <1>0, <2>2, PreparedSettles
  <2>. QED
    BY <1>0, <2>2, <2>3 DEF TaskContract, BackendOK
<1>3. CASE Dispatch(p) \/ SubmitRefused(p) \/ AnswerOk(p) \/ AnswerError(p) \/ NoAnswer(p)
  <2>. DEFINE d == sess[p].conf
  <2>1. sess[p].pc \in {"prepared", "waiting"}
    BY <1>3 DEF Dispatch, SubmitRefused, AnswerOk, AnswerError, NoAnswer
  <2>2. sess[p].copy = row /\ d \in Conf /\ d # c
    BY <2>1, Sees, HoldsConf DEF SInv
  <2>3. fate'[c] = "prepared"
    BY <1>0, <1>3, <2>2 DEF Dispatch, SubmitRefused, AnswerOk, AnswerError, NoAnswer, backend, BackendOK
  <2>4. \/ row' = row
        \/ row' = RecordFailed(row, d)
        \/ row' = RecordAmbiguous(row, d)
        \/ row' = RecordDelegated(row, d, prep[d].task, "submitted")
        \/ row' = RecordRefunded(row, d, "submitted")
    BY <1>3, <2>2 DEF Dispatch, SubmitRefused, AnswerOk, AnswerError, NoAnswer, SaveAndEnd
  <2>. HIDE DEF d
  <2>5. row'.attempts[c] = row.attempts[c]
    <3>1. CASE row' = RecordFailed(row, d)
      <4>1. row'.attempts = [row.attempts EXCEPT ![d] = "failed"]
        BY <1>0, <2>2, <3>1, FailedSettles
      <4>. QED
        BY <1>0, <2>2, <2>3, <4>1 DEF TaskContract
    <3>2. CASE row' = RecordAmbiguous(row, d)
      <4>1. row'.attempts = [row.attempts EXCEPT ![d] = "ambiguous"]
        BY <1>0, <2>2, <3>2, AmbiguousSettles
      <4>. QED
        BY <1>0, <2>2, <2>3, <4>1 DEF TaskContract
    <3>3. CASE row' = RecordDelegated(row, d, prep[d].task, "submitted")
      <4>1. row'.attempts = [row.attempts EXCEPT ![d] = "submitted"]
        BY <1>0, <2>2, <3>3, DelegatedSettles
      <4>. QED
        BY <1>0, <2>2, <2>3, <4>1 DEF TaskContract
    <3>4. CASE row' = RecordRefunded(row, d, "submitted")
      <4>1. row'.attempts = [row.attempts EXCEPT ![d] = "submitted"]
        BY <1>0, <2>2, <3>4, RefundedSettles
      <4>. QED
        BY <1>0, <2>2, <2>3, <4>1 DEF TaskContract
    <3>. QED
      BY <2>4, <3>1, <3>2, <3>3, <3>4
  <2>. QED
    BY <2>3, <2>5
<1>4. CASE RefreshSave(p)
  <2>1. sess[p].copy = row /\ sess[p] \in Session /\ fate' = fate
    BY <1>4, Sees DEF RefreshSave, backend
  <2>. DEFINE open == sess[p].seen.task = "open"
              has == sess[p].seen.worked
  <2>2. row' = RecordRemote(row, open, has) /\ open \in BOOLEAN /\ has \in BOOLEAN
    BY <1>4, <2>1 DEF RefreshSave, SaveAndEnd, Session, Answer
  <2>. HIDE DEF open, has
  <2>3. row'.attempts = row.attempts
    BY <1>0, <2>2, RemoteEdit
  <2>. QED
    BY <2>1, <2>3
<1>5. CASE ReconcileSave(p) \/ ResolveSave(p)
  <2>. DEFINE d == UncertainAttempt(row)
  <2>1. sess[p].pc \in {"reconciling", "resolving"} /\ fate' = fate
    BY <1>5 DEF ReconcileSave, ResolveSave, backend
  <2>2. sess[p].copy = row /\ d \in Conf /\ Ambiguous(row) = {d}
    BY <2>1, Sees, HoldsLock DEF SInv
  <2>3. d # c
    BY <2>2 DEF Ambiguous
  <2>4. \/ row' = RecordNotFound(row, d, prep[d].origin)
        \/ row' = RecordDelegated(row, d, prep[d].task, "reconciled_confirmed")
        \/ row' = RecordRefunded(row, d, "reconciled_confirmed")
    BY <1>5, <2>2 DEF ReconcileSave, ResolveSave, SaveAndEnd
  <2>. HIDE DEF d
  <2>5. row'.attempts[c] = row.attempts[c]
    <3>1. CASE row' = RecordNotFound(row, d, prep[d].origin)
      <4>1. row'.attempts = [row.attempts EXCEPT ![d] = "reconciled_not_found"]
        BY <1>0, <2>2, <3>1, NotFoundSettles
      <4>. QED
        BY <1>0, <2>2, <2>3, <4>1 DEF TaskContract
    <3>2. CASE row' = RecordDelegated(row, d, prep[d].task, "reconciled_confirmed")
      <4>1. row'.attempts = [row.attempts EXCEPT ![d] = "reconciled_confirmed"]
        BY <1>0, <2>2, <3>2, DelegatedSettles
      <4>. QED
        BY <1>0, <2>2, <2>3, <4>1 DEF TaskContract
    <3>3. CASE row' = RecordRefunded(row, d, "reconciled_confirmed")
      <4>1. row'.attempts = [row.attempts EXCEPT ![d] = "reconciled_confirmed"]
        BY <1>0, <2>2, <3>3, RefundedSettles
      <4>. QED
        BY <1>0, <2>2, <2>3, <4>1 DEF TaskContract
    <3>. QED
      BY <2>4, <3>1, <3>2, <3>3
  <2>. QED
    BY <2>1, <2>5
<1>. QED
  BY <1>1, <1>2, <1>3, <1>4, <1>5, ProcStep(p) DEF ProcStep, OpenDelegation, MayDelegate,
     OpenRefund,
     RefreshRead, MayRefresh, ReconcileRead, MayReconcile, ResolveRead, MayResolve, Begin,
        Abandon, End, CrashWaiting, GetTask, backend

\* What was said and is not taken back stays on record through an invocation's
\* step.
LEMMA SaidStays ==
  ASSUME SaidInv, OneAtATime, NEW p \in Procs, ProcStep(p)
  PROVE  SaidOnRecord(row', fate', said)
<1>0. SInv /\ SaidOnRecord(row, fate, said) /\ HeldUnheard
  BY DEF SaidInv
<1>1. MovesOn(row, row')
  BY <1>0, ProcRow DEF RowStep
<1>2. /\ Settles["failed"] = {} /\ Settles["submitted"] = {}
      /\ Settles["reconciled_confirmed"] = {} /\ Settles["reconciled_not_found"] = {}
      /\ Settles["ambiguous"] = {"reconciled_confirmed", "reconciled_not_found"}
  BY DEF Settles
<1>. SUFFICES ASSUME NEW c \in Conf PROVE Tells(said[c], c, row', fate')
  BY DEF SaidOnRecord
<1>3. said[c] = "unsubmitted" => fate'[c] = "prepared" /\ row'.attempts[c] = "prepared"
  <2>. SUFFICES ASSUME said[c] = "unsubmitted"
                PROVE  fate'[c] = "prepared" /\ row'.attempts[c] = "prepared"
    OBVIOUS
  <2>1. sess[p].pc \in {"prepared", "waiting"} => sess[p].conf # c
    BY <1>0 DEF HeldUnheard
  <2>. QED
    BY <1>0, <2>1, Untouched DEF SaidOnRecord, Tells
<1>4. row'.attempts[c] \in {row.attempts[c]} \cup Settles[row.attempts[c]]
  BY <1>1 DEF MovesOn
<1>. QED
  BY <1>0, <1>2, <1>3, <1>4 DEF SaidOnRecord, Tells

\* What a command says as it ends, the row it leaves behind says too.
LEMMA CommandTells ==
  ASSUME SInv, OneAtATime, NEW p \in Procs, Command(p)
  PROVE  \/ said' = said
         \/ /\ sess[p].pc \in {"prepared", "waiting"} /\ sess'[p].pc = "idle"
            /\ \E word \in Words : /\ said' = [said EXCEPT ![sess[p].conf] = word]
                                  /\ Tells(word, sess[p].conf, row', fate')
<1>. DEFINE c == sess[p].conf
<1>0. row \in TaskContract /\ BackendOK(prep, fate, task) /\ IInv
  BY DEF SInv, IInv, CopyOK
<1>1. sess[p].pc \in {"prepared", "waiting"} =>
        /\ c \in Conf /\ sess[p].copy = row /\ row.attempts[c] = "prepared"
        /\ sess[p].pc = "prepared" => fate[c] = "prepared"
  BY <1>0, HoldsConf, Sees DEF SessionOK
<1>. HIDE DEF c
<1>2. ASSUME NEW word \in Words, Says(p, word), Tells(word, c, row', fate'),
             sess[p].pc \in {"prepared", "waiting"}, sess'[p].pc = "idle"
      PROVE  /\ sess[p].pc \in {"prepared", "waiting"} /\ sess'[p].pc = "idle"
             /\ \E w \in Words : said' = [said EXCEPT ![sess[p].conf] = w] /\ Tells(w, sess[p].conf, row', fate')
  BY <1>2 DEF Says, c
<1>3. CASE NoSubmit(p) \/ Decline(p)
  <2>1. sess[p].pc = "prepared" /\ Abandon(p) /\ Says(p, "unsubmitted")
    BY <1>3 DEF NoSubmit, Decline
  <2>2. row' = row /\ fate' = fate
    BY <2>1 DEF Abandon, End, backend
  <2>3. Tells("unsubmitted", c, row', fate')
    BY <1>1, <2>1, <2>2 DEF Tells
  <2>. QED
    BY <1>0, <1>2, <2>1, <2>3, PCAfter DEF Words
<1>4. CASE SubmitFails(p) \/ Fails(p)
  <2>1. /\ sess[p].pc \in {"prepared", "waiting"} /\ Says(p, "error")
        /\ SubmitRefused(p) \/ AnswerError(p)
    <3>1. SubmitRefused(p) => sess[p].pc = "prepared"
      BY DEF SubmitRefused
    <3>2. AnswerError(p) => sess[p].pc = "waiting"
      BY DEF AnswerError
    <3>. QED
      BY <1>4, <3>1, <3>2 DEF SubmitFails, Fails
  <2>2. row' = RecordFailed(row, c)
    BY <1>1, <2>1 DEF SubmitRefused, AnswerError, SaveAndEnd, c
  <2>3. row'.attempts = [row.attempts EXCEPT ![c] = "failed"]
    BY <1>0, <1>1, <2>1, <2>2, FailedSettles
  <2>4. Tells("error", c, row', fate')
    BY <1>0, <1>1, <2>1, <2>3 DEF Tells, TaskContract
  <2>. QED
    BY <1>0, <1>2, <2>1, <2>4, PCAfter DEF Words
<1>5. CASE EndsUncertain(p)
  <2>1. sess[p].pc = "waiting" /\ Says(p, "uncertain") /\ NoAnswer(p)
    BY <1>5 DEF EndsUncertain, NoAnswer
  <2>2. row' = RecordAmbiguous(row, c)
    BY <1>1, <2>1 DEF NoAnswer, SaveAndEnd, c
  <2>3. row'.attempts = [row.attempts EXCEPT ![c] = "ambiguous"]
    BY <1>0, <1>1, <2>1, <2>2, AmbiguousSettles
  <2>4. Tells("uncertain", c, row', fate')
    BY <1>0, <1>1, <2>1, <2>3 DEF Tells, TaskContract
  <2>. QED
    BY <1>0, <1>2, <2>1, <2>4, PCAfter DEF Words
<1>6. CASE Succeeds(p)
  <2>1. sess[p].pc = "waiting" /\ Says(p, "done") /\ AnswerOk(p)
    BY <1>6 DEF Succeeds, AnswerOk
  <2>2. \/ row' = RecordDelegated(row, c, prep[c].task, "submitted")
        \/ row' = RecordRefunded(row, c, "submitted")
    BY <1>1, <2>1 DEF AnswerOk, SaveAndEnd, c
  <2>3. row'.attempts = [row.attempts EXCEPT ![c] = "submitted"]
    BY <1>0, <1>1, <2>1, <2>2, DelegatedSettles, RefundedSettles
  <2>4. Tells("done", c, row', fate')
    BY <1>0, <1>1, <2>1, <2>3 DEF Tells, TaskContract
  <2>. QED
    BY <1>0, <1>2, <2>1, <2>4, PCAfter DEF Words
<1>7. CASE said' = said
  BY <1>7
<1>. QED
  BY <1>3, <1>4, <1>5, <1>6, <1>7, Command(p) DEF Command, DelegateCommand, RefundCommand,
     DelegatePrepareTool, Quote, Approve, Submit, Dies, Refresh, Reconcile, Resolve, Called,
     Silent, front

\* A confirmation that p holds after a step it held before, or it was just issued.
LEMMA HeldBefore ==
  ASSUME IInv, NEW p \in Procs, ProcStep(p), sess'[p].pc \in {"prepared", "waiting"}
  PROVE  \/ fate[sess'[p].conf] = "unused"
         \/ sess[p].pc \in {"prepared", "waiting"} /\ sess'[p].conf = sess[p].conf
<1>0. sess \in [Procs -> Session] /\ sess[p] \in Session
  BY DEF IInv
<1>1. CASE Prepare(p)
  <2>1. PICK c \in Conf :
          /\ fate[c] = "unused"
          /\ sess' = [sess EXCEPT ![p].pc = "prepared",
                                  ![p].copy = RecordPrepared(sess[p].copy, c), ![p].conf = c]
    BY <1>1 DEF Prepare, MayPrepare, NextConf
  <2>2. sess'[p].conf = c
    BY <1>0, <2>1 DEF Session
  <2>. QED
    BY <2>1, <2>2
<1>2. CASE Dispatch(p)
  BY <1>0, <1>2 DEF Dispatch, Session
<1>3. CASE GetTask(p)
  BY <1>3, PCAfter DEF GetTask
<1>. QED
  BY <1>1, <1>2, <1>3, ProcStep(p), PCAfter DEF ProcStep

\* Every step keeps what was said true.
LEMMA SaidNext ==
  ASSUME OneAtATime
  PROVE  SaidInv /\ [FrontNext]_frontVars => SaidInv'
<1>. SUFFICES ASSUME SaidInv, [FrontNext]_frontVars PROVE SaidInv'
  OBVIOUS
<1>0. /\ SInv /\ IInv /\ SaidOnRecord(row, fate, said) /\ HeldUnheard
      /\ said \in [Conf -> Words] /\ BackendOK(prep, fate, task)
  BY DEF SaidInv, SInv, IInv
<1>1. ASSUME NEW p \in Procs, Command(p)
      PROVE  SaidInv'
  <2>1. ProcStep(p) \/ UNCHANGED vars
    BY <1>1, CommandStep
  <2>2. [Next]_vars
    BY <2>1 DEF Next
  <2>3. SInv'
    BY <1>0, <2>2, SerialNext
  <2>4. SaidOnRecord(row', fate', said)
    BY <1>0, <2>1, SaidStays DEF vars
  <2>5. sess[p].pc \in {"prepared", "waiting"} => sess[p].conf \in Conf /\ fate[sess[p].conf] # "unused"
    BY <1>0, HoldsConf DEF SessionOK, Dispatched
  <2>6. SaidOnRecord(row', fate', said') /\ said' \in [Conf -> Words]
    BY <1>0, <1>1, <2>4, <2>5, CommandTells DEF SaidOnRecord
  <2>7. \A c \in Conf : fate'[c] = "unused" => said'[c] = "unheard"
    <3>. SUFFICES ASSUME NEW c \in Conf, fate'[c] = "unused" PROVE said'[c] = "unheard"
      OBVIOUS
    <3>1. fate[c] = "unused"
      BY <1>0, <2>2, StaysIssued
    <3>2. said[c] = "unheard"
      BY <1>0, <3>1 DEF HeldUnheard
    <3>. QED
      BY <1>0, <1>1, <2>5, <3>1, <3>2, CommandTells
  <2>8. ASSUME NEW q \in Procs, sess'[q].pc \in {"prepared", "waiting"}, NEW c \in Conf, sess'[q].conf = c
        PROVE  said'[c] = "unheard"
    <3>1. q = p
      BY DEF OneAtATime
    <3>2. said' = said
      BY <1>0, <1>1, <2>8, <3>1, CommandTells
    <3>3. fate[c] = "unused" \/ (sess[p].pc \in {"prepared", "waiting"} /\ sess[p].conf = c)
      BY <1>0, <2>1, <2>8, <3>1, HeldBefore DEF vars
    <3>. QED
      BY <1>0, <3>2, <3>3 DEF HeldUnheard
  <2>9. HeldUnheard'
    BY <2>7, <2>8 DEF HeldUnheard
  <2>. QED
    BY <2>3, <2>6, <2>9 DEF SaidInv
<1>2. ASSUME NEW d \in Conf, Backend(d)
      PROVE  SaidInv'
  <2>1. UNCHANGED <<row, sess, said>> /\ [Next]_vars
    BY <1>2 DEF Backend, BackendStep, Apply, Doom, HandIn, PayOut, store, Silent, front, Next
  <2>2. \A c \in Conf : fate[c] = "prepared" => fate'[c] = "prepared"
    BY <1>0, <1>2 DEF Backend, BackendStep, Apply, Doom, HandIn, PayOut, BackendOK
  <2>3. SInv'
    BY <1>0, <2>1, SerialNext
  <2>4. SaidOnRecord(row', fate', said')
    BY <1>0, <2>1, <2>2 DEF SaidOnRecord, Tells
  <2>5. HeldUnheard'
    BY <1>0, <2>1, StaysIssued DEF HeldUnheard
  <2>. QED
    BY <1>0, <2>1, <2>3, <2>4, <2>5 DEF SaidInv
<1>3. CASE UNCHANGED frontVars
  <2>1. UNCHANGED <<row, sess, prep, fate, task, worked, said>>
    BY <1>3 DEF frontVars
  <2>2. SInv'
    BY <1>0, <2>1, SerialNext DEF vars
  <2>. QED
    BY <1>0, <2>1, <2>2 DEF SaidInv, HeldUnheard
<1>. QED
  BY <1>1, <1>2, <1>3 DEF FrontNext

\* Whatever a command said of its confirmation stays true: one at a time, dying
\* where they please, and whatever a tool error meant.
THEOREM SaidStaysSo ==
  ASSUME OneAtATime
  PROVE  FrontSpec => []SaidIsSo
<1>1. FrontInit => SaidInv
  BY SerialInit DEF FrontInit, Init, SaidInv, SaidOnRecord, Tells, HeldUnheard, Words
<1>2. SaidInv => SaidIsSo
  <2>. SUFFICES ASSUME SaidInv, NEW c \in Conf
                PROVE  CASE said[c] = "unheard" -> TRUE
                         [] said[c] = "unsubmitted" -> fate[c] = "prepared" /\ row.attempts[c] = "prepared"
                         [] said[c] = "error" -> row.attempts[c] = "failed"
                         [] said[c] = "uncertain" ->
                              \/ Locked(row) /\ UncertainAttempt(row) = c
                              \/ row.attempts[c] \in {"reconciled_confirmed", "reconciled_not_found"}
                         [] said[c] = "done" ->
                              /\ fate[c] = "applied"
                              /\ c \in {row.delegation, row.refund}
    BY DEF SaidIsSo
  <2>1. Coherent(row, prep) /\ TruthfulCopy(row, prep, fate, task)
    BY DEF SaidInv, SInv, IInv, CopyOK
  <2>2. row.attempts[c] = "ambiguous" => Locked(row) /\ UncertainAttempt(row) = c
    <3>1. row.attempts[c] = "ambiguous" => c \in Ambiguous(row) /\ Locked(row)
      BY <2>1 DEF Coherent, Ambiguous
    <3>. QED
      BY <2>1, <3>1, UncertainIs
  <2>3. row.attempts[c] = "submitted" => fate[c] = "applied" /\ c \in {row.delegation, row.refund}
    BY <2>1 DEF Coherent, TruthfulCopy, Confirmed
  <2>4. Tells(said[c], c, row, fate) /\ said[c] \in Words
    BY DEF SaidInv, SaidOnRecord
  <2>. QED
    BY <2>2, <2>3, <2>4 DEF Tells, Words
<1>. QED
  BY <1>1, <1>2, SaidNext, PTL DEF FrontSpec

\* What the serial theorems say of the money path, they say of hf commands and
\* tool calls.
THEOREM FrontEndsAudit ==
  ASSUME OneAtATime
  PROVE  FrontSpec => []AuditComplete /\ LedgerKept /\ LockHeld
BY Refines, Audit, LedgerOnlyGrows, LockOnlySettled

(***************************************************************************)
(* What an MCP server offers.                                              *)
(***************************************************************************)

\* In a state of the inductive invariant, each branch of the server's table of
\* actions is for contracts that the guard of the action lets through.
LEMMA TableAgreesWithGuards ==
  ASSUME IInv, AtPinned(row)
  PROVE  ViewWorks
<1>1. row \in TaskContract /\ Coherent(row, prep) /\ TruthfulCopy(row, prep, fate, task)
  BY DEF IInv, CopyOK
<1>2. ASSUME row.delegation # NoId
      PROVE  KnownAtPinned(row) /\ MayRefresh(row)
  <2>1. row.delegation \in {UncertainAttempt(row), row.delegation} \ {NoId}
    BY <1>2
  <2>2. prep[row.delegation].adapter = Pinned
    BY <2>1 DEF AtPinned
  <2>. QED
    BY <1>1, <1>2, <2>2 DEF KnownAtPinned, MayRefresh, TruthfulCopy
<1>3. CASE Locked(row)
  <2> DEFINE c == UncertainAttempt(row)
  <2>1. c \in Conf /\ Ambiguous(row) = {c}
    BY <1>1, <1>3, UncertainIs
  <2>2. c # NoId
    BY <2>1, MaxPreparesAssumption DEF Conf, NoId
  <2>3. prep[c].adapter = Pinned
    BY <2>2 DEF AtPinned
  <2>4. prep[c].op \in MoneyOperation
    BY <1>1, <2>1 DEF Coherent, MoneyOperation
  <2>5. MayReconcile(row, Pinned)
    BY <1>3, <2>2, <2>3 DEF MayReconcile
  <2>6. \E op \in MoneyOperation : MayResolve(row, op)
    BY <1>3, <2>2, <2>4 DEF MayResolve
  <2>7. /\ allowed_actions(row) = {"contract_reconcile"}
        /\ human_action_required(row) = {"hf contract reconcile", "hf contract resolve"}
    BY <1>3 DEF allowed_actions, human_action_required, Locked
  <2>8. Accepted("contract_reconcile")
    BY <2>5 DEF Accepted, Reads
  <2>9. Works("hf contract reconcile") /\ Works("hf contract resolve")
    BY <2>5, <2>6 DEF Works
  <2>. QED
    BY <2>7, <2>8, <2>9 DEF ViewWorks
<1>4. CASE ~Locked(row) /\ row.status = "ready"
  <2>1. MayDelegate(row)
    BY <1>4 DEF MayDelegate, DELEGATABLE
  <2>2. allowed_actions(row) = {"delegate_prepare"} /\ human_action_required(row) = {"hf delegate"}
    BY <1>4 DEF allowed_actions, human_action_required
  <2>3. Accepted("delegate_prepare") /\ Works("hf delegate")
    BY <2>1 DEF Accepted, Reads, Works
  <2>. QED
    BY <2>2, <2>3 DEF ViewWorks
<1>5. CASE ~Locked(row) /\ row.status # "ready"
  <2>1. human_action_required(row) = {}
    BY <1>5 DEF human_action_required, Locked
  <2>2. CASE row.status \in {"delegated", "submitted", "approved", "rejected"}
    <3>1. row.delegation # NoId
      BY <1>1, <2>2 DEF Coherent
    <3>2. allowed_actions(row) \subseteq
            {"contract_refresh", "submission_list", "submission_get", "review_all", "review_rank"}
      BY <1>5, <2>2 DEF allowed_actions, Reads
    <3>3. \A action \in allowed_actions(row) : Accepted(action)
      BY <1>2, <3>1, <3>2 DEF Accepted, Reads
    <3>. QED
      BY <2>1, <3>3 DEF ViewWorks
  <2>3. CASE row.status \notin {"delegated", "submitted", "approved", "rejected"}
    <3>1. allowed_actions(row) = {}
      BY <1>5, <2>3 DEF allowed_actions
    <3>. QED
      BY <2>1, <3>1 DEF ViewWorks
  <2>. QED
    BY <2>2, <2>3
<1>. QED
  BY <1>3, <1>4, <1>5

\* The table of actions in mcp_server.py and the guards of service.py agree, for
\* any number of overlapping invocations: whenever the contract is at the
\* server's own backend, each tool that the server offers is accepted, on a
\* bounty that the backend knows, and each command that it names works.
THEOREM OffersAccepted == FrontSpec => []OfferedIsAccepted
<1>1. IInv => OfferedIsAccepted
  BY TableAgreesWithGuards DEF OfferedIsAccepted
<1>. QED
  BY <1>1, Refines, Invariance, PTL
=============================================================================
