------------------------------ MODULE FrontEnds ------------------------------
(***************************************************************************)
(* cli.py and mcp_server.py around the money path.  An invocation is an hf *)
(* command, typed by a person or by a script, or a tool call of an MCP     *)
(* server, made by an agent.  Both call the same service; what they add is *)
(* who may submit, after which approval, and what they say when they end.  *)
(*                                                                         *)
(* Every action is one of MoneyPath's together with what the front end     *)
(* keeps of it; only the answer to a prompt is an action of its own.       *)
(***************************************************************************)
EXTENDS MoneyPath

CONSTANTS
  Terminals,    \* the invocations that run hf
  Servers,      \* the invocations that are tool calls of an MCP server
  Pinned        \* the adapter an MCP server is started with

ASSUME FrontEndsAssumption ==
  /\ Terminals \subseteq Procs
  /\ Servers \subseteq Procs
  /\ Pinned \in Adapters

VARIABLES
  mode,       \* how each invocation was called, and whether its prompt was answered
  approved,   \* the confirmations whose quote a person was shown and approved
  said        \* what was said of each confirmation when its invocation ended

front == <<mode, approved, said>>
frontVars == <<row, sess, prep, fate, task, worked, mode, approved, said>>

\* hf delegate and hf refund without --confirm, with it, with --confirm --yes
\* (--yes alone is a usage error and goes no further), and an MCP tool.
\* "agreed": past the prompt, with the answer y or --yes.
Flags == {"dry", "confirm", "yes"}
Modes == Flags \cup {"tool", "agreed", "none"}

\* "unheard": the invocation has not ended, or died.  The others are "nothing
\* submitted", an error, exit code 22 and success.
Words == {"unheard", "unsubmitted", "error", "uncertain", "done"}

FrontTypeOK ==
  /\ mode \in [Procs -> Modes]
  /\ \A p \in Procs : mode[p] # "none" <=> sess[p].pc \in {"opened", "prepared", "waiting"}
  /\ approved \subseteq {c \in Conf : fate[c] # "unused"}
  /\ said \in [Conf -> Words]

FrontInit ==
  /\ Init
  /\ mode = [p \in Procs |-> "none"]
  /\ approved = {}
  /\ said = [c \in Conf |-> "unheard"]

\* hf takes --adapter or the configured one, an MCP server has one for good.
MayUse(p, a) == p \in Terminals \/ (p \in Servers /\ a = Pinned)

Called(p, m) ==
  /\ mode' = [mode EXCEPT ![p] = m]
  /\ UNCHANGED <<approved, said>>

\* The invocation ends with this word on its confirmation.
Says(p, word) ==
  /\ mode' = [mode EXCEPT ![p] = "none"]
  /\ said' = [said EXCEPT ![sess[p].conf] = word]
  /\ UNCHANGED approved

Silent == UNCHANGED front

(***************************************************************************)
(* The commands and tools that open a money session.                       *)
(***************************************************************************)
DelegateCommand(p, a, flags) ==
  /\ p \in Terminals
  /\ OpenDelegation(p, a)
  /\ Called(p, flags)

RefundCommand(p, a, flags) ==
  /\ p \in Terminals
  /\ OpenRefund(p, a)
  /\ Called(p, flags)

DelegatePrepareTool(p) ==
  /\ p \in Servers
  /\ OpenDelegation(p, Pinned)
  /\ Called(p, "tool")

Quote(p) ==
  /\ Prepare(p)
  /\ Silent

\* The session is closed after the quote: a dry run, or all the tool does.
NoSubmit(p) ==
  /\ sess[p].pc = "prepared"
  /\ mode[p] \in {"dry", "tool"}
  /\ Abandon(p)
  /\ Says(p, "unsubmitted")

\* _approved: a person answers y at a terminal, or passed --yes beforehand.  What
\* they approve is the quote shown; what the command keeps is that it may go on.
Approve(p) ==
  /\ sess[p].pc = "prepared"
  /\ mode[p] \in {"confirm", "yes"}
  /\ mode' = [mode EXCEPT ![p] = "agreed"]
  /\ approved' = approved \cup {sess[p].conf}
  /\ UNCHANGED <<vars, said>>

\* The answer is not y, or there is no terminal to ask at.
Decline(p) ==
  /\ sess[p].pc = "prepared"
  /\ mode[p] = "confirm"
  /\ Abandon(p)
  /\ Says(p, "unsubmitted")

(***************************************************************************)
(* _submit_or_fail, and the end of the command.                            *)
(***************************************************************************)

\* Whatever confirmation the session holds by now.
Submit(p) ==
  /\ mode[p] = "agreed"
  /\ Dispatch(p)
  /\ Silent

SubmitFails(p) ==
  /\ mode[p] = "agreed"
  /\ SubmitRefused(p)
  /\ Says(p, "error")

Succeeds(p) ==
  /\ AnswerOk(p)
  /\ Says(p, "done")

Fails(p) ==
  /\ AnswerError(p)
  /\ Says(p, "error")

EndsUncertain(p) ==
  /\ NoAnswer(p)
  /\ Says(p, "uncertain")

\* Killed, or ended by an error before there was a quote.
\* Mutated form: the next invocation is taken for this one.
DiesUnnoticed(p) ==
  /\ Abandon(p) \/ CrashWaiting(p)
  /\ Silent
Dies(p) ==
  /\ Abandon(p) \/ CrashWaiting(p)
  /\ Called(p, "none")

(***************************************************************************)
(* The commands and tools that move nothing.                               *)
(***************************************************************************)
Refresh(p) ==
  /\ \/ \E a \in Adapters : MayUse(p, a) /\ RefreshRead(p, a)
     \/ sess[p].pc = "refreshing" /\ GetTask(p)
     \/ RefreshSave(p)
  /\ Silent

Reconcile(p) ==
  /\ \/ \E a \in Adapters : MayUse(p, a) /\ ReconcileRead(p, a)
     \/ sess[p].pc = "reconciling" /\ GetTask(p)
     \/ ReconcileSave(p)
  /\ Silent

\* hf contract resolve.  An MCP server has no such tool.
Resolve(p) ==
  /\ p \in Terminals
  /\ (\E op \in MoneyOperation : ResolveRead(p, op)) \/ ResolveSave(p)
  /\ Silent

Command(p) ==
  \/ \E a \in Adapters, flags \in Flags :
       DelegateCommand(p, a, flags) \/ RefundCommand(p, a, flags)
  \/ DelegatePrepareTool(p)
  \/ Quote(p)
  \/ NoSubmit(p)
  \/ Approve(p)
  \/ Decline(p)
  \/ Submit(p)
  \/ SubmitFails(p)
  \/ Succeeds(p)
  \/ Fails(p)
  \/ EndsUncertain(p)
  \/ Dies(p)
  \/ Refresh(p)
  \/ Reconcile(p)
  \/ Resolve(p)

Backend(c) ==
  /\ BackendStep(c)
  /\ Silent

FrontNext ==
  \/ \E p \in Procs : Command(p)
  \/ \E c \in Conf : Backend(c)

FrontSpec == FrontInit /\ [][FrontNext]_frontVars

(***************************************************************************)
(* contract_view: what an MCP server shows of a contract k, the tools it   *)
(* offers and what it tells a person to run.                               *)
(***************************************************************************)
Reads == {"submission_list", "submission_get", "review_all", "review_rank"}

\* Mutated form: whether it is funded is looked at before the lock.
ActionsUnfundedFirst(k) ==
  IF k.status # "draft" /\ k.delegation = NoId THEN {"delegate_prepare"}
  ELSE IF Locked(k) THEN {"contract_reconcile"} ELSE {}
allowed_actions(k) ==
  CASE Locked(k) -> {"contract_reconcile"}
    [] k.status = "ready" -> {"delegate_prepare"}
    [] k.status \in {"delegated", "submitted"} -> {"contract_refresh"} \cup Reads
    [] k.status \in {"approved", "rejected"} -> {"contract_refresh", "submission_list", "review_all"}
    [] OTHER -> {}

human_action_required(k) ==
  CASE Locked(k) -> {"hf contract reconcile", "hf contract resolve"}
    [] k.status = "ready" -> {"hf delegate"}
    [] OTHER -> {}

(***************************************************************************)
(* Properties.                                                             *)
(***************************************************************************)

\* _approved: "True only when a person (or an explicit --confirm --yes)
\* approved the spend."  A command goes by its own y and submits whatever its
\* session holds: that this is the very quote the person was shown depends on
\* no quote being asked for again, and on no y outliving its command.  What a
\* dry run, a tool or a declined prompt prepared never leaves.
ApprovedOnly ==
  \A c \in Conf : fate[c] \in {"inflight", "applied"} => c \in approved

\* What a command said of its confirmation stays true, whatever is run next and
\* whatever the backend does: nothing was submitted; it failed and is on record
\* so; it took effect and is on record; or it is uncertain, and the contract is
\* locked until it no longer is.
SaidIsSo ==
  \A c \in Conf :
    CASE said[c] = "unheard" -> TRUE
      [] said[c] = "unsubmitted" -> fate[c] = "prepared" /\ row.attempts[c] = "prepared"
      [] said[c] = "error" -> row.attempts[c] = "failed"
      [] said[c] = "uncertain" ->
           \/ Locked(row) /\ UncertainAttempt(row) = c
           \/ row.attempts[c] \in {"reconciled_confirmed", "reconciled_not_found"}
      [] said[c] = "done" ->
           /\ fate[c] = "applied"
           /\ c \in {row.delegation, row.refund}

\* The server's backend is the one that the contract's bounty and its
\* uncertain attempt are at.
AtPinned(k) ==
  \A c \in {UncertainAttempt(k), k.delegation} \ {NoId} : prep[c].adapter = Pinned

\* The server's backend knows the contract's bounty.
KnownAtPinned(k) ==
  k.delegation # NoId /\ task[k.delegation] # "none" /\ prep[k.delegation].adapter = Pinned

\* Does the service accept this tool call, made by an invocation that has not
\* begun anything, and does the backend know the bounty that it is about?
Accepted(action) ==
  CASE action = "delegate_prepare" -> MayDelegate(row)
    [] action = "contract_reconcile" -> MayReconcile(row, Pinned)
    [] action = "contract_refresh" -> MayRefresh(row) /\ KnownAtPinned(row)
    [] action \in Reads -> KnownAtPinned(row)

\* And this command?  resolve is for a person who knows that nothing happened.
Works(command) ==
  CASE command = "hf delegate" -> MayDelegate(row)
    [] command = "hf contract reconcile" -> MayReconcile(row, Pinned)
    [] command = "hf contract resolve" -> \E op \in MoneyOperation : MayResolve(row, op)

ViewWorks ==
  /\ \A action \in allowed_actions(row) : Accepted(action)
  /\ \A command \in human_action_required(row) : Works(command)

\* mcp_server.py's table of actions and service.py's guards were written apart:
\* for a contract at the server's own backend, each tool offered is accepted and
\* each command it names works.
OfferedIsAccepted == AtPinned(row) => ViewWorks

\* contract_get: "the actions currently allowed".
OfferedIsAllowed == ViewWorks
=============================================================================
