------------------------------- MODULE Escrow -------------------------------
(***************************************************************************)
(* What the money path promises the person whose wallet it is.  A contract *)
(* funds one bounty, once.  While a submit has no known outcome nothing    *)
(* else is asked for, and it is forgotten only when it did not move the    *)
(* money.  The record follows the money: it says funded only of a funded   *)
(* bounty and closed only of one that is over.                             *)
(***************************************************************************)
VARIABLES
  money,      \* where the reward is: "open" in escrow, "refunded", "paid"
  pending,    \* the operation submitted with its outcome not known yet
  record      \* what the contract says

vars == <<money, pending, record>>

TypeOK ==
  /\ money \in {"wallet", "open", "refunded", "paid"}
  /\ pending \in {"none", "task_create", "task_refund"}
  /\ record \in {"unfunded", "funded", "closed"}

Init == money = "wallet" /\ pending = "none" /\ record = "unfunded"

Submit(op) ==
  /\ pending = "none"
  /\ record = IF op = "task_create" THEN "unfunded" ELSE "funded"
  /\ op = "task_create" => money = "wallet"
  /\ pending' = op
  /\ UNCHANGED <<money, record>>

TakeEffect ==
  /\ \/ pending = "task_create" /\ money = "wallet" /\ money' = "open"
     \/ pending = "task_refund" /\ money = "open" /\ money' = "refunded"
  /\ UNCHANGED <<pending, record>>

\* Workers are paid at the backend, whatever the contract says meanwhile.
PayOut == money = "open" /\ money' = "paid" /\ UNCHANGED <<pending, record>>

Learn ==
  /\ \/ pending = "task_create" /\ money # "wallet" /\ record' = "funded"
     \/ pending = "task_refund" /\ money \in {"refunded", "paid"} /\ record' = "closed"
  /\ pending' = "none"
  /\ UNCHANGED money

Forget ==
  /\ \/ pending = "task_create" /\ money = "wallet"
     \/ pending = "task_refund" /\ money # "refunded"
  /\ pending' = "none"
  /\ UNCHANGED <<money, record>>

Next ==
  \/ \E op \in {"task_create", "task_refund"} : Submit(op)
  \/ TakeEffect \/ PayOut \/ Learn \/ Forget

Spec == Init /\ [][Next]_vars
=============================================================================
