----------------------------- MODULE Submission -----------------------------
(***************************************************************************)
(* What adapters/base.py promises of the submits of an adapter: each       *)
(* confirmation is dispatched at most once, and the caller is told of it   *)
(* "submitted" only when it took effect, "failed" only when it never will, *)
(* and otherwise "ambiguous", if anything.  MoneyPath's actions Dispatch,  *)
(* SubmitRefused, AnswerOk, AnswerError (with IndefiniteErrors FALSE),     *)
(* NoAnswer, CrashWaiting, Apply and Doom take exactly this for granted.   *)
(***************************************************************************)
CONSTANT Confirmations

VARIABLES
  fate,     \* what has become of each confirmation
  told      \* what the caller of submit learned

vars == <<fate, told>>

Init ==
  /\ fate = [c \in Confirmations |-> "unsent"]
  /\ told = [c \in Confirmations |-> "nothing"]

Dispatch(c) ==
  /\ fate[c] = "unsent"
  /\ fate' = [fate EXCEPT ![c] = "inflight"]
  /\ UNCHANGED told

Act(c) ==
  /\ fate[c] = "inflight"
  /\ \E f \in {"applied", "doomed"} : fate' = [fate EXCEPT ![c] = f]
  /\ UNCHANGED told

Tell(c) ==
  /\ fate[c] # "unsent"
  /\ told[c] = "nothing"
  /\ \E word \in {"submitted", "failed", "ambiguous"} :
       /\ word = "submitted" => fate[c] = "applied"
       /\ word = "failed" => fate[c] = "doomed"
       /\ told' = [told EXCEPT ![c] = word]
  /\ UNCHANGED fate

\* A backend in the caller's own process does all of it in one step.
AtOnce(c) ==
  /\ fate[c] = "unsent"
  /\ \E end \in {<<"applied", "submitted">>, <<"doomed", "failed">>} :
       /\ fate' = [fate EXCEPT ![c] = end[1]]
       /\ told' = [told EXCEPT ![c] = end[2]]

\* That something changes is implied, and quicker to refute than the rest.
Next == vars' # vars /\ \E c \in Confirmations : Dispatch(c) \/ Act(c) \/ Tell(c) \/ AtOnce(c)

Spec == Init /\ [][Next]_vars
=============================================================================
