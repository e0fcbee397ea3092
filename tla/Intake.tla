------------------------------- MODULE Intake -------------------------------
(***************************************************************************)
(* classifier/rules.py, contracts/builder.py and Service.create_contract:  *)
(* a request is classified by the phrases in it and, unless an agent can   *)
(* do it, becomes a Task Contract.                                         *)
(*                                                                         *)
(* Of a request only the signals count: for each rule, how many texts it   *)
(* matches that differ in more than upper and lower case.                  *)
(***************************************************************************)
EXTENDS Templates, Integers, FiniteSets, FiniteSetsExt, SequencesExt

CONSTANTS
  Specs,      \* the explicit ContractSpecs a caller may pass
  MaxHuman,   \* bound: signals for a human in a request
  MaxAgent    \* bound: agent-capable verbs in a request

\* As far as Spacing goes: no score reaches 32.
ASSUME IntakeAssumption == MaxHuman \in 0..35 /\ MaxAgent \in 0..159

ASSUME SpecsAssumption == Specs \subseteq ContractSpec

VARIABLES
  signals,    \* the request being written: the signals of each rule
  contract    \* what was built of it

intake == <<signals, contract>>

\* Weights are in tenths.
Rule(category, weight) == [category |-> category, weight |-> weight]

DEFAULT_RULES ==
  << Rule("physical_action", 7), Rule("physical_action", 7), Rule("physical_action", 7),
     Rule("identity_verification", 8),
     Rule("subjective_judgment", 6),
     Rule("account_access", 8), Rule("account_access", 6),
     Rule("legal_signature", 9),
     Rule("offline_data_collection", 6),
     Rule("human_interaction", 6),
     Rule("agent_capable", 2) >>

Rules == DOMAIN DEFAULT_RULES
Of(category) == {r \in Rules : DEFAULT_RULES[r].category = category}
ForAgent == Of("agent_capable")

NoSignals == [r \in Rules |-> 0]
NoContract == [status |-> "none", reqs |-> <<>>, criteria |-> <<>>]
NoSpec == [reqs |-> <<>>, criteria |-> <<>>]

(***************************************************************************)
(* RuleBasedClassifier.classify.  Scores are sums of doubles.  A double    *)
(* that is near some tenths is these and "off", in units of 2^-55/5: a     *)
(* tenth is 2^54 units, so the tenths of a sum are exact, and the doubles  *)
(* are the numbers that are multiples of 5 times their spacing.            *)
(***************************************************************************)

\* The spacing of the doubles around t tenths and e, in units of 2^-55.
Spacing(t, e) ==
  Max({u \in {1, 2, 4, 8, 16, 32, 64, 128} : 4*t > 5*u \/ (4*t = 5*u /\ e >= 0)})

\* The double nearest to t tenths and e, of two the even one.  (Modulo 5, 2^54 is
\* -1 and the inverse of u is u^3.)
Nearest(t, e) ==
  LET u == Spacing(t, e)
      below == (e - u * ((t*u*u*u) % 5)) % (5*u)
      low == e - below
      up == 2*below > 5*u \/ (2*below = 5*u /\ (low \div u) % 2 = 1)
  IN [tenths |-> t, off |-> IF up THEN low + 5*u ELSE low]

\* The sum of two doubles, and y added n times to x.
Add(x, y) == Nearest(x.tenths + y.tenths, x.off + y.off)
AddTimes(x, y, n) == FoldLeft(Add, x, [k \in 1..n |-> y])

\* The weights of these rules' signals, added one by one.
Score(sigs, rules) ==
  LET times == [r \in Rules |-> IF r \in rules THEN sigs[r] ELSE 0]
  IN FoldLeft(LAMBDA x, r : AddTimes(x, Nearest(DEFAULT_RULES[r].weight, 0), times[r]),
              [tenths |-> 0, off |-> 0], [r \in Rules |-> r])

Greater(s, t) == s.tenths > t.tenths \/ (s.tenths = t.tenths /\ s.off > t.off)

Categories(sigs) == {DEFAULT_RULES[r].category : r \in {s \in Rules \ ForAgent : sigs[s] > 0}}

\* The human category with the greatest score, of several the one whose rule
\* comes first.
First(categories) ==
  CHOOSE c \in categories : \A d \in categories : Min(Of(c)) <= Min(Of(d))

\* Mutated form: the one whose rule comes first, whatever its score.
TopUnscored(sigs) == First(Categories(sigs))
Top(sigs) ==
  LET scores == {[category |-> c, score |-> Score(sigs, Of(c))] : c \in Categories(sigs)}
      best == {s \in scores : \A t \in scores : ~Greater(t.score, s.score)}
  IN First({s.category : s \in best})

\* DEFAULT_THRESHOLD
Threshold == [tenths |-> 5, off |-> 0]

\* Mutated form: a tie with the verbs of an agent goes to the human.
RequiredOnTie(sigs) ==
  /\ Categories(sigs) # {}
  /\ LET top == Score(sigs, Of(Top(sigs)))
     IN ~Greater(Threshold, top) /\ ~Greater(Score(sigs, ForAgent), top)
HumanRequired(sigs) ==
  /\ Categories(sigs) # {}
  /\ LET top == Score(sigs, Of(Top(sigs)))
     IN ~Greater(Threshold, top) /\ Greater(top, Score(sigs, ForAgent))

Category(sigs) == IF HumanRequired(sigs) THEN Top(sigs) ELSE "agent_capable"

(***************************************************************************)
(* The person writing, and Service.create_contract.                        *)
(***************************************************************************)
IntakeInit ==
  /\ signals = NoSignals
  /\ contract = NoContract

\* The request gets one more phrase that a rule matches.
Mention(r) ==
  /\ contract = NoContract
  /\ IF r \in ForAgent THEN signals[r] < MaxAgent
     ELSE MapThenSumSet(LAMBDA s : signals[s], Rules \ ForAgent) < MaxHuman
  /\ signals' = [signals EXCEPT ![r] = @ + 1]
  /\ UNCHANGED contract

\* Refused with AGENT_CAPABLE or VALIDATION, or saved.  What was matched is
\* of no use later.
Create(force, spec) ==
  /\ contract = NoContract
  /\ spec = NoSpec \/ SpecAccepted(spec)
  /\ LET required == HumanRequired(signals)
         asked == IF spec = NoSpec THEN Template[Category(signals)] ELSE spec
     IN /\ required \/ force
        /\ contract' = [ status |-> IF required THEN "ready" ELSE "draft",
                         reqs |-> asked.reqs, criteria |-> asked.criteria ]
  /\ signals' = NoSignals

IntakeNext ==
  \/ \E r \in Rules : Mention(r)
  \/ \E force \in BOOLEAN, spec \in Specs \cup {NoSpec} : Create(force, spec)

(***************************************************************************)
(* Properties.                                                             *)
(***************************************************************************)

\* One more phrase that only a human can see to never makes the request one for
\* an agent, though it may change the category; one more verb that an agent can
\* follow never makes it one for a human.
PhraseMovesOneWay ==
  [][\A r \in Rules : signals'[r] > signals[r] =>
       IF r \in ForAgent THEN HumanRequired(signals') => HumanRequired(signals)
       ELSE HumanRequired(signals) => HumanRequired(signals')]_intake

\* What the weights add up to, exactly.
Tenths(sigs, rules) == MapThenSumSet(LAMBDA r : sigs[r] * DEFAULT_RULES[r].weight, rules)

\* Adding doubles errs, and an exact tie with the verbs of an agent may go to the
\* human (BeatsCounterScore).  Not before there are eight verbs: until then a
\* request is decided as exact sums decide it, in whatever shares it reaches them.
ExactBelowEightVerbs ==
  Categories(signals) # {} /\ (\A r \in ForAgent : signals[r] < 8) =>
    LET best == Max({Tenths(signals, Of(c)) : c \in Categories(signals)})
    IN HumanRequired(signals) <=> best >= Threshold.tenths /\ best > Tenths(signals, ForAgent)

\* rules.py: "human-required when the strongest human category clears the
\* threshold and beats the agent-capable counter-score".
BeatsCounterScore ==
  HumanRequired(signals) => Tenths(signals, Of(Top(signals))) > Tenths(signals, ForAgent)
=============================================================================
