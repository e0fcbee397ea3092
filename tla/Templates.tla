----------------------------- MODULE Templates -----------------------------
(***************************************************************************)
(* contracts/builder.py: what a contract asks of a worker, from the        *)
(* template of its category or from an explicit ContractSpec.              *)
(***************************************************************************)
EXTENDS Naturals, Sequences

\* No template names an expected text.
NoText == "no text"

\* The constraints the review acts on, and any that it does not.
ConstraintNames == {"min_words", "max_words", "url_pattern", "domain", "extension", "other"}

\* EvidenceRequirement and AcceptanceCriterion.  What has an id is numbered in
\* the order it is listed in.
Requirement ==
  [ kind : {"url", "screenshot", "photo", "file", "text", "transaction"},
    required : BOOLEAN,
    constraints : SUBSET [name : ConstraintNames, bound : Nat] ]
Criterion ==
  [ check : {"manual", "evidence_present", "exact_match", "pattern"},
    required : BOOLEAN, links : SUBSET Nat, expected : STRING \cup {NoText} ]
ContractSpec == [reqs : Seq(Requirement), criteria : Seq(Criterion)]

Req(kind) == [kind |-> kind, required |-> TRUE, constraints |-> {}]
MinWords(req, bound) == [req EXCEPT !.constraints = {[name |-> "min_words", bound |-> bound]}]

Manual(links) == [check |-> "manual", required |-> TRUE, links |-> links, expected |-> NoText]
Present(links) == [Manual(links) EXCEPT !.check = "evidence_present"]

\* _from_template: before the template's criteria comes one that is linked to
\* all its evidence.
FromTemplate(reqs, criteria) ==
  [reqs |-> reqs, criteria |-> <<Manual(DOMAIN reqs)>> \o criteria]

\* TEMPLATES
Template ==
  [ physical_action |-> FromTemplate(<<Req("photo")>>, <<Manual({1}), Present({1})>>),
    identity_verification |-> FromTemplate(<<Req("screenshot")>>, <<Manual({1})>>),
    subjective_judgment |-> FromTemplate(<<MinWords(Req("text"), 50)>>, <<Manual({1}), Present({1})>>),
    account_access |-> FromTemplate(<<Req("url"), Req("screenshot")>>, <<Manual({1, 2}), Present({1})>>),
    legal_signature |-> FromTemplate(<<Req("file")>>, <<Manual({1}), Present({1})>>),
    offline_data_collection |-> FromTemplate(<<Req("file"), Req("photo")>>, <<Manual({1}), Manual({2})>>),
    human_interaction |-> FromTemplate(<<MinWords(Req("text"), 30)>>, <<Manual({1})>>),
    agent_capable |-> FromTemplate(<<Req("text")>>, <<Manual({1})>>) ]

\* What an explicit contract has to satisfy to be accepted.
SpecAccepted(spec) ==
  /\ spec.reqs # <<>>
  /\ spec.criteria # <<>>
  /\ \A i \in DOMAIN spec.criteria :
       /\ spec.criteria[i].links \subseteq DOMAIN spec.reqs
       /\ spec.criteria[i].check \in {"exact_match", "pattern"} => spec.criteria[i].expected # NoText
=============================================================================
