------------------------------- MODULE Review -------------------------------
(***************************************************************************)
(* review/extract.py and review/rules.py: the review of one submission     *)
(* against its Task Contract, a pure function of the two.                  *)
(*                                                                         *)
(* A file stands for all the references that normalize to one value; its   *)
(* form says how a reference to it is classified and "fits" whether it     *)
(* meets the url_pattern, domain or extension a requirement may ask for.   *)
(* A submission is the references in it, each at its place, and its prose. *)
(***************************************************************************)
EXTENDS Integers, Sequences, FiniteSets, SequencesExt

\* The forms are: an image or document file, any other page, a page of a block
\* explorer, a transaction signature, a media id, a file of another type.
Forms == {"picture", "document", "page", "explorer", "signature", "handle", "odd"}

Places == {"inline", "content", "media"}

(***************************************************************************)
(* extract.py                                                              *)
(***************************************************************************)

\* What an item counts as.  An <img> says itself that it is an image.
Kind(ref) ==
  LET form == ref.file.form
  IN CASE ref.place = "inline" \/ form = "picture" -> "image"
       [] form = "signature" -> IF ref.place = "content" THEN "transaction" ELSE "media"
       [] OTHER -> [document |-> "document", page |-> "url", explorer |-> "transaction",
                    handle |-> "media", odd |-> "unknown"][form]

\* Those elements of a sequence that are in S, in the order they have there.
\* SelectSeq does this too, but of that the prover knows nothing.
Those(seq, S) ==
  LET at == {i \in DOMAIN seq : seq[i] \in S}
      Earlier(i) == {j \in at : j < i}
  IN [k \in 1..Cardinality(at) |-> seq[CHOOSE i \in at : Cardinality(Earlier(i)) = k - 1]]

\* All references, in the order they are looked for.  A file that is shown
\* inline and listed under media is one artifact.
Raw(submission) ==
  LET refs == submission.refs
      At(place) == {r \in Range(refs) : r.place = place}
      signatures == {r \in At("content") : r.file.form = "signature"}
      shown == {r \in At("media") : \E i \in At("inline") : i.file = r.file}
  IN Those(refs, At("inline"))
     \o Those(refs, At("content") \ signatures)
     \o Those(refs, signatures)
     \o Those(refs, At("media") \ shown)

\* Each file once, where it comes first.
\* Mutated form: as often as it is referred to.
OnceRepeated(refs) == refs
Once(refs) ==
  LET Add(items, ref) ==
        IF \E k \in DOMAIN items : items[k].file = ref.file THEN items ELSE Append(items, ref)
  IN FoldLeft(Add, <<>>, refs)

Items(submission) == Once(Raw(submission))

HasDuplicates(submission) == Len(Raw(submission)) > Len(Items(submission))

\* Media of a type that is not recognized.
HasUnsupported(submission) ==
  \E k \in DOMAIN submission.refs :
    submission.refs[k].place = "media" /\ Kind(submission.refs[k]) = "unknown"

(***************************************************************************)
(* rules.py: evidence                                                      *)
(***************************************************************************)

FullKinds(kind) ==
  CASE kind = "url" -> {"url", "transaction", "image", "document"}
    [] kind \in {"photo", "screenshot"} -> {"image"}
    [] kind = "file" -> {"document"}
    [] kind = "transaction" -> {"transaction"}
    [] kind = "text" -> {}

UnverifiedKinds(kind) ==
  CASE kind \in {"photo", "screenshot"} -> {"media"}
    [] kind = "file" -> {"media", "image"}
    [] OTHER -> {}

NoItem == 0

\* Does item k of items, or the text if k is NoItem, meet the constraint?  Only
\* a url or transaction item has a host, and a signature is no URL; only a file
\* name has an extension.
Holds(constraint, items, k, text) ==
  /\ constraint.name = "min_words" => text.words >= constraint.bound
  /\ constraint.name = "max_words" => text.words <= constraint.bound
  /\ k # NoItem =>
       /\ constraint.name \in {"url_pattern", "domain", "extension"} => items[k].file.fits
       /\ constraint.name = "domain" =>
            Kind(items[k]) \in {"url", "transaction"} /\ items[k].file.form # "signature"
       /\ constraint.name = "extension" => items[k].file.form \in {"picture", "document", "odd"}

\* take: the first item of such a kind that answers nothing yet.
FirstFree(items, used, kinds) ==
  LET free == {k \in DOMAIN items : k \notin used /\ Kind(items[k]) \in kinds}
  IN IF free = {} THEN NoItem ELSE CHOOSE k \in free : \A j \in free : k <= j

\* What the requirement comes to with this item, full if it answers it in full.
OutcomeOf(req, items, item, full, text) ==
  LET present == IF req.kind = "text" THEN text.words > 0 ELSE item # NoItem
      failed == \E c \in req.constraints : ~Holds(c, items, item, text)
  IN CASE ~present -> "missing"
       [] present /\ failed -> "constraint_failed"
       [] present /\ ~failed /\ item # full -> "unverified"
       [] OTHER -> "found"

\* What answers one requirement while the used items are taken.
\* Mutated form: the first item of any kind that will do.
AnswerAnyKind(req, items, used, text) ==
  LET item == FirstFree(items, used, FullKinds(req.kind) \cup UnverifiedKinds(req.kind))
      full == IF item # NoItem /\ Kind(items[item]) \in FullKinds(req.kind) THEN item ELSE NoItem
  IN [outcome |-> OutcomeOf(req, items, item, full, text), item |-> item]
Answer(req, items, used, text) ==
  LET full == FirstFree(items, used, FullKinds(req.kind))
      item == IF full # NoItem THEN full ELSE FirstFree(items, used, UnverifiedKinds(req.kind))
  IN [outcome |-> OutcomeOf(req, items, item, full, text), item |-> item]

\* Required first, each in the contract's order.
Order(reqs) ==
  LET listed == [i \in DOMAIN reqs |-> i]
      required == {i \in DOMAIN reqs : reqs[i].required}
  IN Those(listed, required) \o Those(listed, DOMAIN reqs \ required)

\* evaluate_evidence: the answer to each requirement.
Answers(reqs, items, text) ==
  LET Settle(answers, i) ==
        LET used == {answers[j].item : j \in DOMAIN answers}
        IN [answers EXCEPT ![i] = Answer(reqs[i], items, used, text)]
      nothing == [i \in DOMAIN reqs |-> [outcome |-> "missing", item |-> NoItem]]
  IN FoldLeft(Settle, nothing, Order(reqs))

Evidence(contract, submission) == Answers(contract.reqs, Items(submission), submission.text)

(***************************************************************************)
(* models/review.py: what a review says.                                   *)
(***************************************************************************)
EvidenceOutcome == {"found", "unverified", "constraint_failed", "missing"}
CheckOutcome == {"pass", "fail", "needs_human", "blocked", "not_applicable"}
Recommendations == {"strong", "acceptable", "incomplete", "needs_human_review", "reject_candidate"}

Deliverables ==
  {"content_present", "content_substantive", "required_evidence_supplied", "constraints_satisfied"}

\* Flags by severity; the others are warnings, of which some are inferred.
Critical == {"EMPTY_SUBMISSION", "MISSING_ALL_EVIDENCE"}
Info == {"SUBJECTIVE_ONLY", "UNVERIFIED_OPTIONAL", "UNSUPPORTED_EVIDENCE_TYPE"}
InferredWarnings == {"UNVERIFIED_REQUIRED", "IRRELEVANT_CONTENT"}
FlagCodes ==
  Critical \cup Info \cup InferredWarnings \cup
    {"NEAR_EMPTY", "FILLER_ONLY", "MISSING_SOME_EVIDENCE", "CONSTRAINT_FAILED", "DUPLICATE_EVIDENCE"}

\* MissingRequirement, for what is numbered by ids.
MissingRequirement(ids) ==
  [what : {"evidence", "criterion"} \cup Deliverables, id : ids, required : BOOLEAN]

\* ScoreComponent: the points of each part, and how many it offers.
ScoreComponents == [{"evidence", "factual", "deliverables", "unverifiable"} -> 0..100]

\* SubmissionReview, of so many items against this contract.
SubmissionReview(contract, items) ==
  [ evidence : [DOMAIN contract.reqs -> [outcome : EvidenceOutcome, item : 0..items]],
    verdicts : [DOMAIN contract.criteria -> CheckOutcome],
    flags : SUBSET FlagCodes,
    points : ScoreComponents,
    max : ScoreComponents,
    score : 0..100,
    recommendation : Recommendations,
    missing : SUBSET MissingRequirement({0} \cup DOMAIN contract.reqs \cup DOMAIN contract.criteria),
    human : BOOLEAN ]

(***************************************************************************)
(* rules.py: criteria and deliverables                                     *)
(***************************************************************************)
Factual(criterion) == criterion.check # "manual"

Judged(criterion, evidence, text) ==
  LET missing == \E i \in criterion.links : evidence[i].outcome = "missing"
  IN CASE criterion.check = "manual" -> IF missing THEN "blocked" ELSE "needs_human"
       [] criterion.check = "evidence_present" ->
            IF criterion.links # {} /\ ~missing THEN "pass" ELSE "fail"
       [] OTHER -> IF criterion.expected \in text.says THEN "pass" ELSE "fail"

\* evaluate_criteria, for one criterion: an optional one cannot fail.
\* Mutated form: it can.
VerdictStrict(criterion, evidence, text) == Judged(criterion, evidence, text)
Verdict(criterion, evidence, text) ==
  LET verdict == Judged(criterion, evidence, text)
  IN IF ~criterion.required /\ verdict \in {"fail", "blocked"} THEN "not_applicable" ELSE verdict

Verdicts(contract, submission, evidence) ==
  [i \in DOMAIN contract.criteria |-> Verdict(contract.criteria[i], evidence, submission.text)]

RequiredReqs(contract) == {i \in DOMAIN contract.reqs : contract.reqs[i].required}

\* counted_factual: what takes part in the score.
Counted(contract, verdicts) ==
  {i \in DOMAIN verdicts : Factual(contract.criteria[i]) /\ verdicts[i] # "not_applicable"}

\* evaluate_deliverables: those that fail.
FailedDeliverables(contract, submission, evidence) ==
  LET words == submission.text.words
      items == Items(submission)
  IN {name \in Deliverables :
        CASE name = "content_present" -> words = 0 /\ items = <<>>
          [] name = "content_substantive" -> words < 10 /\ items = <<>>
          [] name = "required_evidence_supplied" ->
               \E i \in RequiredReqs(contract) : evidence[i].outcome = "missing"
          [] name = "constraints_satisfied" ->
               \E i \in DOMAIN evidence : evidence[i].outcome = "constraint_failed"}

(***************************************************************************)
(* rules.py: flags                                                         *)
(***************************************************************************)

\* evaluate_flags: the flags by code, a code of two severities as two.  A text is
\* on the subject or not, so low relevance (info, read by no rule) is left out.
Flags(contract, submission, evidence) ==
  LET text == submission.text
      bare == Items(submission) = <<>>
      required == RequiredReqs(contract)
      missing == {i \in required : evidence[i].outcome = "missing"}
      unverified == {i \in DOMAIN evidence : evidence[i].outcome = "unverified"}
      factual == {i \in DOMAIN contract.criteria : Factual(contract.criteria[i])}
      Raised(code) ==
        CASE code = "EMPTY_SUBMISSION" -> text.words < 3 /\ bare
          [] code = "NEAR_EMPTY" -> text.words \in 3..9 /\ bare
          [] code = "FILLER_ONLY" -> bare /\ text.filler
          [] code = "MISSING_ALL_EVIDENCE" -> missing # {} /\ missing = required
          [] code = "MISSING_SOME_EVIDENCE" -> missing # {} /\ missing # required
          [] code = "CONSTRAINT_FAILED" ->
               \E i \in DOMAIN evidence : evidence[i].outcome = "constraint_failed"
          [] code = "DUPLICATE_EVIDENCE" -> HasDuplicates(submission)
          [] code = "UNSUPPORTED_EVIDENCE_TYPE" -> HasUnsupported(submission)
          [] code = "UNVERIFIED_REQUIRED" -> unverified \cap required # {}
          [] code = "UNVERIFIED_OPTIONAL" -> unverified # {} /\ unverified \cap required = {}
          [] code = "IRRELEVANT_CONTENT" -> text.words >= 20 /\ ~text.relevant
          [] code = "SUBJECTIVE_ONLY" -> required = {} /\ factual = {}
  IN {code \in FlagCodes : Raised(code)}

(***************************************************************************)
(* rules.py: score                                                         *)
(***************************************************************************)

\* round(num / den), which rounds a half to the even neighbour.
\* Mutated form: one too many.
RoundedPastEnd(num, den) == num \div den + 1
Rounded(num, den) ==
  LET low == num \div den
      twice == 2 * (num % den)
  IN IF twice > den \/ (twice = den /\ low % 2 = 1) THEN low + 1 ELSE low

\* _evidence_credit, in halves.
HalfCredit(outcome) ==
  CASE outcome = "found" -> 2
    [] outcome \in {"unverified", "constraint_failed"} -> 1
    [] outcome = "missing" -> 0

\* The most points each component can give: what the contract does not define,
\* or nobody supplied, gives its points to the other.
\* Mutated form: it keeps them.
MaximaFixed(required, factual) ==
  [ evidence |-> IF required = {} THEN 0 ELSE 50,
    factual |-> IF factual = {} THEN 0 ELSE 30,
    deliverables |-> 20,
    unverifiable |-> IF required = {} /\ factual = {} THEN 80 ELSE 0 ]
Maxima(required, factual) ==
  [ evidence |-> IF required = {} THEN 0 ELSE IF factual = {} THEN 80 ELSE 50,
    factual |-> IF factual = {} THEN 0 ELSE IF required = {} THEN 80 ELSE 30,
    deliverables |-> 20,
    unverifiable |-> IF required = {} /\ factual = {} THEN 80 ELSE 0 ]

\* score: the points of each component.
Points(contract, submission, evidence, verdicts) ==
  LET required == RequiredReqs(contract)
      factual == Counted(contract, verdicts)
      max == Maxima(required, factual)
      credit == MapThenSumSet(LAMBDA i : HalfCredit(evidence[i].outcome), required)
      passed == {i \in factual : verdicts[i] = "pass"}
      failed == FailedDeliverables(contract, submission, evidence)
  IN [ evidence |-> IF required = {} THEN 0
                    ELSE Rounded(credit * max.evidence, 2 * Cardinality(required)),
       factual |-> IF factual = {} THEN 0
                   ELSE Rounded(Cardinality(passed) * max.factual, Cardinality(factual)),
       deliverables |-> 20 - 10 * Cardinality(failed \cap {"content_present", "content_substantive"}),
       unverifiable |-> 0 ]

Total(points) ==
  LET sum == points.evidence + points.factual + points.deliverables + points.unverifiable
  IN IF sum > 100 THEN 100 ELSE sum

(***************************************************************************)
(* rules.py: recommendation and the whole review                           *)
(***************************************************************************)

\* recommend: the first of its rules that applies.
Recommendation(contract, total, evidence, verdicts, flags) ==
  LET short == \/ \E i \in RequiredReqs(contract) :
                    evidence[i].outcome \in {"missing", "constraint_failed"}
               \/ \E i \in DOMAIN verdicts :
                    contract.criteria[i].required /\ verdicts[i] \in {"fail", "blocked"}
      rules == << <<flags \cap Critical # {}, "reject_candidate">>,
                  <<"SUBJECTIVE_ONLY" \in flags, "needs_human_review">>,
                  <<total < 30, "reject_candidate">>,
                  <<short, "incomplete">>,
                  <<flags \cap (InferredWarnings \cup {"DUPLICATE_EVIDENCE"}) # {}, "needs_human_review">>,
                  <<total >= 90, "strong">>,
                  <<total >= 70, "acceptable">>,
                  <<TRUE, "needs_human_review">> >>
  IN rules[SelectInSeq(rules, LAMBDA rule : rule[1])][2]

\* missing_requirements: what is listed as missing, and whether it is required.
MissingOf(contract, evidence, verdicts, failed) ==
  {[what |-> "evidence", id |-> i, required |-> contract.reqs[i].required] :
     i \in {j \in DOMAIN evidence : evidence[j].outcome = "missing"}}
  \cup {[what |-> "criterion", id |-> i, required |-> contract.criteria[i].required] :
     i \in {j \in DOMAIN verdicts : verdicts[j] \in {"fail", "blocked"}}}
  \cup {[what |-> name, id |-> 0, required |-> TRUE] : name \in failed}

\* review_submission
ReviewOf(contract, submission) ==
  LET evidence == Evidence(contract, submission)
      verdicts == Verdicts(contract, submission, evidence)
      failed == FailedDeliverables(contract, submission, evidence)
      flags == Flags(contract, submission, evidence)
      points == Points(contract, submission, evidence, verdicts)
      rec == Recommendation(contract, Total(points), evidence, verdicts, flags)
  IN [ evidence |-> evidence, verdicts |-> verdicts, flags |-> flags, points |-> points,
       max |-> Maxima(RequiredReqs(contract), Counted(contract, verdicts)),
       score |-> Total(points), recommendation |-> rec,
       missing |-> MissingOf(contract, evidence, verdicts, failed),
       human |-> \/ rec = "needs_human_review"
                 \/ \E i \in DOMAIN verdicts : ~Factual(contract.criteria[i]) ]
=============================================================================
