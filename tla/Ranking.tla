------------------------------ MODULE Ranking ------------------------------
(***************************************************************************)
(* review/compare.py and Service.compare_submissions: the reviews of the   *)
(* submissions to one contract are ranked and, if one of them stands out,  *)
(* it is named.  The contract is what Intake built of a request.  Workers  *)
(* hand in submissions at the backend, which lists them in an order of its *)
(* own, not always with the time each was created at.                      *)
(***************************************************************************)
EXTENDS Review, Intake

CONSTANTS
  Files,            \* the files that may be referred to
  Texts,            \* the prose that may be written
  MaxSubmissions,   \* bound: submissions to the contract
  MaxRefs,          \* bound: references in one submission
  Within(_, _)      \* bound: may the contract have these submissions?

ASSUME RankingAssumption == MaxSubmissions \in Nat /\ MaxRefs \in Nat

VARIABLES
  submissions,  \* what the backend lists
  reviews       \* the review of each, as it would come out now

vars == <<signals, contract, submissions, reviews>>

\* created_at is None: parse_datetime found no time it could read.  Other times
\* are numbered, and two submissions may have the same.
Undated == 0

\* A media id or a file name in prose is only words, and it is an <img> that an
\* editor embeds.
CanStand(file, place) ==
  CASE place = "inline" -> file.form \in {"picture", "page", "handle"}
    [] place = "content" -> file.form \notin {"handle", "odd"}
    [] place = "media" -> TRUE

Refs == {r \in [file : Files, place : Places] : CanStand(r.file, r.place)}

TypeOK ==
  /\ signals \in [Rules -> 0..MaxHuman + MaxAgent]
  /\ \/ contract = NoContract
     \/ /\ contract \in [status : {"ready", "draft"}, reqs : Seq(Requirement), criteria : Seq(Criterion)]
        /\ SpecAccepted(contract)
  /\ submissions \in Seq([refs : Seq(Refs), text : Texts, created : Undated..MaxSubmissions])
  /\ Len(submissions) <= MaxSubmissions
  /\ DOMAIN reviews = DOMAIN submissions
  /\ \A n \in DOMAIN submissions :
       LET review == reviews[n]
       IN /\ review \in SubmissionReview(contract, MaxRefs)
          /\ \A part \in DOMAIN review.max : review.points[part] <= review.max[part]

Init ==
  /\ IntakeInit
  /\ submissions = <<>>
  /\ reviews = <<>>

\* The submissions are now these.  Service.review_all reviews each as it
\* is listed.
List(listed) ==
  /\ Within(contract, listed)
  /\ submissions' = listed
  /\ reviews' = [n \in DOMAIN listed |-> ReviewOf(contract, listed[n])]
  /\ UNCHANGED intake

\* A worker hands in a submission, listed last whenever it was begun.  A bounty
\* is only ever funded for a contract that was ready.
HandIn ==
  /\ contract.status = "ready"
  /\ Len(submissions) < MaxSubmissions
  /\ \E text \in Texts, created \in Undated..MaxSubmissions :
       List(Append(submissions, [refs |-> <<>>, text |-> text, created |-> created]))

\* A worker adds a reference to the submission handed in last.
Attach(ref) ==
  LET n == Len(submissions)
  IN /\ n > 0
     /\ Len(submissions[n].refs) < MaxRefs
     /\ List([submissions EXCEPT ![n].refs = Append(@, ref)])

Next ==
  \/ IntakeNext /\ UNCHANGED <<submissions, reviews>>
  \/ HandIn
  \/ \E ref \in Refs : Attach(ref)

Spec == Init /\ [][Next]_vars

(***************************************************************************)
(* compare.py                                                              *)
(***************************************************************************)

\* Which of two comes first by creation: without a time last, and of equals the
\* one that is listed first.
CreatedBefore(listed, m, n) ==
  LET a == listed[m].created
      b == listed[n].created
  IN \/ a # Undated /\ (b = Undated \/ a < b)
     \/ a = b /\ m < n

\* created_order: where a submission comes by creation.
\* Mutated form: where it is listed.
CreatedAsListed(listed, n) == n
CreatedOrder(listed, n) == Cardinality({m \in DOMAIN listed : CreatedBefore(listed, m, n)})

\* _sort_key without its last component.  Smaller is better.
Key(review) ==
  <<-review.score, Cardinality(review.missing),
    Cardinality(review.flags \cap Critical),
    Cardinality(review.flags \ (Critical \cup Info))>>

Before(k1, k2) ==
  \E i \in DOMAIN k1 : k1[i] < k2[i] /\ \A j \in 1..i-1 : k1[j] = k2[j]

\* compare_reviews: the places in the list, best first.
Ranked(listed) ==
  LET key == [n \in DOMAIN listed |-> Append(Key(listed[n].review), CreatedOrder(listed, n))]
      Better(n) == {m \in DOMAIN listed : Before(key[m], key[n])}
  IN [rank \in DOMAIN listed |-> CHOOSE n \in DOMAIN listed : Cardinality(Better(n)) = rank - 1]

\* strongest_submission_id, or 0 if none is named.
\* Mutated form: ties are settled by the ranking.
StrongestOfRanked(listed) ==
  LET top == listed[Ranked(listed)[1]]
  IN IF /\ listed # <<>>
        /\ top.review.recommendation \in {"strong", "acceptable"}
        /\ top.review.score >= 70
     THEN top.id ELSE 0
Strongest(listed) ==
  LET top == listed[Ranked(listed)[1]]
      tied == {n \in DOMAIN listed : Key(listed[n].review) = Key(top.review)}
  IN IF /\ listed # <<>>
        /\ top.review.recommendation \in {"strong", "acceptable"}
        /\ top.review.score >= 70
        /\ Cardinality(tied) = 1
     THEN top.id ELSE 0

\* What compare_submissions compares: the ids number the submissions as they
\* are listed.
Listed ==
  [n \in DOMAIN submissions |->
     [id |-> n, created |-> submissions[n].created, review |-> reviews[n]]]

(***************************************************************************)
(* Properties.                                                             *)
(***************************************************************************)

\* One file answers one requirement, however often it is referred to; nothing
\* is reported missing that a file left over would do for; and no optional
\* requirement takes a file from a required one.
Matching ==
  \A n \in DOMAIN submissions :
    LET items == Items(submissions[n])
        evidence == reviews[n].evidence
        WouldDo(k, i) ==
          Kind(items[k]) \in FullKinds(contract.reqs[i].kind) \cup UnverifiedKinds(contract.reqs[i].kind)
        Missing(i) == evidence[i].outcome = "missing"
        Uses(i, k) == evidence[i].item = k
    IN /\ \A i, j \in DOMAIN evidence :
            i # j /\ evidence[i].item # NoItem /\ evidence[j].item # NoItem =>
              items[evidence[i].item].file # items[evidence[j].item].file
       /\ \A i \in DOMAIN evidence, k \in DOMAIN items :
            Missing(i) /\ WouldDo(k, i) => \E j \in DOMAIN evidence : Uses(j, k)
       /\ \A i, j \in DOMAIN evidence, k \in DOMAIN items :
            contract.reqs[i].required /\ Missing(i) /\ WouldDo(k, i) /\ Uses(j, k) =>
              contract.reqs[j].required

\* The components always offer 100 points, and only a submission that leaves
\* nothing open earns them all.
ScoreAddsUp ==
  \A n \in DOMAIN submissions :
    LET review == reviews[n]
        offered == review.max
    IN /\ offered.evidence + offered.factual + offered.deliverables + offered.unverifiable = 100
       /\ review.score = 100 =>
            /\ \A i \in RequiredReqs(contract) : review.evidence[i].outcome = "found"
            /\ \A i \in Counted(contract, review.verdicts) : review.verdicts[i] = "pass"
            /\ RequiredReqs(contract) # {} \/ Counted(contract, review.verdicts) # {}

\* The contract without the optional criteria that this submission does not meet.
WithoutUnmet(submission) ==
  LET evidence == Evidence(contract, submission)
      Unmet(c) == ~c.required /\ Judged(c, evidence, submission.text) \in {"fail", "blocked"}
  IN [contract EXCEPT !.criteria = Those(@, {c \in Range(@) : ~Unmet(c)})]

\* An optional criterion costs nothing: where some evidence is required the score
\* and the recommendation are those of a contract that never mentioned it, and
\* where none is the score is.
OptionalNeverCosts ==
  \A n \in DOMAIN submissions :
    LET with == reviews[n]
        without == ReviewOf(WithoutUnmet(submissions[n]), submissions[n])
    IN /\ with.score = without.score
       /\ RequiredReqs(contract) # {} => with.recommendation = without.recommendation

Unconstrained == \A i \in DOMAIN contract.reqs : contract.reqs[i].constraints = {}

\* More evidence never hurts: a file not referred to before turns nothing that
\* was there into something missing, although each file found earlier may now
\* answer another requirement, and does not lower the score but for constraints
\* that it fails.
AttachNeverCosts ==
  [][ LET n == Len(submissions')
          before == reviews[n]
          after == reviews'[n]
          added == Last(submissions'[n].refs)
      IN n > 0 /\ n = Len(submissions) /\ added.file \notin {submissions[n].refs[k].file : k \in DOMAIN submissions[n].refs} =>
           /\ \A i \in DOMAIN contract.reqs :
                after.evidence[i].outcome = "missing" => before.evidence[i].outcome = "missing"
           /\ Unconstrained => after.score >= before.score
    ]_vars

\* The order in which the backend lists the submissions settles who comes first
\* of two that are alike in all they are ranked by, time of creation included or
\* both without one, and nothing else; above all not who is named.  Shown for two
\* neighbours who change places.
ListingOnlySettlesTies ==
  \A n \in 1..Len(submissions)-1 :
    LET swapped == [Listed EXCEPT ![n] = Listed[n+1], ![n+1] = Listed[n]]
        Alike == Key(reviews[n]) = Key(reviews[n+1]) /\ submissions[n].created = submissions[n+1].created
        Ids(listed) == LET ranked == Ranked(listed) IN [rank \in DOMAIN listed |-> listed[ranked[rank]].id]
        ids == Ids(Listed)
        Trade(id) == CASE id = n -> n+1 [] id = n+1 -> n [] OTHER -> id
    IN /\ Ids(swapped) = IF Alike THEN [rank \in DOMAIN ids |-> Trade(ids[rank])] ELSE ids
       /\ Strongest(swapped) = Strongest(Listed)

\* Who is named stands out: it beats every other in what can be verified, and
\* who hands in the same work as another is never named.
StrongestStandsOut ==
  LET strongest == Strongest(Listed)
  IN \A n, m \in DOMAIN submissions :
       n # m /\ n = strongest =>
         /\ Before(Key(reviews[n]), Key(reviews[m]))
         /\ <<submissions[n].refs, submissions[n].text>> # <<submissions[m].refs, submissions[m].text>>

\* README: "Images pasted into the Gibwork editor arrive as <img> elements in the
\* content rather than as media; both count."
PastedCounts ==
  \A n \in DOMAIN submissions :
    LET refs == submissions[n].refs
        Pasted(r) == r.place = "inline" /\ r.file.form = "picture"
        attached == [k \in DOMAIN refs |-> IF Pasted(refs[k]) THEN [refs[k] EXCEPT !.place = "media"] ELSE refs[k]]
        evidence == Evidence(contract, [submissions[n] EXCEPT !.refs = attached])
        Missing(answers) == {i \in DOMAIN contract.reqs : answers[i].outcome = "missing"}
    IN Missing(reviews[n].evidence) = Missing(evidence)

\* README: "With neither, those 80 points are reported as unverifiable and the
\* recommendation is needs_human_review no matter how complete the text looks."
NeitherMeansHuman ==
  \A n \in DOMAIN submissions :
    LET review == reviews[n]
    IN review.max.unverifiable = 80 /\ review.flags \cap Critical = {} =>
         review.recommendation = "needs_human_review"
=============================================================================
