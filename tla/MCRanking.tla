----------------------------- MODULE MCRanking -----------------------------
(* Small instances of Ranking for TLC. *)
EXTENDS Ranking

File(name, form, fits) == [name |-> name, form |-> form, fits |-> fits]

Shot == File("shot", "picture", TRUE)
Photo == File("photo", "picture", FALSE)
Doc == File("doc", "document", TRUE)
Post == File("post", "page", TRUE)
Tx == File("tx", "explorer", TRUE)
Sig == File("sig", "signature", TRUE)
MediaId == File("id", "handle", TRUE)
Odd == File("odd", "odd", FALSE)

Text(words, says, filler, relevant) ==
  [words |-> words, says |-> says, filler |-> filler, relevant |-> relevant]

NoProse == Text(0, {}, FALSE, TRUE)
Done == Text(1, {}, TRUE, TRUE)
Brief == Text(5, {"version"}, FALSE, TRUE)
OffTopic == Text(35, {}, FALSE, FALSE)
Full == Text(60, {"version"}, FALSE, TRUE)

Optional(x) == [x EXCEPT !.required = FALSE]
With(req, name, bound) == [req EXCEPT !.constraints = @ \cup {[name |-> name, bound |-> bound]}]
Says(text) == [check |-> "pattern", required |-> TRUE, links |-> {}, expected |-> text]

\* Explicit contracts that ask for more than the templates do.
Shots == [reqs |-> <<Req("screenshot"), Optional(Req("url")), Req("photo"), Req("file")>>,
          criteria |-> <<Present({1, 3}), Optional(Present({2})), Says("version"), Optional(Manual({2}))>>]
Payment == [reqs |-> <<Optional(Req("url")), Req("transaction")>>,
            criteria |-> <<Optional(Says("version")), Present({2}), Optional(Present({}))>>]
Linked == [reqs |-> <<With(Req("url"), "domain", 0), Optional(With(Req("file"), "extension", 0))>>,
           criteria |-> <<Manual({1}), Optional(Says("version"))>>]
Report == [reqs |-> <<With(With(Req("text"), "min_words", 3), "max_words", 40), Optional(With(Req("url"), "url_pattern", 0))>>,
           criteria |-> <<Says("version"), Optional(Says("feedback")), Present({1})>>]
Open == [reqs |-> <<Optional(Req("url"))>>, criteria |-> <<Says("version"), Optional(Present({1}))>>]
Loose == [reqs |-> <<Optional(Req("url"))>>, criteria |-> <<Optional(Says("feedback"))>>]
Judgment == [reqs |-> <<Optional(Req("url"))>>, criteria |-> <<Manual({})>>]

\* Its second criterion is linked to evidence that it does not ask for.
Dangling == [reqs |-> <<Req("url")>>, criteria |-> <<Manual({1}), Present({2})>>]

MCSpecs == {Shots, Payment, Linked, Report, Open, Loose, Judgment, Dangling}

\* For several submissions to one contract: the template for posts, on which a
\* link and a picture are due, and a report.
Contested(asked) ==
  \E spec \in {Template["account_access"], Report} :
    asked.reqs = spec.reqs /\ asked.criteria = spec.criteria

MCWithin(asked, listed) ==
  \/ Len(listed) <= 1 /\ \A n \in DOMAIN listed : listed[n].created = 1
  \/ /\ Contested(asked)
     /\ \A n \in DOMAIN listed :
          /\ listed[n].created \in {Undated, 1, 2}
          /\ listed[n].text \in IF Len(listed) = 3 THEN {Brief, Full} ELSE {Done, Brief, Full}
          /\ Len(listed[n].refs) <= 1
          /\ \A k \in DOMAIN listed[n].refs :
               /\ listed[n].refs[k].file \in {Shot, Post}
               /\ Len(listed) = 3 => listed[n].refs[k].place = "media"

MCFiles == {Shot, Photo, Doc, Post, Tx, Sig, MediaId, Odd}

\* The screenshot and the link that the template for posts asks for.
PostFiles == {Shot, Post}

MCTexts == {NoProse, Done, Brief, OffTopic, Full}
=============================================================================
