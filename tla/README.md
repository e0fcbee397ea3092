# HumanFallback in TLA+

HumanFallback turns a request an agent cannot carry out into a *Task Contract*,
funds a bounty for it at Gibwork, follows the bounty, reviews what workers hand in
and refunds it. This directory holds TLA+ models of that program, the TLC runs that
check them and the TLAPS proofs about them. Paths below are relative to
`src/humanfallback/` of the repository.

## The system

| Component | State it keeps | Operations | What makes it correct |
|---|---|---|---|
| Task Contract (`models/contract.py`) | status, delegation, refund, remote snapshot, attempt ledger | `transition_to`, `uncertain_attempt` | the status, the records and the ledger agree with one another |
| Money path (`service.py`) | the contract copy, the prepared quote and the adapter of each open `MoneySession` | `open_delegation`, `open_refund`, `prepare`, `submit`, `close`, `refresh`, `reconcile`, `resolve_uncertain` | a bounty is funded once and refunded once; no submit in doubt is forgotten; the record never claims what the backend did not do |
| Store (`store/sqlite.py`) | one row per contract, its JSON whole | `save` (upsert, no version check), `get`, `list` | the row is some invocation's copy |
| Front ends (`cli.py`, `mcp_server.py`) | none beyond one invocation; a server its pinned adapter | commands and tools; a person approves between prepare and submit | nothing is submitted but the quote that was shown and approved; what a command says stays true; what is offered is accepted |
| Gibwork adapter (`adapters/gibwork.py`, `mapping.py`) | `_session`, `_prepared`, `_consumed` | prepare, submit, get_task, list | a confirmation is dispatched once; the outcome it reports is the true one or "ambiguous" |
| MCP client (`adapters/mcp_client.py`) | child process, next id, queue of output lines | `start`, `call_tool`, `close` | a call gets its own answer, or an error that says whether the request left |
| Mock backend (`adapters/mock.py`) | balance, confirmations, tasks and submissions, in a JSON file shared by invocations | the adapter protocol, settled at once | money is conserved, a confirmation is used once and in time |
| Review engine (`review/`) | none: a function of contract and submission | `review_submission`, `compare_reviews` | one piece of evidence answers one requirement; the recommendation follows from the findings |
| Classifier, builder (`classifier/`, `contracts/`) | none: a function of the request, its result saved | `classify`, `build_contract`, `create_contract` | the strongest human category decides, if it beats the agent's verbs; every contract is well formed |
| Quote, mapping (`models/quote.py`, `adapters/mapping.py`) | none | values built from what a backend sends | fields are renamed and kept |
| Configuration (`config.py`, `backends.py`) | environment, config file | reads | out of scope: I/O |

The front ends call the service; the service reads a contract from the store, opens
an adapter, calls it, edits its copy and saves the copy whole. The Gibwork adapter
talks to a child process through the MCP client, which reads that process's output
from a queue filled by a thread. Nothing else is shared: two invocations meet only in
the SQLite row, at the backend and, for the mock, in its JSON file.

Hard behaviours: invocations that overlap on one contract (each saves the copy it
read); a process that dies between a submit's dispatch and the save of its outcome; a
submit that times out and takes effect later; an answer that is stale when it is
saved; tool errors that do not say whether the money moved; an agent's tools working on a
contract while a person runs commands on it; and the long way round by
which a locked contract is reconciled, resolved, retried and refunded. `PROJECT.json`
lists each at its line under "hazards".

## Modules

### Contract, MoneyPath, Escrow

`Contract.tla` is the Task Contract as a value, its transition table and the edits
`service.py` makes to a copy, one operator per block of code between an answer and the
`save()` that follows. Confirmations are numbered in the order they are issued; the
number also names the attempt and, for a create, the task.

`MoneyPath.tla` is the life of one contract's money. Its variables are the row, the
sessions of the invocations (each with its copy of the contract, its confirmation and
the answer of `get_task` it holds), and the backends: what was fixed at prepare
(`prep`), what became of each confirmation (`fate`), the bounties (`task`) and which
have submissions (`worked`). A step ends wherever somebody else can see a difference:

| Code | Actions |
|---|---|
| `open_delegation`, `open_refund` | `OpenDelegation`, `OpenRefund`: guards on the row, a copy is kept |
| `MoneySession.prepare` | `Prepare`: confirmation issued, attempt appended to the copy, copy saved |
| `MoneySession.submit` | `Dispatch` or `SubmitRefused`; later `AnswerOk`, `AnswerError`, `NoAnswer` or `CrashWaiting` |
| `close` without submit, dry run, declined prompt, an error before dispatch | `Abandon` |
| `refresh` | `RefreshRead`, `GetTask`, `RefreshSave` |
| `reconcile` | `ReconcileRead`, `GetTask`, `ReconcileSave` |
| `resolve_uncertain` | `ResolveRead`, `ResolveSave` |
| the backend | `Apply` or `Doom` a submit, `HandIn`, `PayOut` |

`Dispatch` may follow `Prepare` only in the session that prepared; who may and after
which approval is `FrontEnds`' part. A person who runs
`resolve` asserts what they have verified, so `ResolveRead` requires the attempt to be
doomed. `IndefiniteErrors` lets a backend answer a submit with a tool error although
the submit may still take effect (`NETWORK_ERROR`, "already used");
`Crashes` lets an invocation die while it waits.

`Escrow.tla` is the promise to the person whose wallet it is, in three variables: where
the money is, which operation is pending, what the record says. `MoneyPath` implements
it when invocations do not overlap (`KeepsPromise`, with the mapping in `Promise`).

### FrontEnds

`FrontEnds.tla` composes the money path with the two programs that call it. It extends
`MoneyPath` with how each invocation was called (`mode`: without `--confirm`, with it,
with `--confirm --yes`, or as a tool of an MCP server) and whether it is past its prompt
("agreed"), which quotes were shown and approved (`approved`) and what was said of each
confirmation when its invocation ended (`said`). `approved` is what people know and no
guard reads it: as in the code, a command goes on because its own `_approved` returned
True, and `submit()` sends whatever confirmation its session holds by then. That this is
the quote that was shown rests on `prepare()` giving the quote it already has
(`MayPrepare`) and on no y outliving its command.
Each of its actions is one of `MoneyPath`'s with what the front end makes of it, so that
`FrontSpec` implements `Spec` (proved); only the answer to the prompt is new.

| Code | Actions |
|---|---|
| `hf delegate`, `hf refund`, up to the session | `DelegateCommand`, `RefundCommand` with the flags given |
| tool `delegate_prepare` | `DelegatePrepareTool`, then `Quote` and `NoSubmit` |
| `session.prepare()` and the quote that is shown | `Quote` |
| dry run | `NoSubmit` |
| `_approved` | `Approve`, `Decline` |
| `_submit_or_fail` and the end of the command | `Submit`, `SubmitFails`, `Succeeds`, `Fails`, `EndsUncertain` |
| an error before the quote, a process that is killed | `Dies` |
| `hf contract refresh`, `reconcile`, `resolve` and the tools of the first two | `Refresh`, `Reconcile`, `Resolve` |
| `contract_view` | the operators `allowed_actions`, `human_action_required` |

A terminal may use any adapter, a server the one it is `Pinned` to. Time passes between
a prompt and its answer, and other invocations and the backends may act meanwhile. Of
an invocation that dies nothing is heard.

### Submission, McpClient, GibworkAdapter

`McpClient.tla` is one MCP client and the server it started, `GibworkAdapter.tla` adds
the adapter that makes the calls. Requests are named by their ids. The caller awaits
one answer at a time; the server reads requests in order, acts on them or refuses them
at any time after, prints at most one answer to each, pings, prints lines that answer
nothing and may exit. A call that times out is given up, and its answer may arrive in
the queue later, before the one that is awaited then.

| Code | Actions |
|---|---|
| `StdioMcpClient.start` | `Start`, `StartFails`; the handshake is a request like another |
| `call_tool`, `_request`, `_send` | `Request`, `WriteFails` |
| `_await` | `Take` (answer, end of output, ping, other line), `Timeout` |
| `close` | `Close` |
| `_pump_stdout` | the lines of `ReplyTo`, `Stray` and `Exit` |
| `wallet_status`, `get_task`, lists | `Read` |
| `prepare_task`, `prepare_refund` | `PrepareOp` |
| `submit_task`, `submit_refund` | `Submit`; how it ended for the caller is `Told` |

`_prepared` is read off the requests and their answers; `_consumed` is `consumed`. The
server is external. It is taken to be honest: a result means that it acted, a tool
error that it did not and will not. `MoneyPath`'s `IndefiniteErrors` shows what happens
otherwise. The adapter is used by one session and not after its `close`.

`Submission.tla` is what `MoneyPath` takes for granted of an adapter, and
`GibworkAdapter` is shown to implement it (`KeepsWord`): a confirmation is dispatched
once, and "submitted" and "failed" are said only when they are final and true. An error
object of an unusual form (`{"error": {"code": "x"}}`) raises something that neither
`_submit` nor the service expects: the caller is told nothing, which is `MoneyPath`'s
`CrashWaiting`. `MockGibwork` implements `Submission` too (`MockKeepsWord`).

### MockGibwork

`MockGibwork.tla` is the mock backend: the state in the JSON file, the copy each
invocation works on, the clock and the confirmations. One action per method; `Save`
replaces the file by the invocation's copy, as the code does after each change. A front
end submits what it prepared itself; a submit that is refused, for lack of funds or because
the confirmation expired, is `SubmitRefused`. The checks of mint, range and token account refuse
a call and change nothing, so they are left out.

### Intake, Templates

`Intake.tla` is the way from a request to a contract: `classifier/rules.py` and
`build_contract`. A request is the number of distinct phrases that each rule matches; a
person adds phrases one at a time (`Mention`) until a contract is made of it (`Create`),
with or without `--force` and an explicit spec. Scores are sums of Python floats, added one
signal at a time in the order of the rules. A double near some number of tenths is written as these tenths
and what it is off by, in units of 2^-55/5: a tenth is 2^54 such units, so both the tenths
and the rest are integers that TLC can count with. `Nearest` rounds to the multiple of the spacing of
doubles there, ties to even, and `Add` is IEEE 754 addition by it, for sums below 32
(`IntakeAssumption`). `Greater` compares two such sums: tenths are so far apart that `off`
cannot make up for one.
`Templates.tla` holds the contracts that `contracts/builder.py` builds and what it accepts
as a spec.

### Review, Ranking

`Review.tla` holds the review as operators, one per function of `review/`: `Items`
(`extract`), `Evidence` (`evaluate_evidence`), `Verdict` (`evaluate_criteria`),
`FailedDeliverables`, `Flags`, `Points`, `Recommendation`, `ReviewOf`. A file stands for
all references that normalize to one value; its form says how they are classified. A
regular expression or expected text is a member of the set of things the prose says;
prose is otherwise its number of words, whether it is filler and whether it is on the
subject. `Ranking.tla` composes `Intake`, `Review` and `compare_reviews`: the submissions
to the contract that was built, which workers compose reference by reference; `reviews`
is what `Service.review_all` returns for them. A submission may have no time of creation
(`Undated`: `parse_datetime` returns None for one that is absent or cannot be read), and two
may have the same; `CreatedBefore` is the stable sort of `compare.py:41`, in which
those without a time come last and equals stay as they were listed.

### What the runs show

| Run | Instance | Checks |
|---|---|---|
| `overlap` | 2 invocations, either of which may die, 2 backends, 2 confirmations, symmetry | `TypeOK`, `RowCoherent`, `Truthful`, `FailedIsSafe`, `TransitionsAllowed` |
| `frontends` | 1 command or tool call at a time, any of which may die, 2 backends, 3 confirmations, indefinite errors | `FrontTypeOK`, `AuditComplete`, `ApprovedOnly`, `SaidIsSo`, `OfferedIsAccepted`, `LockHeld`, `LedgerKept` |
| `serial` | 1 invocation at a time, 2 backends, 3 confirmations, `FairSpec` | `FundedOnce`, `RefundAskedOnce`, `NothingForgotten`, `KeepsPromise`, `LockClears`, `MovedIsRecorded` |
| `adapter` | 4 requests, the handshake included; a queue of 1 line, 1 line that answers nothing, `FairSpec` | `TypeOK`, `OwnAnswer`, `SubmittedOnce`, `KeepsWord`, `CallEnds` |
| `mock` | 1 invocation at a time, 4 confirmations, 2 amounts, 3 moments | `TypeOK`, `Conserved`, `UsedOnceInTime`, `SettledIsKept`, `MockKeepsWord` |
| `review` | requests of 3 human phrases and 9 verbs; 8 templates and 8 specs, one of them invalid; 8 files, 5 texts, 3 references in one submission, or 3 submissions of one reference, created at either of two times or at none that is known, in any order of listing | `TypeOK`, `ExactBelowEightVerbs`, `PhraseMovesOneWay`, `Matching`, `ScoreAddsUp`, `OptionalNeverCosts`, `AttachNeverCosts`, `ListingOnlySettlesTies`, `StrongestStandsOut` |

and runs in which the code does otherwise than the repository says:

| Run | Violated | What happens |
|---|---|---|
| `overlap_funds_twice` | `FundedOnce` | an agent's `delegate_prepare`, opened before a person's submit was locked as uncertain, saves its copy over the lock; the person delegates again and both creates are under way |
| `crash_forgets` | `NothingForgotten` | the front end dies after dispatch: the row is not locked |
| `indefinite_error` | `FailedIsSafe` | a tool error that is not final is recorded as FAILED |
| `pasted_lost` | `PastedCounts` | on the account_access template a pasted screenshot is taken for the link that is due; the link in the content is left unused and the screenshot is reported missing |
| `neither_rejected` | `NeitherMeansHuman` | with only unmet optional criteria a submission is a reject candidate for its score |
| `offered_refused` | `OfferedIsAllowed` | a server pinned to one adapter offers to reconcile a submit made with another, and names a command that is refused |

Four more configurations that fail show the same causes elsewhere and are kept to be run by hand:
`MC_overlap_drops_lock` (`LockHeld`: an invocation that read the row before the lock
saves its copy over it), `MC_mock_overlap` (`SettledIsKept`: an invocation that read the
JSON file earlier writes a funded task away), `MC_adapter_chatty` (`CallEnds`: each
line the server prints starts the timeout anew) and `MC_ties` (`BeatsCounterScore`: two
phrases of weight 0.8 tie with eight verbs, two of 0.9 with nine, and the sums of floats
are in favour of the human). `MC_overlap_long`, also by hand, is `overlap` with three
confirmations of one backend and passes. Four disagreements with the documents
need no run to be seen. A submit whose outcome is unknown is to raise `AmbiguousSubmit`
(`adapters/base.py:5`), and an error object of an unusual form makes it raise
`ValueError` or `AttributeError` (`mcp_client.py:218`). A draft is told "a person can promote it with the CLI"
(`mcp_server.py:210`), and no operation does. `reconcile` "clears the lock only when the
backend confirms the outcome" (`mcp_server.py:371`), and takes any task that is not open
for a refund in doubt that succeeded, a bounty paid out meanwhile included
(`service.py:453`); `Truthful` says what such a record does mean. "Strong means the
verifiable parts are complete" (`README.md:238`), and `recommend` looks at the score and
the criteria, so a strong submission may have required items listed as missing.

Bounds. `MaxPrepares` bounds the confirmations ever issued. Two are needed for a
retry, three for a create and a refund of which one is retried; with overlap that is
`MC_overlap_long`, and all five properties of `overlap` are proved for any number. Two invocations suffice for every pairwise race on the
row; the proofs cover any number. `frontends` has one process that is a terminal or a
server each time it starts something; commands that overlap are `overlap`'s, whose
behaviours include theirs. Four requests are a handshake, a prepare and either
two submits or a submit and a read; a queue of one line holds the late answer
or the stray line that the next call meets; the client reads in order, so a longer
queue only delays it. A clock of three moments with a confirmation's life of one has a submit
before, at and after its expiry. Three phrases let one category beat
another and two rules of one category add up, which is where the order of additions tells; nine verbs
tie with two of the heaviest, and eight with two that the doubles favour (`MC_ties`). For
`ExactBelowEightVerbs` three phrases are not a sample: seven verbs are 14 tenths, so only one or two
phrases of a category can tie with them, and where nothing ties the tenths decide.
Three references fill the largest template and leave one over; several submissions
(`MCWithin`) are tried on the template for posts and on one spec, with two files, and
where there are three these are media of theirs: enough for a tie between two and one that
stands apart, in any order and with any times of creation. Up to
three files per submission keep the shares of the score small, so rounding at larger
numbers of requirements is not exercised.

Fairness (`FairSpec`). A backend sooner or later acts on a submit or has lost it. An
invocation that awaits an answer gets one or times out (`mcp_client.py` waits with a
timeout). The invocation that runs proceeds. A person whose contract is locked keeps
trying reconcile and resolve, as every `CONTRACT_LOCKED` refusal tells them to, and is
not cut short each time; that is the strong fairness. Nothing is assumed of workers, of
payouts or of anyone delegating or refunding.

A call of the adapter ends because the client runs on (`ClientFairness`): it takes a
line or, when there is none, times out. Nothing is asked of the server; `ServerFairness`
only says that what was sent is read or lost, and what was read is acted on. Run
`adapter` bounds the lines that answer nothing; `MC_adapter_chatty.cfg` does not.

Deadlock is not checked: when the bounty is over and all confirmations are spent
nothing has to happen.

### What is proved

`FrontEndsProofs.tla` proves, for any set of terminals, servers and adapters:

- `Refines`: `FrontSpec => Spec`. Every command and tool call is a step of the money
  path (lemma `CommandStep`), so all that is proved below holds of the front ends;
- `FrontEndsTruthful` (`RowCoherent`, `Truthful`) by way of it;
- `Approval` (`ApprovedOnly`): a confirmation leaves because its session holds it and its
  invocation is past its prompt (`OnlyDispatch`), neither of which says that it was
  approved. The invariant `AgreedOnOwn` does: an invocation past its prompt is between
  prepare and answer, and what its session holds is in `approved`. It is kept
  (`CommandAgreed`) because `Prepare` is not possible again once a session has a quote, and
  because every way to end a command resets `mode`; it needs `IInv` and `FrontTypeOK`;
- `OffersAccepted` (`OfferedIsAccepted`): each tool that `contract_get` offers for a contract at the
  server's own backend is accepted, and each command it names works.
  `ACTIONS_BY_STATUS` and the guards of the operations are two pieces of code; that they agree
  (`TableAgreesWithGuards`) rests on what each status says of the delegation and its
  attempts, so it needs `Coherent` of the row: among the rest that a contract which is neither a
  draft nor ready nor waiting for a submit has a bounty. The guards are the operators
  `MayDelegate`, `MayRefresh`, `MayReconcile` and `MayResolve`, which the actions of the money
  path are guarded with.

`MoneyPathProofs.tla` proves, for any set of invocations, any set of adapters, any
number of confirmations and either value of `Crashes` and `IndefiniteErrors`:

- `TypeCorrect`, `Coherence` (`RowCoherent`), `Truth` (`Truthful`) and
  `NeverRaises` (`TransitionsAllowed`);
- `FailedSafe` (`FailedIsSafe`) when `IndefiniteErrors` is FALSE.

None of these is inductive. The row is replaced by whatever copy is saved, so whatever
is to hold of the row must hold of every copy (`CopyOK`); a copy stays truthful while
the backends move on because nothing it relies on is ever taken back (`Grows`, lemma
`CopyKept`); a save after an answer is sound because the session still holds its own
prepared attempt (`SessionOK`), which no other session submits (`OwnConf`); and
what a bounty's existence says of its confirmation has to be carried along
(`BackendOK`). `IInv` is their conjunction. `Invariance` (`Spec => []IInv`) is proved with
one lemma per edit of the contract, one per action, and each theorem follows from
`IInv`. The assumptions are those of `Contract` and `MoneyPath`: `MaxPrepares` is a
natural number and "none" is no adapter.

`SerialProofs.tla` adds the hypothesis `OneAtATime`, that `Procs` is one invocation, which
starts anew as often as it likes: saves that overlap lose updates, and all of these are then
violated (`overlap_funds_twice`, `MC_overlap_drops_lock`). The invariant `SInv` adds to
`IInv` that the copy of the running invocation is the row (`CopyIsRow`) and that a
confirmation is on record as soon as it exists (`Written`). From it follow

- `Audit` (`AuditComplete`), `LedgerOnlyGrows` (`LedgerKept`) and `LockOnlySettled`
  (`LockHeld`), crashes and indefinite errors included;
- with `NeverLost`, that is without crashes while a submit is awaited and with definite
  errors, `Remembered` (`NothingForgotten`), which is inductive together with `SInv`, and
  from it `FundedOnlyOnce` (`FundedOnce`) and `RefundedOnlyOnce` (`RefundAskedOnce`): an
  operation is only opened when no earlier one of its kind may still take effect, since
  the row would have said so. `crash_forgets` and `indefinite_error` show that both
  hypotheses are needed.

`EscrowProofs.tla` proves `MoneyPathKeepsPromise`: under `NeverLost`, `Spec` implements
`Escrow`. The mapping chooses the state of the one bounty and the one pending operation;
`FInv` makes them one, and `RefundedBy` (a bounty is refunded by a refund of it) is
what the step that settles a refund needs besides. Each action is mapped to an action of
`Escrow` or to a stutter in a lemma of its own.

`FrontEndsProofs.tla` further proves `FrontTypeCorrect` (`FrontTypeOK`, any overlap),
and under `OneAtATime` `FrontEndsAudit` and `SaidStaysSo` (`SaidIsSo`): what was
said of a submit is on record and of a kind that later commands leave alone
(`SaidOnRecord`), and a confirmation that was never dispatched is held by nobody.

`GibworkAdapterProofs.tla` has no hypothesis: it holds of any number of requests, stray lines
and queued lines, and of every order in which the server reads, acts, answers and exits.

- `AnswersAreOwn` (`OwnAnswer`): a line is true when it is printed and stays true
  (`LinesTrue`), since what the server made of a request is final (`Final`); so an old line
  that is matched by its id still tells what happened;
- `SubmitsOnce` (`SubmittedOnce`): `_consumed` is exactly the set of confirmations that a
  submit was sent for (`ConsumedIs`, `Unique`);
- `AdapterTypeCorrect` (`TypeOK`) and `AdapterKeepsWord` (`KeepsWord`): the adapter implements
  `Submission`.

`MockGibworkProofs.tla` proves of any number of invocations, overlapping or not,
`MockTypeCorrect` (`TypeOK`; the wallet never leaves the range it may be in) and
`MoneyConserved` (`Conserved`). Each invocation works on a whole state and saves a whole
state, so it is enough that every state somebody holds is `Sound`: it balances, and each
bounty has its create. An overwritten save loses a bounty together with its payment. When
invocations do not overlap (`~Overlap`), their copy is the file (`MemoryIsFile`), and
`LoneUsesOnceInTime`, `LoneKeepsSettled` and `LoneKeepsWord`, the refinement of `Submission`,
follow from `OInv`; `MC_mock_overlap` shows that they need it.

`RankingProofs.tla` proves of the intake, the review and the ranking, for any specs, any
files and texts, any number of references and submissions and any `Within`:

- `RankingTypeCorrect` (`TypeOK`): among the rest, that no component of a score has more
  points than it offers, rounding included (`RoundedBound`);
- `EvidenceMatches` (`Matching`): `evaluate_evidence` is a fold over the requirements, and
  `AnswersFacts` shows by induction over the requirements already settled that no item is
  used twice, that what is missing would have had to take an item from another one, and
  that this one is required if the other is;
- `FullMarksAreEarned` (`ScoreAddsUp`), if every spec asks for fewer than fifty required
  pieces of evidence and fewer than sixty factual criteria (`Few50`). The code has no such
  limit, and needs one: of 50 points for 50 pieces, 49.5 is rounded half to even to 50, so
  a piece found but not verified costs nothing; of 30 points for 60 criteria, one failed,
  29.5 is rounded to 30;
- `OptionalIsFree` (`OptionalNeverCosts`): the criteria that are left out are those that
  `counted_factual` leaves out, so the two contracts count the same (`KeptCriteria`);
- `NamedStandsOut` (`StrongestStandsOut`) and `ListingSettlesTies` (`ListingOnlySettlesTies`):
  sort keys of one length are strictly ordered (`BeforeOrders`), no two are the same because
  the last component is the place by creation (`CreatedOrders`, `SortKeys`), and a place in the
  order is the number of keys before it (`RankedFacts`). If two neighbours in the list differ in
  anything they are ranked by, swapping them leaves the sort keys in their order
  (`SwapOfDifferent`), and then the ranking (`SameOrderSameRanking`); if they are alike, in
  equal or missing times of creation too, the places keep their keys and the two trade
  ranks (`SwapOfAlike`). A tie is never named, so in neither case does the listing decide who is;
- `PhrasesMoveOneWay` (`PhraseMovesOneWay`): a sum of doubles is a double and its tenths are
  the exact sum (`AddTimesFacts`, `ScoreSum`), the top category is one that no other exceeds
  (`TopFacts`), a phrase raises its own category and leaves the others as they are
  (`ScoreRises`, `ScoreSame`);
- `MoreIsNoWorse` (`AttachNeverCosts`): with one file more, wherever the server lists it, no
  requirement becomes missing and, where no constraint is asked for that the file could fail,
  no point is lost. That a file always helps is not plain:
  the matching is greedy, so a new file that a requirement takes leaves the item it took before
  for the others. A reference to a new file is one item more, somewhere in the list
  (`RawGrows`, `OnceGrows`, `ItemsGrow`). At every
  requirement the items still free are those of the old review, renumbered, and at most
  one more (`Spare`); the first that fits is then the old one or the spare, which is no later in
  the order of preference (`FirstFreeGrows`), and what is left over is again at most one
  (`AnswersGrow`). Linked criteria follow the answers (`VerdictsGrow`), and rounded shares
  grow with the shares (`RoundedMonotone`, `PointsGrow`).

The reviews are no part of the induction: `review_all` makes them anew from the contract and
the submissions, so `RankingInv` only has to say that they are made of what is there, and that
what is asked was accepted.
What a review is worth follows from what the rules make of any typed contract
(`WellReviewed`). The proof found one definition that said too little: `Maxima`, the points
each component offers, was a `CASE` of which two guards could hold at once.

`FoldProofs.tla` holds what those proofs need of `MapThenSumSet` and `FoldLeft`: that the
fold exists; that a sum is a natural number, depends on the weights alone and grows by the
weight of one more element; that a fold over a sequence is a recursion over its prefixes;
that the elements of a finite order have the ranks from 0 on; and what a sequence with one
element more has in common with the old one (`Inserted`, `InsertedShifts`). The library's induction
theorems cannot be used (they take an operator), so each induction is a smallest
counterexample: of the subsets for which the statement fails, the strict subset order has a
minimal one (`SmallestSet`), and of numbers the smallest (`CountUp`).

Only model-checked so far: liveness (`LockClears`, `MovedIsRecorded`, `CallEnds`), which is out
of the prover's reach, and `ExactBelowEightVerbs`, which is a matter of computing a few sums;
its run computes all that matter (see the bounds). Every other invariant and every action property of the
passing runs is stated by a theorem, and so is every refinement of `Escrow` and
`Submission`.

## Not modelled

- `models/quote.py`, `adapters/mapping.py` beyond which answers are errors: fields
  renamed, amounts formatted; no guard reads them.
- `config.py`, `backends.py`: environment, files, the choice of a class, which is a
  parameter of the actions.
- `cli.py`, `mcp_server.py` beyond the above: parsing of arguments, tables, JSON, schemas.
- What a rule's pattern matches, the confidence and the reasons it gives.
- A crash while the mock's JSON file is written (`mock.py:388`), and the processes of
  clients whose handshake failed (`gibwork.py:325`).
- Regular expressions, HTML and URL normalization: a reference is already normalized.
- The contents of error messages, notes and summaries.
- The moment between the backend's prepare and the save of the attempt (`service.py:159` to
  `188`), which `Prepare` merges. No submit leaves in it; a death there is `Abandon` with a
  confirmation that nobody holds.
- A stray line that is not valid UTF-8: `json.loads` raises `UnicodeDecodeError`
  (`mcp_client.py:210`), which nothing catches; `Take` passes over every stray line. For the
  caller it is the malformed error object over again: the submit is consumed and nothing is told.

## Plan

1. Done: the money path, the front ends, the adapter and its client, the mock, the
   intake, the review; the proofs named above.
2. Done: the proofs about one invocation at a time, the refinements of `Escrow` and of
   `Submission`, the adapter and the mock.
3. Done: the review and the ranking, for any contract and any submissions; the intake.
4. Done: the offers of the front ends (`OffersAccepted`) and the file more (`MoreIsNoWorse`).
5. The mapping of remote payloads, as operators checked against a reference definition.
