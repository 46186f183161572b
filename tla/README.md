# TLA+ models of StellarTrace

StellarTrace watches payments on the Stellar network: it evaluates each
transaction against ten rules, opens an alert when a rule triggers, lets
investigators decide on the alert (with an AI recommendation they may ask for),
and keeps a hash-chained audit log of all of it. This directory holds TLA+
models of that code, the TLC configurations that check them, and proofs that
TLAPS checks.

    tlc -workers 2 -config Ingestion.cfg MCIngestion     # one run
    tlapm Selection_proofs.tla                           # one proof module

`PROJECT.json` lists the components, the runs, the mutants (a plausible bug for
each property, which the property's run then reports), the source lines of every
definition, the hazards of the code and the findings.

## 1. The system

| Component | Code | State it keeps | Operations |
|---|---|---|---|
| common types | `crates/common` | none | the data types, `amount_f64`, `can_decide` |
| audit log | `crates/audit` | `records`, behind one lock | `append`, `for_alert`, `all`, `restore`, `verify_integrity` |
| alert manager | `crates/alerts` | the alert map, behind one lock; shares the audit log | `create_alert`, `apply_investigator_decision`, `restore`, `list*`, `get` |
| transaction handlers | `crates/api/src/handlers.rs`, `state.rs` | `transactions`, `tx_history`, `flagged_accounts` | `ingest_and_evaluate`, `evaluate_transaction` |
| decision and AI handlers | `crates/api/src/handlers.rs`, `auth.rs` | `flagged_accounts`, `ai_recommendations` | `submit_decision`, `get_ai_investigation` |
| rules engine | `crates/rules_engine` | none (configuration) | `within_window`, ten rules, `evaluate` |
| scoring | `crates/scoring` | none | `compute_score`, `severity_for_score` |
| persistence and storage | `crates/api/src/persistence.rs`, `crates/storage` | two JSON files | periodic snapshot, `save`, `load`, `restore_on_startup` |
| ingestion pipeline | `crates/ingestion` | cursor of the source, `dead_letters`, the channel | `poll_next_batch`, `fetch_with_retry`, `run`, `drain_dead_letters` |
| metrics | `crates/api/src/metrics.rs` | five atomics | `inc_*`, `render_prometheus_text` |
| AI advisor | `crates/ai_advisor` | whether a key is configured | `investigate` over the model or the fallback, `extract_json`, `sanitize_recommendation` |
| flagged accounts registry | `contracts/flagged_accounts` | admin, one record per flagged account, on the ledger | `initialize`, `set_admin`, `flag`, `unflag`, `is_flagged`, `get_flag` |
| dashboard, deployment | `dashboard`, `deploy`, ... | none the API depends on | |

**How they interact.** Every HTTP request runs as its own task on the Tokio
runtime. The tasks share the stores of `AppState`, each behind a lock of its
own; no handler holds two locks, and none holds one across an `await`. A handler
is therefore a *sequence of atomic steps, one per lock acquisition*, and between
any two of them the steps of any other request, of the snapshot task, or a crash
may happen. A handler whose client disconnects is dropped at its `await`. The
snapshot task copies each store under its lock and writes the copy without it.
The ingestion pipeline is a task of its own that ends in a bounded channel. The
server does not run it: in this repository only tests do. The contract of the
registry runs on the network; nothing in the repository calls it. Its invocations
are executed one after the other, and one that fails is rolled back.

**What is hard.** The orders of the steps of several requests
(decision against decision, decision against consultation, evaluation against
recording); the gap between writing a status and recording it; a crash between
or inside the two saves of a snapshot cycle; a file that fails to load; retries,
back-off and a full or closed channel; history windows that truncate to whole
seconds and are cut at a bound; text of a model that must come out clean
though taking out one thing can put another together; the right to write to the
registry, which is handed on. The full list, each at its line, is in
`PROJECT.json` under `hazards`.

**What makes each component correct.**

- *Audit log*: it only grows, its chain always verifies, any alteration, swap or
  removal before the tail is noticed.
- *Alerts and handlers*: each event of each request is recorded exactly once;
  every change of status is recorded with its true predecessor; only a human who
  may decide changes a status; a confirmed alert's accounts become flagged, and
  no account is flagged without a recorded confirmation; every request ends.
- *Detection*: the history of an account is the recent part of what was
  recorded; a pattern complete when a request arrives is caught; no windowed
  trigger lacks the transactions that justify it.
- *Rules and scoring*: the order and the future of the history do not matter,
  and more evidence never lowers the score.
- *Persistence*: the saved log only grows; what was durable stays; the two files
  fit; the restored log verifies.
- *Ingestion*: everything fetched is handed over once and in order; bounded
  back-off; monitoring never stops by itself.
- *AI advisor*: the model's words reach a reader without markup, and, in letters that
  keep their width in lower case, without a phrase that reads as an instruction and
  with nothing else taken out; every call ends; the counters explain themselves
  whenever they are read.
- *Registry*: after the first call, only who was appointed last may write; what
  is answered about an account is the last accepted word on it.

## 2. The modules

| Module | Models | Built on |
|---|---|---|
| `Common` | investigation statuses, roles, `can_decide` | |
| `AuditLog` | `crates/audit`: events, records, the hash chain, `append`, `verify_integrity` | `Common` |
| `AuditTrail` | *abstract*: what alerts and their log promise together, without handlers, locks or hashes | `Common` |
| `AlertLifecycle` | `AlertManager` and the handlers that drive it, step by step | `AuditLog`; instantiates `AuditTrail` |
| `Persistence` | the snapshot task, `JsonFileStore`, crash and restart | composes with `AlertLifecycle` |
| `Selection` | `filter` and `sum`, the iterator adaptors the crates share | |
| `RulesEngine`, `Scoring` | the ten rules and the score as operators | `Selection` |
| `RulesOverHistory` | one transaction evaluated while its history grows | `RulesEngine`, `Scoring` |
| `Detection` | the transaction handlers over the shared stores | `RulesEngine` |
| `Ingestion` | `fetch_with_retry` and `run` over a paging source and a bounded channel | `Selection` |
| `Advisor` | `AdvisorService` over the Claude client, the sanitiser, two counters and a scrape | `Selection` |
| `FlaggedRegistry` | the contract on the ledger | |
| `Persistence_proofs` | theorems on the log, the handlers, the refinement, and crashes | `Persistence` and what it composes |
| `Selection_proofs` | lemmas: induction, what filter and sum return | `Selection` |
| `RulesEngine_proofs` | lemmas: what each rule takes from a history | `RulesEngine`, `Selection_proofs` |
| `RulesOverHistory_proofs`, `Detection_proofs` | theorems on these modules | each, with `RulesEngine_proofs` |
| `Ingestion_proofs`, `Advisor_proofs` | theorems on these modules | each, with `Selection_proofs` |
| `FlaggedRegistry_proofs` | theorems on the contract | `FlaggedRegistry` |
| `MC*` | values of the constants for TLC | the module named |

No module declares a RECURSIVE operator: a loop is a recursive function of the number
of its turns, so that all of them can be proved about.

### How state and actions correspond to the code

**AuditLog.** `records` is the vector behind the log's mutex. A hash is a
record of its inputs: SHA-256 is taken to be collision-free, and the identities
and clock readings that a record also carries are left out. `append` reads the
tail and pushes under one lock, so it is one step.

**AlertLifecycle.** `req[r]` is the control state of the task serving request
`r`, with the locals it carries. `create_alert` is
`InsertAlert; LogAlertCreated; LogRulesTriggered`. `submit_decision` is
`Reject`, or `WriteDecision; LogDecision; LogStatus; Flag`: the alert lock
is released before the first append (`crates/alerts/src/lib.rs:169`), and the accounts
are flagged from the clone of the alert. `get_ai_investigation` looks the alert
up, appends `AiContextSent`, awaits the advisor, counts, appends the answer and
stores it. A client may disconnect at the `await` only, where the task is dropped. The
advisor itself is seen as the handler sees it: it always answers, from the model
or from the fallback.

**Persistence.** A snapshot cycle is `CopyStore; WriteTemporary; Rename` for the
alerts, then for the audit log; each may end in `SaveFails`, after which the
cycle goes on. The 30 s sleep is arbitrary delay. `Crash` empties everything in
memory; `Restart` is `restore_on_startup`: the file of each store loads, or is
absent, or fails to load and is treated like an absent one. Reading a record
back passes its numbers, the score of an `AlertCreated` and the confidence of an
`AiRecommendationReceived`, through `Reparse`, the round trip of their printed form.
`durable`, `past`, `crashes`, `load_errors` are history variables.

**Detection.** `ReadHistory` and `Evaluate` are the two snapshots that
`run_evaluation` takes, one after the other; `InsertTransaction` and
`PushHistory` the two locks of `record_transaction`. The alert's later life is
reduced to the one thing it does here: `FlagAccounts`, at any time.

**Selection.** `Select(s, S)` keeps the elements of `s` that are in `S`, by the
ascending list of their positions; `Total` is the last of the partial sums.

**RulesEngine, Scoring.** Operators of the same names as the rules. Amounts are
integers; time is in ticks of a fraction of a second, so that the truncation of
`num_seconds` is visible. The score is fixed point with four digits. The cap of 100 is in `compute_score`, and
no set of the ten rules reaches it with the default weights: all of them together make
about 80. So it is no case of a run, and none of the code with these weights.

**Ingestion.** `pc` is where the future of `run` is suspended. The source pages
with a cursor as `HttpHorizonClient` does, and normalisation drops operations
outside `Normalizable`. The future may be dropped, the receiver may be dropped,
and `run` may be called again.

**Advisor.** A text is a sequence of letters, and the functions of `sanitize.rs`
are written for what they do to it, with the order in which `clean_field` calls
them: `Push` is one letter in the loop of `strip_markup`, `Turn` one turn of the loop
that replaces a marker, `neutralize_marker` one marker of the list. A letter has a
width in bytes, and a lower case of one or more letters of widths of their own: the code
finds a phrase by its byte in the lower-cased rest and slices the rest itself there
(`Offsets`, `Before`). Where no letter of the rest ends at that byte the slice panics,
and the call ends `panicked`, its answer lost. A text is `Steady` if each letter has
one letter of its own width for its lower case. One text and one list of texts stand for the five and two fields that are
treated alike. `extract_json` works on pieces: a brace, prose, or the fields of an
answer. A call waits for the status, then for the body; it may fail at either, by
an error or by the client's time limit, and then the fallback answers, *unsanitised*;
without a key the fallback is the primary advisor and is sanitised.
`record_ai_recommendation` is two relaxed atomics, which another thread may see
in either order; a scrape reads them one by one.

**FlaggedRegistry.** One action per method, with the addresses that signed the
invocation as a parameter. A failing invocation changes nothing and is left out.
`journal` is a history variable: who signed what. `CloseLedger` moves the clock.

## 3. The runs

| Run | Module, bounds | Distinct states | What it shows |
|---|---|---|---|
| `alert_lifecycle` | 3 requests, 2 alerts, 2 accounts, an investigator and a viewer, 2 decisions | 74,566 (symmetry) | every safety property of the handlers, over all their interleavings |
| `alert_lifecycle_live` | 3 requests, 1 alert, 1 account | 125,546 | every accepted request ends; the handlers implement `AuditTrail`, fairness included |
| `audit_replay` | as `alert_lifecycle` | violated | finding 1 |
| `persistence` | 2 requests, 1 alert, 2 crashes, 1 file that fails to load | 956,887 (symmetry) | snapshots, crashes and restarts keep what they should |
| `persistence_flags` | as `persistence` | violated | finding 2 |
| `persistence_drift` | as `persistence`; a number that does not round-trip | violated | finding 3 |
| `ingestion` | 5 operations, one not normalizable, pages of 3, 4 attempts, channel of 2, 2 runs | 3,959 | pages, back-off, blocking and liveness of `run` |
| `ingestion_lost` | as `ingestion` | violated | finding 4 |
| `rules` | 3 transactions of history out of 20, 4 evaluated transactions, half-second ticks | 33,684 | the rules over every short history |
| `detection` | 3 requests, 4 transactions, 2 accounts, histories cut at 2 | 16,494 (symmetry) | evaluation, recording and flagging interleaved |
| `advisor` | 2 calls, some 190 responses, fields of 3 letters, lists of 2, two letters that change width | 166,384 | fallbacks, clean advice, counters, and that every call ends |
| `registry` | 2 addresses, 5 accepted calls, 2 timestamps | 619,978 (symmetry) | who may write, and what the flags mean |

**Why the bounds are enough to be interesting.** Three requests are the least at
which one alert is created and *two* decisions, or a decision and a consultation,
race on it. Two alerts and two accounts show cross-talk. Two crashes let a
second run start from what a first restored. Pages of 3 of 5 operations, with
the second not normalizable, give full, partial and empty pages and a page
whose middle is dropped; 4 attempts with delays 2, 4, 5 reach the ceiling; the
channel of 2 is smaller than a page, so `send` blocks. A history cut at 2 overflows
with 3 requests. In `rules`, histories of 3 pass every threshold, with timestamps on
both sides of, and exactly at, each window and gap, and thresholds exceeded and
missed. `detection` uses histories shorter than the 500 of the code: only
the comparison with the bound depends on the number. In `advisor`, texts are all
sequences of up to three letters over two brackets and three others, and those
of four that matter: a tag inside a phrase, a phrase inside a phrase, nested
brackets, a capital, a text longer than its cap. Two of the three phrases may
overlap in a text, as "ignore previous instructions" and "set status to" may, by
their *s*. One letter has a wider lower case, of two letters, and one a narrower: behind
them a phrase stays, other text is taken out, and the slice panics, all in states of
the run. `alert_lifecycle` has two confidences, so that an answer of the model differs
from the fallback's in more than its flag. Two calls are the least whose counting interleaves. Five calls of the contract are an appointment, a transfer, a flag, a
second flag or its removal, and one more. What an instance of this
size cannot show, such as a race of four requests, the theorems cover where there
is one.

**Bounds in the models**: `Request`, each served once; `AlertId`;
`MaxCrashes`, `MaxLoadErrors`; `LedgerLength`, `MaxRuns`; `Call`, each made once;
`MaxCalls` and `MaxTime` of `FlaggedRegistry`; `MaxHistory` of
`RulesOverHistory` (in `Detection` it is the code's own limit). Symmetry is used
on sets of model values only, and only in runs without liveness.

**Deadlock** is not checked where every request is served once and the system
rests when all have finished (`AlertLifecycle`, `Detection`, `Advisor`) or the
history reaches its bound (`RulesOverHistory`, `FlaggedRegistry`). It is checked in
`Persistence` and `Ingestion`, where the snapshot task and the pipeline never rest.

**Fairness.** `AlertLifecycle!FairSpec`: weak fairness for the steps of each
accepted request, except the client's disconnection, and none for a request's
arrival. The runtime polls every ready task, every lock is released without an
`await` in between, and the advisor's call ends by its HTTP client's timeout of
20 s. `Ingestion`: weak fairness of `run`, which the runtime polls and whose
calls to the source return; of the consumer, which is external and assumed to
receive. That the source ever answers is *not* assumed; it is a premise
(`SF_vars(Progress)`) of `EveryOperationArrives`. `Advisor`: weak fairness of
`CallFails`, since the client's limit of 20 s covers the status and the body
(`claude.rs:88`), and of the counting, which waits for nothing. That a model
answers is not assumed, and nothing is assumed of scrapes.

## 4. What is proved

Every theorem is checked by TLAPS for all values of the constants. The theorems on the
log, the handlers, the refinement, the counts and the crashes are the sections, in
that order, of `Persistence_proofs`; the others have a module per component.

*Induction.* The induction theorems of the library take a predicate, which the
provers cannot instantiate. `Selection_proofs` therefore states induction for *sets*
of numbers, from well-foundedness (`WFMin`): `NatSetInduction`, `BoundedInduction`, and
`ChainExists`, that a function given by its value at 0 and its step exists. What a
recursive function of the models computes follows from these three: `PartialSumsDef`,
`DoubledDef` (delays), `ReadingDef` (markup), `TurnedDef` and `NeutralizedDef` (phrases).

*Filter and sum* (`Selection_proofs`). `Select` returns what its definition promises,
elements in order (`SelectDef`, `SelectAppend`). `Within(s, u, W)` says that `u` has
everything of `W` that `s` has, as often: an injection from the positions of
one to those of the other. It is what "a history with more in it" means below; it is
transitive and kept by filtering, appending and cutting (`WithinTransitive`,
`FilterWithin`, `AppendWithin`, `SubSeqWithin`). `TotalSwap`: a sum does not
depend on the order of two neighbours.

*Operators of the log*: appending keeps a log intact
(`AppendKeepsIntact`), and `verify_integrity` is false for a log that was intact
before an event was altered (`AlterationDetected`), two neighbouring records
changed places (`ReorderingDetected`), or a record before the last was removed
(`RemovalDetected`). They rest on the hash being injective in its inputs, and on
`HashMoves`: a record whose hash is kept while its predecessor's changed does
not verify. Truncation of the tail is *not* detected, by the code or here.

*The handlers*, for any number of requests, alerts,
accounts and investigators, under the named assumptions on constants
(`RoleOfAssumption`, `DecisionAssumption`, `NoAccountAssumption`):

- `TypeCorrect`. `TypeOK` is not inductive: `Flag` reads the accounts of
  `alerts[req[r].alert_id]`, which are accounts only if that alert exists. The
  inductive invariant is `TInv == TypeOK /\ AlertsOfRequestsExist`: a request past
  its first step is about an alert that exists. It holds because no step removes
  an alert. The proof has one step per action under `StepType`.
- `ChainIntact`, `AppendOnly`, `TamperingIsEvident`. By `StepRecords`, a step of any
  handler leaves the log alone or appends one record; `AppendKeepsIntact`
  and the lemmas on tampering do the rest.

*Decisions, flags and recommendations*, for the same constants. Four lemmas say what one step can change: records stay at their index
(`RecordsStay`), only the request being served moves and where to (`Moves`), an
alert changes only by being created or decided on (`AlertSteps`), its accounts
and the flags stay (`AccountsAndFlagsStay`). With them:

- `OnlyHumansDecide` (`StatusIsAHumanDecision`) is inductive with `TInv`: the step that
  writes a status leaves its request owing the record, and that request moves only
  by appending it (`AccountedStays`).
- `ConfirmationsFlag` (`ConfirmedAccountsFlagged`) is inductive with `TInv`.
- `FlagsHaveARecord` (`FlagsAreAudited`) needs `DecisionsLogged`: a request at
  `flag` finds its decision in the log. The flag is set from the request's own decision,
  never from the status of the alert at that moment, which another may have changed.
- `AdviceHasARecord` (`RecommendationAudited`) needs `AdviceLogged`: a request at
  `store` finds in the log what it sent and, behind it, its answer.

*The abstract specification*. `HandlersImplementTrail`: the
handlers implement `AuditTrail`, its fairness left out. Each step of a handler is one
of three kinds: it records the entry due first (`RecordStep`), it makes entries
due, together with a status if it changes one (`OweStep`), or it is hidden.
`EventsOwed` says what a request owes at each label; the lemmas `OwedAfter`, `LogAfter`,
`StatusAfter` say what a step does to each of the three mapped variables.

*Counting*:

- `RecordedExactlyOnce` (`AuditExactlyOnce`). By `LoggingStep`, a step either leaves
  the log and what every request has logged alone, or appends one event and adds it to
  what one request has logged. Hence `LoggedOnce`: each content is in the log as
  often as requests have logged it.
- `StatusChangesBalance` (`StatusFlowConserved`) is inductive as `FlowBalanced`: for each
  status of each alert, the changes recorded or owed that leave it, and those that
  enter it, differ by whether the alert began there and whether it is there now.
- `CountersAreRight` (`MetricsMatchAudit`) speaks of moments without requests in
  flight. Inductive is `CountersAccounted`: what is counted and not yet recorded, or
  recorded and not yet counted, is owed by a request at a known label.

*Crashes and restarts*, for any number of requests, crashes,
failing saves and failing loads. `PersistTypes` is a type invariant weaker than
`PersistTypeOK`: the invariant of the handlers alone does not hold after a crash, as
a request may have been answered about an alert that is gone. `LogSteps`
says what any step does to the log in memory, in the copy and on disk.

- `SavedChainGrows` (`DiskAuditGrows`), by `MemoryAhead`: memory extends the copy
  under way and both extend the file. It needs nothing of `Reparse`, for `Extends`
  compares hashes, which are strings and survive.
- `RestoredLogVerifies` (`UntamperedLogVerifies`) and `DurableStays`
  (`DurableRequestsStayRecorded`) have the premise `NumbersRoundTrip`: scores *and* confidences come back as they
  were hashed. Finding 3 is what happens without it. Their invariants are `IntactEverywhere` and `DurableHeld`.
- `PersistTypeCorrect` (`PersistTypeOK`) closes the gap: `AllTypes` adds the
  types of the history variables and `DecisionsFindAlert`, that a decision in progress
  finds its alert when it flags the accounts. Alerts go in a crash only, and a
  crash takes the requests in progress with it.
- `SavedPairFits` (`SnapshotPairExplained`) is about the time before the first
  crash. Its invariant, `FirstRun`, carries the explanation of the alerts along a
  cycle (`CycleExplained`): against the log in memory, then its copy, then its file.
  It uses `StatusIsAHumanDecision`.

*Transaction handlers* (`Detection_proofs`), for any rules configuration, under
`MaxHistoryAssumption` and `TransactionAssumption` (a transaction has a source
account). `DInv` is the type invariant with "what is filed is known" and the bound of a
history; it gives `DetectionTypeCorrect` and `FiledIsKnown`
(`HistoryCanBeLookedUp`). `FlaggedAreCaught` (`FlaggedAccountsCaught`) needs
`FlagsWatched`: flags are never removed, and what was found leads to an alert before
anything is recorded. `AccountsAreRight` (`IngestionAccounted`) needs `Counted`. Then:

- `HistoryKept` (`HistoryIsRecent`): by `Recent`, an equation for every account between its
  history and the latest part of what was recorded for it. `PushLatest` is the
  step: cutting the oldest after appending gives the latest part again.
- `NoTriggerInvented` (`TriggersJustified`) and `NoTriggerMissed`
  (`AnsweredTransactionsCount`), by `EvaluationsInformed`: the history a request has read
  is `Within` all that is recorded and, unless a history has overflowed, has all
  that was recorded when it arrived `Within` it. `WindowedRulesGrow` carries that
  over to the rules. The premise `Fits` is the bound of the history; without it a trigger
  *can* be missed, which is what the bound means.

*Rules* (`RulesEngine_proofs`, `RulesOverHistory_proofs`), for every configuration,
granularity of time and length of history, under `ConfigAssumption`,
`TicksAssumption` and `RecordAssumption`. Each windowed rule depends on its history only
through what is in its window (`WindowPositions`), and grows with it
(`RepeatedGrows`, `FrequencyGrows`, `RoundTripGrows`, `CrossAssetGrows`):

- `RulesIgnoreOrder` (`OrderIrrelevant`): exchanging two neighbours changes no trigger,
  hence no rearrangement does. The average of `unusual_asset_movement` needs `TotalSwap`.
- `LateEvaluationAgrees` (`LaterTransactionsIgnored`): only that rule looks at
  transactions later than the one it judges.
- `MoreHistoryOnlyAdds` (`MoreHistoryConfirms`), an action property.
- `DormancyIsSilence` (`SilentThenActive`): the rule takes the latest earlier payment and
  truncates its age to seconds; that fires exactly when there is one and none is
  within the gap (`SecondsPassed`).
- `MoreTriggersScoreMore` (`ScoreGrowsWithTriggers`), an action property: more triggers never
  lower the score or the severity. The weight at each rank does not fall
  (`WeightAtRankGrows`), there are at most ten triggers (`EvaluationIsScored`), and a
  sum of more and larger terms is larger (`TotalGrows`). The score is the
  fixed-point one of `Scoring`; rounding of f64 is not part of the proof.

*Ingestion* (`Ingestion_proofs`), for any ledger, page, retry and channel size.
`IngestionInv` is `TypeOK` with: nothing is held outside of `send`, `start` lies before
where the run is, `HandsOverEveryPage`, and `Waits`, which relates the delay
of a fetch to its failures at each label. It gives `IngestionTypeCorrect`,
`PagesHandedOver` (`HandsOverEveryPage`; two ascending lists with the same members
are equal, `AscendingUnique`) and `DelaysAreBounded` (`BackoffBounded`).

*The advisor* (`Advisor_proofs`), for any number of calls, texts of every length, any
phrases and caps.

- `CountersAddUp` (`CountersExplained`), by `AdvisorInv`: each counter is the number of
  the calls that have bumped it (`BumpsCounted`), a call owes only what is due for its
  answer, and what a scrape shows lies between the values then and now.
- `StripIsOutside`: `strip_markup`, a loop with a flag, returns exactly the letters `Outside` of tags.
- `OffsetsAscend`, `EvenLower`: the bytes at which letters end ascend, and in a text of
  letters that are steady the lower case has a letter for each letter and ends each
  at the same byte. So the slices are where the phrase is. Without that, `TurnType` and
  `NeutralizeAny` still say that brackets cannot come in.
- `AdviceReachesReaderClean` (`AdviceIsClean`) and `NothingElseIsTaken`
  (`NothingElseRemoved`). The loop that replaces a marker has the invariant
  `LoopInv`: what it has moved over is free of the marker, *and of every marker
  the text was free of*, ends in the note, and begins like the text up to a phrase
  with the note in its place; and each turn takes a letter at least, so that `Len(text)`
  turns suffice. That later replacements neither put together an earlier phrase nor
  touch the note rests on `NoteAssumption`: the first and last letters of the note are in no
  phrase (`ReadsJoined`, `ApartFromNote`). In the code they are the brackets of
  `[neutralized: ...]`, and a note without them would break it. What speaks of phrases in
  the two properties has the premise that the text outside of tags is `Steady`, for the
  code does not do it otherwise (section 6). Brackets, caps, the confidence, and that a
  field in which no phrase is found is shown as it was, hold for letters of any width;
  and `PanickedIsLost` shows that an answer is lost only for a text that is not steady.

*The registry* (`FlaggedRegistry_proofs`), for any addresses and any number of calls:
`RegistryTypeCorrect`, `AuthorityIsHandedOn` (with `AdminIsAppointed`: the
latest appointment is the admin) and `FlagsAreExplained`.

## 5. What is only model-checked

Every safety property that a passing run checks is the conclusion of a
theorem. What is left to TLC:

- Liveness: `RequestsFinish`, `MonitoringContinues`, `EveryOperationArrives`,
  `EveryCallAnswered`, and of `ImplementsAuditTrail` the fairness (its safety part is
  `HandlersImplementTrail`). Fairness rests on ENABLED, which the prover does not expand.
- The four violations of section 6, which are counterexamples.

The theorems hold for the modules as they stand. That the modules are faithful to
the Rust code is a matter of reading, and of the mutants: each is a plausible bug,
and the property it breaks is one that a theorem states of the model without it.

## 6. Findings

1. **`audit_replay`.** Two decisions that race are appended in either order, since
   the alert's lock is dropped before the appends (`crates/alerts/src/lib.rs:169`): the last
   status change in the log need not be the alert's status, which
   `docs/audit-model.md:18` says can be reconstructed. What does hold is
   `StatusFlowConserved`: no change is lost, none has a wrong `from`.
2. **`persistence_flags`.** Flagged accounts are in no snapshot: after a restart a
   confirmed alert's accounts are no longer caught, against
   `docs/human-in-the-loop.md:33`.
3. **`persistence_drift`.** A score or a confidence that does not survive printing and parsing makes
   an untouched log fail `verify_integrity` after a restart, against
   `crates/audit/src/lib.rs:169-170`.
4. **`ingestion_lost`.** A batch interrupted by the end of the receiver, or by the drop of
   `run`, is neither a dead letter nor delivered again, against
   `crates/ingestion/src/pipeline.rs:7-12`.

**Observed, without a run of its own.** These the models follow the code in; no
property speaks of the doc's version:

- `sanitize.rs:65-69` takes the position of a phrase in the lower-cased text for one in the
  text itself. Lower-casing changes the length of some letters in bytes. Behind such a
  letter a phrase may stay, other text may be taken out, or the slice may panic and
  the request end without an answer; `sanitize.rs:8-14` says phrases are neutralised in
  place. The model has such letters and does the same; `AdviceIsClean` and
  `NothingElseRemoved` therefore speak of phrases for `Steady` texts only. Searching and
  slicing one and the same text would remove the premise.
- `sanitize.rs:88` says every recommendation is sanitised "regardless of source". The
  fallback that answers for a failed call is not (`ai_advisor/src/lib.rs:111`); its
  texts come from the server's own rules. `AdviceIsClean` speaks of the model's words.
- `claude.rs:186` promises the "first top-level JSON object". `extract_json` takes all
  from the first `{` to the last `}`: two objects, or a brace in prose after the
  one, parse to none, and the fallback answers. The responses of `MCAdvisor` hold both.
- An opening bracket without a closing one swallows the rest of a field
  (`sanitize.rs:46`), as `NothingElseRemoved` states it.
- Where two phrases overlap, the one that comes first in the list of markers is replaced, not
  the one that comes first in the text, and what is left of the other stays.
  `NothingElseRemoved` therefore says that the first thing *missing* is a phrase.
- The contract's header restricts writes to the admin by `require_auth`; `initialize`
  asks for no signature. `AuthorityHandedOn` therefore begins after it.
- `handlers.rs:177` says a recommendation is generated if not yet cached; it is
  generated each time.
- The frequency rule fires at its threshold, `docs/rules-catalog.md:9` says above it.

## 7. What is not modelled

- *Dashboard, deployment, loading of configuration files, the text of the metrics,
  the prompt, request parsing*: they change no state a property is about.
- *Amounts that are NaN or infinite*: amounts are integers here. A
  confidence that is NaN cannot come out of the JSON parser.
- *A lower case that depends on its surroundings*: the lower case of a letter is its own.
  The one exception of `to_lowercase`, the sigma at the end of a word, has the same width
  and is in no phrase.
- *Horizon*: what its cursor means beyond the order of operations. The
  code passes a transaction hash as the cursor.
- *The ledger's storage*: entries that expire and are archived; and the network's
  handling of signatures, which is taken as given.
- *Power loss*: a crash is of the process; what `rename` put in place stays.
- `ingest_transaction` has no route, `is_terminal` no caller that changes state.

## 8. What is left

The plan of this project was the core first (`AuditLog`, `AlertLifecycle` over
`AuditTrail`, `Persistence`), then detection and ingestion, then the contract and the
advisor, with proofs from the log outwards. All of it is done, and every safety property
of the runs is proved. What remains:

1. `SavedPairFits` beyond the first run: after a restart, what explains a restored status
   is a record of an earlier run, possibly of a file older than the alerts'.
2. `RestoredLogVerifies` and `DurableStays` for codes that only round-trip some numbers:
   the premise `NumbersRoundTrip` could be asked of the numbers that occur.
3. The hazards without a property: their notes in `PROJECT.json` say what each would need.
