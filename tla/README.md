# A verification development for civic-proof-il

TLA+ models of the stateful parts of civic-proof-il, TLC runs that check them on
small instances, and theorems about them that TLAPS proves for every instance.
Paths below are relative to the repository.

## 1. The system

civic-proof-il takes official Israeli records (Knesset OData, government
decisions, election results), archives the raw pages, normalizes them into a
graph, and uses the graph to give verdicts on political statements, with human
review of what the machine cannot decide.

```
 source --fetch--> IngestRun / run_adapter --put--> MinIO        (raw pages)
                        |        \--rows--> Postgres raw_fetch_objects, ingest_runs
                        \--upsert--> Neo4j                        (records)

 enqueue --> Postgres jobs <--claim/mark-- worker --> handler registry

 client --> API /claims, /declarations --> VerifyPipeline --> Neo4j, OpenSearch
                   |                             \--conflict task--> review_tasks
 reviewer --> reviewer UI --> API /review --> review_tasks, entity_candidates, review_actions
```

### Components

| component | state | operations | hard part | what makes it correct |
|---|---|---|---|---|
| job queue and worker (`civic_ingest/queue.py`, `handlers.py`, `apps/worker`) | table `jobs`, the tick of each worker process | enqueue, claim_one, dispatch, mark_done, mark_failed, signals | several workers, several transactions per tick, crashes and lost connections in between | one owner per job, attempts = dispatches, truthful outcomes, final outcomes, backoff, nothing waits for ever |
| review queue (`services/review`, `routers/review.py`) | tables `review_tasks`, `entity_candidates`, `review_actions`; one connection per process | resolve, relink-entity, confirm-evidence | requests in threads of their own share one autocommit connection: every statement is a transaction | status and audit log agree, no unauthorised relink, decisions close tasks, closed tasks stay closed |
| ingestion run and archive (`orchestrator.py`, `adapter.py`, `archiver.py`) | one open transaction per run, objects in MinIO, nodes in Neo4j | enter, fetch, archive_payload, upsert, exit | three stores and no common transaction; concurrent runs over the same pages | no row without its object, no record without its page, "succeeded" means complete, every run ends |
| verification pipeline (`routers/pipeline.py`, `claims.py`, `conflict.py`) | the pipeline wired at start, the tasks it files | verify: resolve, retrieve, judge, file, claim by claim | every call to a store may fail, and every failure but one is swallowed; a task is committed before the next claim is judged | an outage leads to no contradiction and no conflict, and to support only over text; conflicts and tasks agree |
| verdict engine (`engine.py`, `confidence.py`, `rerank.py`) | none | rerank, decide_verdict | thresholds, precedence of rules, which evidence counts for what | a contradiction rests on a row about the nodes that the names were resolved to |
| declarations (`declarations.py`, `declaration_verifier.py`, `relation_rules.py`) | process-wide cache | ingest, verify, get | a second decomposition is paired with the first by position; a task the schema refuses | every edge judges its own claim; the worst relation wins; what was foretold at ingestion holds |
| entity resolution (`resolver.py`) | alias table | resolve, resolve a claim's slots | a ladder of steps with thresholds and a margin; one failing lookup fails all slots | a name with two owners is never one of them |
| decomposition, checkability (`decomposer.py`, `rules.py`, `checkability.py`) | none | decompose, classify | overlapping matches, slots that some rule never binds | the claims of a text are those of its matches, in one order |
| temporal normalization (`normalizer.py`, `knesset_terms.py`) | none | normalize_time_scope | precedence of cues, the last term, open terms | a phrase gives the interval its first cue names |
| retrieval and provenance (`graph.py`, `lexical.py`, `infra/neo4j/retrieval`) | none | queries | parameters that are not sent | a query that is refused is an empty answer |
| source adapters (`services/ingestion/*`) | none of their own | parse, normalize, upsert of ten sources | ten adapters MERGE the same nodes, each with other attributes | rows that are read reach the graph; nothing is blanked; no edge hangs |
| graph upserts (`infra/neo4j`, `neo4j.py`) | the Neo4j graph | run_upsert | MERGE by type and ends, MATCHes that fail in silence | as above |
| loading scripts (`ingest_all.sh`, `seed_demo.py`, `enrich_vote_bills.py`) | place in the script | start, page, statement, failure | several at once, restarts from the beginning | a started script ends, and has loaded what it read |
| API wiring (`apps/api/main.py`) | connection, repository, pipeline | _lifespan | nothing reconnects | live with a connection, or offline without |
| reviewer UI, migrations, packages, evaluation scripts | none of their own | pages, DDL, reports | | |

The components meet in Postgres (jobs, runs, archive rows, review tasks), in
Neo4j (adapters write, retrieval reads) and in the API process, where pipeline
and review routes share one connection. `ClaimPipeline` composes `Claims`,
`Temporal`, `EntityResolution` and `Verdict` with the process and its stores;
`DataPlane` composes `Adapters` with `GraphStore`. `PROJECT.json` lists all components with
their status and, under `hazards`, every place found so far where a step of one
actor or a failure can come between two steps of another, with the properties
that watch it.

## 2. Modules

| module | role |
|---|---|
| `JobQueue` | the jobs table, its workers, faults and clock |
| `WorkItems` | abstract: items that are submitted, taken, finished, given back or buried |
| `JobQueueProofs`, `JobQueueRefinement` | theorems about `JobQueue`; it implements `WorkItems` |
| `MCJobQueue` | instances for TLC |
| `ReviewQueue` | review requests, one SQL statement per step |
| `ReviewQueueProofs`, `MCReviewQueue` | its theorems and its instance |
| `IngestArchive` | concurrent ingestion runs over Postgres, MinIO and Neo4j |
| `ArchiveLedger` | abstract: a ledger whose entries appear with the outcome of their run, once per content, and never change |
| `IngestArchiveProofs`, `MCIngestArchive` | its theorems (with the refinement) and its instance |
| `Temporal`, `Claims`, `EntityResolution`, `Verdict` | pure: time phrases, decomposition and checkability, the resolver's ladder, scores and verdicts |
| `ClaimPipeline` | verification requests over them, a process, three stores |
| `VerdictProofs`, `ClaimPipelineProofs` | lemmas about the pure modules; the theorems about the requests |
| `MCClaimPipeline` | four statements, six names, four rows and a span for TLC |
| `GraphStore`, `Adapters` | Neo4j with its templates; the ten adapters, row to statements |
| `DataPlane` | the scripts that load the graph, interleaved |
| `FactBase` | abstract: a growing, grounded set of facts that the sources state |
| `AdaptersProofs` | lemmas about the adapters: what the statements of any row state, and that they can be run in turn |
| `DataPlaneProofs`, `MCDataPlane` | theorems about `DataPlane` (with the refinement) and its instance |

The definitions named `X_Something` with a "Faulty:" comment are variants of `X`
with a plausible bug. No specification uses them; each property of a passing run
is violated when the variant takes the place of `X` (`mutants` in `PROJECT.json`).

### JobQueue

`jobs` is the committed table; `pending[w]` is the row version the open
transaction of worker `w` has written, which locks the row (`Locked`). `pc[w]`
is the place in `run_once`:

| pc | code |
|---|---|
| stopped, loop | outside and inside `run_forever`, between ticks |
| claimed | `claim_one` has run, `conn.commit()` has not |
| dispatch, running | before and in the handler |
| handled, raised | the handler returned, or an exception is caught |
| marked, failed | `mark_done` or `mark_failed` has run, its COMMIT has not |

`ClaimOne` is the WITH ... FOR UPDATE SKIP LOCKED statement with its order;
`CommitClaim` the commit before the dispatch; `MarkDone`, `MarkFailed` and
`CommitMark` the end of the tick. A lost connection (`LoseConnection`), a commit
whose answer is lost (`LoseCommitAnswer`), a failing statement (`MarkDoneFails`)
and a killed process (`Crash`) can happen at any point, `MaxFaults` times. On a
broken connection the `except` branch raises again at `conn.rollback()` and the
process ends (`DieOnBroken`): this is what keeps a job whose `done` was committed
from being marked failed, and `SettledIsFinal` depends on it. The clock is the database's `now()`
in seconds, cut at `Horizon`; a later `run_after` is cut too, which lets the
retry happen inside the bound.

`runs`, `effects` and `failedAt` are history variables: dispatches, handler
calls that returned, and the time of the last `mark_failed`.

### ReviewQueue

`_lifespan` sets `autocommit` on the only connection, so `resolve_task` is three
transactions and its `FOR UPDATE` lock is gone when the SELECT ends. A request
therefore takes one step per statement (`lookup`, `relink`, `select`, `update`,
`insert`, `get`), and requests interleave freely. Each statement can be refused
(`StatementFails`), or be committed with its answer lost (`Proceed`), after
which the connection is broken for every request until a `Restart`. A request
value stands also for its reviewer and for the entity it names. A relink whose
candidate has no row in `entity_candidates` (`Stored`) is rejected by its UPDATE
(`RelinkMisses`).
`overlapped` remembers the tasks that two decisions had both read before either
wrote: the exact condition under which closed tasks do not stay closed.

### IngestArchive

One process per run: `Enter` (commit of the `running` row), per page `Fetch`,
`Find`, `Put`, `InsertRow`, `Upsert` per record, `NextPage`, and `Exit` (UPDATE
and COMMIT on the connection of the archive rows). `pending[r]` is what the
run's transaction has inserted. An INSERT of a content that another open
transaction has inserted waits (`Waits`); when that one commits it violates the
UNIQUE constraint (`UniqueViolation`), and a cycle of waits is broken by Postgres
(`DeadlockDetected`). Both abort the transaction, and then `__exit__` cannot
write either (`ExitFails`). The page's day is part of its URI, so a change of
day (`Midnight`) gives the same content a second object.

### ClaimPipeline and its pure modules

`Temporal!NormalizeTimeScope` takes a phrase as the set of cues that the regular
expressions find in it and applies the tests in the order of the code, with the
table of Knesset terms and real month lengths; days are numbers yyyymmdd.
`Claims` takes a statement as the matches that the rule templates have in it;
`LegalMatch` says what each template can bind (`RuleTemplates`) and is an
assumption on the constant `Statements`. `Selected` is the choice of
non-overlapping matches, stated by what characterises it: a match is kept unless
a kept one that is preferred overlaps it. `Decompose` orders the valid ones
(`Place`). `EntityResolution!Resolve` is the ladder over what the stores answer
about a mention (`Names`), `LiveResolve`, `Unresolved` and `OfflineResolve` the
three things the pipeline can be told. `Verdict` has the selection of the
retrieval templates, the rubric in hundredths (so that no product is rounded), the
rules of the engine, and the relations of a declaration.

| pc | code (`routers/pipeline.py`) |
|---|---|
| idle | before the request |
| resolve | `_resolve` of the claim in hand is next |
| graph, lexical | `_retrieve`: Neo4j, then OpenSearch |
| conclude | `decide_verdict`, `maybe_open_conflict_task`, `bundle_provenance` |
| attribute | `DeclarationVerifier.verify` after the pipeline |
| answered, not_found, failed, lost | 200, 404, 500, no answer |

The stores go down and come back between any two calls (`StoreFails`,
`StoreReturns`); the one Postgres connection stays broken once it was lost. It is in
autocommit mode, as in `ReviewQueue`, so the INSERT of a conflict task fails in three
ways: the connection was broken before (`ConcludeFails`), Postgres refuses it
(`ConcludeRefused`), or it is committed and the answer lost (`ConcludeUnanswered`).
Each ends the request with 500; the last one leaves its task behind.
`Boot` wires the process live when the three pings succeed, offline otherwise.
`Crash` loses the process with its cache, while the INSERT of any request that is
filing a task may be committed; a boot follows. Failures are
swallowed where the code swallows them: a resolver that raises leaves the names
where the ids should be (`ResolverFails`), a query that fails is an empty answer,
a declaration task that the table's CHECK refuses is logged (`Attribute`); only
the INSERT of a conflict task fails the request.
`res`, `rows`, `spans` are reset at the end of a turn, when the code's locals die.

### GraphStore, Adapters, DataPlane

A node is keyed by `<<kind, external id>>`, which stands for the uuid5 that every
normaliser derives alike: that is how adapters meet on one node. An edge is keyed
by type and ends, as its MERGE is. `Apply` is one `run_upsert`: MERGE with
`coalesce` on match, and for an edge the MATCH of both ends and the WHERE of its
template, without which nothing is written and no error raised. `Adapters` has
per source which rows its parser keeps, what the normaliser makes of one, and the
statements of its upsert in order, the key-only stubs included.
In `DataPlane` a process runs the adapters of its script in order, an adapter its
pages (`FetchPage`, on the feed as published then), a page its statements one
transaction at a time (`RunUpsert`); processes interleave, fail anywhere (`Fail`:
what was written stays) and start again from the beginning. `PositionEnds` changes
a source between or during runs. `EnrichmentRaises` is what `enrich_vote_bills.py`
does, see the observations below.

## 3. Runs

| run | instance | shows |
|---|---|---|
| `job_queue` | 2 workers, 2 jobs of different kind and priority, one with a handler and one without, 2 attempts, 2 seconds, 2 faults, 1 signal | types, one owner, retry ledger, true outcomes, no orphan without a fault, finality, backoff, refinement of `WorkItems`; every queued job is settled, or orphaned by a fault, while a worker runs |
| `job_queue_lost` | as before | violation: ADR-0003 promises that a crashed worker does not lose its job |
| `review_queue` | 3 requests of any operation, 3 tasks (one names a candidate with a row, one a candidate without, one none), 1 fault | types, status and audit agree, relinks are authorised, decisions close tasks, closed tasks stay closed unless decisions overlapped |
| `review_atomic` | as before | violation: "All writes are atomic" in `queue.py` |
| `review_terminal` | as before | violation: an overtaken annotation reopens a resolved task |
| `ingest_archive` | 2 runs over 2 pages in opposite orders and a dry run, 2 days | rows have objects, records have pages, success is complete, waiting runs never all stand still, every run ends, refinement of `ArchiveLedger` |
| `ingest_stuck` | as before | violation: a run aborted by the UNIQUE constraint stays `running` |
| `ingest_once` | as before | violation: "the MinIO object is written at most once" |
| `claim_pipeline` | 2 requests, 4 statements, 1 declaration, both languages, 1 fault | types; verdicts rest on the record; an outage gives no verdict that a whole run does not, but abstention and the support of text; conflicts and tasks agree, over lost answers too; edges, overall relation and foretold abstention of declarations; homonyms are not resolved by their name; no words are judged twice |
| `outage_verdict` | the same | violation: the claim of an ambiguous name is `supported` when the resolver raises |
| `declaration_alarm` | the same | violation: a declaration that asks for review gets no task |
| `data_plane` | `ingest_all.sh` and a second process with positions and the enrichment, pages of one row, 3 starts, 1 fault | loaded rows stand in the graph; the office and committee queries answer truly; what the decisions' crawl can miss; nothing is forgotten; crawls advance and stay in their lists; scripts end; refinement of `FactBase` |

Why these bounds are enough. Two workers are all that a lock or an ownership
conflict takes; two jobs give the claim order and a job that is passed over; with
2 attempts a job is retried once and then buried, which is every branch of
`mark_failed`; a job that fails at 0 or 1 is retried inside the two seconds; two
faults let a fault hit the recovery from another. In `review_queue` three requests allow two overlapping decisions and a third that sees the result; one
fault suffices because it already breaks the connection for all. Two runs over
`<<a, b>>` and `<<b, a>>` produce the unique violation, the wait and the
deadlock; the dry run shows that it touches no store; page `b` has no record.
Crashes and lost connections of runs are not bounded at all, since each ends a
run or its transaction.

The statements of `claim_pipeline` are chosen for the branches: a vote with two
rows that disagree next to two overlapping decision numbers (a conflict on the
first claim and an unresolvable second one, so a later claim can fail after the
first task was committed); a bill of a person with a namesake; an English vote
that the record contradicts; a vote without a time. One fault is an outage, a
conflict INSERT that is refused or loses its answer, or a crash; a store that failed may return at once, so one suffices to hit one call and
not the next. Two requests share the connection, the cache and the stores, and
touch nothing else of each other. Offices, committees, attendance and elections
are not in this instance; the theorems are about all types.
In `data_plane` a page of one row makes every paged source take several pages;
person 1 holds one office twice, in a faction and outside of one; a member rejoins
a committee; one vote is cast by a person no other source knows and one row is an
absence; one decision of four is no formal one, so a page is emptied by the
filter. Three starts let a process fail, start again, and run next to the other. The theorems of section 5 hold without bounds.

All runs have `CHECK_DEADLOCK FALSE`: workers may all be stopped, all requests
answered and all runs and scripts ended, and nobody has to start anything again.
Requests of `ReviewQueue` are symmetric; no symmetry is used where a liveness
property is checked.

### Findings

The seven violations, five divergences from the docs and two defects, are in
`PROJECT.json` with their quotes:

1. A worker that dies after the committed claim leaves its job `running` for
   ever (`job_queue_lost`); ADR-0003 promises at-least-once delivery.
2. `resolve_task` is not atomic, and a failure leaves a decided task without an
   audit row (`review_atomic`).
3. A resolved task can be reopened by an `annotate` that read it earlier
   (`review_terminal`).
4. `archive_payload` can put one content twice, under two URIs when a day ends
   in between (`ingest_once`); and a run whose transaction was aborted by that
   race cannot record its failure (`ingest_stuck`, a defect of the code).
5. A resolver that raises leaves no slot statuses, and `classify` takes a missing one
   for no objection: the claim of an ambiguous name, on which a whole run abstains,
   becomes `supported` over a text span (`outage_verdict`);
   `docs/political_verifier_v_1_plan.md` has the system abstain on ambiguous cases.
6. No declaration ever opens a review task (`declaration_alarm`): the verifier
   files `kind="declaration"`, which the CHECK of `review_tasks` does not list, and
   swallows the error; `docs/PROJECT_STATUS.md` says that it auto-opens them.

What else was seen while translating. The code and the model agree in each; where a
document says something else, it is named:

* The CONTAINS fallback runs after "ambiguous" as well (`pipeline.py:149`), while
  `services/entity_resolution/README.md:38` and `pipeline.py:103` have it follow a
  ladder that comes up empty (`WithFallback`, `HomonymNeverResolved`).
* The fuzzy threshold and margin are 88 and 7 (`resolver.py:45`), while the same README
  and `docs/AGENT_GUIDE.md:55` say 92 and 5.
* Of matches of one length the one that starts first wins (`decomposer.py:147`), while
  the docstring breaks ties by the order of the templates (`Selected`).
* `enrich_vote_bills.py:56` passes `fetch` by position to `iter_odata_pages`, which
  takes it by keyword only (`odata.py:52`): the script raises a TypeError at once, no
  ABOUT_BILL edge is ever written, and `vote_cast.cypher` has nothing to answer from.
* The crawl of the decisions (`gov_il` `cli.py:89`) counts a page after the filter, so
  a page with a record that is dropped ends it (`DecisionsLostOnlyBehindADrop`).
* A member who rejoins a committee keeps the end of the former term, because one edge
  stands for the pair and `coalesce` keeps what is there
  (`SittingLostOnlyByRejoining`).
* `_retrieve` sends `$time_start` and `$time_end` only when there is a scope, so the
  timed templates are refused (ParameterMissing, swallowed) for claims without one;
  nobody sends `$decision_number` (`Refused`).
* `resolve` has no kind "government_decision" and raises ValueError, which makes the
  resolver fail for all slots of such a claim (`ResolverRaises`).
* `committee_attendance.cypher:4` matches an edge that no adapter writes.
* Without a summary table the elections page counts no valid votes and every list
  passes the threshold (`elections` `parse.py:93`, `PassedThreshold`).
* The name of a Party node is that of the last adapter that wrote it.
* No adapter writes a SourceDocument, so `index_evidence.py` has nothing to index.
* `neo4j_load_phase1_local.py:348` expects 12 constraints; `constraints.cypher` has 16.

## 4. Fairness

* `JobQueue!FairSpec`: the loop of a live worker goes on (`WF` of its steps: the
  loop has no exit but `_should_exit` and exceptions; a handler that never
  returns is excluded, the code has no timeout for it), and time passes.
  Producers, signals, faults and restarts are not fair: `docker-compose.yml`
  gives the worker no restart policy. `EveryJobSettles` is conditional on a
  worker that stays up (`WorkersStay`) for the same reason. Weak fairness of the
  claim step is enough because a claim is disabled only by locks, which their
  holders give up.
* `IngestArchive!FairSpec`: a started run goes on: the HTTP client has a timeout
  of 30 seconds, Postgres resolves deadlocks, and the other calls return or
  raise. Starting runs, faults and the calendar are not fair.
* `DataPlane!FairSpec`: a script that was started goes on (its statements and requests
  return or raise). Starts, failures and the sources are not fair. Weak fairness is
  enough: no step of a running script is disabled by another process.
  `StartedScriptsEnd` says that paging terminates, with rows that change under it.
* `ReviewQueue` and `ClaimPipeline` state no liveness: a request is one call of the
  client, which the code gives no bound in time.

## 5. What is proved

TLAPS checks every theorem for arbitrary constants that satisfy the `ASSUME`s of
the modules: types of the constants, `MaxAttempts > 0`, finitely many runs over
non-empty sequences of contents, `None` distinct from real values, and what is named below.

* **JobQueue.** No safety property is inductive by itself. `IInv` adds, for each
  control point, what the worker knows of the committed row and of the version it
  is about to commit (`RowInv`), and widens ownership by the uncommitted claim
  (`OneUser`): a second worker cannot take the job either between the SELECT and
  the COMMIT. `TickInv` (a worker in a tick holds a job) is proved together with
  the types because each supports the other. There is one lemma per action. From
  `Invariance` follow `TypeCorrect`, `Exclusion`, `RetryAccounting`,
  `TruthfulOutcome` and `GracefulExit`; `Finality` and `BackoffHolds` use
  `TableSteps`: the table changes only by an enqueue or by the commit of a row
  that its worker uses. `JobQueueRefinement!Refinement` shows `Spec =>
  ImplementsWorkItems`: the committed claim is a `Take`, the committed outcome a
  `Finish`, `GiveBack` or `Bury`, and a step by which a worker loses its job a
  `Drop`.
* **ReviewQueue.** `IInv` says what each control point of a request has read and
  done (`RequestInv`), where the content of a row comes from (`TaskInv`,
  `LinkInv`), and that a decision about to write a task without overlap is alone
  with it and sees it open (`OpenInv`). All six properties of the run are proved.
* **IngestArchive.** `IInv` says where a run stands with the stores (`RunInv`:
  put before insert, put before upsert), that no content has two rows, open
  transactions included (`OneRow`), and which pages a run has dealt with
  (`Progress`, which is what makes "succeeded" complete). Types, `RowsHaveObjects`,
  `GraphTraceable` and `SucceededIsComplete` follow, and `Refinement` shows that the
  tables implement `ArchiveLedger`: the exit of a run is one `Close` with all its
  rows. `NobodyWaitsForEver` is the part of `EveryRunEnds` that needs no scheduling.
  It takes an invariant of its own, `Held` (an uncommitted row belongs to a run that is
  under way on a working connection, whatever ended the others), and a fact about
  waiting: of finitely many runs that each wait for another of them, a smallest such
  set is a cycle (`CycleAmong`), which is what Postgres looks for.

* **ClaimPipeline.** The assumptions on the constants are that matches are legal for
  their rule and bind mentions (`StatementsAssumption`, `MentionsAssumption`), that
  mentions are not canonical ids (`MentionAssumption`), and that the stores are finite
  and hold rows about nodes and spans (`FactsAssumption`, `SpansAssumption`). Any
  names, aliases, rows, spans, statements and numbers of requests and faults satisfy
  the theorems. `VerdictProofs` has the facts about the pure modules:
  every claim of a statement is the claim of one of its matches (the order of the
  matches is total, and a pigeonhole argument gives every place an owner:
  `EveryPlaceIsTaken`); the greedy choice among overlapping matches exists and is the
  only one (`SelectionIsDetermined`, by induction over places: a match is taken when
  none that was taken before it overlaps it), so `Selected`, written as a `CHOOSE`, is
  the outcome of the loop in `decompose`, and the claims of a statement rest on
  separate words (`ClaimsAreApart`, from which `NothingJudgedTwice`); every time scope
  is an interval and "last term" is over today, whatever day it is
  (`ScopesAreIntervals`, `LastTermIsOver`); the confidence grows with the evidence, axis by axis
  (`ConfidenceGrows`), so that the verdict on what one store left is that on the
  whole or an abstention, the names being resolved alike (`PartVerdict`); a row that was retrieved for a checkable
  claim is about resolved nodes, since a name that was not resolved is no node
  (`RowsAreResolved`). In `ClaimPipelineProofs`, requests change only their own
  entries, so `IInv` is one predicate of the entries of a request (`Local`): how many
  claims are done at each control point, that the evidence in hand is all of a
  store's answer or nothing, that nothing is in hand without live stores (which is
  why a request without a connection has no conflict to file), and that every
  payload is the verdict on its own claim; plus `TasksFit`: every
  concluded conflict has its task, and every task is that of one, or of a claim
  over which a fault cut its request off (`CutOff`). What such a request has in hand is
  frozen where it stood, which is why `Local` also speaks of requests that failed. One
  lemma per step says what it does to a request, one that the others are framed.
  The outage of the resolver itself needs a comparison of resolutions
  (`FailureAbstainsOrTrustsText`, `BundleSurvivesOutages`). A resolver that raises leaves
  names, which match no row (`NoRowsUnresolved`), so no contradiction and no conflict can
  come of it. Text scores alike under names and under ids (`TextScoresAlike`), and
  no statuses are the mildest of all (`MildestResolution`): a claim that is not checkable
  under them never is. So a claim under names abstains, or is supported by text; then
  either some answer of the resolver makes it checkable and the whole run supports it
  too (`TextSupportsWhole`), or none does and the whole run abstains, which is the one
  exception the property states (`VerdictUnderNames`) and `outage_verdict` exhibits. `HomonymNeverResolved` follows the ladder for a name
  that several nodes bear: the exact step finds two rows and gives up, and the fuzzy
  scan, if it sees every node, scores all of them 100, so that the second is no
  margin below the first (`TieHasNoWinner`) and the scan yields no winner. It rests
  on `FuzzyAssumption` (a node that the exact lookup finds has the normalized mention
  as its name, and the ratio of equal strings is 100) and on finitely many nodes.
  The proof found the third way out besides aliases and transliterations: after an
  ambiguous answer, the CONTAINS fallback of the pipeline takes the only node whose
  names contain the mention as it is spelled, which differs from the normalized one.
  The property now states it. All properties of the run are proved.
* **DataPlane.** The scripts, feeds, page size, lookups, starts and failures are
  arbitrary. The assumptions: a script names adapters, a feed is a list of rows
  (`ScriptAssumption`, `FeedAssumption`), PersonToPositionID is the key of its
  table, so that two rows of one id agree on person, office and start
  (`PositionsAssumption`), and days are numbers (`DaysAssumption`).
  `AdaptersProofs` opens the ten adapters once: for any row, what its statements
  state (`PeopleRow` ... `AttendanceRow`), and that they can be run in turn on any
  graph, every edge after the nodes it joins (`Ordered`, `RowOrdered`). The lists of
  a row's parts are joined by `Concat`, a recursive function; the provers cannot use
  an induction rule with an operator parameter, so induction is stated of a set of
  naturals (`NatSets`) and drawn from the well-foundedness of their order.

  `DataPlaneProofs` follows each row from the feed to the graph. `IInv` is

  | part | says | why |
  |---|---|---|
  | `IsGraph`, `Grounded` | two tables; an edge has both its ends | MATCHes of later statements |
  | `FeedInv` | rows change only by the end of a running term, once | what was planned stays about the same row |
  | `PlanInv` | what is still to run came from a row, and can be run in its turn whatever others write | no template matches nothing |
  | `KeyInv` | the graph holds what some row states | `FactBase`, and office answers come from rows |
  | `OwedInv` | what was read is in the graph, or in the plan of the script that read it last | loaded rows stand, decisions are missed only by the crawl's end |
  | `TermInv` | a position term has the start and an end, or none yet, of a row of its id | office answers |
  | `SeatInv` | a seat has the start of one row and the end of one row | sitting members |
  | `HeldInv` | a HELD_OFFICE edge has the dates of the first row of its person and office, unless a linked term exists, now or by the time it is drawn | office answers: the query takes the edge only without a term |

  No property is inductive without them; the invariant as a whole holds on the
  states of `data_plane` too. A step is one of four (`StepIs`: a
  statement, a page, a script that stops, or nothing of these), and each part has
  one lemma over them (`PlanStep`, `KeyStep`, `OwedStep`, `TermStep`, `SeatStep`,
  `OfficeStep`). All safety properties of the run and the refinement follow: every
  node and edge of a completed adapter stands (`LoadedRowsAllStand`), a decision is
  missed only behind a dropped record (`LostDecisionsBehindDrops`, by the arithmetic
  of pages), every step of a script brings it nearer its end (`CrawlsGoForward`: a
  decisions' page that goes on is full, so the next one begins within the list), and `GraphIsFactBase` maps each step to `FactBase` growing by what one
  statement states, or to a stutter. The proof corrected
  `SittingLostOnlyByRejoining` where the instance was too small to show it: a member
  whose term is yet to begin is not to be found today; two individual ids of the
  lookup may be one person, and share an edge; and another term of the pair that
  is yet to begin may have moved the start, as a former one leaves its end.

Only model-checked:

* liveness (`EveryJobSettles`, `EveryRunEnds`, `StartedScriptsEnd`): it takes `ENABLED`,
  which the prover does not handle; of the last two, what no scheduling can mend is
  proved (`WaitsCanEnd`, `CrawlsAdvance`);
* the seven violations.

No safety invariant or action property of a passing run is left to TLC alone.

## 6. Plan

1. *(done)* `JobQueue`, `ReviewQueue`, `IngestArchive` with their abstract
   specifications, runs and theorems.
2. *(done)* `Temporal`, `Claims`, `EntityResolution`, `Verdict`; `ClaimPipeline` over
   them, with the declarations, and its theorems.
3. *(done)* `GraphStore`, `Adapters`, `DataPlane`; it implements `FactBase`, and its
   theorems.
4. Left: the start of the API that fails half-way; a fairness for requests, if the
   clients of the stores get timeouts; an instance of `ClaimPipeline` for the claim
   types that only the theorems reach now.

## 7. What is not modelled, and why

* Text: what a regular expression matches, Hebrew normalization, transliteration,
  the scores of a fuzzy comparison and of OpenSearch, the parsing of HTML and CSV.
  The models take their results as constants, constrained only where the code
  constrains them. Their correctness is a matter of examples.
* The LLM: decomposition falls back to one, summaries and the tie-breaker of the
  resolver use one, and no caller in the program passes a provider.
* `position_term_resolver`, which no caller uses, and the upsert templates of claims,
  declarations and verdicts, which nothing in the services runs.
* LIMITs of the retrieval templates, timestamps, English names and source tiers of
  nodes.
* A start of the API that fails between the repository and the pipeline
  (`main.py:59`): it leaves the review routes on a closed connection, which is
  `ReviewQueue`'s lost connection, and the claims routes offline.
* Poll sleeps, heartbeats and logging of the worker.
* The reviewer UI, which keeps no state; migrations as a process; evaluation,
  freshness and fixture scripts; settings, prompts and JSON schemas.
* `list_open_tasks`, health and person routes, GET of a declaration, which only read.
