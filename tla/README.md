# P.R.I.S.M., checked and proved

P.R.I.S.M. is an originality checker: a client posts a manuscript with the
sources to compare it with, a bounded worker pool runs the check in the
background, and the client polls the job until its report is there.  This
directory holds TLA+ specifications of the program, the TLC configurations that
check them on small instances, and proofs checked by TLAPS.  Every definition is
translated from the source; `PROJECT.json` names, for each of them, the file and
the lines it stands for.  Paths below are relative to `src/backend/` unless they
begin with another directory.

## 1. Inventory

| Part | State it keeps | Operations | What makes it hard, and what makes it correct |
|---|---|---|---|
| `worker/executor.py` `BoundedExecutor` | `_pending`, `_running`, the pool's queue and threads | `submit`, the `_run` wrapper, `shutdown`, `stats` | Submitters, pool threads and shutdown interleave between short critical sections. No more than `max_pending` tasks wait, the counters are exact, a submit that raised leaves nothing behind, accepted work ends. |
| `worker/store.py` `InMemoryJobStore` | records by id, in insertion order | `create`, `get`, `update`, `sweep` | Bounded by count and by age, both lazily. A job is forgotten only for age or because of newer ones, and never comes back. |
| `worker/postgres_store.py` `PostgresJobStore` | the same, as rows of a table shared by replicas | the same | Transactions of several replicas overlap; `get` reads and deletes in two statements; closed at shutdown. |
| `utils/ttl_cache.py` `TTLCache` | entries with a time, in order of use | `get`, `put` | Expiry, use and eviction must agree on the order. Used for results and for coach cards. |
| `worker/runner.py` `CheckRunner` | none of its own: store, executor, cache | `submit`, `status`, `_run`, `_compute`, `content_hash` | Joins the event loop, the pool's threads, the store and the cache. Every check ends with its own outcome in its record. |
| `app/routers/check.py` | none: request handlers on one event loop | `POST /check`, `GET /check/{id}` | Reads quota and limits, then awaits the uploads, then submits: state is read before an await and used after it. |
| `app/limits.py` `RateLimiter` | a window per client | `check`, `_sweep` | Fixed windows, rounding at their edges, lazily swept memory. |
| `worker/usage.py` | hits per owner, in memory or in Postgres | `record`, `count`, `sweep` | Counted at one time, recorded at another. |
| `app/auth.py` `JWTVerifier` | the key set and when it was fetched | `verify`, `_key_for` | A key set that is stale, rotated or unreachable while tokens are verified; one lock held across the fetch. |
| `app/factory.py` | wiring; the lifespan | `create_app`, `lifespan` | Shutdown order: executor, then store, without waiting. |
| `pipeline/` | a context per check | parse, retrieve, match, rerank, localize, triage, coach | Each stage rewrites what the next one reads; several of them fail softly. |
| `services/plagiarism_matcher.py` | one shared matcher, with `_last_confident_cutoff` | `check` | Two pool threads share the instance; a result quotes a field the other thread may have set. Greedy n-gram and sentence matching. |
| `services/coach.py` | a daily budget, a cache of cards | `take`, `coach_matches`, `post_filter` | Threads race for the budget around midnight and for the same card; a card written for one flag must be safe where it is shown. |
| `services/embedding_cache.py` | an LRU of vectors | `get_many`, `put_many`, `embed_cached` | Two threads miss, compute and store the same sentences. |
| `services/academic_corpus.py`, `fulltext.py` | a cache of full texts | `search`, `fetch` | Providers and downloads in threads, each with a timeout; merged as they arrive; partial failure. |
| `services/local_embeddings.py` | the model, once it is loaded; the readiness flag | `_ensure_model`, the warm-up thread | Loaded under a lock by whichever thread needs it first; loading may fail. |
| `services/document_parser.py` | none | `parse_upload` | Limits, running headers, where the reference list begins: what is cut here is never compared. |
| `services/triage.py`, `numeric_guard.py`, `report.py` | none | `classify`, `build_report`, `compare` | Rules tried in order on signals of their own; flags of two results are matched by keys made from positions. |
| `frontend/js/check.js` | the last job's id and file name | `runCheck`, `pollJob` | Polling races expiry, and remembers a job the server has forgotten. |
| `eval/`, `training/` | datasets on disk, reports | `fetch_datasets`, `run_pairs`, `run_corpus`, `finetune_cross_encoder` | The thresholds the service uses come from here: datasets repeat sentences, downloads are interrupted, verdicts combine several sets. |
| `modelhub/`, rerankers | a registry of models | - | Numbers of neural models. |
| `app/schemas.py`, `settings.py`, `middleware.py`, `logging_config.py`, `routers/health.py`, `utils/context.py` | none | wire formats, configuration, logging | Nothing that a model checker would find. |
| `scripts/`, `research/`, `e2e/`, `deploy/` | none at run time | studies, tests, deployment | Outside the running program. |

How they meet: a request handler runs on the event loop and calls
`runner.submit()`, which has no await in it: `store.create()`, then
`executor.submit()`.  A pool thread runs the executor's wrapper, inside it
`CheckRunner._run`: `store.update("running")`, `cache.get`, the pipeline,
`cache.put`, `store.update("done")`, or `store.update("error")` on the way out.
Clients poll with `store.get()`.  At the end of the lifespan the executor is shut
down without waiting and the Postgres store is closed.


## 2. Modules

The service, from the client inwards:

| Module | Models | How its state and actions correspond to the code |
|---|---|---|
| `CheckPage` | `frontend/js/check.js` | `phase` is where `runCheck()` and `pollJob()` stand, `sent` what was submitted, `lastJob` and `lastPaper` what the page remembers. The author may choose, sign in or out and press "New check" between any two of its steps; of the server it sees whose each job is and how it stands. |
| `SigningKeys` | `app/auth.py` | A handler holds `_lock` from the age check to the end of the fetch, so `holder` is a variable. The provider publishes and withdraws keys at any time. A token is what is known of it after parsing. |
| `Admission` | the submission handler of `app/routers/check.py`, `app/limits.py`, `worker/usage.py` | A handler is two steps, because it runs on one event loop and awaits only while it reads the uploads: the gate (limiter or quota), and all from the comparison to the answer. The ledger may raise, and `runner.submit()` may, when the pool is refused a thread (`StartMayFail`). `passes`, `overlap` and `queued` are histories. |
| `BoundedExecutor` | `worker/executor.py` over the standard library's thread pool | `pending`, `running` are the two counters; `queue`, `threads` and `work` are the pool's; `sub` is where each `submit()` stands. An action is one critical section of `_lock`, one call into the pool, or the return of the submitted function. The pool queues a task *before* it starts a thread for it, and the thread may be refused by the system: `EnqueueNoThread`. |
| `JobStore` | `worker/store.py`, and `worker/postgres_store.py` as one process uses it | The bodies of `create`, `update` and of the deletion in `get`, as operators a caller makes part of its own actions. `Durable` selects the order in which records are pushed out (insertion, or `created` with ties). |
| `TTLCache` | `utils/ttl_cache.py` | `Hit`, `Miss`, `Put` are the critical sections of `get` and `put`, over the order of the `OrderedDict` and its entries. Instantiated for results, coach cards and full texts. |
| `CheckRunner` | `worker/runner.py`, with the three modules above (`INSTANCE`), the event loop of `app/routers/check.py` and the end of the lifespan in `app/factory.py` | One job per submission. `loop` is the job the event loop is inside `submit()` for; `step` is where `_run` stands for a job; an action is one call into the store, the cache or the executor, or the pipeline. `PollSelect` and `PollDelete` are the two statements of `PostgresJobStore.get`. With Postgres any update may raise at any time, the store open or closed: before the `try` of `_run`, inside it, or in its handlers, each with the code's own consequence. `lost` records which updates of a job did. |
| `JobLifecycle` | what a polling client may rely on | The abstract specification: the graph of a job's states, "gone" included. `CheckRunner` implements it under `lifeOf`. |

What a check computes:

| Module | Models | How its state and actions correspond to the code |
|---|---|---|
| `Prose` | tokens, sentences and figures of `services/plagiarism_matcher.py` and `numeric_guard.py` | A text is a sequence of items: a word with its case-folded form, punctuation, a citation, a line break. A span is two positions in it. Number words and decimals are figures where a digit would be. |
| `DocumentParser` | `services/document_parser.py` | Pages of blocks become one text: limits, running headers, the cut at the reference list. |
| `Matcher` | `services/plagiarism_matcher.py` | The greedy n-gram search, the budget of source sentences, paraphrases beside copies, the guard on figures, the cutoff, `_aggregate()`. Percentages are sets of word positions, so that counting a word twice can be seen. |
| `Triage` | `services/triage.py`, `services/report.py` | Signals, rules in their order, the summary, the band, the keys of flags, `compare()`. |
| `Recheck` | `worker/runner.py` over `pipeline/stages.py` | Composes the four above: a manuscript is checked, revised, checked again against the first result. The encoder, the ranking and triage may fail where the code catches it. |
| `Pipeline` | `pipeline/stages.py`, the order of `PlagiarismMatcher.check()` | Several checks on threads that share the matcher; `last` is its `_last_confident_cutoff`. A passage is what the matcher and the rules see in a place of the manuscript. Here the reranker runs, which `Recheck` leaves out. |
| `AcademicSearch` | what `services/academic_corpus.py` computes | Queries, each database's contribution, merging by title, ranking. |
| `FullText` | `services/fulltext.py` | Tasks try two links each through a cache shared by all checks; an answer may come from a redirect, be too large, unreadable or forbidden. |
| `Embeddings` | `services/embedding_cache.py`, `services/local_embeddings.py`, the warm-up of `app/factory.py` | `lock` is `_load_lock`, held while the model loads; `vector` is the LRU; looking up, computing, storing and assembling the rows are separate steps. |
| `Shared` | the above three in checks that run at once | Extends them: search, fetch, encode, beside the warm-up thread. `replied` keeps what each database answered. |
| `Coach` | `services/coach.py` with `TTLCache` | `at` is the flag a check is at; `ReadDay` and `Take` are the two halves of `CoachBudget.take()`; how many places were asked for, taken and taken late is kept by day as a history. A call may raise, be billed for a reply that does not parse (`wasted`), or give a card; `paid` counts the replies that were billed. A card is the set of texts it copies. |

How its thresholds are found:

| Module | Models | How its state and actions correspond to the code |
|---|---|---|
| `Metrics` | `eval/metrics.py` | Functions over lists of scored pairs; scores in hundredths, rates in ten-thousandths. |
| `CorpusScale` | `eval/corpus_scale.py` | The probe and its measurement; `Cosine(model, a, b)` is a constant. A seeded shuffle is an order that the command brings. |
| `Evaluation` | `eval/fetch_datasets.py`, `run_pairs.py`, `run_corpus.py`, `training/finetune_cross_encoder.py` | `disk` is `eval/data`; a session is a sequence of commands; an action is one dataset of one command. A fetch may be interrupted at any dataset: rows missing, or a line cut. |

`Lists` holds the operations on lists that several of them need. `MC*` modules hold the
values of the constants, `*Proofs` modules the theorems of section 5. `AdmissionProofs`
extends `SigningKeys` too, and `CheckRunnerProofs` extends `CheckPage`, each the side of
the other that a client meets; `PipelineProofs` extends `Evaluation`, where the pipeline's
thresholds come from. Hence `KeysSpec`, `PageSpec` and `BenchSpec`.

A function that is computed over a list is recursive (`NegativeQueries`, `Distractors`,
`Total`), or says which place each member takes (`RetrievalOrder` counts who is ahead), so
that theorems can be about it.

Time is a counter that ticks to `MaxTime`; every comparison with a lifetime is the
code's own (`now - updated > ttl`, `now - start >= window`).  Counters are unbounded
unless the code bounds them.  A definition named `Foo_Bar` is a wrong form of
`Foo`, a plausible slip in the same code, against which the property of a run is
tried: it is in no specification.

What is an abstraction: in `CheckRunner` a manuscript is its bytes (a value) and the
academic flag, a result is which check's pipeline run it came from, and the pipeline
returns or raises; in `Admission` an upload is good, or is rejected before or after
any of its reads; in `Pipeline` scores are a few levels; in `Coach` a model's reply
is any set of texts it may copy.  In `Prose` a word counts as one character, and
hyphens at the end of a line are left out.  Keys made by hashing (`CheckRunner`, `Coach`)
are the tuples they hash: two that differ are not confused.  In `Shared` the threads that ask the
databases share nothing, so a search is one step that takes their answers in any
order.  In `Embeddings` encoding reads nothing that changes, so it belongs to the step
that uses it.  In `Evaluation` the models' numbers and the training itself are inputs,
and the 95th percentile of the negatives' top scores is left out.

## 3. Runs

| Run | Question | Bounds, and why they are enough |
|---|---|---|
| `executor` | Do the cap, the counters and the progress of accepted work hold under every interleaving of submitters, pool threads, shutdown and threads that fail to start? | Four tasks, two threads, two places: the backlog fills while both threads are busy, one task is refused, and shutdown meets tasks in every state. |
| `runner_memory` | Are results a job's own, and records forgotten only for cause, with the in-memory store? | Three jobs of two contents, two of them differing only in the file's name or the academic flag; a backlog of one, a store of two, a cache of one: refusal, eviction of a running check, hits, misses and expiry all happen. |
| `runner_durable` | The same with Postgres, whose reads delete in a second statement and which is closed under the workers: are outcomes recorded, or is an update that raised the reason, is the life cycle kept, do accepted checks settle? | Two jobs, a table of one: enough for an eviction and a stale delete of a row that is still running. Any update of a row may raise. |
| `admission` | What are the quota, the limiter and the ownership of reports worth, when requests overlap and the ledger may fail? | Four requests, a user and two addresses: two overlapping requests of one user plus a comparison of a comparison, two windows of a client and a sweep. Requests and addresses are interchangeable. A thread that cannot be started is left out for size: the client is told that the server failed and the check runs, exactly as when the ledger raises after queueing. |
| `keys` | Whom is a request taken for, how long is a withdrawn key good, and does every verification end? | Two requests and two keys, tokens with and without a key id, signed with the shared secret, bad, and absent: one handler waits for the lock while another's fetch ends, fails or finds the key set rotated. |
| `page` | What does the page ask the server to compare with, and does each run end for it? | Two papers, two jobs, one user: a check and its re-check, with another paper chosen while the first is being sent. A deadline of two ticks lies after the first answer and before the last. |
| `page_again` | Can an author run a failed check again, as the page says? | The same. Violated, see section 6. |
| `recheck` | Are copies found, words counted once, uncited copies acted on, and flags resolved only when their passage is gone? | Ten manuscripts of a few blocks, five sets of references, every pair of them checked twice: copies that overlap, repeat, span blocks, are quoted, cited or lie in the tail of a longer one; references reordered; a PDF with a running header or a reference list; a corrupt and a locked file; a text whose words another holds only as parts of longer ones, words of a common phrase, figures written as words, a header longer than its key. Lengths and thresholds are scaled down to the texts: an n-gram of two words, copies of three. |
| `pipeline` | What are a confidence, a quoted cutoff and a band worth when checks share the matcher and stages fail? | Two checks over seven manuscripts and two sizes of corpus; between them every rule of triage, every kind of match, covered passages and conflicting figures; one pair for the reranker with two candidates. The ceiling lies above the base, as in the defaults; the theorem covers both orders. |
| `shared` | What are a check's sources, warnings, full texts and vectors worth when databases, links and the model fail, wholly or after some works, and answer in any order? | Two checks, two databases, six works of which two are one paper under two titles and another has no abstract, three links of which one redirects and one is private, a cache of one link and of two sentences for three: eviction between lookup and use, the same miss twice, a load that fails under a waiting thread. |
| `coach` | Is copied text never shown, what is the daily cap worth, how often is a flag paid for when replies may be unusable? | Three checks on two threads, with two flags of one passage between them, one of them in all three; three readings of the clock with midnight before the last; a cache that loses nothing, which is when threads should not pay twice. |
| `evaluation` | Is the probe's corpus as clean as the code makes it, can its curves be read, do the verdicts follow from the data? | Sessions of three commands over two published sets of four pairs, one of them graded, in which sentences recur as positive and negative partners; corpora of one, two and more sentences than there are, near duplicates dropped or not, with and without other sets' sentences; three thresholds; a model that goes by topic, one that knows the pairs, one that knows none, one good at half, one saturated. |

The properties state what a unit test would hardly reach: they relate counters to
the tasks they stand for (`CountersExact`), a record to the run that wrote it
(`ResultIsOwn`), a deletion to its cause (`ForgottenForCause`), a quota to the
requests past the gate together (`QuotaUpToOverlap`), a quoted cutoff to the checks
that shared the matcher (`QuotesOneBeside`), every word of a long copy to a match
(`CopiesFound`), a flag said to be resolved to the text that is left
(`ResolvedForCause`), a flag paid for again to the reply that was no use
(`PaidAgainForCause`), a warning to what failed (`SaysWhatIsMissing`), a thread that
waits to one that loads (`WaitsOnlyForALoad`), a token that was accepted to when its
key was published (`KeysAreCurrent`).  `MaxTime` limits only how often the lifetimes,
windows and midnights can pass: it is at least one lifetime more than the longest
history the properties speak of.  Deadlock is not checked where the system may rest:
when every task has ended, nobody has to submit another.

## 4. Fairness

`BoundedExecutor` and `CheckRunner` assume weak fairness of each thread's next
step.  The code justifies it: no thread waits for anything but a lock that its
holder always releases, and the pool's threads block only on an empty queue.
That the pipeline returns is assumed (`Return`, `Compute`); each of its network
calls has a timeout.

`SigningKeys` assumes it of each handler's verification, which includes the end of
the fetch: the client that fetches has a timeout.  There are as many requests as
`Requests` has members, and each is verified once, so nobody starves another of the
lock for ever.  `CheckPage` assumes it of the page (a request is answered or given up
by the browser, a timer fires) and of the clock, without which no deadline passes;
nothing is assumed of the server, so `RunEnds` holds whatever it does.

Nothing is assumed of clients, authors, the operator, the provider or of the first
step of a submission: nobody has to submit, poll, rotate or shut down.  The other
modules state safety only and assume no fairness.

## 5. Theorems

All are for every value of the constants that the named assumptions at the heads of the
modules allow.

- `BoundedExecutorProofs`. The inductive invariant has five parts: types; the queue
  holds each queued task once; what is in the pool was given to it by a
  submission; busy threads are threads that were started, and the running counter
  is exact; and, until a thread could not be started, the pending counter is exact
  and capped. A cap on a counter is not a cap on tasks until the counter is related
  to the tasks, which is the last part. From it: `TypeCorrect`, `PendingWorkIsCapped`
  (the cap holds until a thread fails to start), `CapHoldsWithThreads` (where none
  does, it holds outright), `StatsAreExact`, `RunningIsBounded`, `RaisedTasksNeverRun`.
- `CheckRunnerProofs`. Every step of the service is a step of the
  executor or leaves it alone (the lemma `ExecutorStep`), so the executor's theorem holds
  inside the service: `ServiceBacklogIsCapped`, until a thread cannot be started.
  Then an invariant: types; a task the pool holds was accepted; the record of a job, if
  it is still there, agrees with where its worker stands and with the updates that raised;
  before a job runs nothing was made for it; a worker's result was made from its own
  bytes; so were the cached and the recorded ones. From it `TypeCorrect`,
  `ResultsAreOwn`, `OutcomesAreRecorded`, `MemoryRecordsOutcomes` and
  `ServiceImplementsLifecycle`, that is, that the service implements
  `JobLifecycle`: initial states map to initial states, steps to steps or stutters.
  `NothingIsForgottenWithoutCause`: needs that the in-memory store's order of insertion is
  the order of age, so that what is pushed out has `max_jobs` younger records before it.
  Then the page: `PageComparesItsOwn`, the job a submission names is one this page
  submitted of a file of that name, or the paper was changed while that one was being
  sent. Needs that what the page remembers was accepted, and that a job keeps its paper.
- `AdmissionProofs`. `ComparisonsStayWithTheirOwner`: needs that a comparison was
  allowed when it was made and that neither owner changes afterwards.
  `LedgerCountsAcceptance`: from any time on, the entries of a user are as many as their
  queued checks, those aside whose client was told that the server failed; an entry and
  the check it stands for are made in one step. `QuotaHoldsUpToOverlap` is about the queued
  checks: what a user has used in the window and what they have past the gate are together
  within the quota and the largest overlap there was, because each of those past the gate
  was let in below the quota (the sum, and neither of its parts, is inductive); and the
  checks that are not in the ledger are the failed ones.
  `WindowsHoldFewerThanTwice`: of each client, the bucket counts what was let in since its
  start, and where a stretch of one window reaches back before that start the limit was
  not used up in the part before. Sweeps and expiries only drop buckets that are over,
  which `BucketsStayRecent` says the other way round.
  Then the tokens, from which the owners of `Admission` come. `WithdrawnKeysExpire`: a key
  that is accepted was published at most a lifetime ago. Its invariant dates the cache: a
  key in it was last published no longer ago than the set is old, and a set that is still
  in use is no older than the TTL. `TokensAreAnswered`: a good token that names a key
  published all the while is refused only if a fetch of its own failed.
- `PipelineProofs`. All the invariants of the runs `pipeline` and `evaluation`. Of the
  first, `TypeCorrect`, `NothingBelowLowest`, `CutoffOfACompanion`, `ClearHoldsUpToTriage`. Two
  layers: first the shared attribute (cutoffs never fall under the lower of base and
  ceiling, in whichever order the settings put them; checks
  inside the matcher know of each other, what a check will read is one of theirs),
  then each check's counts, summary and band.
  Then the benchmark's commands (`BenchSpec`). What is on disk is absent, torn, or rows of
  known sentences, and a session's reports are a list (`Bench`); the rest is relative to it.
  `VerdictsHold`: while sets are still to come, `failed` says whether one of those before
  missed its rule (`PairsSoFar`), and so does the list of verdicts of a tuned model
  (`TunesSoFar`). Beside it what the numbers are worth: confusion counts add up to the labelled
  rows, a rounded rate keeps the order of its quotients and a whole hundredth of F1 between
  two of them means that a count differs, and the sweep's best is no worse than any
  threshold of the grid (`BestIs`).
  For a tuned model the list compares with the base model only.
  `CorpusStaysClean`: what the three loops of `build_probe_with_truth()` collect; that both
  texts of the pair a negative query was drawn with are kept out of the pools, wherever else
  they stand; and that what is left when near duplicates are dropped has no peak at the
  score or above, which is what the probe flags by.
  `CurvesHold`: a slice of a longer corpus has a top score no lower, an entry that reaches a
  threshold still does, and sums keep the order of their terms; the retrieved order, a rank
  for each sentence, is a permutation, so the whole corpus has the same rows in either; and
  the questions depend on the set and the seed alone (`Asked`). What is printed for a
  requested size is the measurement of that size, or nothing beyond the pool, so the
  threshold for a budget can be read along the sizes.
- `CoachProofs`. `NoCopiedText`: a card in the cache is clean for the passage and the
  source of its own key, a card about to be kept is clean for its flag, and the key
  of a flag determines both.
  `CapHoldsUpToLateTakes`: places of a day that were taken late are told from those taken
  in time. While the budget stands at the day, those in time are its calls and one budget
  for each late place; a late place turns the budget back to the day before, and so gives
  one more. `RefusalsAreEarned` follows from the same account.
  `PaysAgainForCause`, while the cache loses nothing: as long as a flag's card is not in
  the cache, whoever has paid for a reply of use is still about to keep it; and those who
  have and those who may yet are no more than the threads. Replies that were billed and
  could not be used are counted apart, and are not bounded. Beside it,
  an invariant of the cache: its order holds each key once, so put() has room.
- `SharedProofs`. The encoder first, for any texts (`EncoderSpec`). `NobodyWaitsInVain`:
  who holds the lock is loading. `RowsBelongToTheCheck`: every vector in the cache and
  every one looked up is that of its sentence, so the rows a check gets are those of its
  own texts in order, whatever was evicted between. Then that every step of the composition
  is a step of the encoder or leaves it alone (`ChecksUseTheEncoder`), which carries both
  over (`ChecksHaveTheirRows`, `ChecksWaitForALoad`).
  `PapersAreMerged`: the candidates of a search are a merge of what it was given, as a
  relation between a set of works and a list (each usable title once, with the longest
  abstract and all links), which does not mention the order of arrival; every prefix of
  the fold keeps it. Full texts replace the abstracts of some of them later, and of no
  others. `FullTextsAreCurrent`: wherever a task is, what it has learned and what is left
  of its links make up the first two links of its candidate, and the cache holds of a
  link what the link answered at the time of the entry. `MissingIsSaid`: the databases
  named are those that raised, or brought no usable work while an answer of theirs failed,
  which is said of the answers themselves; and at the end of the fetch the one on
  abstracts, which needs that nothing before it could have said so.
- `RecheckProofs`, the inside of a check over texts word by word. The search is a loop
  over the words, so its invariant speaks of the words before the one it has come to: what
  is reported are copies, apart from each other, and each word at which a reportable
  run of some source begins is inside one of them (`Found`). That a copy which is found is
  a copy needs its greedy length to be that of an agreement, and that a shorter one than
  `min_verbatim_words` may be stepped over by one word needs that no longer one began
  there. `CopiesAreReported` follows at the end of the loop.
  `OverviewAddsUp`: words of a sentence that overlap a copy are left out of the paraphrases,
  so the three kinds are apart, and sorting the matches neither loses nor adds one.
  `LongCopyIsActedOn`: two words in the run that are a copy's length apart cannot be in
  two copies with nothing between, so one reported copy has a whole reportable run of
  words whose text no other source includes and which lies in no common phrase: a run of up
  to `PhraseWords` words with enough function words. These two are hypotheses because the
  rules excuse such copies; a copy that is longer than the run is excused no more easily.
  Then no signal that excuses it holds, its rule is one that needs action, and the band
  says so.
  `ResolvedOnlyForCause` compares the results of two checks: of the same uploads, which
  leave nothing resolved and nothing new, and of any others, where a copy from a reference
  that kept its text and number is resolved only if its words are gone or other copies hold
  nearly all of them; moving it next to another copy can do that. Its invariant
  (`Determined`) says that what a check finds is a function of its uploads: the words the
  search comes to are the least set that holds the first and of each word the one where
  the search goes on, and the copies are those found there, no more and no fewer; so it is
  with the matches, if no source sentence is left out. What the check before left is such
  a result. Then a copy lies where its source first says its words, as of equally long
  ones the first is taken: two copies of one source with the same words have one key, and
  where the words still stand the source holds them, so all but the last few are in copies.
- `ListProofs`, on which three of them rest: induction over a set of numbers, from the
  well-foundedness of the order; that what the recursive functions and folds of the
  library compute step by step exists and is unique; and from it what filtering, joining,
  cutting and enumerating lists yield, and that counting who comes before ranks a list.
  The library's own induction theorems take an operator, which the provers cannot
  instantiate; for a set they can.

What the assumptions say: sets of actors are finite, sizes and lifetimes are natural
numbers, at least one where the settings demand it; in `Shared` the answers of
databases are lists of works, texts are lists of words, and a database is not named like
another warning; in `Recheck` an upload is
pages of blocks of items, `ngram` is not above `min_verbatim_words` (the constructor of
the matcher sees to it), and a similarity is a cosine, between -100 and 100 hundredths; in
`Evaluation` published sets are lists of rows, a tuned model is tried on at most 10000 rows
of a set (the code's limit is 3000), sizes and thresholds are positive, the score of near
duplicates is an integer, and a shuffle only moves what it is given. The order of base and
ceiling in `Pipeline` is not assumed.

Only model-checked: everything under fairness (`AcceptedEnds`, `BacklogDrains`,
`AcceptedSettles`, `VerificationsEnd`, `RunEnds`), as liveness is out of the prover's
reach. `Determined` is proved and not model-checked: the least set it speaks of is one of
the sets of numbers, which TLC cannot enumerate.

## 6. Where the code and its words part

Shown by a run whose property quotes the words:

- `page_again`: the page remembers the id of each check that was accepted before it knows
  how that one ends, and names it in `compare_to` when a file of the same name is
  submitted again. The server refuses to compare with a check that is not done, so after
  one that failed, expired or timed out, "Please run it again" (`frontend/js/check.js:295`,
  `:302`, `:338`) is answered with 404, until the page is reloaded, a file of another name
  is checked, or a check that was given up on finishes late after all.

Met while modelling, and built into the properties as the code has them:

The worker.
- When the system refuses the pool a thread, the task has been queued already: the
  submission raises, the task still runs, and it is taken out of the pending count
  twice (`worker/executor.py:51`). Hence `HardCapIfClean` and the condition in
  `CountersExact`.
- A refused submission has created its record first, and so may push an older job's
  record out of a full store (`worker/runner.py:81`).
- The lifespan shuts the executor down without waiting and closes the Postgres store: a
  check still running cannot record its outcome and stays "running" for every client
  (`app/factory.py:148`).
- A Postgres update may raise at any time, for want of a connection. The first one of a
  check stands before its `try` (`worker/runner.py:97`): the check is over and its record
  stays "queued". One that raises in the handler (`:115`, `:119`) leaves it "running". A
  thread that cannot be started leaves a "queued" record as well, as only `QueueFull` is
  caught (`:82-86`); that task runs all the same. Hence the exceptions in
  `OutcomeRecorded`, where lines 4-6 have none. A commit whose acknowledgment is lost is
  left out: the model's update that raises has changed nothing.
- `PostgresJobStore.get` deletes a row in a second statement that does not look at its
  age again, and may delete a result just recorded (`worker/postgres_store.py:127`).
- Overlapping requests of one user may exceed the quota (`app/routers/check.py:63`), and a
  check is queued before it is counted: when the ledger raises, or the pool is refused a
  thread, the client is told that the server failed, the check runs and is never counted
  (`:126-135`), whatever `worker/usage.py:4-10` says. Hence the two excesses in
  `QuotaUpToOverlap` and the exception in `AcceptedIsCounted`.
- `settings.py:9-11` bounds the memory of queued uploads; those of running checks come on
  top. `UsageLedger.sweep` is never called by the application.

Tokens and start-up.
- A token without a key id is verified with the one key that is cached, after a rotation
  with the wrong one, until the set is older than its lifetime (`app/auth.py:114-115`).
  Hence `AnswersForCause` speaks of tokens that name their key.
- A warm-up that fails once leaves `/health/ready` at 503, although the next check loads the
  model (`app/factory.py:59-63`; `deploy/README.md:39`).

The check.
- The greedy search takes the longest run at each word and goes on behind it, so the short
  rest of a second copy that overlaps the first is not reported
  (`services/plagiarism_matcher.py:342`). Hence the length in `CopiesFound`.
- Two checks share the matcher's `_last_confident_cutoff`; a report may quote another
  check's, and the reranker decides by it (`services/plagiarism_matcher.py:270`, `:312`).
  `NothingAssertedBelowLowest` says what this cannot do. No order of base and ceiling is
  validated (`app/settings.py:87-88`, `:106`): with the base above the ceiling the cutoff falls as the
  corpus grows, hence the lower of the two.
- Figures that differ keep a match in review (`services/triage.py:220-224`) only until the
  reranker scores it: that looks at its own score alone and may assert the match.
- A paper that is found twice, under two titles, makes a copy of up to 40 words from it
  look like wording that several sources share (`services/triage.py:189`). A text holds
  a copy when the copy's characters occur in it, inside longer words too (`:183`).
- The guard on figures reads "1,2,3" as one number (`services/numeric_guard.py`).
- The band "clear", whose text says that no passage matched (`services/report.py:34-36`), is
  given to reports with matches that need no action (`:80`); and when triage failed, to
  reports with verbatim copies that nobody cited, as there is no count of actions then
  (`pipeline/stages.py:247`). Hence `ClearUpToTriage`, which promises nothing of copies there.
- `compare()` keys a flag by its type, the position of its source in the upload and the
  source's text: when the encoder failed, or the references come in another order, flags
  look resolved whose words are unchanged (`services/report.py:59`). And although "moving a
  passage does not resolve it" (`:15-18`, `:151-152`), one that is moved against another copy
  may be taken in by that one, which is found first, and be resolved with its words still
  there. Hence the conditions of `ResolvedForCause`.
- A database that fails after it gave some works is not warned of, and with no database
  enabled nothing is (`services/academic_corpus.py:152`, `:186`, `:220`, `:334-336`), although
  lines 18-19 say that what is missing is surfaced. `SaysWhatIsMissing` states who is named.
- Ids of academic sources follow the order in which the databases answered
  (`services/academic_corpus.py:346`).
- Rows of a cached batch are views that keep the whole batch alive
  (`services/embedding_cache.py:95`).
- The day of the coach's budget is read outside the lock; around midnight the new day may
  get a second budget (`services/coach.py:145`). `CapUpToLateTakes` says how much more.
- The same flag may be paid for once by each thread (`services/coach.py:275`), and again for
  every reply that was billed and does not parse, as only cards are cached (`:284-297`),
  although lines 20-21 say that it never costs twice. Hence `PaidAgainForCause`.

The page.
- The paper's name is read after the upload was awaited, so the report of one file may be
  remembered under another's name (`frontend/js/check.js:339`). Hence the exception in
  `ComparesItsOwn`: the page cannot tell, and no property forbids it.

The evaluation.
- A query that stands in several pairs is drawn once, and only the partner of that draw is
  kept out of the corpus (`eval/corpus_scale.py:178-188`): another labelled paraphrase of it
  may be a distractor (`:271-274`), for a negative query counted as a false flag, although
  the docstrings at `:133` and `:178-179` say that none is. A corpus of the pools alone is
  free of labelled pairs only as far as the pools share no sentence with them.
  `CorpusIsClean` states what is kept out.
- The gate of a tuned model compares it with the model it was started from
  (`training/finetune_cross_encoder.py:122-138`). `BASELINES`, which a fine-tune should beat
  on each dataset to ship (`:45-46`), is only copied into its report (`:234`);
  `ShippedIsBetter` is about the gate.
- The retrieved mode, called a ceiling, may give a lower top score than the random one at a
  given size: it ranks by nearness to any sentence of the manuscript, and the head of the
  ranking may be near the positive queries only. `CurvesAgree` compares sizes within a mode.
- `percentiles()` is one above the nearest rank where `p n / 100` is whole and odd
  (`eval/metrics.py:120-127`).
- An interrupted fetch leaves a shorter dataset or a torn line: `run_pairs` then crashes,
  `run_corpus` skips it and exits with 0. The sample that `run_pairs` falls back on is not
  gated. The verdict on a tuned model looks at false positives at the first threshold only.

## 7. What is left

- `PostgresReplicas`: creates of several replicas that trim each other's rows in
  overlapping transactions, and a ledger shared by them; the present model is one process.
- The coach's choice of flags and its filter word by word, over the texts of `Prose`.

Not modelled, and why: how a PDF library finds blocks and how reports are drawn are pure
functions of their input without a rule of their own; the neural models, the rerankers'
numbers and their registry produce values a model checker can say nothing about, and are
constants here; settings, schemas, logging and health checks have no behaviour beyond the
constants and flags of the modules; `eval/run_numeric.py` prints tables, and
`research/` and `scripts/` hold studies that were run once and call a pipeline that is no
longer in the repository; `deploy/` and `e2e/` are configuration and browser tests.
