# A TLA+ verification of CARQ

CARQ is a document-ingestion pipeline: an HTTP API accepts documents, a durable
queue in PostgreSQL holds the tasks to process them, workers split documents
into chunks and embed the chunks. This directory holds TLA+ modules of its
parts, the TLC configurations that check them on small instances, and TLAPS
proofs about them. Paths below are relative to the package, `src/src/carq/`,
unless they start with `docs/` or `README.md` (both in `src/`).

## The system

| Component | State | Operations | Talks to |
|---|---|---|---|
| QueueManager (`queue/queue_manager.py`) | rows of `processing_tasks`: status, attempt count, worker | enqueue, dequeue (FOR UPDATE SKIP LOCKED), mark done / failed, reset stuck, bulk marks, counts | a session handed to it |
| TaskCoordinator (`worker/task_coordinator.py`) | three background loops, metrics | start, stop; poll and process a batch, recover stuck tasks, log the status | QueueManager, WorkerPool, DatabaseManager |
| WorkerPool (`worker/worker_pool.py`) | handlers by task type, active tasks | process a task under a timeout, stop | the handlers |
| Pipeline handlers (`worker/runner.py`) | rows of documents, chunks, embeddings | parse_pdf, chunk_document, embed_chunk, progress of the document | dispatcher, VectorStore, QueueManager, a session of their own |
| DatabaseManager (`core/database.py`) | engine, session factory | get_session: commit, rollback, close | PostgreSQL |
| API (`api/router.py`, `main.py`) | none of its own; windows of the rate limit | ingest, status, list, retry, search | the same tables |
| CircuitBreaker (`queue/circuit_breaker.py`) | state, counters, time of opening | call, reset_all | the protected function |
| RateLimiter (`queue/rate_limiter.py`) | token buckets, an event | acquire, wait_for_tokens, reset | the dispatcher |
| Retry policy, dispatcher, cache (`queue/backoff_strategy.py`, `embedding/`) | counters, Redis entries | execute_with_retry, embed, get / set | OpenAI, Redis |
| ErrorHandler (`monitoring/error_handler.py`) | a `dlq` mark in the attributes of a task | scan, replay, handle_exception | the task rows |
| Chunker, validator (`pdf/`) | texts already seen | chunk, validate | pure |
| CLI client (`cli/client.py`) | none | requests with retries, polling | the API |

What makes the core correct:

* **Queue.** A task is run by one worker at a time; an outcome is final, and DONE
  is backed by work that was done; attempts are counted and limited; no task is
  left where nobody looks for it; every task is settled in the end.
* **Pipeline.** Chunks, tasks and embeddings agree although every handler
  commits separately from the outcome of its task; the status of a document
  follows from its tasks.
* **Breaker.** The service is spared while it is down and probed a limited
  number of times; every state has a way out.
* **Embedding service.** What is taken out of a bucket is bounded, a wait is bounded and
  refused for a reason; a vector belongs to its text; every request ends.
* **Dead letters.** A replay reopens a task once, with all its attempts, and never
  under the hands of a worker.
* **Front door.** A client is not told of a failure that its own retry caused, without
  a fault to blame; a counted window lets through its limit, whoever counts.
* **Text.** No letter is lost but those of pieces too short to be a chunk, no chunk is
  longer than the limit and one character, no near duplicate is accepted.

Some of this is not so: "Runs" lists what TLC refutes.

What makes it hard: two transactions per task (claim and handler), of which a
crash, a timeout or a lost connection may keep one; workers that interleave in
PostgreSQL under READ COMMITTED, with row locks; objects read into a session
before an `await` and compared after it; outcomes that are recorded after the
state they belong to has passed; sleepers that look at a shared bucket again after
others have; caches and counters that fall back when Redis is away. The list is in
`PROJECT.json`, "hazards".

## Modules

| Module | What it is | Runs with | Proofs |
|---|---|---|---|
| `TaskLifecycle` | abstract specification of the committed task rows | refined by `TaskQueue` | `TaskQueueProofs` |
| `TaskQueue` | QueueManager, TaskCoordinator, WorkerPool | `MCTaskQueue` | `TaskQueueProofs` |
| `DeadLetters` | ErrorHandler and its operators; extends `TaskQueue` | `MCDeadLetters` | `DeadLettersProofs` |
| `Pipeline` | documents and chunks, handlers, the API; extends `TaskQueue` | `MCPipeline` | `PipelineProofs` |
| `CircuitBreaker` | one circuit breaker and its callers | `MCCircuitBreaker` | `CircuitBreakerProofs` |
| `RateLimiter` | the token bucket of a provider and its waiters | through `EmbeddingService` | `EmbeddingProofs` |
| `EmbeddingService` | dispatcher, retry policy, cache, provider; extends `RateLimiter` | `MCEmbedding` | `EmbeddingProofs` |
| `ApiGateway` | the CLI client, the rate limit middleware, POST /documents | `MCGateway` | `GatewayProofs` |
| `Chunking` | SemanticChunker and ChunkValidator | `MCChunking` | `ChunkingProofs` |
| `Recursion` | lemmas: induction and recursion over an interval of the naturals | - | itself |

Definitions named `Bug...` are not part of any specification: each is a plausible
mistake in the definition that follows it, and TLC finds a property of the runs
violated when it takes the place of that definition (`PROJECT.json`, "mutants").

### TaskQueue

`row[t]` is the committed row of task t. A claim transaction is the function
`own[c]`: the rows coordinator c has written and not committed; its domain is
what c has locked. `tx[c]` says whether that transaction is idle, open or lost
(the database rolled it back and the coordinator does not know yet). `todo[c]`
and `run[c]` are the loop of `_process_tasks`. `applied[c]` and `effect[t]` record
that the handler's own transaction has committed, `starts[t]` counts handler
executions.

| Code | Action |
|---|---|
| `enqueue_task` | `Enqueue`, and the tasks `new` of `HandlerCommit` |
| `dequeue_task` | `Claim`: the batch is one that ORDER BY, LIMIT and SKIP LOCKED allow; `Poll` when there is none |
| `process_task`, `execute_task` | `StartHandler`, `HandlerCommit`, then `MarkDone` or `MarkFailed` |
| `mark_task_done`, `mark_task_failed` | `AfterDone`, `AfterFailure`, written by `Record`: into the open transaction, committed at once by a shared session, refused by a lost one |
| end of `async with get_session()` | `EndIteration` |
| `reset_stuck_tasks` | `ResetStuck`: any subset of the PROCESSING rows it can read and lock (the age of rows is not modelled) |
| a worker dies or is stopped; a claim connection is lost | `Crash`, `LoseConnection` |

`IsolatedSessions` selects the mode of the coordinator: TRUE is what
`carq-worker` runs (`db_manager` given, one transaction per iteration), FALSE the
legacy shared session (a commit per task). The code restricts the latter to one
worker (`task_coordinator.py:130`), and so does `QueueAssumption`.

### Pipeline

Every action is an action of `TaskQueue` with what it does to documents, chunks
and embeddings, so everything said of the queue is said of these behaviours too,
except for the retry request, which only exists here. `seen`, `failing` and
`touched` are the document side of a claim session (what was loaded with the
tasks, what will be committed, what is locked). `loaded` is the document as the
session of `embed_chunk` shows it: it is loaded together with the chunk, before
the embedding is awaited, and decides later whether a status is written.
`embed_chunk` is split where other sessions can come in: `EmbedInsert` (insert and
computed progress) and `EmbedCommit`. `RetryRead`, `RetryFlush`, `RetryCommit` are
the phases of `POST /documents/{id}/retry`, which waits for row locks in between.

Three constants keep apart what the code *intends* from what the installed
libraries make of it, so that later defects are not hidden behind earlier ones:

* `Autoflush`: the worker's sessions have `autoflush=False` (`core/database.py:67`);
  the test fixtures use the default, TRUE.
* `EnumRows`: in tests `task_type` is a `TaskType`; rows read from the String(50)
  column carry a plain string.
* `CutCommits`: whether a task timeout may hit the COMMIT of the handler.

The shipped worker is Autoflush = FALSE, EnumRows = FALSE. With EnumRows = FALSE
no success is ever recorded, so the run `pipeline`, which asks what a recorded success
says of a document, sets both to TRUE: it is about the code as its tests run it. Every
other run of `Pipeline` has the shipped values.

### DeadLetters

ErrorHandler on top of `TaskQueue`, whose actions all go on around it. `Scan` is
`scan_and_move_to_dlq`, `List` is `get_dlq_entries`, `ReplayTask` and `ReplayAll` load
the rows, `ReplayCommit` is the flush, which waits for row locks, and the commit.
An operator keeps `entries` as long as it likes: `replay_task` does not look at the
status of the row, so an old entry may reopen what was replayed, claimed or even
finished since. An UPDATE carries only the columns that differ from what was
loaded (`Replayed`). What the modelling showed about marks: `scan` and `replay` change
the loaded `attributes` dictionary in place, so SQLAlchemy sees no change of the
plain JSON column. For tasks with attributes, as all tasks of this program are,
the mark is never stored, each scan reports the same rows again and
`get_dlq_entries` of a later session is empty; only `Plain` tasks, as the tests use,
are marked. Nothing in `src/` calls ErrorHandler yet.

### CircuitBreaker

Each part of `call` that holds the lock is one action (`Admit`/`Reject`, then
`Succeed`/`Fail`/`Cancel`); the body has no other suspension point, so this is
exact. `flight` remembers in which period a call was admitted. The counters are
only compared with `>=` and saturate at their thresholds, which loses nothing.
Time is the bit `expired`. `Recover` is the environment: from then on calls succeed.

### RateLimiter and EmbeddingService

A tick is the time in which the bucket gains one token. `tokens` is the bucket as
of its last refill and `age` the ticks since. Every method holds the lock without
suspending and is one action; `wait_for_tokens` is split at its sleep. The event
`_tokens_available` is set by nobody, so a sleep lasts its full estimate and a
margin (`Nap`). `credit` is a history variable: what an ideal bucket of twice the
capacity has left when it is charged for what is taken (`Charged` says whether also
for what waiters are promised). Twice, because `consume` does not refill. Only
`consume` and `acquire(wait=False)` take tokens, and nothing in `src/` but tests calls
these; the dispatcher waits and takes nothing. So `WithinBudget` is a promise of the
class to callers that charge themselves, not of the service to its provider, and
`NoOverdraft`, which charges those that wait, is false.

`EmbeddingService` puts requests in front of it: `POST /embed` (cache, dispatcher,
store), `POST /embed-batch` (sub-batches), `POST /search` and the worker (no cache,
may be cancelled by a timeout), and the helper `retry_with_backoff`. `job` is the place of a
request in its code: waiting for tokens, calling, in backoff, storing, ended. The
vector of a text is the text itself, which is all `VectorsMatch` needs; `model[r]` is the
embedding model the request names, and `maker[t]`, `origin[r]` remember which model computed
what the cache and the request hold. Backoff
doubles up to `max_delay` (`Delay`) and lasts any number of ticks the jitter allows. Redis is absent (the lifespan of
`main.py` never connects the cache), up or down, and changes between any two steps;
entries expire at any time.

### ApiGateway

One `carq ingest` against several API processes: `make_request` with its retries and
pauses, answers lost or late, the middleware with its Redis counter and the
in-process fallback, the unique index behind POST /documents, then polling.
`server[a]` is what became of attempt a, which may still run when the client has
given up on it. A database error is answered with 500 whether the COMMIT was rolled back
or had reached the database (`IngestFails`); `unsure` remembers the latter. `byRedis` and `byLocal` record what each counter let through.
Refused requests are counted too, as in the code.

### Chunking

The loops of `SemanticChunker.chunk`, one action per turn, and `filter_valid_chunks`
over the result. `stage` says which loop is running:

| `stage` | Code | Actions |
|---|---|---|
| split | `_split_semantic`, its paragraphs | `FitParagraph`, `BreakParagraph`, `EndOfText` |
| sentences | its sentences, of a paragraph that does not fit | `AddSentence`, `EndOfParagraph` |
| enforce | `_enforce_chunk_size` | `Merge`, `Drop`, `Keep`, `SplitLarge`, `Finish` |
| cut | `_split_large_chunk` | `Cut`, `LastPiece` |
| validate, done | `filter_valid_chunks`, `reset_duplicates` | `Validate`, `Reset` |

A text is a sequence of words, each with its length and the gap in front of it, which is a
sequence of blanks and newlines: `_clean_text` turns runs of blanks and tabs into one blank but
leaves newlines (`pdf/semantic_chunker.py:119`). Gaps count in every length; `rfind(" ")` sees the
blanks only; sentences are joined by one blank whatever was between them. `EndOf` gives the
place where each word ends, `StartOf` where it begins. A word that is cut keeps its identity and an offset, so that the letters of a
text are known (`Letters`) and "no letter lost, in order, once" can be said. Sums over words and texts are recursive functions
over an interval, not recursive operators, so that they can be reasoned about.
`Similarity` is the Jaccard measure of the code in percent.

## Runs

| Run | Instance | Shows |
|---|---|---|
| `queue` | 2 tasks, 2 coordinators, batch 2, 2 attempts, 1 crash, 1 lost claim | exclusive execution, no invented outcome, coordinators and rows agree (`ClaimConsistent`), `ExecutionBound`, refinement of `TaskLifecycle`; every task settles |
| `queue_shared` | 3 tasks, one coordinator with a shared session, crash, lost claim | what remains true in the legacy mode: finished rows stay finished, executions are bounded |
| `dead_letters` | 2 tasks (one with empty attributes), 1 worker, 2 operators, 2 replays | replays strand no task, grant a bounded number of executions, and reopen a DONE row only from an entry older than another replay |
| `pipeline` | 1 document of 2 chunks, 2 workers, flushing sessions and enum rows (not the shipped ones), crash, lost claim, cut commits | `DoneIsComplete`, `NoForgottenChunk` |
| `pipeline_live` | shipped sessions and rows, a retry request | the request grants no execution (`ExecutionBound`); every task settles, if only as FAILED, unless the retry leaves it PENDING with its attempts used up (`pipeline_retry` shows that it does) |
| `breaker` | 4 callers, thresholds 2 / 2, 3 probes, two cancelled calls, a reset | `WedgedOnlyByCancels`, `ClosedBelowThreshold`, `ClosesOnEvidence`; the breaker closes for good once the service is healthy, unless cancelled probes have wedged it |
| `embedding` | 1 request at a time, 4 attempts, 2 texts, sub-batches of 2, capacity 3, delays up to 2 ticks, others taking tokens, flapping Redis, failing provider | a bound on what is taken from the bucket, bounded waits, refusals for a reason only, right vectors, paid vectors delivered; every request ends |
| `gateway` | 2 processes, limit 2, window of 2 ticks, 3 tries, 2 polls | `WindowBound`, `FailureExplained`, `RetryAfterHelps` |
| `text` | 18756 documents of up to 3 small paragraphs over four kinds of words and gaps of one blank, a line break, or as wide as a word | `SizeBound`, `KeptUnlessShort`, `AcceptedDistinct` |

Disagreements between the code and what is said about it, each with a run that
TLC refutes (quotes in `PROJECT.json`, "findings"):

| Run | What TLC finds |
|---|---|
| `pipeline_retry` | the retry request keeps `attempt_count`: the task it is there for becomes PENDING and is never claimed |
| `breaker_wedged` | two cancelled probes, with the shipped three probes and two successes, leave HALF_OPEN for ever |
| `embedding_overdraft` | callers that waited for tokens do not take them (`wait_for_tokens` returns without consuming): with their admissions charged the budget is overdrawn, though the docstring says that the method prevents this |

Four more configurations are kept beside the runs of `PROJECT.json`. TLC refutes each in
seconds (`tlc -config MCPipelineFailed.cfg MCPipeline`, and so on):

| Configuration | Property | What TLC finds |
|---|---|---|
| `MCPipelineFailed.cfg` | `FailureIsReal` | task types are read from a String column, so `task.task_type.value` (`worker/worker_pool.py:91`) raises after the handler has committed: every success is recorded as a failure, repeated, and FAILED in the end |
| `MCPipelineNeverDone.cfg` | `CompletedDocument` | `embed_chunk` queries the progress of its document in a session with `autoflush=False` before its own chunk is written (`worker/runner.py:112`): the last chunk is committed as DONE and the document is not |
| `MCTaskQueueHung.cfg` | `Settles`, if one worker may hang | a worker that hangs keeps its tasks: recovery looks for committed PROCESSING rows (`queue/queue_manager.py:231`), and with isolated sessions no claim is ever committed as one (`ClaimsHidden` proves it); the guide promises that stuck tasks are found and put back (`docs/GUIA_DE_USO.md:388`) |
| `MCEmbeddingModel.cfg` | `ModelMatches` | the key of the cache is the text alone (`embedding/embedding_cache.py:86`): a request for one model is answered with the cached vector of another, under the name of the one it asked for (`api/models.py:59`) |

What else the modelling showed:

* With autoflush, two workers that embed the last two chunks at the same time
  still leave the document EMBEDDING, and a later chunk overwrites FAILED.
* Work committed before a crash makes its repetition fail on the unique indexes,
  up to FAILED: also with enum rows, FAILED does not say that the work was not done. No
  property of a run is about this direction; `FailureIsReal` is refuted (above).
* With the shared session and one crash `NoStranded` fails too (`queue/queue_manager.py:235`).
* The documented limit of three executions (`docs/GUIA_DE_USO.md:363`) is exceeded
  after a crash or a lost claim, which takes the counted attempt back;
  `ExecutionBound` says by how much.
* More cancelled probes than half_open_max_calls exceeds success_threshold by wedge
  the breaker; with the default numbers that is two in one half-open period, and
  nothing in the code limits how many are cancelled. Nothing in `src/` calls a breaker yet;
  inside a handler, the timeout of the worker would cancel such calls.
* A request for more tokens than the capacity waits its whole `max_wait` and is
  refused; a text of 10000 characters, which the API accepts, is one against the
  default bucket.
* A text the validator has rejected is still remembered as seen, so that a later one can
  be refused as its duplicate. `AcceptedDistinct` does not see this.
* A dead-letter mark of a task with attributes is lost (above). `ReopenedByReplay` says what a
  replay may do nevertheless, not that the mark is there.
* `start_char` of a chunk can overshoot after hard cuts. A document longer than a chunk can
  yield none at all: "Hi.", a gap of many line breaks and "Bye." is split into sentences,
  because the gap counts, and the sentences alone are too short to be kept.

### Bounds

`MaxCrashes`, `MaxLosses`, `MaxRetries`, `MaxReplays`, `MaxCancels` and `MaxResets` bound
faults and operator requests, at 0 to 2 as the run's question needs; `MaxRequest` and
`Batch` bound what embedding requests ask for, `Documents` the texts. Everything else
is finite by itself or capped where more makes no difference (`waited`, `age`,
`localAge`, `quiet`, the counters of the breaker and of the windows). Two
coordinators are what a race needs; a batch of two, with two or three tasks, has
a task before, inside and behind the one that is run. With two attempts a task
fails, is retried (plainly or after a fault), and fails for good. Two chunks are the
least for which "the last chunk" and "another chunk" differ. Four callers exceed the
three probes of a half-open period. Capacity 3 with texts of 1 and 2 tokens has requests
that fit, that must wait, and (a batch of 4) that never fit; others rob a waiter at
any time. One request at a time is enough for what is said of it: other requests touch
it only through the bucket, where `Outside` does as much, and through the cache, which it reads
once, when it arrives; and the proofs are for any number of callers. `RequestsEnd` needs it: with two, TLC would
have the second arrive and be cancelled for ever at one instant, so that no time passes. A limit of 2 with 3 tries makes one invocation meet its limit by itself. The
words of `text` have 2, 4, 3 and 19 letters with chunks of 5 to 9: sentences
that fit, that must be split, and words longer than two chunks; the widest gap has five
characters, of which two are blanks. Two cancelled calls are as many as the wedge takes
with the shipped half-open numbers. Two embedding models are needed, and enough, for a cached
vector to be another model's (`MCEmbeddingModel.cfg`); the runs of the service have one.
Symmetry permutes coordinators, callers, processes or operators, in runs without
liveness.

### Fairness

`FairSpec` asks weak fairness of `Step(c)`, all steps of one coordinator other than
polling in vain: the loop catches every exception and goes on, `wait_for` bounds
each handler (a handler that hangs is ended by `MarkFailed`), and the session
context manager always ends the transaction. Nothing is asked of handlers'
commits, of recovery, or of faults. A claim can only be postponed by locks, and
locks end with iterations. That a worker as such goes on is an assumption about
its machine: `Survivors(S)` asks it, and that recovery runs, of the workers in S only, and
`OneHangs` in `MCTaskQueue` leaves one out, which is the situation recovery is documented for.
`PFairSpec` asks the same of the pipeline, and that a
pending retry request ends. `CircuitBreaker!FairSpec` asks that calls end, that
the timeout passes, and that clients go on calling: the breaker itself has no
timer, it only moves when it is called. `EFairSpec` asks that time passes, that a
request whose sleep is over goes on, and that a call of the provider returns
(the client library has a timeout); it asks nothing of Redis, of other users of
the bucket, or of the provider's success.

## Proofs

All theorems hold for every value of the constants that satisfies the named ASSUMEs.

| Module | Theorem | States |
|---|---|---|
| `TaskQueueProofs` | `TypeCorrect` | `[]TypeOK`, both session modes |
| | `ExclusiveExecution` | `[]ExclusiveRun`, both session modes |
| | `NoInventedOutcome` | `[]DoneHasEffect`, both session modes |
| | `ExecutionsBounded` | `[]ExecutionBound`, both session modes |
| | `RowsOnlyAdvance` | `RowsAdvance`, both session modes |
| | `ClaimsHidden` | `[]HiddenClaims`, which is about isolated sessions: why recovery has nothing to find |
| | `ClaimsConsistent`, `NothingStuck` | `[]ClaimConsistent`, `[]NoStranded`, isolated sessions |
| | `Refinement` | `TaskQueue` implements `TaskLifecycle`, isolated sessions |
| `PipelineProofs` | `PipelineTyped` | `[]PTypeOK` |
| | `DocumentsComplete` | `[]DoneIsComplete` |
| | `RetriesKeepClaims`, `RetriesInventNothing`, `RetriesGrantNothing` | `[](ClaimConsistent /\ ExclusiveRun)`, `[]DoneHasEffect`, `[]ExecutionBound`, with retry requests |
| | `ChunksRemembered` | `[](retries = 0 => NoForgottenChunk)` |
| | `PipelineImplementsQueue` | without retries, `PSpec` implements `TaskQueue` and `TaskLifecycle` |
| `DeadLettersProofs` | `DeadLetterTypes`, `ReplaysBounded` | `[]DTypeOK`, `[]ReplayBound`, both session modes |
| | `ReplaysKeepClaims`, `OnlyReplaysReopen` | `[](ClaimConsistent /\ NoStranded)`, `ReopenedByReplay`, isolated sessions |
| `CircuitBreakerProofs` | `BreakerTypes`, `ClosedIsBelow` | `[]TypeOK`, `[]ClosedBelowThreshold` |
| | `ClosesWithEvidence` | `ClosesOnEvidence` |
| | `OnlyCancelsWedge` | `[]WedgedOnlyByCancels`, for any number of cancelled calls |
| `EmbeddingProofs` | `BudgetKept` | `[]WithinBudget` for `LimiterSpec`, waits not charged |
| | `WaitsBounded`, `RefusalsExplained` | `[]WaitBound`, `[]RefusedForReason` for `LimiterSpec` |
| | `RequestsWaitWithinBounds` | `[](WaitBound /\ RefusedForReason)` for the whole service |
| | `VectorsOfTheirTexts`, `PaidIsAnswered` | `[]VectorsMatch`, `[]PaidAnswered` |
| | `ServiceTypes` | `[]ETypeOK` |
| `GatewayProofs` | `GatewayTypesHold` | `[]GTypeOK` |
| | `RetriesHarmless` | `[]FailureExplained` |
| | `WindowsBounded`, `WaitingHelps` | `[]WindowBound`, `RetryAfterHelps` |
| `ChunkingProofs` | `ChunksBounded` | `[]SizeBound` |
| | `NothingElseLost` | `[]KeptUnlessShort` |
| | `DuplicatesRefused` | `[]AcceptedDistinct` |

**Queue.** Mutual exclusion is not inductive, because it depends on why a second
coordinator cannot claim the row. `ClaimConsistent` is that reason: locks of open
transactions are disjoint and cover the batch (`todo` and `run`), the committed row
under a lock is still the claimable row that was read, the uncommitted row differs
from it by exactly one attempt and by the outcome. With types (`ClaimCore`) it is
inductive for isolated sessions whatever others do to unlocked rows, which is why the
same lemmas serve retries and replays. `ClaimInv` adds what only the queue itself
keeps: committed rows are never PROCESSING, and one that waits has an attempt left
(`CommittedRows`). A lost transaction holds nothing, which is why `ExclusiveRun` excepts it.
`EffectInv` carries the link from a DONE row, committed or not, to the handler's commit.
The refinement maps PROCESSING and RETRYING to "waiting" and every `EndIteration` to one
`Settle` of the rows it held; all other steps stutter or submit.

`ExecutionBound` compares a count that grows when a handler starts with attempts that are
counted at the claim, but only committed later or not at all. `ExecInv` balances the
account: `Unheld(t)` are the coordinators that are still going to start t without
having a lock on it, `Started(t)` those that have started it under a lock whose attempt is not
committed; starts plus the former are at most the attempts, crashes and losses plus the
latter. Every step moves one coordinator in or out of these sets and pays for it
(`Balanced`).

In the shared mode a row can be PROCESSING in the table, and be put back to PENDING by the
recovery while its handler runs. `SharedInv` says what the one session of that mode still
knows: no row of its batch has been settled, so that its outcome never overwrites another.

**Pipeline.** `embed_chunk` decides before it commits. `CompleteInv` says why the
decision is still right then: a chunk that is DONE has its embedding and is never
taken back (`ChunkCommit` finds all chunks absent), so "every other chunk is DONE",
read at the insert, stays true while the handler goes on. That proof needs
`PipelineAssumption` (chunks have tasks of their own) and `NoTask \notin Task`, and no
fact about claims: it holds whatever the claim transactions do. The other theorems rest on
`PInv`: `Links` says that a chunk exists exactly when its task does, and that whatever is
claimed or retried belongs to a document. A retry writes only rows nobody has locked,
so `ClaimCore` survives it; `CommittedRows` does not (it may leave a row waiting with its
attempts used up), so that `ChunksRemembered` is about the time before the first retry
(`Unretried`), where the run `pipeline` checks it too. Without retries every step is one of
`TaskQueue` or leaves its variables alone, so its theorems carry over by refinement.

**Dead letters.** `DeadInv` says what is true of an entry of any age: its task has been FAILED, or
has been replayed since, and what was read of it is a settled row. A replay resets
the attempts; so `CommittedRows` survives, and with it `NoStranded`, which a retry breaks.
`ReplayInv` is `ExecInv` with `MaxAttempts` more for every replay.

**Breaker.** `BreakerInv` ties the counters to the state: below its threshold while
CLOSED, and while HALF_OPEN `good` is the success counter, with one more needed.
`ProbesAccounted` counts the probes of a half-open period: each that was admitted is
still out, was counted as a success, or was cancelled (`spoiled`). With no probe out and the
limit reached, successes and cancellations make up the limit: the successes being too
few, the cancellations of this period are more than the limit exceeds the success threshold
by. That is `WedgedOnlyByCancels`, which bounds cancelled calls by nothing; that they do occur
is the run `breaker_wedged`.

**Limiter and service.** `Budget` is `tokens + age <= credit` (`BudgetCovers`) with types:
the ideal bucket never runs behind the real one, refilled or not; it is about callers that take
tokens. `WaiterInv` follows a
waiter from its estimate to its sleep: what it has waited and will sleep stays within the
bound, and when it wakes unrobbed the bucket has gained what it lacked. Both are invariants of
`LimiterAction`, the steps of the bucket for requests of any number of tokens, and every
step of the service is one of these or leaves the bucket alone. For this a request must ask
for a number of tokens, which is a sum over its texts: `TokensCounted` shows it with
`Recursion`. `ServiceInv` says for every place a request can be at what it has in hand, and
`Attempts` that nobody sleeps after the last attempt.

**Gateway.** As long as no answer was lost and no commit succeeded unseen, only the current
attempt is at the server (`AnswerOutstanding`), and who created the document knows
(`MineExists`): an error about one's own document needs one or the other. The unique index is what
makes an unneeded repetition an error, so both do harm. `WindowInv` relates what each counter has let through to
its count. A window of a process that began before the clock's has spent its own count; one
that began after it has its own limit on top of its predecessor's, hence twice the
limit. Who was quiet for longer than the clock's window is counted nowhere.

**Chunking.** `ChunkInv` says that a text larger than a chunk is a single sentence
(`Manageable`), the only thing `Cut` knows how to cut, and `BeforeFits` that the cut leaves
at most `SplitPoint` characters before it, wherever in a word or a gap it falls. The
merge of a short chunk adds two characters to a sum below the limit: hence the one
character in `SizeBound`. `Upcoming` says that what is to do is the end of the document. `DistinctInv` says that every accepted text is
remembered.

`KeptUnlessShort` is about letters, each named by the place of its word in the document and its
place in the word, and about their order (`Earlier`). `LettersInv` strengthens it: while the text
is split, the chunks closed so far and the current one hold in order exactly the letters of the
paragraphs and sentences that were seen (`Held`, `DoneLetters`, `PartLetters`); while sizes are
enforced, result and queue hold together, in this order, all letters of the document but the
dropped ones. Its core is the cut: `CutLetters` finds the words k and m between which
`Before` and `After` cut, in a gap of any width (m = k + 1) or within a word (m = k), and
`Division` that two sequences which share out a third in this way share out its letters, in
order.

**Recursion.** The library's induction theorems take a predicate as a parameter, which none of the
provers can instantiate. `Recursion` states induction over an interval with a set in its
place (`LeastNumber`, from the well-foundedness of < on Nat), and that a function
defined by recursion over an interval exists and has the values the definition says
(`IntervalRecursion` and `RunExists`, with the steps as a function). The lengths of sentences, the joining of texts, the
tokens of a request and the doubled delays rest on it.

Only model-checked, and why:

* All liveness (`Settles`, `SettlesUnlessSpent`, `Recovers`, `RequestsEnd`): beyond the prover.
* The refutations, which are single behaviours.
* `NoForgottenChunk` after a retry and `NoStranded` with the shared session are false.

## Assumptions about what is outside

PostgreSQL: READ COMMITTED, row locks until the end of the transaction, SKIP
LOCKED, unique constraints that wait for uncommitted inserts, and a deadlock
detector that may end any of the transactions involved (`LoseConnection`,
`RetryAbort`). It is assumed to accept the claim query, although the eager join to
the document puts FOR UPDATE over an outer join, and the driver to accept aware
timestamps in naive columns; foreign-key checks do not conflict with updates of
the status of a document. SQLAlchemy: a session shows an object as it first
loaded it; only attributes that differ from the loaded value are written.
Redis: INCR and EXPIRE are one step of the middleware's pipeline; any call may fail.
asyncio: a coroutine is only interrupted at an `await`, so that a method which holds
its lock without one is a single step.

## Not modelled

* One pool per coordinator (what `run_worker` builds); the bulk variants of the
  mark operations, which nothing calls; metrics, the status loop and the
  assignment table, which nothing reads.
* The age of rows, the duration of handlers, the size of the connection pool.
* Priorities beyond a fixed order of the tasks, metadata, error texts.
* In the legacy mode: a session in error that is never rolled back is modelled
  (`Poll` with a lost transaction), but nothing is claimed about it, and the
  failure of a bulk flush in other loops is not.
* A handler that waits for the document row its own coordinator has locked waits
  until the timeout; the model reaches this state and leaves it by `MarkFailed`.
* `ErrorHandler.handle_exception` (no caller), which sets FAILED below the limit too, and
  the row locks of a replay between its first UPDATE and its commit.
* Costs, statistics and the model table of the dispatcher; `get_batch`, `set_batch` and
  `get_or_embed` of the cache (no callers); limiters of several
  providers; the fixed and linear backoff strategies, which nothing selects.
* The registry of circuit breakers, a dictionary by name.
* More than one client of the gateway: the counters are kept per client.
* Health checks, metrics, request logging (observation only; readiness asks the
  database alone, although its docstring also names Redis), configuration, exceptions,
  the PDF library, the read-only commands and endpoints.

## Plan

1. Done: `TaskLifecycle`, `TaskQueue`, `Pipeline`, `CircuitBreaker`, `RateLimiter`,
   `EmbeddingService`, `DeadLetters`, `ApiGateway`, `Chunking`, and the proofs above: every
   safety property of the passing runs is stated by a theorem.
2. Models left: the life cycle of a coordinator (start, stop with cancelled loops,
   several pools).
