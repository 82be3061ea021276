# Formal model of the document dispatcher

TLA+ modules, TLC runs and TLAPS proofs for the service in this repository: it
takes documents over HTTP, has an AI provider transcribe every page through a
Redis queue, falls back to MuPDF, and assembles the pages into a result text.
Source references below are relative to `src/`.

How to run (in this directory):

    tlc -workers 2 -config Dispatcher_faults.cfg MCDispatcher
    tlapm DispatcherProofs.tla

`PROJECT.json` lists every run, its properties, and the source lines each
definition stands for.

## 1. The system

One process (`cmd/app/main.go`) holds an HTTP server, N worker goroutines and a
mover goroutine. Everything that lasts is in Redis; results are in S3 or in
local files.

| Component | State | Operations | Talks to |
|---|---|---|---|
| Redis queue, `internal/queue/redis.go` | stream and consumer group with pending list, delayed ZSET, dead-letter stream, cancelled set, idempotency keys | EnqueueAI, DequeueAI, Ack, EnqueueDelayed, AddDLQ, CancelJob, IsCancelled, IsIdemDone, MarkIdemDone, moveOnce | called by handlers and workers; its mover runs by a ticker |
| Dispatcher, `internal/dispatcher/worker.go` | per worker: the entry in hand | the loop: dequeue, check, process, report, retry or dead-letter | queue; HTTP to the same process (`/internal/page_done`, `/internal/page_failed`) |
| Limiter, `internal/limiter/limiter.go` | semaphore per provider:model (process), breaker time and failure count (Redis) | IsOpen, Open, Close, Allow/release | called by processPage |
| Orchestrator, `internal/orchestrator/orchestrator.go` | the job's status hash, page texts, result | submit (API, upload), page_done, page_failed, job_done, cancel_job, progress, download | status and page stores, queue, S3, converter |
| Text-only goroutines (same file) | pages read, temporary files | download, detect, convert, extract, store | status store, S3, converter, MuPDF |
| Status/page stores, `internal/store/*.go` | Redis hashes; the index from a file's id to its last job | Set, Get, SavePageText, AggregateText, SetFileJobMapping, GetJobByFileID | |
| Converter, `internal/converter/libreoffice.go` | semaphore, child processes, output files | ConvertToPDF, Shutdown | handlers, goroutines |
| File type detection, `internal/filetype/detector.go` | none | Detect, RequiresConversion | goroutines, upload handler |
| S3 storage, `internal/storage/s3.go`, `orchestrator/s3save.go` | the objects | DownloadFile, UploadFile, SaveAggregatedTextToS3 | goroutines, handlers |
| MuPDF extraction, `internal/mupdf/gofitz_extractor.go` | none | GetPageCount, ExtractTextByPage | goroutines, handlers |
| Temporary files, `orchestrator/cleanup.go`, `pagecount.go` | files by prefix | CleanupTemps, downloadS3ToTemp, downloadHTTPToTemp | run by a finished AI job |
| AI clients, config, logging, metrics, dashboard | none the properties need | | |

What is hard about it:

* **Interleaving.** Workers, the mover, request handlers, goroutines and, with
  more than one process, other movers act on the same Redis keys, one round trip
  at a time. The status hash is changed by reading, modifying and writing all of
  it; the idempotency check is a read before and a write after a provider call;
  the mover reads and moves in two round trips.
* **Failures that are dropped.** Nearly every error of a Redis write and of the
  report over HTTP is assigned to `_`, and the next step follows anyway.
* **Crashes.** An entry in the pending list is read by nobody again; workers
  die with the process at any step; on SIGTERM the HTTP server that workers report
  to goes first.
* **Retries and budgets.** The attempt number travels in the message; the
  provider cascade has its own rules of what may follow what.
* **Processes that outlive their caller.** A conversion's timeout kills a wrapper;
  the office program behind it goes on and writes its output later.
* **Shared places.** Jobs of the same file store their text in the same object and
  share one index entry; all jobs share one temporary directory.
* **Numbers.** The cooldown doubles in a 64-bit integer without a limit; a
  page count may come out as zero; padding depends on the length of the text.

What makes each part correct:

* queue and dispatcher: no page is in two places, reported twice, retried beyond
  its budget, given up before it is used, or forgotten; in the end each page is
  reported;
* limiter and cascade: slots balance, no model is asked twice, every step brings an
  attempt closer to its end, it fails only after both engines, and opening a breaker
  starts a cooldown;
* orchestrator: counts never run ahead of the reports, success means that every
  page is accounted for as the workers settled it and its text is in the result, and it
  is not taken back;
* text-only extraction: success has the whole text, progress does not fall, the
  document is there while it is read and gone afterwards, and the job ends in some
  final state;
* converter: every place taken is given back, a success never names half an output or
  none, and a call returns whatever the office processes do;
* storage and delivery: what was stored under a password reads back under it, a wrong
  password does not look like success, and a client that polls a known file is told
  its state.

## 2. Modules

| Module | Stands for |
|---|---|
| `RedisQueue` | the queue: its keys as variables, every method as one atomic effect on them, the mover as two |
| `Dispatcher` | EXTENDS RedisQueue; the worker loop with one action per round trip, the clients' submissions and cancellations, shutdown, crash and restart |
| `PageFate` | the abstract specification of a page: new, pending, then one of done, failed, stranded for ever |
| `Failover` | `processPage` and the limiter; the workers share semaphores and breakers |
| `Orchestrator` | the handlers of one job in AI mode: each a sequence of store accesses |
| `Pipeline` | EXTENDS Orchestrator, INSTANCE PageFate; one job's handlers composed with what the queue and the dispatcher do to its pages |
| `Converter` | `ConvertToPDF` for any number of concurrent calls, the office processes, Shutdown |
| `FileType` | what the detector takes a file for, as operators |
| `TextOnly` | EXTENDS Converter, FileType; the extraction goroutines with their temporary files, the cancel handler and other jobs' conversions and clean-ups beside them |
| `PageText` | the cleaning of a page's text, as operators |
| `S3Storage` | objects, padding, encryption and decryption, as operators |
| `Delivery` | EXTENDS PageText, S3Storage, FileType; several jobs of one S3 file from the original to the stored result, the file's owner, and polls by file |
| `MCDispatcher`, `MCFailover`, `MCOrchestrator`, `MCPipeline`, `MCTextOnly`, `MCDelivery` | values of the constants for TLC |
| `DispatcherProofs`, `FailoverProofs`, `OrchestratorProofs`, `ConverterProofs`, `TextOnlyProofs`, `PageTextProofs`, `S3StorageProofs`, `DeliveryProofs` | theorems about the modules they are named for, for every value of the constants; `OrchestratorProofs` also has those about `Pipeline` |

**Correspondence.** In `RedisQueue` the stream is the sequence of all entries ever
added (the code never trims it), `cursor` the group's last delivered entry, `pel`
the pending list. A message is its page and its attempt. In `Dispatcher`, `wpc[w]`
is the place of worker `w` in `loop` (worker.go:63-159), `held[w]` the entry it
works on; `pageDone` and `pageFailed` count the reports that reached the server.
`Faults` names the operations whose ignored error is taken into account. In
`Orchestrator` each handler has a program counter and a snapshot of the status
hash between `Status.Get` and `Status.Set`; a status is the fields the handlers
read back. In `Failover` `stage[w]` is the position in the cascade, `late[w]` that
the page's context is over. In `Converter` `step[c]` is the place of a call in
`ConvertToPDF`, `inUse` the filled places of the semaphore channel, and an office
process whose wrapper was killed is an "orphan". In `TextOnly` `pc` is the
goroutine's place and `temps` the prefixes of the temporary files there are. In
`Delivery` an object of `bucket` is a plaintext under a password in one of the
formats of `decryptData`, `held` are the versions the original has had, each a document,
a format and a password, and `step[j]` the place of job j between two accesses to S3
or the index. Definitions whose comment starts with "Faulty
variant" are not part of any specification: they are the changed code against which
the properties are tried, listed under "mutants".

**How the modules fit together.** `Failover` refines the choice between `ProcessOk`
and `ProcessFails` of `Dispatcher` (it always ends, in text or in an error).
`Orchestrator` by itself takes it as the behaviour of its environment that a page is
reported once, and after it was enqueued (the guard of `PageReported`). `Pipeline` drops
that guard and puts `PageFate` in its place: the enqueue loop submits a page, a report
settles it and starts the handler, and a crash hits both sides. That `PageFate` is what
the dispatcher does to the pages of each job is the theorem `EachJobsPageFate`; that
the composition still is a behaviour of `Orchestrator` is `ImplementsOrchestrator`,
checked and proved, so every invariant proved of `Orchestrator` holds of it. `TextOnly` and `Orchestrator`
handle different jobs and share only the cancel handler. `TextOnly` composes the
goroutine with the converter: its own conversion is one of the converter's calls,
`Beside` is what happens to the others, and the theorem `ImplementsConverter` says that
the composition is still a behaviour of `Converter`. `Delivery` and `TextOnly` look at
the same goroutine from two sides: `TextOnly` has its status writes, files and pages,
`Delivery` its accesses to S3 and several jobs at once.

## 3. Runs

Bounds are in the `.cfg` files. Two workers and two pages are the least at which
two handlers or workers can meet; two attempts are the least with a retry and a
last attempt; one restart gives a process that meets what another one left behind.

| Run | Bounds | Shows |
|---|---|---|
| `Dispatcher_faults` | 1 job of 2 pages, 2 workers, 2 attempts, 1 mover, 1 restart; every failure and the shutdown | `TypeOK`, `SingleCopy`, `ReportedOnce`, `RetryBudget`, `FullBudgetUsed`, and that it implements `PageFate` |
| `Dispatcher_live` | 1 page, 2 workers, 3 attempts, 2 movers, 1 restart, no failure, fair | `NothingForgotten`, `EveryPageReported`, `EveryEntryAcked` |
| `Dispatcher_movers` | 1 page, 2 movers, no failure | **violated**: `DoneOnce` |
| `Pipeline_run` | both submissions, 2 pages that the queue may lose or bring back without text, every failure or every one but that of reading the texts back, 1 cancel, 1 job_done, 1 crash | `TypeOK`, `CountsBounded`, `ResultComplete`, `SuccessAccountsForAllPages`, `FullProgressIsSuccess`, `SuccessMatchesFates`, `SuccessIsFinal`, and that it implements `Orchestrator` |
| `Orchestrator_counts` | 2 pages, nothing fails | **violated**: `ReportRaisesCount` |
| `Orchestrator_fallback` | 2 pages, nothing fails | **violated**: `FallbackTextSaved` |
| `Failover_run` | 2 workers, 1 slot per model, 2 engines asked for, failing Redis; deadlock checked | `TypeOK`, `SlotsMatchCalls`, `NoModelCalledTwice`, `BothEnginesTried`, `CascadeAdvances` |
| `Failover_cooldown` | 1 worker, 8-bit durations | **violated**: `OpenStartsCooldown` |
| `Failover_fatal` | 1 worker | **violated**: `FatalEndsAttempt` |
| `TextOnly_run` | up to 2 pages, 2 conversions with 1 place, 4 kinds of document, Shutdown, 1 cancel, a crash, one lost write, fair | `TypeOK`, `SuccessHasWholeText`, `SlotsMatchHolders`, `SuccessNamesOutput`, `DocumentStays`, `NoFilesLeft`, `ProgressNeverFalls`, `EventuallyFinal`, `EveryCallReturns` |
| `TextOnly_cancel` | as `TextOnly_run`, nothing fails | **violated**: `CancelledIsFinal` |
| `Delivery_run` | 2 jobs, 4 versions of the file in 3 formats under 2 passwords, 3 kinds of name, 1 change of the original, 1 poll, 1 fault | `TypeOK`, `WrongPasswordFails`, `ReadBack`, `KnownFileIsFound`, `WordsKept`, `JoinsOnlyBroken` |

Remarks on the bounds:

* A worker that finds a page already done (`AlreadyDone`) needs two copies of it,
  which one mover never makes: that branch of the loop runs in `Dispatcher_live`
  only. A restart there ends both processes at once. Three attempts let a copy meet
  another one that is two attempts behind. The promises of this run are about one page
  or one entry each; two pages race in `Dispatcher_faults`.
* Workers are interchangeable in `Dispatcher` and `Failover`, so the
  safety runs of passing properties use symmetry; the liveness run does not. Pages are not, since `Seq` of them is
  in the state and the cascade names engines.
* The breaker counts to `MaxOpens`; in `Failover_cooldown` 8 failures with
  durations of 8 bits stand for 30 failures with 64-bit nanoseconds at the default
  base of 30 seconds.
* `Pipeline_run` has two pages: one handler that reaches the total and one it can
  race with. Its eight properties are proved for any number of pages (those
  of `Orchestrator` for that module first, then for the composition).
  `FailureSets` lets one run do both, everything failing and everything but reading the
  texts back, which is what `ResultComplete` asks for.
* `TextOnly_run`: with one place two conversions wait for each other, and two pages
  give the loop a first and a last one. The four documents are one believed by its
  extension and read as it is, one converted, one converted although its name ends in
  `.pdf`, so that it lies where its own output goes, and one refused. `Placements` says
  what may lie where the outputs of other jobs go: nothing in this run, the input as well
  in the proofs. One lost write is enough: what a client sees depends on the last write
  that was not lost.
* `Delivery_run`: blocks of two bytes, so that the texts of the documents end
  at either place of a block; one document looks like padding, one is empty, and one has
  every kind of line. The four versions have every format, both passwords, and two of an old
  tool, the one that looks padded and the empty one; the proofs have every version. The
  names are one without an extension, one of an office document and one of a text.
  Two jobs are the least that overwrite each other's result. Jobs
  are interchangeable, hence the symmetry.
* One cancellation and one job_done call: a second one writes what the first wrote.
* Deadlock is not checked for the dispatcher, the orchestrator, the text-only
  goroutine and delivery: a finite number of pages is submitted, so a behaviour ends. It
  is checked for the cascade, where a worker always has a next step.

**Fairness.** `Dispatcher`: weak fairness of each worker's and each mover's steps.
Goroutines are scheduled, a Redis call returns or fails, and a provider call ends by
its timeout (worker.go:211); no step waits for another worker. Submissions,
cancellations, restarts, and failures are not fair. Strong fairness
is not needed: an unread entry stays readable until some worker takes it, and a
worker's choice of outcome at a step is free, so a page that always fails ends on
its last attempt. `TextOnly`: weak fairness of the goroutine's steps and of each
conversion's, the password check and the waits for S3 excepted. Goroutines run, timers
fire, MuPDF and the file system return; but nothing bounds the command that looks for a
password, and nothing bounds an access to S3: the client is made with the default
configuration, without a timeout (s3.go:39-51), and the goroutine has the background
context (orchestrator.go:180). That the check comes back is a hypothesis (`ChecksReturn`)
of `EventuallyFinal` and `EveryCallReturns`, that S3 answers (`S3Answers`) one of
`EventuallyFinal`.
Office processes are not fair: they may run, hang or die.

## 4. What the violated runs say about the code

1. **Two movers** (`Dispatcher_movers`; redis.go:165-182). `moveOnce` reads the due
   members and moves them in a later transaction that does not depend on their still
   being there. With two processes a delayed message goes onto the stream twice. The
   idempotency key does not stop the second copy while the first is being
   processed: it is read before the provider call and written after it.
   The plan expects two replicas and names the key as the protection.
2. **Lost counts** (`Orchestrator_counts`; orchestrator.go:461-499, 508-548).
   Two reports handled together read the same hash; the second write takes back the
   first one's count. The total is never reached and the job stays in processing.
3. **No fallback text** (`Orchestrator_fallback`; orchestrator.go:220, 518). The
   write after the enqueue loop replaces the metadata of an API job, and `file_path` is
   gone when a failed page needs it. The property leaves uploads out: theirs never had the
   key (orchestrator.go:268 writes `file_local`), with the same outcome.
4. **No cooldown** (`Failover_cooldown`; limiter.go:60). The doubling wraps before
   the cap is applied, and only a success resets the count.
5. **Cancellation** (`TextOnly_cancel`; orchestrator.go:688, 180, 319). The check is
   on a context that is never cancelled. The shortest trace cancels before the goroutine's
   first write; a cancellation among the pages is taken back in the same way.
6. **A fatal error** (`Failover_fatal`; worker.go:313-335). The plan (PLAN_AI_OBRADA.md:87,
   235) lets a request that the provider rejects end the page; the cascade goes on to the
   other provider, and the loop retries the page.

Three passing runs contradict the repository's own words, which `PROJECT.json` lists as
findings beside the six above:

* `FullBudgetUsed` (and `BothEnginesTried`): every page that fails has used all its
  attempts, whatever the error. The plan retries transient errors only (:87, 109, 235).
* `NothingForgotten` rests on an entry being acknowledged after its page was dealt with
  (worker.go:123, 136, 150). The comment of `DequeueAI` (redis.go:87-88) and the plan
  (:342) say that it is acknowledged when it is read.
* `WrongPasswordFails` has to leave out names that the detector believes
  (detector.go:45-65), where comments (detector.go:22, 30) and plan (:373) say that the
  type does not depend on the name.

A fourth, `SuccessNamesOutput`, has to allow for a success without an output:

* *A document named like its PDF* (libreoffice.go:249-256, 329-333). The converter looks
  for `<name>.pdf` in the directory of the input. An office document named `x.pdf` lies
  there itself: if soffice ends with code 0 and writes nothing, the document is renamed and
  reported as the output of a success. The rename also takes the download away, and the
  deferred removal finds nothing; `DocumentStays` and `NoFilesLeft` hold all the same.

What else the passing runs leave out, because the code does:

* *Pages without text* (orchestrator.go:455-460, 520). A report with an empty text, or one
  whose body cannot be decoded, is counted and nothing is saved; so is a failed page
  from which MuPDF gets no text. `ResultComplete` says that the result of a success has
  every text there is, not that every page has one.
* *Old unpadded files* (s3.go:242-248). An old CBC file whose end looks like padding
  loses it without an error. Without the second disjunct of `Misleading`, TLC finds a job
  with status success and the text of a document the owner never stored.
* *A wrong password under a misleading name* (s3.go:238, detector.go:45-65). Only
  GCM notices a wrong password. The gibberish of a CBC file is refused by the detector
  or by MuPDF, unless the file's name has a docx, xlsx or pptx extension, which the
  detector believes: then it is for LibreOffice to refuse it. Short gibberish may pass for
  text, and MuPDF opens whatever is named like a text. `NameMisleads` has these names.
* *Two passwords, one object* (s3save.go:37). Two jobs of one file write the same object,
  each under its own password. If the owner changes the file's password in between, the
  first job's result no longer reads back under the first job's password. `ReadBack`
  promises the password of a job that wrote the object, and the whole text of a version.
* *No places* (libreoffice.go:47, 157). With `LIBREOFFICE_MAX_WORKERS=0` no call of the
  converter returns; `EveryCallReturns` needs one place.
* *Late output* (libreoffice.go:237-246). The output that an orphan writes after the
  timeout is removed by nobody; `NoFilesLeft` speaks of the document and of the output of
  a successful conversion.
* *Uploads* (orchestrator.go:588-758). An upload and the PDF made of it are never removed,
  which the plan lists as open (:432); `NoFilesLeft` speaks of API jobs.
* *Files of a crash* (cleanup.go:18, pagecount.go:106). `CleanupTemps` looks for `s3pdf-`
  and `pdfdl-`, the S3 helper writes `s3download-`. Nothing removes what a crash leaves;
  on the other hand this is why a clean-up never takes a document in use away
  (the mutant of `DocumentStays` adds the missing prefix; with it the age of one hour would
  still protect all but the slowest jobs, which the model does not have).
* *Errors of a poll* (orchestrator.go:390-407). The second read declares its own `err`: its
  failure is answered with 404, and a failure of the first one with 500 although
  the second read worked. `KnownFileIsFound` says exactly when.

## 5. Proofs

The theorems hold for any values of the constants their named ASSUMEs allow: any
sets of jobs, pages, workers and faults, any number of attempts, slots and restarts.

| Module | Theorem | Assumes | Says |
|---|---|---|---|
| `DispatcherProofs` | `TypeCorrect` | | `[](TypeOK /\ RequeueAllowed)` |
| | `Invariance` | `SingleMover` | `[]IInv`, the inductive invariant |
| | `SingleCopyHolds` | `SingleMover` | `[]SingleCopy` |
| | `ReportedOnceHolds` | `SingleMover` | `[]ReportedOnce` |
| | `RetryBudgetHolds` | `SingleMover` | `[]RetryBudget` |
| | `NothingForgottenHolds` | `NoLoss` | `[]NothingForgotten` |
| | `ImplementsPageFateHolds` | `SingleMover` | `Spec => ImplementsPageFate`, the refinement of `PageFate` |
| | `EachJobsPageFate` | `SingleMover` | the same for the pages of each single job |
| | `FullBudgetUsedHolds` | | `[]FullBudgetUsed` |
| `FailoverProofs` | `TypeCorrect` | | `[]TypeOK` |
| | `SlotsMatchCallsHolds` | | `[]SlotsMatchCalls` |
| | `NoModelCalledTwiceHolds` | | `[]NoModelCalledTwice` |
| | `BothEnginesTriedHolds` | | `[]BothEnginesTried` |
| | `CascadeAdvancesHolds` | | `CascadeAdvances`, an action property |
| `OrchestratorProofs` | `TypeCorrect` | | `[]TypeOK` |
| | `CountsBoundedHolds` | | `[]CountsBounded` |
| | `SuccessAccountsHolds` | | `[]SuccessAccountsForAllPages` |
| | `FullProgressHolds` | | `[]FullProgressIsSuccess` |
| | `SuccessIsFinalHolds` | | `SuccessIsFinal`, an action property |
| | `ResultCompleteHolds` | | `[]ResultComplete` |
| | `ImplementsOrchestratorHolds` | | `PipelineSpec => Spec` of `Orchestrator` |
| | `PipelineKeepsPromises` | | under `PipelineSpec`, the invariants above and `SuccessIsFinal` |
| | `SuccessMatchesFatesHolds` | | `PipelineSpec => []SuccessMatchesFates` |
| `ConverterProofs` | `ConverterInvariant`, `ConverterSlots`, `ConverterSuccess` | | the converter's invariant; `[]SlotsMatchHolders`; `[]SuccessNamesOutput` |
| `TextOnlyProofs` | `TextOnlyInvariant`, `TypeCorrect` | | the inductive invariant; `[]TypeOK` |
| | `ImplementsConverter` | | `Spec => ConvSpec` |
| | `WholeText`, `DocumentIsThere`, `FilesAreGone` | | `[]SuccessHasWholeText`, `[]DocumentStays`, `[]NoFilesLeft` |
| | `ProgressIsMonotone` | | `ProgressNeverFalls`, an action property |
| `PageTextProofs` | `TextKeepsLines`, `TextJoinsOnlyBroken`, `JoinsAre` | | what the text of a page consists of; which lines the loop joins |
| `S3StorageProofs` | `PaddingRoundTrip`, `StorageRoundTrip` | | `Unpad(Pad(d)) = d`; decrypting what was encrypted |
| `DeliveryProofs` | `DeliveryInvariant`, `TypeCorrect` | | the inductive invariant; `[]TypeOK` |
| | `WrongPassword`, `ResultsReadBack`, `KnownFile` | | `[]WrongPasswordFails`, `[]ReadBack`, `[]KnownFileIsFound` |
| | `EveryWordKept`, `OnlyBrokenLinesJoin` | | `[]WordsKept`, `[]JoinsOnlyBroken` |

*Assumptions of the dispatcher's theorems.* `SingleMover`, at most
one mover, which is one running process, as `docker-compose.yml` has it. It cannot be
dropped: `Dispatcher_movers` is the counterexample. `NoLoss`: posts, the ZADD of a
retry, the XADD of a dead letter and the shutdown order lose nothing; each
of the four is a place where the code drops an error and acknowledges anyway.
Crashes are allowed everywhere. One more assumption is in the model: an XADD whose
reply is lost is not sent again by the client library.

*The dispatcher.* `TypeOK` is not inductive alone: a delayed message has its
attempt within 1..MaxAttempts only since a worker that comes to requeue holds a
message below the limit (`RequeueAllowed`). `SingleCopy` is not inductive either.
The reason it holds is an ordering: a live entry (unread, or held by a worker who
still owes a report or a retry) is the last entry of its page (`LiveLast`), a page
with a delayed message has no live entry (`DelayedAlone`), and that message carries a
larger attempt than every entry of the page (`DelayedNext`). The mover keeps
this, because what it fetched is still delayed when it moves it (`BatchDelayed`),
which is where one mover is needed. `IInv` is the conjunction with `ReportedOnce`,
`RetryBudget` and `OneHolder`; one lemma per action shows that it is kept, and a
restart only takes live entries away. For `NothingForgotten` the invariant is
`KeepInv`: a worker about to acknowledge holds an entry that is settled
(`AckedIsSettled`), and an idempotency key exists for reported pages only
(`IdemIsReported`); the lemma `Grows` collects what no step takes back, so that
settled entries stay settled. It holds for any number of movers and any crashes, and with
the failures that lose nothing (of DequeueAI's reply, of an acknowledgement, of the
idempotency key), which `Dispatcher_live` leaves out.

*The budget is used.* `RetryBudget` bounds the attempts from above, `FullBudgetUsed` from
below, and needs neither assumption: duplicates and lost messages do no harm. The
invariant is a ladder (`LadderInv`): an entry of attempt n stands on entries of attempts
1 to n, and a delayed message of attempt n, in the ZSET or fetched by a mover, on those
of 1 to n - 1. A worker gives up only at the limit (`BudgetSpent`), where its entry has
the whole ladder below it. The stream never loses an entry, so a rung that was there
stays.

*The refinement.* `PageFate` gives a page a fate that only moves forward. Given `IInv`,
a step of the dispatcher reports one page that was pending (`ReportedOnce` and the live
entry its worker holds), submits one new page, or leaves submissions and reports alone;
then a page can at most lose its last copy, which is `Strand` for all pages that do
(`StrandStep`). That a retry or the mover keeps the copy is where `BatchDelayed` is needed
again.

*The cascade.* `TypeOK` and `SlotsMatchCalls` need each other: a release
keeps the slot counter out of the negative numbers only because the caller that
releases is one of those counted, and counting the callers takes the types. The
invariant is their conjunction. For the other two the invariant is `CascadeInv`, one
conjunct per worker: the models called so far belong to stages behind the current one
(and to it once the call was made), each called once unless the page's own engine is the
secondary one, and every stage left behind was tried, called or refused, unless it was
skipped because the first error is not retryable or the model does not exist.
`CascadeAdvances` is the variant function of the cascade: `Rank` grows with every step of
an attempt and is at most 30, so an attempt ends in 24 steps and four calls. It needs
`TypeOK` only; that a call which succeeds or fails moves on, and never back, is in
the stages `After` may return.

*The orchestrator.* Handlers write copies they read long ago, so the invariant speaks
of every copy that may still be written. `CopiesFit`: a copy counts handled reports
only, and the copy of a page's handler its own report besides; two handlers never
stand for the same report, so a write, however stale, counts nothing twice.
`TotalsKnown`: a copy that knows the number of pages was read after the submission
ended. With both, a copy can have all pages accounted only when every other handler
has finished (`MineAll`, by cardinalities), and that is what `SnapsAccounted` asks
of a copy that says success or is about to. `CancelIsCancelled` and
`SuccessKnowsTotal` cover the cancel handler's copy and the submission: a success
was counted against a known total, so no write of the submission is still to come,
which gives `SuccessIsFinal`. That the progress is at most 100, and 100 only with
all pages accounted, is the lemma `Share` about `Percent`, which has the integer part of
the quotient or, where the floating-point division may fall short of a whole number, one
less. `ResultComplete`
builds on this: a handler that aggregates is the last one (`LastHandler`), so every text
that will ever be saved was saved before, and what it aggregates has them all; a result is referred
to only after that, when no handler is left to store another, and a copy of the status
that refers to it is either this handler's or was read later (`RefsStored`, `RefShown`).

*The pipeline.* What `Orchestrator` has in the guard of `PageReported`, the pipeline has
to find in the fates: a pending page is on the queue and its handler has not started.
That is `FatesFit`, which says of each page that it is new exactly when it is beyond those
enqueued, has no handler as long as it is unreported, and otherwise has the handler of
just its fate. The reports, the crash and each step of the submission and the handlers
keep it, and under it every step maps to a step of `Orchestrator` or to a stutter. With
`SuccessAccountsForAllPages` it gives `SuccessMatchesFates`: of a success every handler
has finished, so every page was reported, as what it was settled to be. Whatever the
queue lost is `stranded`, which no success has.

*The converter.* `SlotsMatchHolders` is inductive with the types: each step changes the
count and the set of holders together, which takes the cardinality of a finite set with
one element more or less. `SuccessNamesOutput` is not: a late office process writes
outputs too. It needs that an exit code 0 leaves no partial output and that a call whose
command ended has no office process left, so only a call that did not succeed can have an
orphan, and that what lies where the output goes is the input only until something is
written there.

*The extraction.* The converter's steps inside `TextOnly` are proved to be steps of
`Converter` first (`ImplementsConverter`), so its invariant holds here without being proved
again. To it comes what ties the goroutine to its own call (it waits for an invoked call,
and has removed an output only when it returned), to its document (downloaded from
"detect" on, until it returns) and to its pages. `ProgressNeverFalls` has an invariant of
its own: the progress shown is at most what the goroutine has come to (`Reached`, for
each place and page), since some writes get lost; and what it writes next is no less. The
percentages of the pages grow with the page number (`ShareGrows`, about the integer
division) and stay between those of the steps around them (`ProgressGrows`).

*Delivery.* The invariant follows a document through a job: what a job holds after the
download is a version's document, one cut short by what looked like padding, or gibberish
(`DataInv`). Which of them got past the detector, and with whose password, is `PastInv`;
without the password that is gibberish or an empty file, and only a misleading name lets
these through (`EmptyNeedsName`, `OpenedFor`). Unless something misleads, the text a job
stores is thus that of a version, and `TextInv` says of each result that some job wrote it,
under its own password, and is among its writers still: a later job that overwrites the
object becomes the witness, any other step leaves the object and the writers alone
(`WritersOnlyGrow`, `ResultStays`). `KnownFileIsFound` needs that
the index leads to jobs with a status (`CreateJob` comes before `IndexFile`). The padding
lemma is proved about sequences as functions, for any block size.

*The text of a page.* `Without`, `Joins` and `FlattenSeq` are recursive functions over
the length of a page, and what they give is proved for pages of any length. Two steps
make that possible without the library's induction theorems. A recursive function inside
a LET is a CHOOSE: that some function satisfies its equations is shown by unrolling the
loop n times and taking the last function, and with this the equations hold of the
function chosen. An induction is an argument by the least counterexample: the set of
numbers at which a statement fails, if it had a member, would have a least one. For
`Joins` this gives the loop's invariant (`JoinsAre`: a line is joined to the next exactly
when it is joinable and was not joined to the one before); for `FlattenSeq`, that leaving
the breaks out of the text gives the lines back (`TextKeepsLines`), and what stands next
to what (`TextJoinsOnlyBroken`). `WordsKept` and `JoinsOnlyBroken` say both
of the document a job of `Delivery` is about to extract, whatever the original went
through: it is a sequence of lines, of any length. The text being a sequence of bytes, which encryption
needs, follows too; only that a line is neither a line break nor the mark is assumed
(`DocumentsAssumption`).

*Model-checked only.* The liveness properties `EveryPageReported`, `EveryEntryAcked`,
`EventuallyFinal` and `EveryCallReturns`: leads-to under fairness is beyond the prover.
Every invariant, action property and refinement that a passing run checks is proved. Of
the violated properties there is nothing to prove.

## 6. Not modelled, and why

* Configuration, logging, metrics, status checks and the dashboard: they read state or
  write output that no modelled part reads back. AI clients: only their outcome, a text, which may
  be empty, or an error of one of three classes.
* The download handler and the local result file: a read of one file.
* The mutool extractor (`mupdf/extractor.go`): go-fitz reports itself as available
  always (gofitz_extractor.go:20), so the branches that use its twin are dead.
* Ciphers, key derivation, and S3 metadata but for the name's extension. (The metadata of
  the original is copied over that of the result, its content type and encryption format
  included; nothing in the repository reads these back.)
* Which lines of a page are noise is a constant: the patterns of page numbers, headers
  and ornaments are left out. (A line without a Latin letter or digit is noise.)
* The derivation of a file's id from its path: two files with the same last path part
  share an index entry, as two jobs of one file do here.
* The result of an AI job after `file_path` was replaced (section 4, 3) goes under
  `results/` with an empty password; `ResultPlace` in `Orchestrator` has the place, and the
  password of AI jobs is not modelled.
* Profile directories of conversions, and a conversion before an upload's pages are
  counted beyond its success or failure.
* Time is only a choice of when; the values of delays, the age of temporary files and the
  5 minute cap in `backoffDelay` are not modelled.
* Start-up order: workers may report before the listener is open. It has the
  effect of `BeginShutdown`, a report that does not arrive.
* What lies in the bucket beside the file: a result goes under the file's name without
  `_original` (s3save.go:37), so a job of `x_original` overwrites an object `x` of
  whatever origin. `Delivery` has one file.
* What the first bytes of gibberish may be taken for beyond binary data and text: the
  detector knows image formats by two bytes, so that one file in some thousands would go
  to the converter as an image.

## 7. Plan

Written, in order of importance: `RedisQueue` and `Dispatcher` with their proofs,
`Failover` and `Orchestrator` with theirs, `Pipeline`, which joins `Dispatcher` and
`Orchestrator` through `PageFate`, `Converter`, `FileType` and `TextOnly` with theirs,
`PageText`, `S3Storage` and `Delivery` with theirs.

Open:

1. Liveness of the pipeline: "does every accepted job become final" is false in several
   ways (lost counts, early reports, a document of zero pages, a stranded page);
   under which conditions it is true is not worked out.
2. The shutdown order as a property of its own: a report that the server no longer takes.
3. Proofs: that opening a breaker starts a cooldown as long as the doubling has not
   wrapped around, which needs facts about powers of two.
