---------------------------- MODULE Orchestrator ----------------------------
(***************************************************************************)
(* The HTTP handlers of internal/orchestrator/orchestrator.go that share   *)
(* the status hash of one job in Redis: the submission of the job (through *)
(* the API or as a dashboard upload), the page reports of the dispatcher,  *)
(* cancellation and the job_done webhook.  Each handler reads the hash,    *)
(* changes its copy and writes the copy back; every store access is a step *)
(* of its own, so handlers of different requests interleave between them.  *)
(*                                                                         *)
(* Abstractions: text is where it came from; a metadata map is the keys    *)
(* the handlers read back; messages, times and page texts' contents are    *)
(* left out.  A page's report arrives at most once; module Pipeline shows  *)
(* that the queue and the workers guarantee it.                            *)
(***************************************************************************)
EXTENDS Integers, FiniteSets

CONSTANTS
    TotalPages,   \* the page count DetermineTotalPages arrives at
    FailureSets,  \* what may fail, one set per behaviour
    MaxCancels,   \* bound on cancellations (0 or 1)
    MaxWebhooks,  \* bound on job_done calls (0 or 1)
    MaxCrashes    \* bound on crashes of the process

\* A store access fails, or, PageText, a page ends without a saved text: the
\* report's is empty or its body unreadable, MuPDF cannot extract the page,
\* or saving the text fails.
FailureKinds == {"StatusSet", "StatusGet", "PageText", "Enqueue", "Aggregate",
                 "Store"}

ASSUME TotalPagesAssumption == TotalPages \in Nat
ASSUME FailuresAssumption == FailureSets \subseteq SUBSET FailureKinds
ASSUME BoundsAssumption ==
    MaxCancels \in 0..1 /\ MaxWebhooks \in 0..1 /\ MaxCrashes \in Nat

\* SelectPages sends every page to the AI, and three pages of a document
\* whose page count came out as zero.
AIPages == 1..(IF TotalPages <= 0 THEN 3 ELSE TotalPages)

Source == {"none", "ai", "mupdf"}

VARIABLES
    upload,    \* the job came through /process_file_upload
    failing,   \* what may fail
    status,    \* the job's status hash
    pageText,  \* per page: the source of its saved text
    result,    \* the stored result: the pages it has text of, and its place
    sub,       \* the submission handler's next step
    enqueued,  \* pages 1..enqueued are on the queue
    report,    \* per page: the kind of its report
    hpc,       \* per page: the next step of the handler of its report
    snap,      \* per page: that handler's copy of the status
    agg,       \* per page: the pages with text that handler aggregated
    cpc,       \* the cancel handler's next step
    csnap,     \* its copy of the status
    jpc,       \* the job_done handler's next step
    jsnap,     \* its copy of the status
    crashes    \* crashes so far

storeVars == <<status, pageText, result>>
setupVars == <<upload, failing>>
submitVars == <<setupVars, sub, enqueued>>
pageVars == <<report, hpc, snap, agg>>
cancelVars == <<cpc, csnap>>
doneVars == <<jpc, jsnap>>
vars == <<storeVars, submitVars, pageVars, cancelVars, doneVars, crashes>>

States == {"absent", "queued", "processing", "failed", "cancelled", "success"}

\* file_path, source = "upload" and result_local_path or result_s3_url are
\* metadata keys: present or not.
StatusHash ==
    [state : States, progress : 0..100, total : Nat, done : Nat, failed : Nat,
     filePath : BOOLEAN, upload : BOOLEAN, resultRef : BOOLEAN]

NoStatus ==
    [state |-> "absent", progress |-> 0, total |-> 0, done |-> 0, failed |-> 0,
     filePath |-> FALSE, upload |-> FALSE, resultRef |-> FALSE]

NoResult == [texts |-> {}, at |-> "nowhere"]

HandlerPc == {"none", "savePage", "get", "fallback", "aggregate", "store",
              "set", "finished", "died"}
WebPc == {"none", "get", "set", "finished", "died"}
SubPc == {"new", "queued", "converting", "enqueueing", "accepted", "rejected",
          "conversionFailed", "refused", "died"}

TypeOK ==
    /\ upload \in BOOLEAN
    /\ failing \in FailureSets
    /\ status \in StatusHash
    /\ pageText \in [AIPages -> Source]
    /\ result \in [texts : SUBSET AIPages,
                   at : {"nowhere", "local", "besideOriginal", "resultsPrefix"}]
    /\ sub \in SubPc
    /\ enqueued \in 0..Cardinality(AIPages)
    /\ report \in [AIPages -> {"none", "done", "failed"}]
    /\ hpc \in [AIPages -> HandlerPc]
    /\ snap \in [AIPages -> StatusHash]
    /\ agg \in [AIPages -> SUBSET AIPages]
    /\ cpc \in WebPc /\ csnap \in StatusHash
    /\ jpc \in WebPc /\ jsnap \in StatusHash
    /\ crashes \in 0..MaxCrashes

Init ==
    /\ upload \in BOOLEAN
    /\ failing \in FailureSets
    /\ status = NoStatus
    /\ pageText = [p \in AIPages |-> "none"]
    /\ result = NoResult
    /\ sub = "new"
    /\ enqueued = 0
    /\ report = [p \in AIPages |-> "none"]
    /\ hpc = [p \in AIPages |-> "none"]
    /\ snap = [p \in AIPages |-> NoStatus]
    /\ agg = [p \in AIPages |-> {}]
    /\ cpc = "none" /\ csnap = NoStatus
    /\ jpc = "none" /\ jsnap = NoStatus
    /\ crashes = 0

-----------------------------------------------------------------------------
(* The status store.                                                       *)

\* HSET of the fields, metadata included: the adapter turns a nil map into an
\* empty one, so the stored metadata is replaced.  Callers ignore the error.
SetStatus(st) ==
    \/ status' = st
    \/ "StatusSet" \in failing /\ status' = status

\* What HGETALL gives: the hash, or an error, which reads like an absent one.
GetStatus ==
    {status} \cup (IF "StatusGet" \in failing THEN {NoStatus} ELSE {})

\* A hash written afresh by a handler that names only these keys.
Fresh(state, progress) ==
    [NoStatus EXCEPT !.state = state, !.progress = progress,
                     !.upload = upload]

-----------------------------------------------------------------------------
(* handleProcess and handleProcessUpload, up to their response.            *)

SetQueued ==
    /\ sub = "new"
    /\ SetStatus([Fresh("queued", 0) EXCEPT !.filePath = ~ upload])
    /\ sub' = "queued"
    /\ UNCHANGED <<setupVars, enqueued, pageText, result, pageVars, cancelVars,
                   doneVars, crashes>>

\* An upload of a type that cannot be detected or is not supported is turned
\* away; its status stays what it is.
RejectUpload ==
    /\ upload /\ sub = "queued"
    /\ sub' = "rejected"
    /\ UNCHANGED <<setupVars, enqueued, storeVars, pageVars, cancelVars, doneVars,
                   crashes>>

SetConverting ==
    /\ upload /\ sub = "queued"
    /\ SetStatus(Fresh("processing", 5))
    /\ sub' = "converting"
    /\ UNCHANGED <<setupVars, enqueued, pageText, result, pageVars, cancelVars,
                   doneVars, crashes>>

ConversionFails ==
    /\ sub = "converting"
    /\ SetStatus(Fresh("failed", 0))
    /\ sub' = "conversionFailed"
    /\ UNCHANGED <<setupVars, enqueued, pageText, result, pageVars, cancelVars,
                   doneVars, crashes>>

\* The PDF is at hand and its pages are counted.
StartEnqueueing ==
    /\ sub \in {"queued", "converting"}
    /\ sub' = "enqueueing"
    /\ UNCHANGED <<setupVars, enqueued, storeVars, pageVars, cancelVars, doneVars,
                   crashes>>

EnqueuePage ==
    /\ sub = "enqueueing"
    /\ enqueued < Cardinality(AIPages)
    /\ enqueued' = enqueued + 1
    /\ UNCHANGED <<setupVars, sub, storeVars, pageVars, cancelVars, doneVars,
                   crashes>>

\* XADD reports an error, whether or not the entry was added: 503, with the
\* earlier pages on the queue and the status left at what it was.
EnqueueFails ==
    /\ "Enqueue" \in failing
    /\ sub = "enqueueing"
    /\ enqueued < Cardinality(AIPages)
    /\ enqueued' \in {enqueued, enqueued + 1}
    /\ sub' = "refused"
    /\ UNCHANGED <<setupVars, storeVars, pageVars, cancelVars, doneVars, crashes>>

\* Every page is on the queue: only now is the number of pages written.
SetProcessing ==
    /\ sub = "enqueueing"
    /\ enqueued = Cardinality(AIPages)
    /\ SetStatus([Fresh("processing", 10) EXCEPT !.total = TotalPages])
    /\ sub' = "accepted"
    /\ UNCHANGED <<setupVars, enqueued, pageText, result, pageVars, cancelVars,
                   doneVars, crashes>>

-----------------------------------------------------------------------------
(* handlePageDone and handlePageFailed, one handler per page.              *)

GotoPage(p, l) == hpc' = [hpc EXCEPT ![p] = l]

\* A report's request starts its handler.
HandlerStarts(p, kind) ==
    /\ report' = [report EXCEPT ![p] = kind]
    /\ GotoPage(p, IF kind = "done" THEN "savePage" ELSE "get")
    /\ UNCHANGED <<snap, agg, storeVars, submitVars, cancelVars, doneVars,
                   crashes>>

\* The dispatcher reports a page that is on the queue, once.
PageReported(p, kind) ==
    /\ p <= enqueued
    /\ hpc[p] = "none"
    /\ HandlerStarts(p, kind)

\* The report's text is saved, unless there is none; an error is ignored.
SavePage(p) ==
    /\ hpc[p] = "savePage"
    /\ \/ pageText' = [pageText EXCEPT ![p] = "ai"]
       \/ "PageText" \in failing /\ pageText' = pageText
    /\ GotoPage(p, "get")
    /\ UNCHANGED <<status, result, report, snap, agg, submitVars, cancelVars,
                   doneVars, crashes>>

\* int(float64(n) / float64(t) * 100), for n of t pages: the quotient may be
\* rounded down, so that a whole percentage loses one (29 of 100 give 28),
\* unless it is a number of quarters, which are exact.
Percent(n, t) ==
    LET whole == (n * 100) \div t
    IN {whole} \cup (IF (n * 100) % t = 0 /\ (n * 4) % t # 0
                        THEN {whole - 1} ELSE {})

\* Faulty variant: a failed page counts as done too.
CountedTwice(st, kind) ==
    {[st EXCEPT !.done = @ + 1,
                !.failed = IF kind = "failed" THEN @ + 1 ELSE @]}

\* Faulty variant: the page is counted once more for the progress.
CountedAhead(st, kind) ==
    LET done == IF kind = "done" THEN st.done + 1 ELSE st.done
        failed == IF kind = "failed" THEN st.failed + 1 ELSE st.failed
    IN {[st EXCEPT !.done = done, !.failed = failed, !.progress = x] :
            x \in IF st.total > 0 THEN Percent(done + failed + 1, st.total)
                                 ELSE {st.progress}}

\* The handler's copy with its own page counted, one for each progress the
\* division may give.
Counted(st, kind) ==
    LET done == IF kind = "done" THEN st.done + 1 ELSE st.done
        failed == IF kind = "failed" THEN st.failed + 1 ELSE st.failed
    IN {[st EXCEPT !.done = done, !.failed = failed, !.progress = x] :
            x \in IF st.total > 0 THEN Percent(done + failed, st.total)
                                 ELSE {st.progress}}

\* Faulty variant: the count before this report is compared, one page early.
AlmostAccounted(st) == st.total > 0 /\ st.done + st.failed + 1 >= st.total

AllAccounted(st) == st.total > 0 /\ st.done + st.failed >= st.total

\* The step after the counting: aggregate once all pages are accounted.
AfterCount(st) == IF AllAccounted(st) THEN "aggregate" ELSE "set"

GetForReport(p) ==
    /\ hpc[p] = "get"
    /\ \E st \in GetStatus :
          IF st.state = "absent"
             THEN GotoPage(p, "finished") /\ UNCHANGED snap
             ELSE \E counted \in Counted(st, report[p]) :
                  /\ snap' = [snap EXCEPT ![p] = counted]
                  /\ GotoPage(p, IF report[p] = "failed" THEN "fallback"
                                 ELSE AfterCount(counted))
    /\ UNCHANGED <<report, agg, storeVars, submitVars, cancelVars, doneVars,
                   crashes>>

\* MuPDF text for a failed page: without a file_path in the metadata the job
\* id is taken for the file's name, and no such file exists.  An error of the
\* extraction leaves the page without a text, one of saving it is ignored.
FallbackText(p) ==
    /\ hpc[p] = "fallback"
    /\ \/ snap[p].filePath /\ pageText' = [pageText EXCEPT ![p] = "mupdf"]
       \/ (~ snap[p].filePath \/ "PageText" \in failing) /\ pageText' = pageText
    /\ GotoPage(p, AfterCount(snap[p]))
    /\ UNCHANGED <<status, result, report, snap, agg, submitVars, cancelVars,
                   doneVars, crashes>>

PagesWithText == {p \in AIPages : pageText[p] # "none"}

\* AggregateText, whose error leaves the text read so far.
Aggregate(p) ==
    /\ hpc[p] = "aggregate"
    /\ \/ agg' = [agg EXCEPT ![p] = {q \in PagesWithText : q <= snap[p].total}]
       \/ /\ "Aggregate" \in failing
          /\ \E read \in 0..(snap[p].total - 1) :
                agg' = [agg EXCEPT ![p] = {q \in PagesWithText : q <= read}]
    /\ GotoPage(p, "store")
    /\ UNCHANGED <<report, snap, storeVars, submitVars, cancelVars, doneVars,
                   crashes>>

\* Where the result goes: a local file for an upload, else an S3 object next
\* to the original, or under results/ when the original is not known.
ResultPlace(st) ==
    IF st.upload THEN "local"
    ELSE IF st.filePath THEN "besideOriginal" ELSE "resultsPrefix"

\* Faulty variant: the job stays as it is when storing fails.
StoreResultOrNot(p) ==
    /\ hpc[p] = "store"
    /\ \/ /\ result' = [texts |-> agg[p], at |-> ResultPlace(snap[p])]
          /\ snap' = [snap EXCEPT ![p].state = "success", ![p].progress = 100,
                                  ![p].resultRef = TRUE]
       \/ /\ "Store" \in failing
          /\ UNCHANGED <<result, snap>>
    /\ GotoPage(p, "set")
    /\ UNCHANGED <<status, pageText, report, agg, submitVars, cancelVars,
                   doneVars, crashes>>

\* The result is stored, or storing fails; the copy turns to success anyway.
StoreResult(p) ==
    LET success == [snap[p] EXCEPT !.state = "success", !.progress = 100] IN
    /\ hpc[p] = "store"
    /\ \/ /\ result' = [texts |-> agg[p], at |-> ResultPlace(snap[p])]
          /\ snap' = [snap EXCEPT ![p] = [success EXCEPT !.resultRef = TRUE]]
       \/ /\ "Store" \in failing
          /\ result' = result
          /\ snap' = [snap EXCEPT ![p] = success]
    /\ GotoPage(p, "set")
    /\ UNCHANGED <<status, pageText, report, agg, submitVars, cancelVars,
                   doneVars, crashes>>

SetForReport(p) ==
    /\ hpc[p] = "set"
    /\ SetStatus(snap[p])
    /\ GotoPage(p, "finished")
    /\ UNCHANGED <<pageText, result, report, snap, agg, submitVars, cancelVars,
                   doneVars, crashes>>

PageStep(p) ==
    \/ SavePage(p) \/ GetForReport(p) \/ FallbackText(p)
    \/ Aggregate(p) \/ StoreResult(p) \/ SetForReport(p)

-----------------------------------------------------------------------------
(* handleCancelJob and handleJobDone.                                      *)

\* A client knows the id of an API job early, through the file's progress
\* page, and that of an upload from the response.
KnownToClients ==
    IF upload THEN sub = "accepted" ELSE sub # "new"

CancelRequested ==
    /\ MaxCancels > 0 /\ cpc = "none"
    /\ KnownToClients
    /\ cpc' = "get"
    /\ UNCHANGED <<csnap, storeVars, submitVars, pageVars, doneVars, crashes>>

\* Here an unreadable status is taken for an empty one and still written.
GetForCancel ==
    /\ cpc = "get"
    /\ \E st \in GetStatus :
          csnap' = [st EXCEPT !.state = "cancelled", !.progress = 0]
    /\ cpc' = "set"
    /\ UNCHANGED <<storeVars, submitVars, pageVars, doneVars, crashes>>

SetForCancel ==
    /\ cpc = "set"
    /\ SetStatus(csnap)
    /\ cpc' = "finished"
    /\ UNCHANGED <<csnap, pageText, result, submitVars, pageVars, doneVars,
                   crashes>>

JobDoneCalled ==
    /\ MaxWebhooks > 0 /\ jpc = "none"
    /\ KnownToClients
    /\ jpc' = "get"
    /\ UNCHANGED <<jsnap, storeVars, submitVars, pageVars, cancelVars, crashes>>

GetForJobDone ==
    /\ jpc = "get"
    /\ \E st \in GetStatus :
          IF st.state = "absent"
             THEN jpc' = "finished" /\ UNCHANGED jsnap
             ELSE /\ jsnap' = [st EXCEPT !.state = "success", !.progress = 100]
                  /\ jpc' = "set"
    /\ UNCHANGED <<storeVars, submitVars, pageVars, cancelVars, crashes>>

SetForJobDone ==
    /\ jpc = "set"
    /\ SetStatus(jsnap)
    /\ jpc' = "finished"
    /\ UNCHANGED <<jsnap, pageText, result, submitVars, pageVars, cancelVars,
                   crashes>>

-----------------------------------------------------------------------------
(* The process dies with every handler that is running.                    *)

Running(l) == l \notin {"none", "finished", "died"}

Crash ==
    /\ crashes < MaxCrashes
    /\ crashes' = crashes + 1
    /\ sub' = IF sub \in {"queued", "converting", "enqueueing"}
                 THEN "died" ELSE sub
    /\ hpc' = [p \in AIPages |-> IF Running(hpc[p]) THEN "died" ELSE hpc[p]]
    /\ cpc' = IF Running(cpc) THEN "died" ELSE cpc
    /\ jpc' = IF Running(jpc) THEN "died" ELSE jpc
    /\ UNCHANGED <<setupVars, enqueued, storeVars, report, snap, agg, csnap, jsnap>>

SubmitStep ==
    \/ SetQueued \/ RejectUpload \/ SetConverting \/ ConversionFails
    \/ StartEnqueueing \/ EnqueuePage \/ EnqueueFails \/ SetProcessing

WebStep ==
    \/ CancelRequested \/ GetForCancel \/ SetForCancel
    \/ JobDoneCalled \/ GetForJobDone \/ SetForJobDone

Next ==
    \/ SubmitStep
    \/ \E p \in AIPages :
          \/ \E kind \in {"done", "failed"} : PageReported(p, kind)
          \/ PageStep(p)
    \/ WebStep
    \/ Crash

Spec == Init /\ [][Next]_vars

-----------------------------------------------------------------------------
(* What the handlers promise.                                              *)

Counters == {p \in AIPages : hpc[p] = "finished"}

\* However the handlers interleave, the counts never run ahead of the reports
\* that were fully handled, done and failed each for itself: a lost update
\* can only make them too small.
CountsBounded ==
    /\ status.done <= Cardinality({p \in Counters : report[p] = "done"})
    /\ status.failed <= Cardinality({p \in Counters : report[p] = "failed"})

\* A job shows success only when the handler of every one of its pages has
\* finished, unless the job_done webhook declared it done.
SuccessAccountsForAllPages ==
    status.state = "success" /\ jpc = "none" => Counters = AIPages

\* 100 percent is shown for a job with status success and for no other, as
\* long as no job_done call put success on a job whose pages still count.
FullProgressIsSuccess ==
    jpc = "none" => (status.progress = 100 <=> status.state = "success")

\* A result that a job refers to has every page text the job ever gets, from
\* the AI or MuPDF, as long as the texts can be read: the last report is
\* counted after every other page's text was saved.  A page whose text is
\* empty or could not be saved is missing from it, success or not.
ResultComplete ==
    status.resultRef /\ "Aggregate" \notin failing =>
        PagesWithText \subseteq result.texts

\* Success is taken back by a cancellation or after a job_done call only: no
\* late report and no late submission step reopens a finished job.
SuccessIsFinal ==
    [][status.state = "success" /\ cpc = "none" /\ jpc = "none"
          => status'.state = "success"]_vars

\* Handling a page's report increments the count it stands for.
ReportRaisesCount ==
    [][\A p \in AIPages :
          SetForReport(p) =>
              status'.done + status'.failed > status.done + status.failed]_vars

\* A page of an API job that failed and whose report was handled has its
\* MuPDF text saved.
FallbackTextSaved ==
    ~ upload => \A p \in AIPages :
        report[p] = "failed" /\ hpc[p] = "finished" => pageText[p] = "mupdf"

\* Once the job is cancelled its status stays cancelled.
CancelledIsFinal ==
    [][status.state = "cancelled" => status'.state = "cancelled"]_vars
=============================================================================
