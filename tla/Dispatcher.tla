----------------------------- MODULE Dispatcher -----------------------------
(***************************************************************************)
(* The dispatcher of internal/dispatcher/worker.go: the worker loops that  *)
(* take pages from the queue, have an AI provider process them, and report *)
(* each page to the orchestrator over HTTP as done or failed.              *)
(*                                                                         *)
(* One worker step is one Redis or HTTP round trip, so the steps of other  *)
(* workers, of the mover and of the clients, and a restart of the process, *)
(* come between any two of them.  processPage (the provider cascade, model *)
(* Failover) is a choice between its two outcomes; what the orchestrator   *)
(* does with a report is module Orchestrator.                              *)
(***************************************************************************)
EXTENDS RedisQueue

CONSTANTS
    Workers,      \* the loop goroutines
    MaxRestarts   \* bound on the restarts of a behaviour

ASSUME MaxRestartsAssumption == MaxRestarts \in Nat

VARIABLES
    wpc,         \* per worker: the next step of its loop
    held,        \* per worker: the stream entry it works on, 0 if none
    pageDone,    \* per page: calls of /internal/page_done that arrived
    pageFailed,  \* per page: calls of /internal/page_failed that arrived
    serving,     \* the HTTP listener the workers report to is open
    restarts     \* restarts so far

workerVars == <<wpc, held>>
reportVars == <<pageDone, pageFailed>>
processVars == <<serving, restarts>>
vars == <<queueVars, workerVars, reportVars, processVars>>

\* The steps at which the worker still owes its entry a report or a retry.
Responsible ==
    {"cancelCheck", "idemCheck", "processing", "postDone",
     "addDLQ", "ackDLQ", "postFailed", "requeue"}

WorkerPc == Responsible \cup {"idle", "markIdem", "ack"}

WorkersTypeOK ==
    /\ wpc \in [Workers -> WorkerPc]
    /\ held \in [Workers -> 0..cursor]
    /\ \A w \in Workers : held[w] = 0 <=> wpc[w] = "idle"

TypeOK ==
    /\ QueueTypeOK
    /\ WorkersTypeOK
    /\ pageDone \in [Page -> Nat]
    /\ pageFailed \in [Page -> Nat]
    /\ serving \in BOOLEAN
    /\ restarts \in 0..MaxRestarts

Init ==
    /\ QueueInit
    /\ wpc = [w \in Workers |-> "idle"]
    /\ held = [w \in Workers |-> 0]
    /\ pageDone = [p \in Page |-> 0]
    /\ pageFailed = [p \in Page |-> 0]
    /\ serving = TRUE
    /\ restarts = 0

MessageOf(w) == stream[held[w]]
PageOf(w) == MessageOf(w).page

Reported(p) == pageDone[p] + pageFailed[p] > 0

Goto(w, l) ==
    /\ wpc' = [wpc EXCEPT ![w] = l]
    /\ UNCHANGED held

Release(w) ==
    /\ wpc' = [wpc EXCEPT ![w] = "idle"]
    /\ held' = [held EXCEPT ![w] = 0]

-----------------------------------------------------------------------------
(* The clients of the queue: the API handlers.                             *)

\* A request handler enqueues a page, once.  A request that was accepted
\* before a shutdown runs on.
Submit(p) ==
    /\ ~ Enqueued(p)
    /\ EnqueueAI(p)
    /\ UNCHANGED <<workerVars, reportVars, processVars>>

Cancel(j) ==
    /\ j \notin cancelled
    /\ CancelJob(j)
    /\ UNCHANGED <<workerVars, reportVars, processVars>>

-----------------------------------------------------------------------------
(* The loop of one worker.                                                 *)

Dequeue(w) ==
    /\ wpc[w] = "idle"
    /\ DequeueAI
    /\ wpc' = [wpc EXCEPT ![w] = "cancelCheck"]
    /\ held' = [held EXCEPT ![w] = cursor + 1]
    /\ UNCHANGED <<reportVars, processVars>>

\* The reply to XREADGROUP is lost after the entry was delivered.
DequeueReplyLost(w) ==
    /\ "DequeueAI" \in Faults
    /\ wpc[w] = "idle"
    /\ DequeueAI
    /\ UNCHANGED <<workerVars, reportVars, processVars>>

\* A page of a cancelled job is skipped, without an acknowledgement.
SkipCancelled(w) ==
    /\ wpc[w] = "cancelCheck"
    /\ TRUE \in IsCancelled(JobOf(PageOf(w)))
    /\ Release(w)
    /\ UNCHANGED <<queueVars, reportVars, processVars>>

NotCancelled(w) ==
    /\ wpc[w] = "cancelCheck"
    /\ FALSE \in IsCancelled(JobOf(PageOf(w)))
    /\ Goto(w, "idemCheck")
    /\ UNCHANGED <<queueVars, reportVars, processVars>>

AlreadyDone(w) ==
    /\ wpc[w] = "idemCheck"
    /\ TRUE \in IsIdemDone(PageOf(w))
    /\ Goto(w, "ack")
    /\ UNCHANGED <<queueVars, reportVars, processVars>>

NotDone(w) ==
    /\ wpc[w] = "idemCheck"
    /\ FALSE \in IsIdemDone(PageOf(w))
    /\ Goto(w, "processing")
    /\ UNCHANGED <<queueVars, reportVars, processVars>>

ProcessOk(w) ==
    /\ wpc[w] = "processing"
    /\ Goto(w, "postDone")
    /\ UNCHANGED <<queueVars, reportVars, processVars>>

\* Faulty variant: one retry too many.
ProcessFailsLate(w) ==
    /\ wpc[w] = "processing"
    /\ Goto(w, IF MessageOf(w).attempt > MaxAttempts
                  THEN "addDLQ" ELSE "requeue")
    /\ UNCHANGED <<queueVars, reportVars, processVars>>

\* Faulty variant: one retry too few.
ProcessFailsEarly(w) ==
    /\ wpc[w] = "processing"
    /\ Goto(w, IF MessageOf(w).attempt + 1 >= MaxAttempts
                  THEN "addDLQ" ELSE "requeue")
    /\ UNCHANGED <<queueVars, reportVars, processVars>>

\* No provider answered: the retry budget decides between the ZSET and the
\* dead-letter stream.
ProcessFails(w) ==
    /\ wpc[w] = "processing"
    /\ Goto(w, IF MessageOf(w).attempt >= MaxAttempts
                  THEN "addDLQ" ELSE "requeue")
    /\ UNCHANGED <<queueVars, reportVars, processVars>>

\* The error of http.Post is ignored: the call arrives, or it is lost.
Post(counter, p) ==
    \/ serving /\ counter' = [counter EXCEPT ![p] = @ + 1]
    \/ (~ serving \/ "Post" \in Faults) /\ counter' = counter

PostDone(w) ==
    /\ wpc[w] = "postDone"
    /\ Post(pageDone, PageOf(w))
    /\ Goto(w, "markIdem")
    /\ UNCHANGED <<queueVars, pageFailed, processVars>>

MarkIdem(w) ==
    /\ wpc[w] = "markIdem"
    /\ MarkIdemDone(PageOf(w))
    /\ Goto(w, "ack")
    /\ UNCHANGED <<reportVars, processVars>>

AckEntry(w) ==
    /\ wpc[w] = "ack"
    /\ Ack(held[w])
    /\ Release(w)
    /\ UNCHANGED <<reportVars, processVars>>

\* Faulty variant: the entry is acknowledged before the dead letter is written.
AckBeforeDLQ(w) ==
    /\ wpc[w] = "addDLQ"
    /\ Ack(held[w])
    /\ Goto(w, "ackDLQ")
    /\ UNCHANGED <<reportVars, processVars>>

PutOnDLQ(w) ==
    /\ wpc[w] = "addDLQ"
    /\ AddDLQ(MessageOf(w))
    /\ Goto(w, "ackDLQ")
    /\ UNCHANGED <<reportVars, processVars>>

\* The entry is acknowledged before the orchestrator hears of the failure.
AckDLQ(w) ==
    /\ wpc[w] = "ackDLQ"
    /\ Ack(held[w])
    /\ Goto(w, "postFailed")
    /\ UNCHANGED <<reportVars, processVars>>

PostFailed(w) ==
    /\ wpc[w] = "postFailed"
    /\ Post(pageFailed, PageOf(w))
    /\ Release(w)
    /\ UNCHANGED <<queueVars, pageDone, processVars>>

\* Faulty variant: the attempt number is not incremented.
SameAttempt(msg) == msg

NextAttempt(msg) == [msg EXCEPT !.attempt = @ + 1]

\* Faulty variant: the retry is not scheduled.
RequeueNothing(w) ==
    /\ wpc[w] = "requeue"
    /\ Goto(w, "ack")
    /\ UNCHANGED <<queueVars, reportVars, processVars>>

\* Faulty variant: the entry is not acknowledged after the retry is scheduled.
RequeueWithoutAck(w) ==
    /\ wpc[w] = "requeue"
    /\ EnqueueDelayed(NextAttempt(MessageOf(w)))
    /\ Release(w)
    /\ UNCHANGED <<reportVars, processVars>>

Requeue(w) ==
    /\ wpc[w] = "requeue"
    /\ EnqueueDelayed(NextAttempt(MessageOf(w)))
    /\ Goto(w, "ack")
    /\ UNCHANGED <<reportVars, processVars>>

WorkerStep(w) ==
    \/ Dequeue(w) \/ DequeueReplyLost(w)
    \/ SkipCancelled(w) \/ NotCancelled(w)
    \/ AlreadyDone(w) \/ NotDone(w)
    \/ ProcessOk(w) \/ ProcessFails(w)
    \/ PostDone(w) \/ MarkIdem(w) \/ AckEntry(w)
    \/ PutOnDLQ(w) \/ AckDLQ(w) \/ PostFailed(w)
    \/ Requeue(w)

MoverStep(m) ==
    /\ MoverFetch(m) \/ MoverExec(m) \/ MoverExecFails(m)
    /\ UNCHANGED <<workerVars, reportVars, processVars>>

Expire(p) ==
    /\ IdemExpires(p)
    /\ UNCHANGED <<workerVars, reportVars, processVars>>

-----------------------------------------------------------------------------
(* The process of cmd/app/main.go.                                         *)

\* SIGTERM: main shuts the HTTP server down while the workers still run.
BeginShutdown ==
    /\ "Shutdown" \in Faults
    /\ serving
    /\ restarts < MaxRestarts
    /\ serving' = FALSE
    /\ UNCHANGED <<queueVars, workerVars, reportVars, restarts>>

\* Faulty variant: the start of the process makes the group read all over.
RestartFromZero ==
    /\ restarts < MaxRestarts
    /\ restarts' = restarts + 1
    /\ serving' = TRUE
    /\ wpc' = [w \in Workers |-> "idle"]
    /\ held' = [w \in Workers |-> 0]
    /\ batch' = [m \in Movers |-> {}]
    /\ cursor' = 0 /\ pel' = {}
    /\ UNCHANGED <<stream, delayed, dlq, cancelled, idemDone, reportVars>>

\* The process ends, by a crash or when main returns, and starts again:
\* Redis keeps its data, the goroutines lose theirs.  Deferred calls give a
\* worker no chance to finish its entry.
Restart ==
    /\ restarts < MaxRestarts
    /\ restarts' = restarts + 1
    /\ serving' = TRUE
    /\ wpc' = [w \in Workers |-> "idle"]
    /\ held' = [w \in Workers |-> 0]
    /\ batch' = [m \in Movers |-> {}]
    /\ UNCHANGED <<stream, cursor, pel, delayed, dlq, cancelled, idemDone,
                   reportVars>>

Next ==
    \/ \E p \in Page : Submit(p) \/ Expire(p)
    \/ \E j \in Jobs : Cancel(j)
    \/ \E w \in Workers : WorkerStep(w)
    \/ \E m \in Movers : MoverStep(m)
    \/ BeginShutdown
    \/ Restart

Spec == Init /\ [][Next]_vars

\* The loops and the ticker run for as long as the process does: a provider
\* call ends by its context's timeout, and no step waits for another worker.
Fairness ==
    /\ \A w \in Workers : WF_vars(WorkerStep(w))
    /\ \A m \in Movers : WF_vars(MoverStep(m))

FairSpec == Spec /\ Fairness

-----------------------------------------------------------------------------
(* What the dispatcher promises.                                           *)

\* The entries of the stream some actor still has to deal with.
LiveEntries ==
    Unread \cup {held[w] : w \in {v \in Workers : wpc[v] \in Responsible}}

\* A page is in at most one place: unread on the stream, in the hands of one
\* worker, or delayed.  The idempotency check is a read and a later write, so
\* this is what keeps two workers from processing a page at once.
SingleCopy ==
    /\ \A i, k \in LiveEntries : stream[i].page = stream[k].page => i = k
    /\ \A v, w \in Workers :
          wpc[v] \in Responsible /\ held[v] = held[w] => v = w
    /\ \A d \in delayed :
          /\ \A i \in LiveEntries : stream[i].page # d.page
          /\ \A e \in delayed : e.page = d.page => e = d

\* The orchestrator hears of a page at most once, as done or as failed, and
\* then the queue holds no copy of it: its counters add one per report.
ReportedOnce ==
    \A p \in Page :
        /\ pageDone[p] + pageFailed[p] <= 1
        /\ Reported(p) => /\ \A i \in LiveEntries : stream[i].page # p
                          /\ \A d \in delayed : d.page # p

\* Only one report of a page says that it is done: its idempotency key keeps
\* a second copy of its message from being processed.
DoneOnce == \A p \in Page : pageDone[p] <= 1

\* Every retry of a page is a later entry with a larger attempt number, so
\* a page is processed at most MaxAttempts times, restarts included.
RetryBudget ==
    \A i, k \in 1..Len(stream) :
        i < k /\ stream[i].page = stream[k].page
            => stream[i].attempt < stream[k].attempt

\* Attempts 1 to n of page p were each an entry of the stream.
Tried(p, n) ==
    \A a \in 1..n :
        \E i \in 1..Len(stream) : stream[i] = [page |-> p, attempt |-> a]

GivenUp(p) == pageFailed[p] > 0 \/ \E d \in dlq : d.page = p

\* The other side of the retry budget: a page is dead-lettered or reported as
\* failed only after every attempt it was promised went through the stream,
\* whatever got lost, however many movers run and wherever a crash came.
\* worker.go does not look at the class of the error: a page whose error is
\* fatal is retried like any other, which is not what the plan says.
FullBudgetUsed == \A p \in Page : GivenUp(p) => Tried(p, MaxAttempts)

\* The page of entry i was reported, is on the dead-letter stream, or goes on
\* in a delayed message or a later entry.
Settled(i) ==
    LET p == stream[i].page IN
        \/ Reported(p)
        \/ \E d \in dlq : d.page = p
        \/ \E d \in delayed : d.page = p
        \/ \E k \in 1..Len(stream) : i < k /\ stream[k].page = p

\* As long as a report, a ZADD or an XADD cannot get lost, the queue forgets
\* no page: an entry is unread, or pending, or settled.  A crash may strand
\* a page in the pending list, where an operator can still find it.  That
\* rests on the entry being acknowledged only after its page was dealt with,
\* the reverse of the acknowledgement on reading that DequeueAI's comment and
\* the plan describe.
NothingForgotten ==
    \A i \in 1..Len(stream) : i \in Unread \/ i \in pel \/ Settled(i)

\* The page still has a copy that some actor will deal with.
Pending(p) ==
    \/ \E i \in LiveEntries : stream[i].page = p
    \/ \E d \in delayed : d.page = p

\* Every page is reported in the end unless its job is cancelled, when no
\* operation fails; the only page that may go without a report is one whose
\* last copy was in a worker's hands when the process went down.
EveryPageReported ==
    \A p \in Page :
        Enqueued(p) ~> \/ Reported(p)
                       \/ JobOf(p) \in cancelled
                       \/ restarts > 0 /\ ~ Pending(p)

\* Every delivered entry is acknowledged in the end, unless its job is
\* cancelled (the loop skips a cancelled page without XACK) or the process
\* went down while a worker held it (nothing claims it again).
EveryEntryAcked ==
    \A i \in 1..(MaxAttempts * Cardinality(Page)) :
        i \in pel ~> \/ i \notin pel
                     \/ JobOf(stream[i].page) \in cancelled
                     \/ restarts > 0 /\ \A w \in Workers : held[w] # i

\* The fate of a page as the reports and the queue show it.
Fate(p) ==
    CASE pageDone[p] > 0 -> "done"
      [] pageDone[p] = 0 /\ pageFailed[p] > 0 -> "failed"
      [] ~ Reported(p) /\ ~ Enqueued(p) -> "new"
      [] ~ Reported(p) /\ Enqueued(p) /\ Pending(p) -> "pending"
      [] OTHER -> "stranded"

Abstract == INSTANCE PageFate WITH fate <- [p \in Page |-> Fate(p)]

\* The dispatcher implements PageFate: a page is reported at most once, with
\* one outcome, and a page that lost its last copy is never heard of again.
ImplementsPageFate == Abstract!Spec
=============================================================================
