------------------------------ MODULE Pipeline ------------------------------
(***************************************************************************)
(* One job from its submission to its status: the handlers of Orchestrator *)
(* composed with what the queue and the dispatcher do to the job's pages,  *)
(* which here is PageFate (Dispatcher is shown to implement it).  The two  *)
(* meet in three places: the enqueue loop of the submission adds pages to  *)
(* the queue, a report of the dispatcher starts a handler, and both run in *)
(* one process, so that a crash hits both.                                 *)
(*                                                                         *)
(* Orchestrator takes for granted that a page is reported once, and only   *)
(* when it was enqueued.  Here nothing but the page's fate says so.        *)
(***************************************************************************)
EXTENDS Orchestrator

VARIABLE fate   \* per page: what became of its message

Fates == INSTANCE PageFate WITH Page <- AIPages

pipelineVars == <<vars, fate>>

PipelineInit == Init /\ Fates!Init

\* The submission handler adds a page to the queue, or sees an error of XADD,
\* which may come after the entry was added.
Enqueues ==
    /\ EnqueuePage \/ EnqueueFails
    /\ \/ enqueued' = enqueued + 1 /\ Fates!Submit(enqueued + 1)
       \/ enqueued' = enqueued /\ UNCHANGED fate

SubmitsOtherwise ==
    /\ \/ SetQueued \/ RejectUpload \/ SetConverting \/ ConversionFails
       \/ StartEnqueueing \/ SetProcessing
    /\ UNCHANGED fate

\* Faulty variant: a worker reports a page whose fate was settled before.
ReportAgain(p, kind) ==
    /\ fate[p] # "new"
    /\ fate' = [fate EXCEPT ![p] = kind]
    /\ HandlerStarts(p, kind)

\* A worker settles a page and its report arrives, whatever the orchestrator
\* has heard of the page before.
Report(p, kind) ==
    /\ fate[p] = "pending"
    /\ fate' = [fate EXCEPT ![p] = kind]
    /\ HandlerStarts(p, kind)

\* The last copies of some pages get lost: a page of a cancelled job is
\* skipped, or an ignored error takes a report or a retry.
Lose(S) ==
    /\ S # {}
    /\ Fates!Strand(S)
    /\ UNCHANGED vars

\* The process dies with the handlers and with what the workers hold.
CrashOfBoth ==
    /\ Crash
    /\ \E S \in SUBSET AIPages : Fates!Strand(S)

PipelineNext ==
    \/ Enqueues \/ SubmitsOtherwise
    \/ \E p \in AIPages :
          \/ \E kind \in {"done", "failed"} : Report(p, kind)
          \/ PageStep(p) /\ UNCHANGED fate
    \/ \E S \in SUBSET AIPages : Lose(S)
    \/ WebStep /\ UNCHANGED fate
    \/ CrashOfBoth

PipelineSpec == PipelineInit /\ [][PipelineNext]_pipelineVars

-----------------------------------------------------------------------------
(* What the two together promise.                                          *)

\* Under the dispatcher's reports the handlers are those of Orchestrator: no
\* page is reported twice or before it is on the queue, so its invariants,
\* which rest on that, hold of the whole.
ImplementsOrchestrator == Spec

\* End to end: a job shows success only when every one of its pages was
\* settled by a worker and the orchestrator counted that very outcome.  A
\* page the queue lost keeps its job from success for good, unless the
\* job_done webhook declares it done.
SuccessMatchesFates ==
    status.state = "success" /\ jpc = "none" =>
        \A p \in AIPages : fate[p] \in {"done", "failed"} /\ report[p] = fate[p]
=============================================================================
