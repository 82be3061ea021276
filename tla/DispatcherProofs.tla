-------------------------- MODULE DispatcherProofs --------------------------
(***************************************************************************)
(* Proofs about Dispatcher for every set of jobs and workers, every number *)
(* of pages and attempts, any number of restarts and any set of faults.    *)
(***************************************************************************)
EXTENDS Dispatcher, FiniteSetTheorems, TLAPS

-----------------------------------------------------------------------------
(* Type correctness.                                                       *)

\* A retry is only scheduled within the budget: what makes the attempt number
\* of the delayed message well typed.
RequeueAllowed ==
    \A w \in Workers : wpc[w] = "requeue" => MessageOf(w).attempt < MaxAttempts

TypeInv == TypeOK /\ RequeueAllowed

\* The entry a busy worker holds is a delivered entry of the stream.
LEMMA HeldEntry ==
    ASSUME TypeOK, NEW w \in Workers, wpc[w] # "idle"
    PROVE  /\ held[w] \in 1..cursor
           /\ held[w] \in 1..Len(stream)
           /\ MessageOf(w) \in Message
           /\ PageOf(w) \in Page
<1>1. held[w] \in 1..cursor /\ held[w] \in 1..Len(stream)
  BY DEF TypeOK, QueueTypeOK, WorkersTypeOK
<1>2. MessageOf(w) \in Message
  BY <1>1 DEF TypeOK, QueueTypeOK, MessageOf
<1>3. QED
  BY <1>1, <1>2 DEF Message, PageOf

\* An ordering of a finite set is a sequence over it that lists every element
\* exactly once.
LEMMA OrderingsSeq ==
    ASSUME NEW S, IsFiniteSet(S), NEW s \in Orderings(S)
    PROVE  /\ s \in Seq(S)
           /\ \A i \in 1..Len(s) : s[i] \in S
           /\ \A i, k \in 1..Len(s) : s[i] = s[k] => i = k
           /\ \A x \in S : \E i \in 1..Len(s) : s[i] = x
<1>1. Cardinality(S) \in Nat
  BY FS_CardinalityType
<1>2. s \in [1..Cardinality(S) -> S] /\ DOMAIN s = 1..Cardinality(S)
  BY DEF Orderings
<1>3. s \in Seq(S) /\ Len(s) = Cardinality(S)
  BY <1>1, <1>2
<1>4. QED
  BY <1>1, <1>2, <1>3 DEF Orderings

\* Appending typed messages keeps the stream a sequence of messages and leaves
\* its old entries in place.
LEMMA StreamGrows ==
    ASSUME TypeOK, NEW s \in Seq(Message), stream' = stream \o s
    PROVE  /\ stream' \in Seq(Message)
           /\ Len(stream') = Len(stream) + Len(s)
           /\ \A i \in 1..Len(stream) : stream'[i] = stream[i]
           /\ \A i \in (Len(stream) + 1)..Len(stream') :
                 stream'[i] = s[i - Len(stream)]
  BY DEF TypeOK, QueueTypeOK

\* Where the stream keeps its entries, the queue part of the type invariant
\* follows from the types of what a step changes.
LEMMA InitType == Init => TypeInv
<1> SUFFICES ASSUME Init PROVE TypeInv
  OBVIOUS
<1>1. QueueTypeOK
  <2>1. IsFiniteSet({})
    BY FS_EmptySet
  <2>2. stream \in Seq(Message) /\ cursor \in 0..Len(stream)
    BY DEF Init, QueueInit
  <2>3. QED
    BY <2>1, <2>2 DEF Init, QueueInit, QueueTypeOK
<1>2. TypeOK
  BY <1>1, MaxRestartsAssumption DEF Init, TypeOK, WorkersTypeOK, WorkerPc, QueueInit
<1>3. QED
  BY <1>2 DEF TypeInv, RequeueAllowed, Init

\* A busy worker that goes to another step or releases its entry leaves the
\* workers' variables well typed.
LEMMA WorkersTypeFrame ==
    ASSUME TypeOK, NEW w \in Workers, wpc[w] # "idle", cursor' = cursor,
           \/ Release(w)
           \/ \E l \in WorkerPc \ {"idle"} : Goto(w, l)
    PROVE  WorkersTypeOK'
<1>1. CASE Release(w)
  BY <1>1 DEF TypeOK, WorkersTypeOK, QueueTypeOK, Release, WorkerPc
<1>2. CASE \E l \in WorkerPc \ {"idle"} : Goto(w, l)
  BY <1>2 DEF TypeOK, WorkersTypeOK, Goto
<1>3. QED
  BY <1>1, <1>2

\* Every step of a worker keeps the state well typed.
LEMMA WorkerStepType ==
    ASSUME TypeInv, NEW w \in Workers, WorkerStep(w)
    PROVE  TypeInv'
<1> USE DEF TypeInv
<1>0. TypeOK /\ QueueTypeOK /\ RequeueAllowed
  BY DEF TypeOK
<1>1. ASSUME wpc[w] # "idle", UNCHANGED queueVars, UNCHANGED processVars,
             pageDone' \in [Page -> Nat], pageFailed' \in [Page -> Nat],
             \/ Release(w)
             \/ \E l \in WorkerPc \ {"idle"} :
                   /\ Goto(w, l)
                   /\ l = "requeue" => MessageOf(w).attempt < MaxAttempts
      PROVE  TypeInv'
  <2>1. QueueTypeOK'
    BY <1>0, <1>1 DEF QueueTypeOK, queueVars
  <2>2. WorkersTypeOK'
    BY <1>0, <1>1, WorkersTypeFrame DEF queueVars
  <2>3. TypeOK'
    BY <1>0, <1>1, <2>1, <2>2 DEF TypeOK, processVars
  <2>4. RequeueAllowed'
    BY <1>0, <1>1 DEF RequeueAllowed, TypeOK, WorkersTypeOK, queueVars,
                      Release, Goto, MessageOf
  <2>5. QED
    BY <2>3, <2>4
<1>2. ASSUME wpc[w] # "idle", QueueTypeOK', stream' = stream,
             cursor' = cursor, UNCHANGED <<reportVars, processVars>>,
             \/ Release(w)
             \/ \E l \in WorkerPc \ {"idle", "requeue"} : Goto(w, l)
      PROVE  TypeInv'
  <2>1. WorkersTypeOK'
    BY <1>0, <1>2, WorkersTypeFrame
  <2>2. TypeOK'
    BY <1>0, <1>2, <2>1 DEF TypeOK, reportVars, processVars
  <2>3. RequeueAllowed'
    BY <1>0, <1>2
       DEF RequeueAllowed, TypeOK, WorkersTypeOK, Release, Goto, MessageOf
  <2>4. QED
    BY <2>2, <2>3
<1>3. CASE Dequeue(w) \/ DequeueReplyLost(w)
  <2>1. DequeueAI
    BY <1>3 DEF Dequeue, DequeueReplyLost
  <2>2. /\ cursor \in Nat /\ Len(stream) \in Nat
        /\ pel \subseteq 1..cursor
        /\ cursor' = cursor + 1 /\ cursor < Len(stream)
    BY <1>0, <2>1 DEF QueueTypeOK, DequeueAI
  <2>3. cursor' \in 0..Len(stream)
    BY <2>2
  <2>4. pel' \subseteq 1..cursor'
    BY <2>1, <2>2 DEF DequeueAI
  <2>5. QueueTypeOK'
    BY <1>0, <2>1, <2>3, <2>4 DEF QueueTypeOK, DequeueAI
  <2>6. WorkersTypeOK'
    BY <1>0, <1>3, <2>2
       DEF TypeOK, WorkersTypeOK, Dequeue, DequeueReplyLost, workerVars,
           WorkerPc, Responsible
  <2>7. TypeOK'
    BY <1>0, <1>3, <2>5, <2>6
       DEF TypeOK, Dequeue, DequeueReplyLost, reportVars, processVars
  <2>8. RequeueAllowed'
    BY <1>0, <1>3, <2>1
       DEF RequeueAllowed, TypeOK, WorkersTypeOK, Dequeue, DequeueReplyLost,
           DequeueAI, MessageOf, workerVars
  <2>9. QED
    BY <2>7, <2>8
<1>4. CASE SkipCancelled(w) \/ NotCancelled(w) \/ AlreadyDone(w) \/ NotDone(w)
           \/ ProcessOk(w)
  <2>1. /\ wpc[w] # "idle"
        /\ UNCHANGED queueVars /\ UNCHANGED processVars
        /\ UNCHANGED <<pageDone, pageFailed>>
    BY <1>4 DEF SkipCancelled, NotCancelled, AlreadyDone, NotDone, ProcessOk,
                reportVars
  <2>2. Release(w) \/ \E l \in WorkerPc \ {"idle", "requeue"} : Goto(w, l)
    BY <1>4 DEF SkipCancelled, NotCancelled, AlreadyDone, NotDone, ProcessOk,
                WorkerPc, Responsible
  <2>3. pageDone' \in [Page -> Nat] /\ pageFailed' \in [Page -> Nat]
    BY <1>0, <2>1 DEF TypeOK
  <2>4. QED
    BY <1>1, <2>1, <2>2, <2>3
<1>5. CASE ProcessFails(w)
  <2>1. MessageOf(w).attempt \in 1..MaxAttempts /\ MaxAttempts \in Nat
    BY <1>0, <1>5, HeldEntry, MaxAttemptsAssumption
       DEF ProcessFails, Message
  <2>2. QED
    BY <1>0, <1>1, <1>5, <2>1
       DEF ProcessFails, reportVars, TypeOK, WorkerPc, Responsible
<1>6. CASE PostDone(w)
  <2>1. PageOf(w) \in Page
    BY <1>0, <1>6, HeldEntry DEF PostDone
  <2>2. pageDone' \in [Page -> Nat]
    BY <1>0, <1>6, <2>1 DEF PostDone, Post, TypeOK
  <2>3. QED
    BY <1>0, <1>1, <1>6, <2>2
       DEF PostDone, TypeOK, WorkerPc, Responsible
<1>7. CASE PostFailed(w)
  <2>1. PageOf(w) \in Page
    BY <1>0, <1>7, HeldEntry DEF PostFailed
  <2>2. pageFailed' \in [Page -> Nat]
    BY <1>0, <1>7, <2>1 DEF PostFailed, Post, TypeOK
  <2>3. QED
    BY <1>0, <1>1, <1>7, <2>2 DEF PostFailed, TypeOK
<1>8. CASE MarkIdem(w)
  <2>1. PageOf(w) \in Page
    BY <1>0, <1>8, HeldEntry DEF MarkIdem
  <2>2. QueueTypeOK'
    BY <1>0, <1>8, <2>1 DEF QueueTypeOK, MarkIdem, MarkIdemDone
  <2>3. QED
    BY <1>2, <1>8, <2>2
       DEF MarkIdem, MarkIdemDone, WorkerPc, Responsible
<1>9. CASE AckEntry(w) \/ AckDLQ(w)
  <2>1. QueueTypeOK'
    BY <1>0, <1>9 DEF QueueTypeOK, AckEntry, AckDLQ, Ack
  <2>2. QED
    BY <1>2, <1>9, <2>1
       DEF AckEntry, AckDLQ, Ack, WorkerPc, Responsible
<1>10. CASE PutOnDLQ(w)
  <2>1. MessageOf(w) \in Message
    BY <1>0, <1>10, HeldEntry DEF PutOnDLQ
  <2>2. QueueTypeOK'
    BY <1>0, <1>10, <2>1 DEF QueueTypeOK, PutOnDLQ, AddDLQ
  <2>3. QED
    BY <1>2, <1>10, <2>2 DEF PutOnDLQ, AddDLQ, WorkerPc, Responsible
<1>11. CASE Requeue(w)
  <2>1. MessageOf(w) \in Message /\ MessageOf(w).attempt < MaxAttempts
    BY <1>0, <1>11, HeldEntry DEF Requeue, RequeueAllowed
  <2>2. NextAttempt(MessageOf(w)) \in Message
    BY <2>1, MaxAttemptsAssumption DEF NextAttempt, Message
  <2>3. IsFiniteSet(delayed')
    BY <1>0, <1>11, FS_AddElement
       DEF QueueTypeOK, Requeue, EnqueueDelayed
  <2>4. QueueTypeOK'
    BY <1>0, <1>11, <2>2, <2>3 DEF QueueTypeOK, Requeue, EnqueueDelayed
  <2>5. QED
    BY <1>2, <1>11, <2>4
       DEF Requeue, EnqueueDelayed, WorkerPc, Responsible
<1>12. QED
  BY <1>3, <1>4, <1>5, <1>6, <1>7, <1>8, <1>9, <1>10, <1>11 DEF WorkerStep

\* Every step of a mover keeps the state well typed.
LEMMA MoverStepType ==
    ASSUME TypeInv, NEW m \in Movers, MoverStep(m)
    PROVE  TypeInv'
<1>0. TypeOK /\ QueueTypeOK /\ RequeueAllowed
  BY DEF TypeInv, TypeOK
<1>1. /\ cursor' = cursor
      /\ UNCHANGED <<wpc, held, pageDone, pageFailed, serving, restarts>>
  BY DEF MoverStep, MoverFetch, MoverExec, MoverExecFails, workerVars,
         reportVars, processVars
<1>2. /\ QueueTypeOK'
      /\ Len(stream) <= Len(stream')
      /\ \A i \in 1..Len(stream) : stream'[i] = stream[i]
  <2>1. CASE MoverFetch(m)
    <3>1. PICK due \in SUBSET delayed : batch' = [batch EXCEPT ![m] = due]
      BY <2>1 DEF MoverFetch
    <3>2. IsFiniteSet(due)
      BY <1>0, <3>1, FS_Subset DEF QueueTypeOK
    <3>3. batch' \in [Movers -> SUBSET Message]
      BY <1>0, <3>1 DEF QueueTypeOK
    <3>4. \A n \in Movers : IsFiniteSet(batch'[n])
      BY <1>0, <3>1, <3>2 DEF QueueTypeOK
    <3>5. QED
      BY <1>0, <2>1, <3>3, <3>4 DEF QueueTypeOK, MoverFetch
  <2>2. CASE MoverExecFails(m)
    <3>1. IsFiniteSet({})
      BY FS_EmptySet
    <3>2. batch' \in [Movers -> SUBSET Message]
      BY <1>0, <2>2 DEF QueueTypeOK, MoverExecFails
    <3>3. \A n \in Movers : IsFiniteSet(batch'[n])
      BY <1>0, <2>2, <3>1 DEF QueueTypeOK, MoverExecFails
    <3>4. QED
      BY <1>0, <2>2, <3>2, <3>3 DEF QueueTypeOK, MoverExecFails
  <2>3. CASE MoverExec(m)
    <3>1. PICK s \in Orderings(batch[m]) : stream' = stream \o s
      BY <2>3 DEF MoverExec
    <3>2. batch[m] \subseteq Message /\ IsFiniteSet(batch[m])
      BY <1>0 DEF QueueTypeOK
    <3>3. s \in Seq(Message)
      BY <3>1, <3>2, OrderingsSeq
    <3>4. /\ stream' \in Seq(Message)
          /\ Len(stream) <= Len(stream')
          /\ \A i \in 1..Len(stream) : stream'[i] = stream[i]
      <4>1. Len(s) \in Nat /\ Len(stream) \in Nat
        BY <1>0, <3>3 DEF QueueTypeOK
      <4>2. QED
        BY <1>0, <3>1, <3>3, <4>1, StreamGrows
    <3>5. cursor' \in 0..Len(stream') /\ pel' \subseteq 1..cursor'
      <4>1. /\ Len(stream) \in Nat /\ Len(stream') \in Nat
            /\ cursor \in 0..Len(stream) /\ pel \subseteq 1..cursor
        BY <1>0, <3>4 DEF QueueTypeOK
      <4>2. QED
        BY <1>1, <2>3, <3>4, <4>1 DEF MoverExec
    <3>6. delayed' \subseteq Message /\ IsFiniteSet(delayed')
      BY <1>0, <2>3, FS_Subset DEF QueueTypeOK, MoverExec
    <3>7. batch' \in [Movers -> SUBSET Message]
      BY <1>0, <2>3 DEF QueueTypeOK, MoverExec
    <3>8. \A n \in Movers : IsFiniteSet(batch'[n])
      BY <1>0, <2>3, FS_EmptySet DEF QueueTypeOK, MoverExec
    <3>9. QED
      BY <1>0, <2>3, <3>4, <3>5, <3>6, <3>7, <3>8 DEF QueueTypeOK, MoverExec
  <2>4. QED
    BY <2>1, <2>2, <2>3 DEF MoverStep
<1>3. TypeOK'
  BY <1>0, <1>1, <1>2 DEF TypeOK, WorkersTypeOK
<1>4. RequeueAllowed'
  <2>1. \A w \in Workers : wpc[w] = "requeue" => held[w] \in 1..Len(stream)
    BY <1>0, HeldEntry
  <2>2. QED
    BY <1>0, <1>1, <1>2, <2>1 DEF RequeueAllowed, MessageOf
<1>5. QED
  BY <1>3, <1>4 DEF TypeInv

\* Every other step keeps the state well typed.
LEMMA OtherStepType ==
    ASSUME TypeInv,
           \/ \E p \in Page : Submit(p) \/ Expire(p)
           \/ \E j \in Jobs : Cancel(j)
           \/ BeginShutdown
           \/ Restart
           \/ UNCHANGED vars
    PROVE  TypeInv'
<1>0. TypeOK /\ QueueTypeOK /\ WorkersTypeOK /\ RequeueAllowed
  BY DEF TypeInv, TypeOK
<1>1. ASSUME NEW p \in Page, Submit(p)
      PROVE  TypeInv'
  <2>1. [page |-> p, attempt |-> 1] \in Message
    BY MaxAttemptsAssumption DEF Message
  <2>2. /\ stream' \in Seq(Message)
        /\ Len(stream') = Len(stream) + 1
        /\ \A i \in 1..Len(stream) : stream'[i] = stream[i]
    BY <1>0, <1>1, <2>1 DEF Submit, EnqueueAI, QueueTypeOK
  <2>3. cursor' \in 0..Len(stream')
    BY <1>0, <1>1, <2>2 DEF Submit, EnqueueAI, QueueTypeOK
  <2>4. QueueTypeOK'
    BY <1>0, <1>1, <2>2, <2>3 DEF Submit, EnqueueAI, QueueTypeOK
  <2>5. TypeOK'
    BY <1>0, <1>1, <2>4
       DEF Submit, EnqueueAI, TypeOK, WorkersTypeOK, workerVars, reportVars,
           processVars
  <2>6. \A w \in Workers : wpc[w] = "requeue" => held[w] \in 1..Len(stream)
    BY <1>0, HeldEntry
  <2>7. RequeueAllowed'
    BY <1>0, <1>1, <2>2, <2>6
       DEF Submit, EnqueueAI, RequeueAllowed, MessageOf, workerVars
  <2>8. QED
    BY <2>5, <2>7 DEF TypeInv
<1>2. ASSUME stream' = stream, cursor' = cursor, wpc' = wpc, held' = held,
             QueueTypeOK', UNCHANGED reportVars,
             serving' \in BOOLEAN, restarts' = restarts
      PROVE  TypeInv'
  BY <1>0, <1>2 DEF TypeInv, TypeOK, WorkersTypeOK, RequeueAllowed, MessageOf,
                    reportVars
<1>3. ASSUME NEW p \in Page, Expire(p)
      PROVE  TypeInv'
  <2>1. QueueTypeOK'
    BY <1>0, <1>3 DEF Expire, IdemExpires, QueueTypeOK
  <2>2. QED
    BY <1>0, <1>2, <1>3, <2>1
       DEF Expire, IdemExpires, workerVars, processVars, TypeOK
<1>4. ASSUME NEW j \in Jobs, Cancel(j)
      PROVE  TypeInv'
  <2>1. QueueTypeOK'
    BY <1>0, <1>4 DEF Cancel, CancelJob, QueueTypeOK
  <2>2. QED
    BY <1>0, <1>2, <1>4, <2>1
       DEF Cancel, CancelJob, workerVars, processVars, TypeOK
<1>5. CASE BeginShutdown
  <2>1. QueueTypeOK'
    BY <1>0, <1>5 DEF BeginShutdown, QueueTypeOK, queueVars
  <2>2. QED
    BY <1>2, <1>5, <2>1 DEF BeginShutdown, queueVars, workerVars
<1>6. CASE Restart
  <2>1. QueueTypeOK'
    <3>1. batch' \in [Movers -> SUBSET Message]
      BY <1>6 DEF Restart
    <3>2. \A m \in Movers : IsFiniteSet(batch'[m])
      BY <1>6, FS_EmptySet DEF Restart
    <3>3. QED
      BY <1>0, <1>6, <3>1, <3>2 DEF Restart, QueueTypeOK
  <2>2. WorkersTypeOK'
    BY <1>0, <1>6 DEF Restart, WorkersTypeOK, QueueTypeOK, WorkerPc
  <2>3. restarts' \in 0..MaxRestarts
    BY <1>0, <1>6, MaxRestartsAssumption DEF Restart, TypeOK
  <2>4. TypeOK'
    BY <1>0, <1>6, <2>1, <2>2, <2>3 DEF Restart, TypeOK, reportVars
  <2>5. RequeueAllowed'
    BY <1>6 DEF Restart, RequeueAllowed
  <2>6. QED
    BY <2>4, <2>5 DEF TypeInv
<1>7. CASE UNCHANGED vars
  <2>1. QueueTypeOK'
    BY <1>0, <1>7 DEF vars, queueVars, QueueTypeOK
  <2>2. QED
    BY <1>0, <1>2, <1>7, <2>1
       DEF vars, queueVars, workerVars, processVars, TypeOK
<1>8. QED
  BY <1>1, <1>3, <1>4, <1>5, <1>6, <1>7

LEMMA TypeStep == TypeInv /\ [Next]_vars => TypeInv'
  BY WorkerStepType, MoverStepType, OtherStepType DEF Next

\* Type correctness, with the budget check that the attempt number of a retry
\* rests on.
THEOREM TypeCorrect == Spec => [](TypeOK /\ RequeueAllowed)
<1>1. Spec => []TypeInv
  BY InitType, TypeStep, PTL DEF Spec
<1>2. TypeInv => TypeOK /\ RequeueAllowed
  BY DEF TypeInv
<1>3. QED
  BY <1>1, <1>2, PTL

-----------------------------------------------------------------------------
(* One copy of a page, one report, a bounded number of retries.  Movers of *)
(* two processes may both append what both fetched, so this half is about  *)
(* a single mover.                                                         *)

SingleMover == \A m, n \in Movers : m = n

\* An entry somebody still has to deal with is the last one of its page.
LiveLast ==
    \A i \in LiveEntries, k \in 1..Len(stream) :
        i < k => stream[i].page # stream[k].page

OneHolder ==
    \A v, w \in Workers :
        wpc[v] \in Responsible /\ held[v] = held[w] => v = w

DelayedAlone ==
    \A d \in delayed :
        /\ \A i \in LiveEntries : stream[i].page # d.page
        /\ \A e \in delayed : e.page = d.page => e = d

\* A delayed message is the next attempt of an entry on the stream.
DelayedNext ==
    \A d \in delayed :
        /\ Enqueued(d.page)
        /\ \A i \in 1..Len(stream) :
              stream[i].page = d.page => stream[i].attempt < d.attempt

ReportedEnqueued == \A p \in Page : Reported(p) => Enqueued(p)

QueueInv ==
    /\ LiveLast
    /\ DelayedAlone
    /\ DelayedNext
    /\ ReportedEnqueued
    /\ ReportedOnce
    /\ RetryBudget

BatchDelayed == \A m \in Movers : batch[m] \subseteq delayed

IInv == TypeInv /\ QueueInv /\ OneHolder /\ BatchDelayed

LEMMA EntryTypes ==
    ASSUME TypeOK, NEW k \in 1..Len(stream)
    PROVE  /\ stream[k] \in Message
           /\ stream[k].page \in Page
           /\ stream[k].attempt \in Nat
<1>1. stream[k] \in Message
  BY DEF TypeOK, QueueTypeOK
<1>2. stream[k].attempt \in 1..MaxAttempts /\ stream[k].page \in Page
  BY <1>1 DEF Message
<1>3. QED
  BY <1>1, <1>2, MaxAttemptsAssumption

LEMMA LiveInStream ==
    ASSUME TypeOK
    PROVE  /\ LiveEntries \subseteq 1..Len(stream)
           /\ \A w \in Workers : wpc[w] \in Responsible => held[w] \in LiveEntries
<1>1. \A w \in Workers : wpc[w] \in Responsible => held[w] \in 1..Len(stream)
  BY HeldEntry DEF Responsible
<1>2. Unread \subseteq 1..Len(stream)
  BY DEF TypeOK, QueueTypeOK, Unread
<1>3. QED
  BY <1>1, <1>2 DEF LiveEntries

\* Two live entries of one page are the same entry.
LEMMA LiveUnique ==
    ASSUME TypeOK, LiveLast, NEW i \in LiveEntries, NEW k \in LiveEntries,
           stream[i].page = stream[k].page
    PROVE  i = k
<1>1. i \in 1..Len(stream) /\ k \in 1..Len(stream) /\ Len(stream) \in Nat
  BY LiveInStream DEF TypeOK, QueueTypeOK
<1>2. ~ (i < k) /\ ~ (k < i)
  BY <1>1 DEF LiveLast
<1>3. QED
  BY <1>1, <1>2

\* A step that only takes live entries away keeps the queue part.
LEMMA QueueInvShrinks ==
    ASSUME TypeOK, QueueInv, stream' = stream, delayed' = delayed,
           UNCHANGED reportVars, LiveEntries' \subseteq LiveEntries
    PROVE  QueueInv'
<1> USE DEF QueueInv
<1>1. LiveLast'
  BY DEF LiveLast
<1>2. DelayedAlone'
  BY DEF DelayedAlone
<1>3. DelayedNext' /\ ReportedEnqueued' /\ RetryBudget'
  BY DEF DelayedNext, ReportedEnqueued, RetryBudget, Reported, Enqueued,
         reportVars
<1>4. ReportedOnce'
  BY DEF ReportedOnce, Reported, reportVars
<1>5. QED
  BY <1>1, <1>2, <1>3, <1>4

\* The workers of a step that takes no new entry: each one goes on with its
\* entry or gives it up.
KeepsOrDrops ==
    \A v \in Workers :
        /\ wpc'[v] \in Responsible => /\ wpc[v] \in Responsible
                                      /\ held'[v] = held[v]
        /\ held'[v] \in {held[v], 0}

LEMMA KeepsOrDropsShrinks ==
    ASSUME TypeOK, OneHolder, stream' = stream, cursor' = cursor, KeepsOrDrops
    PROVE  LiveEntries' \subseteq LiveEntries /\ OneHolder'
<1>1. LiveEntries' \subseteq LiveEntries
  BY DEF LiveEntries, Unread, KeepsOrDrops
<1>2. \A v \in Workers : wpc[v] \in Responsible => held[v] # 0
  BY DEF TypeOK, WorkersTypeOK, Responsible
<1>3. OneHolder'
  BY <1>2 DEF OneHolder, KeepsOrDrops
<1>4. QED
  BY <1>1, <1>3

\* A step that neither reports a page nor moves a message.
LEMMA QuietStep ==
    ASSUME IInv, TypeInv', KeepsOrDrops, UNCHANGED <<stream, cursor, delayed>>,
           UNCHANGED reportVars,
           \A m \in Movers : batch'[m] \subseteq delayed
    PROVE  IInv'
<1>1. TypeOK
  BY DEF IInv, TypeInv
<1>2. LiveEntries' \subseteq LiveEntries /\ OneHolder'
  BY <1>1, KeepsOrDropsShrinks DEF IInv
<1>3. QueueInv'
  BY <1>1, <1>2, QueueInvShrinks DEF IInv
<1>4. BatchDelayed'
  BY DEF BatchDelayed
<1>5. QED
  BY <1>2, <1>3, <1>4 DEF IInv

\* A worker that moves on or releases its entry keeps or drops it.
LEMMA MovesOn ==
    ASSUME TypeOK, NEW w \in Workers,
           \/ Release(w)
           \/ \E l \in WorkerPc : Goto(w, l) /\ wpc[w] \in Responsible
           \/ \E l \in WorkerPc \ Responsible : Goto(w, l)
    PROVE  KeepsOrDrops
<1>1. CASE Release(w)
  BY <1>1 DEF Release, KeepsOrDrops, TypeOK, WorkersTypeOK, Responsible
<1>2. CASE \E l \in WorkerPc : Goto(w, l) /\ wpc[w] \in Responsible
  BY <1>2 DEF Goto, KeepsOrDrops, TypeOK, WorkersTypeOK
<1>3. CASE \E l \in WorkerPc \ Responsible : Goto(w, l)
  BY <1>3 DEF Goto, KeepsOrDrops, TypeOK, WorkersTypeOK
<1>4. QED
  BY <1>1, <1>2, <1>3

\* Once the worker responsible for an entry is no longer so, its page has no
\* live entry.
LEMMA LeavesNoLiveEntry ==
    ASSUME IInv, NEW w \in Workers, wpc[w] \in Responsible,
           stream' = stream, cursor' = cursor,
           \/ Release(w)
           \/ \E l \in WorkerPc \ Responsible : Goto(w, l)
    PROVE  /\ LiveEntries' \subseteq LiveEntries
           /\ OneHolder'
           /\ \A k \in LiveEntries' : stream[k].page # PageOf(w)
<1>1. TypeOK /\ LiveLast /\ OneHolder
  BY DEF IInv, TypeInv, QueueInv
<1>2. KeepsOrDrops
  BY <1>1, MovesOn
<1>3. LiveEntries' \subseteq LiveEntries /\ OneHolder'
  BY <1>1, <1>2, KeepsOrDropsShrinks
<1>4. held[w] \notin LiveEntries'
  <2>1. held[w] \in 1..cursor /\ cursor \in Nat
    BY <1>1, HeldEntry DEF Responsible, TypeOK, QueueTypeOK
  <2>2. held[w] \notin Unread'
    BY <2>1 DEF Unread
  <2>3. wpc'[w] \notin Responsible
    BY <1>1 DEF Release, Goto, Responsible, TypeOK, WorkersTypeOK
  <2>4. \A v \in Workers : wpc'[v] \in Responsible => held'[v] # held[w]
    BY <1>1, <1>2, <2>3 DEF KeepsOrDrops, OneHolder
  <2>5. QED
    BY <2>2, <2>4 DEF LiveEntries
<1>5. ASSUME NEW k \in LiveEntries', stream[k].page = PageOf(w)
      PROVE  FALSE
  <2>1. k \in LiveEntries /\ held[w] \in LiveEntries
    BY <1>1, <1>3, <1>5, LiveInStream
  <2>2. k = held[w]
    BY <1>1, <1>5, <2>1, LiveUnique DEF PageOf, MessageOf
  <2>3. QED
    BY <1>4, <1>5, <2>2
<1>6. QED
  BY <1>3, <1>5

\* A report for a page whose last live entry the worker gives up.
LEMMA ReportStep ==
    ASSUME IInv, NEW w \in Workers, wpc[w] \in Responsible, TypeInv',
           UNCHANGED <<stream, cursor, delayed, batch>>,
           \/ Release(w)
           \/ \E l \in WorkerPc \ Responsible : Goto(w, l),
           \/ /\ pageDone' = [pageDone EXCEPT ![PageOf(w)] = @ + 1]
              /\ pageFailed' = pageFailed
           \/ /\ pageFailed' = [pageFailed EXCEPT ![PageOf(w)] = @ + 1]
              /\ pageDone' = pageDone
    PROVE  IInv'
<1> DEFINE p == PageOf(w)
<1>1. TypeOK /\ held[w] \in 1..Len(stream) /\ p \in Page
  BY HeldEntry DEF IInv, TypeInv, Responsible
<1>2. /\ LiveEntries' \subseteq LiveEntries /\ OneHolder'
      /\ \A k \in LiveEntries' : stream[k].page # p
  BY LeavesNoLiveEntry
<1>3. held[w] \in LiveEntries /\ stream[held[w]].page = p
  BY <1>1, LiveInStream DEF PageOf, MessageOf
<1>4. ~ Reported(p) /\ \A d \in delayed : d.page # p
  BY <1>1, <1>3 DEF IInv, QueueInv, ReportedOnce, DelayedAlone
<1>5. /\ pageDone[p] = 0 /\ pageFailed[p] = 0
      /\ pageDone'[p] + pageFailed'[p] = 1
  <2>1. pageDone[p] \in Nat /\ pageFailed[p] \in Nat
    BY <1>1 DEF TypeOK
  <2>2. pageDone[p] = 0 /\ pageFailed[p] = 0
    BY <1>4, <2>1 DEF Reported
  <2>3. QED
    BY <1>1, <2>2 DEF TypeOK
<1>6. \A q \in Page \ {p} : /\ pageDone'[q] = pageDone[q]
                            /\ pageFailed'[q] = pageFailed[q]
  BY <1>1 DEF TypeOK
<1>7. ReportedOnce'
  <2>1. ASSUME NEW q \in Page
        PROVE  /\ pageDone'[q] + pageFailed'[q] <= 1
               /\ Reported(q)' => /\ \A k \in LiveEntries' : stream[k].page # q
                                  /\ \A d \in delayed : d.page # q
    <3>1. CASE q = p
      BY <1>2, <1>4, <1>5, <3>1
    <3>2. CASE q # p
      BY <1>2, <1>6, <3>2 DEF IInv, QueueInv, ReportedOnce, Reported
    <3>3. QED
      BY <3>1, <3>2
  <2>2. QED
    BY <2>1 DEF ReportedOnce
<1>8. ReportedEnqueued'
  BY <1>1, <1>3, <1>6
     DEF IInv, QueueInv, ReportedEnqueued, Reported, Enqueued
<1>9. LiveLast' /\ DelayedAlone' /\ DelayedNext' /\ RetryBudget'
  BY <1>2 DEF IInv, QueueInv, LiveLast, DelayedAlone, DelayedNext,
              RetryBudget, Enqueued
<1>10. BatchDelayed'
  BY DEF IInv, BatchDelayed
<1>11. QED
  BY <1>2, <1>7, <1>8, <1>9, <1>10 DEF IInv, QueueInv

\* A retry: the worker's copy of the page becomes a delayed message.
LEMMA RequeueStep ==
    ASSUME IInv, NEW w \in Workers, Requeue(w), TypeInv'
    PROVE  IInv'
<1> DEFINE p == PageOf(w)
           msg == NextAttempt(MessageOf(w))
<1>1. TypeOK /\ held[w] \in 1..Len(stream) /\ p \in Page
  BY HeldEntry DEF IInv, TypeInv, Requeue
<1>2. /\ wpc[w] \in Responsible
      /\ \E l \in WorkerPc \ Responsible : Goto(w, l)
      /\ UNCHANGED <<stream, cursor, batch>> /\ UNCHANGED reportVars
  BY DEF Requeue, EnqueueDelayed, Responsible, WorkerPc
<1>3. /\ LiveEntries' \subseteq LiveEntries /\ OneHolder'
      /\ \A k \in LiveEntries' : stream[k].page # p
  BY <1>2, LeavesNoLiveEntry
<1>4. CASE delayed' = delayed
  <2>1. QueueInv'
    BY <1>1, <1>2, <1>3, <1>4, QueueInvShrinks DEF IInv
  <2>2. BatchDelayed'
    BY <1>2, <1>4 DEF IInv, BatchDelayed
  <2>3. QED
    BY <1>3, <2>1, <2>2 DEF IInv
<1>5. CASE delayed' = delayed \cup {msg}
  <2>1. /\ held[w] \in LiveEntries /\ stream[held[w]].page = p
        /\ stream[held[w]] = MessageOf(w)
    BY <1>1, <1>2, LiveInStream DEF PageOf, MessageOf
  <2>2. /\ MessageOf(w) \in Message
        /\ msg.page = p /\ msg.attempt = MessageOf(w).attempt + 1
    <3>1. MessageOf(w) \in Message
      BY <1>1, <1>2, HeldEntry DEF Responsible
    <3>2. QED
      BY <3>1 DEF NextAttempt, PageOf, Message
  <2>3. ~ Reported(p) /\ \A d \in delayed : d.page # p
    BY <1>1, <2>1 DEF IInv, QueueInv, ReportedOnce, DelayedAlone
  <2>4. DelayedAlone'
    BY <1>2, <1>3, <1>5, <2>2, <2>3 DEF IInv, QueueInv, DelayedAlone
  <2>5. \A k \in 1..Len(stream) :
           stream[k].page = p => stream[k].attempt < msg.attempt
    <3>1. ASSUME NEW k \in 1..Len(stream), stream[k].page = p
          PROVE  stream[k].attempt <= stream[held[w]].attempt
      <4>1. /\ stream[k].attempt \in Nat /\ stream[held[w]].attempt \in Nat
            /\ Len(stream) \in Nat
        BY <1>1, EntryTypes DEF TypeOK, QueueTypeOK
      <4>2. ~ (held[w] < k)
        BY <2>1, <3>1 DEF IInv, QueueInv, LiveLast
      <4>3. CASE k = held[w]
        BY <4>1, <4>3
      <4>4. CASE k < held[w]
        BY <1>1, <2>1, <3>1, <4>1, <4>4 DEF IInv, QueueInv, RetryBudget
      <4>5. QED
        BY <1>1, <4>1, <4>2, <4>3, <4>4
    <3>2. \A k \in 1..Len(stream) : stream[k].attempt \in Nat
      BY <1>1, EntryTypes
    <3>3. QED
      BY <1>1, <2>1, <2>2, <3>1, <3>2
  <2>6. DelayedNext'
    BY <1>1, <1>2, <1>5, <2>1, <2>2, <2>5
       DEF IInv, QueueInv, DelayedNext, Enqueued
  <2>7. LiveLast' /\ RetryBudget' /\ ReportedEnqueued'
    BY <1>2, <1>3 DEF IInv, QueueInv, LiveLast, RetryBudget, ReportedEnqueued,
                      Reported, Enqueued, reportVars
  <2>8. ReportedOnce'
    BY <1>2, <1>3, <1>5, <2>2, <2>3
       DEF IInv, QueueInv, ReportedOnce, Reported, reportVars
  <2>9. BatchDelayed'
    BY <1>2, <1>5 DEF IInv, BatchDelayed
  <2>10. QED
    BY <1>3, <2>4, <2>6, <2>7, <2>8, <2>9 DEF IInv, QueueInv
<1>6. QED
  BY <1>4, <1>5 DEF Requeue, EnqueueDelayed

LEMMA WorkerStepInv ==
    ASSUME IInv, NEW w \in Workers, WorkerStep(w), TypeInv'
    PROVE  IInv'
<1>1. TypeOK /\ QueueTypeOK /\ WorkersTypeOK
  BY DEF IInv, TypeInv, TypeOK
<1>2. ASSUME \/ Release(w)
             \/ \E l \in WorkerPc : Goto(w, l) /\ wpc[w] \in Responsible
             \/ \E l \in WorkerPc \ Responsible : Goto(w, l),
             UNCHANGED <<stream, cursor, delayed, batch>>, UNCHANGED reportVars
      PROVE  IInv'
  <2>1. KeepsOrDrops
    BY <1>1, <1>2, MovesOn
  <2>2. \A m \in Movers : batch'[m] \subseteq delayed
    BY <1>2 DEF IInv, BatchDelayed
  <2>3. QED
    BY <1>2, <2>1, <2>2, QuietStep
<1>3. CASE SkipCancelled(w) \/ NotCancelled(w) \/ AlreadyDone(w) \/ NotDone(w)
           \/ ProcessOk(w) \/ ProcessFails(w)
  <2>1. UNCHANGED queueVars /\ UNCHANGED reportVars
    BY <1>3 DEF SkipCancelled, NotCancelled, AlreadyDone, NotDone, ProcessOk,
                ProcessFails
  <2>2. \/ Release(w)
        \/ \E l \in WorkerPc : Goto(w, l) /\ wpc[w] \in Responsible
    BY <1>3 DEF SkipCancelled, NotCancelled, AlreadyDone, NotDone, ProcessOk,
                ProcessFails, WorkerPc, Responsible
  <2>3. QED
    BY <1>2, <2>1, <2>2 DEF queueVars
<1>4. CASE MarkIdem(w) \/ AckEntry(w)
  BY <1>2, <1>4 DEF MarkIdem, MarkIdemDone, AckEntry, Ack, WorkerPc,
                    Responsible
<1>5. CASE PutOnDLQ(w) \/ AckDLQ(w)
  BY <1>2, <1>5 DEF PutOnDLQ, AddDLQ, AckDLQ, Ack, WorkerPc, Responsible
<1>6. CASE PostDone(w)
  <2>1. /\ wpc[w] \in Responsible
        /\ \E l \in WorkerPc \ Responsible : Goto(w, l)
        /\ UNCHANGED <<stream, cursor, delayed, batch>>
        /\ pageFailed' = pageFailed
    BY <1>6 DEF PostDone, queueVars, WorkerPc, Responsible
  <2>2. CASE pageDone' = pageDone
    BY <1>2, <2>1, <2>2 DEF reportVars
  <2>3. CASE pageDone' = [pageDone EXCEPT ![PageOf(w)] = @ + 1]
    BY <2>1, <2>3, ReportStep
  <2>4. QED
    BY <1>6, <2>2, <2>3 DEF PostDone, Post
<1>7. CASE PostFailed(w)
  <2>1. /\ wpc[w] \in Responsible /\ Release(w)
        /\ UNCHANGED <<stream, cursor, delayed, batch>>
        /\ pageDone' = pageDone
    BY <1>7 DEF PostFailed, queueVars, Responsible
  <2>2. CASE pageFailed' = pageFailed
    BY <1>2, <2>1, <2>2 DEF reportVars
  <2>3. CASE pageFailed' = [pageFailed EXCEPT ![PageOf(w)] = @ + 1]
    BY <2>1, <2>3, ReportStep
  <2>4. QED
    BY <1>7, <2>2, <2>3 DEF PostFailed, Post
<1>8. CASE Requeue(w)
  BY <1>8, RequeueStep
<1>9. CASE Dequeue(w) \/ DequeueReplyLost(w)
  <2>1. /\ DequeueAI /\ UNCHANGED reportVars
        /\ cursor \in Nat /\ Len(stream) \in Nat
        /\ cursor < Len(stream) /\ cursor' = cursor + 1
        /\ UNCHANGED <<stream, delayed, batch>>
    BY <1>1, <1>9 DEF Dequeue, DequeueReplyLost, DequeueAI, QueueTypeOK
  <2>2. Unread' \subseteq Unread /\ cursor + 1 \in Unread
    BY <2>1 DEF Unread
  <2>3. \A v \in Workers : held[v] \in 0..cursor
    BY <1>1 DEF WorkersTypeOK
  <2>4. LiveEntries' \subseteq LiveEntries /\ OneHolder'
    <3>1. CASE Dequeue(w)
      <4>1. /\ wpc' = [wpc EXCEPT ![w] = "cancelCheck"]
            /\ held' = [held EXCEPT ![w] = cursor + 1]
        BY <3>1 DEF Dequeue
      <4>2. LiveEntries' \subseteq LiveEntries
        BY <1>1, <2>2, <4>1 DEF LiveEntries, WorkersTypeOK
      <4>3. \A v \in Workers \ {w} : held'[v] # held'[w]
        BY <1>1, <2>1, <2>3, <4>1 DEF WorkersTypeOK
      <4>4. OneHolder'
        BY <1>1, <4>1, <4>3 DEF IInv, OneHolder, WorkersTypeOK
      <4>5. QED
        BY <4>2, <4>4
    <3>2. CASE DequeueReplyLost(w)
      BY <2>2, <3>2 DEF IInv, OneHolder, LiveEntries, DequeueReplyLost,
                        workerVars
    <3>3. QED
      BY <1>9, <3>1, <3>2
  <2>5. QueueInv'
    BY <1>1, <2>1, <2>4, QueueInvShrinks DEF IInv
  <2>6. BatchDelayed'
    BY <2>1 DEF IInv, BatchDelayed
  <2>7. QED
    BY <2>4, <2>5, <2>6 DEF IInv
<1>10. QED
  BY <1>3, <1>4, <1>5, <1>6, <1>7, <1>8, <1>9 DEF WorkerStep

\* Messages put on the stream: new pages, or delayed ones whose only copies
\* leave the ZSET.
LEMMA AppendStep ==
    ASSUME IInv, TypeInv', NEW s \in Seq(Message), stream' = stream \o s,
           UNCHANGED <<cursor, wpc, held>>, UNCHANGED reportVars,
           delayed' \subseteq delayed, BatchDelayed',
           \A i \in 1..Len(s) :
              /\ \A k \in LiveEntries : stream[k].page # s[i].page
              /\ \A k \in 1..Len(stream) : stream[k].page = s[i].page =>
                    stream[k].attempt < s[i].attempt
              /\ \A d \in delayed' : d.page # s[i].page
              /\ ~ Reported(s[i].page)
              /\ \A k \in 1..Len(s) : s[i].page = s[k].page => i = k
    PROVE  IInv'
<1>1. /\ TypeOK /\ TypeOK' /\ Len(stream) \in Nat /\ Len(s) \in Nat
      /\ cursor \in 0..Len(stream)
      /\ QueueInv
  BY DEF IInv, TypeInv, TypeOK, QueueTypeOK
<1>2. /\ Len(stream') = Len(stream) + Len(s)
      /\ \A i \in 1..Len(stream) : stream'[i] = stream[i]
      /\ \A i \in (Len(stream) + 1)..Len(stream') :
            /\ stream'[i] = s[i - Len(stream)]
            /\ i - Len(stream) \in 1..Len(s)
  BY <1>1, StreamGrows
<1> DEFINE New == (Len(stream) + 1)..Len(stream')
<1>3. 1..Len(stream') = 1..Len(stream) \cup New
  BY <1>1, <1>2
<1>4. /\ LiveEntries' = LiveEntries \cup New
      /\ LiveEntries \subseteq 1..Len(stream)
      /\ New \subseteq LiveEntries'
  <2>1. Unread' = Unread \cup New
    BY <1>1, <1>2 DEF Unread
  <2>2. QED
    BY <1>1, <2>1, LiveInStream DEF LiveEntries
<1>5. \A i \in New :
         /\ \A k \in LiveEntries : stream[k].page # stream'[i].page
         /\ \A k \in 1..Len(stream) : stream[k].page = stream'[i].page =>
               stream[k].attempt < stream'[i].attempt
         /\ \A d \in delayed' : d.page # stream'[i].page
         /\ ~ Reported(stream'[i].page)
         /\ \A k \in New : stream'[i].page = stream'[k].page => i = k
  <2>1. ASSUME NEW i \in New
        PROVE  /\ \A k \in LiveEntries : stream[k].page # stream'[i].page
               /\ \A k \in 1..Len(stream) : stream[k].page = stream'[i].page =>
                     stream[k].attempt < stream'[i].attempt
               /\ \A d \in delayed' : d.page # stream'[i].page
               /\ ~ Reported(stream'[i].page)
    <3>1. stream'[i] = s[i - Len(stream)] /\ i - Len(stream) \in 1..Len(s)
      BY <1>2
    <3>2. QED
      BY <3>1
  <2>2. ASSUME NEW i \in New, NEW k \in New, stream'[i].page = stream'[k].page
        PROVE  i = k
    <3>1. /\ stream'[i] = s[i - Len(stream)] /\ i - Len(stream) \in 1..Len(s)
          /\ stream'[k] = s[k - Len(stream)] /\ k - Len(stream) \in 1..Len(s)
      BY <1>2
    <3>2. i - Len(stream) = k - Len(stream)
      BY <2>2, <3>1
    <3>3. i \in Int /\ k \in Int /\ Len(stream) \in Int
      BY <1>1
    <3>4. QED
      BY <3>2, <3>3
  <2>3. QED
    BY <2>1, <2>2
<1>6. LiveLast'
  <2>1. ASSUME NEW i \in LiveEntries', NEW k \in 1..Len(stream'), i < k,
               stream'[i].page = stream'[k].page
        PROVE  FALSE
    <3>1. CASE i \in LiveEntries /\ k \in 1..Len(stream)
      BY <1>1, <1>2, <1>4, <2>1, <3>1 DEF QueueInv, LiveLast
    <3>2. CASE i \in LiveEntries /\ k \in New
      BY <1>2, <1>4, <1>5, <2>1, <3>2
    <3>3. CASE i \in New /\ k \in 1..Len(stream)
      BY <1>1, <1>2, <2>1, <3>3
    <3>4. CASE i \in New /\ k \in New
      BY <1>1, <1>2, <1>5, <2>1, <3>4
    <3>5. QED
      BY <1>3, <1>4, <2>1, <3>1, <3>2, <3>3, <3>4
  <2>2. QED
    BY <2>1 DEF LiveLast
<1>7. DelayedAlone'
  BY <1>1, <1>2, <1>4, <1>5 DEF QueueInv, DelayedAlone
<1>8. /\ \A p : Enqueued(p) => Enqueued(p)'
      /\ DelayedNext' /\ ReportedEnqueued'
  <2>1. \A p : Enqueued(p) => Enqueued(p)'
    BY <1>2, <1>3 DEF Enqueued
  <2>2. DelayedNext'
    <3>1. ASSUME NEW d \in delayed', NEW i \in 1..Len(stream'),
                 stream'[i].page = d.page
          PROVE  stream'[i].attempt < d.attempt
      BY <1>1, <1>2, <1>3, <1>5, <3>1 DEF QueueInv, DelayedNext
    <3>2. QED
      BY <1>1, <2>1, <3>1 DEF QueueInv, DelayedNext
  <2>3. ReportedEnqueued'
    BY <1>1, <2>1 DEF QueueInv, ReportedEnqueued, Reported, reportVars
  <2>4. QED
    BY <2>1, <2>2, <2>3
<1>9. ReportedOnce'
  BY <1>1, <1>2, <1>4, <1>5
     DEF QueueInv, ReportedOnce, Reported, reportVars
<1>10. RetryBudget'
  <2>1. ASSUME NEW i \in 1..Len(stream'), NEW k \in 1..Len(stream'), i < k,
               stream'[i].page = stream'[k].page
        PROVE  stream'[i].attempt < stream'[k].attempt
    <3>1. CASE i \in 1..Len(stream) /\ k \in 1..Len(stream)
      BY <1>1, <1>2, <2>1, <3>1 DEF QueueInv, RetryBudget
    <3>2. CASE i \in 1..Len(stream) /\ k \in New
      BY <1>2, <1>5, <2>1, <3>2
    <3>3. CASE i \in New /\ k \in 1..Len(stream)
      BY <1>1, <1>2, <2>1, <3>3
    <3>4. CASE i \in New /\ k \in New
      BY <1>1, <1>2, <1>5, <2>1, <3>4
    <3>5. QED
      BY <1>3, <2>1, <3>1, <3>2, <3>3, <3>4
  <2>2. QED
    BY <2>1 DEF RetryBudget
<1>11. OneHolder'
  BY DEF IInv, OneHolder
<1>12. QED
  BY <1>6, <1>7, <1>8, <1>9, <1>10, <1>11 DEF IInv, QueueInv

LEMMA SubmitInv ==
    ASSUME IInv, NEW p \in Page, Submit(p), TypeInv'
    PROVE  IInv'
<1> DEFINE s == <<[page |-> p, attempt |-> 1]>>
<1>1. TypeOK /\ stream \in Seq(Message) /\ ~ Enqueued(p)
  BY DEF IInv, TypeInv, TypeOK, QueueTypeOK, Submit
<1>2. s \in Seq(Message) /\ Len(s) = 1 /\ s[1].page = p
  BY MaxAttemptsAssumption DEF Message
<1>3. stream' = stream \o s
  BY <1>1 DEF Submit, EnqueueAI
<1>4. \A k \in 1..Len(stream) : stream[k].page # p
  BY <1>1 DEF Enqueued
<1>5. /\ \A k \in LiveEntries : stream[k].page # p
      /\ \A d \in delayed : d.page # p
      /\ ~ Reported(p)
  BY <1>1, <1>4, LiveInStream
     DEF IInv, QueueInv, DelayedNext, ReportedEnqueued, Enqueued
<1>6. /\ UNCHANGED <<cursor, wpc, held, delayed, batch>>
      /\ UNCHANGED reportVars
  BY DEF Submit, EnqueueAI, workerVars
<1>7. BatchDelayed'
  BY <1>6 DEF IInv, BatchDelayed
<1>8. \A i \in 1..Len(s) : i = 1
  BY <1>2
<1> HIDE DEF s
<1>9. QED
  BY <1>2, <1>3, <1>4, <1>5, <1>6, <1>7, <1>8, AppendStep

LEMMA MoverStepInv ==
    ASSUME SingleMover, IInv, NEW m \in Movers, MoverStep(m), TypeInv'
    PROVE  IInv'
<1>1. TypeOK /\ QueueTypeOK /\ QueueInv /\ BatchDelayed
  BY DEF IInv, TypeInv, TypeOK
<1>2. CASE MoverFetch(m) \/ MoverExecFails(m)
  <2>1. UNCHANGED <<stream, cursor, delayed, wpc, held>> /\ UNCHANGED reportVars
    BY <1>2 DEF MoverStep, MoverFetch, MoverExecFails, workerVars
  <2>2. KeepsOrDrops
    BY <2>1 DEF KeepsOrDrops
  <2>3. \A n \in Movers : batch'[n] \subseteq delayed
    BY <1>1, <1>2 DEF MoverFetch, MoverExecFails, QueueTypeOK, BatchDelayed
  <2>4. QED
    BY <2>1, <2>2, <2>3, QuietStep
<1>3. CASE MoverExec(m)
  <2>1. PICK s \in Orderings(batch[m]) : stream' = stream \o s
    BY <1>3 DEF MoverExec
  <2>2. /\ IsFiniteSet(batch[m]) /\ batch[m] \subseteq delayed
        /\ batch[m] \subseteq Message
    BY <1>1 DEF QueueTypeOK, BatchDelayed
  <2>3. /\ s \in Seq(Message)
        /\ \A i \in 1..Len(s) : s[i] \in batch[m]
        /\ \A i, k \in 1..Len(s) : s[i] = s[k] => i = k
    BY <2>1, <2>2, OrderingsSeq
  <2>4. /\ delayed' = delayed \ batch[m]
        /\ UNCHANGED <<cursor, wpc, held>> /\ UNCHANGED reportVars
    BY <1>3 DEF MoverStep, MoverExec, workerVars
  <2>5. BatchDelayed'
    BY <1>1, <1>3 DEF SingleMover, MoverExec, QueueTypeOK, BatchDelayed
  <2>6. ASSUME NEW i \in 1..Len(s)
        PROVE  /\ \A k \in LiveEntries : stream[k].page # s[i].page
               /\ \A k \in 1..Len(stream) : stream[k].page = s[i].page =>
                     stream[k].attempt < s[i].attempt
               /\ \A d \in delayed' : d.page # s[i].page
               /\ ~ Reported(s[i].page)
               /\ \A k \in 1..Len(s) : s[i].page = s[k].page => i = k
    <3>1. s[i] \in delayed /\ s[i] \in batch[m] /\ s[i].page \in Page
      BY <2>2, <2>3 DEF Message
    <3>2. /\ \A k \in LiveEntries : stream[k].page # s[i].page
          /\ \A e \in delayed : e.page = s[i].page => e = s[i]
      BY <1>1, <3>1 DEF QueueInv, DelayedAlone
    <3>3. \A k \in 1..Len(stream) : stream[k].page = s[i].page =>
             stream[k].attempt < s[i].attempt
      BY <1>1, <3>1 DEF QueueInv, DelayedNext
    <3>4. \A d \in delayed' : d.page # s[i].page
      BY <2>4, <3>1, <3>2
    <3>5. ~ Reported(s[i].page)
      BY <1>1, <3>1 DEF QueueInv, ReportedOnce
    <3>6. \A k \in 1..Len(s) : s[i].page = s[k].page => i = k
      BY <2>2, <2>3, <3>2
    <3>7. QED
      BY <3>2, <3>3, <3>4, <3>5, <3>6
  <2>7. QED
    BY <2>1, <2>3, <2>4, <2>5, <2>6, AppendStep
<1>4. QED
  BY <1>2, <1>3 DEF MoverStep

LEMMA OtherStepInv ==
    ASSUME IInv, TypeInv',
           \/ \E p \in Page : Expire(p)
           \/ \E j \in Jobs : Cancel(j)
           \/ BeginShutdown
           \/ Restart
           \/ UNCHANGED vars
    PROVE  IInv'
<1>1. UNCHANGED <<stream, cursor, delayed>> /\ UNCHANGED reportVars
  BY DEF Expire, IdemExpires, Cancel, CancelJob, BeginShutdown, Restart, vars,
         queueVars
<1>2. \/ UNCHANGED <<wpc, held, batch>>
      \/ /\ wpc' = [w \in Workers |-> "idle"]
         /\ held' = [w \in Workers |-> 0]
         /\ batch' = [m \in Movers |-> {}]
  BY DEF Expire, IdemExpires, Cancel, CancelJob, BeginShutdown, Restart, vars,
         queueVars, workerVars
<1>3. KeepsOrDrops
  BY <1>2 DEF KeepsOrDrops, Responsible
<1>4. \A m \in Movers : batch'[m] \subseteq delayed
  BY <1>2 DEF IInv, BatchDelayed
<1>5. QED
  BY <1>1, <1>3, <1>4, QuietStep

LEMMA InitInv == Init => IInv
<1> SUFFICES ASSUME Init PROVE IInv
  OBVIOUS
<1>1. TypeInv
  BY InitType
<1>2. Len(stream) = 0 /\ cursor = 0 /\ delayed = {}
  BY DEF Init, QueueInit
<1>3. \A w \in Workers : wpc[w] \notin Responsible
  BY DEF Init, Responsible
<1>4. LiveEntries = {}
  BY <1>2, <1>3 DEF LiveEntries, Unread
<1>5. \A p \in Page : pageDone[p] = 0 /\ pageFailed[p] = 0
  BY DEF Init
<1>6. \A p \in Page : ~ Reported(p)
  BY <1>5 DEF Reported
<1>7. LiveLast /\ DelayedAlone /\ DelayedNext /\ ReportedEnqueued
  BY <1>2, <1>4, <1>6 DEF LiveLast, DelayedAlone, DelayedNext, ReportedEnqueued
<1>8. ReportedOnce
  BY <1>4, <1>5, <1>6 DEF ReportedOnce
<1>9. RetryBudget
  BY <1>2 DEF RetryBudget
<1>10. OneHolder /\ BatchDelayed
  BY <1>3 DEF OneHolder, BatchDelayed, Init, QueueInit
<1>11. QED
  BY <1>1, <1>7, <1>8, <1>9, <1>10 DEF IInv, QueueInv

LEMMA InvStep ==
    ASSUME SingleMover
    PROVE  IInv /\ [Next]_vars => IInv'
<1> SUFFICES ASSUME IInv, [Next]_vars PROVE IInv'
  OBVIOUS
<1>1. TypeInv'
  BY TypeStep DEF IInv
<1>2. QED
  BY <1>1, WorkerStepInv, SubmitInv, MoverStepInv, OtherStepInv DEF Next

\* With one mover, the inductive invariant holds in every reachable state.
THEOREM Invariance ==
    ASSUME SingleMover
    PROVE  Spec => []IInv
  BY InitInv, InvStep, PTL DEF Spec

LEMMA InvSingleCopy == IInv => SingleCopy
<1> SUFFICES ASSUME IInv PROVE SingleCopy
  OBVIOUS
<1>1. TypeOK /\ LiveLast /\ OneHolder /\ DelayedAlone
  BY DEF IInv, TypeInv, QueueInv
<1>2. \A i, k \in LiveEntries : stream[i].page = stream[k].page => i = k
  BY <1>1, LiveUnique
<1>3. QED
  BY <1>1, <1>2 DEF SingleCopy, OneHolder, DelayedAlone

\* A page is never in two places at once, whatever fails and however often
\* the process restarts.
THEOREM SingleCopyHolds ==
    ASSUME SingleMover
    PROVE  Spec => []SingleCopy
  BY Invariance, InvSingleCopy, PTL

\* The orchestrator hears of a page at most once.
THEOREM ReportedOnceHolds ==
    ASSUME SingleMover
    PROVE  Spec => []ReportedOnce
<1>1. IInv => ReportedOnce
  BY DEF IInv, QueueInv
<1>2. QED
  BY <1>1, Invariance, PTL

\* The attempt numbers of a page only grow along the stream.
THEOREM RetryBudgetHolds ==
    ASSUME SingleMover
    PROVE  Spec => []RetryBudget
<1>1. IInv => RetryBudget
  BY DEF IInv, QueueInv
<1>2. QED
  BY <1>1, Invariance, PTL

-----------------------------------------------------------------------------
(* No page is forgotten as long as no report, ZADD or dead-letter XADD gets *)
(* lost.  Here the number of movers does not matter.                       *)

NoLoss == Faults \cap {"Post", "EnqueueDelayed", "AddDLQ", "Shutdown"} = {}

\* What a worker knows when it comes to acknowledge its entry.
AckedIsSettled ==
    \A w \in Workers, i \in 1..Len(stream) :
        held[w] = i =>
            /\ wpc[w] = "markIdem" => Reported(stream[i].page)
            /\ wpc[w] \in {"ack", "ackDLQ"} => Settled(i)

IdemIsReported == \A p \in idemDone : Reported(p)

KeepInv ==
    /\ TypeInv
    /\ serving
    /\ IdemIsReported
    /\ AckedIsSettled
    /\ NothingForgotten

\* What no step takes back.
Grows ==
    /\ stream' \in Seq(Message)
    /\ Len(stream) <= Len(stream')
    /\ \A i \in 1..Len(stream) : stream'[i] = stream[i]
    /\ \A p \in Page : Reported(p) => Reported(p)'
    /\ dlq \subseteq dlq'
    /\ \A d \in delayed :
          \/ d \in delayed'
          \/ \E k \in (Len(stream) + 1)..Len(stream') : stream'[k].page = d.page

LEMMA GrowsFrame ==
    ASSUME TypeOK, stream' = stream, dlq \subseteq dlq',
           delayed \subseteq delayed',
           \A p \in Page : Reported(p) => Reported(p)'
    PROVE  Grows
  BY DEF TypeOK, QueueTypeOK, Grows

LEMMA ReportsGrow ==
    ASSUME TypeOK, NEW w \in Workers, PostDone(w) \/ PostFailed(w)
    PROVE  \A p \in Page : Reported(p) => Reported(p)'
<1>1. PageOf(w) \in Page
  BY HeldEntry DEF PostDone, PostFailed
<1>2. \A p \in Page : /\ pageDone[p] \in Nat /\ pageFailed[p] \in Nat
                      /\ pageDone'[p] \in {pageDone[p], pageDone[p] + 1}
                      /\ pageFailed'[p] \in {pageFailed[p], pageFailed[p] + 1}
  BY <1>1 DEF TypeOK, PostDone, PostFailed, Post
<1>3. QED
  BY <1>2 DEF Reported

LEMMA NextGrows == TypeOK /\ [Next]_vars => Grows
<1> SUFFICES ASSUME TypeOK, [Next]_vars PROVE Grows
  OBVIOUS
<1>0. QueueTypeOK
  BY DEF TypeOK
<1>1. ASSUME UNCHANGED <<stream, dlq, delayed>>, UNCHANGED reportVars
      PROVE  Grows
  BY <1>1, GrowsFrame DEF Reported, reportVars
<1>2. ASSUME NEW p \in Page, Submit(p)
      PROVE  Grows
  <2>1. [page |-> p, attempt |-> 1] \in Message
    BY MaxAttemptsAssumption DEF Message
  <2>2. /\ stream' \in Seq(Message)
        /\ Len(stream) <= Len(stream')
        /\ \A i \in 1..Len(stream) : stream'[i] = stream[i]
    BY <1>0, <1>2, <2>1 DEF Submit, EnqueueAI, QueueTypeOK
  <2>3. QED
    BY <1>2, <2>2
       DEF Grows, Submit, EnqueueAI, Reported, reportVars
<1>3. ASSUME NEW w \in Workers, WorkerStep(w)
      PROVE  Grows
  <2>1. CASE Dequeue(w) \/ DequeueReplyLost(w) \/ SkipCancelled(w)
             \/ NotCancelled(w) \/ AlreadyDone(w) \/ NotDone(w)
             \/ ProcessOk(w) \/ ProcessFails(w)
    BY <1>1, <2>1
       DEF Dequeue, DequeueReplyLost, DequeueAI, SkipCancelled, NotCancelled,
           AlreadyDone, NotDone, ProcessOk, ProcessFails, queueVars
  <2>2. CASE MarkIdem(w) \/ AckEntry(w) \/ AckDLQ(w)
    BY <1>1, <2>2 DEF MarkIdem, MarkIdemDone, AckEntry, AckDLQ, Ack
  <2>3. CASE PutOnDLQ(w) \/ Requeue(w)
    <3>1. /\ stream' = stream /\ dlq \subseteq dlq' /\ delayed \subseteq delayed'
          /\ UNCHANGED reportVars
      BY <2>3 DEF PutOnDLQ, AddDLQ, Requeue, EnqueueDelayed
    <3>2. QED
      BY <3>1, GrowsFrame DEF Reported, reportVars
  <2>4. CASE PostDone(w) \/ PostFailed(w)
    <3>1. UNCHANGED <<stream, dlq, delayed>>
      BY <2>4 DEF PostDone, PostFailed, queueVars
    <3>2. QED
      BY <2>4, <3>1, ReportsGrow, GrowsFrame
  <2>5. QED
    BY <1>3, <2>1, <2>2, <2>3, <2>4 DEF WorkerStep
<1>4. ASSUME NEW m \in Movers, MoverStep(m)
      PROVE  Grows
  <2>1. CASE MoverFetch(m) \/ MoverExecFails(m)
    BY <1>1, <1>4, <2>1 DEF MoverStep, MoverFetch, MoverExecFails
  <2>2. CASE MoverExec(m)
    <3>1. PICK s \in Orderings(batch[m]) : stream' = stream \o s
      BY <2>2 DEF MoverExec
    <3>2. batch[m] \subseteq Message /\ IsFiniteSet(batch[m])
      BY <1>0 DEF QueueTypeOK
    <3>3. /\ s \in Seq(Message)
          /\ \A x \in batch[m] : \E i \in 1..Len(s) : s[i] = x
      <4>1. s \in Seq(Message)
        BY <3>1, <3>2, OrderingsSeq
      <4>2. \A x \in batch[m] : \E i \in 1..Len(s) : s[i] = x
        <5>1. \A x \in batch[m] : \E i \in DOMAIN s : s[i] = x
          BY <3>1 DEF Orderings
        <5>2. DOMAIN s = 1..Len(s)
          BY <4>1
        <5>3. QED
          BY <5>1, <5>2
      <4>3. QED
        BY <4>1, <4>2
    <3>4. /\ stream' \in Seq(Message)
          /\ Len(stream') = Len(stream) + Len(s)
          /\ \A i \in 1..Len(stream) : stream'[i] = stream[i]
          /\ \A i \in (Len(stream) + 1)..Len(stream') :
                stream'[i] = s[i - Len(stream)]
      BY <3>1, <3>3, StreamGrows
    <3>5. Len(s) \in Nat /\ Len(stream) \in Nat
      BY <1>0, <3>3 DEF QueueTypeOK
    <3>6. ASSUME NEW d \in batch[m]
          PROVE  \E k \in (Len(stream) + 1)..Len(stream') :
                    stream'[k].page = d.page
      <4>1. PICK i \in 1..Len(s) : s[i] = d
        BY <3>3
      <4>2. /\ Len(stream) + i \in (Len(stream) + 1)..Len(stream')
            /\ (Len(stream) + i) - Len(stream) = i
        BY <3>4, <3>5
      <4>3. stream'[Len(stream) + i] = d
        BY <3>4, <4>1, <4>2
      <4>4. QED
        BY <4>2, <4>3
    <3>7. QED
      BY <1>4, <2>2, <3>4, <3>5, <3>6
         DEF Grows, MoverStep, MoverExec, Reported, reportVars
  <2>3. QED
    BY <1>4, <2>1, <2>2 DEF MoverStep
<1>5. ASSUME \/ \E p \in Page : Expire(p)
             \/ \E j \in Jobs : Cancel(j)
             \/ BeginShutdown \/ Restart \/ UNCHANGED vars
      PROVE  Grows
  BY <1>1, <1>5 DEF Expire, IdemExpires, Cancel, CancelJob, BeginShutdown,
                    Restart, vars, queueVars
<1>6. QED
  BY <1>2, <1>3, <1>4, <1>5 DEF Next

\* A settled entry stays settled.
LEMMA SettledStays ==
    ASSUME TypeOK, Grows, NEW i \in 1..Len(stream), Settled(i)
    PROVE  Settled(i)'
<1> DEFINE p == stream[i].page
<1>1. /\ p \in Page /\ stream'[i] = stream[i]
      /\ Len(stream) \in Nat /\ Len(stream') \in Nat
      /\ Len(stream) <= Len(stream')
  BY EntryTypes DEF TypeOK, QueueTypeOK, Grows
<1>2. CASE Reported(p)
  BY <1>1, <1>2 DEF Grows, Settled
<1>3. CASE \E d \in dlq : d.page = p
  BY <1>1, <1>3 DEF Grows, Settled
<1>4. CASE \E d \in delayed : d.page = p
  <2>1. PICK d \in delayed : d.page = p
    BY <1>4
  <2>2. CASE d \in delayed'
    BY <1>1, <2>1, <2>2 DEF Settled
  <2>3. CASE \E k \in (Len(stream) + 1)..Len(stream') : stream'[k].page = d.page
    <3>1. PICK k \in (Len(stream) + 1)..Len(stream') : stream'[k].page = p
      BY <2>1, <2>3
    <3>2. k \in 1..Len(stream') /\ i < k
      BY <1>1
    <3>3. QED
      BY <1>1, <3>1, <3>2 DEF Settled
  <2>4. QED
    BY <2>1, <2>2, <2>3 DEF Grows
<1>5. CASE \E k \in 1..Len(stream) : i < k /\ stream[k].page = p
  <2>1. PICK k \in 1..Len(stream) : i < k /\ stream[k].page = p
    BY <1>5
  <2>2. k \in 1..Len(stream') /\ stream'[k].page = p
    BY <1>1, <2>1 DEF Grows
  <2>3. QED
    BY <1>1, <2>1, <2>2 DEF Settled
<1>6. QED
  BY <1>2, <1>3, <1>4, <1>5 DEF Settled



\* A step of the system moves at most one worker, or resets all.
LEMMA WorkerMoves ==
    ASSUME TypeOK, [Next]_vars, NEW v \in Workers
    PROVE  \/ WorkerStep(v)
           \/ held'[v] = held[v] /\ wpc'[v] = wpc[v]
           \/ wpc'[v] = "idle"
<1>1. WorkersTypeOK
  BY DEF TypeOK
<1>2. ASSUME NEW w \in Workers, w # v, WorkerStep(w)
      PROVE  held'[v] = held[v] /\ wpc'[v] = wpc[v]
  <2>1. \/ \E l \in WorkerPc : wpc' = [wpc EXCEPT ![w] = l]
        \/ wpc' = wpc
    BY <1>2 DEF WorkerStep, Dequeue, DequeueReplyLost, SkipCancelled,
        NotCancelled, AlreadyDone, NotDone, ProcessOk, ProcessFails, PostDone,
        MarkIdem, AckEntry, PutOnDLQ, AckDLQ, PostFailed, Requeue, Goto,
        Release, workerVars, WorkerPc, Responsible
  <2>2. \/ \E i : held' = [held EXCEPT ![w] = i]
        \/ held' = held
    BY <1>2 DEF WorkerStep, Dequeue, DequeueReplyLost, SkipCancelled,
        NotCancelled, AlreadyDone, NotDone, ProcessOk, ProcessFails, PostDone,
        MarkIdem, AckEntry, PutOnDLQ, AckDLQ, PostFailed, Requeue, Goto,
        Release, workerVars
  <2>3. QED
    BY <1>1, <1>2, <2>1, <2>2 DEF WorkersTypeOK
<1>3. ASSUME ~ \E w \in Workers : WorkerStep(w)
      PROVE  \/ held'[v] = held[v] /\ wpc'[v] = wpc[v]
             \/ wpc'[v] = "idle"
  <2>1. UNCHANGED workerVars \/ wpc' = [w \in Workers |-> "idle"]
    BY <1>3 DEF Next, Submit, Expire, Cancel, MoverStep, BeginShutdown,
                Restart, vars
  <2>2. QED
    BY <2>1 DEF workerVars
<1>4. QED
  BY <1>2, <1>3

\* What each step of a worker lets it know.
LEMMA AckedStep ==
    ASSUME NoLoss, KeepInv, [Next]_vars, TypeInv', Grows
    PROVE  AckedIsSettled'
<1>1. TypeOK /\ WorkersTypeOK /\ QueueTypeOK
  BY DEF KeepInv, TypeInv, TypeOK
<1>2. \A k \in 1..Len(stream) : Settled(k) => Settled(k)'
  BY <1>1, SettledStays
<1> SUFFICES ASSUME NEW w \in Workers, NEW i \in 1..Len(stream'),
                    held'[w] = i
             PROVE  /\ wpc'[w] = "markIdem" => Reported(stream[i].page)'
                    /\ wpc'[w] \in {"ack", "ackDLQ"} => Settled(i)'
  BY DEF AckedIsSettled
<1>3. CASE wpc'[w] = "idle"
  BY <1>3
<1>4. CASE held'[w] = held[w] /\ wpc'[w] = wpc[w] /\ wpc[w] # "idle"
  <2>1. i \in 1..Len(stream) /\ stream'[i] = stream[i] /\ stream[i].page \in Page
    BY <1>1, <1>4, HeldEntry, EntryTypes DEF Grows
  <2>2. wpc[w] = "markIdem" => Reported(stream[i].page)
    BY <1>4, <2>1 DEF KeepInv, AckedIsSettled
  <2>3. wpc[w] \in {"ack", "ackDLQ"} => Settled(i)
    BY <1>4, <2>1 DEF KeepInv, AckedIsSettled
  <2>4. Reported(stream[i].page) => Reported(stream[i].page)'
    <3>1. PICK q \in Page : q = stream[i].page /\ q = stream'[i].page
      BY <2>1
    <3>2. Reported(q) => Reported(q)'
      BY DEF Grows
    <3>3. QED
      BY <3>1, <3>2 DEF Reported
  <2>5. QED
    BY <1>2, <1>4, <2>1, <2>2, <2>3, <2>4
<1>5. CASE WorkerStep(w) /\ wpc[w] # "idle" /\ wpc'[w] # "idle"
  <2>1. ~ Release(w) /\ held[w] \in 1..Len(stream)
    BY <1>1, <1>5, HeldEntry DEF Release, WorkersTypeOK
  <2>2. ASSUME NEW l \in WorkerPc, Goto(w, l)
        PROVE  /\ i = held[w] /\ wpc'[w] = l
               /\ i \in 1..Len(stream) /\ stream'[i] = stream[i]
               /\ stream[i] = MessageOf(w) /\ stream[i].page = PageOf(w)
               /\ stream[i].page \in Page
    BY <1>1, <2>1, <2>2, EntryTypes
       DEF Goto, Grows, MessageOf, PageOf, WorkersTypeOK
  <2>3. CASE AlreadyDone(w)
    <3>1. Goto(w, "ack") /\ PageOf(w) \in idemDone
      BY <2>3 DEF AlreadyDone, IsIdemDone
    <3>2. Settled(i)
      BY <2>2, <3>1 DEF KeepInv, IdemIsReported, Settled, WorkerPc
    <3>3. QED
      BY <1>2, <2>2, <3>1, <3>2 DEF WorkerPc
  <2>4. CASE PostDone(w)
    <3>1. Goto(w, "markIdem") /\ pageFailed' = pageFailed
      BY <2>4 DEF PostDone
    <3>2. pageDone' = [pageDone EXCEPT ![PageOf(w)] = @ + 1]
      BY <2>4 DEF PostDone, Post, NoLoss, KeepInv
    <3>3. PageOf(w) = stream'[i].page /\ PageOf(w) \in Page /\ wpc'[w] = "markIdem"
      BY <2>2, <3>1 DEF WorkerPc
    <3>4. pageDone[PageOf(w)] \in Nat /\ pageFailed[PageOf(w)] \in Nat
      BY <1>1, <3>3 DEF TypeOK
    <3>5. pageDone'[PageOf(w)] + pageFailed'[PageOf(w)] > 0
      BY <1>1, <3>1, <3>2, <3>3, <3>4 DEF TypeOK
    <3>6. Reported(stream[i].page)'
      BY <3>3, <3>5 DEF Reported
    <3>7. QED
      BY <3>3, <3>6
  <2>5. CASE MarkIdem(w)
    <3>1. Goto(w, "ack") /\ wpc[w] = "markIdem"
      BY <2>5 DEF MarkIdem
    <3>2. Settled(i)
      BY <2>2, <3>1 DEF KeepInv, AckedIsSettled, Settled, WorkerPc
    <3>3. QED
      BY <1>2, <2>2, <3>1, <3>2 DEF WorkerPc
  <2>6. CASE PutOnDLQ(w)
    <3>1. Goto(w, "ackDLQ") /\ dlq' = dlq \cup {MessageOf(w)}
      BY <2>6 DEF PutOnDLQ, AddDLQ, NoLoss
    <3>2. /\ stream'[i].page = MessageOf(w).page
          /\ wpc'[w] = "ackDLQ"
      BY <2>2, <3>1 DEF WorkerPc, Responsible
    <3>3. Settled(i)'
      BY <3>1, <3>2 DEF Settled
    <3>4. QED
      BY <3>2, <3>3
  <2>7. CASE Requeue(w)
    <3>1. Goto(w, "ack") /\ delayed' = delayed \cup {NextAttempt(MessageOf(w))}
      BY <2>7 DEF Requeue, EnqueueDelayed, NoLoss
    <3>2. /\ stream'[i].page = MessageOf(w).page
          /\ MessageOf(w) \in Message
          /\ wpc'[w] = "ack"
      BY <1>1, <1>5, <2>2, <3>1, HeldEntry DEF WorkerPc
    <3>3. NextAttempt(MessageOf(w)).page = stream'[i].page
      BY <3>2 DEF NextAttempt, Message
    <3>4. Settled(i)'
      BY <3>1, <3>3 DEF Settled
    <3>5. QED
      BY <3>2, <3>4
  <2>8. CASE NotCancelled(w) \/ NotDone(w) \/ ProcessOk(w) \/ ProcessFails(w)
             \/ AckDLQ(w)
    <3>1. PICK l \in WorkerPc \ {"markIdem", "ack", "ackDLQ"} : Goto(w, l)
      BY <2>8 DEF NotCancelled, NotDone, ProcessOk, ProcessFails, AckDLQ,
                  WorkerPc, Responsible
    <3>2. QED
      BY <2>2, <3>1
  <2>9. QED
    BY <1>5, <2>1, <2>3, <2>4, <2>5, <2>6, <2>7, <2>8
       DEF WorkerStep, Dequeue, DequeueReplyLost, SkipCancelled, AckEntry,
           PostFailed
<1>6. CASE WorkerStep(w) /\ wpc[w] = "idle"
  <2>1. wpc'[w] \in {"idle", "cancelCheck"}
    BY <1>1, <1>6 DEF WorkerStep, Dequeue, DequeueReplyLost, SkipCancelled,
        NotCancelled, AlreadyDone, NotDone, ProcessOk, ProcessFails, PostDone,
        MarkIdem, AckEntry, PutOnDLQ, AckDLQ, PostFailed, Requeue,
        workerVars, WorkersTypeOK
  <2>2. QED
    BY <2>1
<1>7. QED
  BY <1>1, <1>3, <1>4, <1>5, <1>6, WorkerMoves

LEMMA KeepStep ==
    ASSUME NoLoss, KeepInv, [Next]_vars
    PROVE  KeepInv'
<1>1. TypeOK /\ TypeInv /\ QueueTypeOK
  BY DEF KeepInv, TypeInv, TypeOK
<1>2. TypeInv' /\ TypeOK' /\ QueueTypeOK' /\ Grows
  BY <1>1, TypeStep, NextGrows DEF TypeInv, TypeOK
<1>3. AckedIsSettled'
  BY <1>2, AckedStep
<1>4. serving'
  BY DEF KeepInv, NoLoss, Next, Submit, Expire, Cancel, WorkerStep, Dequeue,
     DequeueReplyLost, SkipCancelled, NotCancelled, AlreadyDone, NotDone,
     ProcessOk, ProcessFails, PostDone, MarkIdem, AckEntry, PutOnDLQ, AckDLQ,
     PostFailed, Requeue, MoverStep, BeginShutdown, Restart, vars, processVars
<1>5. IdemIsReported'
  <2>1. ASSUME NEW p \in idemDone', p \notin idemDone
        PROVE  Reported(p)
    <3>1. PICK w \in Workers : MarkIdem(w)
      BY <2>1 DEF Next, Submit, EnqueueAI, Expire, IdemExpires, Cancel,
         CancelJob, WorkerStep, Dequeue, DequeueReplyLost, DequeueAI,
         SkipCancelled, NotCancelled, AlreadyDone, NotDone, ProcessOk,
         ProcessFails, PostDone, AckEntry, Ack, PutOnDLQ, AddDLQ, AckDLQ,
         PostFailed, Requeue, EnqueueDelayed, MoverStep, MoverFetch, MoverExec,
         MoverExecFails, BeginShutdown, Restart, vars, queueVars
    <3>2. wpc[w] = "markIdem" /\ p = PageOf(w)
      BY <2>1, <3>1 DEF MarkIdem, MarkIdemDone
    <3>3. held[w] \in 1..Len(stream)
      BY <1>1, <3>2, HeldEntry
    <3>4. QED
      BY <3>2, <3>3 DEF KeepInv, AckedIsSettled, PageOf, MessageOf
  <2>2. ASSUME NEW p \in idemDone'
        PROVE  p \in Page /\ Reported(p)
    BY <1>2, <2>1 DEF KeepInv, IdemIsReported, QueueTypeOK
  <2>3. QED
    BY <1>2, <2>2 DEF Grows, IdemIsReported
<1>6. NothingForgotten'
  <2>1. \A k \in 1..Len(stream) : Settled(k) => Settled(k)'
    BY <1>1, <1>2, SettledStays
  <2>2. /\ Len(stream) \in Nat /\ Len(stream') \in Nat
        /\ Len(stream) <= Len(stream')
        /\ cursor \in 0..Len(stream)
    BY <1>1, <1>2 DEF QueueTypeOK, Grows
  <2>3. ASSUME NEW w \in Workers, AckEntry(w) \/ AckDLQ(w)
        PROVE  /\ cursor' = cursor
               /\ \A k \in pel \ pel' : Settled(k)
    <3>1. cursor' = cursor /\ pel \ pel' \subseteq {held[w]}
      BY <2>3 DEF AckEntry, AckDLQ, Ack
    <3>2. wpc[w] \in {"ack", "ackDLQ"} /\ held[w] \in 1..Len(stream)
      BY <1>1, <2>3, HeldEntry DEF AckEntry, AckDLQ
    <3>3. QED
      BY <3>1, <3>2 DEF KeepInv, AckedIsSettled
  <2>4. CASE \E w \in Workers : AckEntry(w) \/ AckDLQ(w)
    <3>1. Unread \subseteq Unread'
      BY <2>2, <2>3, <2>4 DEF Unread
    <3>2. stream' = stream
      BY <2>4 DEF AckEntry, AckDLQ, Ack
    <3>3. QED
      BY <2>1, <2>3, <2>4, <3>1, <3>2 DEF KeepInv, NothingForgotten
  <2>5. CASE \E w \in Workers : Dequeue(w) \/ DequeueReplyLost(w)
    <3>1. /\ stream' = stream /\ cursor' = cursor + 1
          /\ pel' = pel \cup {cursor + 1}
      BY <2>5 DEF Dequeue, DequeueReplyLost, DequeueAI
    <3>2. \A k \in Unread : k \in Unread' \/ k \in pel'
      BY <2>2, <3>1 DEF Unread
    <3>3. QED
      BY <2>1, <3>1, <3>2 DEF KeepInv, NothingForgotten
  <2>6. CASE UNCHANGED <<cursor, pel>>
    <3>1. Unread \subseteq Unread'
      BY <2>2, <2>6 DEF Unread
    <3>2. \A k \in 1..Len(stream') : k \in 1..Len(stream) \/ k \in Unread'
      BY <2>2, <2>6 DEF Unread
    <3>3. QED
      BY <2>1, <2>6, <3>1, <3>2 DEF KeepInv, NothingForgotten
  <2>7. QED
    BY <2>4, <2>5, <2>6
       DEF Next, Submit, EnqueueAI, Expire, IdemExpires, Cancel, CancelJob,
       WorkerStep, SkipCancelled, NotCancelled, AlreadyDone, NotDone,
       ProcessOk, ProcessFails, PostDone, MarkIdem, MarkIdemDone, PutOnDLQ,
       AddDLQ, PostFailed, Requeue, EnqueueDelayed, MoverStep, MoverFetch,
       MoverExec, MoverExecFails, BeginShutdown, Restart, vars, queueVars
<1>7. QED
  BY <1>2, <1>3, <1>4, <1>5, <1>6 DEF KeepInv

LEMMA InitKeep == Init => KeepInv
<1> SUFFICES ASSUME Init PROVE KeepInv
  OBVIOUS
<1>1. Len(stream) = 0 /\ idemDone = {} /\ serving
  BY DEF Init, QueueInit
<1>2. QED
  BY <1>1, InitType DEF KeepInv, IdemIsReported, AckedIsSettled,
                        NothingForgotten

\* An entry that left the unread part and the pending list was reported, is on
\* the dead-letter stream, or goes on as a delayed message or a later entry,
\* across any number of crashes.
THEOREM NothingForgottenHolds ==
    ASSUME NoLoss
    PROVE  Spec => []NothingForgotten
<1>1. KeepInv /\ [Next]_vars => KeepInv'
  BY KeepStep
<1>2. KeepInv => NothingForgotten
  BY DEF KeepInv
<1>3. QED
  BY InitKeep, <1>1, <1>2, PTL DEF Spec

-----------------------------------------------------------------------------
(* The whole retry budget, for any number of movers and any faults.        *)

EntriesTried ==
    \A i \in 1..Len(stream) : Tried(stream[i].page, stream[i].attempt)

DelayedTried == \A d \in delayed : Tried(d.page, d.attempt - 1)

BatchTried ==
    \A m \in Movers : \A d \in batch[m] : Tried(d.page, d.attempt - 1)

GivingUp == {"addDLQ", "ackDLQ", "postFailed"}

BudgetSpent ==
    \A w \in Workers : wpc[w] \in GivingUp => MessageOf(w).attempt >= MaxAttempts

\* The attempts of a page form a ladder: an entry stands on the entries of all
\* earlier attempts, and so does a message that waits to become an entry, in
\* the ZSET or in what a mover has fetched.
LadderInv ==
    /\ TypeInv
    /\ EntriesTried
    /\ DelayedTried
    /\ BatchTried
    /\ BudgetSpent
    /\ FullBudgetUsed

\* The stream only grows at its end, so an attempt that was made stays made.
LEMMA TriedStays ==
    ASSUME Len(stream) \in Nat, Len(stream') \in Nat,
           Len(stream) <= Len(stream'),
           \A i \in 1..Len(stream) : stream'[i] = stream[i],
           NEW p, NEW n, Tried(p, n)
    PROVE  Tried(p, n)'
<1>1. 1..Len(stream) \subseteq 1..Len(stream')
  OBVIOUS
<1>2. QED
  BY <1>1 DEF Tried

\* The worker that holds an entry knows of every attempt up to its own.
LEMMA HolderTried ==
    ASSUME LadderInv, NEW w \in Workers, wpc[w] # "idle"
    PROVE  Tried(PageOf(w), MessageOf(w).attempt)
  BY HeldEntry DEF LadderInv, TypeInv, EntriesTried, PageOf, MessageOf

LEMMA LadderWorker ==
    ASSUME LadderInv, TypeInv', NEW w \in Workers, WorkerStep(w)
    PROVE  LadderInv'
<1>0. TypeOK /\ TypeOK'
  BY DEF LadderInv, TypeInv
<1>1. stream' = stream /\ batch' = batch
  BY DEF WorkerStep, Dequeue, DequeueReplyLost, DequeueAI, SkipCancelled,
         NotCancelled, AlreadyDone, NotDone, ProcessOk, ProcessFails, PostDone,
         MarkIdem, MarkIdemDone, AckEntry, Ack, PutOnDLQ, AddDLQ, AckDLQ,
         PostFailed, Requeue, EnqueueDelayed, queueVars
<1>2. \A p, n : Tried(p, n)' <=> Tried(p, n)
  BY <1>1 DEF Tried
<1>3. EntriesTried' /\ BatchTried'
  BY <1>1, <1>2 DEF LadderInv, EntriesTried, BatchTried
<1>4. DelayedTried'
  <2>1. ASSUME NEW d \in delayed', d \notin delayed
        PROVE  Tried(d.page, d.attempt - 1)
    <3>1. Requeue(w) /\ d = NextAttempt(MessageOf(w))
      BY <2>1
         DEF WorkerStep, Dequeue, DequeueReplyLost, DequeueAI, SkipCancelled,
             NotCancelled, AlreadyDone, NotDone, ProcessOk, ProcessFails,
             PostDone, MarkIdem, MarkIdemDone, AckEntry, Ack, PutOnDLQ, AddDLQ,
             AckDLQ, PostFailed, Requeue, EnqueueDelayed, queueVars
    <3>2. MessageOf(w) \in Message /\ wpc[w] # "idle"
      BY <1>0, <3>1, HeldEntry DEF Requeue
    <3>3. d.page = PageOf(w) /\ d.attempt - 1 = MessageOf(w).attempt
      BY <3>1, <3>2, MaxAttemptsAssumption DEF NextAttempt, PageOf, Message
    <3>4. QED
      BY <3>2, <3>3, HolderTried
  <2>2. QED
    BY <1>2, <2>1 DEF LadderInv, DelayedTried
<1>5. BudgetSpent'
  <2>1. \A v \in Workers \ {w} : wpc'[v] = wpc[v] /\ held'[v] = held[v]
    BY <1>0
       DEF TypeOK, WorkersTypeOK, WorkerStep, Dequeue, DequeueReplyLost,
           SkipCancelled, NotCancelled, AlreadyDone, NotDone, ProcessOk,
           ProcessFails, PostDone, MarkIdem, AckEntry, PutOnDLQ, AckDLQ,
           PostFailed, Requeue, Goto, Release, workerVars
  <2>2. ASSUME wpc'[w] \in GivingUp
        PROVE  /\ held'[w] = held[w]
               /\ wpc[w] \in GivingUp \/ MessageOf(w).attempt >= MaxAttempts
    BY <1>0, <2>2
       DEF TypeOK, WorkersTypeOK, WorkerStep, Dequeue, DequeueReplyLost,
           SkipCancelled, NotCancelled, AlreadyDone, NotDone, ProcessOk,
           ProcessFails, PostDone, MarkIdem, AckEntry, PutOnDLQ, AckDLQ,
           PostFailed, Requeue, Goto, Release, workerVars, GivingUp
  <2>3. QED
    BY <1>1, <2>1, <2>2 DEF LadderInv, BudgetSpent, MessageOf
<1>6. FullBudgetUsed'
  <2>1. ASSUME NEW p \in Page, GivenUp(p)', ~ GivenUp(p)
        PROVE  p = PageOf(w) /\ wpc[w] \in GivingUp
    <3>1. CASE PutOnDLQ(w)
      BY <2>1, <3>1
         DEF PutOnDLQ, AddDLQ, GivenUp, GivingUp, PageOf, reportVars
    <3>2. CASE PostFailed(w)
      BY <1>0, <2>1, <3>2
         DEF PostFailed, Post, GivenUp, GivingUp, queueVars, TypeOK
    <3>3. ASSUME dlq' = dlq, pageFailed' = pageFailed
          PROVE  FALSE
      BY <2>1, <3>3 DEF GivenUp
    <3>4. PutOnDLQ(w) \/ PostFailed(w) \/ (dlq' = dlq /\ pageFailed' = pageFailed)
      BY DEF WorkerStep, Dequeue, DequeueReplyLost, DequeueAI, SkipCancelled,
             NotCancelled, AlreadyDone, NotDone, ProcessOk, ProcessFails,
             PostDone, MarkIdem, MarkIdemDone, AckEntry, Ack, AckDLQ, Requeue,
             EnqueueDelayed, queueVars, reportVars
    <3>5. QED
      BY <3>1, <3>2, <3>3, <3>4
  <2>2. ASSUME wpc[w] \in GivingUp
        PROVE  Tried(PageOf(w), MaxAttempts)
    <3>1. wpc[w] # "idle"
      BY <2>2 DEF GivingUp
    <3>2. /\ Tried(PageOf(w), MessageOf(w).attempt)
          /\ MessageOf(w).attempt \in 1..MaxAttempts
      BY <1>0, <3>1, HeldEntry, HolderTried DEF Message
    <3>3. MessageOf(w).attempt = MaxAttempts
      BY <2>2, <3>2, MaxAttemptsAssumption DEF LadderInv, BudgetSpent
    <3>4. QED
      BY <3>2, <3>3
  <2>3. QED
    BY <1>2, <2>1, <2>2 DEF LadderInv, FullBudgetUsed
<1>7. QED
  BY <1>3, <1>4, <1>5, <1>6 DEF LadderInv

\* A step that leaves the workers' entries and the outcomes alone, and whose
\* new entries and messages stand on the ladder.
LEMMA LadderFrame ==
    ASSUME LadderInv, TypeInv', Len(stream) <= Len(stream'),
           \A i \in 1..Len(stream) : stream'[i] = stream[i],
           \A i \in 1..Len(stream') :
              i \notin 1..Len(stream)
                 => Tried(stream'[i].page, stream'[i].attempt - 1),
           delayed' \subseteq delayed,
           \A m \in Movers : batch'[m] \subseteq batch[m] \cup delayed,
           UNCHANGED <<dlq, pageFailed>>,
           \A w \in Workers : wpc'[w] \in GivingUp =>
              wpc[w] \in GivingUp /\ held'[w] = held[w]
    PROVE  LadderInv'
<1>0. /\ TypeOK /\ TypeOK'
      /\ Len(stream) \in Nat /\ Len(stream') \in Nat
  BY DEF LadderInv, TypeInv, TypeOK, QueueTypeOK
<1>1. \A p, n : Tried(p, n) => Tried(p, n)'
  BY <1>0, TriedStays
<1>2. EntriesTried'
  <2>1. ASSUME NEW i \in 1..Len(stream'), i \notin 1..Len(stream)
        PROVE  Tried(stream[i].page, stream[i].attempt)'
    <3>1. PICK p \in Page, a \in 1..MaxAttempts :
             stream'[i] = [page |-> p, attempt |-> a]
      <4>1. stream'[i] \in Message
        BY <1>0 DEF TypeOK, QueueTypeOK
      <4>2. QED
        BY <4>1 DEF Message
    <3>2. Tried(p, a - 1)'
      <4>1. Tried(p, a - 1)
        BY <2>1, <3>1
      <4>2. QED
        BY <1>1, <4>1
    <3>3. 1..a = 1..(a - 1) \cup {a}
      BY <3>1, MaxAttemptsAssumption
    <3>4. Tried(p, a)'
      BY <3>1, <3>2, <3>3 DEF Tried
    <3>5. QED
      BY <3>1, <3>4
  <2>2. ASSUME NEW i \in 1..Len(stream)
        PROVE  Tried(stream[i].page, stream[i].attempt)'
    BY <1>1, <2>2 DEF LadderInv, EntriesTried
  <2>3. QED
    BY <2>1, <2>2 DEF EntriesTried
<1>3. DelayedTried' /\ BatchTried'
  BY <1>1 DEF LadderInv, DelayedTried, BatchTried
<1>4. BudgetSpent'
  <2>1. \A w \in Workers : wpc[w] \in GivingUp => held[w] \in 1..Len(stream)
    BY <1>0, HeldEntry DEF GivingUp
  <2>2. QED
    BY <2>1 DEF LadderInv, BudgetSpent, MessageOf
<1>5. FullBudgetUsed'
  BY <1>1 DEF LadderInv, FullBudgetUsed, GivenUp
<1>6. QED
  BY <1>2, <1>3, <1>4, <1>5 DEF LadderInv

LEMMA LadderMover ==
    ASSUME LadderInv, TypeInv', NEW m \in Movers, MoverStep(m)
    PROVE  LadderInv'
<1>0. /\ TypeOK /\ Len(stream) \in Nat
      /\ batch \in [Movers -> SUBSET Message]
  BY DEF LadderInv, TypeInv, TypeOK, QueueTypeOK
<1>1. UNCHANGED <<wpc, held, dlq, pageFailed>>
  BY DEF MoverStep, MoverFetch, MoverExec, MoverExecFails, workerVars, reportVars
<1>2. CASE MoverFetch(m) \/ MoverExecFails(m)
  <2>1. stream' = stream /\ delayed' = delayed
    BY <1>2 DEF MoverFetch, MoverExecFails
  <2>2. \A n \in Movers : batch'[n] \subseteq batch[n] \cup delayed
    BY <1>0, <1>2 DEF MoverFetch, MoverExecFails
  <2>3. QED
    BY <1>0, <1>1, <2>1, <2>2, LadderFrame
<1>3. CASE MoverExec(m)
  <2>1. PICK s \in Orderings(batch[m]) : stream' = stream \o s
    BY <1>3 DEF MoverExec
  <2>2. batch[m] \subseteq Message /\ IsFiniteSet(batch[m])
    BY <1>0 DEF TypeOK, QueueTypeOK
  <2>3. s \in Seq(batch[m]) /\ \A i \in 1..Len(s) : s[i] \in batch[m]
    BY <2>1, <2>2, OrderingsSeq
  <2>4. s \in Seq(Message)
    BY <2>2, <2>3
  <2>5. /\ Len(stream') = Len(stream) + Len(s)
        /\ \A i \in 1..Len(stream) : stream'[i] = stream[i]
        /\ \A i \in (Len(stream) + 1)..Len(stream') :
              stream'[i] = s[i - Len(stream)]
    BY <1>0, <2>1, <2>4, StreamGrows
  <2>6. Len(s) \in Nat /\ Len(stream) <= Len(stream')
    BY <1>0, <2>3, <2>5
  <2>7. ASSUME NEW i \in 1..Len(stream'), i \notin 1..Len(stream)
        PROVE  Tried(stream'[i].page, stream'[i].attempt - 1)
    <3>1. stream'[i] = s[i - Len(stream)] /\ i - Len(stream) \in 1..Len(s)
      BY <1>0, <2>5, <2>6, <2>7
    <3>2. stream'[i] \in batch[m]
      BY <2>3, <3>1
    <3>3. QED
      BY <3>2 DEF LadderInv, BatchTried
  <2>8. /\ delayed' \subseteq delayed
        /\ \A n \in Movers : batch'[n] \subseteq batch[n] \cup delayed
    BY <1>0, <1>3 DEF MoverExec
  <2>9. QED
    BY <1>1, <2>5, <2>6, <2>7, <2>8, LadderFrame
<1>4. QED
  BY <1>2, <1>3 DEF MoverStep

LEMMA LadderOther ==
    ASSUME LadderInv, TypeInv',
           \/ \E p \in Page : Submit(p) \/ Expire(p)
           \/ \E j \in Jobs : Cancel(j)
           \/ BeginShutdown
           \/ Restart
           \/ UNCHANGED vars
    PROVE  LadderInv'
<1>0. TypeOK /\ Len(stream) \in Nat
  BY DEF LadderInv, TypeInv, TypeOK, QueueTypeOK
<1>1. ASSUME NEW p \in Page, Submit(p)
      PROVE  LadderInv'
  <2>1. /\ Len(stream') = Len(stream) + 1
        /\ \A i \in 1..Len(stream) : stream'[i] = stream[i]
        /\ stream'[Len(stream) + 1] = [page |-> p, attempt |-> 1]
    BY <1>0, <1>1 DEF Submit, EnqueueAI, TypeOK, QueueTypeOK
  <2>2. ASSUME NEW i \in 1..Len(stream'), i \notin 1..Len(stream)
        PROVE  Tried(stream'[i].page, stream'[i].attempt - 1)
    <3>1. i = Len(stream) + 1
      BY <1>0, <2>1, <2>2
    <3>2. stream'[i].attempt - 1 = 0
      BY <2>1, <3>1
    <3>3. QED
      BY <3>2 DEF Tried
  <2>3. UNCHANGED <<wpc, held, dlq, pageFailed, delayed, batch>>
    BY <1>1 DEF Submit, EnqueueAI, workerVars, reportVars
  <2>4. QED
    BY <1>0, <2>1, <2>2, <2>3, LadderFrame
<1>2. ASSUME stream' = stream, delayed' = delayed,
             \A m \in Movers : batch'[m] \subseteq batch[m],
             UNCHANGED <<dlq, pageFailed>>,
             \A w \in Workers : wpc'[w] \in GivingUp =>
                wpc[w] \in GivingUp /\ held'[w] = held[w]
      PROVE  LadderInv'
  BY <1>0, <1>2, LadderFrame
<1>3. CASE \E p \in Page : Expire(p)
  BY <1>2, <1>3 DEF Expire, IdemExpires, workerVars, reportVars
<1>4. CASE \E j \in Jobs : Cancel(j)
  BY <1>2, <1>4 DEF Cancel, CancelJob, workerVars, reportVars
<1>5. CASE BeginShutdown
  BY <1>2, <1>5 DEF BeginShutdown, queueVars, workerVars, reportVars
<1>6. CASE Restart
  BY <1>2, <1>6 DEF Restart, reportVars, GivingUp
<1>7. CASE UNCHANGED vars
  BY <1>2, <1>7 DEF vars, queueVars, workerVars, reportVars
<1>8. QED
  BY <1>1, <1>3, <1>4, <1>5, <1>6, <1>7

LEMMA LadderInit == Init => LadderInv
<1> SUFFICES ASSUME Init PROVE LadderInv
  OBVIOUS
<1>1. TypeInv
  BY InitType
<1>2. EntriesTried /\ DelayedTried /\ BatchTried
  BY DEF Init, QueueInit, EntriesTried, DelayedTried, BatchTried
<1>3. BudgetSpent /\ FullBudgetUsed
  BY DEF Init, QueueInit, BudgetSpent, FullBudgetUsed, GivenUp, GivingUp
<1>4. QED
  BY <1>1, <1>2, <1>3 DEF LadderInv

\* A page is dead-lettered or reported as failed only after every one of its
\* attempts was an entry of the stream, with any number of movers, any set of
\* lost calls and a restart at any step.
THEOREM FullBudgetUsedHolds == Spec => []FullBudgetUsed
<1>1. LadderInv /\ [Next]_vars => LadderInv'
  <2> SUFFICES ASSUME LadderInv, [Next]_vars PROVE LadderInv'
    OBVIOUS
  <2>1. TypeInv'
    BY TypeStep DEF LadderInv
  <2>2. QED
    BY <2>1, LadderWorker, LadderMover, LadderOther DEF Next
<1>2. LadderInv => FullBudgetUsed
  BY DEF LadderInv
<1>3. QED
  BY <1>1, <1>2, LadderInit, PTL DEF Spec
-----------------------------------------------------------------------------
(* The refinement.  Every step reports one pending page, submits one new   *)
(* page, or leaves reports and submissions alone; then a page can only     *)
(* lose its last copy.                                                     *)

\* The fate of a page, without the order of its cases.
FateOf(p) ==
    /\ pageDone[p] > 0 => Fate(p) = "done"
    /\ pageDone[p] = 0 /\ pageFailed[p] > 0 => Fate(p) = "failed"
    /\ ~ Reported(p) /\ ~ Enqueued(p) => Fate(p) = "new"
    /\ ~ Reported(p) /\ Enqueued(p) /\ Pending(p) => Fate(p) = "pending"
    /\ ~ Reported(p) /\ Enqueued(p) /\ ~ Pending(p) => Fate(p) = "stranded"
    /\ ~ Reported(p) <=> pageDone[p] = 0 /\ pageFailed[p] = 0

\* Every page has the fate its copies and reports give it.
Fates == \A p \in Page : FateOf(p)

LEMMA FatesHold == TypeOK => Fates
<1> SUFFICES ASSUME TypeOK, NEW p \in Page PROVE FateOf(p)
  BY DEF Fates
<1>1. pageDone[p] \in Nat /\ pageFailed[p] \in Nat
  BY DEF TypeOK
<1>2. ~ Reported(p) <=> pageDone[p] = 0 /\ pageFailed[p] = 0
  BY <1>1 DEF Reported
<1>3. CASE pageDone[p] > 0
  <2>1. Reported(p) /\ pageDone[p] # 0
    BY <1>1, <1>2, <1>3
  <2>2. Fate(p) = "done"
    BY <1>3, <2>1 DEF Fate
  <2>3. QED
    BY <1>2, <2>1, <2>2 DEF FateOf
<1>4. CASE pageDone[p] = 0 /\ pageFailed[p] > 0
  <2>1. Reported(p) /\ ~ (pageDone[p] > 0)
    BY <1>1, <1>2, <1>4
  <2>2. Fate(p) = "failed"
    BY <1>4, <2>1 DEF Fate
  <2>3. QED
    BY <1>2, <1>4, <2>1, <2>2 DEF FateOf
<1>5. CASE ~ Reported(p)
  <2>1. /\ ~ (pageDone[p] > 0)
        /\ ~ (pageDone[p] = 0 /\ pageFailed[p] > 0)
    BY <1>1, <1>2, <1>5
  <2>2. CASE ~ Enqueued(p)
    <3>1. Fate(p) = "new"
      BY <1>5, <2>1, <2>2 DEF Fate
    <3>2. QED
      BY <1>2, <1>5, <2>1, <2>2, <3>1 DEF FateOf
  <2>3. CASE Enqueued(p) /\ Pending(p)
    <3>1. Fate(p) = "pending"
      BY <1>5, <2>1, <2>3 DEF Fate
    <3>2. QED
      BY <1>2, <1>5, <2>1, <2>3, <3>1 DEF FateOf
  <2>4. CASE Enqueued(p) /\ ~ Pending(p)
    <3>1. Fate(p) = "stranded"
      BY <1>5, <2>1, <2>4, Zenon DEF Fate
    <3>2. QED
      BY <1>2, <1>5, <2>1, <2>4, <3>1 DEF FateOf
  <2>5. QED
    BY <2>2, <2>3, <2>4
<1>6. QED
  BY <1>1, <1>2, <1>3, <1>4, <1>5 DEF FateOf

LEMMA InitRefines == Init => Abstract!Init
<1> SUFFICES ASSUME Init PROVE Abstract!Init
  OBVIOUS
<1>1. TypeOK
  BY InitType DEF TypeInv
<1>2. ASSUME NEW p \in Page PROVE Fate(p) = "new"
  <2>1. pageDone[p] = 0 /\ pageFailed[p] = 0 /\ Len(stream) = 0
    BY DEF Init, QueueInit
  <2>2. ~ Reported(p) /\ ~ Enqueued(p)
    BY <2>1 DEF Reported, Enqueued
  <2>3. QED
    BY <1>1, <2>2, FatesHold DEF Fates, FateOf
<1>3. QED
  BY <1>2 DEF Abstract!Init

\* A step without a report or a submission strands the pages whose last copy
\* it takes.
LEMMA StrandStep ==
    ASSUME TypeOK, TypeOK', UNCHANGED reportVars,
           \A p \in Page : Enqueued(p)' <=> Enqueued(p),
           \A p \in Page : Enqueued(p) /\ Pending(p)' => Pending(p)
    PROVE  Abstract!Next
<1> DEFINE S == {p \in Page : Fate(p) = "pending" /\ Fate(p)' # "pending"}
<1>1. ASSUME NEW p \in Page
      PROVE  \/ Fate(p)' = Fate(p)
             \/ Fate(p) = "pending" /\ Fate(p)' = "stranded"
  <2>1. pageDone'[p] = pageDone[p] /\ pageFailed'[p] = pageFailed[p]
    BY DEF reportVars
  <2>2. Reported(p)' <=> Reported(p)
    BY <2>1 DEF Reported
  <2>3. pageDone[p] \in Nat /\ pageFailed[p] \in Nat
    BY DEF TypeOK
  <2>4. FateOf(p) /\ FateOf(p)'
    <3>1. Fates /\ Fates'
      BY FatesHold, PTL
    <3>2. QED
      BY <3>1 DEF Fates
  <2>5. QED
    BY <2>1, <2>2, <2>3, <2>4 DEF FateOf
<1>2. \A p \in S : Fate(p) = "pending"
  OBVIOUS
<1>3. \A p \in Page : Fate(p)' = IF p \in S THEN "stranded" ELSE Fate(p)
  BY <1>1
<1>4. S \in SUBSET Page
  OBVIOUS
<1>5. Abstract!Strand(S)
  BY <1>2, <1>3, <1>4 DEF Abstract!Strand
<1>6. QED
  BY <1>4, <1>5 DEF Abstract!Next


\* A report resolves the page of a worker that is responsible for it, and
\* leaves the other pages alone.
LEMMA ResolveStep ==
    ASSUME IInv, TypeOK', NEW w \in Workers, wpc[w] \in Responsible,
           UNCHANGED <<stream, cursor, delayed>>,
           \/ Release(w)
           \/ \E l \in WorkerPc \ Responsible : Goto(w, l),
           \/ /\ pageDone' = [pageDone EXCEPT ![PageOf(w)] = @ + 1]
              /\ pageFailed' = pageFailed
           \/ /\ pageFailed' = [pageFailed EXCEPT ![PageOf(w)] = @ + 1]
              /\ pageDone' = pageDone
    PROVE  Abstract!Next
<1>1. TypeOK /\ Fates /\ Fates'
  BY FatesHold, PTL DEF IInv, TypeInv
<1>2. PICK q \in Page : q = PageOf(w)
  BY <1>1, HeldEntry DEF Responsible
<1>3. /\ held[w] \in LiveEntries /\ held[w] \in 1..Len(stream)
      /\ stream[held[w]].page = q
  BY <1>1, <1>2, LiveInStream DEF PageOf, MessageOf
<1>4. Enqueued(q) /\ Pending(q) /\ ~ Reported(q)
  BY <1>3 DEF IInv, QueueInv, ReportedOnce, Enqueued, Pending
<1>5. Fate(q) = "pending"
  BY <1>1, <1>4 DEF Fates, FateOf
<1>6. Fate(q)' \in {"done", "failed"}
  <2>1. pageDone[q] = 0 /\ pageFailed[q] = 0
    BY <1>1, <1>4 DEF Fates, FateOf
  <2>2. pageDone'[q] > 0 \/ (pageDone'[q] = 0 /\ pageFailed'[q] > 0)
    BY <1>1, <1>2, <2>1 DEF TypeOK
  <2>3. QED
    BY <1>1, <2>2 DEF Fates, FateOf
<1>7. ASSUME NEW p \in Page, p # q
      PROVE  Fate(p)' = Fate(p)
  <2>1. pageDone'[p] = pageDone[p] /\ pageFailed'[p] = pageFailed[p]
    BY <1>1, <1>2, <1>7 DEF TypeOK
  <2>2. Reported(p)' <=> Reported(p)
    BY <2>1 DEF Reported
  <2>3. Enqueued(p)' <=> Enqueued(p)
    BY DEF Enqueued
  <2>4. LiveEntries' \subseteq LiveEntries
    BY LeavesNoLiveEntry
  <2>5. \A i \in LiveEntries : i # held[w] => i \in LiveEntries'
    BY <1>1 DEF LiveEntries, Unread, Release, Goto, TypeOK, WorkersTypeOK
  <2>6. Pending(p)' <=> Pending(p)
    BY <1>3, <1>7, <2>4, <2>5 DEF Pending
  <2>7. FateOf(p) /\ FateOf(p)' /\ pageDone[p] \in Nat /\ pageFailed[p] \in Nat
    BY <1>1 DEF Fates, TypeOK
  <2>8. QED
    BY <2>1, <2>2, <2>3, <2>6, <2>7 DEF FateOf
<1>8. Abstract!Resolve(q)
  BY <1>5, <1>6, <1>7 DEF Abstract!Resolve, Abstract!Final
<1>9. QED
  BY <1>8 DEF Abstract!Next

\* A submission makes a new page pending.
LEMMA SubmitRefines ==
    ASSUME IInv, TypeOK', NEW q \in Page, Submit(q)
    PROVE  Abstract!Next
<1>1. TypeOK /\ Fates /\ Fates' /\ ~ Enqueued(q)
  BY FatesHold, PTL DEF IInv, TypeInv, Submit
<1>2. /\ stream \in Seq(Message) /\ Len(stream) \in Nat
      /\ stream' = Append(stream, [page |-> q, attempt |-> 1])
      /\ cursor \in 0..Len(stream)
      /\ UNCHANGED <<cursor, delayed, wpc, held>> /\ UNCHANGED reportVars
  BY <1>1 DEF TypeOK, QueueTypeOK, Submit, EnqueueAI, workerVars
<1>3. /\ Len(stream') = Len(stream) + 1
      /\ \A i \in 1..Len(stream) : stream'[i] = stream[i]
      /\ stream'[Len(stream) + 1].page = q
  BY <1>2
<1>4. /\ LiveEntries' = LiveEntries \cup {Len(stream) + 1}
      /\ LiveEntries \subseteq 1..Len(stream)
  <2>1. Unread' = Unread \cup {Len(stream) + 1}
    BY <1>2, <1>3 DEF Unread
  <2>2. QED
    BY <1>1, <1>2, <2>1, LiveInStream DEF LiveEntries
<1>5. \A p \in Page : (Reported(p)' <=> Reported(p))
                      /\ pageDone'[p] = pageDone[p]
                      /\ pageFailed'[p] = pageFailed[p]
  BY <1>2 DEF Reported, reportVars
<1>6. Fate(q) = "new" /\ Fate(q)' = "pending"
  <2>1. ~ Reported(q)
    BY <1>1 DEF IInv, QueueInv, ReportedEnqueued
  <2>2. Len(stream) + 1 \in 1..Len(stream')
    BY <1>2, <1>3
  <2>3. Enqueued(q)'
    BY <1>3, <2>2 DEF Enqueued
  <2>4. Pending(q)'
    BY <1>3, <1>4 DEF Pending
  <2>5. FateOf(q) /\ FateOf(q)'
    BY <1>1 DEF Fates
  <2>6. QED
    BY <1>1, <1>5, <2>1, <2>3, <2>4, <2>5 DEF FateOf
<1>7. ASSUME NEW p \in Page, p # q
      PROVE  Fate(p)' = Fate(p)
  <2>1. Enqueued(p)' <=> Enqueued(p)
    <3>1. 1..Len(stream') = 1..Len(stream) \cup {Len(stream) + 1}
      BY <1>2, <1>3
    <3>2. QED
      BY <1>3, <1>7, <3>1 DEF Enqueued
  <2>2. Pending(p)' <=> Pending(p)
    BY <1>2, <1>3, <1>4, <1>7 DEF Pending
  <2>3. FateOf(p) /\ FateOf(p)' /\ pageDone[p] \in Nat /\ pageFailed[p] \in Nat
    BY <1>1 DEF Fates, TypeOK
  <2>4. QED
    BY <1>5, <2>1, <2>2, <2>3 DEF FateOf
<1>8. Abstract!Submit(q)
  BY <1>6, <1>7 DEF Abstract!Submit
<1>9. QED
  BY <1>8 DEF Abstract!Next

\* The steps of a worker.
LEMMA WorkerRefines ==
    ASSUME IInv, IInv', NEW w \in Workers, WorkerStep(w)
    PROVE  Abstract!Next
<1>1. TypeOK /\ TypeOK' /\ OneHolder /\ WorkersTypeOK
  BY DEF IInv, TypeInv, TypeOK
<1>2. ASSUME UNCHANGED <<stream, delayed>>, UNCHANGED reportVars,
             LiveEntries' \subseteq LiveEntries
      PROVE  Abstract!Next
  <2>1. \A p \in Page : Enqueued(p)' <=> Enqueued(p)
    BY <1>2 DEF Enqueued
  <2>2. \A p \in Page : Pending(p)' => Pending(p)
    BY <1>2 DEF Pending
  <2>3. QED
    BY <1>1, <1>2, <2>1, <2>2, StrandStep
<1>3. ASSUME \/ Release(w)
             \/ \E l \in WorkerPc : Goto(w, l) /\ wpc[w] \in Responsible
             \/ \E l \in WorkerPc \ Responsible : Goto(w, l),
             UNCHANGED <<stream, cursor, delayed>>, UNCHANGED reportVars
      PROVE  Abstract!Next
  BY <1>1, <1>2, <1>3, MovesOn, KeepsOrDropsShrinks
<1>4. CASE SkipCancelled(w) \/ NotCancelled(w) \/ AlreadyDone(w) \/ NotDone(w)
           \/ ProcessOk(w) \/ ProcessFails(w)
  <2>1. UNCHANGED queueVars /\ UNCHANGED reportVars
    BY <1>4 DEF SkipCancelled, NotCancelled, AlreadyDone, NotDone, ProcessOk,
                ProcessFails
  <2>2. \/ Release(w)
        \/ \E l \in WorkerPc : Goto(w, l) /\ wpc[w] \in Responsible
    BY <1>4 DEF SkipCancelled, NotCancelled, AlreadyDone, NotDone, ProcessOk,
                ProcessFails, WorkerPc, Responsible
  <2>3. QED
    BY <1>3, <2>1, <2>2 DEF queueVars
<1>5. CASE MarkIdem(w) \/ AckEntry(w)
  BY <1>3, <1>5 DEF MarkIdem, MarkIdemDone, AckEntry, Ack, WorkerPc,
                    Responsible
<1>6. CASE PutOnDLQ(w) \/ AckDLQ(w)
  BY <1>3, <1>6 DEF PutOnDLQ, AddDLQ, AckDLQ, Ack, WorkerPc, Responsible
<1>7. CASE PostDone(w)
  <2>1. /\ wpc[w] \in Responsible
        /\ \E l \in WorkerPc \ Responsible : Goto(w, l)
        /\ UNCHANGED <<stream, cursor, delayed>>
        /\ pageFailed' = pageFailed
    BY <1>7 DEF PostDone, queueVars, WorkerPc, Responsible
  <2>2. CASE pageDone' = pageDone
    BY <1>3, <2>1, <2>2 DEF reportVars
  <2>3. CASE pageDone' = [pageDone EXCEPT ![PageOf(w)] = @ + 1]
    BY <1>1, <2>1, <2>3, ResolveStep
  <2>4. QED
    BY <1>7, <2>2, <2>3 DEF PostDone, Post
<1>8. CASE PostFailed(w)
  <2>1. /\ wpc[w] \in Responsible /\ Release(w)
        /\ UNCHANGED <<stream, cursor, delayed>>
        /\ pageDone' = pageDone
    BY <1>8 DEF PostFailed, queueVars, Responsible
  <2>2. CASE pageFailed' = pageFailed
    BY <1>3, <2>1, <2>2 DEF reportVars
  <2>3. CASE pageFailed' = [pageFailed EXCEPT ![PageOf(w)] = @ + 1]
    BY <1>1, <2>1, <2>3, ResolveStep
  <2>4. QED
    BY <1>8, <2>2, <2>3 DEF PostFailed, Post
<1>9. CASE Requeue(w)
  <2>1. /\ wpc[w] \in Responsible
        /\ \E l \in WorkerPc \ Responsible : Goto(w, l)
        /\ UNCHANGED <<stream, cursor>> /\ UNCHANGED reportVars
    BY <1>9 DEF Requeue, EnqueueDelayed, Responsible, WorkerPc
  <2>2. LiveEntries' \subseteq LiveEntries
    BY <2>1, LeavesNoLiveEntry
  <2>3. \A d \in delayed' : d \in delayed \/ d.page = PageOf(w)
    <3>1. MessageOf(w) \in Message
      BY <1>1, <2>1, HeldEntry DEF Responsible
    <3>2. NextAttempt(MessageOf(w)).page = PageOf(w)
      BY <3>1 DEF NextAttempt, PageOf, Message
    <3>3. QED
      BY <1>9, <3>2 DEF Requeue, EnqueueDelayed
  <2>4. Pending(PageOf(w))
    BY <1>1, <2>1, LiveInStream DEF Pending, PageOf, MessageOf
  <2>5. \A p \in Page : Pending(p)' => Pending(p)
    BY <2>1, <2>2, <2>3, <2>4 DEF Pending
  <2>6. \A p \in Page : Enqueued(p)' <=> Enqueued(p)
    BY <2>1 DEF Enqueued
  <2>7. QED
    BY <1>1, <2>1, <2>5, <2>6, StrandStep
<1>10. CASE Dequeue(w) \/ DequeueReplyLost(w)
  <2>1. /\ UNCHANGED reportVars
        /\ cursor \in Nat /\ Len(stream) \in Nat
        /\ cursor < Len(stream) /\ cursor' = cursor + 1
        /\ UNCHANGED <<stream, delayed>>
    BY <1>1, <1>10 DEF Dequeue, DequeueReplyLost, DequeueAI, TypeOK, QueueTypeOK
  <2>2. Unread' \subseteq Unread /\ cursor + 1 \in Unread
    BY <2>1 DEF Unread
  <2>3. LiveEntries' \subseteq LiveEntries
    BY <1>1, <1>10, <2>2
       DEF LiveEntries, WorkersTypeOK, Dequeue, DequeueReplyLost, workerVars
  <2>4. QED
    BY <1>2, <2>1, <2>3
<1>11. QED
  BY <1>4, <1>5, <1>6, <1>7, <1>8, <1>9, <1>10 DEF WorkerStep

\* The mover's transaction makes delayed pages unread again.
LEMMA MoverRefines ==
    ASSUME IInv, IInv', NEW m \in Movers, MoverStep(m)
    PROVE  Abstract!Next
<1>1. TypeOK /\ TypeOK' /\ QueueTypeOK /\ QueueInv /\ BatchDelayed
  BY DEF IInv, TypeInv, TypeOK
<1>2. UNCHANGED <<cursor, wpc, held>> /\ UNCHANGED reportVars
  BY DEF MoverStep, MoverFetch, MoverExec, MoverExecFails, workerVars
<1>3. CASE MoverFetch(m) \/ MoverExecFails(m)
  <2>1. UNCHANGED <<stream, delayed>>
    BY <1>3 DEF MoverFetch, MoverExecFails
  <2>2. \A p \in Page : /\ Enqueued(p)' <=> Enqueued(p)
                        /\ Pending(p)' => Pending(p)
    BY <1>2, <2>1 DEF Enqueued, Pending, LiveEntries, Unread
  <2>3. QED
    BY <1>1, <1>2, <2>2, StrandStep
<1>4. CASE MoverExec(m)
  <2>1. PICK s \in Orderings(batch[m]) : stream' = stream \o s
    BY <1>4 DEF MoverExec
  <2>2. /\ IsFiniteSet(batch[m]) /\ batch[m] \subseteq delayed
        /\ batch[m] \subseteq Message
    BY <1>1 DEF QueueTypeOK, BatchDelayed
  <2>3. s \in Seq(Message) /\ \A i \in 1..Len(s) : s[i] \in batch[m]
    <3>1. s \in Seq(batch[m]) /\ \A i \in 1..Len(s) : s[i] \in batch[m]
      BY <2>1, <2>2, OrderingsSeq
    <3>2. QED
      BY <2>2, <3>1
  <2>4. /\ Len(stream') = Len(stream) + Len(s)
        /\ \A i \in 1..Len(stream) : stream'[i] = stream[i]
        /\ \A i \in (Len(stream) + 1)..Len(stream') :
              stream'[i] = s[i - Len(stream)]
    BY <1>1, <2>1, <2>3, StreamGrows
  <2>5. Len(stream) \in Nat /\ Len(s) \in Nat /\ cursor \in 0..Len(stream)
    BY <1>1, <2>3 DEF QueueTypeOK
  <2>6. \A i \in (Len(stream) + 1)..Len(stream') : stream'[i] \in delayed
    <3>1. ASSUME NEW i \in (Len(stream) + 1)..Len(stream')
          PROVE  stream'[i] \in delayed
      <4>1. i - Len(stream) \in 1..Len(s)
        BY <2>4, <2>5
      <4>2. QED
        BY <2>2, <2>3, <2>4, <4>1
    <3>2. QED
      BY <3>1
  <2>7. 1..Len(stream') = 1..Len(stream) \cup (Len(stream) + 1)..Len(stream')
    BY <2>4, <2>5
  <2>8. ASSUME NEW p \in Page
        PROVE  Enqueued(p)' <=> Enqueued(p)
    <3>1. \A d \in delayed : Enqueued(d.page)
      BY <1>1 DEF QueueInv, DelayedNext
    <3>2. Enqueued(p) => Enqueued(p)'
      BY <2>4, <2>7 DEF Enqueued
    <3>3. Enqueued(p)' => Enqueued(p)
      BY <2>4, <2>6, <2>7, <3>1 DEF Enqueued
    <3>4. QED
      BY <3>2, <3>3
  <2>9. ASSUME NEW p \in Page
        PROVE  Pending(p)' => Pending(p)
    <3>1. delayed' \subseteq delayed
      BY <1>4 DEF MoverExec
    <3>2. LiveEntries'
              \subseteq LiveEntries \cup (Len(stream) + 1)..Len(stream')
      BY <1>2, <2>4, <2>5 DEF LiveEntries, Unread
    <3>3. LiveEntries \subseteq 1..Len(stream)
      BY <1>1, LiveInStream
    <3>4. QED
      BY <2>4, <2>6, <3>1, <3>2, <3>3 DEF Pending
  <2>10. QED
    BY <1>1, <1>2, <2>8, <2>9, StrandStep
<1>5. QED
  BY <1>3, <1>4 DEF MoverStep

LEMMA OtherRefines ==
    ASSUME IInv, IInv',
           \/ \E p \in Page : Expire(p)
           \/ \E j \in Jobs : Cancel(j)
           \/ BeginShutdown
           \/ Restart
           \/ UNCHANGED vars
    PROVE  Abstract!Next
<1>1. TypeOK /\ TypeOK'
  BY DEF IInv, TypeInv
<1>2. UNCHANGED <<stream, cursor, delayed>> /\ UNCHANGED reportVars
  BY DEF Expire, IdemExpires, Cancel, CancelJob, BeginShutdown, Restart, vars,
         queueVars
<1>3. UNCHANGED <<wpc, held>> \/ wpc' = [w \in Workers |-> "idle"]
  BY DEF Expire, IdemExpires, Cancel, CancelJob, BeginShutdown, Restart, vars,
         queueVars, workerVars
<1>4. LiveEntries' \subseteq LiveEntries
  BY <1>2, <1>3 DEF LiveEntries, Unread, Responsible
<1>5. \A p \in Page : /\ Enqueued(p)' <=> Enqueued(p)
                      /\ Pending(p)' => Pending(p)
  BY <1>2, <1>4 DEF Enqueued, Pending
<1>6. QED
  BY <1>1, <1>2, <1>5, StrandStep

\* With one mover the dispatcher and the queue implement at-most-once
\* reporting: a page that was reported, or lost its last copy, keeps its fate
\* through retries, duplicates, ignored errors and restarts.
THEOREM ImplementsPageFateHolds ==
    ASSUME SingleMover
    PROVE  Spec => ImplementsPageFate
<1>1. Init => Abstract!Init
  BY InitRefines
<1>2. ASSUME IInv, IInv', [Next]_vars
      PROVE  Abstract!Next
  <2>1. TypeOK'
    BY <1>2 DEF IInv, TypeInv
  <2>2. ASSUME NEW p \in Page, Submit(p)
        PROVE  Abstract!Next
    BY <1>2, <2>1, <2>2, SubmitRefines
  <2>3. ASSUME NEW w \in Workers, WorkerStep(w)
        PROVE  Abstract!Next
    BY <1>2, <2>3, WorkerRefines
  <2>4. ASSUME NEW m \in Movers, MoverStep(m)
        PROVE  Abstract!Next
    BY <1>2, <2>4, MoverRefines
  <2>5. CASE \/ \E p \in Page : Expire(p)
             \/ \E j \in Jobs : Cancel(j)
             \/ BeginShutdown
             \/ Restart
             \/ UNCHANGED vars
    BY <1>2, <2>5, OtherRefines
  <2>6. QED
    BY <1>2, <2>2, <2>3, <2>4, <2>5 DEF Next
<1>3. IInv /\ IInv' /\ [Next]_vars => [Abstract!Next]_[p \in Page |-> Fate(p)]
  BY <1>2
<1>4. QED
  BY <1>1, <1>3, Invariance, PTL DEF Spec, ImplementsPageFate, Abstract!Spec

-----------------------------------------------------------------------------
(* One job of many: the pages 1 to NumPages of a job, as Pipeline has them. *)

OneJob(j) == INSTANCE PageFate WITH
                Page <- 1..NumPages,
                fate <- [n \in 1..NumPages |-> Fate(<<j, n>>)]

LEMMA JobPages ==
    ASSUME NEW j \in Jobs
    PROVE  \A n \in 1..NumPages : <<j, n>> \in Page
  BY DEF Page

\* What happens to the pages of all jobs is, for each job by itself, a step or
\* a stutter of its pages.
LEMMA JobStep ==
    ASSUME NEW j \in Jobs, Abstract!Next
    PROVE  [OneJob(j)!Next]_[n \in 1..NumPages |-> Fate(<<j, n>>)]
<1> DEFINE f == [p \in Page |-> Fate(p)]
           g == [n \in 1..NumPages |-> Fate(<<j, n>>)]
<1>1. /\ DOMAIN f = Page
      /\ g = [n \in 1..NumPages |-> f[<<j, n>>]]
      /\ g' = [n \in 1..NumPages |-> f'[<<j, n>>]]
  BY JobPages
<1>2. \/ \E p \in Page : f[p] = "new" /\ f' = [f EXCEPT ![p] = "pending"]
      \/ \E p \in Page, v \in Abstract!Final :
            f[p] = "pending" /\ f' = [f EXCEPT ![p] = v]
      \/ \E S \in SUBSET Page :
            /\ \A p \in S : f[p] = "pending"
            /\ f' = [p \in Page |-> IF p \in S THEN "stranded" ELSE f[p]]
  BY DEF Abstract!Next, Abstract!Submit, Abstract!Resolve, Abstract!Strand
<1>3. /\ \A n \in 1..NumPages :
            g[n] = "new" /\ g' = [g EXCEPT ![n] = "pending"]
               => OneJob(j)!Next
      /\ \A n \in 1..NumPages, v \in OneJob(j)!Final :
            g[n] = "pending" /\ g' = [g EXCEPT ![n] = v] => OneJob(j)!Next
      /\ \A S \in SUBSET (1..NumPages) :
            /\ \A n \in S : g[n] = "pending"
            /\ g' = [n \in 1..NumPages |-> IF n \in S THEN "stranded" ELSE g[n]]
            => OneJob(j)!Next
  BY DEF OneJob!Next, OneJob!Submit, OneJob!Resolve, OneJob!Strand
<1>4. OneJob(j)!Final = Abstract!Final
  BY DEF OneJob!Final, Abstract!Final
<1> SUFFICES g' = g \/ OneJob(j)!Next
  OBVIOUS
<1> HIDE DEF f, g
<1>5. ASSUME NEW p \in Page, NEW v, f' = [f EXCEPT ![p] = v]
      PROVE  \/ g' = g
             \/ \E n \in 1..NumPages : g[n] = f[p] /\ g' = [g EXCEPT ![n] = v]
  <2>1. \A q \in Page : f'[q] = IF q = p THEN v ELSE f[q]
    BY <1>1, <1>5
  <2>2. ASSUME NEW n \in 1..NumPages, p = <<j, n>>
        PROVE  g[n] = f[p] /\ g' = [g EXCEPT ![n] = v]
    <3>1. \A k \in 1..NumPages : g'[k] = IF k = n THEN v ELSE g[k]
      BY <1>1, <2>1, <2>2, JobPages
    <3>2. QED
      BY <1>1, <2>2, <3>1
  <2>3. CASE ~ \E n \in 1..NumPages : p = <<j, n>>
    <3>1. \A k \in 1..NumPages : g'[k] = g[k]
      BY <1>1, <2>1, <2>3, JobPages
    <3>2. QED
      BY <1>1, <3>1
  <2>4. QED
    BY <2>2, <2>3
<1>6. ASSUME NEW p \in Page, NEW v,
             f' = [f EXCEPT ![p] = v],
             \/ f[p] = "new" /\ v = "pending"
             \/ f[p] = "pending" /\ v \in Abstract!Final
      PROVE  g' = g \/ OneJob(j)!Next
  <2>1. CASE g' = g
    BY <2>1
  <2>2. ASSUME NEW n \in 1..NumPages, g[n] = f[p], g' = [g EXCEPT ![n] = v]
        PROVE  OneJob(j)!Next
    <3>1. CASE f[p] = "new" /\ v = "pending"
      BY <1>3, <2>2, <3>1
    <3>2. CASE f[p] = "pending" /\ v \in OneJob(j)!Final
      BY <1>3, <2>2, <3>2
    <3>3. QED
      BY <1>4, <1>6, <3>1, <3>2
  <2>3. QED
    BY <1>5, <1>6, <2>1, <2>2
<1>7. ASSUME NEW S \in SUBSET Page, \A p \in S : f[p] = "pending",
             f' = [p \in Page |-> IF p \in S THEN "stranded" ELSE f[p]]
      PROVE  OneJob(j)!Next
  <2> DEFINE T == {n \in 1..NumPages : <<j, n>> \in S}
  <2>1. \A n \in T : g[n] = "pending"
    BY <1>1, <1>7
  <2>2. g' = [n \in 1..NumPages |-> IF n \in T THEN "stranded" ELSE g[n]]
    BY <1>1, <1>7, JobPages
  <2>3. T \in SUBSET (1..NumPages)
    OBVIOUS
  <2> HIDE DEF T
  <2>4. QED
    BY <1>3, <2>1, <2>2, <2>3
<1>8. QED
  BY <1>2, <1>6, <1>7

\* For each job by itself the dispatcher and the queue implement PageFate,
\* which is what module Pipeline composes with the handlers of the job.
THEOREM EachJobsPageFate ==
    ASSUME SingleMover, NEW j \in Jobs
    PROVE  Spec => OneJob(j)!Spec
<1>1. Abstract!Init => OneJob(j)!Init
  BY JobPages DEF Abstract!Init, OneJob!Init
<1>2. [Abstract!Next]_[p \in Page |-> Fate(p)]
         => [OneJob(j)!Next]_[n \in 1..NumPages |-> Fate(<<j, n>>)]
  <2>1. CASE Abstract!Next
    BY <2>1, JobStep
  <2>2. ASSUME UNCHANGED [p \in Page |-> Fate(p)]
        PROVE  UNCHANGED [n \in 1..NumPages |-> Fate(<<j, n>>)]
    <3>1. \A p \in Page : Fate(p)' = Fate(p)
      BY <2>2
    <3>2. QED
      BY <3>1, JobPages
  <2>3. QED
    BY <2>1, <2>2
<1>3. QED
  BY <1>1, <1>2, ImplementsPageFateHolds, PTL
     DEF ImplementsPageFate, Abstract!Spec, OneJob!Spec
=============================================================================
