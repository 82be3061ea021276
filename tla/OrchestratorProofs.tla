------------------------- MODULE OrchestratorProofs -------------------------
(***************************************************************************)
(* Theorems about Orchestrator for any number of pages and any failures:   *)
(* its type invariant, that the counts never run ahead of the reports,     *)
(* what success and 100 percent mean, and what a stored result holds; and  *)
(* that Pipeline, where the reports are those of the dispatcher,           *)
(* implements Orchestrator.                                                *)
(***************************************************************************)
EXTENDS Pipeline, FiniteSetTheorems, TLAPS

-----------------------------------------------------------------------------
(* Numbers.                                                                *)

LEMMA Pages ==
    /\ AIPages \subseteq Nat
    /\ IsFiniteSet(AIPages)
    /\ Cardinality(AIPages) \in Nat
    /\ TotalPages > 0 => Cardinality(AIPages) = TotalPages
<1>1. PICK n \in Nat : AIPages = 1..n /\ (TotalPages > 0 => n = TotalPages)
  BY TotalPagesAssumption DEF AIPages
<1>2. IsFiniteSet(1..n) /\ Cardinality(1..n) = n
  BY FS_Interval
<1>3. QED
  BY <1>1, <1>2

\* The share of x in t, in percent, is full only if x is all of t.
LEMMA Share ==
    ASSUME NEW x \in Nat, NEW t \in Nat, t > 0, x <= t
    PROVE  /\ (x * 100) \div t \in 0..100
           /\ x < t => (x * 100) \div t < 100
<1> DEFINE q == (x * 100) \div t
           r == (x * 100) % t
<1>1. q \in Int /\ r \in 0..(t - 1) /\ x * 100 = q * t + r
  OBVIOUS
<1>2. q \in 0..100
  OBVIOUS
<1>3. ASSUME x < t PROVE q < 100
  <2>1. x * 100 < 100 * t
    BY <1>3
  <2>2. q * t <= x * 100
    BY <1>1
  <2> HIDE DEF q
  <2>3. ASSUME q >= 100 PROVE FALSE
    <3>1. q * t >= 100 * t
      BY <1>1, <2>3
    <3>2. q * t \in Int /\ 100 * t \in Int /\ x * 100 \in Int
      BY <1>1
    <3>3. QED
      BY <2>1, <2>2, <3>1, <3>2
  <2>4. QED
    BY <1>1, <2>3
<1>4. QED
  BY <1>2, <1>3

\* However the division is rounded.
LEMMA PercentOf ==
    ASSUME NEW n \in Nat, NEW t \in Nat, t > 0, n <= t, NEW x \in Percent(n, t)
    PROVE  /\ x \in 0..100
           /\ n < t => x # 100
<1> DEFINE q == (n * 100) \div t
<1>1. q \in 0..100 /\ (n < t => q < 100)
  BY Share
<1>2. CASE x = q
  BY <1>1, <1>2
<1>3. CASE x = q - 1 /\ (n * 100) % t = 0 /\ (n * 4) % t # 0
  <2>1. ASSUME q = 0 PROVE FALSE
    <3>1. n * 100 = 0
      BY <1>3, <2>1
    <3>2. n = 0
      BY <3>1
    <3>3. (0 * 4) % t = 0
      OBVIOUS
    <3>4. QED
      BY <1>3, <3>2, <3>3
  <2> HIDE DEF q
  <2>2. QED
    BY <1>1, <1>3, <2>1
<1>4. QED
  BY <1>2, <1>3 DEF Percent

-----------------------------------------------------------------------------
(* The inductive invariant.                                                *)

HoldsCopy == {"fallback", "aggregate", "store", "set"}

\* The pages whose report of a kind was handled, and those of them that the
\* handler of page p stands for when it writes.
Handled(kind) == {q \in AIPages : hpc[q] = "finished" /\ report[q] = kind}
Mine(p, kind) ==
    {q \in AIPages : (hpc[q] = "finished" \/ q = p) /\ report[q] = kind}

ReportKind == \A p \in AIPages : hpc[p] # "none" => report[p] # "none"

FitsHandled(st) ==
    /\ st.done <= Cardinality(Handled("done"))
    /\ st.failed <= Cardinality(Handled("failed"))

FitsMine(st, p) ==
    /\ st.done <= Cardinality(Mine(p, "done"))
    /\ st.failed <= Cardinality(Mine(p, "failed"))

\* Every copy of the status counts reports that were handled, and the copy of
\* a page's handler its own report besides.
CopiesFit ==
    /\ FitsHandled(status)
    /\ \A p \in AIPages : hpc[p] \in HoldsCopy => FitsMine(snap[p], p)
    /\ cpc = "set" => FitsHandled(csnap)
    /\ jpc = "set" => FitsHandled(jsnap)

\* A copy that knows the number of pages knows the right one, and the
\* submission is over by then.
KnowsTotal(st) == st.total = 0 \/ (st.total = TotalPages /\ sub = "accepted")

TotalsKnown ==
    /\ KnowsTotal(status) /\ KnowsTotal(csnap) /\ KnowsTotal(jsnap)
    /\ \A p \in AIPages : KnowsTotal(snap[p])

\* Unless job_done was called, a handler whose copy says success, or is about
\* to, has all pages accounted in it.
AccountedAt(l, st) ==
    /\ l \in {"aggregate", "store"} => AllAccounted(st)
    /\ l \in HoldsCopy /\ jpc = "none" =>
          /\ st.state = "success" => AllAccounted(st) /\ l = "set"
          /\ l = "set" \/ ~ AllAccounted(st) =>
                (st.progress = 100 <=> st.state = "success")

SnapsAccounted == \A p \in AIPages : AccountedAt(hpc[p], snap[p])

CancelIsCancelled ==
    cpc = "set" => csnap.state = "cancelled" /\ csnap.progress = 0

\* A success that no job_done call declared came from a counted copy.
SuccessKnowsTotal ==
    status.state = "success" /\ jpc = "none" => status.total # 0

IInv ==
    /\ TypeOK
    /\ ReportKind
    /\ CopiesFit
    /\ TotalsKnown
    /\ SnapsAccounted
    /\ CancelIsCancelled
    /\ SuccessKnowsTotal
    /\ SuccessAccountsForAllPages
    /\ FullProgressIsSuccess

-----------------------------------------------------------------------------
(* Sets of pages.                                                          *)

LEMMA HandledFinite ==
    ASSUME NEW kind, NEW p
    PROVE  /\ IsFiniteSet(Handled(kind)) /\ Cardinality(Handled(kind)) \in Nat
           /\ IsFiniteSet(Mine(p, kind)) /\ Cardinality(Mine(p, kind)) \in Nat
<1>1. Handled(kind) \subseteq AIPages /\ Mine(p, kind) \subseteq AIPages
  BY DEF Handled, Mine
<1>2. QED
  BY <1>1, Pages, FS_Subset, FS_CardinalityType

\* What the handlers that are done, and one more, can have counted.
LEMMA MineBounded ==
    ASSUME NEW p \in AIPages
    PROVE  Cardinality(Mine(p, "done")) + Cardinality(Mine(p, "failed"))
              <= Cardinality(AIPages)
<1> DEFINE A == Mine(p, "done")
           B == Mine(p, "failed")
<1>1. IsFiniteSet(A) /\ IsFiniteSet(B)
  BY HandledFinite
<1>2. A \cup B \subseteq AIPages /\ A \cap B = {}
  BY DEF Mine
<1> HIDE DEF A, B
<1>3. Cardinality(A \cup B) = Cardinality(A) + Cardinality(B) - Cardinality(A \cap B)
  BY <1>1, FS_Union
<1>4. Cardinality(A \cap B) = 0
  BY <1>2, FS_EmptySet
<1>5. Cardinality(A \cup B) <= Cardinality(AIPages)
  BY <1>2, Pages, FS_Subset
<1>6. Cardinality(A) \in Nat /\ Cardinality(B) \in Nat
  BY <1>1, FS_CardinalityType
<1>7. QED
  BY <1>3, <1>4, <1>5, <1>6 DEF A, B

\* When they counted as many as there are pages, they counted every page.
LEMMA MineAll ==
    ASSUME NEW p \in AIPages,
           Cardinality(Mine(p, "done")) + Cardinality(Mine(p, "failed"))
              >= Cardinality(AIPages)
    PROVE  \A q \in AIPages : hpc[q] = "finished" \/ q = p
<1> DEFINE A == Mine(p, "done")
           B == Mine(p, "failed")
<1>1. IsFiniteSet(A) /\ IsFiniteSet(B)
  BY HandledFinite
<1>2. A \cup B \subseteq AIPages /\ A \cap B = {}
  BY DEF Mine
<1>3. Cardinality(A) + Cardinality(B) >= Cardinality(AIPages)
  OBVIOUS
<1> HIDE DEF A, B
<1>4. Cardinality(A \cup B) = Cardinality(A) + Cardinality(B) - Cardinality(A \cap B)
  BY <1>1, FS_Union
<1>5. Cardinality(A \cap B) = 0
  BY <1>2, FS_EmptySet
<1>6. Cardinality(A) \in Nat /\ Cardinality(B) \in Nat
  BY <1>1, FS_CardinalityType
<1>7. Cardinality(A \cup B) <= Cardinality(AIPages)
  BY <1>2, Pages, FS_Subset
<1>8. Cardinality(A \cup B) = Cardinality(AIPages)
  BY <1>3, <1>4, <1>5, <1>6, <1>7, Pages
<1>9. A \cup B = AIPages
  BY <1>2, <1>8, Pages, FS_Subset
<1>10. QED
  BY <1>9 DEF A, B, Mine

-----------------------------------------------------------------------------
(* Copies of the status.                                                   *)

LEMMA NoStatusType ==
    /\ NoStatus \in StatusHash
    /\ NoStatus.state = "absent" /\ NoStatus.progress = 0
    /\ NoStatus.total = 0 /\ NoStatus.done = 0 /\ NoStatus.failed = 0
  BY DEF NoStatus, StatusHash, States

LEMMA FreshType ==
    ASSUME upload \in BOOLEAN,
           NEW state, NEW progress, state \in States, progress \in 0..100,
           NEW st, st = Fresh(state, progress)
    PROVE  /\ st \in StatusHash
           /\ st.state = state /\ st.progress = progress
           /\ st.total = 0 /\ st.done = 0 /\ st.failed = 0
  BY DEF Fresh, NoStatus, StatusHash

LEMMA GetType ==
    ASSUME TypeOK, NEW st \in GetStatus
    PROVE  /\ st \in StatusHash
           /\ st = status \/ st = NoStatus
  BY NoStatusType DEF GetStatus, TypeOK

\* Counting a page more keeps the copy a status, and its progress is full only
\* when all pages are accounted.
LEMMA CountedType ==
    ASSUME NEW st \in StatusHash, NEW kind \in {"done", "failed"},
           st.total > 0 => st.done + st.failed + 1 <= st.total,
           NEW c \in Counted(st, kind)
    PROVE  /\ c \in StatusHash
           /\ c.state = st.state /\ c.total = st.total
           /\ c.done = IF kind = "done" THEN st.done + 1 ELSE st.done
           /\ c.failed = IF kind = "failed" THEN st.failed + 1 ELSE st.failed
           /\ c.resultRef = st.resultRef
           /\ st.total > 0 /\ ~ AllAccounted(c) => c.progress # 100
           /\ st.total = 0 => c.progress = st.progress
<1> DEFINE d == IF kind = "done" THEN st.done + 1 ELSE st.done
           f == IF kind = "failed" THEN st.failed + 1 ELSE st.failed
<1>1. /\ d \in Nat /\ f \in Nat /\ st.total \in Nat
      /\ st.total > 0 => d + f <= st.total
      /\ st.progress \in 0..100
  BY DEF StatusHash
<1>2. PICK g \in IF st.total > 0 THEN Percent(d + f, st.total)
                                 ELSE {st.progress} :
          c = [st EXCEPT !.done = d, !.failed = f, !.progress = g]
  BY DEF Counted
<1>3. /\ g \in 0..100
      /\ st.total > 0 /\ d + f < st.total => g # 100
      /\ st.total = 0 => g = st.progress
  <2> HIDE DEF d, f
  <2>1. CASE st.total > 0
    <3>1. d + f \in Nat /\ d + f <= st.total
      BY <1>1, <2>1
    <3>2. g \in Percent(d + f, st.total)
      BY <1>2, <2>1
    <3>3. QED
      BY <1>1, <2>1, <3>1, <3>2, PercentOf
  <2>2. CASE ~ (st.total > 0)
    BY <1>1, <1>2, <2>2
  <2>3. QED
    BY <2>1, <2>2
<1> HIDE DEF d, f
<1>4. /\ c \in StatusHash
      /\ c.state = st.state /\ c.total = st.total
      /\ c.done = d /\ c.failed = f /\ c.progress = g
      /\ c.resultRef = st.resultRef
  BY <1>1, <1>2, <1>3 DEF StatusHash
<1>5. ~ AllAccounted(c) /\ st.total > 0 => d + f < st.total
  BY <1>1, <1>4 DEF AllAccounted
<1>6. QED
  BY <1>3, <1>4, <1>5 DEF d, f

\* Every report that was handled stays handled.
Kept ==
    \A q \in AIPages :
        hpc[q] = "finished" => hpc'[q] = "finished" /\ report'[q] = report[q]

\* A copy that no step touched still fits.
LEMMA StillFits ==
    ASSUME Kept, NEW st \in StatusHash
    PROVE  /\ FitsHandled(st) => FitsHandled(st)'
           /\ \A p \in AIPages :
                 report'[p] = report[p] /\ FitsMine(st, p) => FitsMine(st, p)'
<1>1. ASSUME NEW kind
      PROVE  Cardinality(Handled(kind)) <= Cardinality(Handled(kind)')
  <2>1. Handled(kind) \subseteq Handled(kind)' /\ Handled(kind)' \subseteq AIPages
    BY DEF Handled, Kept
  <2>2. IsFiniteSet(Handled(kind)')
    BY <2>1, Pages, FS_Subset
  <2>3. QED
    BY <2>1, <2>2, FS_Subset
<1>2. ASSUME NEW kind, NEW p \in AIPages, report'[p] = report[p]
      PROVE  Cardinality(Mine(p, kind)) <= Cardinality(Mine(p, kind)')
  <2>1. Mine(p, kind) \subseteq Mine(p, kind)' /\ Mine(p, kind)' \subseteq AIPages
    BY <1>2 DEF Mine, Kept
  <2>2. IsFiniteSet(Mine(p, kind)')
    BY <2>1, Pages, FS_Subset
  <2>3. QED
    BY <2>1, <2>2, FS_Subset
<1>3. ASSUME NEW kind, NEW p \in AIPages
      PROVE  /\ Cardinality(Handled(kind)) \in Nat
             /\ Cardinality(Handled(kind)') \in Nat
             /\ Cardinality(Mine(p, kind)) \in Nat
             /\ Cardinality(Mine(p, kind)') \in Nat
  <2>1. Handled(kind)' \subseteq AIPages /\ Mine(p, kind)' \subseteq AIPages
    BY DEF Handled, Mine
  <2>2. QED
    BY <2>1, HandledFinite, Pages, FS_Subset, FS_CardinalityType
<1>4. st.done \in Nat /\ st.failed \in Nat
  BY DEF StatusHash
<1>5. FitsHandled(st) => FitsHandled(st)'
  <2>1. ASSUME NEW kind PROVE Cardinality(Handled(kind)) \in Nat
                              /\ Cardinality(Handled(kind)') \in Nat
    <3>1. Handled(kind)' \subseteq AIPages
      BY DEF Handled
    <3>2. QED
      BY <3>1, HandledFinite, Pages, FS_Subset, FS_CardinalityType
  <2>2. QED
    BY <1>1, <1>4, <2>1 DEF FitsHandled
<1>6. ASSUME NEW p \in AIPages, report'[p] = report[p], FitsMine(st, p)
      PROVE  FitsMine(st, p)'
  BY <1>2, <1>3, <1>4, <1>6 DEF FitsMine
<1>7. QED
  BY <1>5, <1>6

-----------------------------------------------------------------------------
(* The steps of a page's handler.                                          *)

\* The types of what only the result depends on.
RestTypes ==
    /\ pageText \in [AIPages -> Source]
    /\ result \in [texts : SUBSET AIPages,
                   at : {"nowhere", "local", "besideOriginal", "resultsPrefix"}]
    /\ agg \in [AIPages -> SUBSET AIPages]

\* The handler of page p goes on to step l with copy st.
LEMMA PageMove ==
    ASSUME IInv, NEW p \in AIPages, NEW st \in StatusHash,
           NEW l \in HandlerPc \ {"none", "finished"},
           hpc[p] \notin {"none", "finished"},
           hpc' = [hpc EXCEPT ![p] = l], snap' = [snap EXCEPT ![p] = st],
           UNCHANGED <<status, report, submitVars, cancelVars, doneVars, crashes>>,
           RestTypes',
           l \in HoldsCopy => FitsMine(st, p),
           KnowsTotal(st), AccountedAt(l, st)
    PROVE  IInv'
<1>0. /\ TypeOK /\ ReportKind /\ CopiesFit /\ TotalsKnown /\ SnapsAccounted
      /\ CancelIsCancelled /\ SuccessKnowsTotal /\ SuccessAccountsForAllPages
      /\ FullProgressIsSuccess
  BY DEF IInv
<1>1. /\ hpc \in [AIPages -> HandlerPc] /\ snap \in [AIPages -> StatusHash]
      /\ status \in StatusHash /\ csnap \in StatusHash /\ jsnap \in StatusHash
  BY <1>0 DEF TypeOK
<1>2. hpc' \in [AIPages -> HandlerPc] /\ snap' \in [AIPages -> StatusHash]
  BY <1>1
<1>3. TypeOK'
  BY <1>0, <1>2 DEF TypeOK, RestTypes, submitVars, setupVars, cancelVars, doneVars
<1>4. ReportKind'
  BY <1>0, <1>1 DEF ReportKind
<1>5. Kept
  BY <1>1 DEF Kept
<1>6. CopiesFit'
  <2>1. FitsHandled(status)' /\ (cpc' = "set" => FitsHandled(csnap)')
        /\ (jpc' = "set" => FitsHandled(jsnap)')
    BY <1>0, <1>1, <1>5, StillFits DEF CopiesFit, FitsHandled, cancelVars, doneVars
  <2>2. ASSUME NEW q \in AIPages, hpc'[q] \in HoldsCopy
        PROVE  FitsMine(snap[q], q)'
    <3>1. CASE q = p
      <4>1. FitsMine(st, p)'
        BY <1>1, <1>5, <2>2, <3>1, StillFits
      <4>2. snap'[p] = st
        BY <1>1
      <4>3. QED
        BY <3>1, <4>1, <4>2 DEF FitsMine
    <3>2. CASE q # p
      <4>1. hpc'[q] = hpc[q] /\ snap'[q] = snap[q]
        BY <1>1, <3>2
      <4>2. PICK c \in StatusHash : c = snap[q]
        BY <1>1
      <4>3. FitsMine(c, q)
        BY <1>0, <2>2, <4>1, <4>2 DEF CopiesFit
      <4>4. FitsMine(c, q)'
        BY <1>5, <4>3, StillFits
      <4>5. QED
        BY <4>1, <4>2, <4>4 DEF FitsMine
    <3>3. QED
      BY <3>1, <3>2
  <2>3. QED
    BY <2>1, <2>2 DEF CopiesFit
<1>7. TotalsKnown'
  BY <1>0, <1>1 DEF TotalsKnown, KnowsTotal, submitVars, setupVars, cancelVars, doneVars
<1>8. SnapsAccounted'
  <2>1. ASSUME NEW q \in AIPages
        PROVE  AccountedAt(hpc[q], snap[q])'
    <3>1. CASE q = p
      BY <1>1, <3>1 DEF AccountedAt, AllAccounted, doneVars
    <3>2. CASE q # p
      BY <1>0, <1>1, <3>2 DEF SnapsAccounted, AccountedAt, AllAccounted, doneVars
    <3>3. QED
      BY <3>1, <3>2
  <2>2. QED
    BY <2>1 DEF SnapsAccounted
<1>9. CancelIsCancelled'
  BY <1>0 DEF CancelIsCancelled, cancelVars
<1>10. SuccessAccountsForAllPages'
  <2>1. \A q \in AIPages : hpc[q] = "finished" => hpc'[q] = "finished"
    BY <1>1
  <2>2. QED
    BY <1>0, <2>1 DEF SuccessAccountsForAllPages, Counters, doneVars
<1>11. FullProgressIsSuccess'
  BY <1>0 DEF FullProgressIsSuccess, doneVars
<1>12. SuccessKnowsTotal'
  BY <1>0 DEF SuccessKnowsTotal, doneVars
<1>13. QED
  BY <1>3, <1>4, <1>6, <1>7, <1>8, <1>9, <1>10, <1>11, <1>12 DEF IInv

\* What the invariant says of the handler of page p.
LEMMA PageFacts ==
    ASSUME IInv, NEW p \in AIPages
    PROVE  /\ hpc \in [AIPages -> HandlerPc] /\ snap \in [AIPages -> StatusHash]
           /\ status \in StatusHash /\ snap[p] \in StatusHash
           /\ hpc[p] # "none" => report[p] \in {"done", "failed"}
           /\ hpc[p] \in HoldsCopy => FitsMine(snap[p], p)
           /\ KnowsTotal(snap[p]) /\ KnowsTotal(status)
           /\ AccountedAt(hpc[p], snap[p])
           /\ RestTypes
  BY DEF IInv, TypeOK, ReportKind, CopiesFit, TotalsKnown, SnapsAccounted,
         RestTypes

LEMMA SavePageStep ==
    ASSUME IInv, NEW p \in AIPages, SavePage(p)
    PROVE  IInv'
<1>1. /\ hpc[p] = "savePage" /\ hpc' = [hpc EXCEPT ![p] = "get"]
      /\ snap' = [snap EXCEPT ![p] = snap[p]]
      /\ UNCHANGED <<status, report, submitVars, cancelVars, doneVars, crashes>>
  BY PageFacts DEF SavePage, GotoPage
<1>2. RestTypes'
  BY PageFacts DEF SavePage, RestTypes, Source
<1>3. AccountedAt("get", snap[p])
  BY DEF AccountedAt, HoldsCopy
<1>4. QED
  BY <1>1, <1>2, <1>3, PageFacts, PageMove DEF HandlerPc, HoldsCopy

LEMMA FallbackTextStep ==
    ASSUME IInv, NEW p \in AIPages, FallbackText(p)
    PROVE  IInv'
<1> DEFINE l == AfterCount(snap[p])
<1>1. /\ hpc[p] = "fallback" /\ hpc' = [hpc EXCEPT ![p] = l]
      /\ snap' = [snap EXCEPT ![p] = snap[p]]
      /\ UNCHANGED <<status, report, submitVars, cancelVars, doneVars, crashes>>
  BY PageFacts DEF FallbackText, GotoPage
<1>2. RestTypes'
  BY PageFacts DEF FallbackText, RestTypes, Source
<1>3. AccountedAt(l, snap[p])
  BY <1>1, PageFacts DEF AccountedAt, HoldsCopy, AfterCount
<1>4. l \in HandlerPc \ {"none", "finished"}
  BY DEF AfterCount, HandlerPc
<1>5. FitsMine(snap[p], p)
  BY <1>1, PageFacts DEF HoldsCopy
<1> HIDE DEF l
<1>6. QED
  BY <1>1, <1>2, <1>3, <1>4, <1>5, PageFacts, PageMove

LEMMA AggregateStep ==
    ASSUME IInv, NEW p \in AIPages, Aggregate(p)
    PROVE  IInv'
<1>1. /\ hpc[p] = "aggregate" /\ hpc' = [hpc EXCEPT ![p] = "store"]
      /\ snap' = [snap EXCEPT ![p] = snap[p]]
      /\ UNCHANGED <<status, report, submitVars, cancelVars, doneVars, crashes>>
  BY PageFacts DEF Aggregate, GotoPage, storeVars
<1>2. RestTypes'
  <2>1. agg' \in [AIPages -> SUBSET AIPages]
    BY PageFacts DEF Aggregate, RestTypes, PagesWithText
  <2>2. QED
    BY <2>1, PageFacts DEF Aggregate, RestTypes, storeVars
<1>3. AccountedAt("store", snap[p])
  BY <1>1, PageFacts DEF AccountedAt, HoldsCopy
<1>4. FitsMine(snap[p], p)
  BY <1>1, PageFacts DEF HoldsCopy
<1>5. QED
  BY <1>1, <1>2, <1>3, <1>4, PageFacts, PageMove DEF HandlerPc

\* A copy that is marked keeps its counts.
Marked(st, state, n) == [st EXCEPT !.state = state, !.progress = n]

LEMMA MarkedType ==
    ASSUME NEW st \in StatusHash,
           NEW state, NEW n, state \in States, n \in 0..100,
           NEW marked, marked = Marked(st, state, n)
    PROVE  /\ marked \in StatusHash
           /\ marked.state = state /\ marked.progress = n
           /\ marked.total = st.total
           /\ marked.done = st.done /\ marked.failed = st.failed
  BY DEF StatusHash, Marked

LEMMA StoreResultStep ==
    ASSUME IInv, NEW p \in AIPages, StoreResult(p)
    PROVE  IInv'
<1>1. PICK st \in StatusHash :
         /\ st.state = "success" /\ st.progress = 100
         /\ st.total = snap[p].total
         /\ st.done = snap[p].done /\ st.failed = snap[p].failed
         /\ snap' = [snap EXCEPT ![p] = st]
  <2>1. PICK c \in StatusHash : c = snap[p]
    BY PageFacts
  <2>2. PICK m : m = Marked(c, "success", 100)
    OBVIOUS
  <2>3. /\ m \in StatusHash /\ m.state = "success" /\ m.progress = 100
        /\ m.total = c.total /\ m.done = c.done /\ m.failed = c.failed
    <3>1. "success" \in States /\ 100 \in 0..100
      BY DEF States
    <3>2. QED
      BY <2>1, <2>2, <3>1, MarkedType
  <2>4. PICK r : r = [m EXCEPT !.resultRef = TRUE]
    OBVIOUS
  <2>5. /\ r \in StatusHash /\ r.state = m.state /\ r.progress = m.progress
        /\ r.total = m.total /\ r.done = m.done /\ r.failed = m.failed
    BY <2>3, <2>4 DEF StatusHash
  <2>6. snap' = [snap EXCEPT ![p] = m] \/ snap' = [snap EXCEPT ![p] = r]
    BY <2>1, <2>2, <2>4 DEF StoreResult, Marked
  <2>7. QED
    BY <2>1, <2>3, <2>5, <2>6
<1>2. /\ hpc[p] = "store" /\ hpc' = [hpc EXCEPT ![p] = "set"]
      /\ UNCHANGED <<status, report, submitVars, cancelVars, doneVars, crashes>>
  BY DEF StoreResult, GotoPage
<1>3. RestTypes'
  BY PageFacts DEF StoreResult, RestTypes, ResultPlace
<1>4. AccountedAt("set", st)
  BY <1>1, <1>2, PageFacts DEF AccountedAt, AllAccounted, HoldsCopy
<1>5. FitsMine(st, p) /\ KnowsTotal(st)
  BY <1>1, <1>2, PageFacts DEF FitsMine, KnowsTotal, HoldsCopy
<1>6. QED
  BY <1>1, <1>2, <1>3, <1>4, <1>5, PageMove DEF HandlerPc

\* Handlers of distinct pages count distinct reports.
LEMMA CountedFits ==
    ASSUME IInv, NEW p \in AIPages, hpc[p] = "get", NEW st \in StatusHash,
           FitsHandled(st), st.total = 0 \/ st.total = TotalPages
    PROVE  /\ st.total > 0 => st.done + st.failed + 1 <= st.total
           /\ \A c \in Counted(st, report[p]) : FitsMine(c, p)
<1>1. report[p] \in {"done", "failed"} /\ p \in AIPages
  BY PageFacts
<1> DEFINE k == report[p]
           o == IF k = "done" THEN "failed" ELSE "done"
<1>2. /\ Mine(p, k) = Handled(k) \cup {p} /\ p \notin Handled(k)
      /\ Mine(p, o) = Handled(o)
  BY <1>1 DEF Mine, Handled
<1>3. Cardinality(Mine(p, k)) = Cardinality(Handled(k)) + 1
  BY <1>2, HandledFinite, FS_AddElement
<1>4. Cardinality(Mine(p, o)) = Cardinality(Handled(o))
  BY <1>2
<1>5. /\ Cardinality(Handled("done")) \in Nat
      /\ Cardinality(Handled("failed")) \in Nat
      /\ st.done \in Nat /\ st.failed \in Nat /\ st.total \in Nat
  BY HandledFinite DEF StatusHash
<1>6. /\ st.done <= Cardinality(Handled("done"))
      /\ st.failed <= Cardinality(Handled("failed"))
  BY DEF FitsHandled
<1>7. ASSUME st.total > 0 PROVE st.done + st.failed + 1 <= st.total
  <2>1. Cardinality(AIPages) = st.total
    BY <1>7, Pages, TotalPagesAssumption
  <2>2. Cardinality(Mine(p, "done")) + Cardinality(Mine(p, "failed"))
          = Cardinality(Handled("done")) + Cardinality(Handled("failed")) + 1
    BY <1>1, <1>3, <1>4, <1>5
  <2>3. QED
    BY <1>5, <1>6, <2>1, <2>2, MineBounded
<1>8. ASSUME NEW c \in Counted(st, k) PROVE FitsMine(c, p)
  <2>1. /\ c.done = IF k = "done" THEN st.done + 1 ELSE st.done
        /\ c.failed = IF k = "failed" THEN st.failed + 1 ELSE st.failed
    BY <1>1, <1>7, <1>8, CountedType
  <2>2. QED
    BY <1>1, <1>3, <1>4, <1>5, <1>6, <2>1 DEF FitsMine
<1>9. QED
  BY <1>7, <1>8

\* The handler of page p is over, having written its copy or not.
LEMMA PageFinish ==
    ASSUME IInv, NEW p \in AIPages, hpc[p] \notin {"none", "finished"},
           hpc' = [hpc EXCEPT ![p] = "finished"],
           status' = status \/ (hpc[p] = "set" /\ status' = snap[p]),
           UNCHANGED <<snap, report, submitVars, cancelVars, doneVars, crashes>>,
           RestTypes'
    PROVE  IInv'
<1>0. /\ TypeOK /\ ReportKind /\ CopiesFit /\ TotalsKnown /\ SnapsAccounted
      /\ CancelIsCancelled /\ SuccessKnowsTotal /\ SuccessAccountsForAllPages
      /\ FullProgressIsSuccess
  BY DEF IInv
<1>1. /\ hpc \in [AIPages -> HandlerPc] /\ snap \in [AIPages -> StatusHash]
      /\ status \in StatusHash /\ csnap \in StatusHash /\ jsnap \in StatusHash
  BY <1>0 DEF TypeOK
<1>2. hpc' \in [AIPages -> HandlerPc]
  BY <1>1 DEF HandlerPc
<1>3. TypeOK'
  BY <1>0, <1>1, <1>2 DEF TypeOK, RestTypes, submitVars, setupVars, cancelVars, doneVars
<1>4. ReportKind'
  BY <1>0, <1>1 DEF ReportKind
<1>5. Kept
  BY <1>1 DEF Kept
<1>6. PICK st \in StatusHash : st = status'
  BY <1>1
<1>7. CopiesFit'
  <2>1. FitsHandled(st)'
    <3>1. CASE status' = status
      BY <1>0, <1>5, <1>6, <3>1, StillFits DEF CopiesFit
    <3>2. CASE hpc[p] = "set" /\ status' = snap[p]
      <4>1. FitsMine(st, p)
        BY <1>0, <1>6, <3>2 DEF CopiesFit, HoldsCopy
      <4>2. ASSUME NEW kind PROVE Handled(kind)' = Mine(p, kind)
        BY <1>1 DEF Handled, Mine
      <4>3. QED
        BY <4>1, <4>2 DEF FitsHandled, FitsMine
    <3>3. QED
      BY <3>1, <3>2
  <2>2. (cpc' = "set" => FitsHandled(csnap)') /\ (jpc' = "set" => FitsHandled(jsnap)')
    BY <1>0, <1>1, <1>5, StillFits DEF CopiesFit, FitsHandled, cancelVars, doneVars
  <2>3. ASSUME NEW q \in AIPages, hpc'[q] \in HoldsCopy
        PROVE  FitsMine(snap[q], q)'
    <3>1. q # p /\ hpc'[q] = hpc[q] /\ snap'[q] = snap[q]
      BY <1>1, <2>3 DEF HoldsCopy
    <3>2. PICK c \in StatusHash : c = snap[q]
      BY <1>1
    <3>3. FitsMine(c, q)
      BY <1>0, <2>3, <3>1, <3>2 DEF CopiesFit
    <3>4. FitsMine(c, q)'
      BY <1>5, <3>3, StillFits
    <3>5. QED
      BY <3>1, <3>2, <3>4 DEF FitsMine
  <2>4. FitsHandled(status)'
    BY <1>6, <2>1 DEF FitsHandled
  <2>5. QED
    BY <2>2, <2>3, <2>4 DEF CopiesFit
<1>8. TotalsKnown'
  BY <1>0, <1>1 DEF TotalsKnown, KnowsTotal, submitVars, setupVars, cancelVars, doneVars
<1>9. SnapsAccounted'
  <2>1. ASSUME NEW q \in AIPages
        PROVE  AccountedAt(hpc[q], snap[q])'
    <3>1. CASE q = p
      BY <1>1, <3>1 DEF AccountedAt, HoldsCopy
    <3>2. CASE q # p
      BY <1>0, <1>1, <3>2 DEF SnapsAccounted, AccountedAt, AllAccounted, doneVars
    <3>3. QED
      BY <3>1, <3>2
  <2>2. QED
    BY <2>1 DEF SnapsAccounted
<1>10. CancelIsCancelled'
  BY <1>0 DEF CancelIsCancelled, cancelVars
<1>11. AccountedAt(hpc[p], snap[p]) /\ jpc' = jpc
  BY <1>0 DEF SnapsAccounted, doneVars
<1>12. SuccessAccountsForAllPages'
  <2>1. SUFFICES ASSUME status'.state = "success", jpc = "none"
                 PROVE  \A q \in AIPages : hpc[q] = "finished" \/ q = p
    BY <1>1, <1>11 DEF SuccessAccountsForAllPages, Counters
  <2>2. CASE status' = status
    BY <1>0, <2>1, <2>2 DEF SuccessAccountsForAllPages, Counters
  <2>3. CASE hpc[p] = "set" /\ status' = snap[p]
    <3>1. st.total > 0 /\ st.done + st.failed >= st.total
      BY <1>6, <1>11, <2>1, <2>3 DEF AccountedAt, AllAccounted, HoldsCopy
    <3>2. st.total = TotalPages
      BY <1>0, <1>6, <2>3, <3>1 DEF TotalsKnown, KnowsTotal
    <3>3. FitsMine(st, p)
      BY <1>0, <1>6, <2>3 DEF CopiesFit, HoldsCopy
    <3>4. st.done \in Nat /\ st.failed \in Nat /\ st.total \in Nat
      BY DEF StatusHash
    <3>5. Cardinality(Mine(p, "done")) + Cardinality(Mine(p, "failed"))
            >= Cardinality(AIPages)
      <4>1. Cardinality(AIPages) = st.total
        BY <3>1, <3>2, Pages
      <4>2. /\ Cardinality(Mine(p, "done")) \in Nat
            /\ Cardinality(Mine(p, "failed")) \in Nat
        BY HandledFinite
      <4>3. QED
        BY <3>1, <3>3, <3>4, <4>1, <4>2 DEF FitsMine
    <3>6. QED
      BY <3>5, MineAll
  <2>4. QED
    BY <2>2, <2>3
<1>13. FullProgressIsSuccess'
  BY <1>0, <1>11 DEF FullProgressIsSuccess, AccountedAt, HoldsCopy
<1>14. SuccessKnowsTotal'
  BY <1>0, <1>1, <1>6, <1>11
     DEF SuccessKnowsTotal, AccountedAt, AllAccounted, HoldsCopy
<1>15. QED
  BY <1>3, <1>4, <1>7, <1>8, <1>9, <1>10, <1>12, <1>13, <1>14 DEF IInv

LEMMA SetForReportStep ==
    ASSUME IInv, NEW p \in AIPages, SetForReport(p)
    PROVE  IInv'
<1>1. /\ hpc[p] \notin {"none", "finished"}
      /\ hpc' = [hpc EXCEPT ![p] = "finished"]
      /\ status' = status \/ (hpc[p] = "set" /\ status' = snap[p])
      /\ UNCHANGED <<snap, report, submitVars, cancelVars, doneVars, crashes>>
  BY DEF SetForReport, GotoPage, SetStatus
<1>2. RestTypes'
  BY PageFacts DEF SetForReport, RestTypes
<1>3. QED
  BY <1>1, <1>2, PageFinish

LEMMA GetForReportStep ==
    ASSUME IInv, NEW p \in AIPages, GetForReport(p)
    PROVE  IInv'
<1>0. /\ hpc[p] = "get" /\ report[p] \in {"done", "failed"}
      /\ UNCHANGED <<status, report, submitVars, cancelVars, doneVars, crashes>>
  BY PageFacts DEF GetForReport, storeVars
<1>1. RestTypes'
  BY PageFacts DEF GetForReport, RestTypes, storeVars
<1>2. PICK st \in GetStatus :
         IF st.state = "absent"
            THEN hpc' = [hpc EXCEPT ![p] = "finished"] /\ UNCHANGED snap
            ELSE \E c \in Counted(st, report[p]) :
                 /\ snap' = [snap EXCEPT ![p] = c]
                 /\ hpc' = [hpc EXCEPT ![p] =
                       IF report[p] = "failed" THEN "fallback" ELSE AfterCount(c)]
  BY DEF GetForReport, GotoPage
<1>3. CASE st.state = "absent"
  <2>1. /\ hpc[p] \notin {"none", "finished"}
        /\ hpc' = [hpc EXCEPT ![p] = "finished"]
        /\ status' = status \/ (hpc[p] = "set" /\ status' = snap[p])
        /\ UNCHANGED <<snap, report, submitVars, cancelVars, doneVars, crashes>>
    BY <1>0, <1>2, <1>3
  <2>2. QED
    BY <1>1, <2>1, PageFinish
<1>4. CASE st.state # "absent"
  <2>1. PICK k \in {"done", "failed"} : k = report[p]
    BY <1>0
  <2>2. st \in StatusHash /\ st = status
    BY <1>4, GetType, NoStatusType DEF IInv
  <2>3. FitsHandled(st) /\ KnowsTotal(st)
    BY <2>2 DEF IInv, CopiesFit, TotalsKnown
  <2>4. /\ st.total > 0 => st.done + st.failed + 1 <= st.total
        /\ \A c \in Counted(st, k) : FitsMine(c, p)
    BY <1>0, <2>1, <2>2, <2>3, CountedFits DEF KnowsTotal
  <2>5. PICK c \in Counted(st, k) :
           /\ snap' = [snap EXCEPT ![p] = c]
           /\ hpc' = [hpc EXCEPT ![p] =
                 IF k = "failed" THEN "fallback" ELSE AfterCount(c)]
    BY <1>2, <1>4, <2>1
  <2>6. /\ c \in StatusHash /\ c.state = st.state /\ c.total = st.total
        /\ st.total > 0 /\ ~ AllAccounted(c) => c.progress # 100
        /\ st.total = 0 => c.progress = st.progress
    BY <2>2, <2>4, <2>5, CountedType
  <2>7. jpc = "none" => st.state # "success" /\ st.progress # 100
    BY <1>0, <2>2
       DEF IInv, SuccessAccountsForAllPages, FullProgressIsSuccess, Counters
  <2>8. PICK l : l = IF k = "failed" THEN "fallback" ELSE AfterCount(c)
    OBVIOUS
  <2>9. /\ l \in HandlerPc \ {"none", "finished"}
        /\ l = "set" => ~ AllAccounted(c)
        /\ l # "store" /\ (l = "aggregate" => AllAccounted(c))
    BY <2>8 DEF AfterCount, HandlerPc
  <2>10. st.total \in Nat
    BY <2>2 DEF StatusHash
  <2>11. AccountedAt(l, c)
    BY <2>6, <2>7, <2>9, <2>10 DEF AccountedAt
  <2>12. KnowsTotal(c) /\ FitsMine(c, p)
    BY <2>1, <2>3, <2>4, <2>5, <2>6 DEF KnowsTotal
  <2>13. hpc' = [hpc EXCEPT ![p] = l] /\ snap' = [snap EXCEPT ![p] = c]
    BY <2>5, <2>8
  <2>14. QED
    BY <1>0, <1>1, <2>6, <2>9, <2>11, <2>12, <2>13, PageMove
<1>5. QED
  BY <1>3, <1>4

LEMMA PageReportedStep ==
    ASSUME IInv, NEW p \in AIPages, NEW kind \in {"done", "failed"},
           PageReported(p, kind)
    PROVE  IInv'
<1>0. /\ TypeOK /\ ReportKind /\ CopiesFit /\ TotalsKnown /\ SnapsAccounted
      /\ CancelIsCancelled /\ SuccessKnowsTotal /\ SuccessAccountsForAllPages
      /\ FullProgressIsSuccess
  BY DEF IInv
<1>1. /\ hpc \in [AIPages -> HandlerPc] /\ snap \in [AIPages -> StatusHash]
      /\ report \in [AIPages -> {"none", "done", "failed"}]
      /\ status \in StatusHash /\ csnap \in StatusHash /\ jsnap \in StatusHash
  BY <1>0 DEF TypeOK
<1>2. PICK l \in {"savePage", "get"} : hpc' = [hpc EXCEPT ![p] = l]
  BY DEF PageReported, HandlerStarts, GotoPage
<1>3. /\ hpc[p] = "none" /\ report' = [report EXCEPT ![p] = kind]
      /\ UNCHANGED <<snap, agg, storeVars, submitVars, cancelVars, doneVars,
                     crashes>>
  BY DEF PageReported, HandlerStarts
<1>4. /\ hpc' \in [AIPages -> HandlerPc]
      /\ report' \in [AIPages -> {"none", "done", "failed"}]
  BY <1>1, <1>2, <1>3 DEF HandlerPc
<1>5. TypeOK'
  BY <1>0, <1>3, <1>4 DEF TypeOK, storeVars, submitVars, setupVars, cancelVars, doneVars
<1>6. ReportKind'
  BY <1>0, <1>1, <1>2, <1>3 DEF ReportKind
<1>7. Kept
  BY <1>1, <1>2, <1>3 DEF Kept
<1>8. CopiesFit'
  <2>1. FitsHandled(status)' /\ (cpc' = "set" => FitsHandled(csnap)')
        /\ (jpc' = "set" => FitsHandled(jsnap)')
    BY <1>0, <1>1, <1>3, <1>7, StillFits
       DEF CopiesFit, FitsHandled, storeVars, cancelVars, doneVars
  <2>2. ASSUME NEW q \in AIPages, hpc'[q] \in HoldsCopy
        PROVE  FitsMine(snap[q], q)'
    <3>1. /\ q # p /\ hpc'[q] = hpc[q] /\ snap'[q] = snap[q]
          /\ report'[q] = report[q]
      BY <1>1, <1>2, <1>3, <2>2 DEF HoldsCopy
    <3>2. PICK c \in StatusHash : c = snap[q]
      BY <1>1
    <3>3. FitsMine(c, q)
      BY <1>0, <2>2, <3>1, <3>2 DEF CopiesFit
    <3>4. FitsMine(c, q)'
      BY <1>7, <3>1, <3>3, StillFits
    <3>5. QED
      BY <3>1, <3>2, <3>4 DEF FitsMine
  <2>3. QED
    BY <2>1, <2>2 DEF CopiesFit
<1>9. TotalsKnown'
  BY <1>0, <1>3
     DEF TotalsKnown, KnowsTotal, storeVars, submitVars, setupVars, cancelVars, doneVars
<1>10. SnapsAccounted'
  <2>1. ASSUME NEW q \in AIPages
        PROVE  AccountedAt(hpc[q], snap[q])'
    <3>1. CASE q = p
      BY <1>1, <1>2, <3>1 DEF AccountedAt, HoldsCopy
    <3>2. CASE q # p
      BY <1>0, <1>1, <1>2, <1>3, <3>2
         DEF SnapsAccounted, AccountedAt, AllAccounted, doneVars
    <3>3. QED
      BY <3>1, <3>2
  <2>2. QED
    BY <2>1 DEF SnapsAccounted
<1>11. CancelIsCancelled'
  BY <1>0, <1>3 DEF CancelIsCancelled, cancelVars
<1>12. SuccessAccountsForAllPages'
  <2>1. \A q \in AIPages : hpc[q] = "finished" => hpc'[q] = "finished"
    BY <1>7 DEF Kept
  <2>2. QED
    BY <1>0, <1>3, <2>1
       DEF SuccessAccountsForAllPages, Counters, storeVars, doneVars
<1>13. FullProgressIsSuccess'
  BY <1>0, <1>3 DEF FullProgressIsSuccess, storeVars, doneVars
<1>14. SuccessKnowsTotal'
  BY <1>0, <1>3 DEF SuccessKnowsTotal, storeVars, doneVars
<1>15. QED
  BY <1>5, <1>6, <1>8, <1>9, <1>10, <1>11, <1>12, <1>13, <1>14 DEF IInv

-----------------------------------------------------------------------------
(* The steps of the other handlers, which leave the pages alone.           *)

\* The status turns to st, and the copies of the web handlers to cs and js.
LEMMA OtherMove ==
    ASSUME IInv, TypeOK', UNCHANGED <<report, hpc, snap>>,
           NEW st \in StatusHash, status' = st, FitsHandled(st),
           NEW cs \in StatusHash, csnap' = cs,
           cpc' = "set" => FitsHandled(cs) /\ cs.state = "cancelled"
                           /\ cs.progress = 0,
           NEW js \in StatusHash, jsnap' = js,
           jpc' = "set" => FitsHandled(js),
           jpc' = "none" => jpc = "none",
           TotalsKnown',
           jpc = "none" => /\ st.state = "success" => Counters = AIPages
                           /\ st.state = "success" => st.total # 0
                           /\ st.progress = 100 <=> st.state = "success"
    PROVE  IInv'
<1>1. ReportKind'
  BY DEF IInv, ReportKind
<1>2. CopiesFit'
  BY DEF IInv, CopiesFit, FitsHandled, FitsMine, Handled, Mine
<1>3. SnapsAccounted'
  BY DEF IInv, SnapsAccounted, AccountedAt, AllAccounted
<1>4. CancelIsCancelled'
  BY DEF CancelIsCancelled
<1>5. SuccessAccountsForAllPages' /\ FullProgressIsSuccess' /\ SuccessKnowsTotal'
  BY DEF SuccessAccountsForAllPages, FullProgressIsSuccess, SuccessKnowsTotal,
     Counters
<1>6. QED
  BY <1>1, <1>2, <1>3, <1>4, <1>5 DEF IInv

\* What the invariant says of the status and the web handlers' copies.
LEMMA WebFacts ==
    ASSUME IInv
    PROVE  /\ status \in StatusHash /\ csnap \in StatusHash
           /\ jsnap \in StatusHash
           /\ FitsHandled(status)
           /\ cpc = "set" => FitsHandled(csnap) /\ csnap.state = "cancelled"
                             /\ csnap.progress = 0
           /\ jpc = "set" => FitsHandled(jsnap)
           /\ jpc = "none" =>
                 /\ status.state = "success" => Counters = AIPages
                 /\ status.state = "success" => status.total # 0
                 /\ status.progress = 100 <=> status.state = "success"
           /\ TypeOK /\ TotalsKnown
  BY DEF IInv, TypeOK, CopiesFit, CancelIsCancelled,
         SuccessKnowsTotal, SuccessAccountsForAllPages, FullProgressIsSuccess

\* A copy that counts nothing fits.
LEMMA NothingCounted ==
    ASSUME NEW st, st.done = 0, st.failed = 0
    PROVE  FitsHandled(st)
<1>1. /\ Cardinality(Handled("done")) \in Nat
      /\ Cardinality(Handled("failed")) \in Nat
  BY HandledFinite
<1>2. QED
  BY <1>1 DEF FitsHandled

\* A step of the submission, which writes st or fails to.
LEMMA SubmitMove ==
    ASSUME IInv, NEW st \in StatusHash, status' = status \/ status' = st,
           st.done = 0, st.failed = 0, st.state # "success", st.progress # 100,
           st.total = 0 \/ (st.total = TotalPages /\ sub' = "accepted"),
           sub # "accepted", sub' \in SubPc,
           enqueued' \in 0..Cardinality(AIPages),
           UNCHANGED <<setupVars, pageText, result, pageVars, cancelVars, doneVars,
                       crashes>>
    PROVE  IInv'
<1>1. PICK new \in StatusHash : new = status' /\ (new = status \/ new = st)
  BY WebFacts
<1>2. TypeOK'
  BY <1>1, WebFacts DEF TypeOK, setupVars, pageVars, cancelVars, doneVars
<1>3. FitsHandled(new)
  BY <1>1, WebFacts, NothingCounted
<1>4. TotalsKnown'
  BY <1>1, WebFacts
     DEF TotalsKnown, KnowsTotal, pageVars, cancelVars, doneVars
<1>5. jpc = "none" => /\ new.state = "success" => Counters = AIPages
                      /\ new.state = "success" => new.total # 0
                      /\ new.progress = 100 <=> new.state = "success"
  BY <1>1, WebFacts
<1>6. QED
  <2>1. PICK cs \in StatusHash : cs = csnap
    BY WebFacts
  <2>2. PICK js \in StatusHash : js = jsnap
    BY WebFacts
  <2>3. /\ csnap' = cs /\ jsnap' = js /\ cpc' = cpc /\ jpc' = jpc
        /\ UNCHANGED <<report, hpc, snap>>
    BY <2>1, <2>2 DEF pageVars, cancelVars, doneVars
  <2>4. /\ cpc' = "set" => FitsHandled(cs) /\ cs.state = "cancelled"
                            /\ cs.progress = 0
        /\ jpc' = "set" => FitsHandled(js)
    BY <2>1, <2>2, <2>3, WebFacts
  <2>5. QED
    BY <1>1, <1>2, <1>3, <1>4, <1>5, <2>3, <2>4, OtherMove

LEMMA SubmitStepKeeps ==
    ASSUME IInv, SubmitStep
    PROVE  IInv'
<1>0. /\ sub \in SubPc /\ enqueued \in 0..Cardinality(AIPages)
      /\ status \in StatusHash /\ upload \in BOOLEAN
  BY DEF IInv, TypeOK
<1>1. Cardinality(AIPages) \in Nat
  BY Pages
<1>2. PICK none \in StatusHash :
         /\ none.done = 0 /\ none.failed = 0 /\ none.total = 0
         /\ none.state # "success" /\ none.progress # 100
  BY NoStatusType
<1>3. {"queued", "processing", "failed"} \subseteq States
  BY DEF States
<1>4. CASE SetQueued
  <2>1. PICK st : st = Fresh("queued", 0)
    OBVIOUS
  <2>2. /\ st \in StatusHash /\ st.state = "queued" /\ st.progress = 0
        /\ st.total = 0 /\ st.done = 0 /\ st.failed = 0
    BY <2>1, <1>0, <1>3, FreshType, 0 \in 0..100
  <2>3. PICK new : new = [st EXCEPT !.filePath = ~ upload]
    OBVIOUS
  <2>4. /\ new \in StatusHash /\ new.state = "queued" /\ new.progress = 0
        /\ new.total = 0 /\ new.done = 0 /\ new.failed = 0
    BY <1>0, <2>2, <2>3 DEF StatusHash
  <2>5. /\ status' = status \/ status' = new
        /\ sub = "new" /\ sub' = "queued" /\ enqueued' = enqueued
        /\ UNCHANGED <<setupVars, pageText, result, pageVars, cancelVars, doneVars,
                       crashes>>
    BY <1>4, <2>1, <2>3 DEF SetQueued, SetStatus
  <2>6. QED
    BY <1>0, <2>4, <2>5, SubmitMove DEF SubPc
<1>5. CASE RejectUpload \/ StartEnqueueing \/ EnqueuePage \/ EnqueueFails
  <2>1. /\ status' = status /\ sub # "accepted" /\ sub' \in SubPc
        /\ UNCHANGED <<setupVars, pageText, result, pageVars, cancelVars, doneVars,
                       crashes>>
    BY <1>0, <1>5 DEF RejectUpload, StartEnqueueing, EnqueuePage, EnqueueFails,
       SubPc, storeVars
  <2>2. enqueued' \in 0..Cardinality(AIPages)
    BY <1>0, <1>1, <1>5
       DEF RejectUpload, StartEnqueueing, EnqueuePage, EnqueueFails
  <2>3. QED
    BY <1>2, <2>1, <2>2, SubmitMove
<1>6. CASE SetConverting
  <2>1. PICK st : st = Fresh("processing", 5)
    OBVIOUS
  <2>2. /\ st \in StatusHash /\ st.state = "processing" /\ st.progress = 5
        /\ st.total = 0 /\ st.done = 0 /\ st.failed = 0
    BY <2>1, <1>0, <1>3, FreshType, 5 \in 0..100
  <2>3. /\ status' = status \/ status' = st
        /\ sub = "queued" /\ sub' = "converting" /\ enqueued' = enqueued
        /\ UNCHANGED <<setupVars, pageText, result, pageVars, cancelVars, doneVars,
                       crashes>>
    BY <1>6, <2>1 DEF SetConverting, SetStatus
  <2>4. QED
    BY <1>0, <2>2, <2>3, SubmitMove DEF SubPc
<1>7. CASE ConversionFails
  <2>1. PICK st : st = Fresh("failed", 0)
    OBVIOUS
  <2>2. /\ st \in StatusHash /\ st.state = "failed" /\ st.progress = 0
        /\ st.total = 0 /\ st.done = 0 /\ st.failed = 0
    BY <2>1, <1>0, <1>3, FreshType, 0 \in 0..100
  <2>3. /\ status' = status \/ status' = st
        /\ sub = "converting" /\ sub' = "conversionFailed"
        /\ enqueued' = enqueued
        /\ UNCHANGED <<setupVars, pageText, result, pageVars, cancelVars, doneVars,
                       crashes>>
    BY <1>7, <2>1 DEF ConversionFails, SetStatus
  <2>4. QED
    BY <1>0, <2>2, <2>3, SubmitMove DEF SubPc
<1>8. CASE SetProcessing
  <2>1. PICK st : st = Fresh("processing", 10)
    OBVIOUS
  <2>2. /\ st \in StatusHash /\ st.state = "processing" /\ st.progress = 10
        /\ st.total = 0 /\ st.done = 0 /\ st.failed = 0
    BY <2>1, <1>0, <1>3, FreshType, 10 \in 0..100
  <2>3. PICK new : new = [st EXCEPT !.total = TotalPages]
    OBVIOUS
  <2>4. /\ new \in StatusHash /\ new.state = "processing" /\ new.progress = 10
        /\ new.total = TotalPages /\ new.done = 0 /\ new.failed = 0
    BY <2>2, <2>3, TotalPagesAssumption DEF StatusHash
  <2>5. /\ status' = status \/ status' = new
        /\ sub = "enqueueing" /\ sub' = "accepted" /\ enqueued' = enqueued
        /\ UNCHANGED <<setupVars, pageText, result, pageVars, cancelVars, doneVars,
                       crashes>>
    BY <1>8, <2>1, <2>3 DEF SetProcessing, SetStatus
  <2>6. QED
    BY <1>0, <2>4, <2>5, SubmitMove DEF SubPc
<1>9. QED
  BY <1>4, <1>5, <1>6, <1>7, <1>8 DEF SubmitStep

LEMMA CancelKeeps ==
    ASSUME IInv, CancelRequested \/ GetForCancel \/ SetForCancel
    PROVE  IInv'
<1>1. PICK js \in StatusHash : js = jsnap /\ jsnap' = js /\ jpc' = jpc
  BY WebFacts DEF CancelRequested, GetForCancel, SetForCancel, doneVars
<1>2. /\ UNCHANGED <<upload, failing, report, hpc, snap, sub, enqueued, pageText,
                     result, agg, crashes>>
      /\ jpc' = "set" => FitsHandled(js)
  BY <1>1, WebFacts DEF CancelRequested, GetForCancel, SetForCancel, pageVars,
     storeVars, submitVars, setupVars
<1>3. CASE CancelRequested
  <2>1. PICK cs \in StatusHash, st \in StatusHash :
           cs = csnap /\ csnap' = cs /\ st = status /\ status' = st
    BY <1>3, WebFacts DEF CancelRequested, storeVars
  <2>2. cpc' = "get"
    BY <1>3 DEF CancelRequested
  <2>3. TypeOK' /\ TotalsKnown'
    BY <1>1, <1>2, <2>1, <2>2, WebFacts DEF TypeOK, TotalsKnown, KnowsTotal, WebPc
  <2>4. /\ FitsHandled(st)
        /\ jpc = "none" => /\ st.state = "success" => Counters = AIPages
                           /\ st.state = "success" => st.total # 0
                           /\ st.progress = 100 <=> st.state = "success"
    BY <2>1, WebFacts
  <2>5. QED
    BY <1>1, <1>2, <2>1, <2>2, <2>3, <2>4, OtherMove
<1>4. CASE GetForCancel
  <2>1. PICK old \in GetStatus :
           csnap' = [old EXCEPT !.state = "cancelled", !.progress = 0]
    BY <1>4 DEF GetForCancel
  <2>2. old \in StatusHash /\ (old = status \/ old = NoStatus)
    BY GetType, WebFacts
  <2>3. PICK cs : cs = Marked(old, "cancelled", 0)
    OBVIOUS
  <2>4. /\ cs \in StatusHash /\ cs.state = "cancelled" /\ cs.progress = 0
        /\ cs.total = old.total /\ cs.done = old.done /\ cs.failed = old.failed
    <3>1. "cancelled" \in States /\ 0 \in 0..100
      BY DEF States
    <3>2. QED
      BY <2>2, <2>3, <3>1, MarkedType
  <2>5. csnap' = cs /\ cpc' = "set" /\ status' = status
    BY <1>4, <2>1, <2>3 DEF GetForCancel, Marked, storeVars
  <2>6. FitsHandled(cs) /\ KnowsTotal(cs)
    <3>1. CASE old = status
      BY <2>4, <3>1, WebFacts DEF FitsHandled, TotalsKnown, KnowsTotal
    <3>2. CASE old = NoStatus
      BY <2>4, <3>2, NoStatusType, NothingCounted DEF KnowsTotal
    <3>3. QED
      BY <2>2, <3>1, <3>2
  <2>7. TypeOK' /\ TotalsKnown'
    BY <1>1, <1>2, <2>4, <2>5, <2>6, WebFacts
       DEF TypeOK, TotalsKnown, KnowsTotal, WebPc
  <2>8. PICK st \in StatusHash : st = status /\ status' = st
    BY <2>5, WebFacts
  <2>9. /\ FitsHandled(st)
        /\ jpc = "none" => /\ st.state = "success" => Counters = AIPages
                           /\ st.state = "success" => st.total # 0
                           /\ st.progress = 100 <=> st.state = "success"
    BY <2>8, WebFacts
  <2>10. QED
    BY <1>1, <1>2, <2>4, <2>5, <2>6, <2>7, <2>8, <2>9, OtherMove
<1>5. CASE SetForCancel
  <2>1. PICK cs \in StatusHash, st \in StatusHash :
           /\ cs = csnap /\ csnap' = cs
           /\ status' = st /\ (st = status \/ st = csnap)
    BY <1>5, WebFacts DEF SetForCancel, SetStatus
  <2>2. cpc = "set" /\ cpc' = "finished"
    BY <1>5 DEF SetForCancel
  <2>3. TypeOK' /\ TotalsKnown'
    BY <1>1, <1>2, <2>1, <2>2, WebFacts DEF TypeOK, TotalsKnown, KnowsTotal, WebPc
  <2>4. /\ FitsHandled(st)
        /\ jpc = "none" => /\ st.state = "success" => Counters = AIPages
                           /\ st.state = "success" => st.total # 0
                           /\ st.progress = 100 <=> st.state = "success"
    BY <2>1, <2>2, WebFacts
  <2>5. QED
    BY <1>1, <1>2, <2>1, <2>2, <2>3, <2>4, OtherMove
<1>6. QED
  BY <1>3, <1>4, <1>5

LEMMA JobDoneKeeps ==
    ASSUME IInv, JobDoneCalled \/ GetForJobDone \/ SetForJobDone
    PROVE  IInv'
<1>1. PICK cs \in StatusHash : cs = csnap /\ csnap' = cs /\ cpc' = cpc
  BY WebFacts DEF JobDoneCalled, GetForJobDone, SetForJobDone, cancelVars
<1>2. /\ UNCHANGED <<upload, failing, report, hpc, snap, sub, enqueued, pageText,
                     result, agg, crashes>>
      /\ cpc' = "set" => FitsHandled(cs) /\ cs.state = "cancelled"
                         /\ cs.progress = 0
  BY <1>1, WebFacts DEF JobDoneCalled, GetForJobDone, SetForJobDone, pageVars,
     storeVars, submitVars, setupVars
<1>3. CASE JobDoneCalled
  <2>1. PICK js \in StatusHash, st \in StatusHash :
           js = jsnap /\ jsnap' = js /\ st = status /\ status' = st
    BY <1>3, WebFacts DEF JobDoneCalled, storeVars
  <2>2. jpc = "none" /\ jpc' = "get"
    BY <1>3 DEF JobDoneCalled
  <2>3. TypeOK' /\ TotalsKnown'
    BY <1>1, <1>2, <2>1, <2>2, WebFacts DEF TypeOK, TotalsKnown, KnowsTotal, WebPc
  <2>4. /\ FitsHandled(st)
        /\ jpc = "none" => /\ st.state = "success" => Counters = AIPages
                           /\ st.state = "success" => st.total # 0
                           /\ st.progress = 100 <=> st.state = "success"
    BY <2>1, WebFacts
  <2>5. QED
    BY <1>1, <1>2, <2>1, <2>2, <2>3, <2>4, OtherMove
<1>4. CASE GetForJobDone
  <2>1. PICK old \in GetStatus :
           \/ jpc' = "finished" /\ jsnap' = jsnap
           \/ /\ old.state # "absent" /\ jpc' = "set"
              /\ jsnap' = [old EXCEPT !.state = "success", !.progress = 100]
    BY <1>4 DEF GetForJobDone
  <2>2. old \in StatusHash /\ (old = status \/ old = NoStatus)
    BY GetType, WebFacts
  <2>3. PICK st \in StatusHash : st = status /\ status' = st
    BY <1>4, WebFacts DEF GetForJobDone, storeVars
  <2>4. jpc = "get" /\ FitsHandled(st)
    BY <1>4, <2>3, WebFacts DEF GetForJobDone
  <2>5. CASE jpc' = "finished" /\ jsnap' = jsnap
    <3>1. TypeOK' /\ TotalsKnown'
      BY <1>1, <1>2, <2>3, <2>5, WebFacts
         DEF TypeOK, TotalsKnown, KnowsTotal, WebPc
    <3>2. PICK js \in StatusHash : js = jsnap /\ jsnap' = js
      BY <2>5, WebFacts
    <3>3. QED
      BY <1>1, <1>2, <2>3, <2>4, <2>5, <3>1, <3>2, OtherMove
  <2>6. CASE /\ old.state # "absent" /\ jpc' = "set"
             /\ jsnap' = [old EXCEPT !.state = "success", !.progress = 100]
    <3>1. PICK js : js = Marked(old, "success", 100)
      OBVIOUS
    <3>2. /\ js \in StatusHash /\ js.total = old.total
          /\ js.done = old.done /\ js.failed = old.failed
      <4>1. "success" \in States /\ 100 \in 0..100
        BY DEF States
      <4>2. QED
        BY <2>2, <3>1, <4>1, MarkedType
    <3>3. jsnap' = js /\ jpc' = "set"
      BY <2>6, <3>1 DEF Marked
    <3>4. FitsHandled(js) /\ KnowsTotal(js)
      BY <2>2, <2>6, <3>2, NoStatusType, WebFacts
         DEF FitsHandled, TotalsKnown, KnowsTotal
    <3>5. TypeOK' /\ TotalsKnown'
      BY <1>1, <1>2, <2>3, <3>2, <3>3, <3>4, WebFacts
         DEF TypeOK, TotalsKnown, KnowsTotal, WebPc
    <3>6. QED
      BY <1>1, <1>2, <2>3, <2>4, <3>2, <3>3, <3>4, <3>5, OtherMove
  <2>7. QED
    BY <2>1, <2>5, <2>6
<1>5. CASE SetForJobDone
  <2>1. PICK js \in StatusHash, st \in StatusHash :
           /\ js = jsnap /\ jsnap' = js
           /\ status' = st /\ (st = status \/ st = jsnap)
    BY <1>5, WebFacts DEF SetForJobDone, SetStatus
  <2>2. jpc = "set" /\ jpc' = "finished"
    BY <1>5 DEF SetForJobDone
  <2>3. TypeOK' /\ TotalsKnown'
    BY <1>1, <1>2, <2>1, <2>2, WebFacts DEF TypeOK, TotalsKnown, KnowsTotal, WebPc
  <2>4. FitsHandled(st)
    BY <2>1, <2>2, WebFacts
  <2>5. QED
    BY <1>1, <1>2, <2>1, <2>2, <2>3, <2>4, OtherMove
<1>6. QED
  BY <1>3, <1>4, <1>5

\* The handlers that run stop where they are; what was handled stays handled.
LEMMA CrashKeeps ==
    ASSUME IInv, Crash
    PROVE  IInv'
<1>0. /\ TypeOK /\ ReportKind /\ CopiesFit /\ TotalsKnown /\ SnapsAccounted
      /\ CancelIsCancelled /\ SuccessKnowsTotal /\ SuccessAccountsForAllPages
      /\ FullProgressIsSuccess
  BY DEF IInv
<1>1. /\ hpc \in [AIPages -> HandlerPc] /\ snap \in [AIPages -> StatusHash]
      /\ status \in StatusHash
  BY <1>0 DEF TypeOK
<1>2. /\ UNCHANGED <<upload, failing, enqueued, status, pageText, result, report,
                     snap, agg, csnap, jsnap>>
      /\ hpc' = [p \in AIPages |-> IF Running(hpc[p]) THEN "died" ELSE hpc[p]]
      /\ cpc' = IF Running(cpc) THEN "died" ELSE cpc
      /\ jpc' = IF Running(jpc) THEN "died" ELSE jpc
      /\ sub' = IF sub \in {"queued", "converting", "enqueueing"}
                   THEN "died" ELSE sub
      /\ crashes < MaxCrashes /\ crashes' = crashes + 1
  BY DEF Crash, setupVars, storeVars
<1>3. \A p \in AIPages :
         \/ hpc'[p] = "died" /\ hpc[p] # "none" /\ hpc[p] # "finished"
         \/ hpc'[p] = hpc[p] /\ hpc[p] \notin HoldsCopy
  BY <1>1, <1>2 DEF Running, HoldsCopy
<1>4. TypeOK'
  <2>1. hpc' \in [AIPages -> HandlerPc]
    BY <1>1, <1>2 DEF HandlerPc
  <2>2. cpc' \in WebPc /\ jpc' \in WebPc /\ sub' \in SubPc
    BY <1>0, <1>2 DEF TypeOK, WebPc, SubPc
  <2>3. crashes' \in 0..MaxCrashes
    BY <1>0, <1>2, BoundsAssumption DEF TypeOK
  <2>4. QED
    BY <1>0, <1>2, <2>1, <2>2, <2>3 DEF TypeOK
<1>5. ReportKind'
  BY <1>0, <1>2, <1>3 DEF ReportKind
<1>6. CopiesFit'
  <2>1. ASSUME NEW kind PROVE Handled(kind)' = Handled(kind)
    BY <1>2, <1>3 DEF Handled
  <2>2. FitsHandled(status)'
    BY <1>0, <1>2, <2>1 DEF CopiesFit, FitsHandled
  <2>3. \A p \in AIPages : hpc'[p] \notin HoldsCopy
    BY <1>3 DEF HoldsCopy
  <2>4. cpc' # "set" /\ jpc' # "set"
    BY <1>2 DEF Running
  <2>5. QED
    BY <2>2, <2>3, <2>4 DEF CopiesFit
<1>7. TotalsKnown'
  BY <1>0, <1>2 DEF TotalsKnown, KnowsTotal
<1>8. SnapsAccounted'
  BY <1>3 DEF SnapsAccounted, AccountedAt, HoldsCopy
<1>9. CancelIsCancelled'
  BY <1>2 DEF CancelIsCancelled, Running
<1>10. jpc' = "none" => jpc = "none"
  BY <1>2
<1>11. /\ SuccessAccountsForAllPages' /\ FullProgressIsSuccess'
       /\ SuccessKnowsTotal'
  <2>1. Counters' = Counters
    BY <1>2, <1>3 DEF Counters
  <2>2. QED
    BY <1>0, <1>2, <1>10, <2>1
       DEF SuccessAccountsForAllPages, FullProgressIsSuccess, SuccessKnowsTotal
<1>12. QED
  BY <1>4, <1>5, <1>6, <1>7, <1>8, <1>9, <1>11 DEF IInv

-----------------------------------------------------------------------------
(* The theorems.                                                           *)

LEMMA InvInit == Init => IInv
<1> SUFFICES ASSUME Init PROVE IInv
  OBVIOUS
<1>1. /\ status = NoStatus /\ csnap = NoStatus /\ jsnap = NoStatus
      /\ report = [p \in AIPages |-> "none"] /\ hpc = [p \in AIPages |-> "none"]
      /\ snap = [p \in AIPages |-> NoStatus] /\ agg = [p \in AIPages |-> {}]
      /\ pageText = [p \in AIPages |-> "none"] /\ result = NoResult
      /\ upload \in BOOLEAN /\ failing \in FailureSets
      /\ sub = "new" /\ enqueued = 0 /\ cpc = "none" /\ jpc = "none"
      /\ crashes = 0
  BY DEF Init
<1>2. TypeOK
  <2>1. enqueued \in 0..Cardinality(AIPages) /\ crashes \in 0..MaxCrashes
    BY <1>1, Pages, BoundsAssumption
  <2>2. /\ status \in StatusHash /\ csnap \in StatusHash /\ jsnap \in StatusHash
        /\ snap \in [AIPages -> StatusHash]
    BY <1>1, NoStatusType
  <2>3. /\ pageText \in [AIPages -> Source] /\ agg \in [AIPages -> SUBSET AIPages]
        /\ result \in [texts : SUBSET AIPages,
                      at : {"nowhere", "local", "besideOriginal",
                            "resultsPrefix"}]
    BY <1>1 DEF Source, NoResult
  <2>4. /\ sub \in SubPc /\ cpc \in WebPc /\ jpc \in WebPc
        /\ hpc \in [AIPages -> HandlerPc]
        /\ report \in [AIPages -> {"none", "done", "failed"}]
    BY <1>1 DEF SubPc, WebPc, HandlerPc
  <2>5. QED
    BY <1>1, <2>1, <2>2, <2>3, <2>4 DEF TypeOK
<1>3. ReportKind
  BY <1>1 DEF ReportKind
<1>4. CopiesFit
  BY <1>1, NoStatusType, NothingCounted DEF CopiesFit, HoldsCopy
<1>5. TotalsKnown
  BY <1>1, NoStatusType DEF TotalsKnown, KnowsTotal
<1>6. SnapsAccounted
  BY <1>1 DEF SnapsAccounted, AccountedAt, HoldsCopy
<1>7. /\ CancelIsCancelled /\ SuccessKnowsTotal /\ SuccessAccountsForAllPages
      /\ FullProgressIsSuccess
  BY <1>1, NoStatusType
     DEF CancelIsCancelled, SuccessKnowsTotal, SuccessAccountsForAllPages,
         FullProgressIsSuccess
<1>8. QED
  BY <1>2, <1>3, <1>4, <1>5, <1>6, <1>7 DEF IInv

LEMMA InvStutter == IInv /\ UNCHANGED vars => IInv'
<1> SUFFICES ASSUME IInv, UNCHANGED vars PROVE IInv'
  OBVIOUS
<1>1. UNCHANGED <<upload, failing, status, pageText, result, sub, enqueued, report,
                  hpc, snap, agg, cpc, csnap, jpc, jsnap, crashes>>
  BY DEF vars, storeVars, submitVars, setupVars, pageVars, cancelVars, doneVars
<1>2. TypeOK'
  BY <1>1 DEF IInv, TypeOK
<1>3. ReportKind' /\ CopiesFit'
  BY <1>1 DEF IInv, ReportKind, CopiesFit, FitsHandled, FitsMine, Handled, Mine
<1>4. TotalsKnown' /\ SnapsAccounted' /\ CancelIsCancelled'
  BY <1>1 DEF IInv, TotalsKnown, KnowsTotal, SnapsAccounted, AccountedAt,
     AllAccounted, CancelIsCancelled
<1>5. SuccessKnowsTotal' /\ SuccessAccountsForAllPages' /\ FullProgressIsSuccess'
  BY <1>1 DEF IInv, SuccessKnowsTotal, SuccessAccountsForAllPages,
     FullProgressIsSuccess, Counters
<1>6. QED
  BY <1>2, <1>3, <1>4, <1>5 DEF IInv

LEMMA InvNext == IInv /\ [Next]_vars => IInv'
<1> SUFFICES ASSUME IInv, [Next]_vars PROVE IInv'
  OBVIOUS
<1>1. CASE SubmitStep
  BY <1>1, SubmitStepKeeps
<1>2. ASSUME NEW p \in AIPages, NEW kind \in {"done", "failed"},
             PageReported(p, kind)
      PROVE  IInv'
  BY <1>2, PageReportedStep
<1>3. ASSUME NEW p \in AIPages, PageStep(p)
      PROVE  IInv'
  BY <1>3, SavePageStep, GetForReportStep, FallbackTextStep, AggregateStep,
     StoreResultStep, SetForReportStep DEF PageStep
<1>4. CASE WebStep
  BY <1>4, CancelKeeps, JobDoneKeeps DEF WebStep
<1>5. CASE Crash
  BY <1>5, CrashKeeps
<1>6. CASE UNCHANGED vars
  BY <1>6, InvStutter
<1>7. QED
  BY <1>1, <1>2, <1>3, <1>4, <1>5, <1>6 DEF Next

LEMMA InvAlways == Spec => []IInv
  BY InvInit, InvNext, PTL DEF Spec

\* The handlers of orchestrator.go only ever write well-formed statuses: the
\* progress that handlePageDone and handlePageFailed compute stays a percentage.
THEOREM TypeCorrect == Spec => []TypeOK
<1>1. IInv => TypeOK
  BY DEF IInv
<1>2. QED
  BY <1>1, InvAlways, PTL

\* However the read-modify-write cycles of handlePageDone, handlePageFailed,
\* handleCancelJob and handleJobDone interleave, fail or die, no page's report
\* is counted before it was handled, and none twice.
THEOREM CountsBoundedHolds == Spec => []CountsBounded
<1>1. ASSUME NEW kind
      PROVE  {p \in Counters : report[p] = kind} = Handled(kind)
  BY DEF Counters, Handled
<1>2. IInv => CountsBounded
  BY <1>1 DEF IInv, CopiesFit, FitsHandled, CountsBounded
<1>3. QED
  BY <1>2, InvAlways, PTL

\* handlePageDone and handlePageFailed put success on a job only when the
\* handlers of all of its pages have finished.
THEOREM SuccessAccountsHolds == Spec => []SuccessAccountsForAllPages
<1>1. IInv => SuccessAccountsForAllPages
  BY DEF IInv
<1>2. QED
  BY <1>1, InvAlways, PTL

\* The progress that handlePageDone and handlePageFailed round down reaches
\* 100 with success and not before.
THEOREM FullProgressHolds == Spec => []FullProgressIsSuccess
<1>1. IInv => FullProgressIsSuccess
  BY DEF IInv
<1>2. QED
  BY <1>1, InvAlways, PTL

\* Neither a late report nor the submission's own writes take success back.
THEOREM SuccessIsFinalHolds == Spec => SuccessIsFinal
<1>1. ASSUME IInv, [Next]_vars, status.state = "success", cpc = "none",
             jpc = "none"
      PROVE  status'.state = "success"
  <2>1. /\ \A p \in AIPages : hpc[p] = "finished"
        /\ sub = "accepted"
    BY <1>1 DEF IInv, SuccessAccountsForAllPages, Counters, SuccessKnowsTotal,
       TotalsKnown, KnowsTotal
  <2>2. CASE SubmitStep
    BY <2>1, <2>2 DEF SubmitStep, SetQueued, RejectUpload, SetConverting,
       ConversionFails, StartEnqueueing, EnqueuePage, EnqueueFails, SetProcessing
  <2>3. ASSUME NEW p \in AIPages, NEW kind \in {"done", "failed"},
               PageReported(p, kind)
        PROVE  FALSE
    BY <2>1, <2>3 DEF PageReported, HandlerStarts
  <2>4. ASSUME NEW p \in AIPages, PageStep(p)
        PROVE  FALSE
    BY <2>1, <2>4 DEF PageStep, SavePage, GetForReport, FallbackText, Aggregate,
       StoreResult, SetForReport
  <2>5. CASE WebStep
    BY <1>1, <2>5 DEF WebStep, CancelRequested, GetForCancel, SetForCancel,
       JobDoneCalled, GetForJobDone, SetForJobDone, storeVars
  <2>6. CASE Crash
    BY <1>1, <2>6 DEF Crash, storeVars
  <2>7. CASE UNCHANGED vars
    BY <1>1, <2>7 DEF vars, storeVars
  <2>8. QED
    BY <1>1, <2>2, <2>3, <2>4, <2>5, <2>6, <2>7 DEF Next
<1>2. IInv /\ [Next]_vars =>
         [status.state = "success" /\ cpc = "none" /\ jpc = "none"
             => status'.state = "success"]_vars
  BY <1>1
<1>3. QED
  BY <1>2, InvAlways, PTL DEF Spec, SuccessIsFinal

-----------------------------------------------------------------------------
(* Results.  When the page texts can be read, the handler that counts the  *)
(* last report finds every other report handled, so that the text it       *)
(* aggregates is whole; from then on nothing but the copies of the status  *)
(* can change.                                                             *)

Reliable == "Aggregate" \notin failing

AllFinished == \A q \in AIPages : hpc[q] = "finished"
OthersFinished(p) == \A q \in AIPages : q # p => hpc[q] = "finished"

Whole(texts) == PagesWithText \subseteq texts

Aggregated == \A p \in AIPages : hpc[p] = "store" => Whole(agg[p])

\* Only the handler that stored the result refers to it before it is written.
RefsStored ==
    \A p \in AIPages :
        hpc[p] \in HoldsCopy /\ snap[p].resultRef
            => hpc[p] = "set" /\ OthersFinished(p) /\ Whole(result.texts)

RefShown ==
    \/ status.resultRef
    \/ cpc = "set" /\ csnap.resultRef
    \/ jpc = "set" /\ jsnap.resultRef

ResultInv ==
    Reliable =>
        /\ Aggregated /\ RefsStored
        /\ RefShown => AllFinished /\ Whole(result.texts)

\* The handler that aggregates is the last one.
LEMMA LastHandler ==
    ASSUME IInv, NEW p \in AIPages, hpc[p] \in {"aggregate", "store"}
    PROVE  /\ OthersFinished(p)
           /\ snap[p].total = TotalPages /\ AIPages = 1..TotalPages
<1>0. hpc[p] \in HoldsCopy
  BY DEF HoldsCopy
<1>1. /\ AllAccounted(snap[p]) /\ FitsMine(snap[p], p) /\ KnowsTotal(snap[p])
      /\ snap[p] \in StatusHash
  BY <1>0, PageFacts DEF AccountedAt
<1>2. /\ snap[p].total = TotalPages /\ TotalPages > 0
      /\ snap[p].done \in Nat /\ snap[p].failed \in Nat
      /\ snap[p].done + snap[p].failed >= TotalPages
  <2>1. PICK st \in StatusHash : st = snap[p]
    BY <1>1
  <2>2. st.total \in Nat /\ st.done \in Nat /\ st.failed \in Nat
    BY DEF StatusHash
  <2>3. AllAccounted(st) /\ KnowsTotal(st)
    BY <1>1, <2>1
  <2>4. /\ st.total = TotalPages /\ TotalPages > 0
        /\ st.done + st.failed >= TotalPages
    BY <2>2, <2>3 DEF AllAccounted, KnowsTotal
  <2>5. QED
    BY <2>1, <2>2, <2>4
<1>3. Cardinality(AIPages) = TotalPages
  BY <1>2, Pages
<1>4. /\ Cardinality(Mine(p, "done")) \in Nat
      /\ Cardinality(Mine(p, "failed")) \in Nat
  BY HandledFinite
<1>5. Cardinality(Mine(p, "done")) + Cardinality(Mine(p, "failed"))
          >= Cardinality(AIPages)
  BY <1>1, <1>2, <1>3, <1>4, TotalPagesAssumption DEF FitsMine
<1>6. OthersFinished(p)
  BY <1>5, MineAll DEF OthersFinished
<1>7. QED
  BY <1>2, <1>6, TotalPagesAssumption DEF AIPages

\* While a page is not finished no reference to the result is in sight, and no
\* other page has its handler at the end.
LEMMA NotLast ==
    ASSUME IInv, ResultInv, Reliable, NEW p \in AIPages, hpc[p] # "finished"
    PROVE  /\ ~ RefShown
           /\ \A q \in AIPages : q # p =>
                 /\ hpc[q] # "store"
                 /\ hpc[q] \in HoldsCopy => ~ snap[q].resultRef
<1>1. ~ RefShown
  BY DEF ResultInv, AllFinished
<1>2. ASSUME NEW q \in AIPages, q # p
      PROVE  /\ hpc[q] # "store"
             /\ hpc[q] \in HoldsCopy => ~ snap[q].resultRef
  <2>1. hpc[q] # "store"
    BY <1>2, LastHandler DEF OthersFinished
  <2>2. hpc[q] \in HoldsCopy /\ snap[q].resultRef => OthersFinished(q)
    BY DEF ResultInv, RefsStored
  <2>3. QED
    BY <1>2, <2>1, <2>2 DEF OthersFinished
<1>3. QED
  BY <1>1, <1>2

\* A step of the handler of page p.
LEMMA HandlerMove ==
    ASSUME IInv, ResultInv, Reliable, NEW p \in AIPages,
           hpc[p] \notin {"none", "finished"},
           NEW l, hpc' = [hpc EXCEPT ![p] = l], l \notin {"none", "savePage"},
           report' = report, failing' = failing,
           \A q \in AIPages : q # p => snap'[q] = snap[q] /\ agg'[q] = agg[q],
           l = "store" => Whole(agg[p])',
           l \in HoldsCopy /\ snap'[p].resultRef
              => l = "set" /\ OthersFinished(p) /\ Whole(result.texts)',
           status'.resultRef =>
              \/ status' = status
              \/ l = "finished" /\ OthersFinished(p) /\ Whole(result.texts)',
           UNCHANGED <<cancelVars, doneVars>>
    PROVE  ResultInv'
<1>1. /\ hpc'[p] = l
      /\ \A q \in AIPages : q # p => hpc'[q] = hpc[q]
  BY PageFacts
<1>4. Aggregated'
  <2>1. ASSUME NEW q \in AIPages, hpc'[q] = "store"
        PROVE  q = p
    BY <1>1, <2>1, NotLast
  <2>2. QED
    BY <1>1, <2>1 DEF Aggregated
<1>5. OthersFinished(p)' <=> OthersFinished(p)
  BY <1>1 DEF OthersFinished
<1>6. RefsStored'
  <2>1. ASSUME NEW q \in AIPages, hpc'[q] \in HoldsCopy, snap'[q].resultRef
        PROVE  q = p
    BY <1>1, <2>1, NotLast
  <2>2. QED
    BY <1>1, <1>5, <2>1 DEF RefsStored
<1>7. RefShown' => AllFinished' /\ Whole(result.texts)'
  <2>1. ~ RefShown
    BY NotLast
  <2>2. RefShown' => status'.resultRef /\ status' # status
    BY <2>1 DEF RefShown, cancelVars, doneVars
  <2>3. QED
    BY <1>1, <2>2 DEF AllFinished, OthersFinished
<1>8. QED
  BY <1>4, <1>6, <1>7 DEF ResultInv

\* A step that is not one of a page's handler.
LEMMA OtherResultMove ==
    ASSUME ResultInv, Reliable,
           UNCHANGED <<failing, pageText, result, report, hpc, snap, agg>>,
           RefShown' => RefShown
    PROVE  ResultInv'
  BY DEF ResultInv, Reliable, Aggregated, RefsStored, AllFinished,
     OthersFinished, Whole, PagesWithText

\* The steps of a page's handler, up to its place in the handler.
LEMMA HandlerKeeps ==
    ASSUME IInv, ResultInv, Reliable, NEW p \in AIPages, PageStep(p)
    PROVE  ResultInv'
<1>0. /\ hpc \in [AIPages -> HandlerPc] /\ snap \in [AIPages -> StatusHash]
      /\ pageText \in [AIPages -> Source]
      /\ agg \in [AIPages -> SUBSET AIPages]
      /\ status \in StatusHash /\ snap[p] \in StatusHash
  BY DEF IInv, TypeOK
<1>2. CASE SavePage(p)
  <2>2. /\ hpc[p] = "savePage" /\ hpc' = [hpc EXCEPT ![p] = "get"]
        /\ report' = report /\ failing' = failing /\ status' = status
        /\ snap' = snap /\ agg' = agg /\ UNCHANGED <<cancelVars, doneVars>>
    BY <1>2 DEF SavePage, GotoPage, submitVars, setupVars
  <2>3. QED
    BY <2>2, HandlerMove DEF HoldsCopy
<1>3. CASE GetForReport(p)
  <2>1. /\ hpc[p] = "get" /\ UNCHANGED <<cancelVars, doneVars>>
        /\ report' = report /\ failing' = failing /\ status' = status
        /\ agg' = agg /\ pageText' = pageText
    BY <1>3 DEF GetForReport, storeVars, submitVars, setupVars
  <2>2. CASE hpc' = [hpc EXCEPT ![p] = "finished"] /\ snap' = snap
    BY <2>1, <2>2, HandlerMove DEF HoldsCopy
  <2>3. CASE \E st \in GetStatus, l \in {"fallback", "aggregate", "set"} :
             \E c \in Counted(st, report[p]) :
                /\ snap' = [snap EXCEPT ![p] = c]
                /\ hpc' = [hpc EXCEPT ![p] = l]
    <3>1. PICK st \in GetStatus, l \in {"fallback", "aggregate", "set"} :
             \E c \in Counted(st, report[p]) :
                /\ snap' = [snap EXCEPT ![p] = c]
                /\ hpc' = [hpc EXCEPT ![p] = l]
      BY <2>3
    <3>2. PICK c \in Counted(st, report[p]) :
                /\ snap' = [snap EXCEPT ![p] = c]
                /\ hpc' = [hpc EXCEPT ![p] = l]
      BY <3>1
    <3>3. st \in StatusHash /\ ~ st.resultRef
      <4>1. st \in StatusHash /\ (st = status \/ st = NoStatus)
        BY GetType DEF IInv
      <4>2. ~ status.resultRef
        BY <2>1, NotLast DEF RefShown
      <4>3. ~ NoStatus.resultRef
        BY DEF NoStatus
      <4>4. QED
        BY <4>1, <4>2, <4>3
    <3>4. ~ c.resultRef
      BY <3>3 DEF Counted, StatusHash
    <3>5. ~ snap'[p].resultRef
      BY <1>0, <3>2, <3>4
    <3>6. \A q \in AIPages : q # p => snap'[q] = snap[q]
      BY <1>0, <3>2
    <3>7. QED
      BY <2>1, <3>1, <3>2, <3>5, <3>6, HandlerMove
  <2>4. QED
    BY <1>3, <2>2, <2>3 DEF GetForReport, GotoPage, AfterCount
<1>4. CASE FallbackText(p)
  <2>1. PICK l \in {"aggregate", "set"} : hpc' = [hpc EXCEPT ![p] = l]
    BY <1>4 DEF FallbackText, GotoPage, AfterCount
  <2>2. /\ hpc[p] = "fallback" /\ UNCHANGED <<cancelVars, doneVars>>
        /\ report' = report /\ failing' = failing /\ status' = status
        /\ snap' = snap /\ agg' = agg
    BY <1>4 DEF FallbackText, submitVars, setupVars
  <2>3. ~ snap[p].resultRef
    BY <2>2 DEF ResultInv, RefsStored, HoldsCopy
  <2>4. QED
    BY <2>1, <2>2, <2>3, HandlerMove
<1>5. CASE Aggregate(p)
  <2>1. /\ hpc[p] = "aggregate" /\ hpc' = [hpc EXCEPT ![p] = "store"]
        /\ report' = report /\ failing' = failing /\ status' = status
        /\ snap' = snap /\ pageText' = pageText
        /\ agg' = [agg EXCEPT ![p] = {q \in PagesWithText : q <= snap[p].total}]
        /\ UNCHANGED <<cancelVars, doneVars>>
    BY <1>5 DEF Aggregate, GotoPage, Reliable, storeVars, submitVars, setupVars
  <2>2. OthersFinished(p) /\ AIPages = 1..snap[p].total
    BY <2>1, LastHandler
  <2>3. agg'[p] = PagesWithText
    BY <1>0, <2>1, <2>2 DEF PagesWithText
  <2>4. Whole(agg[p])'
    BY <2>1, <2>3 DEF Whole, PagesWithText
  <2>5. ~ snap[p].resultRef
    BY <2>1 DEF ResultInv, RefsStored, HoldsCopy
  <2>6. \A q \in AIPages : q # p => agg'[q] = agg[q]
    BY <1>0, <2>1
  <2>7. QED
    BY <2>1, <2>4, <2>5, <2>6, HandlerMove
<1>6. CASE StoreResult(p)
  <2>1. /\ hpc[p] = "store" /\ hpc' = [hpc EXCEPT ![p] = "set"]
        /\ report' = report /\ failing' = failing /\ status' = status
        /\ pageText' = pageText /\ agg' = agg
        /\ UNCHANGED <<cancelVars, doneVars>>
    BY <1>6 DEF StoreResult, GotoPage, submitVars, setupVars
  <2>2. OthersFinished(p) /\ Whole(agg[p]) /\ ~ snap[p].resultRef
    BY <2>1, LastHandler DEF ResultInv, Aggregated, RefsStored, HoldsCopy
  <2>3. \A q \in AIPages : q # p => snap'[q] = snap[q]
    BY <1>0, <1>6 DEF StoreResult
  <2>4. snap'[p].resultRef => Whole(result.texts)'
    <3>1. CASE result' = [texts |-> agg[p], at |-> ResultPlace(snap[p])]
      <4>1. result'.texts = agg[p]
        BY <3>1
      <4>2. QED
        BY <2>1, <2>2, <4>1 DEF Whole, PagesWithText
    <3>2. CASE snap' = [snap EXCEPT ![p] =
                          [snap[p] EXCEPT !.state = "success", !.progress = 100]]
      <4>1. snap'[p] = [snap[p] EXCEPT !.state = "success", !.progress = 100]
        BY <1>0, <3>2
      <4>2. snap'[p].resultRef = snap[p].resultRef
        BY <1>0, <4>1 DEF StatusHash
      <4>3. QED
        BY <2>2, <4>2
    <3>3. QED
      BY <1>6, <3>1, <3>2 DEF StoreResult
  <2>5. /\ snap'[p].resultRef => OthersFinished(p) /\ Whole(result.texts)'
        /\ "set" \notin {"none", "savePage", "store", "finished"}
        /\ hpc[p] \notin {"none", "finished"}
        /\ \A q \in AIPages : q # p => agg'[q] = agg[q]
    BY <2>1, <2>2, <2>4
  <2>6. QED
    BY <2>1, <2>3, <2>5, HandlerMove
<1>7. CASE SetForReport(p)
  <2>1. /\ hpc[p] = "set" /\ hpc' = [hpc EXCEPT ![p] = "finished"]
        /\ report' = report /\ failing' = failing
        /\ snap' = snap /\ pageText' = pageText /\ agg' = agg
        /\ result' = result /\ UNCHANGED <<cancelVars, doneVars>>
        /\ status' = snap[p] \/ status' = status
    BY <1>7 DEF SetForReport, SetStatus, GotoPage, submitVars, setupVars
  <2>2. snap[p].resultRef => OthersFinished(p) /\ Whole(result.texts)
    BY <2>1 DEF ResultInv, RefsStored, HoldsCopy
  <2>3. Whole(result.texts) => Whole(result.texts)'
    BY <2>1 DEF Whole, PagesWithText
  <2>4. status'.resultRef =>
           \/ status' = status
           \/ OthersFinished(p) /\ Whole(result.texts)'
    BY <2>1, <2>2, <2>3
  <2>5. /\ hpc[p] \notin {"none", "finished"}
        /\ "finished" \notin HoldsCopy
        /\ "finished" \notin {"none", "savePage", "store"}
    BY <2>1 DEF HoldsCopy
  <2>6. /\ \A q \in AIPages : q # p => snap'[q] = snap[q] /\ agg'[q] = agg[q]
    BY <2>1
  <2>7. QED
    BY <2>1, <2>4, <2>5, <2>6, HandlerMove
<1>8. QED
  BY <1>2, <1>3, <1>4, <1>5, <1>6, <1>7 DEF PageStep

LEMMA ReportKeeps ==
    ASSUME IInv, ResultInv, Reliable, NEW p \in AIPages,
           NEW kind \in {"done", "failed"}, PageReported(p, kind)
    PROVE  ResultInv'
<1>1. /\ hpc[p] = "none" /\ UNCHANGED <<status, pageText, result, snap, agg>>
      /\ failing' = failing /\ UNCHANGED <<cancelVars, doneVars>>
  BY DEF PageReported, HandlerStarts, storeVars, submitVars, setupVars
<1>2. /\ hpc'[p] = IF kind = "done" THEN "savePage" ELSE "get"
      /\ report'[p] = kind
      /\ \A q \in AIPages : q # p => hpc'[q] = hpc[q] /\ report'[q] = report[q]
  BY DEF IInv, TypeOK, PageReported, HandlerStarts, GotoPage
<1>4. /\ ~ RefShown
      /\ \A q \in AIPages : q # p =>
            /\ hpc[q] # "store"
            /\ hpc[q] \in HoldsCopy => ~ snap[q].resultRef
  BY <1>1, NotLast
<1>5. Aggregated' /\ RefsStored'
  BY <1>1, <1>2, <1>4 DEF Aggregated, RefsStored, HoldsCopy
<1>6. ~ RefShown'
  BY <1>1, <1>4 DEF RefShown, cancelVars, doneVars
<1>7. QED
  BY <1>5, <1>6 DEF ResultInv

LEMMA CrashEnds ==
    ASSUME IInv, ResultInv, Reliable, Crash
    PROVE  ResultInv'
<1>1. /\ UNCHANGED <<status, pageText, result, report, snap, agg, csnap, jsnap>>
      /\ cpc' # "set" /\ jpc' # "set"
  BY DEF Crash, Running, storeVars
<1>2. \A q \in AIPages :
          \/ hpc'[q] = "died" /\ hpc[q] # "finished"
          \/ hpc'[q] = hpc[q] /\ hpc[q] \in {"none", "finished", "died"}
  BY DEF Crash, Running
<1>3. Aggregated' /\ RefsStored'
  BY <1>1, <1>2 DEF ResultInv, Aggregated, RefsStored, HoldsCopy
<1>4. RefShown' => RefShown
  BY <1>1 DEF RefShown
<1>5. AllFinished => AllFinished'
  BY <1>2 DEF AllFinished
<1>6. Whole(result.texts) => Whole(result.texts)'
  BY <1>1 DEF Whole, PagesWithText
<1>7. QED
  BY <1>3, <1>4, <1>5, <1>6 DEF ResultInv

\* The copies of the web handlers and of the submission bring no reference.
LEMMA OtherKeeps ==
    ASSUME IInv, ResultInv, Reliable, SubmitStep \/ WebStep \/ UNCHANGED vars
    PROVE  ResultInv'
<1>0. /\ status \in StatusHash
      /\ \A st \in GetStatus : st \in StatusHash /\ (st.resultRef => status.resultRef)
  <2>1. \A st \in GetStatus : st \in StatusHash /\ (st = status \/ st = NoStatus)
    BY GetType DEF IInv
  <2>2. ~ NoStatus.resultRef
    BY DEF NoStatus
  <2>3. QED
    BY <2>1, <2>2 DEF IInv, TypeOK
<1>1. /\ UNCHANGED <<failing, pageText, result, report, hpc, snap, agg>>
      /\ RefShown' => RefShown
  <2>1. CASE SubmitStep
    <3>1. /\ UNCHANGED <<failing, pageText, result, report, hpc, snap, agg>>
          /\ UNCHANGED <<cancelVars, doneVars>>
      BY <2>1 DEF SubmitStep, SetQueued, RejectUpload, SetConverting,
         ConversionFails, StartEnqueueing, EnqueuePage, EnqueueFails,
         SetProcessing, setupVars, pageVars, storeVars
    <3>2. ASSUME NEW st, SetStatus(st), ~ st.resultRef
          PROVE  status'.resultRef => status.resultRef
      BY <3>2 DEF SetStatus
    <3>3. status'.resultRef => status.resultRef
      <4>1. \A state, n : ~ Fresh(state, n).resultRef
        BY DEF Fresh, NoStatus
      <4>2. CASE SetQueued
        <5>1. PICK st : st = [Fresh("queued", 0) EXCEPT !.filePath = ~ upload]
          OBVIOUS
        <5>2. ~ st.resultRef
          BY <5>1 DEF Fresh, NoStatus
        <5>3. QED
          BY <3>2, <4>2, <5>1, <5>2 DEF SetQueued
      <4>3. CASE SetConverting \/ ConversionFails
        BY <3>2, <4>1, <4>3 DEF SetConverting, ConversionFails
      <4>4. CASE SetProcessing
        <5>1. PICK st : st = [Fresh("processing", 10) EXCEPT !.total = TotalPages]
          OBVIOUS
        <5>2. ~ st.resultRef
          BY <5>1 DEF Fresh, NoStatus
        <5>3. QED
          BY <3>2, <4>4, <5>1, <5>2 DEF SetProcessing
      <4>5. CASE RejectUpload \/ StartEnqueueing \/ EnqueuePage \/ EnqueueFails
        BY <4>5 DEF RejectUpload, StartEnqueueing, EnqueuePage, EnqueueFails,
           storeVars
      <4>6. QED
        BY <2>1, <4>2, <4>3, <4>4, <4>5 DEF SubmitStep
    <3>4. QED
      BY <3>1, <3>3 DEF RefShown, cancelVars, doneVars
  <2>2. CASE WebStep
    <3>1. UNCHANGED <<failing, pageText, result, report, hpc, snap, agg>>
      BY <2>2 DEF WebStep, CancelRequested, GetForCancel, SetForCancel,
         JobDoneCalled, GetForJobDone, SetForJobDone, submitVars, setupVars,
         pageVars, storeVars
    <3>2. CASE CancelRequested \/ JobDoneCalled
      BY <3>1, <3>2 DEF CancelRequested, JobDoneCalled, RefShown, storeVars,
         cancelVars, doneVars
    <3>3. CASE GetForCancel
      <4>1. PICK st \in GetStatus :
                csnap' = [st EXCEPT !.state = "cancelled", !.progress = 0]
        BY <3>3 DEF GetForCancel
      <4>2. csnap'.resultRef => status.resultRef
        BY <1>0, <4>1 DEF StatusHash
      <4>3. QED
        BY <3>1, <3>3, <4>2 DEF GetForCancel, RefShown, storeVars, doneVars
    <3>4. CASE GetForJobDone
      <4>1. jpc' = "set" => (jsnap'.resultRef => status.resultRef)
        <5>1. SUFFICES ASSUME jpc' = "set"
                       PROVE  jsnap'.resultRef => status.resultRef
          OBVIOUS
        <5>2. PICK st \in GetStatus : jsnap' =
                        [st EXCEPT !.state = "success", !.progress = 100]
          BY <3>4, <5>1 DEF GetForJobDone
        <5>3. QED
          BY <1>0, <5>2 DEF StatusHash
      <4>2. QED
        BY <3>1, <3>4, <4>1 DEF GetForJobDone, RefShown, storeVars, cancelVars
    <3>5. CASE SetForCancel \/ SetForJobDone
      BY <3>1, <3>5 DEF SetForCancel, SetForJobDone, SetStatus, RefShown,
         cancelVars, doneVars
    <3>6. QED
      BY <2>2, <3>1, <3>2, <3>3, <3>4, <3>5 DEF WebStep
  <2>3. CASE UNCHANGED vars
    BY <2>3 DEF vars, storeVars, submitVars, setupVars, pageVars, cancelVars,
       doneVars, RefShown
  <2>4. QED
    BY <2>1, <2>2, <2>3
<1>2. QED
  BY <1>1, OtherResultMove

\* A result a job refers to has every page text that was saved for the job,
\* and none is saved after it, whatever the handlers of its pages, a
\* cancellation, a job_done call and crashes do, and whatever fails but the
\* reading of the texts.
THEOREM ResultCompleteHolds == Spec => []ResultComplete
<1>1. Init => ResultInv
  BY DEF Init, ResultInv, Aggregated, RefsStored, RefShown,
     NoStatus, HoldsCopy
<1>2. IInv /\ ResultInv /\ [Next]_vars => ResultInv'
  <2> SUFFICES ASSUME IInv, ResultInv, [Next]_vars PROVE ResultInv'
    OBVIOUS
  <2>2. CASE ~ Reliable
    <3>1. failing' = failing
      <4>1. CASE SubmitStep
        BY <4>1 DEF SubmitStep, SetQueued, RejectUpload, SetConverting,
           ConversionFails, StartEnqueueing, EnqueuePage, EnqueueFails,
           SetProcessing, setupVars
      <4>2. ASSUME NEW p \in AIPages, NEW kind, PageReported(p, kind)
            PROVE  failing' = failing
        BY <4>2 DEF PageReported, HandlerStarts, submitVars, setupVars
      <4>3. ASSUME NEW p \in AIPages, PageStep(p)
            PROVE  failing' = failing
        BY <4>3 DEF PageStep, SavePage, GetForReport, FallbackText, Aggregate,
           StoreResult, SetForReport, submitVars, setupVars
      <4>4. CASE WebStep
        BY <4>4 DEF WebStep, CancelRequested, GetForCancel, SetForCancel,
           JobDoneCalled, GetForJobDone, SetForJobDone, submitVars, setupVars
      <4>5. CASE Crash \/ UNCHANGED vars
        BY <4>5 DEF Crash, vars, submitVars, setupVars
      <4>6. QED
        BY <4>1, <4>2, <4>3, <4>4, <4>5 DEF Next
    <3>2. QED
      BY <2>2, <3>1 DEF ResultInv, Reliable
  <2>3. CASE Reliable
    <3>1. ASSUME NEW p \in AIPages, NEW kind \in {"done", "failed"},
                 PageReported(p, kind)
          PROVE  ResultInv'
      BY <2>3, <3>1, ReportKeeps
    <3>2. ASSUME NEW p \in AIPages, PageStep(p)
          PROVE  ResultInv'
      BY <2>3, <3>2, HandlerKeeps
    <3>3. CASE SubmitStep \/ WebStep \/ UNCHANGED vars
      BY <2>3, <3>3, OtherKeeps
    <3>4. CASE Crash
      BY <2>3, <3>4, CrashEnds
    <3>5. QED
      BY <3>1, <3>2, <3>3, <3>4 DEF Next
  <2>4. QED
    BY <2>2, <2>3
<1>3. ResultInv => ResultComplete
  BY DEF ResultInv, ResultComplete, Reliable, RefShown, Whole
<1>4. QED
  BY <1>1, <1>2, <1>3, InvAlways, PTL DEF Spec

-----------------------------------------------------------------------------
(* The pipeline.  Its invariant ties a page's fate to the handler of its   *)
(* report: that is what makes the guard of PageReported hold of itself.    *)

Unreported == {"new", "pending", "stranded"}

FatesFit ==
    /\ fate \in [AIPages -> Unreported \cup {"done", "failed"}]
    /\ \A p \in AIPages :
          /\ fate[p] = "new" <=> p > enqueued
          /\ fate[p] \in Unreported => hpc[p] = "none"
          /\ fate[p] \notin Unreported =>
                hpc[p] # "none" /\ report[p] = fate[p]

\* A step that leaves pages and handlers as they are, or loses pages.
LEMMA FatesLost ==
    ASSUME FatesFit, NEW S \in SUBSET AIPages, Fates!Strand(S),
           enqueued' = enqueued, report' = report,
           \A p \in AIPages : hpc'[p] = "none" <=> hpc[p] = "none"
    PROVE  FatesFit'
<1>1. /\ fate' = [p \in AIPages |-> IF p \in S THEN "stranded" ELSE fate[p]]
      /\ \A p \in S : fate[p] = "pending"
  BY DEF Fates!Strand
<1>2. QED
  BY <1>1 DEF FatesFit, Unreported

LEMMA FatesSame ==
    ASSUME FatesFit, fate' = fate, enqueued' = enqueued, report' = report,
           \A p \in AIPages : hpc'[p] = "none" <=> hpc[p] = "none"
    PROVE  FatesFit'
  BY DEF FatesFit

LEMMA EnqueuesStep ==
    ASSUME TypeOK, FatesFit, Enqueues
    PROVE  FatesFit'
<1>1. /\ enqueued < Cardinality(AIPages) /\ enqueued \in Nat
      /\ report' = report /\ hpc' = hpc
  BY Pages DEF Enqueues, EnqueuePage, EnqueueFails, pageVars, TypeOK
<1>2. CASE enqueued' = enqueued /\ UNCHANGED fate
  BY <1>1, <1>2, FatesSame
<1>3. CASE enqueued' = enqueued + 1 /\ Fates!Submit(enqueued + 1)
  <2> DEFINE q == enqueued + 1
  <2>1. /\ fate[q] = "new" /\ fate' = [fate EXCEPT ![q] = "pending"]
        /\ enqueued' = q
    BY <1>3 DEF Fates!Submit
  <2>2. q \in Nat /\ \A p \in AIPages : p \in Nat /\ (p > q <=> p > enqueued /\ p # q)
    BY <1>1, Pages
  <2> HIDE DEF q
  <2>3. fate' \in [AIPages -> Unreported \cup {"done", "failed"}]
    BY <2>1 DEF FatesFit, Unreported
  <2>4. ASSUME NEW p \in AIPages
        PROVE  /\ fate'[p] = "new" <=> p > enqueued'
               /\ fate'[p] \in Unreported => hpc'[p] = "none"
               /\ fate'[p] \notin Unreported =>
                     hpc'[p] # "none" /\ report'[p] = fate'[p]
    <3>1. CASE p = q
      <4>1. fate'[p] = "pending" /\ ~ (p > enqueued')
        BY <2>1, <2>2, <3>1 DEF FatesFit
      <4>2. hpc[p] = "none"
        BY <2>1, <3>1 DEF FatesFit, Unreported
      <4>3. QED
        BY <1>1, <4>1, <4>2 DEF Unreported
    <3>2. CASE p # q
      <4>1. fate'[p] = fate[p] /\ (p > enqueued' <=> p > enqueued)
        BY <2>1, <2>2, <3>2 DEF FatesFit
      <4>2. QED
        BY <1>1, <4>1 DEF FatesFit
    <3>3. QED
      BY <3>1, <3>2
  <2>5. QED
    BY <2>3, <2>4 DEF FatesFit
<1>4. QED
  BY <1>2, <1>3 DEF Enqueues

\* A report is one that Orchestrator allows: its page is on the queue, and no
\* handler was started for it.
LEMMA ReportIsFirst ==
    ASSUME TypeOK, FatesFit, NEW p \in AIPages,
           NEW kind \in {"done", "failed"}, Report(p, kind)
    PROVE  PageReported(p, kind) /\ FatesFit'
<1>1. /\ fate[p] = "pending" /\ HandlerStarts(p, kind)
      /\ fate' = [fate EXCEPT ![p] = kind]
  BY DEF Report
<1>2. hpc[p] = "none" /\ ~ (p > enqueued)
  BY <1>1 DEF FatesFit, Unreported
<1>3. p \in Nat /\ enqueued \in Nat
  BY Pages DEF TypeOK
<1>4. PageReported(p, kind)
  BY <1>1, <1>2, <1>3 DEF PageReported
<1>5. /\ report' = [report EXCEPT ![p] = kind] /\ enqueued' = enqueued
      /\ hpc' = [hpc EXCEPT ![p] = IF kind = "done" THEN "savePage" ELSE "get"]
  BY <1>1 DEF HandlerStarts, GotoPage, submitVars
<1>6. fate' \in [AIPages -> Unreported \cup {"done", "failed"}]
  BY <1>1 DEF FatesFit
<1>7. ASSUME NEW q \in AIPages
      PROVE  /\ fate'[q] = "new" <=> q > enqueued'
             /\ fate'[q] \in Unreported => hpc'[q] = "none"
             /\ fate'[q] \notin Unreported =>
                   hpc'[q] # "none" /\ report'[q] = fate'[q]
  <2>1. CASE q = p
    <3>1. fate'[q] = kind /\ report'[q] = kind /\ hpc'[q] # "none"
      BY <1>1, <1>5, <2>1 DEF FatesFit, TypeOK
    <3>2. QED
      BY <1>2, <1>5, <2>1, <3>1 DEF Unreported
  <2>2. CASE q # p
    <3>1. fate'[q] = fate[q] /\ report'[q] = report[q] /\ hpc'[q] = hpc[q]
      BY <1>1, <1>5, <2>2 DEF FatesFit, TypeOK
    <3>2. QED
      BY <1>5, <3>1 DEF FatesFit
  <2>3. QED
    BY <2>1, <2>2
<1>8. QED
  BY <1>4, <1>6, <1>7 DEF FatesFit

LEMMA PageStepFates ==
    ASSUME TypeOK, NEW p \in AIPages, PageStep(p)
    PROVE  /\ enqueued' = enqueued /\ report' = report
           /\ \A q \in AIPages : hpc'[q] = "none" <=> hpc[q] = "none"
<1>1. enqueued' = enqueued /\ report' = report /\ hpc[p] # "none"
  BY DEF PageStep, SavePage, GetForReport, FallbackText, Aggregate, StoreResult,
         SetForReport, submitVars
<1>2. \E l \in HandlerPc \ {"none"} : hpc' = [hpc EXCEPT ![p] = l]
  BY DEF PageStep, SavePage, GetForReport, FallbackText, Aggregate, StoreResult,
         SetForReport, GotoPage, AfterCount, HandlerPc
<1>3. QED
  BY <1>1, <1>2 DEF TypeOK

\* Every step of the pipeline is one of the orchestrator's, or leaves it alone.
LEMMA PipelineStep ==
    ASSUME TypeOK, FatesFit, [PipelineNext]_pipelineVars
    PROVE  [Next]_vars /\ FatesFit'
<1>1. CASE Enqueues
  <2>1. SubmitStep
    BY <1>1 DEF Enqueues, SubmitStep
  <2>2. QED
    BY <1>1, <2>1, EnqueuesStep DEF Next
<1>2. CASE SubmitsOtherwise
  <2>1. SubmitStep /\ UNCHANGED <<fate, enqueued, report, hpc>>
    BY <1>2
       DEF SubmitsOtherwise, SubmitStep, SetQueued, RejectUpload, SetConverting,
           ConversionFails, StartEnqueueing, SetProcessing, pageVars
  <2>2. QED
    BY <2>1, FatesSame DEF Next
<1>3. ASSUME NEW p \in AIPages, NEW kind \in {"done", "failed"},
             Report(p, kind)
      PROVE  [Next]_vars /\ FatesFit'
  BY <1>3, ReportIsFirst DEF Next
<1>4. ASSUME NEW p \in AIPages, PageStep(p), UNCHANGED fate
      PROVE  [Next]_vars /\ FatesFit'
  BY <1>4, PageStepFates, FatesSame DEF Next
<1>5. ASSUME NEW S \in SUBSET AIPages, Lose(S)
      PROVE  [Next]_vars /\ FatesFit'
  <2>1. Fates!Strand(S) /\ UNCHANGED vars
    BY <1>5 DEF Lose
  <2>2. QED
    BY <2>1, FatesLost DEF vars, submitVars, pageVars
<1>6. CASE WebStep /\ UNCHANGED fate
  <2>1. UNCHANGED <<enqueued, report, hpc>>
    BY <1>6
       DEF WebStep, CancelRequested, GetForCancel, SetForCancel, JobDoneCalled,
           GetForJobDone, SetForJobDone, submitVars, pageVars
  <2>2. QED
    BY <1>6, <2>1, FatesSame DEF Next
<1>7. CASE CrashOfBoth
  <2>1. /\ Crash /\ enqueued' = enqueued /\ report' = report
        /\ hpc' = [p \in AIPages |-> IF Running(hpc[p]) THEN "died" ELSE hpc[p]]
    BY <1>7 DEF CrashOfBoth, Crash
  <2>2. PICK S \in SUBSET AIPages : Fates!Strand(S)
    BY <1>7 DEF CrashOfBoth
  <2>3. \A p \in AIPages : hpc'[p] = "none" <=> hpc[p] = "none"
    BY <2>1 DEF Running
  <2>4. QED
    BY <2>1, <2>2, <2>3, FatesLost DEF Next
<1>8. CASE UNCHANGED pipelineVars
  <2>1. UNCHANGED <<fate, enqueued, report, hpc>> /\ UNCHANGED vars
    BY <1>8 DEF pipelineVars, vars, submitVars, pageVars
  <2>2. QED
    BY <2>1, FatesSame
<1>9. QED
  BY <1>1, <1>2, <1>3, <1>4, <1>5, <1>6, <1>7, <1>8 DEF PipelineNext

LEMMA PipelineFirst == PipelineInit => IInv /\ FatesFit
<1> SUFFICES ASSUME PipelineInit PROVE IInv /\ FatesFit
  OBVIOUS
<1>1. Init /\ fate = [p \in AIPages |-> "new"]
  BY DEF PipelineInit, Fates!Init
<1>2. \A p \in AIPages : p > enqueued /\ hpc[p] = "none"
  BY <1>1 DEF Init, AIPages
<1>3. QED
  BY <1>1, <1>2, InvInit DEF FatesFit, Unreported

LEMMA PipelineInvariant == PipelineSpec => [](IInv /\ FatesFit)
<1>1. IInv /\ FatesFit /\ [PipelineNext]_pipelineVars => (IInv /\ FatesFit)'
  BY PipelineStep, InvNext DEF IInv
<1>2. QED
  BY <1>1, PipelineFirst, PTL DEF PipelineSpec

\* The pipeline implements Orchestrator: the assumption that a page is
\* reported once is discharged by what the dispatcher promises, for any number
\* of pages, lost pages and crashes.
THEOREM ImplementsOrchestratorHolds == PipelineSpec => ImplementsOrchestrator
<1>1. PipelineInit => Init
  BY DEF PipelineInit
<1>2. IInv /\ FatesFit /\ [PipelineNext]_pipelineVars => [Next]_vars
  BY PipelineStep DEF IInv
<1>3. QED
  BY <1>1, <1>2, PipelineInvariant, PTL
     DEF PipelineSpec, ImplementsOrchestrator, Spec

\* So what was proved of the handlers under a well-behaved dispatcher holds of
\* the composition, with nothing assumed of the reports: the counts stay below
\* them, a success accounts for every page and has the whole text, and it is
\* not taken back.
THEOREM PipelineKeepsPromises ==
    PipelineSpec =>
        /\ [](/\ TypeOK /\ CountsBounded /\ ResultComplete
             /\ SuccessAccountsForAllPages /\ FullProgressIsSuccess)
        /\ SuccessIsFinal
  BY ImplementsOrchestratorHolds, TypeCorrect, CountsBoundedHolds,
     ResultCompleteHolds, SuccessAccountsHolds, FullProgressHolds,
     SuccessIsFinalHolds, PTL DEF ImplementsOrchestrator

\* End to end: a job that shows success had every page settled by a worker,
\* done or failed, and counted by the orchestrator with that outcome; a page
\* that the queue lost keeps its job from success.
THEOREM SuccessMatchesFatesHolds == PipelineSpec => []SuccessMatchesFates
<1>1. FatesFit /\ SuccessAccountsForAllPages => SuccessMatchesFates
  <2> SUFFICES ASSUME FatesFit, SuccessAccountsForAllPages,
                      status.state = "success", jpc = "none", NEW p \in AIPages
               PROVE  fate[p] \in {"done", "failed"} /\ report[p] = fate[p]
    BY DEF SuccessMatchesFates
  <2>1. hpc[p] = "finished"
    BY DEF SuccessAccountsForAllPages, Counters
  <2>2. fate[p] \notin Unreported /\ fate[p] \in Unreported \cup {"done", "failed"}
    BY <2>1 DEF FatesFit
  <2>3. QED
    BY <2>2 DEF FatesFit
<1>2. QED
  BY <1>1, PipelineInvariant, ImplementsOrchestratorHolds, SuccessAccountsHolds,
     PTL DEF ImplementsOrchestrator
=============================================================================
