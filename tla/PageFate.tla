------------------------------ MODULE PageFate ------------------------------
(***************************************************************************)
(* What the queue and the dispatcher together promise about a page, with   *)
(* no queue and no workers in it: at-most-once reporting.  A page is       *)
(* submitted once, stays pending through its retries, and then has one     *)
(* final fate: reported done, reported failed, or stranded, when a crash,  *)
(* a cancellation or an ignored error took its last copy.                  *)
(***************************************************************************)
CONSTANT Page

VARIABLE fate

Final == {"done", "failed", "stranded"}

TypeOK == fate \in [Page -> {"new", "pending"} \cup Final]

Init == fate = [p \in Page |-> "new"]

Submit(p) ==
    /\ fate[p] = "new"
    /\ fate' = [fate EXCEPT ![p] = "pending"]

\* The page is reported, or its report is lost.
Resolve(p) ==
    /\ fate[p] = "pending"
    /\ \E f \in Final : fate' = [fate EXCEPT ![p] = f]

\* A crash takes the workers' copies of several pages at once.
Strand(S) ==
    /\ \A p \in S : fate[p] = "pending"
    /\ fate' = [p \in Page |-> IF p \in S THEN "stranded" ELSE fate[p]]

Next ==
    \/ \E p \in Page : Submit(p) \/ Resolve(p)
    \/ \E S \in SUBSET Page : Strand(S)

Spec == Init /\ [][Next]_fate

\* A page's final fate stays what it is: no retry, duplicate or restart turns
\* a reported page into anything else, or brings a stranded page back.
FateIsFinal == [][\A p \in Page : fate[p] \in Final => fate'[p] = fate[p]]_fate
=============================================================================
