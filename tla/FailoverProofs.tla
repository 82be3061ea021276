--------------------------- MODULE FailoverProofs ---------------------------
(***************************************************************************)
(* Theorems about Failover for any workers, limits and configuration: its  *)
(* type invariant, that the slots of every model are held by the calls     *)
(* under way, which models an attempt at a page calls and which it has     *)
(* tried when it gives up, and that each of its steps leads forward.       *)
(***************************************************************************)
EXTENDS Failover, FiniteSetTheorems, TLAPS

-----------------------------------------------------------------------------
(* The cascade stays within its four stages and its models.                *)

LEMMA ModelType ==
    ASSUME TypeOK, NEW w \in Workers, NEW s \in 1..4
    PROVE  ModelOf(w, s) \in Model
<1>1. engine[w] \in Providers /\ SecondaryEngine \in Providers
  BY EnginesAssumption DEF TypeOK, Providers
<1>2. QED
  BY <1>1 DEF ModelOf, Model

LEMMA CurrentType ==
    ASSUME TypeOK, NEW w \in Workers
    PROVE  Current(w) \in Model
<1>1. stage[w] \in 1..4
  BY DEF TypeOK
<1>2. QED
  BY <1>1, ModelType DEF Current

LEMMA AfterType ==
    ASSUME NEW w, NEW s, NEW e, NEW b
    PROVE  After(w, s, e, b) \in 0..4
  BY DEF After

\* The part of the type invariant that MoveOn may disturb.
LEMMA MoveOnType ==
    ASSUME TypeOK, NEW w \in Workers, NEW e, NEW b, MoveOn(w, e, b)
    PROVE  /\ pc' \in [Workers -> Pc]
           /\ stage' \in [Workers -> 1..4]
           /\ pc'[w] # "calling"
           /\ \A v \in Workers \ {w} : pc'[v] = pc[v] /\ stage'[v] = stage[v]
<1> DEFINE next == After(w, stage[w], e, b)
<1>1. next \in 0..4
  BY AfterType
<1> HIDE DEF next
<1>2. /\ pc' = [pc EXCEPT ![w] = IF next = 0 THEN "gaveUp" ELSE "gate"]
      /\ stage' = [stage EXCEPT ![w] = IF next = 0 THEN @ ELSE next]
  BY DEF MoveOn, next
<1>3. QED
  BY <1>1, <1>2 DEF TypeOK, Pc

LEMMA ReturnType ==
    ASSUME TypeOK, NEW w \in Workers, Return(w)
    PROVE  TypeOK' <=> /\ inflight' \in [Model -> 0..MaxInflight]
                       /\ cooling' \in [Model -> BOOLEAN]
                       /\ failures' \in [Model -> 0..MaxOpens]
<1>1. PrimaryEngine \in Providers
  BY EnginesAssumption DEF Providers
<1>2. 0 \in 0..MaxOpens
  BY BackoffAssumption
<1>3. /\ pc' \in [Workers -> Pc]
      /\ engine' \in [Workers -> Providers]
      /\ fast' \in [Workers -> BOOLEAN]
      /\ stage' \in [Workers -> 1..4]
  BY <1>1 DEF TypeOK, Return, Pc
<1>4. /\ err' \in [Workers -> {"none"} \cup Errors]
      /\ count' \in [Workers -> 0..MaxOpens]
      /\ late' \in [Workers -> BOOLEAN]
  BY <1>2 DEF TypeOK, Return
<1>5. <<>> \in Seq(Model) /\ {} \in SUBSET Model
  OBVIOUS
<1>6. /\ calls' \in [Workers -> Seq(Model)]
      /\ blocked' \in [Workers -> SUBSET Model]
  BY <1>5 DEF TypeOK, Return
<1>7. QED
  BY <1>3, <1>4, <1>6 DEF TypeOK

LEMMA InitType == Init => TypeOK
<1> SUFFICES ASSUME Init PROVE TypeOK
  OBVIOUS
<1>1. PrimaryEngine \in Providers /\ 0 \in 0..MaxOpens /\ 0 \in 0..MaxInflight
  BY EnginesAssumption, BackoffAssumption, MaxInflightAssumption DEF Providers
<1>2. <<>> \in Seq(Model) /\ {} \in SUBSET Model
  OBVIOUS
<1>3. QED
  BY <1>1, <1>2 DEF Init, TypeOK, Pc

\* The number a breaker's count stops at.
LEMMA SaturatedType ==
    ASSUME NEW n \in Nat
    PROVE  Saturated(n) \in 0..MaxOpens
  BY BackoffAssumption DEF Saturated

-----------------------------------------------------------------------------
(* The slots.                                                              *)

SlotInv == \A m \in Model : inflight[m] = Cardinality(Callers(m))

LEMMA CallersFinite ==
    ASSUME NEW m
    PROVE  /\ IsFiniteSet(Callers(m))
           /\ Cardinality(Callers(m)) \in Nat
<1>1. Callers(m) \subseteq Workers
  BY DEF Callers
<1>2. IsFiniteSet(Callers(m))
  BY <1>1, WorkersAssumption, FS_Subset
<1>3. QED
  BY <1>2, FS_CardinalityType

\* A step of worker w that neither starts nor ends a call leaves the callers.
LEMMA NoCall ==
    ASSUME NEW w \in Workers, pc[w] # "calling", pc'[w] # "calling",
           \A v \in Workers \ {w} :
               /\ pc'[v] = pc[v] /\ stage'[v] = stage[v]
               /\ engine'[v] = engine[v] /\ fast'[v] = fast[v],
           inflight' = inflight, SlotInv
    PROVE  SlotInv'
<1>1. \A v \in Workers \ {w} : Current(v)' = Current(v)
  BY DEF Current, ModelOf
<1>2. \A m \in Model : Callers(m)' = Callers(m)
  BY <1>1 DEF Callers
<1>3. QED
  BY <1>2 DEF SlotInv

LEMMA CallStarts ==
    ASSUME TypeOK, SlotInv, NEW w \in Workers, Allow(w)
    PROVE  SlotInv'
<1>1. PICK c \in Model : c = Current(w)
  BY CurrentType
<1>2. \A v \in Workers : Current(v)' = Current(v)
  BY DEF Allow, Current, ModelOf
<1>3. /\ pc' = [pc EXCEPT ![w] = "calling"] /\ pc[w] = "allow"
      /\ inflight' = [inflight EXCEPT ![c] = @ + 1]
  BY <1>1 DEF Allow
<1>4. pc \in [Workers -> Pc] /\ inflight \in [Model -> 0..MaxInflight]
  BY DEF TypeOK
<1>5. /\ w \in Callers(c)' /\ w \notin Callers(c)
      /\ Callers(c)' = Callers(c) \cup {w}
  BY <1>1, <1>2, <1>3, <1>4 DEF Callers
<1>6. \A m \in Model \ {c} : Callers(m)' = Callers(m)
  BY <1>1, <1>2, <1>3, <1>4 DEF Callers
<1>7. Cardinality(Callers(c)') = Cardinality(Callers(c)) + 1
  BY <1>5, CallersFinite, FS_AddElement
<1>8. /\ inflight'[c] = inflight[c] + 1
      /\ \A m \in Model \ {c} : inflight'[m] = inflight[m]
  BY <1>3, <1>4
<1>9. QED
  BY <1>6, <1>7, <1>8 DEF SlotInv

LEMMA CallEnds ==
    ASSUME TypeOK, SlotInv, NEW w \in Workers,
           CallSucceeds(w) \/ CallFails(w)
    PROVE  SlotInv'
<1>0. PICK c \in Model : c = Current(w)
  BY CurrentType
<1>1. /\ pc[w] = "calling" /\ pc'[w] # "calling"
      /\ inflight' = [inflight EXCEPT ![c] = @ - 1]
      /\ \A v \in Workers \ {w} :
            /\ pc'[v] = pc[v] /\ stage'[v] = stage[v]
            /\ engine'[v] = engine[v] /\ fast'[v] = fast[v]
  <2>1. CASE CallSucceeds(w)
    BY <1>0, <2>1 DEF CallSucceeds, Release, TypeOK
  <2>2. CASE CallFails(w)
    <3>1. /\ pc[w] = "calling"
          /\ inflight' = [inflight EXCEPT ![c] = @ - 1]
          /\ engine' = engine /\ fast' = fast
      BY <1>0, <2>2 DEF CallFails, Release
    <3>2. \/ pc' = [pc EXCEPT ![w] = "incr"] /\ UNCHANGED stage
          \/ \E e \in Errors \cup {"none"} : MoveOn(w, e, TRUE)
      BY <2>2 DEF CallFails, TypeOK, Errors
    <3>3. /\ pc'[w] # "calling"
          /\ \A v \in Workers \ {w} : pc'[v] = pc[v] /\ stage'[v] = stage[v]
      <4>1. CASE pc' = [pc EXCEPT ![w] = "incr"] /\ UNCHANGED stage
        BY <4>1 DEF TypeOK
      <4>2. CASE \E e \in Errors \cup {"none"} : MoveOn(w, e, TRUE)
        BY <4>2, MoveOnType
      <4>3. QED
        BY <3>2, <4>1, <4>2
    <3>4. QED
      BY <3>1, <3>3
  <2>3. QED
    BY <2>1, <2>2
<1>2. \A v \in Workers \ {w} : Current(v)' = Current(v)
  BY <1>1 DEF Current, ModelOf
<1>3. pc \in [Workers -> Pc] /\ inflight \in [Model -> 0..MaxInflight]
  BY DEF TypeOK
<1>4. w \in Callers(c) /\ Callers(c)' = Callers(c) \ {w}
  BY <1>0, <1>1, <1>2, <1>3 DEF Callers
<1>5. \A m \in Model \ {c} : Callers(m)' = Callers(m)
  BY <1>0, <1>1, <1>2, <1>3 DEF Callers
<1>6. Cardinality(Callers(c)') = Cardinality(Callers(c)) - 1
  BY <1>4, CallersFinite, FS_RemoveElement
<1>7. /\ inflight'[c] = inflight[c] - 1
      /\ \A m \in Model \ {c} : inflight'[m] = inflight[m]
  BY <1>1, <1>3
<1>8. QED
  BY <1>5, <1>6, <1>7 DEF SlotInv

-----------------------------------------------------------------------------
(* The inductive invariant: the type invariant needs the slots, since the  *)
(* release of a slot must not take a semaphore below zero.                 *)

IInv == TypeOK /\ SlotInv

LEMMA SlotHeld ==
    ASSUME IInv, NEW w \in Workers, pc[w] = "calling"
    PROVE  inflight[Current(w)] \in 1..MaxInflight
<1>1. PICK c \in Model : c = Current(w)
  BY CurrentType DEF IInv
<1>2. w \in Callers(c)
  BY <1>1 DEF Callers
<1>3. Cardinality(Callers(c)) # 0 /\ Cardinality(Callers(c)) \in Nat
  BY <1>2, CallersFinite, FS_EmptySet
<1>4. inflight[c] = Cardinality(Callers(c)) /\ inflight[c] \in 0..MaxInflight
  BY DEF IInv, SlotInv, TypeOK
<1>5. QED
  BY <1>1, <1>3, <1>4

LEMMA GateStep ==
    ASSUME IInv, NEW w \in Workers,
           BreakerOpen(w) \/ BreakerClosed(w) \/ NoSlot(w)
    PROVE  IInv'
<1>0. TypeOK /\ SlotInv /\ Current(w) \in Model
  BY CurrentType DEF IInv
<1>1. CASE BreakerOpen(w) \/ NoSlot(w)
  <2>1. /\ MoveOn(w, err[w], FALSE)
        /\ blocked' = [blocked EXCEPT ![w] = @ \cup {Current(w)}]
        /\ UNCHANGED <<engine, fast, err, count, late, calls, inflight,
                       cooling, failures>>
        /\ pc[w] # "calling"
    BY <1>1 DEF BreakerOpen, NoSlot
  <2>2. blocked' \in [Workers -> SUBSET Model]
    BY <1>0, <2>1 DEF TypeOK
  <2>3. TypeOK'
    BY <1>0, <2>1, <2>2, MoveOnType DEF TypeOK
  <2>4. SlotInv'
    BY <1>0, <2>1, MoveOnType, NoCall
  <2>5. QED
    BY <2>3, <2>4 DEF IInv
<1>2. CASE BreakerClosed(w)
  <2>1. /\ pc' = [pc EXCEPT ![w] = "allow"] /\ pc[w] # "calling"
        /\ UNCHANGED <<engine, fast, stage, err, count, late, calls, blocked,
                       inflight, cooling, failures>>
    BY <1>2 DEF BreakerClosed
  <2>2. pc \in [Workers -> Pc]
    BY <1>0 DEF TypeOK
  <2>3. TypeOK'
    BY <1>0, <2>1 DEF TypeOK, Pc
  <2>4. SlotInv'
    BY <1>0, <2>1, <2>2, NoCall
  <2>5. QED
    BY <2>3, <2>4 DEF IInv
<1>3. QED
  BY <1>1, <1>2

LEMMA CallStep ==
    ASSUME IInv, NEW w \in Workers,
           Allow(w) \/ CallSucceeds(w) \/ CallFails(w)
    PROVE  IInv'
<1>0. TypeOK /\ SlotInv /\ Current(w) \in Model
  BY CurrentType DEF IInv
<1>1. SlotInv'
  BY <1>0, CallStarts, CallEnds
<1>2. CASE Allow(w)
  <2>1. inflight' \in [Model -> 0..MaxInflight]
    BY <1>0, <1>2, MaxInflightAssumption DEF TypeOK, Allow
  <2>2. calls' \in [Workers -> Seq(Model)]
    BY <1>0, <1>2 DEF TypeOK, Allow
  <2>3. QED
    BY <1>0, <1>1, <1>2, <2>1, <2>2 DEF IInv, TypeOK, Allow, Pc
<1>3. ASSUME pc[w] = "calling", Release(Current(w))
      PROVE  inflight' \in [Model -> 0..MaxInflight]
  BY <1>0, <1>3, SlotHeld, MaxInflightAssumption DEF TypeOK, Release
<1>4. CASE CallSucceeds(w)
  <2>1. inflight' \in [Model -> 0..MaxInflight]
    BY <1>3, <1>4 DEF CallSucceeds
  <2>2. QED
    BY <1>0, <1>1, <1>4, <2>1 DEF IInv, TypeOK, CallSucceeds, Pc
<1>5. CASE CallFails(w)
  <2>1. inflight' \in [Model -> 0..MaxInflight]
    BY <1>3, <1>5 DEF CallFails
  <2>2. /\ UNCHANGED <<engine, fast, count, late, calls, blocked, cooling,
                       failures>>
        /\ err' \in [Workers -> {"none"} \cup Errors]
    BY <1>0, <1>5 DEF CallFails, TypeOK, Errors
  <2>3. \/ pc' = [pc EXCEPT ![w] = "incr"] /\ UNCHANGED stage
        \/ \E e \in Errors \cup {"none"} : MoveOn(w, e, TRUE)
    BY <1>0, <1>5 DEF CallFails, TypeOK, Errors
  <2>4. pc' \in [Workers -> Pc] /\ stage' \in [Workers -> 1..4]
    <3>1. CASE pc' = [pc EXCEPT ![w] = "incr"] /\ UNCHANGED stage
      BY <1>0, <3>1 DEF TypeOK, Pc
    <3>2. CASE \E e \in Errors \cup {"none"} : MoveOn(w, e, TRUE)
      BY <1>0, <3>2, MoveOnType
    <3>3. QED
      BY <2>3, <3>1, <3>2
  <2>5. /\ engine' \in [Workers -> Providers]
        /\ fast' \in [Workers -> BOOLEAN]
        /\ count' \in [Workers -> 0..MaxOpens]
        /\ late' \in [Workers -> BOOLEAN]
        /\ calls' \in [Workers -> Seq(Model)]
        /\ blocked' \in [Workers -> SUBSET Model]
        /\ cooling' \in [Model -> BOOLEAN]
        /\ failures' \in [Model -> 0..MaxOpens]
    BY <1>0, <2>2 DEF TypeOK
  <2>6. TypeOK'
    BY <2>1, <2>2, <2>4, <2>5 DEF TypeOK
  <2>7. QED
    BY <1>1, <2>6 DEF IInv
<1>6. QED
  BY <1>2, <1>4, <1>5

LEMMA BreakerStep ==
    ASSUME IInv, NEW w \in Workers, CountFailure(w) \/ SetCooldown(w)
    PROVE  IInv'
<1>0. TypeOK /\ SlotInv /\ Current(w) \in Model
  BY CurrentType DEF IInv
<1>1. CASE CountFailure(w)
  <2>1. /\ pc[w] = "incr" /\ pc' = [pc EXCEPT ![w] = "cooldown"]
        /\ UNCHANGED <<engine, fast, stage, err, late, calls, blocked,
                       inflight, cooling>>
    BY <1>1 DEF CountFailure
  <2>2. pc \in [Workers -> Pc] /\ pc' \in [Workers -> Pc]
    BY <1>0, <2>1 DEF TypeOK, Pc
  <2>3. 1 \in 0..MaxOpens
    BY BackoffAssumption
  <2>4. failures[Current(w)] + 1 \in Nat
    BY <1>0, BackoffAssumption DEF TypeOK
  <2>5. Saturated(failures[Current(w)] + 1) \in 0..MaxOpens
    BY <2>4, SaturatedType
  <2>6. /\ count' \in [Workers -> 0..MaxOpens]
        /\ failures' \in [Model -> 0..MaxOpens]
    <3>1. /\ count \in [Workers -> 0..MaxOpens]
          /\ failures \in [Model -> 0..MaxOpens]
      BY <1>0 DEF TypeOK
    <3>2. PICK m \in Model : m = Current(w)
      BY <1>0
    <3>3. CASE /\ failures' = [failures EXCEPT ![m] = Saturated(@ + 1)]
               /\ count' = [count EXCEPT ![w] = Saturated(failures[m] + 1)]
      BY <2>5, <3>1, <3>2, <3>3
    <3>4. CASE count' = [count EXCEPT ![w] = 1] /\ UNCHANGED failures
      BY <2>3, <3>1, <3>4
    <3>5. QED
      BY <1>1, <3>2, <3>3, <3>4 DEF CountFailure
  <2>7. TypeOK'
    BY <1>0, <2>1, <2>2, <2>6 DEF TypeOK
  <2>8. SlotInv'
    BY <1>0, <2>1, <2>2, NoCall
  <2>9. QED
    BY <2>7, <2>8 DEF IInv
<1>2. CASE SetCooldown(w)
  <2>1. /\ pc[w] = "cooldown" /\ MoveOn(w, err[w], TRUE)
        /\ UNCHANGED <<engine, fast, err, count, late, calls, blocked,
                       inflight, failures>>
    BY <1>2 DEF SetCooldown
  <2>2. (Cooldown(count[w]) > 0) \in BOOLEAN
    OBVIOUS
  <2>3. cooling' \in [Model -> BOOLEAN]
    BY <1>0, <1>2, <2>2 DEF SetCooldown, TypeOK
  <2>4. TypeOK'
    BY <1>0, <2>1, <2>3, MoveOnType DEF TypeOK
  <2>5. SlotInv'
    BY <1>0, <2>1, MoveOnType, NoCall
  <2>6. QED
    BY <2>4, <2>5 DEF IInv
<1>3. QED
  BY <1>1, <1>2

LEMMA ReturnStep ==
    ASSUME IInv, NEW w \in Workers, CloseBreaker(w) \/ GiveUp(w)
    PROVE  IInv'
<1>0. TypeOK /\ SlotInv /\ Current(w) \in Model
  BY CurrentType DEF IInv
<1>1. /\ Return(w) /\ inflight' = inflight /\ pc[w] # "calling"
      /\ cooling' \in [Model -> BOOLEAN]
      /\ failures' \in [Model -> 0..MaxOpens]
  <2>1. 0 \in 0..MaxOpens
    BY BackoffAssumption
  <2>2. CASE CloseBreaker(w)
    BY <1>0, <2>1, <2>2 DEF CloseBreaker, TypeOK
  <2>3. CASE GiveUp(w)
    BY <1>0, <2>3 DEF GiveUp, TypeOK
  <2>4. QED
    BY <2>2, <2>3
<1>2. inflight' \in [Model -> 0..MaxInflight]
  BY <1>0, <1>1 DEF TypeOK
<1>3. TypeOK'
  BY <1>0, <1>1, <1>2, ReturnType
<1>4. /\ pc'[w] # "calling"
      /\ \A v \in Workers \ {w} :
            /\ pc'[v] = pc[v] /\ stage'[v] = stage[v]
            /\ engine'[v] = engine[v] /\ fast'[v] = fast[v]
  BY <1>0, <1>1 DEF Return, TypeOK
<1>5. SlotInv'
  BY <1>0, <1>1, <1>4, NoCall
<1>6. QED
  BY <1>3, <1>5 DEF IInv

LEMMA OtherStep ==
    ASSUME IInv,
           \/ \E w \in Workers : StartPage(w) \/ ContextEnds(w)
           \/ \E m \in Model : CooldownEnds(m)
           \/ UNCHANGED vars
    PROVE  IInv'
<1>0. TypeOK /\ SlotInv
  BY DEF IInv
<1>1. ASSUME NEW w \in Workers, StartPage(w)
      PROVE  IInv'
  <2>1. /\ pc[w] # "calling" /\ pc' = [pc EXCEPT ![w] = "gate"]
        /\ \E e \in Engines, f \in BOOLEAN :
              /\ engine' = [engine EXCEPT ![w] = e]
              /\ fast' = [fast EXCEPT ![w] = f]
              /\ stage' = [stage EXCEPT ![w] =
                              IF f /\ ~ HasModel(<<e, "fast">>) THEN 2 ELSE 1]
        /\ UNCHANGED <<err, count, late, calls, blocked, inflight, cooling,
                       failures>>
    BY <1>1 DEF StartPage
  <2>2. PICK e \in Providers, f \in BOOLEAN, s \in 1..4 :
            /\ engine' = [engine EXCEPT ![w] = e]
            /\ fast' = [fast EXCEPT ![w] = f]
            /\ stage' = [stage EXCEPT ![w] = s]
    <3>1. PICK e \in Engines, f \in BOOLEAN :
              /\ engine' = [engine EXCEPT ![w] = e]
              /\ fast' = [fast EXCEPT ![w] = f]
              /\ stage' = [stage EXCEPT ![w] =
                              IF f /\ ~ HasModel(<<e, "fast">>) THEN 2 ELSE 1]
      BY <2>1
    <3>2. \/ stage' = [stage EXCEPT ![w] = 1]
          \/ stage' = [stage EXCEPT ![w] = 2]
      <4>1. CASE f /\ ~ HasModel(<<e, "fast">>)
        BY <3>1, <4>1
      <4>2. CASE ~ (f /\ ~ HasModel(<<e, "fast">>))
        BY <3>1, <4>2
      <4>3. QED
        BY <4>1, <4>2
    <3>3. e \in Providers /\ 1 \in 1..4 /\ 2 \in 1..4
      BY EnginesAssumption
    <3>4. QED
      BY <3>1, <3>2, <3>3
  <2>3. TypeOK'
    BY <1>0, <2>1, <2>2 DEF TypeOK, Pc
  <2>4. pc \in [Workers -> Pc]
    BY <1>0 DEF TypeOK
  <2>5. /\ pc'[w] # "calling"
        /\ \A v \in Workers \ {w} :
              /\ pc'[v] = pc[v] /\ stage'[v] = stage[v]
              /\ engine'[v] = engine[v] /\ fast'[v] = fast[v]
    BY <1>0, <2>1, <2>2 DEF TypeOK
  <2>6. SlotInv'
    BY <1>0, <2>1, <2>5, NoCall
  <2>7. QED
    BY <2>3, <2>6 DEF IInv
<1>2. ASSUME UNCHANGED <<pc, engine, fast, stage, inflight>>
      PROVE  SlotInv'
  <2>1. \A v \in Workers : Current(v)' = Current(v)
    BY <1>2 DEF Current, ModelOf
  <2>2. \A m \in Model : Callers(m)' = Callers(m)
    BY <1>2, <2>1 DEF Callers
  <2>3. QED
    BY <1>0, <1>2, <2>2 DEF SlotInv
<1>3. ASSUME NEW w \in Workers, ContextEnds(w)
      PROVE  IInv'
  BY <1>0, <1>2, <1>3 DEF ContextEnds, IInv, TypeOK
<1>4. ASSUME NEW m \in Model, CooldownEnds(m)
      PROVE  IInv'
  BY <1>0, <1>2, <1>4 DEF CooldownEnds, pageVars, IInv, TypeOK
<1>5. CASE UNCHANGED vars
  BY <1>0, <1>2, <1>5 DEF vars, pageVars, IInv, TypeOK
<1>6. QED
  BY <1>1, <1>3, <1>4, <1>5

LEMMA InitInv == Init => IInv
<1> SUFFICES ASSUME Init PROVE IInv
  OBVIOUS
<1>1. \A m \in Model : Callers(m) = {} /\ inflight[m] = 0
  BY DEF Init, Callers
<1>2. SlotInv
  BY <1>1, FS_EmptySet DEF SlotInv
<1>3. QED
  BY <1>2, InitType DEF IInv

LEMMA InvStep == IInv /\ [Next]_vars => IInv'
<1> SUFFICES ASSUME IInv, [Next]_vars PROVE IInv'
  OBVIOUS
<1>1. ASSUME NEW w \in Workers, Finishing(w)
      PROVE  IInv'
  BY <1>1, GateStep, CallStep, BreakerStep, ReturnStep DEF Finishing
<1>2. QED
  BY <1>1, OtherStep DEF Next

\* Every variable of the cascade and the limiter keeps its type: the stage
\* stays within the cascade, and a semaphore within its capacity.
THEOREM TypeCorrect == Spec => []TypeOK
<1>1. IInv => TypeOK
  BY DEF IInv
<1>2. QED
  BY <1>1, InitInv, InvStep, PTL DEF Spec

\* Whichever of its paths processPage takes, the slots of a model are held by
\* the calls under way, and there are never more than MaxInflight.
THEOREM SlotsMatchCallsHolds == Spec => []SlotsMatchCalls
<1>1. IInv => SlotsMatchCalls
  BY MaxInflightAssumption DEF IInv, SlotInv, TypeOK, SlotsMatchCalls
<1>2. QED
  BY <1>1, InitInv, InvStep, PTL DEF Spec

-----------------------------------------------------------------------------
(* The cascade.  An invariant of every worker: the models it called are    *)
(* those of the stages behind it, each once, and a stage that was left was *)
(* tried, unless the error of the first call says that it is skipped.      *)

\* The model of the stage was asked, or found in cooldown or without a slot.
StageTried(w) == pc[w] \in {"calling", "incr", "cooldown", "close", "gaveUp"}

\* An idle worker has called nothing; no cascade is given up early.
Positions(w) ==
    /\ pc[w] = "idle" => calls[w] = <<>>
    /\ fast[w] => stage[w] <= 2
    /\ pc[w] = "gaveUp" => stage[w] >= IF fast[w] THEN 2 ELSE 3

\* Every model called is that of a stage behind the worker, or of its stage.
CallsBehind(w) ==
    \A i \in DOMAIN calls[w] :
        \E s \in 1..stage[w] :
            (s < stage[w] \/ StageTried(w)) /\ calls[w][i] = ModelOf(w, s)

\* No model was called twice, unless both engines are the same.
CalledOnce(w) ==
    engine[w] # SecondaryEngine =>
        \A i, k \in DOMAIN calls[w] : calls[w][i] = calls[w][k] => i = k

\* A stage left behind was tried, or skipped for the error or for want of a
\* model.
StagesTried(w) ==
    /\ StageTried(w) => Current(w) \in Tried(w)
    /\ ~ fast[w] =>
          /\ stage[w] > 1 => ModelOf(w, 1) \in Tried(w)
          /\ stage[w] > 3 => ModelOf(w, 3) \in Tried(w)
          /\ stage[w] > 2 /\ Retryable(err[w]) /\ HasModel(ModelOf(w, 2))
                => ModelOf(w, 2) \in Tried(w)

WorkerInv(w) ==
    Positions(w) /\ CallsBehind(w) /\ CalledOnce(w) /\ StagesTried(w)

CascadeInv == \A w \in Workers : WorkerInv(w)

\* What follows a stage comes after it.
LEMMA AfterForward ==
    ASSUME NEW w, NEW s \in 1..4, NEW e, NEW b
    PROVE  LET n == After(w, s, e, b) IN
           /\ n = 0 => IF fast[w] THEN s # 1 ELSE s \in {3, 4}
           /\ n # 0 => n \in 2..4 /\ n > s
           /\ n # 0 /\ fast[w] => n = 2
           /\ n # 0 /\ ~ fast[w] => \/ n = s + 1
                                    \/ /\ s = 1 /\ n = 3
                                       /\ ~ (Retryable(e) /\ HasModel(ModelOf(w, 2)))
<1>1. CASE fast[w] /\ s = 1
  <2>1. After(w, s, e, b) = 2
    BY <1>1, Zenon DEF After
  <2>2. QED
    BY <1>1, <2>1
<1>2. CASE fast[w] /\ s # 1
  <2>1. After(w, s, e, b) = 0
    BY <1>2, Zenon DEF After
  <2>2. QED
    BY <1>2, <2>1
<1>3. CASE ~ fast[w] /\ s = 1
  <2>1. s # 2 /\ s # 3
    BY <1>3
  <2>2. After(w, s, e, b)
            = IF Retryable(e) /\ HasModel(ModelOf(w, 2)) THEN 2 ELSE 3
    BY <1>3, <2>1 DEF After
  <2>3. QED
    BY <1>3, <2>2
<1>4. CASE ~ fast[w] /\ s = 2
  <2>1. s # 1
    BY <1>4
  <2>2. After(w, s, e, b) = 3
    BY <1>4, <2>1, Zenon DEF After
  <2>3. QED
    BY <1>4, <2>2
<1>5. CASE ~ fast[w] /\ s = 3
  <2>1. s # 1 /\ s # 2
    BY <1>5
  <2>2. CASE b /\ Retryable(e)
    <3>1. After(w, s, e, b) = 4
      BY <1>5, <2>1, <2>2, Zenon DEF After
    <3>2. QED
      BY <1>5, <3>1
  <2>3. CASE ~ (b /\ Retryable(e))
    <3>1. After(w, s, e, b) = 0
      BY <1>5, <2>1, <2>3, Zenon DEF After
    <3>2. QED
      BY <1>5, <3>1
  <2>4. QED
    BY <2>2, <2>3
<1>6. CASE ~ fast[w] /\ s = 4
  <2>1. s # 1 /\ s # 2 /\ s # 3
    BY <1>6
  <2>2. After(w, s, e, b) = 0
    BY <1>6, <2>1, Zenon DEF After
  <2>3. QED
    BY <1>6, <2>2
<1>7. QED
  BY <1>1, <1>2, <1>3, <1>4, <1>5, <1>6

\* A worker whose locals stay as they are keeps its invariant.
LEMMA WorkerFrame ==
    ASSUME NEW w, WorkerInv(w),
           pc'[w] = pc[w], engine'[w] = engine[w], fast'[w] = fast[w],
           stage'[w] = stage[w], err'[w] = err[w], calls'[w] = calls[w],
           blocked'[w] = blocked[w]
    PROVE  WorkerInv(w)'
<1>1. \A s : ModelOf(w, s)' = ModelOf(w, s)
  BY DEF ModelOf
<1>2. Tried(w)' = Tried(w) /\ Current(w)' = Current(w)
  BY <1>1 DEF Tried, Current
<1>3. StageTried(w)' = StageTried(w)
  BY DEF StageTried
<1>4. Positions(w)' /\ CalledOnce(w)'
  BY DEF WorkerInv, Positions, CalledOnce
<1>5. CallsBehind(w)'
  BY <1>1, <1>3 DEF WorkerInv, CallsBehind
<1>6. StagesTried(w)'
  BY <1>1, <1>2, <1>3 DEF WorkerInv, StagesTried
<1>7. QED
  BY <1>4, <1>5, <1>6 DEF WorkerInv

\* The step to the next stage, or out of the cascade.
LEMMA StageLeft ==
    ASSUME TypeOK, NEW w \in Workers, WorkerInv(w), NEW e, NEW b,
           MoveOn(w, e, b), pc[w] # "idle",
           engine' = engine, fast' = fast, calls' = calls,
           blocked[w] \subseteq blocked'[w], err'[w] = e,
           err'[w] = err[w] \/ (stage[w] = 1 /\ ~ fast[w]),
           Current(w) \in Tried(w)'
    PROVE  WorkerInv(w)'
<1> DEFINE n == After(w, stage[w], e, b)
<1>1. stage[w] \in 1..4
  BY DEF TypeOK
<1>2. /\ n = 0 => IF fast[w] THEN stage[w] # 1 ELSE stage[w] \in {3, 4}
      /\ n # 0 => n \in 2..4 /\ n > stage[w]
      /\ n # 0 /\ fast[w] => n = 2
      /\ n # 0 /\ ~ fast[w] =>
            \/ n = stage[w] + 1
            \/ /\ stage[w] = 1 /\ n = 3
               /\ ~ (Retryable(e) /\ HasModel(ModelOf(w, 2)))
  BY <1>1, AfterForward
<1>3. /\ pc'[w] = IF n = 0 THEN "gaveUp" ELSE "gate"
      /\ stage'[w] = IF n = 0 THEN stage[w] ELSE n
  BY DEF MoveOn, TypeOK
<1> HIDE DEF n
<1>4. \A s : ModelOf(w, s)' = ModelOf(w, s)
  BY DEF ModelOf
<1>5. Tried(w) \subseteq Tried(w)'
  BY DEF Tried
<1>6. StageTried(w)' <=> n = 0
  BY <1>3 DEF StageTried
<1>7. Positions(w)'
  BY <1>1, <1>2, <1>3 DEF WorkerInv, Positions
<1>8. CallsBehind(w)'
  BY <1>1, <1>2, <1>3, <1>4, <1>6 DEF WorkerInv, CallsBehind
<1>9. CalledOnce(w)'
  BY DEF WorkerInv, CalledOnce
<1>10. StagesTried(w)'
  <2>1. ModelOf(w, stage[w]) \in Tried(w)'
    BY DEF Current
  <2>2. StageTried(w)' => Current(w)' \in Tried(w)'
    BY <1>3, <1>4, <1>6, <2>1 DEF Current
  <2>3. ASSUME ~ fast[w]
        PROVE  /\ stage'[w] > 1 => ModelOf(w, 1) \in Tried(w)'
               /\ stage'[w] > 3 => ModelOf(w, 3) \in Tried(w)'
               /\ stage'[w] > 2 /\ Retryable(err'[w]) /\ HasModel(ModelOf(w, 2))
                     => ModelOf(w, 2) \in Tried(w)'
    <3>1. /\ stage[w] > 1 => ModelOf(w, 1) \in Tried(w)'
          /\ stage[w] > 3 => ModelOf(w, 3) \in Tried(w)'
          /\ stage[w] > 2 /\ Retryable(err[w]) /\ HasModel(ModelOf(w, 2))
                => ModelOf(w, 2) \in Tried(w)'
      BY <1>5, <2>3 DEF WorkerInv, StagesTried
    <3>2. CASE n = 0
      <4>1. stage'[w] = stage[w] /\ err'[w] = err[w]
        BY <1>1, <1>2, <1>3, <2>3, <3>2
      <4>2. QED
        BY <3>1, <4>1
    <3>3. CASE n = stage[w] + 1
      <4>1. stage'[w] = stage[w] + 1
        BY <1>1, <1>3, <3>3
      <4>2. stage[w] > 2 => err'[w] = err[w]
        BY <1>1
      <4>3. stage[w] = 1 \/ stage[w] = 2 \/ stage[w] = 3 \/ stage[w] = 4
        BY <1>1
      <4>4. CASE stage[w] = 1
        BY <2>1, <4>1, <4>4
      <4>5. CASE stage[w] = 2
        BY <2>1, <3>1, <4>1, <4>5
      <4>6. CASE stage[w] = 3
        BY <2>1, <3>1, <4>1, <4>2, <4>6
      <4>7. CASE stage[w] = 4
        BY <1>2, <3>3, <4>7
      <4>8. QED
        BY <4>3, <4>4, <4>5, <4>6, <4>7
    <3>4. CASE n # 0 /\ n # stage[w] + 1
      <4>1. /\ stage[w] = 1 /\ stage'[w] = 3
            /\ ~ (Retryable(e) /\ HasModel(ModelOf(w, 2)))
        BY <1>2, <1>3, <2>3, <3>4
      <4>2. QED
        BY <2>1, <4>1
    <3>5. QED
      BY <3>2, <3>3, <3>4
  <2>4. QED
    BY <1>4, <2>2, <2>3 DEF StagesTried, HasModel
<1>11. QED
  BY <1>7, <1>8, <1>9, <1>10 DEF WorkerInv

\* A step within a stage changes nothing but the worker's place.
LEMMA StageKept ==
    ASSUME TypeOK, NEW w \in Workers, WorkerInv(w),
           NEW p \in Pc, pc' = [pc EXCEPT ![w] = p],
           pc[w] \notin {"idle", "gaveUp"}, p \notin {"idle", "gaveUp"},
           UNCHANGED <<engine, fast, stage, err, calls, blocked>>,
           StageTried(w)' <=> StageTried(w)
    PROVE  WorkerInv(w)'
<1>1. \A s : ModelOf(w, s)' = ModelOf(w, s)
  BY DEF ModelOf
<1>2. Tried(w)' = Tried(w) /\ Current(w)' = Current(w)
  BY <1>1 DEF Tried, Current
<1>3. pc'[w] = p
  BY DEF TypeOK
<1>4. Positions(w)' /\ CalledOnce(w)'
  BY <1>3 DEF WorkerInv, Positions, CalledOnce
<1>5. CallsBehind(w)'
  BY <1>1 DEF WorkerInv, CallsBehind
<1>6. StagesTried(w)'
  BY <1>1, <1>2 DEF WorkerInv, StagesTried
<1>7. QED
  BY <1>4, <1>5, <1>6 DEF WorkerInv

\* A call: its model is none of the stages behind.
LEMMA CallMade ==
    ASSUME TypeOK, NEW w \in Workers, WorkerInv(w), Allow(w)
    PROVE  WorkerInv(w)'
<1> DEFINE m == Current(w)
<1>1. /\ pc[w] = "allow" /\ pc'[w] = "calling"
      /\ calls[w] \in Seq(Model) /\ m \in Model
      /\ calls'[w] = Append(calls[w], m)
      /\ UNCHANGED <<engine, fast, stage, err, blocked>>
      /\ stage[w] \in 1..4
  BY CurrentType DEF Allow, TypeOK
<1>2. \A s : ModelOf(w, s)' = ModelOf(w, s)
  BY <1>1 DEF ModelOf
<1>3. Current(w)' = m /\ m = ModelOf(w, stage[w])
  BY <1>1, <1>2 DEF Current
<1> HIDE DEF m
<1>4. /\ DOMAIN calls[w] = 1..Len(calls[w]) /\ Len(calls[w]) \in Nat
      /\ DOMAIN calls'[w] = 1..(Len(calls[w]) + 1)
      /\ calls'[w][Len(calls[w]) + 1] = m
      /\ \A i \in DOMAIN calls[w] : calls'[w][i] = calls[w][i]
  BY <1>1
<1>5. StageTried(w)' /\ ~ StageTried(w)
  BY <1>1 DEF StageTried
<1>6. Positions(w)'
  BY <1>1 DEF WorkerInv, Positions
<1>7. \A i \in DOMAIN calls[w] :
          \E s \in 1..stage[w] : s < stage[w] /\ calls[w][i] = ModelOf(w, s)
  BY <1>5 DEF WorkerInv, CallsBehind
<1>8. CallsBehind(w)'
  <2>1. ASSUME NEW i \in DOMAIN calls'[w]
        PROVE  \E s \in 1..stage[w] : calls'[w][i] = ModelOf(w, s)
    <3>1. CASE i \in DOMAIN calls[w]
      BY <1>4, <1>7, <3>1
    <3>2. CASE i = Len(calls[w]) + 1
      BY <1>1, <1>3, <1>4, <3>2
    <3>3. QED
      BY <1>4, <3>1, <3>2
  <2>2. QED
    BY <1>1, <1>2, <1>5, <2>1 DEF CallsBehind
<1>9. CalledOnce(w)'
  <2>1. SUFFICES ASSUME engine[w] # SecondaryEngine
                 PROVE  \A i, k \in DOMAIN calls'[w] :
                            calls'[w][i] = calls'[w][k] => i = k
    BY <1>1 DEF CalledOnce
  <2>2. \A s \in 1..stage[w] : s < stage[w] => ModelOf(w, s) # m
    <3>1. fast[w] => stage[w] <= 2
      BY DEF WorkerInv, Positions
    <3>2. QED
      BY <1>1, <1>3, <2>1, <3>1 DEF ModelOf
  <2>3. \A i \in DOMAIN calls[w] : calls[w][i] # m
    BY <1>7, <2>2
  <2>4. \A i, k \in DOMAIN calls[w] : calls[w][i] = calls[w][k] => i = k
    BY <2>1 DEF WorkerInv, CalledOnce
  <2>5. QED
    BY <1>4, <2>3, <2>4
<1>10. StagesTried(w)'
  <2>1. Tried(w) \subseteq Tried(w)' /\ m \in Tried(w)'
    BY <1>1, <1>4 DEF Tried
  <2>2. QED
    BY <1>1, <1>2, <1>3, <2>1 DEF WorkerInv, StagesTried, HasModel
<1>11. QED
  BY <1>6, <1>8, <1>9, <1>10 DEF WorkerInv

\* Every step of a worker through the cascade.
LEMMA FinishingKeeps ==
    ASSUME TypeOK, NEW w \in Workers, WorkerInv(w), Finishing(w)
    PROVE  WorkerInv(w)'
<1>1. \A s : engine' = engine /\ fast' = fast => ModelOf(w, s)' = ModelOf(w, s)
  BY DEF ModelOf
<1>2. CASE BreakerOpen(w) \/ NoSlot(w)
  <2>1. /\ MoveOn(w, err[w], FALSE) /\ pc[w] # "idle"
        /\ blocked' = [blocked EXCEPT ![w] = @ \cup {Current(w)}]
        /\ UNCHANGED <<engine, fast, err, calls>>
    BY <1>2 DEF BreakerOpen, NoSlot
  <2>2. blocked[w] \subseteq blocked'[w] /\ Current(w) \in blocked'[w]
    BY <2>1 DEF TypeOK
  <2>3. Current(w) \in Tried(w)'
    BY <2>2 DEF Tried
  <2>4. QED
    BY <2>1, <2>2, <2>3, StageLeft
<1>3. CASE BreakerClosed(w)
  <2>1. /\ pc' = [pc EXCEPT ![w] = "allow"] /\ pc[w] = "gate"
        /\ UNCHANGED <<engine, fast, stage, err, calls, blocked>>
    BY <1>3 DEF BreakerClosed
  <2>2. pc'[w] = "allow" /\ "allow" \in Pc
    BY <2>1 DEF TypeOK, Pc
  <2>3. StageTried(w)' <=> StageTried(w)
    BY <2>1, <2>2 DEF StageTried
  <2>4. QED
    BY <2>1, <2>2, <2>3, StageKept
<1>4. CASE Allow(w)
  BY <1>4, CallMade
<1>5. CASE CallSucceeds(w)
  <2>1. /\ pc' = [pc EXCEPT ![w] = "close"] /\ pc[w] = "calling"
        /\ UNCHANGED <<engine, fast, stage, err, calls, blocked>>
    BY <1>5 DEF CallSucceeds
  <2>2. pc'[w] = "close" /\ "close" \in Pc
    BY <2>1 DEF TypeOK, Pc
  <2>3. StageTried(w)' <=> StageTried(w)
    BY <2>1, <2>2 DEF StageTried
  <2>4. QED
    BY <2>1, <2>2, <2>3, StageKept
<1>6. CASE CallFails(w)
  <2>1. /\ pc[w] = "calling"
        /\ UNCHANGED <<engine, fast, calls, blocked>>
    BY <1>6 DEF CallFails
  <2>2. Current(w) \in Tried(w) /\ Tried(w)' = Tried(w)
    BY <2>1 DEF WorkerInv, StagesTried, StageTried, Tried
  <2>3. CASE stage[w] = 1 /\ ~ fast[w]
    <3>1. PICK e \in Errors :
              /\ err' = [err EXCEPT ![w] = e]
              /\ \/ /\ Retryable(e)
                    /\ pc' = [pc EXCEPT ![w] = "incr"] /\ UNCHANGED stage
                 \/ MoveOn(w, e, TRUE)
      BY <1>6, <2>3 DEF CallFails, Errors
    <3>2. err'[w] = e
      BY <3>1 DEF TypeOK
    <3>3. CASE MoveOn(w, e, TRUE)
      BY <2>1, <2>2, <2>3, <3>2, <3>3, StageLeft
    <3>4. CASE pc' = [pc EXCEPT ![w] = "incr"] /\ UNCHANGED stage
      <4>1. pc'[w] = "incr" /\ stage'[w] = 1
        BY <2>3, <3>4 DEF TypeOK
      <4>2. StageTried(w)' /\ StageTried(w)
        BY <2>1, <4>1 DEF StageTried
      <4>3. Positions(w)' /\ CalledOnce(w)'
        BY <2>1, <2>3, <4>1 DEF WorkerInv, Positions, CalledOnce
      <4>4. CallsBehind(w)'
        BY <1>1, <2>1, <2>3, <4>1, <4>2 DEF WorkerInv, CallsBehind
      <4>5. Current(w)' = Current(w)
        BY <1>1, <2>1, <2>3, <4>1 DEF Current
      <4>6. StagesTried(w)'
        BY <2>2, <4>1, <4>5 DEF StagesTried
      <4>7. QED
        BY <4>3, <4>4, <4>6 DEF WorkerInv
    <3>5. QED
      BY <3>1, <3>3, <3>4
  <2>4. CASE ~ (stage[w] = 1 /\ ~ fast[w])
    <3>1. MoveOn(w, err[w], TRUE) /\ err' = err
      BY <1>6, <2>4 DEF CallFails
    <3>2. QED
      BY <2>1, <2>2, <3>1, StageLeft
  <2>5. QED
    BY <2>3, <2>4
<1>7. CASE CountFailure(w)
  <2>1. /\ pc' = [pc EXCEPT ![w] = "cooldown"] /\ pc[w] = "incr"
        /\ UNCHANGED <<engine, fast, stage, err, calls, blocked>>
    BY <1>7 DEF CountFailure
  <2>2. pc'[w] = "cooldown" /\ "cooldown" \in Pc
    BY <2>1 DEF TypeOK, Pc
  <2>3. StageTried(w)' <=> StageTried(w)
    BY <2>1, <2>2 DEF StageTried
  <2>4. QED
    BY <2>1, <2>2, <2>3, StageKept
<1>8. CASE SetCooldown(w)
  <2>1. /\ pc[w] = "cooldown" /\ MoveOn(w, err[w], TRUE)
        /\ UNCHANGED <<engine, fast, err, calls, blocked>>
    BY <1>8 DEF SetCooldown
  <2>2. Current(w) \in Tried(w) /\ Tried(w)' = Tried(w)
    BY <2>1 DEF WorkerInv, StagesTried, StageTried, Tried
  <2>3. QED
    BY <2>1, <2>2, StageLeft
<1>9. CASE CloseBreaker(w) \/ GiveUp(w)
  <2>1. Return(w)
    BY <1>9 DEF CloseBreaker, GiveUp
  <2>2. /\ pc'[w] = "idle" /\ calls'[w] = <<>> /\ stage'[w] = 1
        /\ fast'[w] = FALSE
    BY <2>1 DEF Return, TypeOK
  <2>3. ~ StageTried(w)' /\ DOMAIN calls'[w] = {}
    BY <2>2 DEF StageTried
  <2>4. Positions(w)' /\ CallsBehind(w)' /\ CalledOnce(w)' /\ StagesTried(w)'
    BY <2>2, <2>3 DEF Positions, CallsBehind, CalledOnce, StagesTried
  <2>5. QED
    BY <2>4 DEF WorkerInv
<1>10. QED
  BY <1>2, <1>3, <1>4, <1>5, <1>6, <1>7, <1>8, <1>9 DEF Finishing

\* A worker that takes a page has called nothing for it.
LEMMA StartKeeps ==
    ASSUME TypeOK, NEW w \in Workers, WorkerInv(w), StartPage(w)
    PROVE  WorkerInv(w)'
<1>1. PICK e \in Engines, f \in BOOLEAN :
          /\ fast' = [fast EXCEPT ![w] = f]
          /\ stage' = [stage EXCEPT ![w] =
                          IF f /\ ~ HasModel(<<e, "fast">>) THEN 2 ELSE 1]
  BY DEF StartPage
<1>2. pc'[w] = "gate" /\ calls' = calls /\ calls[w] = <<>>
  BY DEF StartPage, TypeOK, WorkerInv, Positions
<1>3. fast'[w] = f /\ (stage'[w] = 1 \/ (f /\ stage'[w] = 2))
  BY <1>1 DEF TypeOK
<1>4. ~ StageTried(w)' /\ DOMAIN calls'[w] = {}
  BY <1>2 DEF StageTried
<1>5. Positions(w)' /\ CallsBehind(w)' /\ CalledOnce(w)' /\ StagesTried(w)'
  BY <1>2, <1>3, <1>4 DEF Positions, CallsBehind, CalledOnce, StagesTried
<1>6. QED
  BY <1>5 DEF WorkerInv

\* What a worker does leaves the locals of the others alone.
LEMMA OthersKept ==
    ASSUME TypeOK, NEW w \in Workers, StartPage(w) \/ Finishing(w),
           NEW v \in Workers, v # w
    PROVE  /\ pc'[v] = pc[v] /\ engine'[v] = engine[v] /\ fast'[v] = fast[v]
           /\ stage'[v] = stage[v] /\ err'[v] = err[v]
           /\ calls'[v] = calls[v] /\ blocked'[v] = blocked[v]
<1>1. CASE StartPage(w)
  BY <1>1 DEF StartPage, TypeOK
<1>2. CASE BreakerOpen(w) \/ NoSlot(w)
  BY <1>2, MoveOnType DEF BreakerOpen, NoSlot, TypeOK
<1>3. CASE BreakerClosed(w) \/ Allow(w) \/ CallSucceeds(w) \/ CountFailure(w)
  BY <1>3 DEF BreakerClosed, Allow, CallSucceeds, CountFailure, TypeOK
<1>4. CASE CallFails(w)
  <2>1. /\ UNCHANGED <<engine, fast, calls, blocked>>
        /\ err'[v] = err[v]
    BY <1>4 DEF CallFails, TypeOK
  <2>2. \/ pc' = [pc EXCEPT ![w] = "incr"] /\ UNCHANGED stage
        \/ \E e \in Errors \cup {"none"} : MoveOn(w, e, TRUE)
    BY <1>4 DEF CallFails, TypeOK, Errors
  <2>3. pc'[v] = pc[v] /\ stage'[v] = stage[v]
    BY <2>2, MoveOnType DEF TypeOK
  <2>4. QED
    BY <2>1, <2>3
<1>5. CASE SetCooldown(w)
  BY <1>5, MoveOnType DEF SetCooldown, TypeOK
<1>6. CASE CloseBreaker(w) \/ GiveUp(w)
  <2>1. Return(w)
    BY <1>6 DEF CloseBreaker, GiveUp
  <2>2. QED
    BY <2>1 DEF Return, TypeOK
<1>7. QED
  BY <1>1, <1>2, <1>3, <1>4, <1>5, <1>6 DEF Finishing

LEMMA CascadeInit == Init => CascadeInv
<1> SUFFICES ASSUME Init, NEW w \in Workers PROVE WorkerInv(w)
  BY DEF CascadeInv
<1>1. pc[w] = "idle" /\ calls[w] = <<>> /\ stage[w] = 1 /\ fast[w] = FALSE
  BY DEF Init
<1>2. ~ StageTried(w) /\ DOMAIN calls[w] = {}
  BY <1>1 DEF StageTried
<1>3. Positions(w) /\ CallsBehind(w) /\ CalledOnce(w) /\ StagesTried(w)
  BY <1>1, <1>2 DEF Positions, CallsBehind, CalledOnce, StagesTried
<1>4. QED
  BY <1>3 DEF WorkerInv

LEMMA CascadeStep == TypeOK /\ CascadeInv /\ [Next]_vars => CascadeInv'
<1> SUFFICES ASSUME TypeOK, CascadeInv, [Next]_vars, NEW v \in Workers
             PROVE  WorkerInv(v)'
  BY DEF CascadeInv
<1>1. WorkerInv(v)
  BY DEF CascadeInv
<1>2. ASSUME NEW w \in Workers, StartPage(w) \/ Finishing(w)
      PROVE  WorkerInv(v)'
  <2>1. CASE v = w
    BY <1>1, <1>2, <2>1, StartKeeps, FinishingKeeps
  <2>2. CASE v # w
    BY <1>1, <1>2, <2>2, OthersKept, WorkerFrame
  <2>3. QED
    BY <2>1, <2>2
<1>3. ASSUME UNCHANGED <<pc, engine, fast, stage, err, calls, blocked>>
      PROVE  WorkerInv(v)'
  BY <1>1, <1>3, WorkerFrame
<1>4. CASE \E w \in Workers : ContextEnds(w)
  BY <1>3, <1>4 DEF ContextEnds
<1>5. CASE \E m \in Model : CooldownEnds(m)
  BY <1>3, <1>5 DEF CooldownEnds, pageVars
<1>6. CASE UNCHANGED vars
  BY <1>3, <1>6 DEF vars, pageVars
<1>7. QED
  BY <1>2, <1>4, <1>5, <1>6 DEF Next

LEMMA CascadeInvariant == Spec => [](TypeOK /\ CascadeInv)
<1>1. Init => TypeOK /\ CascadeInv
  BY InitType, CascadeInit
<1>2. TypeOK /\ CascadeInv /\ [Next]_vars => CascadeInv'
  BY CascadeStep
<1>3. QED
  BY <1>1, <1>2, TypeCorrect, PTL DEF Spec

\* One attempt at a page calls no model twice, whatever its calls, breakers
\* and slots bring, unless the page's engine is the secondary one anyway.
THEOREM NoModelCalledTwiceHolds == Spec => []NoModelCalledTwice
<1>1. CascadeInv => NoModelCalledTwice
  BY DEF CascadeInv, WorkerInv, CalledOnce, NoModelCalledTwice
<1>2. QED
  BY <1>1, CascadeInvariant, PTL

\* processPage gives a page up only after both engines were asked, or were in
\* cooldown or without a slot.
THEOREM BothEnginesTriedHolds == Spec => []BothEnginesTried
<1>1. TypeOK /\ CascadeInv => BothEnginesTried
  <2> SUFFICES ASSUME TypeOK, CascadeInv, NEW w \in Workers, pc[w] = "gaveUp"
               PROVE  IF fast[w] THEN <<SecondaryEngine, "fast">> \in Tried(w)
                      ELSE /\ {<<engine[w], "primary">>,
                               <<SecondaryEngine, "primary">>} \subseteq Tried(w)
                           /\ Retryable(err[w])
                                 /\ HasModel(<<engine[w], "secondary">>)
                              => <<engine[w], "secondary">> \in Tried(w)
    BY DEF BothEnginesTried
  <2>1. Positions(w) /\ StagesTried(w) /\ stage[w] \in 1..4
    BY DEF CascadeInv, WorkerInv, TypeOK
  <2>2. Current(w) \in Tried(w)
    BY <2>1 DEF StagesTried, StageTried
  <2>3. CASE fast[w]
    <3>1. stage[w] = 2
      BY <2>1, <2>3 DEF Positions
    <3>2. Current(w) = <<SecondaryEngine, "fast">>
      BY <2>3, <3>1 DEF Current, ModelOf
    <3>3. QED
      BY <2>2, <2>3, <3>2
  <2>4. CASE ~ fast[w]
    <3>1. stage[w] = 3 \/ stage[w] = 4
      BY <2>1, <2>4 DEF Positions
    <3>2. /\ ModelOf(w, 1) = <<engine[w], "primary">>
          /\ ModelOf(w, 2) = <<engine[w], "secondary">>
          /\ ModelOf(w, 3) = <<SecondaryEngine, "primary">>
      BY <2>4 DEF ModelOf
    <3>3. ModelOf(w, 3) \in Tried(w)
      BY <2>1, <2>2, <2>4, <3>1 DEF StagesTried, Current
    <3>4. QED
      BY <2>1, <2>4, <3>1, <3>2, <3>3 DEF StagesTried
  <2>5. QED
    BY <2>3, <2>4
<1>2. QED
  BY <1>1, CascadeInvariant, PTL

-----------------------------------------------------------------------------
(* Every step of an attempt leads forward.                                 *)

LEMMA StepsMadeType == \A l : StepsMade(l) \in 1..6
  BY DEF StepsMade

LEMMA PositionAfter ==
    /\ StepsMade("gate") = 1 /\ StepsMade("allow") = 2
    /\ StepsMade("calling") = 3
    /\ StepsMade("incr") = 4 /\ StepsMade("close") = 4
    /\ StepsMade("cooldown") = 5 /\ StepsMade("gaveUp") = 6
  BY DEF StepsMade

\* Leaving a stage raises the rank: the next stage is a later one, and giving
\* up is the last step of its stage.
LEMMA MoveOnAdvances ==
    ASSUME TypeOK, NEW w \in Workers, NEW e, NEW b, MoveOn(w, e, b),
           pc[w] \in Pc \ {"idle", "gaveUp"}
    PROVE  Rank(w)' > Rank(w)
<1> DEFINE n == After(w, stage[w], e, b)
<1>1. stage[w] \in 1..4
  BY DEF TypeOK
<1>2. n # 0 => n \in 2..4 /\ n > stage[w]
  BY <1>1, AfterForward
<1>3. /\ pc'[w] = IF n = 0 THEN "gaveUp" ELSE "gate"
      /\ stage'[w] = IF n = 0 THEN stage[w] ELSE n
  BY DEF MoveOn, TypeOK
<1> HIDE DEF n
<1>4. StepsMade(pc[w]) \in 1..5
  BY DEF StepsMade, Pc
<1>5. CASE n = 0
  <2>1. Rank(w)' = 6 * stage[w] + 6
    BY <1>3, <1>5, PositionAfter DEF Rank
  <2>2. QED
    BY <1>1, <1>4, <2>1 DEF Rank
<1>6. CASE n # 0
  <2>1. Rank(w)' = 6 * n + 1
    BY <1>3, <1>6, PositionAfter DEF Rank
  <2>2. QED
    BY <1>1, <1>2, <1>4, <1>6, <2>1 DEF Rank
<1>7. QED
  BY <1>5, <1>6

LEMMA FinishingAdvances ==
    ASSUME TypeOK, NEW w \in Workers, Finishing(w)
    PROVE  pc'[w] = "idle" \/ Rank(w)' > Rank(w)
<1>1. stage[w] \in 1..4
  BY DEF TypeOK
<1>2. ASSUME NEW l, pc' = [pc EXCEPT ![w] = l], stage' = stage,
             StepsMade(l) > StepsMade(pc[w])
      PROVE  Rank(w)' > Rank(w)
  <2>1. pc'[w] = l
    BY <1>2 DEF TypeOK
  <2>2. StepsMade(l) \in 1..6 /\ StepsMade(pc[w]) \in 1..6
    BY StepsMadeType
  <2>3. QED
    BY <1>1, <1>2, <2>1, <2>2 DEF Rank
<1>3. CASE BreakerOpen(w) \/ NoSlot(w) \/ SetCooldown(w)
  <2>1. /\ \E b \in BOOLEAN : MoveOn(w, err[w], b)
        /\ pc[w] \in {"gate", "allow", "cooldown"}
    BY <1>3 DEF BreakerOpen, NoSlot, SetCooldown
  <2>2. QED
    BY <2>1, MoveOnAdvances DEF Pc
<1>4. CASE BreakerClosed(w)
  <2>1. /\ pc[w] = "gate" /\ stage' = stage
        /\ pc' = [pc EXCEPT ![w] = "allow"]
    BY <1>4 DEF BreakerClosed
  <2>2. StepsMade("allow") > StepsMade(pc[w])
    BY <2>1, PositionAfter
  <2>3. QED
    BY <1>2, <2>1, <2>2
<1>5. CASE Allow(w)
  <2>1. /\ pc[w] = "allow" /\ stage' = stage
        /\ pc' = [pc EXCEPT ![w] = "calling"]
    BY <1>5 DEF Allow
  <2>2. StepsMade("calling") > StepsMade(pc[w])
    BY <2>1, PositionAfter
  <2>3. QED
    BY <1>2, <2>1, <2>2
<1>6. CASE CallSucceeds(w)
  <2>1. /\ pc[w] = "calling" /\ stage' = stage
        /\ pc' = [pc EXCEPT ![w] = "close"]
    BY <1>6 DEF CallSucceeds
  <2>2. StepsMade("close") > StepsMade(pc[w])
    BY <2>1, PositionAfter
  <2>3. QED
    BY <1>2, <2>1, <2>2
<1>7. CASE CallFails(w)
  <2>1. pc[w] = "calling"
    BY <1>7 DEF CallFails
  <2>2. \/ pc' = [pc EXCEPT ![w] = "incr"] /\ stage' = stage
        \/ \E e \in Errors \cup {"none"} : MoveOn(w, e, TRUE)
    BY <1>7 DEF CallFails, TypeOK, Errors
  <2>3. CASE pc' = [pc EXCEPT ![w] = "incr"] /\ stage' = stage
    <3>1. StepsMade("incr") > StepsMade(pc[w])
      BY <2>1, PositionAfter
    <3>2. QED
      BY <1>2, <2>3, <3>1
  <2>4. CASE \E e \in Errors \cup {"none"} : MoveOn(w, e, TRUE)
    BY <2>1, <2>4, MoveOnAdvances DEF Pc
  <2>5. QED
    BY <2>2, <2>3, <2>4
<1>8. CASE CountFailure(w)
  <2>1. /\ pc[w] = "incr" /\ stage' = stage
        /\ pc' = [pc EXCEPT ![w] = "cooldown"]
    BY <1>8 DEF CountFailure
  <2>2. StepsMade("cooldown") > StepsMade(pc[w])
    BY <2>1, PositionAfter
  <2>3. QED
    BY <1>2, <2>1, <2>2
<1>9. CASE CloseBreaker(w) \/ GiveUp(w)
  <2>1. Return(w)
    BY <1>9 DEF CloseBreaker, GiveUp
  <2>2. pc'[w] = "idle"
    BY <2>1 DEF Return, TypeOK
  <2>3. QED
    BY <2>2
<1>10. QED
  BY <1>3, <1>4, <1>5, <1>6, <1>7, <1>8, <1>9 DEF Finishing

LEMMA OthersCountKept ==
    ASSUME TypeOK, NEW w \in Workers, StartPage(w) \/ Finishing(w),
           NEW v \in Workers, v # w
    PROVE  count'[v] = count[v]
  BY DEF TypeOK, StartPage, Finishing, BreakerOpen, BreakerClosed, Allow, NoSlot,
         CallSucceeds, CallFails, CountFailure, SetCooldown, CloseBreaker,
         GiveUp, Return

\* Whatever happens, a step of an attempt leads forward or returns, and no
\* other actor touches the attempt: it is over after at most four calls.
THEOREM CascadeAdvancesHolds == Spec => CascadeAdvances
<1>1. ASSUME TypeOK, [Next]_vars, NEW v \in Workers, pc[v] # "idle",
             <<pc[v], stage[v], err[v], count[v], calls[v], blocked[v]>>'
                # <<pc[v], stage[v], err[v], count[v], calls[v], blocked[v]>>
      PROVE  pc'[v] = "idle" \/ Rank(v)' > Rank(v)
  <2>1. ASSUME NEW w \in Workers, StartPage(w) \/ Finishing(w)
        PROVE  pc'[v] = "idle" \/ Rank(v)' > Rank(v)
    <3>1. v = w
      BY <1>1, <2>1, OthersKept, OthersCountKept
    <3>2. Finishing(v)
      BY <1>1, <2>1, <3>1 DEF StartPage
    <3>3. QED
      BY <1>1, <3>2, FinishingAdvances
  <2>2. ASSUME UNCHANGED <<pc, stage, err, count, calls, blocked>>
        PROVE  FALSE
    BY <1>1, <2>2
  <2>3. CASE \E w \in Workers : ContextEnds(w)
    BY <2>2, <2>3 DEF ContextEnds
  <2>4. CASE \E m \in Model : CooldownEnds(m)
    BY <2>2, <2>4 DEF CooldownEnds, pageVars
  <2>5. CASE UNCHANGED vars
    BY <2>2, <2>5 DEF vars, pageVars
  <2>6. QED
    BY <1>1, <2>1, <2>3, <2>4, <2>5 DEF Next
<1>2. TypeOK /\ [Next]_vars =>
         [\A w \in Workers :
            /\ pc[w] # "idle"
            /\ <<pc[w], stage[w], err[w], count[w], calls[w], blocked[w]>>'
                  # <<pc[w], stage[w], err[w], count[w], calls[w], blocked[w]>>
            => pc'[w] = "idle" \/ Rank(w)' > Rank(w)]_vars
  BY <1>1
<1>3. QED
  BY <1>2, TypeCorrect, PTL DEF Spec, CascadeAdvances
=============================================================================
