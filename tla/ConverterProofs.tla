-------------------------- MODULE ConverterProofs --------------------------
(***************************************************************************)
(* For any set of calls and any number of places: the semaphore is exact,  *)
(* and a conversion that reports success never names half an output.       *)
(***************************************************************************)
EXTENDS Converter, FiniteSetTheorems, TLAPS

Before == {"idle", "acquire", "validate", "check", "prepare"}

\* What holds of one call: no office process before it is started; an exit
\* code 0 comes from a process that is gone and left no half of an output;
\* only such an exit leads to the output, and only a return to an outcome; no
\* office process outlives a success.
CallInv(c) ==
    /\ step[c] \in Before => office[c] = "none" /\ exit[c] = "none"
    /\ exit[c] = "ok" => office[c] = "gone" /\ output[c] # "partial"
    /\ step[c] = "collect" => exit[c] = "ok"
    /\ step[c] # "returned" => outcome[c] = "none"
    /\ outcome[c] \in Names => office[c] = "gone"
    /\ step[c] = "returned" /\ outcome[c] \in Names
          => output[c] \in {outcome[c], "removed", "input"}

CallsInv == \A c \in Calls : CallInv(c)

ConvInv == ConvTypeOK /\ SlotsMatchHolders /\ CallsInv

-----------------------------------------------------------------------------
(* The places.                                                             *)

LEMMA HoldersAreFinite == IsFiniteSet(Holders)
<1>1. Holders \subseteq Calls
  BY DEF Holders
<1> QED
  BY <1>1, CallsAssumption, FS_Subset

\* What a step does to the places when the same calls hold them.
LEMMA PlacesKept ==
    ASSUME ConvTypeOK, SlotsMatchHolders, inUse' = inUse, Holders' = Holders
    PROVE  SlotsMatchHolders' /\ inUse' \in 0..MaxWorkers
  BY DEF ConvTypeOK, SlotsMatchHolders

\* A call moves on without entering or leaving the holders.
LEMMA MoveKeepsHolders ==
    ASSUME ConvTypeOK, NEW c \in Calls, NEW s \in Steps, Goto(c, s),
           Holding(c) <=> s \in {"validate", "check", "prepare", "wait", "collect"}
    PROVE  Holders' = Holders
<1>1. ASSUME NEW d \in Calls PROVE Holding(d)' <=> Holding(d)
  <2>1. CASE d = c
    BY <2>1 DEF ConvTypeOK, Goto, Holding
  <2>2. CASE d # c
    BY <2>2 DEF ConvTypeOK, Goto, Holding
  <2> QED
    BY <2>1, <2>2
<1> QED
  BY <1>1 DEF Holders

\* The place of a call that returns is free again.
LEMMA PlaceGivenBack ==
    ASSUME ConvTypeOK, SlotsMatchHolders, NEW c \in Calls, NEW o, Holding(c),
           ReturnWith(c, o)
    PROVE  SlotsMatchHolders' /\ inUse' \in 0..MaxWorkers
<1>1. Holders' = Holders \ {c}
  <2>1. ~ Holding(c)'
    BY DEF ConvTypeOK, ReturnWith, Goto, Holding
  <2>2. ASSUME NEW d \in Calls, d # c PROVE Holding(d)' <=> Holding(d)
    BY <2>2 DEF ConvTypeOK, ReturnWith, Goto, Holding
  <2> QED
    BY <2>1, <2>2 DEF Holders
<1>2. c \in Holders
  BY DEF Holders
<1>3. Cardinality(Holders') = Cardinality(Holders) - 1
  BY <1>1, <1>2, HoldersAreFinite, FS_RemoveElement
<1>4. Cardinality(Holders) \in Nat /\ Cardinality(Holders) # 0
  BY <1>2, HoldersAreFinite, FS_CardinalityType, FS_EmptySet
<1> QED
  BY <1>3, <1>4, MaxWorkersAssumption
     DEF SlotsMatchHolders, ConvTypeOK, ReturnWith

LEMMA PlaceTaken ==
    ASSUME ConvTypeOK, SlotsMatchHolders, NEW c \in Calls, Acquire(c)
    PROVE  SlotsMatchHolders' /\ inUse' \in 0..MaxWorkers
<1>1. Holders' = Holders \cup {c}
  <2>1. Holding(c)'
    BY DEF ConvTypeOK, Acquire, Goto, Holding
  <2>2. ASSUME NEW d \in Calls, d # c PROVE Holding(d)' <=> Holding(d)
    BY <2>2 DEF ConvTypeOK, Acquire, Goto, Holding
  <2> QED
    BY <2>1, <2>2 DEF Holders
<1>2. c \notin Holders
  BY DEF Holders, Holding, Acquire
<1>3. Cardinality(Holders') = Cardinality(Holders) + 1
  BY <1>1, <1>2, HoldersAreFinite, FS_AddElement
<1> QED
  BY <1>3, MaxWorkersAssumption DEF SlotsMatchHolders, ConvTypeOK, Acquire

-----------------------------------------------------------------------------
(* The calls.                                                              *)

\* A step of one call leaves what holds of the others alone.
LEMMA OthersUnmoved ==
    ASSUME CallsInv, NEW c \in Calls, CallInv(c)',
           \A d \in Calls \ {c} :
               /\ step'[d] = step[d] /\ outcome'[d] = outcome[d]
               /\ office'[d] = office[d] /\ exit'[d] = exit[d]
               /\ output'[d] = output[d]
    PROVE  CallsInv'
  BY DEF CallsInv, CallInv

LEMMA InvokeKeeps ==
    ASSUME ConvInv, NEW c \in Calls, NEW there \in {"absent", "input"},
           Invoke(c, there)
    PROVE  ConvInv'
<1> USE DEF ConvInv, Invoke, Goto
<1>1. Holders' = Holders
  <2>1. "acquire" \in Steps
    BY DEF Steps
  <2> QED
    BY <2>1, MoveKeepsHolders DEF Holding
<1>2. SlotsMatchHolders' /\ inUse' \in 0..MaxWorkers
  BY <1>1, PlacesKept
<1>3. ConvTypeOK'
  BY <1>2 DEF ConvTypeOK, Steps
<1>4. CallsInv'
  <2>1. CallInv(c)'
    BY DEF ConvTypeOK, CallsInv, CallInv, Before
  <2> QED
    BY <2>1, OthersUnmoved DEF ConvTypeOK
<1> QED
  BY <1>2, <1>3, <1>4

\* The steps of a call that keep its place.
Onward(c) ==
    \/ InputValid(c) \/ CheckPasses(c) \/ StartOffice(c)
    \/ /\ step[c] = "wait" /\ exit[c] = "ok" /\ Goto(c, "collect")
       /\ UNCHANGED <<inUse, outcome, office, exit, output, serving>>

LEMMA OnwardKeeps ==
    ASSUME ConvInv, NEW c \in Calls, Onward(c)
    PROVE  ConvInv'
<1> USE DEF ConvInv
<1>1. /\ inUse' = inUse
      /\ Holding(c)
      /\ \E s \in {"check", "prepare", "wait", "collect"} : Goto(c, s)
  BY DEF Onward, InputValid, CheckPasses, StartOffice, Holding
<1>2. PICK s \in {"check", "prepare", "wait", "collect"} : Goto(c, s)
  BY <1>1
<1>3. s \in Steps
  BY DEF Steps
<1>4. Holders' = Holders
  BY <1>1, <1>2, <1>3, MoveKeepsHolders
<1>5. SlotsMatchHolders' /\ inUse' \in 0..MaxWorkers
  BY <1>1, <1>4, PlacesKept
<1>6. ConvTypeOK'
  BY <1>5 DEF ConvTypeOK, Steps, Onward, InputValid, CheckPasses, StartOffice, Goto
<1>7. CallsInv'
  <2>1. CallInv(c)'
    BY DEF ConvTypeOK, CallsInv, CallInv, Before, Onward, InputValid,
           CheckPasses, StartOffice, Goto
  <2> QED
    BY <2>1, OthersUnmoved
       DEF ConvTypeOK, Onward, InputValid, CheckPasses, StartOffice, Goto
<1> QED
  BY <1>5, <1>6, <1>7

\* The steps of a call that return; what they leave in outcome and output.
Leaving(c) ==
    \/ InputInvalid(c) \/ CheckFindsPassword(c) \/ PreparationFails(c)
    \/ Timeout(c) \/ Collect(c)
    \/ /\ step[c] = "wait" /\ exit[c] = "error" /\ ReturnWith(c, "failed")
       /\ UNCHANGED <<office, exit, output, serving>>

LEMMA LeavingKeeps ==
    ASSUME ConvInv, NEW c \in Calls, Leaving(c)
    PROVE  ConvInv'
<1> USE DEF ConvInv
<1>1. Holding(c) /\ \E o \in Outcomes : ReturnWith(c, o)
  <2>1. CASE Collect(c)
    BY <2>1 DEF Collect, Holding, Outcomes
  <2>2. CASE ~ Collect(c)
    BY <2>2 DEF Leaving, InputInvalid, CheckFindsPassword, PreparationFails,
                Timeout, Holding, Outcomes
  <2> QED
    BY <2>1, <2>2
<1>2. PICK o \in Outcomes : ReturnWith(c, o)
  BY <1>1
<1>3. SlotsMatchHolders' /\ inUse' \in 0..MaxWorkers
  BY <1>1, <1>2, PlaceGivenBack
<1>4. /\ step' = [step EXCEPT ![c] = "returned"]
      /\ outcome' = [outcome EXCEPT ![c] = o]
  BY <1>2 DEF ReturnWith, Goto
<1>5. CASE Collect(c)
  <2>1. exit[c] = "ok" /\ output[c] # "partial" /\ office[c] = "gone"
    BY <1>5 DEF Collect, CallsInv, CallInv
  <2>2. /\ UNCHANGED <<office, exit, serving>>
        /\ output' \in [Calls -> {"absent", "input", "partial", "removed"}
                                    \cup Names]
        /\ output'[c] # "partial"
        /\ outcome'[c] \in Names => output'[c] \in {outcome'[c], "input"}
        /\ \A d \in Calls \ {c} : output'[d] = output[d]
    <3>1. CASE output[c] = "absent"
      BY <1>5, <3>1 DEF Collect, ConvTypeOK, ReturnWith, Names
    <3>2. CASE output[c] # "absent"
      <4>1. PICK name \in Names :
               /\ output' = [output EXCEPT ![c] =
                                IF @ \in {"partial", "input"} THEN @ ELSE name]
               /\ ReturnWith(c, name)
        BY <1>5, <3>2 DEF Collect
      <4>2. \/ output' = [output EXCEPT ![c] = name]
            \/ output' = output /\ output[c] = "input"
        BY <2>1, <4>1 DEF ConvTypeOK
      <4> QED
        BY <1>5, <4>1, <4>2 DEF Collect, ConvTypeOK, ReturnWith, Names
    <3> QED
      BY <3>1, <3>2
  <2>3. ConvTypeOK'
    BY <1>3, <1>4, <2>2 DEF ConvTypeOK, Steps
  <2>4. CallInv(c)'
    BY <1>4, <2>1, <2>2 DEF ConvTypeOK, CallInv, Before
  <2>5. CallsInv'
    BY <1>4, <2>2, <2>4, OthersUnmoved DEF ConvTypeOK
  <2> QED
    BY <1>3, <2>3, <2>5
<1>6. CASE ~ Collect(c)
  <2>1. /\ UNCHANGED <<exit, output, serving>>
        /\ outcome'[c] \notin Names
        /\ \/ office' = office
           \/ /\ step[c] = "wait"
              /\ office' = [office EXCEPT
                               ![c] = IF @ = "running" THEN "orphan" ELSE @]
    BY <1>6 DEF Leaving, InputInvalid, CheckFindsPassword, PreparationFails,
                Timeout, ReturnWith, ConvTypeOK, Names
  <2>2. ConvTypeOK'
    BY <1>3, <1>4, <2>1 DEF ConvTypeOK, Steps
  <2>3. CallInv(c)'
    BY <1>4, <2>1 DEF ConvTypeOK, CallsInv, CallInv, Before
  <2>4. CallsInv'
    BY <1>4, <2>1, <2>3, OthersUnmoved DEF ConvTypeOK
  <2> QED
    BY <1>3, <2>2, <2>4
<1> QED
  BY <1>5, <1>6

LEMMA AcquireKeeps ==
    ASSUME ConvInv, NEW c \in Calls, Acquire(c)
    PROVE  ConvInv'
<1> USE DEF ConvInv
<1>1. SlotsMatchHolders' /\ inUse' \in 0..MaxWorkers
  BY PlaceTaken
<1>2. ConvTypeOK'
  BY <1>1 DEF ConvTypeOK, Steps, Acquire, Goto
<1>3. CallInv(c)'
  BY DEF ConvTypeOK, CallsInv, CallInv, Before, Acquire, Goto
<1>4. CallsInv'
  BY <1>3, OthersUnmoved DEF ConvTypeOK, Acquire, Goto
<1> QED
  BY <1>1, <1>2, <1>4

LEMMA CallStepKeeps ==
    ASSUME ConvInv, NEW c \in Calls, CallStep(c)
    PROVE  ConvInv'
<1>1. Acquire(c) \/ Onward(c) \/ Leaving(c)
  BY DEF CallStep, Onward, Leaving, TakeExit
<1> QED
  BY <1>1, AcquireKeeps, OnwardKeeps, LeavingKeeps

-----------------------------------------------------------------------------
(* The office processes, the caller's removal, and the two ends.           *)

\* A step that moves no call keeps the places.
LEMMA PlacesKeptByOthers ==
    ASSUME ConvTypeOK, SlotsMatchHolders, UNCHANGED <<step, inUse>>
    PROVE  SlotsMatchHolders' /\ inUse' \in 0..MaxWorkers
<1>1. Holders' = Holders
  BY DEF Holders, Holding
<1> QED
  BY <1>1, PlacesKept

LEMMA OfficeStepKeeps ==
    ASSUME ConvInv, NEW c \in Calls, OfficeStep(c)
    PROVE  ConvInv'
<1> USE DEF ConvInv
<1>1. UNCHANGED <<step, inUse, outcome, serving>>
  BY DEF OfficeStep, OfficeWrites, OfficeExits
<1>2. SlotsMatchHolders' /\ inUse' \in 0..MaxWorkers
  BY <1>1, PlacesKeptByOthers
<1>3. ConvTypeOK'
  BY <1>1, <1>2 DEF ConvTypeOK, OfficeStep, OfficeWrites, OfficeExits, Names
<1>4. CallInv(c)'
  <2>1. CASE OfficeWrites(c)
    <3>1. /\ office[c] # "none" /\ office[c] # "gone" /\ UNCHANGED <<office, exit>>
          /\ output[c] \in {"absent", "input", "partial"}
      BY <2>1 DEF OfficeWrites, OfficeLives
    <3>2. CallInv(c)
      BY DEF CallsInv
    <3>3. outcome[c] \notin Names
      BY <3>1, <3>2 DEF CallInv
    <3>4. QED
      BY <1>1, <3>1, <3>2, <3>3 DEF CallInv
  <2>2. CASE OfficeExits(c)
    BY <1>1, <2>2
       DEF ConvTypeOK, CallsInv, CallInv, OfficeExits, OfficeLives, Before
  <2> QED
    BY <2>1, <2>2 DEF OfficeStep
<1>5. CallsInv'
  BY <1>1, <1>4, OthersUnmoved
     DEF ConvTypeOK, OfficeStep, OfficeWrites, OfficeExits
<1> QED
  BY <1>2, <1>3, <1>5

LEMMA RemoveOutputKeeps ==
    ASSUME ConvInv, NEW c \in Calls, RemoveOutput(c)
    PROVE  ConvInv'
<1> USE DEF ConvInv, RemoveOutput
<1>1. SlotsMatchHolders' /\ inUse' \in 0..MaxWorkers
  BY PlacesKeptByOthers
<1>2. ConvTypeOK'
  BY <1>1 DEF ConvTypeOK
<1>3. CallInv(c)'
  BY DEF ConvTypeOK, CallsInv, CallInv, Before
<1>4. CallsInv'
  BY <1>3, OthersUnmoved DEF ConvTypeOK
<1> QED
  BY <1>1, <1>2, <1>4

LEMMA RemoveInputKeeps ==
    ASSUME ConvInv, NEW c \in Calls, RemoveInput(c)
    PROVE  ConvInv'
<1> USE DEF ConvInv, RemoveInput
<1>1. SlotsMatchHolders' /\ inUse' \in 0..MaxWorkers
  BY PlacesKeptByOthers
<1>2. ConvTypeOK'
  BY <1>1 DEF ConvTypeOK
<1>3. CallInv(c)'
  BY DEF ConvTypeOK, CallsInv, CallInv, Before
<1>4. CallsInv'
  BY <1>3, OthersUnmoved DEF ConvTypeOK
<1> QED
  BY <1>1, <1>2, <1>4

LEMMA ShutdownKeeps ==
    ASSUME ConvInv, Shutdown
    PROVE  ConvInv'
<1> USE DEF ConvInv, Shutdown
<1>1. SlotsMatchHolders' /\ inUse' \in 0..MaxWorkers
  BY PlacesKeptByOthers
<1>2. ConvTypeOK'
  BY <1>1 DEF ConvTypeOK, OfficeLives
<1>3. ASSUME NEW c \in Calls PROVE CallInv(c)'
  BY DEF ConvTypeOK, CallsInv, CallInv, OfficeLives, Before
<1> QED
  BY <1>1, <1>2, <1>3 DEF CallsInv

LEMMA ServiceDiesKeeps ==
    ASSUME ConvInv, ServiceDies
    PROVE  ConvInv'
<1> USE DEF ConvInv, ServiceDies
<1>1. Holders' = {}
  BY DEF Holders, Holding
<1>2. SlotsMatchHolders' /\ inUse' \in 0..MaxWorkers
  BY <1>1, FS_EmptySet, MaxWorkersAssumption DEF SlotsMatchHolders
<1>3. ConvTypeOK'
  BY <1>2 DEF ConvTypeOK, Steps
<1>4. ASSUME NEW c \in Calls PROVE CallInv(c)'
  BY DEF ConvTypeOK, CallsInv, CallInv, Before
<1> QED
  BY <1>2, <1>3, <1>4 DEF CallsInv

-----------------------------------------------------------------------------
(* The theorems.                                                           *)

LEMMA ConvInvInit ==
    ASSUME ConvInit PROVE ConvInv
<1>1. ConvTypeOK
  BY MaxWorkersAssumption DEF ConvInit, ConvTypeOK, Steps, Outcomes
<1>2. Holders = {}
  BY DEF Holders, Holding, ConvInit
<1>3. SlotsMatchHolders
  BY <1>2, FS_EmptySet DEF SlotsMatchHolders, ConvInit
<1>4. CallsInv
  BY DEF CallsInv, CallInv, ConvInit, Names
<1> QED
  BY <1>1, <1>3, <1>4 DEF ConvInv

LEMMA ConvInvStep ==
    ASSUME ConvInv, [ConvNext]_convVars
    PROVE  ConvInv'
<1>1. CASE UNCHANGED convVars
  BY <1>1, PlacesKeptByOthers
     DEF ConvInv, ConvTypeOK, CallsInv, CallInv, convVars, callVars
<1>2. CASE ConvNext
  BY <1>2, InvokeKeeps, CallStepKeeps, RemoveOutputKeeps, RemoveInputKeeps,
     OfficeStepKeeps, ShutdownKeeps, ServiceDiesKeeps DEF ConvNext
<1> QED
  BY <1>1, <1>2

\* Every behaviour of the converter keeps its types and its inductive
\* invariant, for any calls and any LIBREOFFICE_MAX_WORKERS.
THEOREM ConverterInvariant == ConvSpec => []ConvInv
<1>1. ConvInit => ConvInv
  BY ConvInvInit
<1>2. ConvInv /\ [ConvNext]_convVars => ConvInv'
  BY ConvInvStep
<1> QED
  BY <1>1, <1>2, PTL DEF ConvSpec

\* The places in use are those of the calls that hold one: no way out of
\* ConvertToPDF loses a place or gives one back twice.
THEOREM ConverterSlots == ConvSpec => []SlotsMatchHolders
<1>1. ConvInv => SlotsMatchHolders
  BY DEF ConvInv
<1> QED
  BY <1>1, ConverterInvariant, PTL

\* A conversion that reports success names a complete output of its document,
\* or the document itself if that lies where the output goes; never half an
\* output, and never one that is missing.
THEOREM ConverterSuccess == ConvSpec => []SuccessNamesOutput
<1>1. ConvInv => SuccessNamesOutput
  BY DEF ConvInv, CallsInv, CallInv, SuccessNamesOutput
<1> QED
  BY <1>1, ConverterInvariant, PTL
=============================================================================
