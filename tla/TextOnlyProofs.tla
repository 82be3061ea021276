--------------------------- MODULE TextOnlyProofs ---------------------------
(***************************************************************************)
(* For documents of any length and any number of conversions elsewhere:    *)
(* the goroutine uses the converter as its specification allows, its text  *)
(* is whole when the job shows success, its document stays while it is     *)
(* read, and an API job leaves no file behind.                             *)
(***************************************************************************)
EXTENDS TextOnly, ConverterProofs

Early == {"start", "download", "detect", "convert", "count"}
Reading == {"count", "extract", "store", "succeed"}

TaskTypeOK ==
    /\ origin \in {"upload", "s3"}
    /\ file \in Files
    /\ status \in StatusHash
    /\ pc \in {"start", "download", "detect", "convert", "count", "extract",
               "store", "succeed"} \cup Over
    /\ total \in 0..MaxPages
    /\ page \in 0..total
    /\ result \in {{}} \cup {1..n : n \in 0..MaxPages}
    /\ temps \subseteq {"s3download", "pdfdl"}
    /\ cpc \in {"none", "get", "set", "finished"}
    /\ csnap \in StatusHash
    /\ lost \in BOOLEAN

\* The text and the status.
TextInv ==
    /\ status.state = "success" => result = 1..total /\ pc = "returned"
    /\ pc \in Early => page = 0
    /\ pc = "store" => page = total
    /\ pc = "succeed" => result = 1..total
    /\ csnap.state # "success"

\* The document, its conversion and their files.
FileInv ==
    /\ pc \in {"download", "detect", "convert"} => origin = "s3"
    /\ origin = "s3" /\ pc \in {"detect", "convert"} \cup Reading =>
          IF outcome[Mine] \in Names
             THEN output[Mine] \in {outcome[Mine], "input"}
             ELSE "s3download" \in temps
    /\ pc \in {"start", "download", "detect"} => step[Mine] = "idle"
    /\ origin = "upload" /\ pc # "died" => step[Mine] = "idle"
    /\ pc = "convert" => RequiresConversion(Detect(file))
    /\ origin = "s3" /\ pc \in Reading =>
          \/ /\ step[Mine] = "returned" /\ outcome[Mine] \in Names
             /\ RequiresConversion(Detect(file))
          \/ step[Mine] = "idle" /\ Detect(file) \in {"pdf"} \cup TextTypes
    /\ pc \notin Over => output[Mine] # "removed"
    /\ pc = "returned" =>
          /\ "s3download" \notin temps
          /\ step[Mine] \in {"idle", "returned"}
          /\ outcome[Mine] \in Names => output[Mine] = "removed"

TaskInv == ConvInv /\ TaskTypeOK /\ TextInv /\ FileInv

-----------------------------------------------------------------------------
(* The converter under the goroutine.                                      *)

\* Whatever a step of the composition does to the converter, the converter's
\* own specification allows.
LEMMA StepOfConverter ==
    ASSUME [Next]_vars
    PROVE  [ConvNext]_convVars
<1> USE MineAssumption, PlacementsAssumption
<1>1. CASE UNCHANGED vars
  BY <1>1 DEF vars
<1>2. CASE Task
  BY <1>2 DEF Task, Begin, Download, DetectReadable, DetectOffice, Convert,
              CountPages, ExtractPage, FinishExtraction, StoreResult, Succeed,
              FailEarly, FailToStore, GiveUp, Return, ConvNext
<1>3. CASE Elsewhere
  BY <1>3 DEF Elsewhere, Beside, ConvNext
<1>4. CASE StrayDownload \/ Cleanup \/ CancelRequested \/ GetForCancel
           \/ SetForCancel
  BY <1>4 DEF StrayDownload, Cleanup, CancelRequested, GetForCancel, SetForCancel
<1>5. CASE Crash
  BY <1>5 DEF Crash, ConvNext
<1> QED
  BY <1>1, <1>2, <1>3, <1>4, <1>5 DEF Next

\* A call of one's own that has not begun or has returned is not moved by what
\* goes on beside it, and neither is the output it named.
LEMMA BesideKeepsMine ==
    ASSUME ConvInv, Beside(Mine), step[Mine] \in {"idle", "returned"}
    PROVE  /\ step'[Mine] = step[Mine] /\ outcome'[Mine] = outcome[Mine]
           /\ outcome[Mine] \in Names => output'[Mine] = output[Mine]
<1> USE MineAssumption DEF ConvInv, ConvTypeOK
<1>1. CASE \E c \in Calls \ {Mine}, there \in Placements : Invoke(c, there)
  BY <1>1 DEF Invoke, Goto
<1>2. CASE Shutdown
  BY <1>2 DEF Shutdown
<1>3. ASSUME NEW c \in Calls, OfficeStep(c)
      PROVE  /\ UNCHANGED <<step, outcome>>
             /\ outcome[Mine] \in Names => output'[Mine] = output[Mine]
  <2>1. UNCHANGED <<step, outcome>>
    BY <1>3 DEF OfficeStep, OfficeWrites, OfficeExits
  <2>2. outcome[Mine] \in Names => ~ OfficeLives(Mine)
    BY DEF CallsInv, CallInv, OfficeLives
  <2>3. c # Mine => output'[Mine] = output[Mine]
    BY <1>3 DEF OfficeStep, OfficeWrites, OfficeExits
  <2>4. OfficeLives(c)
    BY <1>3 DEF OfficeStep, OfficeWrites, OfficeExits
  <2> QED
    BY <2>1, <2>2, <2>3, <2>4
<1>4. ASSUME NEW c \in Calls, CallStep(c)
      PROVE  /\ step'[Mine] = step[Mine] /\ outcome'[Mine] = outcome[Mine]
             /\ output'[Mine] = output[Mine]
  <2>1. c # Mine
    BY <1>4 DEF CallStep, Acquire, InputInvalid, InputValid, CheckPasses,
                CheckFindsPassword, PreparationFails, StartOffice, TakeExit,
                Timeout, Collect
  <2>2. /\ \E s \in Steps : step' = [step EXCEPT ![c] = s]
        /\ outcome' = outcome \/ \E o \in Outcomes : outcome' = [outcome EXCEPT ![c] = o]
        /\ \A d \in Calls \ {c} : output'[d] = output[d]
    <3>1. CASE Collect(c)
      BY <3>1 DEF Collect, ReturnWith, Goto, Names, Outcomes, Steps
    <3>2. CASE ~ Collect(c)
      BY <1>4, <3>2 DEF CallStep, Acquire, InputInvalid, InputValid, CheckPasses,
                CheckFindsPassword, PreparationFails, StartOffice, TakeExit,
                Timeout, ReturnWith, Goto, Outcomes, Steps
    <3> QED
      BY <3>1, <3>2
  <2> QED
    BY <2>1, <2>2
<1> QED
  BY <1>1, <1>2, <1>3, <1>4 DEF Beside, Invoke, Shutdown

\* A call that has not begun has no outcome.
LEMMA IdleHasNoOutcome ==
    ASSUME ConvInv, step[Mine] = "idle"
    PROVE  outcome[Mine] \notin Names
<1>1. CallInv(Mine)
  BY MineAssumption DEF ConvInv, CallsInv
<1> QED
  BY <1>1 DEF CallInv, Names

\* Nothing beside it removes the output of one's own call.
LEMMA BesideRemovesNothing ==
    ASSUME ConvInv, Beside(Mine), output[Mine] # "removed"
    PROVE  output'[Mine] # "removed"
<1> USE MineAssumption DEF ConvInv, ConvTypeOK
<1>1. CASE output' = output
  BY <1>1
<1>2. ASSUME NEW c \in Calls, Collect(c) PROVE output'[Mine] # "removed"
  BY <1>2 DEF Collect, Names
<1>3. ASSUME NEW c \in Calls, OfficeWrites(c) PROVE output'[Mine] # "removed"
  BY <1>3 DEF OfficeWrites
<1>4. ASSUME NEW c \in Calls, CallStep(c), ~ Collect(c) PROVE output' = output
  BY <1>4 DEF CallStep, Acquire, InputInvalid, InputValid, CheckPasses,
              CheckFindsPassword, PreparationFails, StartOffice, TakeExit, Timeout
<1>5. ASSUME NEW c \in Calls, OfficeExits(c) PROVE output' = output
  BY <1>5 DEF OfficeExits
<1> QED
  BY <1>1, <1>2, <1>3, <1>4, <1>5, PlacementsAssumption
     DEF Beside, Invoke, Shutdown, OfficeStep

\* A status write leaves the old status or the one it was to write.
LEMMA StatusWritten ==
    ASSUME NEW st \in StatusHash, SetStatus(st), TaskTypeOK
    PROVE  /\ status' \in StatusHash /\ lost' \in BOOLEAN
           /\ status' = status \/ status' = st
  BY DEF SetStatus, TaskTypeOK

LEMMA Statuses ==
    ASSUME NEW s \in States, NEW p \in 0..100
    PROVE  St(s, p) \in StatusHash /\ St(s, p).state = s
  BY DEF St, StatusHash

-----------------------------------------------------------------------------
(* The end of the goroutine.                                               *)

\* Return, with any status but an unfounded success.
LEMMA ReturnKeeps ==
    ASSUME TaskInv, ConvInv', pc \notin Over, Return,
           UNCHANGED <<docVars, textVars, cancelVars>>,
           pc = "convert" => step[Mine] = "returned",
           status' \in StatusHash, lost' \in BOOLEAN,
           status'.state = "success" => result = 1..total
    PROVE  TaskInv'
<1> USE MineAssumption DEF TaskInv, docVars, textVars, cancelVars
<1>1. pc' = "returned" /\ temps' = temps \ {"s3download"}
  BY DEF Return
<1>2. TaskTypeOK'
  BY <1>1 DEF TaskTypeOK, Over
<1>3. TextInv'
  BY <1>1 DEF TextInv, Early
<1>4. /\ step'[Mine] = step[Mine] /\ outcome'[Mine] = outcome[Mine]
      /\ outcome[Mine] \in Names => output'[Mine] = "removed"
  BY DEF Return, RemoveOutput, RemoveInput, convVars, callVars, ConvInv,
         ConvTypeOK
<1>5. step[Mine] \in {"idle", "returned"}
  BY DEF FileInv, TaskTypeOK, Over, Reading
<1>6. FileInv'
  BY <1>1, <1>4, <1>5 DEF FileInv, Over, Reading
<1> QED
  BY <1>2, <1>3, <1>6

LEMMA GiveUpKeeps ==
    ASSUME TaskInv, ConvInv', pc \notin Over, NEW p \in 0..100, GiveUp(p),
           pc = "convert" => step[Mine] = "returned"
    PROVE  TaskInv'
<1>1. "failed" \in States
  BY DEF States
<1>2. St("failed", p) \in StatusHash /\ St("failed", p).state = "failed"
  BY <1>1, Statuses
<1>3. /\ status' \in StatusHash /\ lost' \in BOOLEAN
      /\ status' = status \/ status' = St("failed", p)
  BY <1>2, StatusWritten DEF GiveUp, TaskInv
<1>4. status'.state # "success"
  BY <1>2, <1>3 DEF TaskInv, TextInv, Over
<1> QED
  BY <1>3, <1>4, ReturnKeeps DEF GiveUp

LEMMA SucceedKeeps ==
    ASSUME TaskInv, ConvInv', Succeed
    PROVE  TaskInv'
<1> DEFINE st == [St("success", 100) EXCEPT !.resultRef = TRUE]
<1>1. st \in StatusHash
  <2>1. "success" \in States
    BY DEF States
  <2>2. St("success", 100) \in StatusHash
    BY <2>1, Statuses
  <2> QED
    BY <2>2 DEF StatusHash
<1>2. status' \in StatusHash /\ lost' \in BOOLEAN
  BY <1>1, StatusWritten DEF Succeed, TaskInv
<1>3. result = 1..total
  BY DEF TaskInv, TextInv, Succeed
<1> QED
  BY <1>2, <1>3, ReturnKeeps DEF Succeed, Over

-----------------------------------------------------------------------------
(* The steps on the way.                                                   *)

\* A step that writes a status "processing" and goes on keeps the status part.
LEMMA ProcessingWritten ==
    ASSUME TaskInv, pc \notin Over, NEW p \in 0..100,
           SetStatus(St("processing", p))
    PROVE  /\ status' \in StatusHash /\ lost' \in BOOLEAN
           /\ status'.state # "success"
<1>1. "processing" \in States
  BY DEF States
<1>2. /\ St("processing", p) \in StatusHash
      /\ St("processing", p).state = "processing"
  BY <1>1, Statuses
<1>3. status' = status \/ status' = St("processing", p)
  BY <1>2, StatusWritten DEF TaskInv
<1> QED
  BY <1>2, <1>3, StatusWritten DEF TaskInv, TextInv, Over

LEMMA BeginKeeps ==
    ASSUME TaskInv, ConvInv', Begin
    PROVE  TaskInv'
<1> USE DEF TaskInv, Begin, Proceed, docVars, textVars, cancelVars
<1>1. /\ status' \in StatusHash /\ lost' \in BOOLEAN
      /\ status'.state # "success"
  BY ProcessingWritten DEF Over
<1>2. TaskTypeOK'
  BY <1>1 DEF TaskTypeOK
<1>3. TextInv'
  BY <1>1 DEF TextInv, Early
<1>4. FileInv'
  BY DEF FileInv, Over, Reading, TaskTypeOK, convVars, callVars
<1> QED
  BY <1>2, <1>3, <1>4

LEMMA DownloadKeeps ==
    ASSUME TaskInv, ConvInv', Download
    PROVE  TaskInv'
<1> USE DEF TaskInv, Download, Proceed, docVars, textVars, cancelVars
<1>1. /\ status' \in StatusHash /\ lost' \in BOOLEAN
      /\ status'.state # "success"
  BY ProcessingWritten DEF Over
<1>2. TaskTypeOK'
  BY <1>1 DEF TaskTypeOK
<1>3. TextInv'
  BY <1>1 DEF TextInv, Early
<1>4. FileInv'
  BY IdleHasNoOutcome DEF FileInv, Over, Reading, convVars, callVars
<1> QED
  BY <1>2, <1>3, <1>4

LEMMA DetectReadableKeeps ==
    ASSUME TaskInv, ConvInv', DetectReadable
    PROVE  TaskInv'
<1> USE DEF TaskInv, DetectReadable, Proceed, docVars, textVars, cancelVars
<1>1. /\ status' \in StatusHash /\ lost' \in BOOLEAN
      /\ status'.state # "success"
  BY ProcessingWritten DEF Over
<1>2. TaskTypeOK'
  BY <1>1 DEF TaskTypeOK
<1>3. TextInv'
  BY <1>1 DEF TextInv, Early
<1>4. Detect(file)' = Detect(file)
  BY DEF Detect
<1>5. Detect(file) \in {"pdf"} \cup TextTypes
  BY DEF RequiresConversion, IsText
<1>6. FileInv'
  BY <1>4, <1>5 DEF FileInv, Over, Reading, convVars, callVars
<1> QED
  BY <1>2, <1>3, <1>6

LEMMA DetectOfficeKeeps ==
    ASSUME TaskInv, ConvInv', DetectOffice
    PROVE  TaskInv'
<1> USE MineAssumption
    DEF TaskInv, DetectOffice, Proceed, docVars, textVars, cancelVars
<1>1. /\ status' \in StatusHash /\ lost' \in BOOLEAN
      /\ status'.state # "success"
  BY ProcessingWritten DEF Over
<1>2. TaskTypeOK'
  BY <1>1 DEF TaskTypeOK
<1>3. TextInv'
  BY <1>1 DEF TextInv, Early
<1>4. RequiresConversion(Detect(file))' = RequiresConversion(Detect(file))
  BY DEF RequiresConversion, Detect
<1>5. outcome[Mine] \notin Names /\ outcome' = outcome
  BY IdleHasNoOutcome DEF FileInv, Invoke
<1>6. /\ output'[Mine] \in {"absent", "input"}
      /\ UNCHANGED <<origin, temps>> /\ pc' = "convert" /\ origin = "s3"
  BY DEF Invoke, ConvInv, ConvTypeOK, FileInv
<1>7. FileInv'
  BY <1>4, <1>5, <1>6 DEF FileInv, Over, Reading
<1> QED
  BY <1>2, <1>3, <1>7

LEMMA ConvertKeeps ==
    ASSUME TaskInv, ConvInv', Convert
    PROVE  TaskInv'
<1> USE DEF TaskInv, Convert, Proceed, docVars, textVars, cancelVars
<1>1. /\ status' \in StatusHash /\ lost' \in BOOLEAN
      /\ status'.state # "success"
  BY ProcessingWritten DEF Over
<1>2. TaskTypeOK'
  BY <1>1 DEF TaskTypeOK
<1>3. TextInv'
  BY <1>1 DEF TextInv, Early
<1>4. RequiresConversion(Detect(file))' = RequiresConversion(Detect(file))
  BY DEF RequiresConversion, Detect
<1>5. FileInv'
  BY <1>4 DEF FileInv, Over, Reading, convVars, callVars
<1> QED
  BY <1>2, <1>3, <1>5

\* A step among those that read the document moves none of its files.
LEMMA ReadingOn ==
    ASSUME TaskInv, pc \in Reading, pc' \in Reading,
           UNCHANGED <<docVars, temps, convVars>>
    PROVE  FileInv'
<1>1. /\ RequiresConversion(Detect(file))' = RequiresConversion(Detect(file))
      /\ Detect(file)' = Detect(file)
  BY DEF RequiresConversion, Detect, docVars
<1> QED
  BY <1>1 DEF TaskInv, FileInv, docVars, convVars, callVars, Over, Reading

LEMMA CountPagesKeeps ==
    ASSUME TaskInv, ConvInv', CountPages
    PROVE  TaskInv'
<1> USE DEF TaskInv, CountPages, Proceed, docVars, textVars, cancelVars
<1>1. /\ status' \in StatusHash /\ lost' \in BOOLEAN
      /\ status'.state # "success"
  BY ProcessingWritten DEF Over
<1>2. page = 0 /\ total' \in 0..MaxPages
  BY DEF TextInv, Early
<1>3. TaskTypeOK'
  BY <1>1, <1>2, MaxPagesAssumption DEF TaskTypeOK
<1>4. TextInv'
  BY <1>1 DEF TextInv, Early
<1>5. FileInv'
  BY ReadingOn DEF Reading
<1> QED
  BY <1>3, <1>4, <1>5

\* The share of the pages that are done is a share.
LEMMA ShareOfPages ==
    ASSUME NEW n \in Nat, NEW i \in 1..n
    PROVE  (50 * i) \div n \in 0..50 /\ (80 * i) \div n \in 0..80
  OBVIOUS

LEMMA ExtractPageKeeps ==
    ASSUME TaskInv, ConvInv', ExtractPage
    PROVE  TaskInv'
<1> USE DEF TaskInv, ExtractPage, Proceed, docVars, textVars, cancelVars
<1>1. page \in Nat /\ total \in Nat /\ page + 1 \in 1..total
  BY MaxPagesAssumption DEF TaskTypeOK
<1>2. ProgressAfter(page + 1, total) \in 0..100
  <2> DEFINE i == page + 1
  <2>1. (50 * i) \div total \in 0..50 /\ (80 * i) \div total \in 0..80
    BY <1>1, ShareOfPages
  <2> HIDE DEF i
  <2>2. ProgressAfter(i, total) \in 0..100
    BY <2>1 DEF ProgressAfter
  <2> QED
    BY <2>2 DEF i
<1>3. /\ status' \in StatusHash /\ lost' \in BOOLEAN
      /\ status'.state # "success"
  BY <1>2, ProcessingWritten DEF Over
<1>4. TaskTypeOK'
  BY <1>1, <1>3 DEF TaskTypeOK
<1>5. TextInv'
  BY <1>3 DEF TextInv, Early
<1>6. FileInv'
  BY ReadingOn DEF Reading
<1> QED
  BY <1>4, <1>5, <1>6

LEMMA FinishExtractionKeeps ==
    ASSUME TaskInv, ConvInv', FinishExtraction
    PROVE  TaskInv'
<1> USE DEF TaskInv, FinishExtraction, Proceed, docVars, textVars, cancelVars
<1>1. /\ status' \in StatusHash /\ lost' \in BOOLEAN
      /\ status'.state # "success"
  <2>1. CASE UNCHANGED <<status, lost>>
    BY <2>1 DEF TaskTypeOK, TextInv
  <2>2. CASE SetStatus(St("processing", 90))
    BY <2>2, ProcessingWritten DEF Over
  <2> QED
    BY <2>1, <2>2
<1>2. TaskTypeOK'
  BY <1>1 DEF TaskTypeOK
<1>3. TextInv'
  BY <1>1 DEF TextInv, Early
<1>4. FileInv'
  BY ReadingOn DEF Reading
<1> QED
  BY <1>2, <1>3, <1>4

LEMMA StoreResultKeeps ==
    ASSUME TaskInv, ConvInv', StoreResult
    PROVE  TaskInv'
<1> USE DEF TaskInv, StoreResult, Proceed, docVars, textVars, cancelVars
<1>1. page = total /\ total \in 0..MaxPages
  BY DEF TextInv, TaskTypeOK
<1>2. TaskTypeOK'
  BY <1>1 DEF TaskTypeOK
<1>3. TextInv'
  BY <1>1 DEF TextInv, Early
<1>4. FileInv'
  BY ReadingOn DEF Reading
<1> QED
  BY <1>2, <1>3, <1>4

LEMMA TaskKeeps ==
    ASSUME TaskInv, ConvInv', Task
    PROVE  TaskInv'
<1>1. CASE FailEarly
  BY <1>1, GiveUpKeeps DEF FailEarly, Over
<1>2. CASE FailToStore
  BY <1>2, GiveUpKeeps DEF FailToStore, Over
<1> QED
  BY <1>1, <1>2, BeginKeeps, DownloadKeeps, DetectReadableKeeps,
     DetectOfficeKeeps, ConvertKeeps, CountPagesKeeps, ExtractPageKeeps,
     FinishExtractionKeeps, StoreResultKeeps, SucceedKeeps DEF Task

-----------------------------------------------------------------------------
(* The steps of others.                                                    *)

LEMMA ElsewhereKeeps ==
    ASSUME TaskInv, ConvInv', Elsewhere
    PROVE  TaskInv'
<1> USE DEF TaskInv, Elsewhere, taskVars, docVars, textVars, cancelVars
<1>1. TaskTypeOK'
  BY DEF TaskTypeOK
<1>2. TextInv'
  BY DEF TextInv
<1>3. step[Mine] \in {"idle", "returned"} =>
          /\ step'[Mine] = step[Mine] /\ outcome'[Mine] = outcome[Mine]
          /\ outcome[Mine] \in Names => output'[Mine] = output[Mine]
  BY BesideKeepsMine
<1>4. output[Mine] # "removed" => output'[Mine] # "removed"
  BY BesideRemovesNothing
<1>5. /\ RequiresConversion(Detect(file))' = RequiresConversion(Detect(file))
      /\ Detect(file)' = Detect(file)
  BY DEF RequiresConversion, Detect
<1>6. origin = "s3" /\ pc \in {"detect", "convert"} \cup Reading =>
         IF outcome'[Mine] \in Names
            THEN output'[Mine] \in {outcome'[Mine], "input"}
            ELSE "s3download" \in temps'
  <2> SUFFICES ASSUME origin = "s3", pc \in {"detect", "convert"} \cup Reading
               PROVE  IF outcome'[Mine] \in Names
                         THEN output'[Mine] \in {outcome'[Mine], "input"}
                         ELSE "s3download" \in temps'
    OBVIOUS
  <2>1. CASE outcome'[Mine] \in Names
    <3>1. CallInv(Mine)'
      BY MineAssumption DEF ConvInv, CallsInv
    <3>2. output'[Mine] # "removed"
      BY <1>4 DEF FileInv, Over, Reading
    <3>3. step'[Mine] = "returned"
      BY <2>1, <3>1 DEF CallInv, Names
    <3> QED
      BY <2>1, <3>1, <3>2, <3>3 DEF CallInv
  <2>2. CASE outcome'[Mine] \notin Names
    <3>1. outcome[Mine] \notin Names
      BY <1>3, <2>2, MineAssumption DEF ConvInv, CallsInv, CallInv, Names
    <3>2. temps' = temps
      BY <2>2 DEF Names
    <3> QED
      BY <2>2, <3>1, <3>2 DEF FileInv
  <2> QED
    BY <2>1, <2>2
<1>7. "s3download" \notin temps => "s3download" \notin temps'
  OBVIOUS
<1>8. FileInv'
  BY <1>3, <1>4, <1>5, <1>6, <1>7 DEF FileInv
<1> QED
  BY <1>1, <1>2, <1>8

\* The temporary files of others, and the cancel handler.
LEMMA OthersKeep ==
    ASSUME TaskInv, ConvInv',
           \/ StrayDownload \/ Cleanup \/ CancelRequested \/ GetForCancel
           \/ SetForCancel
    PROVE  TaskInv'
<1> USE DEF TaskInv, StrayDownload, Cleanup, CancelRequested, GetForCancel,
            SetForCancel, docVars, textVars, cancelVars
<1>1. /\ UNCHANGED <<docVars, pc, textVars, convVars>>
      /\ "s3download" \in temps' <=> "s3download" \in temps
      /\ temps' \subseteq {"s3download", "pdfdl"}
  BY DEF TaskTypeOK, Cleaned
<1>2. /\ csnap' \in StatusHash /\ csnap'.state # "success"
      /\ cpc' \in {"none", "get", "set", "finished"}
  <2>1. CASE GetForCancel
    <3>1. "cancelled" \in States /\ 0 \in 0..100
      BY DEF States
    <3>2. csnap' \in StatusHash
      BY <2>1, <3>1 DEF TaskTypeOK, StatusHash
    <3>3. csnap'.state = "cancelled"
      BY <2>1 DEF TaskTypeOK, StatusHash
    <3> QED
      BY <2>1, <3>2, <3>3
  <2>2. CASE ~ GetForCancel
    BY <2>2 DEF TaskTypeOK, TextInv
  <2> QED
    BY <2>1, <2>2
<1>3. /\ status' \in StatusHash /\ lost' \in BOOLEAN
      /\ status'.state = "success" => status' = status
  <2>1. CASE SetForCancel
    BY <2>1, StatusWritten DEF TaskTypeOK, TextInv
  <2>2. CASE ~ SetForCancel
    BY <2>2 DEF TaskTypeOK
  <2> QED
    BY <2>1, <2>2
<1>4. TaskTypeOK'
  BY <1>1, <1>2, <1>3 DEF TaskTypeOK
<1>5. TextInv'
  BY <1>1, <1>2, <1>3 DEF TextInv
<1>6. /\ RequiresConversion(Detect(file))' = RequiresConversion(Detect(file))
      /\ Detect(file)' = Detect(file)
  BY <1>1 DEF RequiresConversion, Detect
<1>7. FileInv'
  BY <1>1, <1>6 DEF FileInv, convVars, callVars
<1> QED
  BY <1>4, <1>5, <1>7

LEMMA CrashKeeps ==
    ASSUME TaskInv, ConvInv', Crash
    PROVE  TaskInv'
<1> USE DEF TaskInv, Crash, docVars, textVars, cancelVars
<1>1. TaskTypeOK'
  BY DEF TaskTypeOK, Over
<1>2. TextInv'
  BY DEF TextInv, Over, Early
<1>3. FileInv'
  BY DEF FileInv, Over, Reading
<1> QED
  BY <1>1, <1>2, <1>3

-----------------------------------------------------------------------------
(* The theorems.                                                           *)

LEMMA TaskInvInit ==
    ASSUME Init PROVE TaskInv
<1> USE MineAssumption, DocumentsAssumption, MaxPagesAssumption DEF Init
<1>1. ConvInv
  BY ConvInvInit
<1>2. TaskTypeOK
  <2>1. "queued" \in States /\ "processing" \in States
    BY DEF States
  <2>2. St("queued", 0) \in StatusHash /\ St("processing", 5) \in StatusHash
    BY <2>1, Statuses
  <2>3. Readable \in Files
    BY DEF Readable, Files, Types
  <2>4. /\ origin \in {"upload", "s3"} /\ file \in Files
        /\ status \in StatusHash /\ csnap \in StatusHash
    BY <2>2, <2>3
  <2>5. /\ total \in 0..MaxPages /\ page \in 0..total
        /\ result \in {{}} \cup {1..n : n \in 0..MaxPages}
    OBVIOUS
  <2> QED
    BY <2>4, <2>5 DEF TaskTypeOK
<1>3. TextInv
  <2>1. St("queued", 0).state = "queued" /\ St("processing", 5).state = "processing"
    BY DEF St
  <2>2. status \in {St("queued", 0), St("processing", 5)}
    OBVIOUS
  <2>3. status.state # "success" /\ csnap.state # "success"
    BY <2>1, <2>2
  <2>4. page = 0 /\ pc = "start"
    OBVIOUS
  <2> QED
    BY <2>3, <2>4 DEF TextInv
<1>4. FileInv
  BY DEF FileInv, ConvInit, Over, Reading
<1> QED
  BY <1>1, <1>2, <1>3, <1>4 DEF TaskInv

LEMMA TaskInvStep ==
    ASSUME TaskInv, [Next]_vars
    PROVE  TaskInv'
<1>1. ConvInv'
  BY StepOfConverter, ConvInvStep DEF TaskInv
<1>2. CASE UNCHANGED vars
  <2>1. /\ RequiresConversion(Detect(file))' = RequiresConversion(Detect(file))
        /\ Detect(file)' = Detect(file)
    BY <1>2 DEF RequiresConversion, Detect, vars, taskVars, docVars
  <2> QED
    BY <1>1, <1>2, <2>1 DEF TaskInv, TaskTypeOK, TextInv, FileInv, vars, taskVars,
       docVars, textVars, cancelVars, convVars, callVars
<1>3. CASE Next
  BY <1>1, <1>3, TaskKeeps, ElsewhereKeeps, OthersKeep, CrashKeeps DEF Next
<1> QED
  BY <1>2, <1>3

THEOREM TextOnlyInvariant == Spec => []TaskInv
<1>1. Init => TaskInv
  BY TaskInvInit
<1>2. TaskInv /\ [Next]_vars => TaskInv'
  BY TaskInvStep
<1> QED
  BY <1>1, <1>2, PTL DEF Spec

\* The goroutine, the requests of others and a crash together behave towards
\* the converter as the converter's own specification says: its theorems hold
\* of the composed system.
THEOREM ImplementsConverter == Spec => ConvSpec
<1>1. Init => ConvInit
  BY DEF Init
<1>2. [Next]_vars => [ConvNext]_convVars
  BY StepOfConverter
<1> QED
  BY <1>1, <1>2, PTL DEF Spec, ConvSpec

\* Every variable keeps its type, progress stays within 0..100 among them.
THEOREM TypeCorrect == Spec => []TypeOK
<1>1. TaskInv => TypeOK
  BY DEF TaskInv, TaskTypeOK, TypeOK, ConvInv
<1> QED
  BY <1>1, TextOnlyInvariant, PTL

\* A job shows success only when the text of its whole document is stored,
\* whatever the cancel handler and lost writes do.
THEOREM WholeText == Spec => []SuccessHasWholeText
<1>1. TaskInv => SuccessHasWholeText
  BY DEF TaskInv, TextInv, SuccessHasWholeText
<1> QED
  BY <1>1, TextOnlyInvariant, PTL

\* Nobody takes the document or its PDF away while it is read.
THEOREM DocumentIsThere == Spec => []DocumentStays
<1>1. TaskInv => DocumentStays
  BY DEF TaskInv, FileInv, DocumentStays, Reading
<1> QED
  BY <1>1, TextOnlyInvariant, PTL

\* The goroutine of an API job that returned left neither its document nor
\* the output of its conversion.
THEOREM FilesAreGone == Spec => []NoFilesLeft
<1>1. TaskInv => NoFilesLeft
  BY DEF TaskInv, FileInv, NoFilesLeft
<1> QED
  BY <1>1, TextOnlyInvariant, PTL

-----------------------------------------------------------------------------
(* The progress of a job.  A status "processing" shows at most what the    *)
(* last step wrote, because a write may be lost or overwritten by a        *)
(* cancellation but never delayed; and each step writes at least that.     *)

\* What the steps so far have written.
Reached ==
    CASE pc \in {"start", "download"} -> 5
      [] pc = "detect" -> 15
      [] pc = "convert" -> 20
      [] pc = "count" -> IF origin = "s3" THEN 30 ELSE 5
      [] pc = "extract" -> IF page = 0 THEN IF origin = "s3" THEN 35 ELSE 10
                           ELSE ProgressAfter(page, total)
      [] pc \in {"store", "succeed"} -> 90
      [] OTHER -> 100

ProgressInv ==
    /\ status.state = "processing" => status.progress <= Reached
    /\ cpc = "set" => csnap.state = "cancelled"

\* The share of the pages grows with the pages.
LEMMA ShareGrows ==
    ASSUME NEW n \in Nat \ {0}, NEW c \in Nat, NEW i \in Nat
    PROVE  (c * i) \div n <= (c * (i + 1)) \div n
<1> DEFINE a == c * i
           b == c * (i + 1)
<1>1. a \in Nat /\ b \in Nat /\ a <= b
  OBVIOUS
<1> HIDE DEF a, b
<1>2. a \div n <= b \div n
  BY <1>1
<1> QED
  BY <1>2 DEF a, b

\* What ProgressAfter gives for the pages of a document.
LEMMA ProgressGrows ==
    ASSUME NEW n \in Nat \ {0}, NEW i \in 0..(n - 1)
    PROVE  /\ ProgressAfter(i + 1, n) \in 10..90
           /\ ProgressAfter(i, n) <= ProgressAfter(i + 1, n)
           /\ origin = "s3" => ProgressAfter(i + 1, n) \in 35..85
<1>1. i \in Nat /\ i + 1 \in 1..n
  OBVIOUS
<1> DEFINE j == i + 1
<1>2. /\ (50 * j) \div n \in 0..50 /\ (80 * j) \div n \in 0..80
      /\ (50 * i) \div n <= (50 * j) \div n
      /\ (80 * i) \div n <= (80 * j) \div n
  BY <1>1, ShareOfPages, ShareGrows
<1>3. (50 * i) \div n \in Int /\ (80 * i) \div n \in Int
  BY <1>1
<1> HIDE DEF j
<1>4. /\ ProgressAfter(j, n) \in 10..90
      /\ ProgressAfter(i, n) <= ProgressAfter(j, n)
      /\ origin = "s3" => ProgressAfter(j, n) \in 35..85
  BY <1>2, <1>3 DEF ProgressAfter
<1> QED
  BY <1>4 DEF j

\* A write of the status that is at least what was reached, and is what is
\* reached then.
LEMMA ProgressWritten ==
    ASSUME TaskInv, ProgressInv, NEW p \in 0..100, NEW q \in 0..100,
           SetStatus(St("processing", p)) \/ UNCHANGED status,
           Reached <= p, p <= q, Reached' = q, Reached \in 0..100,
           UNCHANGED cancelVars
    PROVE  /\ ProgressInv'
           /\ status.state = "processing" /\ status'.state = "processing"
                 => status'.progress >= status.progress
<1>1. status \in StatusHash
  BY DEF TaskInv, TaskTypeOK
<1>2. /\ status.progress \in 0..100
      /\ St("processing", p).progress = p
  BY <1>1 DEF StatusHash, St
<1>3. status' = status \/ status' = St("processing", p)
  BY DEF SetStatus
<1>4. status.state = "processing" /\ status'.state = "processing"
         => status'.progress >= status.progress
  <2>1. CASE status' = status
    BY <1>2, <2>1
  <2>2. CASE status' = St("processing", p)
    BY <1>2, <2>2 DEF ProgressInv
  <2> QED
    BY <1>3, <2>1, <2>2
<1>5. status'.state = "processing" => status'.progress <= q
  <2>1. CASE status' = status
    BY <1>2, <2>1 DEF ProgressInv
  <2>2. CASE status' = St("processing", p)
    BY <1>2, <2>2
  <2> QED
    BY <1>3, <2>1, <2>2
<1> QED
  BY <1>4, <1>5 DEF ProgressInv, cancelVars

\* A write of another state.
LEMMA FinalWritten ==
    ASSUME TaskInv, ProgressInv, NEW st \in StatusHash,
           st.state # "processing", SetStatus(st), Reached' = 100,
           UNCHANGED cancelVars
    PROVE  /\ ProgressInv'
           /\ status.state = "processing" /\ status'.state = "processing"
                 => status'.progress >= status.progress
<1>1. status \in StatusHash
  BY DEF TaskInv, TaskTypeOK
<1>2. status.progress \in 0..100
  BY <1>1 DEF StatusHash
<1>3. status' = status \/ status' = st
  BY DEF SetStatus
<1> QED
  BY <1>2, <1>3 DEF ProgressInv, cancelVars

LEMMA ReachedIsProgress ==
    ASSUME TaskInv
    PROVE  /\ Reached \in 0..100
           /\ pc = "extract" /\ page > 0 =>
                 IF origin = "s3" THEN Reached \in 35..85
                                  ELSE Reached \in 10..90
<1> USE DEF TaskInv, TaskTypeOK
<1>1. CASE pc = "extract" /\ page > 0
  <2>1. total \in Nat \ {0} /\ page - 1 \in 0..(total - 1)
    BY <1>1, MaxPagesAssumption
  <2>2. (page - 1) + 1 = page
    BY <2>1
  <2>3. /\ ProgressAfter(page, total) \in 10..90
        /\ origin = "s3" => ProgressAfter(page, total) \in 35..85
    BY <2>1, <2>2, ProgressGrows
  <2>4. Reached = ProgressAfter(page, total)
    BY <1>1 DEF Reached
  <2> QED
    BY <1>1, <2>3, <2>4
<1>2. CASE ~ (pc = "extract" /\ page > 0)
  <2>1. pc = "extract" => page = 0
    BY <1>2, MaxPagesAssumption
  <2> QED
    BY <1>2, <2>1 DEF Reached
<1> QED
  BY <1>1, <1>2

\* No step of the goroutine takes progress back.
LEMMA TaskAdvances ==
    ASSUME TaskInv, ProgressInv, TaskInv', Task
    PROVE  /\ ProgressInv'
           /\ status.state = "processing" /\ status'.state = "processing"
                 => status'.progress >= status.progress
<1> USE DEF Proceed, docVars
<1>1. Reached \in 0..100 /\ UNCHANGED <<origin, cancelVars>>
  BY ReachedIsProgress
     DEF Task, Begin, Download, DetectReadable, DetectOffice, Convert, CountPages,
         ExtractPage, FinishExtraction, StoreResult, Succeed, FailEarly,
         FailToStore, GiveUp
<1>2. CASE Begin
  <2>1. Reached = 5 /\ Reached' = 5
    BY <1>2 DEF Begin, Reached
  <2> QED
    BY <1>1, <1>2, <2>1, ProgressWritten DEF Begin
<1>3. CASE Download
  <2>1. Reached = 5 /\ Reached' = 15
    BY <1>3 DEF Download, Reached
  <2> QED
    BY <1>1, <1>3, <2>1, ProgressWritten DEF Download
<1>4. CASE DetectReadable
  <2>1. Reached = 15 /\ Reached' = 30
    BY <1>4 DEF DetectReadable, Reached, TaskInv, FileInv
  <2> QED
    BY <1>1, <1>4, <2>1, ProgressWritten DEF DetectReadable
<1>5. CASE DetectOffice
  <2>1. Reached = 15 /\ Reached' = 20
    BY <1>5 DEF DetectOffice, Reached
  <2> QED
    BY <1>1, <1>5, <2>1, ProgressWritten DEF DetectOffice
<1>6. CASE Convert
  <2>1. Reached = 20 /\ Reached' = 30
    BY <1>6 DEF Convert, Reached, TaskInv, FileInv
  <2> QED
    BY <1>1, <1>6, <2>1, ProgressWritten DEF Convert
<1>7. CASE CountPages
  <2> DEFINE p == IF origin = "s3" THEN 35 ELSE 10
  <2>1. page' = 0
    BY <1>7 DEF CountPages, TaskInv, TextInv, Early
  <2>2. Reached <= p /\ Reached' = p /\ p \in 0..100 /\ p <= p
    BY <1>1, <1>7, <2>1 DEF CountPages, Reached
  <2>3. SetStatus(St("processing", p))
    BY <1>7 DEF CountPages
  <2> HIDE DEF p
  <2> QED
    BY <1>1, <2>2, <2>3, ProgressWritten
<1>8. CASE ExtractPage
  <2> DEFINE p == ProgressAfter(page + 1, total)
  <2>1. total \in Nat \ {0} /\ page \in 0..(total - 1)
    BY <1>8, MaxPagesAssumption DEF ExtractPage, TaskInv, TaskTypeOK
  <2>2. /\ p \in 10..90 /\ ProgressAfter(page, total) <= p
        /\ origin = "s3" => p \in 35..85
    BY <2>1, ProgressGrows
  <2>3. Reached' = p
    <3>1. pc' = "extract" /\ page' = page + 1 /\ page' # 0 /\ total' = total
      BY <1>8, <2>1 DEF ExtractPage
    <3>2. Reached' = ProgressAfter(page, total)'
      BY <3>1 DEF Reached
    <3> QED
      BY <1>1, <3>1, <3>2 DEF ProgressAfter
  <2>4. pc = "extract" /\ SetStatus(St("processing", p))
    BY <1>8 DEF ExtractPage
  <2> HIDE DEF p
  <2>5. Reached <= p
    BY <2>1, <2>2, <2>4 DEF Reached
  <2>6. p \in 0..100 /\ p <= p
    BY <2>2
  <2> QED
    BY <1>1, <2>3, <2>4, <2>5, <2>6, ProgressWritten
<1>9. CASE FinishExtraction
  <2>1. Reached <= 90
    <3>1. CASE page > 0
      BY <1>9, <3>1, ReachedIsProgress DEF FinishExtraction
    <3>2. CASE ~ (page > 0)
      <4>1. page = 0
        BY <3>2, MaxPagesAssumption DEF TaskInv, TaskTypeOK
      <4> QED
        BY <1>9, <4>1 DEF FinishExtraction, Reached
    <3> QED
      BY <3>1, <3>2
  <2>2. Reached' = 90
    BY <1>9 DEF FinishExtraction, Reached
  <2>3. SetStatus(St("processing", 90)) \/ UNCHANGED status
    BY <1>9 DEF FinishExtraction
  <2> QED
    BY <1>1, <2>1, <2>2, <2>3, ProgressWritten
<1>10. CASE StoreResult
  <2>1. Reached = 90 /\ Reached' = 90
    BY <1>10 DEF StoreResult, Reached
  <2> QED
    BY <1>1, <1>10, <2>1, ProgressWritten DEF StoreResult
<1>11. CASE Succeed
  <2> DEFINE st == [St("success", 100) EXCEPT !.resultRef = TRUE]
  <2>1. "success" \in States
    BY DEF States
  <2>2. St("success", 100) \in StatusHash /\ St("success", 100).state = "success"
    BY <2>1, Statuses
  <2>3. st \in StatusHash /\ st.state # "processing"
    BY <2>2 DEF StatusHash
  <2>4. SetStatus(st) /\ Reached' = 100
    BY <1>11 DEF Succeed, Return, Reached
  <2> HIDE DEF st
  <2> QED
    BY <1>1, <2>3, <2>4, FinalWritten
<1>12. CASE FailEarly \/ FailToStore
  <2>1. PICK p \in {0, 95} : GiveUp(p)
    BY <1>12 DEF FailEarly, FailToStore
  <2>2. "failed" \in States /\ p \in 0..100
    BY DEF States
  <2>3. St("failed", p) \in StatusHash /\ St("failed", p).state = "failed"
    BY <2>2, Statuses
  <2>4. SetStatus(St("failed", p)) /\ Reached' = 100
    BY <2>1 DEF GiveUp, Return, Reached
  <2> QED
    BY <1>1, <2>3, <2>4, FinalWritten
<1> QED
  BY <1>2, <1>3, <1>4, <1>5, <1>6, <1>7, <1>8, <1>9, <1>10, <1>11, <1>12
     DEF Task

\* And no step of anybody else.
LEMMA OthersKeepProgress ==
    ASSUME TaskInv, ProgressInv, TaskInv',
           \/ Elsewhere \/ StrayDownload \/ Cleanup \/ CancelRequested
           \/ GetForCancel \/ SetForCancel \/ Crash \/ UNCHANGED vars
    PROVE  /\ ProgressInv'
           /\ status.state = "processing" /\ status'.state = "processing"
                 => status'.progress >= status.progress
<1> USE DEF docVars, textVars, cancelVars, taskVars, vars
<1>1. status \in StatusHash
  BY DEF TaskInv, TaskTypeOK
<1>2. status.progress \in 0..100
  BY <1>1 DEF StatusHash
<1>3. CASE Crash
  <2>1. Reached' = 100 /\ UNCHANGED status /\ cpc' # "set"
    BY <1>3 DEF Crash, Reached, TaskInv, TaskTypeOK
  <2> QED
    BY <1>2, <2>1 DEF ProgressInv
<1>4. CASE ~ Crash
  <2>1. UNCHANGED <<origin, pc, total, page>>
    BY <1>4 DEF Elsewhere, StrayDownload, Cleanup, CancelRequested, GetForCancel,
                SetForCancel
  <2>2. Reached' = Reached
    BY <2>1 DEF Reached, ProgressAfter
  <2>3. CASE GetForCancel
    <3>1. UNCHANGED status /\ csnap'.state = "cancelled"
      BY <1>1, <2>3 DEF GetForCancel, StatusHash
    <3> QED
      BY <1>2, <2>2, <3>1 DEF ProgressInv
  <2>4. CASE SetForCancel
    <3>1. /\ status' = status \/ status' = csnap
          /\ csnap.state = "cancelled" /\ cpc' = "finished"
      BY <2>4 DEF SetForCancel, SetStatus, ProgressInv
    <3> QED
      BY <1>2, <2>2, <3>1 DEF ProgressInv
  <2>5. CASE ~ GetForCancel /\ ~ SetForCancel
    <3>1. UNCHANGED <<status, csnap>> /\ (cpc' = cpc \/ cpc' = "get")
      BY <1>4, <2>5 DEF Elsewhere, StrayDownload, Cleanup, CancelRequested
    <3> QED
      BY <1>2, <2>2, <3>1 DEF ProgressInv
  <2> QED
    BY <2>3, <2>4, <2>5
<1> QED
  BY <1>3, <1>4

\* The progress of a job never falls while it is processed: not on its way
\* through any number of pages, whether it is downloaded, converted or
\* uploaded, and not by a lost write, a cancellation or a crash.
THEOREM ProgressIsMonotone == Spec => ProgressNeverFalls
<1>1. Init => ProgressInv
  BY DEF Init, ProgressInv, Reached, St
<1>2. TaskInv /\ TaskInv' /\ ProgressInv /\ [Next]_vars =>
         /\ ProgressInv'
         /\ [status.state = "processing" /\ status'.state = "processing"
                => status'.progress >= status.progress]_vars
  BY TaskAdvances, OthersKeepProgress DEF Next
<1> QED
  BY <1>1, <1>2, TextOnlyInvariant, PTL DEF Spec, ProgressNeverFalls
=============================================================================
