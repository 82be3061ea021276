------------------------------ MODULE TextOnly ------------------------------
(***************************************************************************)
(* The background goroutine that extracts a whole document with MuPDF, as  *)
(* internal/orchestrator/orchestrator.go starts it for text_only and       *)
(* fast_upload jobs: processMuPDFOnly for a dashboard upload,              *)
(* processMuPDFOnlyFromS3 for an API job.  It runs beside the cancel       *)
(* handler, and the process may die under it.                              *)
(*                                                                         *)
(* One step is the work up to and including the next write of the job's    *)
(* status.  Both goroutines run under context.Background(), so the branch  *)
(* for a cancelled context after every page is never taken and is not an   *)
(* action here.  The conversion of an API job is a call of Converter among *)
(* those of other jobs; which documents are converted is FileType's.       *)
(*                                                                         *)
(* Abstractions: text is the set of pages it covers (a page that cannot be *)
(* read leaves a placeholder and counts as covered); the job_done webhook, *)
(* which overrides any status, is in Orchestrator; an upload is converted  *)
(* and stored by its request handler before the goroutine starts; the age  *)
(* CleanupTemps asks for is the choice of when it runs.                    *)
(***************************************************************************)
EXTENDS Converter, FileType

CONSTANTS
    Mine,        \* the goroutine's own call of ConvertToPDF
    Documents,   \* the files an API job may name
    MaxPages,    \* bound on the page count of the document
    MaxCancels,  \* bound on cancellations (0 or 1)
    MayCrash,    \* the process may die
    LostWrites   \* one status write may fail, an error every caller ignores

ASSUME MineAssumption == Mine \in Calls
ASSUME DocumentsAssumption == Documents \subseteq Files
ASSUME MaxPagesAssumption == MaxPages \in Nat
ASSUME BoundsAssumption ==
    MaxCancels \in 0..1 /\ MayCrash \in BOOLEAN /\ LostWrites \in BOOLEAN

VARIABLES
    origin,  \* where the document came from
    file,    \* what it is; a PDF if its upload was converted
    status,  \* the job's status hash
    pc,      \* the goroutine's next step
    total,   \* the page count it read
    page,    \* the pages it extracted
    result,  \* the pages of the stored result
    temps,   \* files in the temporary directory, by the prefix of their names
    cpc,     \* the cancel handler's next step
    csnap,   \* its copy of the status
    lost     \* some status write failed

docVars == <<origin, file>>
textVars == <<total, page, result>>
cancelVars == <<cpc, csnap>>
taskVars == <<docVars, status, pc, textVars, temps, cancelVars, lost>>
vars == <<taskVars, convVars>>

States == {"queued", "processing", "failed", "cancelled", "success"}
StatusHash == [state : States, progress : 0..100, resultRef : BOOLEAN]
St(state, progress) ==
    [state |-> state, progress |-> progress, resultRef |-> FALSE]

Over == {"returned", "died"}
Readable == [magic |-> "pdf", extension |-> "pdf"]

TypeOK ==
    /\ origin \in {"upload", "s3"}
    /\ file \in Files
    /\ status \in StatusHash
    /\ pc \in {"start", "download", "detect", "convert", "count", "extract",
               "store", "succeed"} \cup Over
    /\ total \in 0..MaxPages
    /\ page \in 0..total
    /\ result \in {{}} \cup {1..n : n \in 0..MaxPages}
    /\ temps \subseteq {"s3download", "pdfdl"}
    /\ cpc \in {"none", "get", "set", "finished"}
    /\ csnap \in StatusHash
    /\ lost \in BOOLEAN
    /\ ConvTypeOK

\* The request handler has answered: the job is queued, or an upload was
\* converted on the way.
Init ==
    /\ ConvInit
    /\ \/ origin = "s3" /\ file \in Documents /\ status = St("queued", 0)
       \/ /\ origin = "upload" /\ file = Readable
          /\ status \in {St("queued", 0), St("processing", 5)}
    /\ pc = "start"
    /\ total = 0
    /\ page = 0
    /\ result = {}
    /\ temps = {}
    /\ cpc = "none" /\ csnap = St("queued", 0)
    /\ lost = FALSE

SetStatus(st) ==
    \/ status' = st /\ UNCHANGED lost
    \/ LostWrites /\ ~ lost /\ lost' = TRUE /\ UNCHANGED status

-----------------------------------------------------------------------------
(* The goroutine.                                                          *)

\* The document lies where the output of its conversion goes.
NamedLikeOutput == file.extension = "pdf"

\* The deferred calls: the download goes, and the output of a conversion that
\* succeeded.
Return ==
    /\ pc' = "returned"
    /\ temps' = temps \ {"s3download"}
    /\ \/ outcome[Mine] \in Names /\ RemoveOutput(Mine)
       \/ NamedLikeOutput /\ RemoveInput(Mine)
       \/ /\ outcome[Mine] \notin Names
          /\ ~ NamedLikeOutput \/ step[Mine] # "returned"
          /\ UNCHANGED convVars

\* Faulty variant: an early return that does not write the status.
GiveUpSilently(progress) ==
    /\ Return
    /\ UNCHANGED <<docVars, status, textVars, cancelVars, lost>>

\* Faulty variant: an early return before the files are removed.
GiveUpKeepingFiles(progress) ==
    /\ SetStatus(St("failed", progress))
    /\ pc' = "returned"
    /\ UNCHANGED <<docVars, textVars, temps, cancelVars, convVars>>

GiveUp(progress) ==
    /\ SetStatus(St("failed", progress))
    /\ Return
    /\ UNCHANGED <<docVars, textVars, cancelVars>>

\* The goroutine goes on to its next step.
Proceed(from, to) ==
    /\ pc = from /\ pc' = to
    /\ UNCHANGED <<docVars, cancelVars>>

Begin ==
    /\ Proceed("start", IF origin = "s3" THEN "download" ELSE "count")
    /\ SetStatus(St("processing", 5))
    /\ UNCHANGED <<textVars, temps, convVars>>

Download ==
    /\ Proceed("download", "detect")
    /\ temps' = temps \cup {"s3download"}
    /\ SetStatus(St("processing", 15))
    /\ UNCHANGED <<textVars, convVars>>

\* A PDF or a text file is read as it is.
DetectReadable ==
    /\ Proceed("detect", "count")
    /\ Supported(Detect(file)) /\ ~ RequiresConversion(Detect(file))
    /\ SetStatus(St("processing", 30))
    /\ UNCHANGED <<textVars, temps, convVars>>

DetectOffice ==
    /\ Proceed("detect", "convert")
    /\ RequiresConversion(Detect(file))
    /\ SetStatus(St("processing", 20))
    /\ Invoke(Mine, IF NamedLikeOutput THEN "input" ELSE "absent")
    /\ UNCHANGED <<textVars, temps>>

Convert ==
    /\ Proceed("convert", "count")
    /\ step[Mine] = "returned" /\ outcome[Mine] \in Names
    /\ SetStatus(St("processing", 30))
    /\ UNCHANGED <<textVars, temps, convVars>>

\* Faulty variant: the share of the pages is too large.
ProgressBeyond(i, n) ==
    IF origin = "s3" THEN 35 + (80 * i) \div n ELSE 10 + (80 * i) \div n

\* Faulty variant: the share of the pages counts from zero.
ProgressFromZero(i, n) ==
    IF origin = "s3" THEN (50 * i) \div n ELSE (80 * i) \div n

\* The progress after i of n pages.
ProgressAfter(i, n) ==
    IF origin = "s3" THEN 35 + (50 * i) \div n ELSE 10 + (80 * i) \div n

CountPages ==
    /\ Proceed("count", "extract")
    /\ total' \in 0..MaxPages
    /\ SetStatus(St("processing", IF origin = "s3" THEN 35 ELSE 10))
    /\ UNCHANGED <<page, result, temps, convVars>>

ExtractPage ==
    /\ Proceed("extract", "extract")
    /\ page < total
    /\ page' = page + 1
    /\ SetStatus(St("processing", ProgressAfter(page + 1, total)))
    /\ UNCHANGED <<total, result, temps, convVars>>

\* Faulty variant: the loop over the pages ends one page early.
FinishExtractionEarly ==
    /\ Proceed("extract", "store")
    /\ page + 1 >= total
    /\ \/ origin = "s3" /\ SetStatus(St("processing", 90))
       \/ origin = "upload" /\ UNCHANGED <<status, lost>>
    /\ UNCHANGED <<textVars, temps, convVars>>

\* All pages are read; only the S3 variant announces the upload of the text.
FinishExtraction ==
    /\ Proceed("extract", "store")
    /\ page = total
    /\ \/ origin = "s3" /\ SetStatus(St("processing", 90))
       \/ origin = "upload" /\ UNCHANGED <<status, lost>>
    /\ UNCHANGED <<textVars, temps, convVars>>

StoreResult ==
    /\ Proceed("store", "succeed")
    /\ result' = 1..page
    /\ UNCHANGED <<status, total, page, temps, lost, convVars>>

Succeed ==
    /\ pc = "succeed"
    /\ SetStatus([St("success", 100) EXCEPT !.resultRef = TRUE])
    /\ Return
    /\ UNCHANGED <<docVars, textVars, cancelVars>>

\* The download, the detection or the reading of the PDF fails, the type is
\* not supported, or the conversion brought no output.  (go-fitz is compiled
\* in: the branch for a missing MuPDF is dead.)
FailEarly ==
    /\ \/ pc \in {"download", "detect", "count"}
       \/ /\ pc = "convert" /\ step[Mine] = "returned"
          /\ outcome[Mine] \notin Names
    /\ GiveUp(0)

FailToStore ==
    /\ pc = "store"
    /\ GiveUp(95)

Task ==
    \/ Begin \/ Download \/ DetectReadable \/ DetectOffice \/ Convert
    \/ CountPages \/ ExtractPage \/ FinishExtraction \/ StoreResult \/ Succeed
    \/ FailEarly \/ FailToStore

-----------------------------------------------------------------------------
(* Other jobs: their conversions, their temporary files and their removal. *)

\* The job's own conversion goes on as well; if the document lies where its
\* output goes, the renaming of the output takes the download away.
Elsewhere ==
    /\ Beside(Mine)
    /\ temps' = IF /\ NamedLikeOutput
                   /\ outcome[Mine] = "none" /\ outcome'[Mine] = "asked"
                   THEN temps \ {"s3download"} ELSE temps
    /\ UNCHANGED <<docVars, status, pc, textVars, cancelVars, lost>>

\* The page count of an HTTP document that breaks off leaves its file.
StrayDownload ==
    /\ pc # "died"
    /\ temps' = temps \cup {"pdfdl"}
    /\ UNCHANGED <<docVars, status, pc, textVars, cancelVars, lost, convVars>>

\* Faulty variant: the names that the S3 helper gives are cleaned as well.
CleanedAll == {"pdfdl", "s3pdf", "s3download"}

\* The prefixes CleanupTemps knows.
Cleaned == {"pdfdl", "s3pdf"}

\* Another job is finished and cleans the temporary directory.
Cleanup ==
    /\ pc # "died"
    /\ temps' = temps \ Cleaned
    /\ UNCHANGED <<docVars, status, pc, textVars, cancelVars, lost, convVars>>

-----------------------------------------------------------------------------
(* The cancel handler, and the end of the process.                         *)

CancelRequested ==
    /\ MaxCancels > 0 /\ cpc = "none"
    /\ cpc' = "get"
    /\ UNCHANGED <<docVars, status, pc, textVars, temps, csnap, lost, convVars>>

GetForCancel ==
    /\ cpc = "get"
    /\ csnap' = [status EXCEPT !.state = "cancelled", !.progress = 0]
    /\ cpc' = "set"
    /\ UNCHANGED <<docVars, status, pc, textVars, temps, lost, convVars>>

SetForCancel ==
    /\ cpc = "set"
    /\ SetStatus(csnap)
    /\ cpc' = "finished"
    /\ UNCHANGED <<docVars, pc, textVars, temps, csnap, convVars>>

Crash ==
    /\ MayCrash
    /\ pc \notin Over
    /\ pc' = "died"
    /\ cpc' = IF cpc \in {"get", "set"} THEN "finished" ELSE cpc
    /\ ServiceDies
    /\ UNCHANGED <<docVars, status, textVars, temps, csnap, lost>>

Next ==
    \/ Task \/ Elsewhere \/ StrayDownload \/ Cleanup
    \/ CancelRequested \/ GetForCancel \/ SetForCancel \/ Crash

Spec == Init /\ [][Next]_vars

\* The goroutine waits for S3, whose client has no timeout of its own, under
\* a context that does not end.
WaitsForS3 == origin = "s3" /\ pc \in {"download", "store"}

\* A goroutine is scheduled for as long as the process lives; MuPDF and the
\* file system return, S3 need not.  Conversions are as fair as ConvFairness
\* says.
FairSpec == Spec /\ WF_vars(~ WaitsForS3 /\ Task) /\ ConvFairness

-----------------------------------------------------------------------------
(* What the goroutine promises.                                            *)

\* The progress a client sees while the job is processed never falls, from
\* the download through every page count to the upload of the text.
ProgressNeverFalls ==
    [][status.state = "processing" /\ status'.state = "processing"
          => status'.progress >= status.progress]_vars

\* A job shows success only when the text of its whole document is stored.
SuccessHasWholeText ==
    status.state = "success" => result = 1..total /\ pc = "returned"

\* The document the goroutine reads is there for as long as it is read: no
\* clean-up of another job and no late office process takes it away.  After a
\* conversion that is the output its call named, which may be the document.
DocumentStays ==
    origin = "s3" /\ pc \in {"detect", "convert", "count", "extract"} =>
        IF outcome[Mine] \in Names THEN output[Mine] \in {outcome[Mine], "input"}
                                  ELSE "s3download" \in temps

\* A goroutine of an API job that returned, on whatever path, leaves neither
\* the document nor its PDF behind; only a conversion that did not succeed may
\* have left an output.  An upload and the PDF made of it are never removed.
NoFilesLeft ==
    origin = "s3" /\ pc = "returned" =>
        /\ "s3download" \notin temps
        /\ output[Mine] \in {"absent", "removed"} \/ outcome[Mine] \notin Names

\* Every access to S3 comes back, which nothing in the code enforces.
S3Answers == []<> ~ WaitsForS3

\* The job's status comes to rest: a job that is taken up does not stay
\* "processing" for ever, unless the process died, a write was lost, or a
\* password check or an access to S3 hangs.
EventuallyFinal ==
    ChecksReturn /\ S3Answers =>
        (status.state = "processing" ~>
            \/ [](status.state \in {"failed", "cancelled", "success"})
            \/ pc = "died" \/ lost)

\* A job that was cancelled stays cancelled.
CancelledIsFinal ==
    [][status.state = "cancelled" => status'.state = "cancelled"]_vars
=============================================================================
