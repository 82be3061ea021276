------------------------------ MODULE Delivery ------------------------------
(***************************************************************************)
(* Text-only jobs from the S3 object they name to the S3 object they       *)
(* write, and the clients that ask for their progress by the file's name.  *)
(* The jobs name the same file: handleProcess registers each, the          *)
(* goroutine processMuPDFOnlyFromS3 works on it, SaveAggregatedTextToS3    *)
(* stores its text, and handleProgress answers a poll.  The file's owner   *)
(* may replace it, with any tool and password, and its bytes may be        *)
(* damaged.                                                                *)
(*                                                                         *)
(* TextOnly has the goroutine's every status write and temporary file;     *)
(* here its steps are its accesses to S3, and what a poll can see between  *)
(* them.  A document is the lines of its one page, and TextOnly puts pages *)
(* together; without a line it is an empty file.  Object metadata is left  *)
(* out but for the name's extension; so are other files, one of which may  *)
(* lie where a result goes.                                                *)
(***************************************************************************)
EXTENDS PageText, S3Storage, FileType

CONSTANTS
    Jobs,         \* the jobs, each the key of its result under results/
    Documents,    \* what the original may hold
    Passwords,    \* of files and requests
    Versions,     \* of the original: a document, the format and the password
                  \* it is stored under
    Extensions,   \* of the name in the original's metadata
    MaxChanges,   \* bound on what befalls the original
    MaxPolls,     \* bound on polls
    MaxFaults     \* bound on the kinds of access that fail

ASSUME JobsAssumption == Jobs \cap {"none", "original", "beside"} = {}
\* A line is neither a line break nor the mark that TextOf puts before a page.
ASSUME DocumentsAssumption ==
    Documents \subseteq Seq((Mark + 1)..(MaxByte - 1))
\* The files of old tools fill their blocks.
ASSUME VersionsAssumption ==
    /\ Versions \subseteq
           [format : Formats, password : Passwords, document : Documents]
    /\ \A v \in Versions : v.format = "oldCbc" => Len(v.document) % Block = 0
ASSUME ExtensionsAssumption == Extensions \subseteq Types \cup {"none"}
ASSUME BoundsAssumption ==
    MaxChanges \in Nat /\ MaxPolls \in Nat /\ MaxFaults \in Nat

VARIABLES
    extension,  \* of the original's name
    suffixed,   \* the original's key ends in "_original"
    password,   \* per job: what its request carries
    bucket,     \* the S3 objects
    held,       \* every version the original has had
    changes,    \* how often the original was replaced or damaged
    step,       \* per job: its next step
    data,       \* per job: what it downloaded, then the text, till it returns
    state,      \* per job: the state in its status hash, if there is one
    index,      \* file_to_job:<file id>
    pstep,      \* the poll's next step
    polls,      \* polls begun
    asked,      \* the poll's view: [known: the file was indexed when it
                \* began, err: its first read failed, job: what it resolved]
    answer,     \* the last poll's answer
    faults      \* the accesses to the status store that have failed

fileVars == <<extension, suffixed, password>>
objectVars == <<bucket, held, changes>>
jobVars == <<step, data, state>>
pollVars == <<pstep, polls, asked, answer>>
vars == <<fileVars, objectVars, jobVars, index, pollVars, faults>>

Keys == {"original", "beside"} \cup Jobs
States == {"absent", "queued", "processing", "failed", "success"}
Objects ==
    [format : Formats \cup {"absent"}, password : Passwords \cup {""},
     plain : Seq(Bytes), damaged : BOOLEAN]
NotAsked == [known |-> FALSE, err |-> FALSE, job |-> "none"]

TypeOK ==
    /\ extension \in Extensions /\ suffixed \in BOOLEAN
    /\ password \in [Jobs -> Passwords]
    /\ bucket \in [Keys -> Objects]
    /\ \A k \in Keys : bucket[k].format \in {"cbc", "oldCbc"}
                           => Len(bucket[k].plain) % Block = 0
    /\ held \subseteq Versions /\ changes \in 0..MaxChanges
    /\ step \in [Jobs -> {"new", "index", "download", "open", "extract",
                          "store", "succeed", "returned"}]
    /\ data \in [Jobs -> Seq(Bytes)]
    /\ state \in [Jobs -> States]
    /\ index \in Jobs \cup {"none"}
    /\ pstep \in {"idle", "resolve", "mapped"}
    /\ polls \in 0..MaxPolls
    /\ asked \in [known : BOOLEAN, err : BOOLEAN, job : Jobs \cup {"none"}]
    /\ answer \in {"none", "notFound", "error"} \cup States
    /\ faults \subseteq {"create", "index", "expiry", "direct", "resolve",
                         "mapped"}

\* What the client's tool makes of a version.
Wrapped(v) == Envelope(v.format, v.password, v.document)

Init ==
    /\ extension \in Extensions /\ suffixed \in BOOLEAN
    /\ password \in [Jobs -> Passwords]
    /\ \E v \in Versions :
          /\ bucket = [k \in Keys |->
                         IF k = "original" THEN Wrapped(v) ELSE NoObject]
          /\ held = {v}
    /\ changes = 0
    /\ step = [j \in Jobs |-> "new"]
    /\ data = [j \in Jobs |-> <<>>]
    /\ state = [j \in Jobs |-> "absent"]
    /\ index = "none"
    /\ pstep = "idle" /\ polls = 0 /\ asked = NotAsked /\ answer = "none"
    /\ faults = {}

\* One access fails; for a write the code drops the error.
Fault(access) ==
    /\ Cardinality(faults) < MaxFaults
    /\ faults' = faults \cup {access}

-----------------------------------------------------------------------------
(* A job.                                                                  *)

Goto(j, s) == step' = [step EXCEPT ![j] = s]
SetState(j, s) == state' = [state EXCEPT ![j] = s]

\* The goroutine returns, and what it held is gone.
Finish(j, s) ==
    /\ Goto(j, "returned") /\ SetState(j, s)
    /\ data' = [data EXCEPT ![j] = <<>>]

Fail(j) == Finish(j, "failed")

\* Faulty variant: the job gets its status once its file is read.
CreateJobLate(j) ==
    /\ step[j] = "new"
    /\ Goto(j, "index")
    /\ UNCHANGED <<fileVars, objectVars, data, state, index, pollVars, faults>>

\* handleProcess: the job's status is written first.
CreateJob(j) ==
    /\ step[j] = "new"
    /\ Goto(j, "index")
    /\ \/ SetState(j, "queued") /\ UNCHANGED faults
       \/ Fault("create") /\ UNCHANGED state
    /\ UNCHANGED <<fileVars, objectVars, data, index, pollVars>>

\* SetFileJobMapping: the last job to be indexed is the file's.
IndexFile(j) ==
    /\ step[j] = "index"
    /\ Goto(j, "download")
    /\ \/ index' = j /\ UNCHANGED faults
       \/ Fault("index") /\ UNCHANGED index
    /\ UNCHANGED <<fileVars, objectVars, data, state, pollVars>>

\* The job is announced as "processing" and its file read.
Download(j) ==
    /\ step[j] = "download"
    /\ LET got == Decrypt(bucket["original"], password[j]) IN
          /\ got.ok
          /\ data' = [data EXCEPT ![j] = got.data]
    /\ Goto(j, "open") /\ SetState(j, "processing")
    /\ UNCHANGED <<fileVars, objectVars, index, pollVars, faults>>

\* The download, the write of the file or an access to S3 fails.
DownloadFails(j) ==
    /\ step[j] = "download"
    /\ Fail(j)
    /\ UNCHANGED <<fileVars, objectVars, index, pollVars, faults>>

\* What the detector may take the downloaded d for: gibberish is binary or,
\* if it is short, passes for text; that it begins like an image is left out.
Seen(d) ==
    LET magics == CASE d = Gibberish -> {"octetStream", "text"}
                    [] d = <<>> -> {"text"}
                    [] OTHER -> {IF extension \in MSOffice \cup TextTypes
                                    THEN extension ELSE "pdf"}
    IN {Detect([magic |-> m, extension |-> extension]) : m \in magics}

\* MuPDF opens a document, and whatever is named like a text.
Opens(d) == d \notin {Gibberish, <<>>} \/ extension \in TextTypes

\* An office program may make a PDF of anything.
Open(j) ==
    /\ step[j] = "open"
    /\ \E t \in Seen(data[j]) :
          /\ Supported(t)
          /\ RequiresConversion(t) \/ Opens(data[j])
    /\ Goto(j, "extract")
    /\ UNCHANGED <<fileVars, objectVars, data, state, index, pollVars, faults>>

\* Not supported, not converted or not to be opened.
OpenFails(j) ==
    /\ step[j] = "open"
    /\ Fail(j)
    /\ UNCHANGED <<fileVars, objectVars, index, pollVars, faults>>

Extract(j) ==
    /\ step[j] = "extract"
    /\ data' = [data EXCEPT ![j] = TextOf(@)]
    /\ Goto(j, "store")
    /\ UNCHANGED <<fileVars, objectVars, state, index, pollVars, faults>>

\* The text goes beside the file, or under results/ for an unusual key.
ResultKey(j) == IF suffixed THEN "beside" ELSE j

\* SaveAggregatedTextToS3; the original is read again for its metadata only,
\* and a failure of that is no failure.
StoreText(j) ==
    /\ step[j] = "store"
    /\ bucket' = [bucket EXCEPT ![ResultKey(j)] = Encrypt(data[j], password[j])]
    /\ Goto(j, "succeed")
    /\ UNCHANGED <<fileVars, held, changes, data, state, index, pollVars, faults>>

StoreFails(j) ==
    /\ step[j] = "store"
    /\ Fail(j)
    /\ UNCHANGED <<fileVars, objectVars, index, pollVars, faults>>

Succeed(j) ==
    /\ step[j] = "succeed"
    /\ Finish(j, "success")
    /\ UNCHANGED <<fileVars, objectVars, index, pollVars, faults>>

JobStep(j) ==
    \/ CreateJob(j) \/ IndexFile(j)
    \/ Download(j) \/ DownloadFails(j) \/ Open(j) \/ OpenFails(j)
    \/ Extract(j) \/ StoreText(j) \/ StoreFails(j) \/ Succeed(j)

-----------------------------------------------------------------------------
(* The file's owner and its bytes.                                         *)

\* The owner stores another version.
Replace ==
    /\ changes < MaxChanges
    /\ changes' = changes + 1
    /\ \E v \in Versions :
          /\ bucket' = [bucket EXCEPT !["original"] = Wrapped(v)]
          /\ held' = held \cup {v}
    /\ UNCHANGED <<fileVars, jobVars, index, pollVars, faults>>

Damage ==
    /\ changes < MaxChanges
    /\ changes' = changes + 1
    /\ bucket' = [bucket EXCEPT !["original"].damaged = TRUE]
    /\ UNCHANGED <<fileVars, held, jobVars, index, pollVars, faults>>

\* Seven days after the last job.
Expire ==
    /\ index # "none"
    /\ Fault("expiry")
    /\ index' = "none"
    /\ UNCHANGED <<fileVars, objectVars, jobVars, pollVars>>

-----------------------------------------------------------------------------
(* handleProgress, asked for the file's id.                                *)

\* The id is tried for a job's first.  No job has the id of a file: there is
\* nothing to find, or an error.
Poll ==
    /\ pstep = "idle" /\ polls < MaxPolls
    /\ pstep' = "resolve" /\ polls' = polls + 1
    /\ answer' = "none"
    /\ \E failed \in BOOLEAN :
          /\ IF failed THEN Fault("direct") ELSE UNCHANGED faults
          /\ asked' = [known |-> index # "none", err |-> failed, job |-> "none"]
    /\ UNCHANGED <<fileVars, objectVars, jobVars, index>>

Respond(a) ==
    /\ pstep' = "idle" /\ answer' = a
    /\ asked' = [NotAsked EXCEPT !.known = asked.known]

\* GetJobByFileID: an error is taken for an unknown file.
Resolve ==
    /\ pstep = "resolve"
    /\ \/ /\ index # "none"
          /\ pstep' = "mapped" /\ asked' = [asked EXCEPT !.job = index]
          /\ UNCHANGED <<answer, faults>>
       \/ /\ \/ index = "none" /\ UNCHANGED faults
             \/ Fault("resolve")
          /\ Respond(IF asked.err THEN "error" ELSE "notFound")
    /\ UNCHANGED <<fileVars, objectVars, jobVars, index, polls>>

\* The second read shadows err: its own error is answered as "not found", and
\* the error of the first read stands although the second one worked.
ReadMapped ==
    /\ pstep = "mapped"
    /\ \/ /\ UNCHANGED faults
          /\ Respond(IF asked.err THEN "error"
                     ELSE IF state[asked.job] = "absent" THEN "notFound"
                     ELSE state[asked.job])
       \/ /\ Fault("mapped")
          /\ Respond(IF asked.err THEN "error" ELSE "notFound")
    /\ UNCHANGED <<fileVars, objectVars, jobVars, index, polls>>

Next ==
    \/ \E j \in Jobs : JobStep(j)
    \/ Replace \/ Damage \/ Expire
    \/ Poll \/ Resolve \/ ReadMapped

Spec == Init /\ [][Next]_vars

-----------------------------------------------------------------------------
(* What delivery promises.                                                 *)

\* The original was in a format that does not notice a wrong password.
WasCBC == \E v \in held : v.format \in {"cbc", "oldCbc"}

\* The detector believes the name of what it cannot tell, MuPDF that of a text.
NameMisleads ==
    extension \in (Believed("octetStream") \ {"pdf"}) \cup TextTypes

\* A job whose password is that of no version of its file ends in failure,
\* whatever befalls the file.  Only a file in a CBC format gets past the
\* download without its password, and the gibberish then only past the
\* detector under the name of an office document or a text.
WrongPasswordFails ==
    \A j \in Jobs :
        state[j] = "success" =>
            \/ \E v \in held : v.password = password[j]
            \/ WasCBC /\ NameMisleads

\* CBC formats alone allow a misreading: of gibberish, or of a file without
\* padding whose end looks like it.
Misleading ==
    \/ /\ NameMisleads /\ WasCBC
       /\ \E v \in held, j \in Jobs : v.password # password[j]
    \/ \E v \in held : v.format = "oldCbc" /\ LooksPadded(v.document)

\* The jobs that have stored their text where j did.
Writers(j) ==
    {i \in Jobs : /\ ResultKey(i) = ResultKey(j)
                  /\ step[i] = "succeed" \/ state[i] = "success"}

\* The object that a successful job names is there and decrypts to the whole
\* text of a document that the original has held, also when two jobs of one
\* file write the same object, the owner replaces the file in between and its
\* bytes get damaged.  The password is that of a job that wrote the object:
\* its own, unless another one with another password wrote it after it.
ReadBack ==
    ~ Misleading =>
        \A j \in Jobs :
            state[j] = "success" =>
                \E i \in Writers(j) :
                    LET got == Decrypt(bucket[ResultKey(j)], password[i]) IN
                    got.ok /\ \E v \in held : got.data = TextOf(v.document)

\* A client that polls a file which was indexed when it asked is told its
\* state, unless an access failed or the index expired; and an error is
\* answered only if the first read failed.
KnownFileIsFound ==
    /\ answer = "notFound" /\ asked.known
          => faults \cap {"create", "expiry", "resolve", "mapped"} # {}
    /\ answer = "error" => "direct" \in faults

\* The text of a page has every line that was kept, once and in order.
WordsKept ==
    \A j \in Jobs :
        step[j] = "extract" =>
            Without(TextOf(data[j]), {Break, Mark}) = Kept(data[j])

\* Two lines share a line of the text only if the second goes on where the
\* first was broken off, and no third one follows them there.
JoinsOnlyBroken ==
    \A j \in Jobs :
        step[j] = "extract" =>
            OnlyBrokenJoined(FixBrokenLines(Kept(data[j])))
=============================================================================
