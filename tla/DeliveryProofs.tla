---------------------------- MODULE DeliveryProofs ----------------------------
(***************************************************************************)
(* Delivery for any number of jobs, documents, changes, polls and faults.  *)
(* The invariant follows a document from the original through the job that *)
(* reads it to the object that names its text, and beside that an indexed  *)
(* file to its job's status.                                               *)
(***************************************************************************)
EXTENDS Delivery, S3StorageProofs, PageTextProofs

\* The original is what the client's tool made of a version it has had.
OriginalInv ==
    \E v \in held :
        /\ bucket["original"].format = v.format
        /\ bucket["original"].password = v.password
        /\ bucket["original"].plain =
              IF v.format = "cbc" THEN Pad(v.document) ELSE v.document

\* What a job has downloaded: a document, which may be had without its password
\* only if it is empty, one cut short, or gibberish.
CBC(v) == v.format \in {"cbc", "oldCbc"}
Genuine(j) ==
    \E v \in held :
        /\ data[j] = v.document
        /\ v.password = password[j] \/ (CBC(v) /\ v.document = <<>>)
CutShort(j) ==
    \E v \in held :
        /\ v.format = "oldCbc" /\ LooksPadded(v.document)
        /\ v.password = password[j] /\ data[j] = Unpad(v.document)
Senseless(j) ==
    /\ data[j] = Gibberish
    /\ \E v \in held : CBC(v) /\ v.password # password[j]

DataInv ==
    \A j \in Jobs :
        step[j] \in {"open", "extract"}
            => Genuine(j) \/ CutShort(j) \/ Senseless(j)

\* A job that got past the detector, and why it did; gibberish did so only
\* where the name misleads.
Past(j) ==
    step[j] \in {"extract", "store", "succeed"} \/ state[j] = "success"
Entitled(j) == \E v \in held : v.password = password[j]

PastInv ==
    \A j \in Jobs :
        /\ Past(j) => Entitled(j) \/ (WasCBC /\ NameMisleads)
        /\ step[j] = "extract" => Genuine(j) \/ CutShort(j) \/ NameMisleads
        /\ state[j] = "success" => step[j] = "returned"

\* Texts and results are those of held documents, unless something misleads.
Writing(i) == step[i] = "succeed" \/ state[i] = "success"
TextInv ==
    ~ Misleading =>
        /\ \A j \in Jobs : step[j] \in {"store", "succeed"} =>
              \E v \in held : data[j] = TextOf(v.document)
        /\ \A j \in Jobs : Writing(j) =>
              \E i \in Writers(j), v \in held :
                  bucket[ResultKey(j)] =
                      Encrypt(TextOf(v.document), password[i])

\* An indexed job has a status, and a poll remembers why it cannot find one.
Announced(j) == state[j] # "absent" \/ "create" \in faults

PollInv ==
    /\ \A j \in Jobs : step[j] # "new" => Announced(j)
    /\ index # "none" => Announced(index)
    /\ pstep = "mapped" => asked.job \in Jobs /\ Announced(asked.job)
    /\ pstep = "resolve" /\ asked.known
          => index # "none" \/ "expiry" \in faults
    /\ asked.err => "direct" \in faults
    /\ KnownFileIsFound

Inv == TypeOK /\ OriginalInv /\ DataInv /\ PastInv /\ TextInv /\ PollInv

-----------------------------------------------------------------------------
(* Facts about the constants.                                              *)

LEMMA KeysDiffer ==
    /\ "original" \in Keys /\ "beside" \in Keys /\ Jobs \subseteq Keys
    /\ \A j \in Jobs : ResultKey(j) \in Keys \ {"original"}
    /\ "none" \notin Jobs
<1>1. "original" \in Keys /\ "beside" \in Keys /\ Jobs \subseteq Keys
  BY DEF Keys
<1>2. "original" \notin Jobs /\ "none" \notin Jobs
  BY JobsAssumption
<1>3. ASSUME NEW j \in Jobs
      PROVE  ResultKey(j) \in Keys \ {"original"}
  <2>1. j \in Keys /\ j # "original"
    BY <1>1, <1>2
  <2>2. ResultKey(j) = j \/ ResultKey(j) = "beside"
    BY DEF ResultKey
  <2>. QED
    BY <1>1, <2>1, <2>2
<1>. QED
  BY <1>1, <1>2, <1>3

\* The lines of a page.
Lines == (Mark + 1)..MaxByte

LEMMA LinesAreBytes ==
    /\ Break \notin Lines /\ Mark \notin Lines
    /\ Lines \subseteq Bytes /\ Lines \cup {Break, Mark} \subseteq Bytes
    /\ MaxByte \in Lines
  BY BlockAssumption DEF Lines, Bytes, Break, Mark

LEMMA DocumentsAreLines ==
    ASSUME NEW d \in Documents
    PROVE  d \in Seq(Lines) /\ d \in Seq(Bytes)
<1>1. d \in Seq((Mark + 1)..(MaxByte - 1))
  BY DocumentsAssumption
<1>2. (Mark + 1)..(MaxByte - 1) \subseteq Lines
  BY BlockAssumption DEF Lines, Mark
<1>3. d \in Seq(Lines)
  BY <1>1, <1>2, SeqMonotonic
<1>. QED
  BY <1>3, LinesAreBytes, SeqMonotonic

LEMMA GibberishIsBytes ==
    /\ Gibberish \in Seq(Lines) /\ Gibberish \in Seq(Bytes)
    /\ ~ LooksPadded(Gibberish)
<1>1. MaxByte \in Bytes /\ MaxByte \in Lines
  BY LinesAreBytes
<1>2. /\ Gibberish \in Seq(Lines) /\ Gibberish \in Seq(Bytes)
      /\ Len(Gibberish) = 1 /\ Gibberish[1] = MaxByte
  BY <1>1 DEF Gibberish
<1>3. MaxByte \notin 1..Block
  BY BlockAssumption
<1>. QED
  BY <1>2, <1>3 DEF LooksPadded

\* The text of a page of lines.
LEMMA TextIsBytes ==
    ASSUME NEW page \in Seq(Lines)
    PROVE  TextOf(page) \in Seq(Bytes)
<1>1. TextOf(page) \in Seq(Lines \cup {Break, Mark})
  BY TextType
<1>. QED
  BY <1>1, LinesAreBytes, SeqMonotonic

LEMMA ObjectType ==
    ASSUME NEW f \in Formats \cup {"absent"}, NEW pw \in Passwords \cup {""},
           NEW p \in Seq(Bytes), NEW b \in BOOLEAN
    PROVE  [format |-> f, password |-> pw, plain |-> p, damaged |-> b] \in Objects
<1>. DEFINE F == Formats \cup {"absent"}
            P == Passwords \cup {""}
            B == Seq(Bytes)
<1>1. f \in F /\ pw \in P /\ p \in B /\ b \in BOOLEAN
  OBVIOUS
<1>2. Objects = [format : F, password : P, plain : B, damaged : BOOLEAN]
  BY DEF Objects
<1>. HIDE DEF F, P, B
<1>. QED
  BY <1>1, <1>2

LEMMA EnvelopeFacts ==
    ASSUME NEW v \in Versions
    PROVE  LET o == Wrapped(v) IN
           /\ o \in Objects
           /\ o.format = v.format /\ o.password = v.password /\ ~ o.damaged
           /\ o.plain = IF v.format = "cbc" THEN Pad(v.document) ELSE v.document
           /\ o.format \in {"cbc", "oldCbc"} => Len(o.plain) % Block = 0
<1>1. /\ v.format \in Formats /\ v.password \in Passwords
      /\ v.document \in Documents
      /\ v.format = "oldCbc" => Len(v.document) % Block = 0
  BY VersionsAssumption
<1>. DEFINE f == v.format
            d == v.document
            p == IF f = "cbc" THEN Pad(d) ELSE d
<1>2. d \in Seq(Bytes) /\ Pad(d) \in Seq(Bytes)
  BY <1>1, DocumentsAreLines, PadShape
<1>3. Wrapped(v) =
        [format |-> f, password |-> v.password, plain |-> p, damaged |-> FALSE]
  BY DEF Wrapped, Envelope, Object
<1>4. p \in Seq(Bytes)
  BY <1>2
<1>5. f \in {"cbc", "oldCbc"} => Len(p) % Block = 0
  BY <1>1, <1>2, PadFillsBlocks
<1>6. f \in Formats
  BY <1>1
<1>. HIDE DEF p, f
<1>7. Wrapped(v) \in Objects
  BY <1>1, <1>3, <1>4, <1>6, ObjectType
<1>8. /\ Wrapped(v).plain = p /\ Wrapped(v).format = f
      /\ Wrapped(v).password = v.password /\ ~ Wrapped(v).damaged
  BY <1>3
<1>. QED
  BY <1>5, <1>7, <1>8 DEF p, f

LEMMA EncryptFacts ==
    ASSUME NEW t \in Seq(Bytes), NEW pw \in Passwords
    PROVE  LET o == Encrypt(t, pw) IN
           /\ o \in Objects /\ o # NoObject
           /\ Len(o.plain) % Block = 0
<1>1. Pad(t) \in Seq(Bytes) /\ Len(Pad(t)) % Block = 0
  BY PadShape, PadFillsBlocks
<1>2. Encrypt(t, pw) = [format |-> "cbc", password |-> pw, plain |-> Pad(t),
                        damaged |-> FALSE]
  BY DEF Encrypt, Object
<1>3. "cbc" \in Formats \cup {"absent"}
  BY DEF Formats
<1>4. Encrypt(t, pw) \in Objects
  BY <1>1, <1>2, <1>3, ObjectType
<1>5. Encrypt(t, pw).format = "cbc" /\ NoObject.format = "absent"
  BY <1>2 DEF NoObject, Object
<1>6. Encrypt(t, pw).plain = Pad(t)
  BY <1>2
<1>. QED
  BY <1>1, <1>4, <1>5, <1>6

\* Only a misleading name takes gibberish, or an empty file, past the detector.
LEMMA EmptyNeedsName ==
    ASSUME NEW d \in {Gibberish, <<>>}, NEW t \in Seen(d),
           Supported(t), RequiresConversion(t) \/ Opens(d)
    PROVE  NameMisleads
<1>1. CASE Opens(d)
  BY <1>1 DEF Opens, NameMisleads
<1>2. CASE RequiresConversion(t)
  <2>1. PICK m \in {"octetStream", "text"} :
           t = Detect([magic |-> m, extension |-> extension])
    <3>1. CASE d = Gibberish
      BY <3>1 DEF Seen
    <3>2. CASE d # Gibberish /\ d = <<>>
      BY <3>2 DEF Seen
    <3>. QED
      BY <3>1, <3>2
  <2>2. m # "text"
    <3>1. ~ RequiresConversion("text")
      BY DEF RequiresConversion, IsText, TextTypes
    <3>2. m = "text" => t = "text"
      BY <2>1 DEF Detect, Believed
    <3>. QED
      BY <1>2, <3>1, <3>2
  <2>3. ~ Supported("octetStream") /\ ~ RequiresConversion("pdf")
    BY DEF Supported, RequiresConversion
  <2>4. extension \in Believed("octetStream") /\ t = extension
    BY <2>1, <2>2, <2>3 DEF Detect
  <2>. QED
    BY <1>2, <2>3, <2>4 DEF NameMisleads
<1>. QED
  BY <1>1, <1>2

-----------------------------------------------------------------------------
(* The original, and what never changes.                                   *)

\* What holds of every step: versions are remembered, the jobs' passwords and
\* the name stay.
Frame == held \subseteq held' /\ fileVars' = fileVars

LEMMA OriginalPreserved ==
    ASSUME TypeOK, OriginalInv, [Next]_vars
    PROVE  OriginalInv' /\ Frame
<1>1. bucket \in [Keys -> Objects] /\ "original" \in Keys
  BY KeysDiffer DEF TypeOK
<1>2. CASE UNCHANGED <<fileVars, objectVars>>
  BY <1>2 DEF objectVars, OriginalInv, Frame
<1>3. ASSUME NEW j \in Jobs, StoreText(j)
      PROVE  OriginalInv' /\ Frame
  <2>1. ResultKey(j) \in Keys \ {"original"}
    BY KeysDiffer
  <2>2. bucket'["original"] = bucket["original"] /\ held' = held
        /\ fileVars' = fileVars
    BY <1>1, <1>3, <2>1 DEF StoreText
  <2>. QED
    BY <2>2 DEF OriginalInv, Frame
<1>4. CASE Replace
  <2>1. PICK v \in Versions :
           /\ bucket' = [bucket EXCEPT !["original"] = Wrapped(v)]
           /\ held' = held \cup {v}
    BY <1>4 DEF Replace
  <2>2. bucket'["original"] = Wrapped(v) /\ v \in held'
    BY <1>1, <2>1
  <2>3. fileVars' = fileVars
    BY <1>4 DEF Replace
  <2>4. OriginalInv'
    BY <2>2, EnvelopeFacts DEF OriginalInv
  <2>. QED
    BY <2>1, <2>3, <2>4 DEF Frame
<1>5. CASE Damage
  <2>1. bucket'["original"] = [bucket["original"] EXCEPT !.damaged = TRUE]
    BY <1>1, <1>5 DEF Damage
  <2>2. bucket["original"] \in Objects
    BY <1>1
  <2>3. /\ bucket'["original"].format = bucket["original"].format
        /\ bucket'["original"].password = bucket["original"].password
        /\ bucket'["original"].plain = bucket["original"].plain
    BY <2>1, <2>2 DEF Objects
  <2>4. held' = held /\ fileVars' = fileVars
    BY <1>5 DEF Damage
  <2>. QED
    BY <2>3, <2>4 DEF OriginalInv, Frame
<1>6. ASSUME NEW j \in Jobs, JobStep(j), ~ StoreText(j)
      PROVE  UNCHANGED <<fileVars, objectVars>>
  BY <1>6 DEF JobStep, CreateJob, IndexFile, Download, DownloadFails,
       Open, OpenFails, Extract, StoreFails, Succeed
<1>7. CASE Expire \/ Poll \/ Resolve \/ ReadMapped
  <2>1. UNCHANGED <<fileVars, objectVars>>
    BY <1>7 DEF Expire, Poll, Resolve, ReadMapped
  <2>. QED
    BY <1>2, <2>1
<1>. QED
  BY <1>2, <1>3, <1>4, <1>5, <1>6, <1>7 DEF Next, vars

LEMMA FrameFacts ==
    ASSUME Frame
    PROVE  /\ held \subseteq held' /\ password' = password
           /\ NameMisleads' = NameMisleads
           /\ WasCBC => WasCBC'
           /\ Misleading => Misleading'
           /\ \A j : ResultKey(j)' = ResultKey(j)
<1>1. /\ held \subseteq held' /\ password' = password
      /\ extension' = extension /\ suffixed' = suffixed
  BY DEF Frame, fileVars
<1>2. NameMisleads' = NameMisleads
  BY <1>1 DEF NameMisleads
<1>3. WasCBC => WasCBC'
  BY <1>1 DEF WasCBC
<1>4. Misleading => Misleading'
  <2>1. ASSUME \E v \in held, j \in Jobs : v.password # password[j]
        PROVE  \E v \in held', j \in Jobs : v.password # password'[j]
    BY <1>1, <2>1
  <2>2. ASSUME \E v \in held : v.format = "oldCbc" /\ LooksPadded(v.document)
        PROVE  \E v \in held' : v.format = "oldCbc" /\ LooksPadded(v.document)
    BY <1>1, <2>2
  <2>. QED
    BY <1>2, <1>3, <2>1, <2>2 DEF Misleading
<1>5. \A j : ResultKey(j)' = ResultKey(j)
  BY <1>1 DEF ResultKey
<1>. QED
  BY <1>1, <1>2, <1>3, <1>4, <1>5

-----------------------------------------------------------------------------
(* What a download brings.                                                 *)

LEMMA DownloadBrings ==
    ASSUME TypeOK, OriginalInv, NEW j \in Jobs, Download(j)
    PROVE  \E v \in held :
              \/ /\ data'[j] = v.document
                 /\ v.password = password[j] \/ (CBC(v) /\ v.document = <<>>)
              \/ /\ v.format = "oldCbc" /\ LooksPadded(v.document)
                 /\ v.password = password[j] /\ data'[j] = Unpad(v.document)
              \/ /\ data'[j] = Gibberish
                 /\ CBC(v) /\ v.password # password[j]
<1>. DEFINE o == bucket["original"]
            got == Decrypt(o, password[j])
<1>1. got.ok /\ data'[j] = got.data
  BY DEF Download, TypeOK
<1>2. PICK v \in held :
         /\ o.format = v.format /\ o.password = v.password
         /\ o.plain = IF v.format = "cbc" THEN Pad(v.document) ELSE v.document
  BY DEF OriginalInv
<1>3. v \in Versions /\ v.document \in Documents /\ v.format \in Formats
  BY <1>2, VersionsAssumption DEF TypeOK
<1>. DEFINE d == v.document
<1>4. d \in Seq(Bytes)
  BY <1>3, DocumentsAreLines
<1>5. o.format # "absent"
  BY <1>2, <1>3 DEF Formats
<1>. HIDE DEF o
<1>6. got # Unreadable /\ ~ Unreadable.ok
  BY <1>1 DEF Unreadable
<1>7. ~ o.damaged
  BY <1>5, <1>6, Zenon DEF Decrypt
<1>8. CASE o.format = "gcm"
  <2>1. got = IF password[j] = o.password THEN Clear(o.plain) ELSE Unreadable
    BY <1>5, <1>7, <1>8, Zenon DEF Decrypt
  <2>2. password[j] = v.password /\ got = Clear(d)
    BY <1>2, <1>6, <1>8, <2>1
  <2>. QED
    BY <1>1, <2>2 DEF Clear
<1>9. CASE o.format \in {"cbc", "oldCbc"}
  <2>1. got = IF password[j] = o.password THEN Clear(Unpad(o.plain))
                                          ELSE Clear(Scrambled(o.plain))
    BY <1>5, <1>7, <1>9, Zenon DEF Decrypt
  <2>2. CBC(v)
    BY <1>2, <1>9 DEF CBC
  <2>3. CASE password[j] # v.password
    <3>1. data'[j] = Scrambled(o.plain)
      BY <1>1, <1>2, <2>1, <2>3 DEF Clear
    <3>2. CASE o.plain = <<>>
      <4>1. Pad(d) # <<>>
        BY <1>4, PaddingIsFound DEF LooksPadded
      <4>2. d = <<>> /\ data'[j] = <<>>
        BY <1>2, <3>1, <3>2, <4>1 DEF Scrambled
      <4>. QED
        BY <2>2, <4>2
    <3>3. CASE o.plain # <<>>
      BY <2>2, <2>3, <3>1, <3>3 DEF Scrambled
    <3>. QED
      BY <3>2, <3>3
  <2>4. CASE password[j] = v.password /\ v.format = "cbc"
    <3>1. Unpad(o.plain) = d
      BY <1>2, <1>4, <2>4, PaddingRoundTrip
    <3>. QED
      BY <1>1, <1>2, <2>1, <2>4, <3>1 DEF Clear
  <2>5. CASE password[j] = v.password /\ v.format = "oldCbc"
    <3>1. data'[j] = Unpad(d)
      BY <1>1, <1>2, <2>1, <2>5 DEF Clear
    <3>2. LooksPadded(d) \/ Unpad(d) = d
      BY DEF Unpad
    <3>. QED
      BY <2>5, <3>1, <3>2
  <2>. QED
    BY <1>2, <1>9, <2>3, <2>4, <2>5
<1>. QED
  BY <1>2, <1>3, <1>8, <1>9 DEF Formats

\* Whatever a job reads is lines, and so is its text.
LEMMA ReadIsLines ==
    ASSUME TypeOK, NEW d,
           \/ \E v \in held : d = v.document \/ d = Unpad(v.document)
           \/ d = Gibberish
    PROVE  d \in Seq(Lines) /\ d \in Seq(Bytes) /\ TextOf(d) \in Seq(Bytes)
<1>1. ASSUME NEW v \in held PROVE v.document \in Seq(Lines)
  BY VersionsAssumption, DocumentsAreLines DEF TypeOK
<1>2. d \in Seq(Lines)
  <2>1. CASE \E v \in held : d = v.document
    BY <1>1, <2>1
  <2>2. CASE \E v \in held : d = Unpad(v.document)
    BY <1>1, <2>2, UnpadType
  <2>3. CASE d = Gibberish
    BY <2>3, GibberishIsBytes
  <2>. QED
    BY <2>1, <2>2, <2>3
<1>3. d \in Seq(Bytes)
  BY <1>2, LinesAreBytes, SeqMonotonic
<1>. QED
  BY <1>2, <1>3, TextIsBytes

-----------------------------------------------------------------------------
(* The invariant is kept.                                                  *)

\* The objects keep their shape.
Stored ==
    /\ bucket \in [Keys -> Objects]
    /\ \A k \in Keys : bucket[k].format \in {"cbc", "oldCbc"}
                           => Len(bucket[k].plain) % Block = 0
    /\ held \subseteq Versions /\ changes \in 0..MaxChanges

LEMMA StoredPreserved ==
    ASSUME Inv, [Next]_vars
    PROVE  Stored'
<1>. USE DEF Inv
<1>1. Stored /\ "original" \in Keys
  BY KeysDiffer DEF TypeOK, Stored
<1>2. CASE UNCHANGED objectVars
  BY <1>1, <1>2 DEF objectVars, Stored
<1>3. ASSUME NEW j \in Jobs, StoreText(j)
      PROVE  Stored'
  <2>. DEFINE o == Encrypt(data[j], password[j])
  <2>1. data[j] \in Seq(Bytes) /\ password[j] \in Passwords
    BY DEF TypeOK
  <2>2. o \in Objects /\ Len(o.plain) % Block = 0
    BY <2>1, EncryptFacts
  <2>3. bucket' = [bucket EXCEPT ![ResultKey(j)] = o]
        /\ UNCHANGED <<held, changes>>
    BY <1>3 DEF StoreText
  <2>. HIDE DEF o
  <2>. QED
    BY <1>1, <2>2, <2>3 DEF Stored
<1>4. CASE Replace
  <2>1. PICK v \in Versions :
           /\ bucket' = [bucket EXCEPT !["original"] = Wrapped(v)]
           /\ held' = held \cup {v}
    BY <1>4 DEF Replace
  <2>. DEFINE o == Wrapped(v)
  <2>2. o \in Objects
        /\ (o.format \in {"cbc", "oldCbc"} => Len(o.plain) % Block = 0)
    BY EnvelopeFacts
  <2>3. bucket' = [bucket EXCEPT !["original"] = o]
    BY <2>1
  <2>4. changes' \in 0..MaxChanges
    BY <1>1, <1>4, BoundsAssumption DEF Replace, Stored
  <2>. HIDE DEF o
  <2>. QED
    BY <1>1, <2>1, <2>2, <2>3, <2>4 DEF Stored
<1>5. CASE Damage
  <2>1. bucket' = [bucket EXCEPT !["original"].damaged = TRUE] /\ held' = held
    BY <1>5 DEF Damage
  <2>. DEFINE o == [bucket["original"] EXCEPT !.damaged = TRUE]
  <2>2. bucket["original"] \in Objects
    BY <1>1 DEF Stored
  <2>3. o \in Objects /\ o.format = bucket["original"].format
        /\ o.plain = bucket["original"].plain
    BY <2>2 DEF Objects
  <2>4. bucket' = [bucket EXCEPT !["original"] = o]
    BY <1>1, <2>1 DEF Stored
  <2>5. changes' \in 0..MaxChanges
    BY <1>1, <1>5, BoundsAssumption DEF Damage, Stored
  <2>. HIDE DEF o
  <2>. QED
    BY <1>1, <2>1, <2>3, <2>4, <2>5 DEF Stored
<1>6. ASSUME NEW j \in Jobs, JobStep(j), ~ StoreText(j)
      PROVE  UNCHANGED objectVars
  BY <1>6 DEF JobStep, CreateJob, IndexFile, Download, DownloadFails,
       Open, OpenFails, Extract, StoreFails, Succeed
<1>7. CASE Expire \/ Poll \/ Resolve \/ ReadMapped
  <2>1. UNCHANGED objectVars
    BY <1>7 DEF Expire, Poll, Resolve, ReadMapped
  <2>. QED
    BY <1>2, <2>1
<1>. QED
  BY <1>2, <1>3, <1>4, <1>5, <1>6, <1>7 DEF Next, vars

\* The jobs keep theirs.
Working ==
    /\ step \in [Jobs -> {"new", "index", "download", "open", "extract",
                          "store", "succeed", "returned"}]
    /\ data \in [Jobs -> Seq(Bytes)]
    /\ state \in [Jobs -> States]

LEMMA WorkingPreserved ==
    ASSUME Inv, [Next]_vars
    PROVE  Working'
<1>. USE DEF Inv
<1>1. Working
  BY DEF TypeOK, Working
<1>2. CASE UNCHANGED jobVars
  BY <1>1, <1>2 DEF jobVars, Working
<1>3. <<>> \in Seq(Bytes)
  OBVIOUS
<1>4. ASSUME NEW j \in Jobs, JobStep(j)
      PROVE  Working'
  <2>1. CASE CreateJob(j) \/ IndexFile(j) \/ Open(j) \/ StoreText(j)
    BY <1>1, <2>1 DEF CreateJob, IndexFile, Open, StoreText, Goto, SetState,
         Working, States
  <2>2. CASE DownloadFails(j) \/ OpenFails(j) \/ StoreFails(j) \/ Succeed(j)
    <3>1. PICK s \in States : Finish(j, s)
      BY <2>2 DEF DownloadFails, OpenFails, StoreFails, Succeed, Fail, States
    <3>. QED
      BY <1>1, <1>3, <3>1 DEF Finish, Goto, SetState, Working
  <2>3. CASE Download(j)
    <3>1. data'[j] \in Seq(Bytes)
      BY <2>3, DownloadBrings, ReadIsLines
    <3>2. data' = [data EXCEPT ![j] = data'[j]]
      BY <1>1, <2>3 DEF Download, Working
    <3>3. data' \in [Jobs -> Seq(Bytes)]
      BY <1>1, <3>1, <3>2 DEF Working
    <3>. QED
      BY <1>1, <2>3, <3>3 DEF Download, Goto, SetState, Working, States
  <2>4. CASE Extract(j)
    <3>1. TextOf(data[j]) \in Seq(Bytes)
      BY <2>4, ReadIsLines
         DEF Extract, DataInv, Genuine, CutShort, Senseless
    <3>. QED
      BY <1>1, <2>4, <3>1 DEF Extract, Goto, Working
  <2>. QED
    BY <1>4, <2>1, <2>2, <2>3, <2>4 DEF JobStep
<1>5. CASE Replace \/ Damage \/ Expire \/ Poll \/ Resolve \/ ReadMapped
  <2>1. UNCHANGED jobVars
    BY <1>5 DEF Replace, Damage, Expire, Poll, Resolve, ReadMapped
  <2>. QED
    BY <1>2, <2>1
<1>. QED
  BY <1>2, <1>4, <1>5 DEF Next, vars

\* And so do the index and the poll.
Asking ==
    /\ index \in Jobs \cup {"none"}
    /\ pstep \in {"idle", "resolve", "mapped"}
    /\ polls \in 0..MaxPolls
    /\ asked \in [known : BOOLEAN, err : BOOLEAN, job : Jobs \cup {"none"}]
    /\ answer \in {"none", "notFound", "error"} \cup States
    /\ faults \subseteq {"create", "index", "expiry", "direct", "resolve",
                         "mapped"}

LEMMA AskingPreserved ==
    ASSUME Inv, [Next]_vars
    PROVE  Asking'
<1>. USE DEF Inv
<1>1. Asking /\ state \in [Jobs -> States]
  BY DEF TypeOK, Asking
<1>2. CASE UNCHANGED <<index, pollVars, faults>>
  BY <1>1, <1>2 DEF pollVars, Asking
<1>3. ASSUME NEW j \in Jobs, JobStep(j)
      PROVE  Asking'
  <2>1. CASE CreateJob(j) \/ IndexFile(j)
    BY <1>1, <2>1 DEF CreateJob, IndexFile, Fault, pollVars, Asking
  <2>2. CASE UNCHANGED <<index, pollVars, faults>>
    BY <1>2, <2>2
  <2>. QED
    BY <1>3, <2>1, <2>2 DEF JobStep, Download, DownloadFails, Open, OpenFails,
         Extract, StoreText, StoreFails, Succeed
<1>4. CASE Replace \/ Damage
  BY <1>2, <1>4 DEF Replace, Damage
<1>5. CASE Expire
  BY <1>1, <1>5 DEF Expire, Fault, pollVars, Asking
<1>6. CASE Poll
  <2>1. asked' \in [known : BOOLEAN, err : BOOLEAN, job : Jobs \cup {"none"}]
    BY <1>1, <1>6 DEF Poll
  <2>2. polls' \in 0..MaxPolls
    BY <1>1, <1>6, BoundsAssumption DEF Poll, Asking
  <2>. QED
    BY <1>1, <1>6, <2>1, <2>2 DEF Poll, Fault, Asking
<1>7. ASSUME NEW a \in {"notFound", "error"} \cup States, Respond(a)
      PROVE  /\ pstep' \in {"idle", "resolve", "mapped"}
             /\ asked' \in [known : BOOLEAN, err : BOOLEAN,
                            job : Jobs \cup {"none"}]
             /\ answer' \in {"none", "notFound", "error"} \cup States
  BY <1>1, <1>7 DEF Respond, NotAsked, Asking
<1>8. CASE Resolve
  <2>1. CASE UNCHANGED <<answer, faults>> /\ pstep' = "mapped"
             /\ asked' = [asked EXCEPT !.job = index]
    <3>1. asked' \in [known : BOOLEAN, err : BOOLEAN, job : Jobs \cup {"none"}]
      BY <1>1, <2>1 DEF Asking
    <3>. QED
      BY <1>1, <1>8, <2>1, <3>1 DEF Resolve, Asking
  <2>2. CASE Respond(IF asked.err THEN "error" ELSE "notFound")
    BY <1>1, <1>7, <1>8, <2>2 DEF Resolve, Fault, Asking
  <2>. QED
    BY <1>8, <2>1, <2>2 DEF Resolve
<1>9. CASE ReadMapped
  <2>1. asked.job \in Jobs
    BY <1>9 DEF ReadMapped, PollInv
  <2>2. PICK a \in {"notFound", "error"} \cup States : Respond(a)
    BY <1>1, <1>9, <2>1 DEF ReadMapped
  <2>. QED
    BY <1>1, <1>7, <1>9, <2>2 DEF ReadMapped, Fault, Asking
<1>. QED
  BY <1>2, <1>3, <1>4, <1>5, <1>6, <1>8, <1>9 DEF Next, vars

LEMMA TypePreserved ==
    ASSUME Inv, [Next]_vars
    PROVE  TypeOK'
<1>1. Frame
  BY OriginalPreserved DEF Inv
<1>2. UNCHANGED <<extension, suffixed, password>>
  BY <1>1 DEF Frame, fileVars
<1>. QED
  BY <1>2, StoredPreserved, WorkingPreserved, AskingPreserved
     DEF Inv, TypeOK, Stored, Working, Asking

LEMMA DataPreserved ==
    ASSUME Inv, [Next]_vars
    PROVE  DataInv'
<1>. USE DEF Inv
<1>1. held \subseteq held' /\ password' = password
  BY OriginalPreserved, FrameFacts
<1>2. SUFFICES ASSUME NEW k \in Jobs, (step[k] \in {"open", "extract"})'
               PROVE  (Genuine(k) \/ CutShort(k) \/ Senseless(k))'
  BY DEF DataInv
<1>3. CASE step[k] \in {"open", "extract"} /\ data'[k] = data[k]
  <2>1. Genuine(k) \/ CutShort(k) \/ Senseless(k)
    BY <1>3 DEF DataInv
  <2>. QED
    BY <1>1, <1>3, <2>1 DEF Genuine, CutShort, Senseless
<1>4. CASE UNCHANGED <<step, data>>
  BY <1>2, <1>3, <1>4
<1>5. ASSUME NEW j \in Jobs, JobStep(j)
      PROVE  (Genuine(k) \/ CutShort(k) \/ Senseless(k))'
  <2>1. CASE Download(j) /\ j = k
    <3>1. PICK v \in held :
             \/ /\ data'[k] = v.document
                /\ v.password = password[k] \/ (CBC(v) /\ v.document = <<>>)
             \/ /\ v.format = "oldCbc" /\ LooksPadded(v.document)
                /\ v.password = password[k] /\ data'[k] = Unpad(v.document)
             \/ /\ data'[k] = Gibberish
                /\ CBC(v) /\ v.password # password[k]
      BY <2>1, DownloadBrings
    <3>2. v \in held'
      BY <1>1
    <3>. QED
      BY <1>1, <3>1, <3>2 DEF Genuine, CutShort, Senseless
  <2>2. CASE j # k
    <3>1. step'[k] = step[k] /\ data'[k] = data[k]
      BY <1>5, <2>2 DEF TypeOK, JobStep, CreateJob, IndexFile, Download,
           DownloadFails, Open, OpenFails, Extract, StoreText, StoreFails,
           Succeed, Fail, Finish, Goto
    <3>. QED
      BY <1>2, <1>3, <3>1
  <2>3. CASE j = k /\ ~ Download(j)
    <3>1. Open(j)
      BY <1>2, <1>5, <2>3 DEF TypeOK, JobStep, CreateJob, IndexFile,
           DownloadFails, OpenFails, Extract, StoreText, StoreFails,
           Succeed, Fail, Finish, Goto
    <3>2. step[k] = "open" /\ data' = data
      BY <2>3, <3>1 DEF Open
    <3>. QED
      BY <1>3, <3>2
  <2>. QED
    BY <2>1, <2>2, <2>3
<1>6. CASE Replace \/ Damage \/ Expire \/ Poll \/ Resolve \/ ReadMapped
  <2>1. UNCHANGED <<step, data>>
    BY <1>6 DEF Replace, Damage, Expire, Poll, Resolve, ReadMapped, jobVars
  <2>. QED
    BY <1>4, <2>1
<1>7. CASE UNCHANGED vars
  BY <1>4, <1>7 DEF vars, jobVars
<1>. QED
  BY <1>5, <1>6, <1>7 DEF Next

\* What a job read stays what it read, whatever befalls the original.
LEMMA ReadingKept ==
    ASSUME Frame, NEW j \in Jobs
    PROVE  /\ Entitled(j) => Entitled(j)'
           /\ data'[j] = data[j] =>
                 /\ Genuine(j) => Genuine(j)'
                 /\ CutShort(j) => CutShort(j)'
<1>1. held \subseteq held' /\ password' = password
  BY FrameFacts
<1>. QED
  BY <1>1 DEF Entitled, Genuine, CutShort

\* Why a job got past the detector.
LEMMA OpenedFor ==
    ASSUME Inv, NEW j \in Jobs, Open(j)
    PROVE  /\ Entitled(j) \/ (WasCBC /\ NameMisleads)
           /\ Genuine(j) \/ CutShort(j) \/ NameMisleads
<1>1. Genuine(j) \/ CutShort(j) \/ Senseless(j)
  BY DEF Open, Inv, DataInv
<1>2. data[j] \in {Gibberish, <<>>} => NameMisleads
  BY EmptyNeedsName DEF Open
<1>3. CASE Genuine(j)
  <2>1. Entitled(j) \/ (WasCBC /\ data[j] = <<>>)
    BY <1>3 DEF Genuine, Entitled, CBC, WasCBC
  <2>. QED
    BY <1>2, <1>3, <2>1
<1>4. CASE CutShort(j)
  BY <1>4 DEF CutShort, Entitled
<1>5. CASE Senseless(j)
  BY <1>2, <1>5 DEF Senseless, CBC, WasCBC
<1>. QED
  BY <1>1, <1>3, <1>4, <1>5

LEMMA PastPreserved ==
    ASSUME Inv, [Next]_vars
    PROVE  PastInv'
<1>. USE DEF Inv
<1>1. Frame /\ NameMisleads' = NameMisleads /\ (WasCBC => WasCBC')
  BY OriginalPreserved, FrameFacts
<1>. DEFINE Goal(k) ==
              /\ Past(k)' => Entitled(k)' \/ (WasCBC' /\ NameMisleads')
              /\ step'[k] = "extract"
                    => Genuine(k)' \/ CutShort(k)' \/ NameMisleads'
              /\ state'[k] = "success" => step'[k] = "returned"
<1>2. SUFFICES ASSUME NEW k \in Jobs PROVE Goal(k)
  BY DEF PastInv
<1>3. ASSUME Past(k)' => Past(k), state'[k] = "success" => step'[k] = "returned",
             step'[k] = "extract" => step[k] = "extract" /\ data'[k] = data[k]
      PROVE  Goal(k)
  <2>1. Past(k) => Entitled(k) \/ (WasCBC /\ NameMisleads)
    BY DEF PastInv
  <2>2. step[k] = "extract" => Genuine(k) \/ CutShort(k) \/ NameMisleads
    BY DEF PastInv
  <2>. QED
    BY <1>1, <1>3, <2>1, <2>2, ReadingKept
<1>4. CASE UNCHANGED jobVars
  BY <1>3, <1>4 DEF Past, PastInv, jobVars
<1>5. ASSUME NEW j \in Jobs, JobStep(j)
      PROVE  Goal(k)
  <2>1. CASE j # k
    <3>1. step'[k] = step[k] /\ state'[k] = state[k] /\ data'[k] = data[k]
      BY <1>5, <2>1 DEF TypeOK, JobStep, CreateJob, IndexFile, Download,
           DownloadFails, Open, OpenFails, Extract, StoreText, StoreFails,
           Succeed, Fail, Finish, Goto, SetState
    <3>. QED
      BY <1>3, <3>1 DEF Past, PastInv
  <2>2. CASE Open(k)
    <3>1. /\ step[k] = "open" /\ step'[k] = "extract"
          /\ UNCHANGED <<data, state>>
      BY <2>2 DEF Open, Goto, TypeOK
    <3>2. state[k] # "success"
      BY <3>1 DEF PastInv
    <3>3. /\ Entitled(k) \/ (WasCBC /\ NameMisleads)
          /\ Genuine(k) \/ CutShort(k) \/ NameMisleads
      BY <2>2, OpenedFor
    <3>. QED
      BY <1>1, <3>1, <3>2, <3>3, ReadingKept
  <2>3. CASE j = k /\ ~ Open(k)
    <3>1. /\ Past(k)' => Past(k)
          /\ state'[k] = "success" => step'[k] = "returned"
          /\ step'[k] # "extract"
      BY <1>5, <2>3 DEF TypeOK, PastInv, Past, JobStep, CreateJob, IndexFile,
           Download, DownloadFails, OpenFails, Extract, StoreText, StoreFails,
           Succeed, Fail, Finish, Goto, SetState
    <3>. QED
      BY <1>3, <3>1
  <2>. QED
    BY <2>1, <2>2, <2>3
<1>6. CASE Replace \/ Damage \/ Expire \/ Poll \/ Resolve \/ ReadMapped
  <2>1. UNCHANGED jobVars
    BY <1>6 DEF Replace, Damage, Expire, Poll, Resolve, ReadMapped
  <2>. QED
    BY <1>4, <2>1
<1>7. CASE UNCHANGED vars
  BY <1>4, <1>7 DEF vars
<1>. QED
  BY <1>5, <1>6, <1>7 DEF Next

\* Unless something misleads, what a job reads is a version's document.
LEMMA ReadIsHeld ==
    ASSUME Inv, ~ Misleading, NEW j \in Jobs, step[j] = "extract"
    PROVE  \E v \in held : data[j] = v.document
<1>1. Genuine(j) \/ CutShort(j) \/ Senseless(j)
  BY DEF Inv, DataInv
<1>2. Genuine(j) \/ CutShort(j) \/ NameMisleads
  BY DEF Inv, PastInv
<1>3. ~ CutShort(j)
  BY DEF CutShort, Misleading
<1>4. CASE Senseless(j) /\ NameMisleads
  <2>1. PICK v \in held : CBC(v) /\ v.password # password[j]
    BY <1>4 DEF Senseless
  <2>2. WasCBC
    BY <2>1 DEF CBC, WasCBC
  <2>. QED
    BY <1>4, <2>1, <2>2 DEF Misleading
<1>. QED
  BY <1>1, <1>2, <1>3, <1>4 DEF Genuine

Texts == \A j \in Jobs : step[j] \in {"store", "succeed"} =>
             \E v \in held : data[j] = TextOf(v.document)

LEMMA TextsPreserved ==
    ASSUME Inv, [Next]_vars, ~ Misleading
    PROVE  Texts'
<1>. USE DEF Inv
<1>1. held \subseteq held' /\ Texts
  BY OriginalPreserved DEF Frame, TextInv, Texts
<1>2. SUFFICES ASSUME NEW k \in Jobs, (step[k] \in {"store", "succeed"})'
               PROVE  \E v \in held' : data'[k] = TextOf(v.document)
  BY DEF Texts
<1>3. CASE step[k] \in {"store", "succeed"} /\ data'[k] = data[k]
  BY <1>1, <1>3 DEF Texts
<1>4. ASSUME NEW j \in Jobs, JobStep(j)
      PROVE  \E v \in held' : data'[k] = TextOf(v.document)
  <2>1. CASE j # k
    <3>1. step'[k] = step[k] /\ data'[k] = data[k]
      BY <1>4, <2>1 DEF TypeOK, JobStep, CreateJob, IndexFile, Download,
           DownloadFails, Open, OpenFails, Extract, StoreText, StoreFails,
           Succeed, Fail, Finish, Goto
    <3>. QED
      BY <1>2, <1>3, <3>1
  <2>2. CASE Extract(k)
    <3>1. data'[k] = TextOf(data[k]) /\ step[k] = "extract"
      BY <2>2 DEF Extract, TypeOK
    <3>2. \E v \in held : data[k] = v.document
      BY <3>1, ReadIsHeld
    <3>. QED
      BY <1>1, <3>1, <3>2
  <2>3. CASE j = k /\ ~ Extract(k)
    <3>1. StoreText(k)
      BY <1>2, <1>4, <2>3 DEF TypeOK, JobStep, CreateJob, IndexFile, Download,
           DownloadFails, Open, OpenFails, StoreFails, Succeed, Fail, Finish,
           Goto
    <3>2. step[k] = "store" /\ data' = data
      BY <3>1 DEF StoreText
    <3>. QED
      BY <1>3, <3>2
  <2>. QED
    BY <2>1, <2>2, <2>3
<1>5. CASE UNCHANGED <<step, data>>
  BY <1>2, <1>3, <1>5
<1>6. CASE Replace \/ Damage \/ Expire \/ Poll \/ Resolve \/ ReadMapped
  <2>1. UNCHANGED <<step, data>>
    BY <1>6 DEF Replace, Damage, Expire, Poll, Resolve, ReadMapped, jobVars
  <2>. QED
    BY <1>5, <2>1
<1>. QED
  BY <1>4, <1>5, <1>6 DEF Next, vars, jobVars

\* Who has written a result remains one who has; only StoreText makes one.
LEMMA WritersOnlyGrow ==
    ASSUME Inv, [Next]_vars, NEW k \in Jobs
    PROVE  /\ Writing(k) => Writing(k)'
           /\ Writing(k)' => Writing(k) \/ StoreText(k)
<1>. USE DEF Inv
<1>1. CASE UNCHANGED jobVars
  BY <1>1 DEF jobVars, Writing
<1>2. ASSUME NEW j \in Jobs, JobStep(j), j # k
      PROVE  Writing(k)' = Writing(k)
  <2>1. step'[k] = step[k] /\ state'[k] = state[k]
    BY <1>2 DEF TypeOK, JobStep, CreateJob, IndexFile, Download,
         DownloadFails, Open, OpenFails, Extract, StoreText, StoreFails,
         Succeed, Fail, Finish, Goto, SetState
  <2>. QED
    BY <2>1 DEF Writing
<1>3. CASE Succeed(k)
  BY <1>3 DEF Succeed, Finish, Goto, SetState, Writing, TypeOK
<1>4. CASE StoreText(k)
  BY <1>4 DEF StoreText, Goto, Writing, TypeOK
<1>5. CASE JobStep(k) /\ ~ Succeed(k) /\ ~ StoreText(k)
  <2>1. step[k] # "succeed" /\ step[k] # "returned"
    BY <1>5 DEF JobStep, CreateJob, IndexFile, Download, DownloadFails, Open,
         OpenFails, Extract, StoreFails
  <2>2. step'[k] # "succeed" /\ (state'[k] = "success" => state[k] = "success")
    BY <1>5 DEF TypeOK, JobStep, CreateJob, IndexFile, Download, DownloadFails,
         Open, OpenFails, Extract, StoreFails, Fail, Finish, Goto, SetState
  <2>. QED
    BY <2>1, <2>2 DEF PastInv, Writing
<1>6. CASE Replace \/ Damage \/ Expire \/ Poll \/ Resolve \/ ReadMapped
  <2>1. UNCHANGED jobVars
    BY <1>6 DEF Replace, Damage, Expire, Poll, Resolve, ReadMapped
  <2>. QED
    BY <1>1, <2>1
<1>. QED
  BY <1>1, <1>2, <1>3, <1>4, <1>5, <1>6 DEF Next, vars

\* A result changes only by the hand of a job that writes it.
LEMMA ResultStays ==
    ASSUME Inv, [Next]_vars, NEW j \in Jobs,
           \A k \in Jobs : StoreText(k) => ResultKey(k) # ResultKey(j)
    PROVE  bucket'[ResultKey(j)] = bucket[ResultKey(j)]
<1>. USE DEF Inv
<1>1. bucket \in [Keys -> Objects] /\ ResultKey(j) \in Keys \ {"original"}
  BY KeysDiffer DEF TypeOK
<1>2. ASSUME NEW k \in Jobs, StoreText(k)
      PROVE  bucket'[ResultKey(j)] = bucket[ResultKey(j)]
  BY <1>1, <1>2 DEF StoreText
<1>3. ASSUME NEW k \in Jobs, JobStep(k), ~ StoreText(k)
      PROVE  UNCHANGED bucket
  BY <1>3 DEF JobStep, CreateJob, IndexFile, Download, DownloadFails,
       Open, OpenFails, Extract, StoreFails, Succeed, objectVars
<1>4. CASE Replace \/ Damage
  BY <1>1, <1>4 DEF Replace, Damage
<1>5. CASE Expire \/ Poll \/ Resolve \/ ReadMapped
  BY <1>5 DEF Expire, Poll, Resolve, ReadMapped, objectVars
<1>. QED
  BY <1>2, <1>3, <1>4, <1>5 DEF Next, vars, objectVars

\* The result of j is the text of a version, written by one of its writers.
Result(j) ==
    \E i \in Writers(j), v \in held :
        bucket[ResultKey(j)] = Encrypt(TextOf(v.document), password[i])

LEMMA ResultPreserved ==
    ASSUME Inv, [Next]_vars, ~ Misleading, NEW j \in Jobs, Writing(j)'
    PROVE  Result(j)'
<1>. USE DEF Inv
<1>1. /\ held \subseteq held' /\ password' = password
      /\ \A i : ResultKey(i)' = ResultKey(i)
  BY OriginalPreserved, FrameFacts
<1>2. ASSUME NEW k \in Jobs, StoreText(k), ResultKey(k) = ResultKey(j)
      PROVE  Result(j)'
  <2>1. PICK v \in held : data[k] = TextOf(v.document)
    BY <1>2 DEF StoreText, TextInv
  <2>2. bucket \in [Keys -> Objects] /\ ResultKey(k) \in Keys
    BY KeysDiffer DEF TypeOK
  <2>3. bucket'[ResultKey(j)] = Encrypt(TextOf(v.document), password'[k])
    BY <1>1, <1>2, <2>1, <2>2 DEF StoreText
  <2>4. step'[k] = "succeed"
    BY <1>2 DEF StoreText, Goto, TypeOK
  <2>5. k \in Writers(j)'
    BY <1>1, <1>2, <2>4 DEF Writers
  <2>. QED
    BY <1>1, <2>3, <2>5 DEF Result
<1>3. CASE \A k \in Jobs : StoreText(k) => ResultKey(k) # ResultKey(j)
  <2>1. Writing(j)
    BY <1>3, WritersOnlyGrow
  <2>2. PICK i \in Writers(j), v \in held :
           bucket[ResultKey(j)] = Encrypt(TextOf(v.document), password[i])
    BY <2>1 DEF TextInv
  <2>3. i \in Jobs /\ Writing(i) /\ ResultKey(i) = ResultKey(j)
    BY <2>2 DEF Writers, Writing
  <2>4. Writing(i)'
    BY <2>3, WritersOnlyGrow
  <2>5. i \in Writers(j)'
    BY <1>1, <2>3, <2>4 DEF Writers, Writing
  <2>6. bucket'[ResultKey(j)] = Encrypt(TextOf(v.document), password'[i])
    BY <1>1, <1>3, <2>2, ResultStays
  <2>. QED
    BY <1>1, <2>5, <2>6 DEF Result
<1>. QED
  BY <1>2, <1>3

LEMMA TextPreserved ==
    ASSUME Inv, [Next]_vars
    PROVE  TextInv'
<1>. USE DEF Inv
<1>1. SUFFICES ASSUME ~ Misleading'
               PROVE  Texts' /\ \A j \in Jobs : Writing(j)' => Result(j)'
  BY DEF TextInv, Texts, Result
<1>2. ~ Misleading
  BY <1>1, OriginalPreserved, FrameFacts
<1>. QED
  BY <1>2, TextsPreserved, ResultPreserved

\* A status stays once it is there, and what went wrong is remembered.
LEMMA AnnouncedStays ==
    ASSUME TypeOK, [Next]_vars
    PROVE  /\ faults \subseteq faults'
           /\ \A k \in Jobs : state[k] # "absent" => state'[k] # "absent"
           /\ \A k \in Jobs : Announced(k) => Announced(k)'
<1>1. faults \subseteq faults'
  BY DEF Next, vars, JobStep, CreateJob, IndexFile, Download, DownloadFails,
     Open, OpenFails, Extract, StoreText, StoreFails, Succeed, Replace, Damage,
     Expire, Poll, Resolve, ReadMapped, Fault
<1>2. ASSUME NEW k \in Jobs, state[k] # "absent"
      PROVE  state'[k] # "absent"
  <2>1. CASE UNCHANGED state
    BY <1>2, <2>1
  <2>2. ASSUME NEW j \in Jobs, JobStep(j)
        PROVE  state'[k] # "absent"
    BY <1>2, <2>2 DEF TypeOK, JobStep, CreateJob, IndexFile, Download,
       DownloadFails, Open, OpenFails, Extract, StoreText, StoreFails, Succeed,
       Fail, Finish, SetState
  <2>3. CASE Replace \/ Damage \/ Expire \/ Poll \/ Resolve \/ ReadMapped
    <3>1. UNCHANGED state
      BY <2>3 DEF Replace, Damage, Expire, Poll, Resolve, ReadMapped, jobVars
    <3>. QED
      BY <2>1, <3>1
  <2>. QED
    BY <2>1, <2>2, <2>3 DEF Next, vars, jobVars
<1>. QED
  BY <1>1, <1>2 DEF Announced

LEMMA PollPreserved ==
    ASSUME Inv, [Next]_vars
    PROVE  PollInv'
<1>. USE DEF Inv
<1>1. /\ faults \subseteq faults'
      /\ \A k \in Jobs : Announced(k) => Announced(k)'
  BY AnnouncedStays
<1>2. "none" \notin Jobs /\ index \in Jobs \cup {"none"}
  BY KeysDiffer DEF TypeOK
<1>3. ASSUME NEW k \in Jobs, step'[k] # "new"
      PROVE  Announced(k)'
  <2>1. CASE step[k] # "new"
    BY <1>1, <2>1 DEF PollInv
  <2>2. CASE UNCHANGED step
    BY <1>3, <2>1, <2>2
  <2>3. ASSUME NEW j \in Jobs, JobStep(j), step[k] = "new"
        PROVE  CreateJob(k)
    BY <1>3, <2>3 DEF TypeOK, JobStep, CreateJob, IndexFile, Download,
       DownloadFails, Open, OpenFails, Extract, StoreText, StoreFails, Succeed,
       Fail, Finish, Goto
  <2>4. CASE CreateJob(k)
    BY <2>4 DEF CreateJob, SetState, Fault, Announced, TypeOK
  <2>5. CASE Replace \/ Damage \/ Expire \/ Poll \/ Resolve \/ ReadMapped
    <3>1. UNCHANGED step
      BY <2>5 DEF Replace, Damage, Expire, Poll, Resolve, ReadMapped, jobVars
    <3>. QED
      BY <2>2, <3>1
  <2>. QED
    BY <2>1, <2>2, <2>3, <2>4, <2>5 DEF Next, vars, jobVars
<1>4. index' # "none" => Announced(index)'
  <2>1. CASE index' = index
    BY <1>1, <1>2, <2>1 DEF PollInv, Announced
  <2>2. ASSUME NEW j \in Jobs, IndexFile(j)
        PROVE  index' # "none" => Announced(index)'
    <3>1. Announced(j)
      BY <2>2 DEF IndexFile, PollInv
    <3>2. CASE index' = j
      BY <1>1, <3>1, <3>2 DEF Announced
    <3>. QED
      BY <2>1, <2>2, <3>2 DEF IndexFile
  <2>3. CASE Expire
    BY <2>3 DEF Expire
  <2>. QED
    BY <2>1, <2>2, <2>3 DEF Next, vars, JobStep, CreateJob, Download,
       DownloadFails, Open, OpenFails, Extract, StoreText, StoreFails, Succeed,
       Replace, Damage, Poll, Resolve, ReadMapped
<1>5. CASE UNCHANGED pollVars
  <2>1. pstep' = "mapped" => asked'.job \in Jobs /\ Announced(asked.job)'
    <3>1. CASE pstep = "mapped"
      BY <1>1, <1>5, <3>1 DEF pollVars, PollInv, Announced
    <3>. QED
      BY <1>5, <3>1 DEF pollVars
  <2>2. pstep' = "resolve" /\ asked'.known
           => index' # "none" \/ "expiry" \in faults'
    <3>1. index' = "none" => index = "none" \/ "expiry" \in faults'
      BY <1>2 DEF Next, vars, JobStep, CreateJob, IndexFile, Download,
         DownloadFails, Open, OpenFails, Extract, StoreText, StoreFails,
         Succeed, Replace, Damage, Expire, Poll, Resolve, ReadMapped, Fault
    <3>. QED
      BY <1>1, <1>5, <3>1 DEF pollVars, PollInv
  <2>3. (asked'.err => "direct" \in faults') /\ KnownFileIsFound'
    BY <1>1, <1>5 DEF pollVars, PollInv, KnownFileIsFound
  <2>. QED
    BY <1>3, <1>4, <2>1, <2>2, <2>3 DEF PollInv
<1>6. CASE Poll
  <2>1. /\ pstep' = "resolve" /\ answer' = "none" /\ index' = index
        /\ asked'.known = (index # "none")
        /\ asked'.err => "direct" \in faults'
    BY <1>6 DEF Poll, Fault
  <2>. QED
    BY <1>3, <1>4, <2>1 DEF PollInv, KnownFileIsFound
<1>7. ASSUME NEW a, Respond(a),
             a = "notFound" /\ asked.known
                => faults' \cap {"create", "expiry", "resolve", "mapped"} # {},
             a = "error" => "direct" \in faults'
      PROVE  PollInv'
  <2>1. /\ pstep' = "idle" /\ answer' = a
        /\ asked'.known = asked.known /\ asked'.err = FALSE
    BY <1>7 DEF Respond, NotAsked
  <2>. QED
    BY <1>3, <1>4, <1>7, <2>1 DEF PollInv, KnownFileIsFound
<1>8. CASE Resolve
  <2>1. CASE pstep' = "mapped" /\ asked' = [asked EXCEPT !.job = index]
             /\ index # "none" /\ UNCHANGED <<answer, faults>>
    <3>1. asked \in [known : BOOLEAN, err : BOOLEAN, job : Jobs \cup {"none"}]
      BY DEF TypeOK
    <3>2. /\ asked'.job = index /\ index \in Jobs
          /\ asked'.known = asked.known /\ asked'.err = asked.err
      BY <1>2, <2>1, <3>1
    <3>3. Announced(asked.job)'
      BY <1>1, <2>1, <3>2 DEF PollInv, Announced
    <3>. QED
      BY <1>3, <1>4, <2>1, <3>2, <3>3 DEF PollInv, KnownFileIsFound
  <2>2. CASE Respond(IF asked.err THEN "error" ELSE "notFound")
    <3>1. pstep = "resolve" /\ (index = "none" \/ "resolve" \in faults')
      BY <1>8, <2>2 DEF Resolve, Respond, Fault
    <3>2. asked.err => "direct" \in faults'
      BY <1>1 DEF PollInv
    <3>3. asked.known => "expiry" \in faults' \/ "resolve" \in faults'
      BY <1>1, <3>1 DEF PollInv
    <3>. QED
      BY <1>7, <2>2, <3>2, <3>3
  <2>. QED
    BY <1>8, <2>1, <2>2 DEF Resolve
<1>9. CASE ReadMapped
  <2>1. asked.job \in Jobs /\ Announced(asked.job) /\ faults \subseteq faults'
    BY <1>1, <1>9 DEF ReadMapped, PollInv
  <2>2. asked.err => "direct" \in faults'
    BY <1>1 DEF PollInv
  <2>3. CASE Fault("mapped")
             /\ Respond(IF asked.err THEN "error" ELSE "notFound")
    <3>1. "mapped" \in faults'
      BY <2>3 DEF Fault
    <3>. QED
      BY <1>7, <2>2, <2>3, <3>1
  <2>4. CASE Respond(IF asked.err THEN "error"
                     ELSE IF state[asked.job] = "absent" THEN "notFound"
                     ELSE state[asked.job])
    <3>1. state[asked.job] = "absent" => "create" \in faults'
      BY <2>1 DEF Announced
    <3>2. state[asked.job] \in States
      BY <2>1 DEF TypeOK
    <3>3. state[asked.job] # "notFound" /\ state[asked.job] # "error"
      BY <3>2 DEF States
    <3>. QED
      BY <1>7, <2>2, <2>4, <3>1, <3>3
  <2>. QED
    BY <1>9, <2>3, <2>4 DEF ReadMapped
<1>10. ASSUME NEW j \in Jobs, JobStep(j)
       PROVE  UNCHANGED pollVars
  BY <1>10 DEF JobStep, CreateJob, IndexFile, Download, DownloadFails, Open,
     OpenFails, Extract, StoreText, StoreFails, Succeed
<1>11. CASE Replace \/ Damage \/ Expire
  BY <1>5, <1>11 DEF Replace, Damage, Expire
<1>. QED
  BY <1>5, <1>6, <1>8, <1>9, <1>10, <1>11 DEF Next, vars

-----------------------------------------------------------------------------
(* The results.                                                            *)

LEMMA Initially ==
    ASSUME Init
    PROVE  Inv
<1>1. PICK v \in Versions :
         /\ bucket = [k \in Keys |->
               IF k = "original" THEN Wrapped(v) ELSE NoObject]
         /\ held = {v}
  BY DEF Init
<1>. DEFINE o == Wrapped(v)
<1>2. /\ o \in Objects /\ o.format = v.format /\ o.password = v.password
      /\ o.plain = (IF v.format = "cbc" THEN Pad(v.document) ELSE v.document)
      /\ o.format \in {"cbc", "oldCbc"} => Len(o.plain) % Block = 0
  BY EnvelopeFacts
<1>3. <<>> \in Seq(Bytes)
  OBVIOUS
<1>4. NoObject \in Objects /\ NoObject.format = "absent"
  BY <1>3, ObjectType DEF NoObject, Object
<1>. HIDE DEF o
<1>5. /\ bucket \in [Keys -> Objects] /\ bucket["original"] = o
      /\ \A k \in Keys \ {"original"} : bucket[k] = NoObject
      /\ \A k \in Keys : bucket[k] = o \/ bucket[k] = NoObject
  BY <1>1, <1>2, <1>4, KeysDiffer DEF o
<1>6. TypeOK
  <2>1. \A k \in Keys : bucket[k].format \in {"cbc", "oldCbc"}
                           => Len(bucket[k].plain) % Block = 0
    BY <1>2, <1>4, <1>5
  <2>2. asked \in [known : BOOLEAN, err : BOOLEAN, job : Jobs \cup {"none"}]
    BY DEF Init, NotAsked
  <2>3. step \in [Jobs -> {"new", "index", "download", "open", "extract",
                           "store", "succeed", "returned"}]
    BY DEF Init
  <2>4. data \in [Jobs -> Seq(Bytes)]
    BY <1>3 DEF Init
  <2>5. state \in [Jobs -> States]
    BY DEF Init, States
  <2>. QED
    BY <1>1, <1>5, <2>1, <2>2, <2>3, <2>4, <2>5, BoundsAssumption
       DEF Init, TypeOK
<1>7. OriginalInv
  BY <1>1, <1>2, <1>5 DEF OriginalInv
<1>8. DataInv /\ PastInv
  BY DEF Init, DataInv, PastInv, Past
<1>9. TextInv
  BY DEF Init, TextInv, Writing
<1>10. PollInv
  BY DEF Init, PollInv, NotAsked, KnownFileIsFound
<1>. QED
  BY <1>6, <1>7, <1>8, <1>9, <1>10 DEF Inv

\* The invariant, for every number of jobs, documents, changes, polls, faults.
THEOREM DeliveryInvariant == Spec => []Inv
<1>1. Inv /\ [Next]_vars => Inv'
  BY TypePreserved, OriginalPreserved, DataPreserved, PastPreserved,
     TextPreserved, PollPreserved DEF Inv
<1>. QED
  BY <1>1, Initially, PTL DEF Spec

\* Every object has whole blocks to decrypt, every text is bytes.
THEOREM TypeCorrect == Spec => []TypeOK
<1>1. Inv => TypeOK
  BY DEF Inv
<1>. QED
  BY <1>1, DeliveryInvariant, PTL

\* A password that was never the file's is a failure wherever the code can
\* notice it.
THEOREM WrongPassword == Spec => []WrongPasswordFails
<1>1. Inv => WrongPasswordFails
  BY DEF Inv, PastInv, Past, Entitled, WrongPasswordFails
<1>. QED
  BY <1>1, DeliveryInvariant, PTL

\* What a successful job names is the text of a version, readable with the
\* password of a job that wrote it, unless the format or the name misleads.
THEOREM ResultsReadBack == Spec => []ReadBack
<1>1. Inv => ReadBack
  <2>1. SUFFICES ASSUME Inv, ~ Misleading, NEW j \in Jobs,
                        state[j] = "success"
                 PROVE  \E i \in Writers(j) :
                           LET got == Decrypt(bucket[ResultKey(j)], password[i])
                           IN  /\ got.ok
                               /\ \E v \in held : got.data = TextOf(v.document)
    BY DEF ReadBack
  <2>2. PICK i \in Writers(j), v \in held :
           bucket[ResultKey(j)] = Encrypt(TextOf(v.document), password[i])
    BY <2>1 DEF Inv, TextInv, Writing
  <2>3. TextOf(v.document) \in Seq(Bytes)
    BY <2>1, ReadIsLines DEF Inv
  <2>4. Decrypt(bucket[ResultKey(j)], password[i]) = Clear(TextOf(v.document))
    BY <2>2, <2>3, StorageRoundTrip
  <2>. QED
    BY <2>4 DEF Clear
<1>. QED
  BY <1>1, DeliveryInvariant, PTL

\* A poll of an indexed file finds it.
THEOREM KnownFile == Spec => []KnownFileIsFound
<1>1. Inv => KnownFileIsFound
  BY DEF Inv, PollInv
<1>. QED
  BY <1>1, DeliveryInvariant, PTL

\* A page that a job has read, whatever its password and whoever replaced the
\* document.
LEMMA PagesAreLines ==
    ASSUME Inv, NEW j \in Jobs, step[j] = "extract"
    PROVE  data[j] \in Seq(Lines)
  BY ReadIsLines DEF Inv, DataInv, Genuine, CutShort, Senseless

\* The text that a job makes of its page has every line that was kept, once
\* and in order.
THEOREM EveryWordKept == Spec => []WordsKept
<1>1. Inv => WordsKept
  BY PagesAreLines, LinesAreBytes, TextKeepsLines DEF WordsKept
<1>. QED
  BY <1>1, DeliveryInvariant, PTL

\* In the text that a job makes of its page, only what was broken is joined.
THEOREM OnlyBrokenLinesJoin == Spec => []JoinsOnlyBroken
<1>1. Inv => JoinsOnlyBroken
  <2>1. SUFFICES ASSUME Inv, NEW j \in Jobs, step[j] = "extract"
                 PROVE  OnlyBrokenJoined(FixBrokenLines(Kept(data[j])))
    BY DEF JoinsOnlyBroken
  <2>2. Kept(data[j]) \in Seq(Lines)
    BY <2>1, PagesAreLines, WithoutType DEF Kept
  <2>. QED
    BY <2>2, LinesAreBytes, TextJoinsOnlyBroken
<1>. QED
  BY <1>1, DeliveryInvariant, PTL
=============================================================================
