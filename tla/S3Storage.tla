------------------------------ MODULE S3Storage ------------------------------
(***************************************************************************)
(* internal/storage/s3.go: objects and what their bytes decrypt to.        *)
(*                                                                         *)
(* An object is its plaintext with the password it was encrypted under and *)
(* the format of its envelope: "gcm", with or without a magic number, is   *)
(* authenticated; "cbc" carries a hash of the ciphertext and pads the      *)
(* plaintext, which "oldCbc", of the same magic number, does not.  Damage  *)
(* is any change of the stored bytes: of the magic number (another format  *)
(* is then tried and fails), the length, the hash or the ciphertext.       *)
(***************************************************************************)
EXTENDS Integers, Sequences

CONSTANTS
    Block,    \* aes.BlockSize
    MaxByte   \* the largest byte, here the symbol of which gibberish consists

ASSUME BlockAssumption ==
    Block \in Nat /\ MaxByte \in Nat /\ 0 < Block /\ Block < MaxByte

Bytes == 0..MaxByte
Gibberish == <<MaxByte>>

\* Faulty variant: one padding byte too many.
PadOneMore(d) ==
    LET n == Block - (Len(d) % Block) IN d \o [i \in 1..(n + 1) |-> n]

\* Faulty variant: data that fills its blocks is not padded.
PadUnlessFull(d) ==
    LET n == (Block - (Len(d) % Block)) % Block IN d \o [i \in 1..n |-> n]

\* applyPKCS7Padding: at least one byte, each the number of bytes added.
Pad(d) == LET n == Block - (Len(d) % Block) IN d \o [i \in 1..n |-> n]

\* removePKCS7Padding accepts the end of d as padding.
LooksPadded(d) ==
    /\ d # <<>>
    /\ LET n == d[Len(d)] IN
          /\ n \in 1..Block /\ n <= Len(d)
          /\ \A i \in (Len(d) - n + 1)..Len(d) : d[i] = n

\* Data without padding is taken as it is, in the format of old files.
Unpad(d) == IF LooksPadded(d) THEN SubSeq(d, 1, Len(d) - d[Len(d)]) ELSE d

Formats == {"gcm", "cbc", "oldCbc"}
Object(format, password, plain) ==
    [format |-> format, password |-> password, plain |-> plain,
     damaged |-> FALSE]
NoObject == Object("absent", "", <<>>)

\* The envelope a client's tool makes of document d.
Envelope(format, password, d) ==
    Object(format, password, IF format = "cbc" THEN Pad(d) ELSE d)

\* encryptLegacyCBC: results are always written in the CBC format.
Encrypt(d, password) == Object("cbc", password, Pad(d))

Unreadable == [ok |-> FALSE, data |-> <<>>]
Clear(d) == [ok |-> TRUE, data |-> d]

\* What another key makes of blocks of plaintext.
Scrambled(p) == IF p = <<>> THEN <<>> ELSE Gibberish

\* GetObject and decryptData: nothing but GCM notices a wrong password.
Decrypt(o, password) ==
    CASE o.format = "absent" \/ o.damaged -> Unreadable
      [] o.format = "gcm" /\ ~ o.damaged ->
            IF password = o.password THEN Clear(o.plain) ELSE Unreadable
      [] o.format \in {"cbc", "oldCbc"} /\ ~ o.damaged ->
            IF password = o.password THEN Clear(Unpad(o.plain))
                                     ELSE Clear(Scrambled(o.plain))
=============================================================================
