--------------------------- MODULE S3StorageProofs ---------------------------
(***************************************************************************)
(* What is stored is what is read back, for every block size: the padding  *)
(* is found and removed whatever the data ends in.                         *)
(***************************************************************************)
EXTENDS S3Storage, SequenceTheorems, TLAPS

\* The padding is at least one byte and at most a block.
PadLength(d) == Block - (Len(d) % Block)

LEMMA PadLengthBounds ==
    ASSUME NEW d \in Seq(Bytes)
    PROVE  PadLength(d) \in 1..Block
<1>1. Len(d) \in Nat
  OBVIOUS
<1>2. Len(d) % Block \in 0..(Block - 1)
  BY <1>1, BlockAssumption
<1>. QED
  BY <1>2, BlockAssumption DEF PadLength

LEMMA PadShape ==
    ASSUME NEW d \in Seq(Bytes)
    PROVE  /\ Pad(d) \in Seq(Bytes)
           /\ Len(Pad(d)) = Len(d) + PadLength(d)
           /\ \A i \in 1..Len(d) : Pad(d)[i] = d[i]
           /\ \A i \in (Len(d) + 1)..Len(Pad(d)) : Pad(d)[i] = PadLength(d)
<1>. DEFINE n == PadLength(d)
            p == [i \in 1..n |-> n]
<1>1. n \in 1..Block
  BY PadLengthBounds
<1>2. n \in Nat /\ n \in Bytes
  BY <1>1, BlockAssumption DEF Bytes
<1>3. p \in Seq(Bytes) /\ Len(p) = n
  <2>. HIDE DEF n
  <2>. QED BY <1>2
<1>4. Pad(d) = d \o p
  BY DEF Pad, PadLength
<1>. HIDE DEF n, p
<1>5. Pad(d) \in Seq(Bytes) /\ Len(Pad(d)) = Len(d) + n
  BY <1>3, <1>4, ConcatProperties
<1>6. \A i \in 1..Len(d) : Pad(d)[i] = d[i]
  BY <1>3, <1>4
<1>7. ASSUME NEW i \in (Len(d) + 1)..Len(Pad(d))
      PROVE  Pad(d)[i] = n
  <2>1. i - Len(d) \in 1..n
    BY <1>2, <1>5
  <2>2. Pad(d)[i] = p[i - Len(d)]
    BY <1>2, <1>3, <1>4, <1>5
  <2>. QED
    BY <2>1, <2>2 DEF p
<1>. QED
  BY <1>5, <1>6, <1>7 DEF n

LEMMA PaddingIsFound ==
    ASSUME NEW d \in Seq(Bytes)
    PROVE  LooksPadded(Pad(d)) /\ Pad(d)[Len(Pad(d))] = PadLength(d)
<1>1. PadLength(d) \in 1..Block /\ Len(d) \in Nat
  BY PadLengthBounds
<1>2. Pad(d)[Len(Pad(d))] = PadLength(d)
  BY <1>1, PadShape, BlockAssumption
<1>3. Pad(d) # <<>> /\ PadLength(d) <= Len(Pad(d))
  BY <1>1, PadShape, BlockAssumption
<1>4. ASSUME NEW i \in (Len(Pad(d)) - PadLength(d) + 1)..Len(Pad(d))
      PROVE  Pad(d)[i] = PadLength(d)
  BY <1>1, PadShape, BlockAssumption
<1>. QED
  BY <1>1, <1>2, <1>3, <1>4 DEF LooksPadded

\* removePKCS7Padding undoes applyPKCS7Padding, whatever the data, which may
\* end in bytes that look like padding themselves, and also for data that
\* fills its last block.
THEOREM PaddingRoundTrip ==
    ASSUME NEW d \in Seq(Bytes)
    PROVE  Unpad(Pad(d)) = d
<1>1. Unpad(Pad(d)) = SubSeq(Pad(d), 1, Len(d))
  <2>1. PadLength(d) \in 1..Block /\ Len(d) \in Nat
    BY PadLengthBounds
  <2>2. Len(Pad(d)) - PadLength(d) = Len(d)
    BY <2>1, PadShape, BlockAssumption
  <2>. QED
    BY <2>2, PaddingIsFound DEF Unpad
<1>2. Pad(d) \in Seq(Bytes) /\ Len(d) \in Nat /\ Len(d) <= Len(Pad(d))
  <2>1. Len(Pad(d)) = Len(d) + PadLength(d) /\ Pad(d) \in Seq(Bytes)
    BY PadShape
  <2>2. PadLength(d) \in Nat /\ Len(d) \in Nat
    BY PadLengthBounds, BlockAssumption
  <2>. QED
    BY <2>1, <2>2
<1>3. Len(SubSeq(Pad(d), 1, Len(d))) = Len(d)
  BY <1>2
<1>4. \A i \in 1..Len(d) : SubSeq(Pad(d), 1, Len(d))[i] = d[i]
  BY <1>2, PadShape
<1>5. SubSeq(Pad(d), 1, Len(d)) \in Seq(Bytes)
  BY <1>2
<1>. QED
  BY <1>1, <1>3, <1>4, <1>5, SeqEqual

LEMMA UnpadType ==
    ASSUME NEW S, NEW d \in Seq(S)
    PROVE  Unpad(d) \in Seq(S)
<1>1. CASE ~ LooksPadded(d)
  BY <1>1 DEF Unpad
<1>2. CASE LooksPadded(d)
  <2>1. d[Len(d)] \in 1..Len(d)
    BY <1>2, BlockAssumption DEF LooksPadded
  <2>2. SubSeq(d, 1, Len(d) - d[Len(d)]) \in Seq(S)
    <3>. DEFINE m == Len(d) - d[Len(d)]
    <3>1. m \in Int /\ m <= Len(d) /\ Len(d) \in Nat
      BY <2>1
    <3>. HIDE DEF m
    <3>. QED BY <3>1 DEF m
  <2>. QED
    BY <1>2, <2>2 DEF Unpad
<1>. QED
  BY <1>1, <1>2

\* CryptBlocks needs whole blocks, and padding always gives them.
LEMMA PadFillsBlocks ==
    ASSUME NEW d \in Seq(Bytes)
    PROVE  Len(Pad(d)) % Block = 0
<1>1. Len(d) \in Nat /\ Block \in Nat \ {0}
  BY BlockAssumption
<1>2. Len(Pad(d)) = Len(d) + (Block - (Len(d) % Block))
  BY PadShape DEF PadLength
<1>3. ASSUME NEW n \in Nat, NEW b \in Nat \ {0}
      PROVE  (n + (b - (n % b))) % b = 0
  OBVIOUS
<1>. QED
  BY <1>1, <1>2, <1>3

\* A result reads back as what was stored, under the password it was stored
\* under: Encrypt (UploadFile) and Decrypt (DownloadFile) agree on the format.
THEOREM StorageRoundTrip ==
    ASSUME NEW d \in Seq(Bytes), NEW password
    PROVE  Decrypt(Encrypt(d, password), password) = Clear(d)
<1>. DEFINE o == Encrypt(d, password)
<1>1. o.format = "cbc" /\ ~ o.damaged /\ o.password = password
      /\ o.plain = Pad(d)
  BY DEF Encrypt, Object
<1>2. Decrypt(o, password) = Clear(Unpad(o.plain))
  BY <1>1, Zenon DEF Decrypt
<1>. QED
  BY <1>1, <1>2, PaddingRoundTrip
=============================================================================
