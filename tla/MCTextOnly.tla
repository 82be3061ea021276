------------------------------ MODULE MCTextOnly ------------------------------
(* The constants of TextOnly for TLC: two conversions, four documents.      *)
EXTENDS TextOnly

CONSTANTS mine, theirs

TwoCalls == {mine, theirs}

\* The document that lies where its output goes is the job's own.
Free == {"absent"}

\* A document is read as it is, converted, converted where its output goes,
\* or refused.
SomeDocuments ==
    {[magic |-> "octetStream", extension |-> "pdf"],
     [magic |-> "zip", extension |-> "docx"],
     [magic |-> "docx", extension |-> "pdf"],
     [magic |-> "zip", extension |-> "none"]}
=============================================================================
