------------------------------ MODULE FileType ------------------------------
(***************************************************************************)
(* internal/filetype/detector.go: what a file is taken for, and what is    *)
(* done with it.  A type is a family of the MIME types the code treats     *)
(* alike; a file is the family the magic bytes give (the mimetype library, *)
(* outside this repository) and the family its name's extension stands     *)
(* for.  Descriptions and letter case are left out.                        *)
(***************************************************************************)

MSOffice == {"docx", "xlsx", "pptx"}
OpenDocument == {"odt", "ods", "odp"}
LegacyOffice == {"doc", "xls", "ppt"}
Visio == {"vsd", "vsdx"}
Image == {"image"}

\* Text, HTML and XML are all "text/"; an RTF file is so only for a library
\* that says text/rtf.
TextTypes == {"text", "xml", "json"}

Types == {"pdf", "rtf", "zip", "ole", "octetStream", "other"} \cup TextTypes
             \cup MSOffice \cup OpenDocument \cup LegacyOffice \cup Visio
             \cup Image

Files == [magic : Types, extension : Types \cup {"none"}]

\* The extensions that are believed when the magic bytes say no more than m.
Believed(m) ==
    CASE m = "octetStream" -> {"pdf"} \cup MSOffice
      [] m = "zip" -> MSOffice \cup OpenDocument \cup {"vsdx"}
      [] m = "ole" -> LegacyOffice \cup {"vsd"}
      [] OTHER -> {}

\* Detect: magic bytes, and the extension for three containers of anything.
Detect(f) == IF f.extension \in Believed(f.magic) THEN f.extension ELSE f.magic

IsText(t) == t \in TextTypes

\* Faulty variant: content nobody can name is let through.
SupportedUnlessOther(t) == t # "other"

Supported(t) == t \notin {"zip", "ole", "octetStream", "other"}

\* Converted by LibreOffice before its pages are read.
RequiresConversion(t) == t # "pdf" /\ ~ IsText(t) /\ Supported(t)
=============================================================================
