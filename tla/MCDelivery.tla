------------------------------ MODULE MCDelivery ------------------------------
(* The constants of Delivery for TLC: two jobs, and documents of lines that *)
(* go on and break off (2), break off (3), are sentences (4) or noise (5).  *)
EXTENDS Delivery

CONSTANTS j1, j2, p1, p2

MCJobs == {j1, j2}
MCPasswords == {p1, p2}
Alike == Permutations(MCJobs)

MCNoise == {5}
MCUnfinished == {2, 3}
MCLower == {2}

\* A sentence over four lines, which also looks like padding; a sentence after
\* an unfinished line, and one broken around noise; an empty file.
Four == <<2, 2, 2, 2>>
Broken == <<3, 5, 4, 3, 5, 2>>
MCDocuments == {Four, Broken, <<>>}

\* Both passwords, every format, and of old tools a file that looks padded and
\* an empty one.
MCVersions ==
    {[format |-> "gcm", password |-> p1, document |-> Broken],
     [format |-> "cbc", password |-> p2, document |-> Four],
     [format |-> "oldCbc", password |-> p1, document |-> Four],
     [format |-> "oldCbc", password |-> p1, document |-> <<>>]}
MCExtensions == {"none", "docx", "text"}
=============================================================================
