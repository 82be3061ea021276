\* Two jobs of one file, one change of the file, one poll, one fault.
SPECIFICATION Spec
CONSTANTS
    Block = 2
    MaxByte = 6
    Noise <- MCNoise
    Unfinished <- MCUnfinished
    Lower <- MCLower
    j1 = j1
    j2 = j2
    p1 = p1
    p2 = p2
    Passwords <- MCPasswords
    Versions <- MCVersions
    Jobs <- MCJobs
    Documents <- MCDocuments
    Extensions <- MCExtensions
    MaxChanges = 1
    MaxPolls = 1
    MaxFaults = 1
SYMMETRY Alike
INVARIANTS
    TypeOK
    WrongPasswordFails
    ReadBack
    KnownFileIsFound
    WordsKept
    JoinsOnlyBroken
CHECK_DEADLOCK FALSE
