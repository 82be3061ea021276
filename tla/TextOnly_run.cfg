\* Two conversions with one place, a crash, lost writes, a cancellation.
SPECIFICATION FairSpec
CONSTANTS
    mine = mine
    theirs = theirs
    Calls <- TwoCalls
    Mine <- mine
    Documents <- SomeDocuments
    MaxWorkers = 1
    Placements <- Free
    MaxPages = 2
    MaxCancels = 1
    MayCrash = TRUE
    LostWrites = TRUE
INVARIANTS
    TypeOK
    SuccessHasWholeText
    SlotsMatchHolders
    SuccessNamesOutput
    DocumentStays
    NoFilesLeft
PROPERTIES
    ProgressNeverFalls
    EventuallyFinal
    EveryCallReturns
CHECK_DEADLOCK FALSE
