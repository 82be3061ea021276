\* A cancellation before or while the document is processed; nothing fails.
SPECIFICATION Spec
CONSTANTS
    mine = mine
    theirs = theirs
    Calls <- TwoCalls
    Mine <- mine
    Documents <- SomeDocuments
    MaxWorkers = 1
    Placements <- Free
    MaxPages = 2
    MaxCancels = 1
    MayCrash = FALSE
    LostWrites = FALSE
PROPERTIES
    CancelledIsFinal
CHECK_DEADLOCK FALSE
