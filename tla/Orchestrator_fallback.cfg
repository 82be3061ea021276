\* A page that failed in the end; nothing else fails.
SPECIFICATION Spec
CONSTANTS
    TotalPages = 2
    FailureSets <- NoFailures
    MaxCancels = 0
    MaxWebhooks = 0
    MaxCrashes = 0
INVARIANTS
    FallbackTextSaved
CHECK_DEADLOCK FALSE
