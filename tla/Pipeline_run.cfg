\* Both submissions of two pages that the queue may lose: failing stores, a
\* crash, a cancellation, a job_done call.
SPECIFICATION PipelineSpec
CONSTANTS
    TotalPages = 2
    FailureSets <- AnyFailures
    MaxCancels = 1
    MaxWebhooks = 1
    MaxCrashes = 1
INVARIANTS
    TypeOK
    CountsBounded
    ResultComplete
    SuccessAccountsForAllPages
    FullProgressIsSuccess
    SuccessMatchesFates
PROPERTIES
    SuccessIsFinal
    ImplementsOrchestrator
CHECK_DEADLOCK FALSE
