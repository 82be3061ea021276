\* Two pages whose reports arrive together; nothing fails.
SPECIFICATION Spec
CONSTANTS
    TotalPages = 2
    FailureSets <- NoFailures
    MaxCancels = 0
    MaxWebhooks = 0
    MaxCrashes = 0
PROPERTIES
    ReportRaisesCount
CHECK_DEADLOCK FALSE
