\* One worker and a first call that the provider rejects.
SPECIFICATION Spec
CONSTANTS
    w1 = w1
    w2 = w2
    Workers <- OneWorker
    Engines <- OpenAIOnly
    PrimaryEngine = "openai"
    SecondaryEngine = "anthropic"
    MaxInflight = 1
    BaseBackoff = 3
    MaxBackoff = 30
    Width = 8
    MaxOpens = 1
    RedisFails = FALSE
INVARIANTS
    FatalEndsAttempt
CHECK_DEADLOCK FALSE
