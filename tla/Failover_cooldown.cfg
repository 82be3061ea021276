\* One worker and a provider that keeps failing.
SPECIFICATION Spec
CONSTANTS
    w1 = w1
    w2 = w2
    Workers <- OneWorker
    Engines <- OpenAIOnly
    PrimaryEngine = "openai"
    SecondaryEngine = "anthropic"
    MaxInflight = 1
    BaseBackoff = 3
    MaxBackoff = 30
    Width = 8
    MaxOpens = 8
    RedisFails = FALSE
PROPERTIES
    OpenStartsCooldown
CHECK_DEADLOCK FALSE
