\* Two workers compete for one slot of each model; Redis may fail.
SPECIFICATION Spec
CONSTANTS
    w1 = w1
    w2 = w2
    Workers <- TwoWorkers
    Engines <- SomeEngines
    PrimaryEngine = "openai"
    SecondaryEngine = "anthropic"
    MaxInflight = 1
    BaseBackoff = 3
    MaxBackoff = 30
    Width = 8
    MaxOpens = 1
    RedisFails = TRUE
INVARIANTS
    TypeOK
    SlotsMatchCalls
    NoModelCalledTwice
    BothEnginesTried
PROPERTIES
    CascadeAdvances
SYMMETRY WorkerSymmetry
