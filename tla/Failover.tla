------------------------------ MODULE Failover ------------------------------
(***************************************************************************)
(* processPage of internal/dispatcher/worker.go: the cascade of provider   *)
(* calls one attempt at a page makes, and the limiter of                   *)
(* internal/limiter/limiter.go the workers share: an in-process semaphore  *)
(* and a circuit breaker in Redis for every provider:model.                *)
(*                                                                         *)
(* A step is one Redis command, one semaphore operation or one provider    *)
(* call.  Abstractions: a model is its role at its provider; an error is   *)
(* its class; time is two choices, when a cooldown ends and when the       *)
(* page's own context runs out; a duration is an integer of Width bits.    *)
(* When the context is over, Redis commands and calls made under it fail.  *)
(***************************************************************************)
EXTENDS Integers, Sequences, FiniteSets

CONSTANTS
    Workers,          \* the loop goroutines
    Engines,          \* the engines a job may ask for
    PrimaryEngine,    \* PRIMARY_ENGINE, for a job that asks for none
    SecondaryEngine,  \* SECONDARY_ENGINE
    MaxInflight,      \* MAX_INFLIGHT_PER_MODEL
    BaseBackoff,      \* BREAKER_BASE_BACKOFF
    MaxBackoff,       \* BREAKER_MAX_BACKOFF
    Width,            \* bits of a duration
    MaxOpens,         \* bound on the failures a breaker counts
    RedisFails        \* a Redis command may fail, an error the limiter ignores

\* A job may name any engine; one that is unknown has the models and the
\* client of openai, under breakers and semaphores of its own name.
Providers == {"openai", "anthropic", "unknown"}

ASSUME EnginesAssumption ==
    /\ Engines \subseteq Providers
    /\ PrimaryEngine \in {"openai", "anthropic"}
    /\ SecondaryEngine \in {"openai", "anthropic"}
ASSUME WorkersAssumption == IsFiniteSet(Workers)
ASSUME MaxInflightAssumption == MaxInflight \in Nat \ {0}
ASSUME BackoffAssumption ==
    /\ BaseBackoff \in Nat \ {0} /\ MaxBackoff \in Nat \ {0}
    /\ Width \in Nat \ {0} /\ MaxOpens \in Nat \ {0}
    /\ RedisFails \in BOOLEAN

Model == Providers \X {"primary", "secondary", "fast"}

\* The configuration has a model of every role but for an unknown engine.
HasModel(m) == m[1] = "unknown" => m[2] = "primary"

VARIABLES
    pc,        \* per worker: the next step of processPage
    engine,    \* per worker: the page's primary provider
    fast,      \* per worker: the page asks for the fast models
    stage,     \* per worker: which call of the cascade is next
    err,       \* per worker: what the primary provider's primary model gave
    count,     \* per worker: the failures the breaker it opens counts
    late,      \* per worker: the page's context is over
    calls,     \* per worker: the models called for the page, in order
    blocked,   \* per worker: the models found in cooldown or without a slot
    inflight,  \* per model: the occupied slots of its semaphore
    cooling,   \* per model: its breaker is open, the cooldown lasts
    failures   \* per model: the breaker's count of failures

pageVars == <<pc, engine, fast, stage, err, count, late, calls, blocked>>
vars == <<pageVars, inflight, cooling, failures>>

Errors == {"rateLimited", "transient", "fatal"}
Retryable(e) == e \in {"rateLimited", "transient"}

Pc == {"idle", "gate", "allow", "calling", "incr", "cooldown", "close", "gaveUp"}

TypeOK ==
    /\ pc \in [Workers -> Pc]
    /\ engine \in [Workers -> Providers]
    /\ fast \in [Workers -> BOOLEAN]
    /\ stage \in [Workers -> 1..4]
    /\ err \in [Workers -> {"none"} \cup Errors]
    /\ count \in [Workers -> 0..MaxOpens]
    /\ late \in [Workers -> BOOLEAN]
    /\ calls \in [Workers -> Seq(Model)]
    /\ blocked \in [Workers -> SUBSET Model]
    /\ inflight \in [Model -> 0..MaxInflight]
    /\ cooling \in [Model -> BOOLEAN]
    /\ failures \in [Model -> 0..MaxOpens]

Init ==
    /\ pc = [w \in Workers |-> "idle"]
    /\ engine = [w \in Workers |-> PrimaryEngine]
    /\ fast = [w \in Workers |-> FALSE]
    /\ stage = [w \in Workers |-> 1]
    /\ err = [w \in Workers |-> "none"]
    /\ count = [w \in Workers |-> 0]
    /\ late = [w \in Workers |-> FALSE]
    /\ calls = [w \in Workers |-> <<>>]
    /\ blocked = [w \in Workers |-> {}]
    /\ inflight = [m \in Model |-> 0]
    /\ cooling = [m \in Model |-> FALSE]
    /\ failures = [m \in Model |-> 0]

-----------------------------------------------------------------------------
(* The cascade.                                                            *)

\* Faulty variant: the second half of the cascade goes to the page's engine.
ModelOfEngine(w, s) ==
    IF fast[w]
       THEN <<IF s = 1 THEN engine[w] ELSE SecondaryEngine, "fast">>
       ELSE <<engine[w], IF s \in {1, 3} THEN "primary" ELSE "secondary">>

\* The model of a stage: two fast models, or the two models of each provider.
ModelOf(w, s) ==
    IF fast[w]
       THEN <<IF s = 1 THEN engine[w] ELSE SecondaryEngine, "fast">>
       ELSE <<IF s <= 2 THEN engine[w] ELSE SecondaryEngine,
              IF s \in {1, 3} THEN "primary" ELSE "secondary">>

Current(w) == ModelOf(w, stage[w])

\* Faulty variant: a first model in cooldown or without a slot ends the
\* cascade.
AfterRefused(w, s, e, wasCalled) ==
    CASE fast[w] /\ s = 1 -> 2
      [] ~ fast[w] /\ s = 1 /\ wasCalled ->
            IF Retryable(e) /\ HasModel(ModelOf(w, 2)) THEN 2 ELSE 3
      [] ~ fast[w] /\ s = 2 -> 3
      [] ~ fast[w] /\ s = 3 /\ wasCalled /\ Retryable(e) -> 4
      [] OTHER -> 0

\* Faulty variant: a second model is asked again for as long as the first
\* call's error was retryable.
AfterAgain(w, s, e, wasCalled) ==
    CASE fast[w] /\ s = 1 -> 2
      [] ~ fast[w] /\ s = 1 ->
            IF Retryable(e) /\ HasModel(ModelOf(w, 2)) THEN 2 ELSE 3
      [] ~ fast[w] /\ s = 2 -> IF wasCalled /\ Retryable(e) THEN 2 ELSE 3
      [] ~ fast[w] /\ s = 3 /\ wasCalled /\ Retryable(e) -> 4
      [] OTHER -> 0

\* The stage after stage s when it brought no text, 0 if none is left.  A
\* provider's second model is tried only when the error e of the very first
\* call was retryable, the second provider's only after a call of its first.
After(w, s, e, wasCalled) ==
    CASE fast[w] /\ s = 1 -> 2
      [] ~ fast[w] /\ s = 1 ->
            IF Retryable(e) /\ HasModel(ModelOf(w, 2)) THEN 2 ELSE 3
      [] ~ fast[w] /\ s = 2 -> 3
      [] ~ fast[w] /\ s = 3 /\ wasCalled /\ Retryable(e) -> 4
      [] OTHER -> 0

\* Worker w, whose cascade error is e, leaves its stage without a text.
MoveOn(w, e, wasCalled) ==
    LET next == After(w, stage[w], e, wasCalled) IN
    /\ pc' = [pc EXCEPT ![w] = IF next = 0 THEN "gaveUp" ELSE "gate"]
    /\ stage' = [stage EXCEPT ![w] = IF next = 0 THEN @ ELSE next]

\* The worker picks a page: an engine without a fast model leaves the fast
\* models to the secondary engine.  force_fast is a field of the payload; the
\* handlers do not set it today, so pages with it come from other producers.
StartPage(w) ==
    /\ pc[w] = "idle"
    /\ \E e \in Engines, f \in BOOLEAN :
          /\ engine' = [engine EXCEPT ![w] = e]
          /\ fast' = [fast EXCEPT ![w] = f]
          /\ stage' = [stage EXCEPT ![w] =
                          IF f /\ ~ HasModel(<<e, "fast">>) THEN 2 ELSE 1]
    /\ pc' = [pc EXCEPT ![w] = "gate"]
    /\ UNCHANGED <<err, count, late, calls, blocked, inflight, cooling, failures>>

\* What IsOpen may answer: an error reads as closed.
IsOpen(w, m) ==
    (IF late[w] THEN {} ELSE {cooling[m]})
        \cup (IF late[w] \/ RedisFails THEN {FALSE} ELSE {})

BreakerOpen(w) ==
    /\ pc[w] = "gate"
    /\ TRUE \in IsOpen(w, Current(w))
    /\ blocked' = [blocked EXCEPT ![w] = @ \cup {Current(w)}]
    /\ MoveOn(w, err[w], FALSE)
    /\ UNCHANGED <<engine, fast, err, count, late, calls, inflight, cooling,
                   failures>>

BreakerClosed(w) ==
    /\ pc[w] = "gate"
    /\ FALSE \in IsOpen(w, Current(w))
    /\ pc' = [pc EXCEPT ![w] = "allow"]
    /\ UNCHANGED <<engine, fast, stage, err, count, late, calls, blocked,
                   inflight, cooling, failures>>

\* Faulty variant: one slot too many.
AllowOneMore(w) ==
    LET m == Current(w) IN
    /\ pc[w] = "allow"
    /\ inflight[m] <= MaxInflight
    /\ inflight' = [inflight EXCEPT ![m] = @ + 1]
    /\ calls' = [calls EXCEPT ![w] = Append(@, m)]
    /\ pc' = [pc EXCEPT ![w] = "calling"]
    /\ UNCHANGED <<engine, fast, stage, err, count, late, blocked, cooling,
                   failures>>

\* Allow reserves a slot if one is free, and the call starts.
Allow(w) ==
    LET m == Current(w) IN
    /\ pc[w] = "allow"
    /\ inflight[m] < MaxInflight
    /\ inflight' = [inflight EXCEPT ![m] = @ + 1]
    /\ calls' = [calls EXCEPT ![w] = Append(@, m)]
    /\ pc' = [pc EXCEPT ![w] = "calling"]
    /\ UNCHANGED <<engine, fast, stage, err, count, late, blocked, cooling,
                   failures>>

\* It never waits for a slot.
NoSlot(w) ==
    /\ pc[w] = "allow"
    /\ inflight[Current(w)] = MaxInflight
    /\ blocked' = [blocked EXCEPT ![w] = @ \cup {Current(w)}]
    /\ MoveOn(w, err[w], FALSE)
    /\ UNCHANGED <<engine, fast, err, count, late, calls, inflight, cooling,
                   failures>>

\* Faulty variant: the slot is not given back.
KeepSlot(m) == UNCHANGED inflight

Release(m) == inflight' = [inflight EXCEPT ![m] = @ - 1]

\* The call brings a text; the slot is released before the breaker is reset.
CallSucceeds(w) ==
    /\ pc[w] = "calling"
    /\ ~ late[w]
    /\ Release(Current(w))
    /\ pc' = [pc EXCEPT ![w] = "close"]
    /\ UNCHANGED <<engine, fast, stage, err, count, late, calls, blocked,
                   cooling, failures>>

\* The call fails.  Only the first call of the normal cascade decides what may
\* follow, and only its model's breaker is opened.
CallFails(w) ==
    /\ pc[w] = "calling"
    /\ Release(Current(w))
    /\ \E e \in IF late[w] THEN {"transient"} ELSE Errors :
          IF stage[w] = 1 /\ ~ fast[w]
             THEN /\ err' = [err EXCEPT ![w] = e]
                  /\ IF Retryable(e)
                        THEN /\ pc' = [pc EXCEPT ![w] = "incr"]
                             /\ UNCHANGED stage
                        ELSE MoveOn(w, e, TRUE)
             ELSE MoveOn(w, err[w], TRUE) /\ UNCHANGED err
    /\ UNCHANGED <<engine, fast, count, late, calls, blocked, cooling, failures>>

-----------------------------------------------------------------------------
(* The breaker.                                                            *)

Wrap(x) ==
    LET low == x % (2 ^ Width)
    IN IF low >= 2 ^ (Width - 1) THEN low - 2 ^ Width ELSE low

\* The cooldown after n failures: the doubling wraps around before the cap.
Cooldown(n) ==
    LET d == Wrap(BaseBackoff * 2 ^ (n - 1))
    IN IF d > MaxBackoff THEN MaxBackoff ELSE d

Saturated(n) == IF n > MaxOpens THEN MaxOpens ELSE n

\* Open, first command: INCR of the failure count, which is 1 on an error.
CountFailure(w) ==
    LET m == Current(w) IN
    /\ pc[w] = "incr"
    /\ \/ /\ ~ late[w]
          /\ failures' = [failures EXCEPT ![m] = Saturated(@ + 1)]
          /\ count' = [count EXCEPT ![w] = Saturated(failures[m] + 1)]
       \/ /\ late[w] \/ RedisFails
          /\ count' = [count EXCEPT ![w] = 1]
          /\ UNCHANGED failures
    /\ pc' = [pc EXCEPT ![w] = "cooldown"]
    /\ UNCHANGED <<engine, fast, stage, err, late, calls, blocked, inflight,
                   cooling>>

\* Open, second command: SET of the time the cooldown ends.
SetCooldown(w) ==
    LET m == Current(w) IN
    /\ pc[w] = "cooldown"
    /\ \/ ~ late[w] /\ cooling' = [cooling EXCEPT ![m] = Cooldown(count[w]) > 0]
       \/ (late[w] \/ RedisFails) /\ UNCHANGED cooling
    /\ MoveOn(w, err[w], TRUE)
    /\ UNCHANGED <<engine, fast, err, count, late, calls, blocked, inflight,
                   failures>>

\* processPage returns, and its locals are gone.
Return(w) ==
    /\ pc' = [pc EXCEPT ![w] = "idle"]
    /\ engine' = [engine EXCEPT ![w] = PrimaryEngine]
    /\ fast' = [fast EXCEPT ![w] = FALSE]
    /\ stage' = [stage EXCEPT ![w] = 1]
    /\ err' = [err EXCEPT ![w] = "none"]
    /\ count' = [count EXCEPT ![w] = 0]
    /\ late' = [late EXCEPT ![w] = FALSE]
    /\ calls' = [calls EXCEPT ![w] = <<>>]
    /\ blocked' = [blocked EXCEPT ![w] = {}]

\* Close: DEL of both keys, then processPage returns the text.
CloseBreaker(w) ==
    LET m == Current(w) IN
    /\ pc[w] = "close"
    /\ \/ /\ ~ late[w]
          /\ cooling' = [cooling EXCEPT ![m] = FALSE]
          /\ failures' = [failures EXCEPT ![m] = 0]
       \/ (late[w] \/ RedisFails) /\ UNCHANGED <<cooling, failures>>
    /\ Return(w)
    /\ UNCHANGED inflight

\* processPage returns an error.
GiveUp(w) ==
    /\ pc[w] = "gaveUp"
    /\ Return(w)
    /\ UNCHANGED <<inflight, cooling, failures>>

-----------------------------------------------------------------------------
(* Time.                                                                   *)

CooldownEnds(m) ==
    /\ cooling[m]
    /\ cooling' = [cooling EXCEPT ![m] = FALSE]
    /\ UNCHANGED <<pageVars, inflight, failures>>

\* PAGE_TOTAL_TIMEOUT.
ContextEnds(w) ==
    /\ pc[w] # "idle" /\ ~ late[w]
    /\ late' = [late EXCEPT ![w] = TRUE]
    /\ UNCHANGED <<pc, engine, fast, stage, err, count, calls, blocked,
                   inflight, cooling, failures>>

Finishing(w) ==
    \/ BreakerOpen(w) \/ BreakerClosed(w) \/ Allow(w) \/ NoSlot(w)
    \/ CallSucceeds(w) \/ CallFails(w)
    \/ CountFailure(w) \/ SetCooldown(w) \/ CloseBreaker(w) \/ GiveUp(w)

Next ==
    \/ \E w \in Workers : StartPage(w) \/ Finishing(w) \/ ContextEnds(w)
    \/ \E m \in Model : CooldownEnds(m)

Spec == Init /\ [][Next]_vars

-----------------------------------------------------------------------------
(* What the cascade and the limiter promise.                               *)

Callers(m) == {w \in Workers : pc[w] = "calling" /\ Current(w) = m}

\* The slots of a model are held by the calls that are under way and by no
\* one else: whichever way a stage ends, its slot was given back once, and no
\* model ever has more than MaxInflight calls.
SlotsMatchCalls ==
    \A m \in Model :
        inflight[m] = Cardinality(Callers(m)) /\ inflight[m] <= MaxInflight

\* One attempt at a page calls no model twice, unless the page's own engine
\* is the secondary engine too.
NoModelCalledTwice ==
    \A w \in Workers :
        engine[w] # SecondaryEngine =>
            \A i, k \in DOMAIN calls[w] : calls[w][i] = calls[w][k] => i = k

Tried(w) == blocked[w] \cup {calls[w][i] : i \in DOMAIN calls[w]}

\* An attempt fails only after both engines were asked, or were in cooldown or
\* without a slot; after a retryable first error that goes for the second
\* model of the page's engine too.  The second engine is asked after a fatal
\* error as well, against the plan's rule for such an error.
BothEnginesTried ==
    \A w \in Workers : pc[w] = "gaveUp" =>
        IF fast[w] THEN <<SecondaryEngine, "fast">> \in Tried(w)
        ELSE /\ {<<engine[w], "primary">>, <<SecondaryEngine, "primary">>}
                    \subseteq Tried(w)
             /\ Retryable(err[w]) /\ HasModel(<<engine[w], "secondary">>) =>
                    <<engine[w], "secondary">> \in Tried(w)

\* What the plan says of a fatal error, a request the provider rejects: no
\* other model is called for the page.
FatalEndsAttempt ==
    \A w \in Workers : err[w] = "fatal" => Len(calls[w]) = 1

\* How far an attempt has come within its stage.
StepsMade(l) ==
    CASE l = "gate" -> 1
      [] l = "allow" -> 2
      [] l = "calling" -> 3
      [] l \in {"incr", "close"} -> 4
      [] l = "cooldown" -> 5
      [] OTHER -> 6

Rank(w) == 6 * stage[w] + StepsMade(pc[w])

\* Whatever an attempt meets (open breakers, full semaphores, errors, the end
\* of its context), and whatever other workers do meanwhile, a step of it
\* leads forward or returns: it never goes back to a model it has left, and is
\* over after at most four calls and 24 steps, also when both engines are the
\* same.
CascadeAdvances ==
    [][\A w \in Workers :
          /\ pc[w] # "idle"
          /\ <<pc[w], stage[w], err[w], count[w], calls[w], blocked[w]>>'
                # <<pc[w], stage[w], err[w], count[w], calls[w], blocked[w]>>
          => pc'[w] = "idle" \/ Rank(w)' > Rank(w)]_vars

\* Opening a breaker puts the model into its cooldown, however many failures
\* came before, unless Redis cannot be reached.
OpenStartsCooldown ==
    [][\A w \in Workers :
          SetCooldown(w) /\ ~ late[w] /\ ~ RedisFails
              => cooling'[Current(w)]]_vars
=============================================================================
