----------------------------- MODULE Converter -----------------------------
(***************************************************************************)
(* ConvertToPDF of internal/converter/libreoffice.go: the semaphore that   *)
(* bounds concurrent conversions, the password check, the LibreOffice      *)
(* process a conversion starts, its timeout, and Shutdown.                 *)
(*                                                                         *)
(* cmd.Process is the wrapper that the libreoffice command starts; the     *)
(* office program itself is a child of it and survives the wrapper's kill. *)
(* Abstractions: a conversion is its caller; its files are its own, named  *)
(* by the job; the profile directory, which the call creates and removes,  *)
(* is left out; time is the choice of when a timeout fires.                *)
(***************************************************************************)
EXTENDS Integers, FiniteSets

CONSTANTS
    Calls,       \* the calls of ConvertToPDF
    Placements,  \* what may lie where the output of another's call goes
    MaxWorkers   \* LIBREOFFICE_MAX_WORKERS, zero included

ASSUME CallsAssumption == IsFiniteSet(Calls)
ASSUME PlacementsAssumption == Placements \subseteq {"absent", "input"}
ASSUME MaxWorkersAssumption == MaxWorkers \in Nat

VARIABLES
    step,     \* per call: its next step
    inUse,    \* the filled places of the semaphore channel
    outcome,  \* per call: what it returned, for a success the output's name
    office,   \* per call: its office process
    exit,     \* per call: the exit code cmd.Run has put into done
    output,   \* per call: what lies where its output goes: nothing, its input,
              \* half an output, or a complete one under one of two names,
              \* until the caller removes it
    serving   \* serverRunning: Initialize succeeded, Shutdown did not run

callVars == <<step, inUse, outcome, office, exit, output>>
convVars == <<callVars, serving>>

Steps == {"idle", "acquire", "validate", "check", "prepare", "wait", "collect",
          "returned", "died"}
Names == {"asked", "byInput"}
Outcomes == {"none", "failed", "protected", "timedOut"} \cup Names

ConvTypeOK ==
    /\ step \in [Calls -> Steps]
    /\ inUse \in 0..MaxWorkers
    /\ outcome \in [Calls -> Outcomes]
    /\ office \in [Calls -> {"none", "running", "orphan", "gone"}]
    /\ exit \in [Calls -> {"none", "ok", "error"}]
    /\ output \in [Calls -> {"absent", "input", "partial", "removed"} \cup Names]
    /\ serving \in BOOLEAN

ConvInit ==
    /\ step = [c \in Calls |-> "idle"]
    /\ inUse = 0
    /\ outcome = [c \in Calls |-> "none"]
    /\ office = [c \in Calls |-> "none"]
    /\ exit = [c \in Calls |-> "none"]
    /\ output = [c \in Calls |-> "absent"]
    /\ serving \in BOOLEAN

Goto(c, s) == step' = [step EXCEPT ![c] = s]

-----------------------------------------------------------------------------
(* The call.                                                               *)

\* The office program names an output by its input, with the extension pdf,
\* and the callers have it put into the input's own directory: a document
\* that is named like a PDF lies where its output goes.
Invoke(c, there) ==
    /\ step[c] = "idle"
    /\ output' = [output EXCEPT ![c] = there]
    /\ Goto(c, "acquire")
    /\ UNCHANGED <<inUse, outcome, office, exit, serving>>

Acquire(c) ==
    /\ step[c] = "acquire"
    /\ inUse < MaxWorkers
    /\ inUse' = inUse + 1
    /\ Goto(c, "validate")
    /\ UNCHANGED <<outcome, office, exit, output, serving>>

\* Faulty variant: a timed-out call keeps its place.
ReturnUnlessLate(c, o) ==
    /\ outcome' = [outcome EXCEPT ![c] = o]
    /\ inUse' = IF o = "timedOut" THEN inUse ELSE inUse - 1
    /\ Goto(c, "returned")

\* The call returns, and its deferred functions give the place back.
ReturnWith(c, o) ==
    /\ outcome' = [outcome EXCEPT ![c] = o]
    /\ inUse' = inUse - 1
    /\ Goto(c, "returned")

\* Faulty variant: the place is not given back if the input is refused.
InputInvalidKeepsPlace(c) ==
    /\ step[c] = "validate"
    /\ outcome' = [outcome EXCEPT ![c] = "failed"]
    /\ Goto(c, "returned")
    /\ UNCHANGED <<inUse, office, exit, output, serving>>

\* The input is missing, empty or unreadable.
InputInvalid(c) ==
    /\ step[c] = "validate"
    /\ ReturnWith(c, "failed")
    /\ UNCHANGED <<office, exit, output, serving>>

InputValid(c) ==
    /\ step[c] = "validate"
    /\ Goto(c, "check")
    /\ UNCHANGED <<inUse, outcome, office, exit, output, serving>>

\* The check is a command of its own, without a timeout.  It finds a password
\* when the command fails and its output says so; any other error is no finding.
CheckPasses(c) ==
    /\ step[c] = "check"
    /\ Goto(c, "prepare")
    /\ UNCHANGED <<inUse, outcome, office, exit, output, serving>>

CheckFindsPassword(c) ==
    /\ step[c] = "check"
    /\ ReturnWith(c, "protected")
    /\ UNCHANGED <<office, exit, output, serving>>

PreparationFails(c) ==
    /\ step[c] = "prepare"
    /\ ReturnWith(c, "failed")
    /\ UNCHANGED <<office, exit, output, serving>>

StartOffice(c) ==
    /\ step[c] = "prepare"
    /\ office' = [office EXCEPT ![c] = "running"]
    /\ Goto(c, "wait")
    /\ UNCHANGED <<inUse, outcome, exit, output, serving>>

\* Both cases of the select may be ready; either is then taken.
TakeExit(c) ==
    /\ step[c] = "wait"
    /\ \/ exit[c] = "ok" /\ Goto(c, "collect") /\ UNCHANGED <<inUse, outcome>>
       \/ exit[c] = "error" /\ ReturnWith(c, "failed")
    /\ UNCHANGED <<office, exit, output, serving>>

\* Faulty variant: after a timeout the output is looked for all the same.
TimeoutCollects(c) ==
    /\ step[c] = "wait"
    /\ office' = [office EXCEPT ![c] = IF @ = "running" THEN "orphan" ELSE @]
    /\ Goto(c, "collect")
    /\ UNCHANGED <<inUse, outcome, exit, output, serving>>

\* The kill ends the wrapper; the office program goes on without it.
Timeout(c) ==
    /\ step[c] = "wait"
    /\ office' = [office EXCEPT ![c] = IF @ = "running" THEN "orphan" ELSE @]
    /\ ReturnWith(c, "timedOut")
    /\ UNCHANGED <<exit, output, serving>>

\* What lies where the output goes is renamed to what was asked for, or keeps
\* its name if that fails; only if nothing lies there did the conversion fail
\* after all.
Collect(c) ==
    /\ step[c] = "collect"
    /\ IF output[c] = "absent"
          THEN ReturnWith(c, "failed") /\ UNCHANGED output
          ELSE \E name \in Names :
                  /\ output' = [output EXCEPT ![c] =
                                   IF @ \in {"partial", "input"} THEN @ ELSE name]
                  /\ ReturnWith(c, name)
    /\ UNCHANGED <<office, exit, serving>>

\* The caller removes the output of a successful call; nobody else does.
RemoveOutput(c) ==
    /\ step[c] = "returned" /\ outcome[c] \in Names
    /\ output' = [output EXCEPT ![c] = "removed"]
    /\ UNCHANGED <<step, inUse, outcome, office, exit, serving>>

\* The caller of a failed call removes its input, from where the output goes.
RemoveInput(c) ==
    /\ step[c] = "returned" /\ outcome[c] \notin Names
    /\ output' = [output EXCEPT ![c] = "absent"]
    /\ UNCHANGED <<step, inUse, outcome, office, exit, serving>>

CallStep(c) ==
    \/ Acquire(c)
    \/ InputInvalid(c) \/ InputValid(c)
    \/ CheckPasses(c) \/ CheckFindsPassword(c)
    \/ PreparationFails(c) \/ StartOffice(c)
    \/ TakeExit(c) \/ Timeout(c) \/ Collect(c)

-----------------------------------------------------------------------------
(* The office process, an orphan included, and Shutdown.                   *)

OfficeLives(c) == office[c] \in {"running", "orphan"}

OfficeWrites(c) ==
    /\ OfficeLives(c)
    /\ \/ /\ output[c] \in {"absent", "input"}
          /\ output' = [output EXCEPT ![c] = "partial"]
       \/ output[c] = "partial" /\ output' = [output EXCEPT ![c] = "byInput"]
    /\ UNCHANGED <<step, inUse, outcome, office, exit, serving>>

\* Exit code 0 says that the output is complete or that none was written; the
\* code of an orphan is the wrapper's, which nobody waits for any more.
OfficeExits(c) ==
    /\ OfficeLives(c)
    /\ office' = [office EXCEPT ![c] = "gone"]
    /\ \E code \in {"ok", "error"} :
          /\ code = "ok" => output[c] # "partial"
          /\ exit' = [exit EXCEPT ![c] =
                         IF office[c] = "running" THEN code ELSE @]
    /\ UNCHANGED <<step, inUse, outcome, output, serving>>

\* pkill ends every office process there is, the callers stay.
Shutdown ==
    /\ serving
    /\ serving' = FALSE
    /\ exit' = [c \in Calls |-> IF office[c] = "running" THEN "error"
                                ELSE exit[c]]
    /\ office' = [c \in Calls |-> IF OfficeLives(c) THEN "gone" ELSE office[c]]
    /\ UNCHANGED <<step, inUse, outcome, output>>

\* The service dies with its calls and their places; the office processes do
\* not, and nobody is left who waits for them.
ServiceDies ==
    /\ step' = [c \in Calls |-> IF step[c] = "returned" THEN "returned"
                                ELSE "died"]
    /\ inUse' = 0
    /\ office' = [c \in Calls |-> IF office[c] = "running" THEN "orphan"
                                  ELSE office[c]]
    /\ serving' = FALSE
    /\ UNCHANGED <<outcome, exit, output>>

OfficeStep(c) == OfficeWrites(c) \/ OfficeExits(c)

\* What goes on beside the caller of one's own: other callers, every call on
\* its way, the office processes, a shutdown.
Beside(own) ==
    \/ \E c \in Calls \ {own}, there \in Placements : Invoke(c, there)
    \/ \E c \in Calls : CallStep(c) \/ OfficeStep(c)
    \/ Shutdown

ConvNext ==
    \/ \E c \in Calls :
          \/ \E there \in {"absent", "input"} : Invoke(c, there)
          \/ CallStep(c) \/ OfficeStep(c)
          \/ RemoveOutput(c) \/ RemoveInput(c)
    \/ Shutdown \/ ServiceDies

ConvSpec == ConvInit /\ [][ConvNext]_convVars

\* Goroutines run and timers fire: a call takes every step it can, except that
\* nothing bounds the password check.
CallProgress(c) == step[c] # "check" /\ CallStep(c)

ConvFairness == \A c \in Calls : WF_convVars(CallProgress(c))

-----------------------------------------------------------------------------
(* What the converter promises.                                            *)

Holding(c) == step[c] \in {"validate", "check", "prepare", "wait", "collect"}
Holders == {c \in Calls : Holding(c)}

\* The places taken are those of the calls between acquire and return and no
\* others, however a call ends: no early return keeps its place.
SlotsMatchHolders == inUse = Cardinality(Holders)

\* A call that reports success never names half an output or a missing one,
\* until its caller removes it, even when an office process outlives its
\* timeout and writes later: it names a complete output of its own document,
\* or, if that is named like a PDF and none was written, the document itself.
SuccessNamesOutput ==
    \A c \in Calls :
        step[c] = "returned" /\ outcome[c] \in Names
            => output[c] \in {outcome[c], "removed", "input"}

\* Password checks come back, which nothing in the code enforces.
ChecksReturn == \A c \in Calls : []<>(step[c] # "check")

\* A conversion that was asked for returns, whatever the office processes do:
\* places are given back and the timeout bounds the wait.
EveryCallReturns ==
    ChecksReturn =>
        \A c \in Calls : step[c] = "acquire" ~> step[c] \in {"returned", "died"}
=============================================================================
