------------------------------ MODULE Breaker ------------------------------
(***************************************************************************)
(* The client-side circuit breaker of clientx/breaker.go.                  *)
(*                                                                         *)
(* Every method of Breaker holds b.mu for its whole body, so before(),     *)
(* after() and State() are one atomic step each.  What is not under the    *)
(* mutex is the protected operation fn: between before() and after() of    *)
(* one caller any number of steps of the other callers, and of the clock,  *)
(* may happen.  A caller is a goroutine that runs Do repeatedly.           *)
(*                                                                         *)
(* Time is a natural number of clock ticks, bounded by MaxTime.  The       *)
(* generation needs no bound of its own: it advances at most twice per     *)
(* cooldown.                                                               *)
(***************************************************************************)
EXTENDS Integers, FiniteSets

CONSTANTS
    Callers,        \* goroutines that share the breaker
    Threshold,      \* b.threshold, made positive by NewBreaker
    Cooldown,       \* b.cooldown in ticks, made positive by NewBreaker
    MaxTime         \* bound on the clock

ASSUME ThresholdAssumption == Threshold \in Nat \ {0}
ASSUME CooldownAssumption == Cooldown \in Nat \ {0}
ASSUME MaxTimeAssumption == MaxTime \in Nat

VARIABLES
    state,          \* b.state
    failures,       \* b.failures, consecutive counted failures
    openUntil,      \* b.openUntil
    halfOpenProbe,  \* b.halfOpenProbe
    generation,     \* b.generation
    now,            \* b.now()
    calls,          \* per caller: is fn running, and with which permit
    trippedAt,      \* history: when the circuit last opened
    probeLost       \* history: a probe's fn panicked

breakerVars == <<state, failures, openUntil, halfOpenProbe, generation>>
vars == <<breakerVars, now, calls, trippedAt, probeLost>>

\* What fn returned, as after() tells results apart: nil, an error
\* shouldCount accepts, or one it does not (cancellation, deadline).
Outcomes == {"ok", "counted", "uncounted"}

BreakerStates == {"Closed", "Open", "HalfOpen"}

\* The permit a caller holds while fn runs (breakerPermit), with a flag that
\* says whether it is between before() and after() at all.
Permits == [running : BOOLEAN, generation : Nat, halfOpen : BOOLEAN]
NoCall == [running |-> FALSE, generation |-> 0, halfOpen |-> FALSE]

TypeOK ==
    /\ state \in BreakerStates
    /\ failures \in Nat
    /\ openUntil \in Nat
    /\ halfOpenProbe \in BOOLEAN
    /\ generation \in Nat
    /\ now \in Nat
    /\ calls \in [Callers -> Permits]
    /\ trippedAt \in Nat
    /\ probeLost \in BOOLEAN

\* NewBreaker: closed, nothing counted; openUntil is the zero time.
Init ==
    /\ state = "Closed"
    /\ failures = 0
    /\ openUntil = 0
    /\ halfOpenProbe = FALSE
    /\ generation = 0
    /\ now = 0
    /\ calls = [c \in Callers |-> NoCall]
    /\ trippedAt = 0
    /\ probeLost = FALSE

-----------------------------------------------------------------------------
\* currentStateLocked: an expired Open is read, and stored, as HalfOpen.
CurrentState ==
    IF state = "Open" /\ openUntil <= now THEN "HalfOpen" ELSE state

\* State(): the query stores the lazily computed state.
Observe ==
    /\ state' = CurrentState
    /\ UNCHANGED <<failures, openUntil, halfOpenProbe, generation,
                   now, calls, trippedAt, probeLost>>

\* Mutant: before() forgets to look at halfOpenProbe.
AdmitIgnoringProbe(c) ==
    /\ ~calls[c].running
    /\ CurrentState # "Open"
    /\ state' = CurrentState
    /\ halfOpenProbe' = (halfOpenProbe \/ CurrentState = "HalfOpen")
    /\ calls' = [calls EXCEPT ![c] = [running |-> TRUE,
                                      generation |-> generation,
                                      halfOpen |-> CurrentState = "HalfOpen"]]
    /\ UNCHANGED <<failures, openUntil, generation, now, trippedAt, probeLost>>

\* before() grants a permit; in HalfOpen the permit is the one probe.
Admit(c) ==
    /\ ~calls[c].running
    /\ CurrentState # "Open"
    /\ CurrentState = "HalfOpen" => ~halfOpenProbe
    /\ state' = CurrentState
    /\ halfOpenProbe' = (halfOpenProbe \/ CurrentState = "HalfOpen")
    /\ calls' = [calls EXCEPT ![c] = [running |-> TRUE,
                                      generation |-> generation,
                                      halfOpen |-> CurrentState = "HalfOpen"]]
    /\ UNCHANGED <<failures, openUntil, generation, now, trippedAt, probeLost>>

\* before() returns ErrCircuitOpen: Open, or HalfOpen with the probe out.
Reject(c) ==
    /\ ~calls[c].running
    /\ CurrentState = "Open" \/ (CurrentState = "HalfOpen" /\ halfOpenProbe)
    /\ state' = CurrentState
    /\ UNCHANGED <<failures, openUntil, halfOpenProbe, generation,
                   now, calls, trippedAt, probeLost>>

-----------------------------------------------------------------------------
\* Mutant: Opening again keeps the old deadline.
TripKeepsDeadline ==
    /\ state' = "Open"
    /\ openUntil' = IF openUntil = 0 THEN now + Cooldown ELSE openUntil
    /\ generation' = generation + 1
    /\ trippedAt' = now

\* The branches of after(), as changes of the breaker's own fields.
Trip ==
    /\ state' = "Open"
    /\ openUntil' = now + Cooldown
    /\ generation' = generation + 1
    /\ trippedAt' = now

\* Mutant: A failed probe does not give the slot back.
ProbeResultKeepsSlot(out) ==
    IF out = "ok"
    THEN /\ halfOpenProbe' = FALSE
         /\ failures' = 0
         /\ state' = "Closed"
         /\ generation' = generation + 1
         /\ UNCHANGED <<openUntil, trippedAt>>
    ELSE Trip /\ UNCHANGED <<failures, halfOpenProbe>>

\* The verdict of the half-open probe: only nil closes the circuit, every
\* error (a cancellation too) opens it for another cooldown.
ProbeResult(out) ==
    /\ halfOpenProbe' = FALSE
    /\ IF out = "ok"
       THEN /\ failures' = 0
            /\ state' = "Closed"
            /\ generation' = generation + 1
            /\ UNCHANGED <<openUntil, trippedAt>>
       ELSE /\ Trip
            /\ UNCHANGED failures

\* A result that arrives while the circuit is closed.
ClosedResult(out) ==
    /\ UNCHANGED halfOpenProbe
    /\ \/ /\ out = "ok"
          /\ failures' = 0
          /\ UNCHANGED <<state, openUntil, generation, trippedAt>>
       \/ /\ out = "uncounted"
          /\ UNCHANGED <<breakerVars, trippedAt>>
       \/ /\ out = "counted"
          /\ failures' = failures + 1
          /\ IF failures + 1 >= Threshold
             THEN Trip
             ELSE UNCHANGED <<state, openUntil, generation, trippedAt>>

\* Mutant: after() without the generation check.
ApplyAnyGeneration(permit, out) ==
    IF permit.halfOpen /\ state = "HalfOpen"
    THEN ProbeResult(out)
    ELSE IF state = "Closed"
         THEN ClosedResult(out)
         ELSE UNCHANGED <<breakerVars, trippedAt>>

\* after(permit, err): a result of an older generation, or one that finds
\* neither its probe nor a closed circuit, is dropped.
ApplyResult(permit, out) ==
    IF permit.generation # generation
    THEN UNCHANGED <<breakerVars, trippedAt>>
    ELSE IF permit.halfOpen /\ state = "HalfOpen"
         THEN ProbeResult(out)
         ELSE IF state = "Closed"
              THEN ClosedResult(out)
              ELSE UNCHANGED <<breakerVars, trippedAt>>

\* fn returns and Do calls after().
Return(c, out) ==
    /\ calls[c].running
    /\ ApplyResult(calls[c], out)
    /\ calls' = [calls EXCEPT ![c] = NoCall]
    /\ UNCHANGED <<now, probeLost>>

\* fn panics and the panic is recovered further up (mid.Recovery): after()
\* is not deferred, so Do leaves without it and the permit is gone.
Panic(c) ==
    /\ calls[c].running
    /\ calls' = [calls EXCEPT ![c] = NoCall]
    /\ probeLost' = (probeLost \/ calls[c].halfOpen)
    /\ UNCHANGED <<breakerVars, now, trippedAt>>

Tick ==
    /\ now < MaxTime
    /\ now' = now + 1
    /\ UNCHANGED <<breakerVars, calls, trippedAt, probeLost>>

Next ==
    \/ Observe
    \/ \E c \in Callers : Admit(c)
    \/ \E c \in Callers : Reject(c)
    \/ \E c \in Callers, out \in Outcomes : Return(c, out)
    \/ \E c \in Callers : Panic(c)
    \/ Tick

Spec == Init /\ [][Next]_vars

\* Callers keep calling, a protected operation ends (HTTPClient gives every
\* attempt a timeout) and the clock runs.
FairSpec ==
    /\ Spec
    /\ WF_vars(Tick)
    /\ WF_vars(\E c \in Callers : Admit(c))
    /\ \A c \in Callers : WF_vars(\E out \in Outcomes : Return(c, out))

-----------------------------------------------------------------------------
Probes == {c \in Callers : calls[c].running /\ calls[c].halfOpen}
Admitted(c) == ~calls[c].running /\ calls'[c].running
Returned(c) == calls[c].running /\ ~calls'[c].running

\* In the half-open state at most one protected operation is in flight
\* (before() hands out one probe), and no call admitted before the trip is
\* ever taken for it: a permit of the current generation is the probe's in
\* HalfOpen, an ordinary one in Closed, and does not exist in Open.
SingleProbe ==
    /\ \A c, d \in Probes : c = d
    /\ \A c \in Callers : calls[c].running => calls[c].generation <= generation
    /\ \A c \in Callers : calls[c].running /\ calls[c].generation = generation =>
          \/ calls[c].halfOpen /\ state = "HalfOpen" /\ halfOpenProbe
          \/ ~calls[c].halfOpen /\ state = "Closed"

\* The breaker is well typed, and one caller probes.
BreakerInv == TypeOK /\ SingleProbe

\* The probe slot is taken exactly while some caller holds the probe permit,
\* or for good when that caller's fn panicked; it is free outside HalfOpen.
\* A slot held by nobody would reject every call for ever.
ProbeAccounted ==
    /\ halfOpenProbe <=> (Probes # {} \/ probeLost)
    /\ halfOpenProbe => state = "HalfOpen"

\* The failure count stays below the threshold exactly while the circuit is
\* closed, whatever the order in which concurrent results arrive.
CountMatchesState == (state = "Closed") <=> (failures < Threshold)

\* Between the moment the circuit opens and the next call it lets through
\* lies at least one cooldown, also after a probe that failed.
CooldownHonoured ==
    [][\A c \in Callers :
          Admitted(c) /\ state # "Closed" => now >= trippedAt + Cooldown]_vars

\* The failure count and the state are decided only by results of calls
\* admitted since the last transition: a slow call of an earlier generation
\* neither trips nor closes nor resets the circuit when it finally returns.
OnlyCurrentResultsCount ==
    [][(failures' # failures \/ generation' # generation) =>
          \E c \in Callers : Returned(c) /\ calls[c].generation = generation]_vars

\* Once a probe's fn has panicked nothing is admitted any more: the lost
\* permit wedges the breaker in HalfOpen, and no late result frees it.
LostProbeWedges ==
    [][probeLost => /\ probeLost' /\ state' = "HalfOpen"
                    /\ \A c \in Callers : ~Admitted(c)]_vars

\* Every opening whose cooldown the clock reaches ends in a verdict of a
\* probe, which closes the circuit or opens it anew, until the cooldown ends
\* after the last tick; unless a probe's fn panicked.
ProbeSettles ==
    (state # "Closed" /\ openUntil <= MaxTime)
        ~> (state = "Closed" \/ openUntil > MaxTime \/ probeLost)
=============================================================================
