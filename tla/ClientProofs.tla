---------------------------- MODULE ClientProofs ----------------------------
(***************************************************************************)
(* Proofs about clientx, for every value of its parameters: first the      *)
(* circuit breaker, for any set of callers, threshold and cooldown, then   *)
(* HTTPClient.Do, for any retry configuration, budget and body limit.      *)
(*                                                                         *)
(* The single-probe property is not inductive by itself: that a late call  *)
(* cannot be taken for the probe rests on which permits can carry the      *)
(* current generation, and that the slot is never leaked rests on which    *)
(* permits are half-open.  IndInv adds exactly these two facts, and for    *)
(* the cooldown the relation between the deadline and the moment of the    *)
(* last trip.                                                              *)
(*                                                                         *)
(* What Do promises about its requests, bodies and deadlines is spread     *)
(* over its program counter; DoIndInv says, place by place, how many       *)
(* attempts may have been made, who owns the response body, and which      *)
(* deadline bounds the clock.                                              *)
(***************************************************************************)
EXTENDS Client, TLAPS

\* A half-open permit is of the current generation, and a lost probe leaves
\* no other behind.
ProbePermits ==
    /\ \A c \in Callers : calls[c].running /\ calls[c].halfOpen
                              => calls[c].generation = generation
    /\ probeLost => \A c \in Callers : ~(calls[c].running /\ calls[c].halfOpen)

\* While not closed, the deadline is one cooldown after the last trip, and a
\* half-open circuit has reached it.
DeadlineMatchesTrip ==
    /\ state # "Closed" => openUntil = trippedAt + Cooldown
    /\ state = "HalfOpen" => openUntil <= now

IndInv ==
    /\ TypeOK
    /\ SingleProbe
    /\ ProbeAccounted
    /\ CountMatchesState
    /\ ProbePermits
    /\ DeadlineMatchesTrip

USE ThresholdAssumption, CooldownAssumption, MaxTimeAssumption

-----------------------------------------------------------------------------
\* The breaker NewBreaker returns satisfies the inductive invariant.
LEMMA InitInv == Init => IndInv
<1> SUFFICES ASSUME Init PROVE IndInv
  OBVIOUS
<1>1. TypeOK
  BY DEF Init, TypeOK, BreakerStates, Permits, NoCall
<1>2. SingleProbe /\ ProbePermits
  BY DEF Init, SingleProbe, ProbePermits, NoCall, Probes
<1>3. ProbeAccounted
  <2>1. Probes = {}
    BY DEF Init, NoCall, Probes
  <2> QED
    BY <2>1 DEF Init, ProbeAccounted
<1>4. CountMatchesState /\ DeadlineMatchesTrip
  BY DEF Init, CountMatchesState, DeadlineMatchesTrip
<1> QED
  BY <1>1, <1>2, <1>3, <1>4 DEF IndInv

\* State() preserves it.
LEMMA ObserveInv == IndInv /\ Observe => IndInv'
BY DEF Observe, CurrentState, IndInv, TypeOK, SingleProbe, ProbeAccounted,
       CountMatchesState, ProbePermits, DeadlineMatchesTrip, BreakerStates,
       Permits, Probes

\* before() preserves it, whether it grants a permit ...
LEMMA AdmitInv == ASSUME IndInv, NEW c \in Callers, Admit(c) PROVE IndInv'
<1> USE DEF IndInv, Admit, CurrentState
<1>1. TypeOK'
  BY DEF TypeOK, BreakerStates, Permits
<1>2. \A d \in Callers : d # c => calls'[d] = calls[d]
  BY DEF TypeOK
<1>3. /\ calls'[c].running /\ calls'[c].generation = generation
      /\ calls'[c].halfOpen = (CurrentState = "HalfOpen")
  BY DEF TypeOK
<1>4. CASE CurrentState = "HalfOpen"
  <2>1. state' = "HalfOpen" /\ halfOpenProbe' /\ generation' = generation
    BY <1>4
  <2>2. calls'[c].halfOpen /\ calls'[c].running /\ calls'[c].generation = generation
    BY <1>3, <1>4
  <2>3. Probes = {} /\ ~probeLost
    BY <1>4 DEF ProbeAccounted, TypeOK
  <2>4. \A d \in Callers : calls[d].running => ~calls[d].halfOpen
    BY <2>3 DEF Probes
  <2>5. Probes' = {c}
    BY <1>2, <2>2, <2>4 DEF Probes
  <2>6. SingleProbe' /\ ProbePermits'
    <3>1. state # "Closed"
      BY <1>4
    <3>2. \A d \in Callers : calls[d].running => calls[d].generation # generation
      BY <3>1, <2>4 DEF SingleProbe
    <3> QED
      BY <1>2, <2>1, <2>2, <2>3, <2>4, <2>5, <3>2
         DEF SingleProbe, ProbePermits, TypeOK, Permits
  <2>7. ProbeAccounted'
    BY <2>1, <2>5 DEF ProbeAccounted
  <2>8. CountMatchesState' /\ DeadlineMatchesTrip'
    BY <1>4 DEF CountMatchesState, DeadlineMatchesTrip, TypeOK, BreakerStates
  <2> QED
    BY <1>1, <2>6, <2>7, <2>8
<1>5. CASE CurrentState = "Closed"
  <2>1. state = "Closed" /\ state' = state /\ halfOpenProbe' = halfOpenProbe
    BY <1>5 DEF TypeOK
  <2>2. calls'[c].running /\ ~calls'[c].halfOpen /\ calls'[c].generation = generation
    BY <1>3, <1>5
  <2>3. Probes' = Probes
    BY <1>2, <2>2 DEF Probes
  <2>4. SingleProbe' /\ ProbePermits'
    BY <1>2, <2>1, <2>2, <2>3 DEF SingleProbe, ProbePermits, TypeOK, Permits
  <2>5. ProbeAccounted' /\ CountMatchesState' /\ DeadlineMatchesTrip'
    BY <2>1, <2>3 DEF ProbeAccounted, CountMatchesState, DeadlineMatchesTrip
  <2> QED
    BY <1>1, <2>4, <2>5
<1> QED
  BY <1>4, <1>5 DEF TypeOK, BreakerStates

\* ... or returns ErrCircuitOpen.
LEMMA RejectInv == ASSUME IndInv, NEW c \in Callers, Reject(c) PROVE IndInv'
BY DEF Reject, CurrentState, IndInv, TypeOK, SingleProbe, ProbeAccounted,
       CountMatchesState, ProbePermits, DeadlineMatchesTrip, BreakerStates,
       Permits, Probes

\* A panicking fn preserves it: the slot stays taken, and is recorded as lost.
LEMMA PanicInv == ASSUME IndInv, NEW c \in Callers, Panic(c) PROVE IndInv'
<1> USE DEF IndInv, Panic
<1>1. TypeOK'
  BY DEF TypeOK, breakerVars, NoCall, Permits
<1>2. /\ \A d \in Callers : d # c => calls'[d] = calls[d]
      /\ calls'[c] = NoCall /\ ~calls'[c].running
  BY DEF TypeOK, NoCall
<1>3. Probes' = Probes \ {c}
  BY <1>2 DEF Probes
<1>4. SingleProbe'
  BY <1>2, <1>3 DEF SingleProbe, breakerVars
<1>5. ProbeAccounted'
  <2>1. CASE calls[c].halfOpen
    <3>1. c \in Probes /\ probeLost'
      BY <2>1 DEF Probes
    <3> QED
      BY <3>1 DEF ProbeAccounted, breakerVars, TypeOK
  <2>2. CASE ~calls[c].halfOpen
    <3>1. Probes' = Probes /\ probeLost' = probeLost
      BY <1>3, <2>2 DEF Probes, TypeOK
    <3> QED
      BY <3>1 DEF ProbeAccounted, breakerVars
  <2> QED
    BY <2>1, <2>2
<1>6. ProbePermits'
  <2>1. ASSUME NEW d \in Callers, probeLost', calls'[d].running, calls'[d].halfOpen
        PROVE  FALSE
    <3>1. d # c /\ calls[d].running /\ calls[d].halfOpen
      BY <1>2, <2>1
    <3>2. d \in Probes /\ ~probeLost
      BY <3>1 DEF Probes, ProbePermits
    <3>3. c \in Probes
      BY <2>1, <3>2 DEF Probes, TypeOK
    <3> QED
      BY <3>1, <3>2, <3>3 DEF SingleProbe
  <2> QED
    BY <1>2, <2>1 DEF ProbePermits, breakerVars
<1>7. CountMatchesState' /\ DeadlineMatchesTrip'
  BY DEF CountMatchesState, DeadlineMatchesTrip, breakerVars
<1> QED
  BY <1>1, <1>4, <1>5, <1>6, <1>7

\* fn returns and after() runs.  The three cases of after(): the result is
\* dropped, it is the probe's verdict, or it is counted in a closed circuit.
LEMMA ReturnInv ==
    ASSUME IndInv, NEW c \in Callers, NEW out \in Outcomes, Return(c, out)
    PROVE  IndInv'
<1> USE DEF IndInv, Return
<1>1. /\ \A d \in Callers : d # c => calls'[d] = calls[d]
      /\ calls'[c] = NoCall /\ ~calls'[c].running
      /\ calls' \in [Callers -> Permits]
  BY DEF TypeOK, NoCall, Permits
<1>2. Probes' = Probes \ {c}
  BY <1>1 DEF Probes
<1>3. now' = now /\ probeLost' = probeLost
  OBVIOUS
<1>4. CASE calls[c].generation # generation
  <2>1. UNCHANGED <<breakerVars, trippedAt>>
    BY <1>4 DEF ApplyResult
  <2>2. c \notin Probes
    BY <1>4 DEF Probes, ProbePermits
  <2>3. Probes' = Probes
    BY <1>2, <2>2
  <2> QED
    BY <1>1, <1>3, <2>1, <2>3
       DEF breakerVars, TypeOK, SingleProbe, ProbeAccounted,
           CountMatchesState, ProbePermits, DeadlineMatchesTrip
<1>5. CASE /\ calls[c].generation = generation
           /\ calls[c].halfOpen /\ state = "HalfOpen"
  <2>1. ProbeResult(out)
    BY <1>5 DEF ApplyResult
  <2>2. /\ halfOpenProbe' = FALSE
        /\ generation' = generation + 1
        /\ \/ state' = "Closed" /\ failures' = 0 /\ UNCHANGED <<openUntil, trippedAt>>
           \/ /\ state' = "Open" /\ failures' = failures
              /\ openUntil' = now + Cooldown /\ trippedAt' = now
    BY <2>1 DEF ProbeResult, Trip
  <2>3. Probes = {c} /\ ~probeLost
    <3>1. c \in Probes
      BY <1>5 DEF Probes
    <3> QED
      BY <3>1 DEF SingleProbe, ProbePermits, Probes
  <2>4. TypeOK'
    <3>1. /\ state' \in BreakerStates /\ failures' \in Nat /\ generation' \in Nat
          /\ openUntil' \in Nat /\ trippedAt' \in Nat
      BY <2>2 DEF TypeOK, BreakerStates
    <3> QED
      BY <1>1, <1>3, <2>2, <2>3, <3>1 DEF TypeOK
  <2>5. Probes' = {}
    BY <1>2, <2>3
  <2>6. SingleProbe' /\ ProbePermits'
    <3>1. \A d \in Callers : calls'[d].running => ~calls'[d].halfOpen
      BY <2>5 DEF Probes
    <3>2. \A d \in Callers : calls'[d].running =>
             calls'[d].generation <= generation /\ calls'[d].generation \in Nat
      BY <1>1 DEF SingleProbe, TypeOK, Permits
    <3>3. \A d \in Callers : calls'[d].running => calls'[d].generation < generation'
      BY <3>2, <2>2 DEF TypeOK
    <3> QED
      BY <1>3, <2>4, <2>3, <2>5, <3>1, <3>3 DEF SingleProbe, ProbePermits, TypeOK, Permits
  <2>7. ProbeAccounted'
    BY <1>3, <2>2, <2>3, <2>5 DEF ProbeAccounted
  <2>8. CountMatchesState' /\ DeadlineMatchesTrip'
    BY <1>3, <1>5, <2>2 DEF CountMatchesState, DeadlineMatchesTrip, TypeOK
  <2> QED
    BY <2>4, <2>6, <2>7, <2>8
<1>6. CASE /\ calls[c].generation = generation
           /\ ~(calls[c].halfOpen /\ state = "HalfOpen")
  <2>1. state = "Closed" /\ ~calls[c].halfOpen
    BY <1>6 DEF SingleProbe
  <2>2. ClosedResult(out)
    BY <1>6, <2>1 DEF ApplyResult
  <2>3. /\ halfOpenProbe' = halfOpenProbe /\ failures' \in Nat
        /\ \/ /\ state' = "Closed" /\ generation' = generation /\ failures' < Threshold
              /\ UNCHANGED <<openUntil, trippedAt>>
           \/ /\ state' = "Open" /\ generation' = generation + 1 /\ ~(failures' < Threshold)
              /\ openUntil' = now + Cooldown /\ trippedAt' = now
    BY <2>1, <2>2 DEF ClosedResult, Trip, breakerVars, TypeOK, CountMatchesState
  <2>4. Probes = {} /\ ~probeLost /\ halfOpenProbe = FALSE /\ Probes' = {}
    BY <1>2, <2>1 DEF ProbeAccounted, TypeOK
  <2>5. TypeOK'
    BY <1>1, <1>3, <2>3, <2>4 DEF TypeOK, BreakerStates
  <2>6. SingleProbe' /\ ProbePermits'
    <3>1. \A d \in Callers : calls'[d].running => ~calls'[d].halfOpen
      BY <2>4 DEF Probes
    <3>2. \A d \in Callers : calls'[d].running =>
             calls'[d].generation <= generation /\ calls'[d].generation \in Nat
      BY <1>1 DEF SingleProbe, TypeOK, Permits
    <3>3. /\ \A d \in Callers : calls'[d].running => calls'[d].generation <= generation'
          /\ state' # "Closed" =>
                \A d \in Callers : calls'[d].running => calls'[d].generation # generation'
      BY <3>2, <2>3 DEF TypeOK
    <3> QED
      BY <1>3, <2>4, <3>1, <3>3 DEF SingleProbe, ProbePermits
  <2>7. ProbeAccounted'
    BY <1>3, <2>3, <2>4 DEF ProbeAccounted
  <2>8. CountMatchesState' /\ DeadlineMatchesTrip'
    BY <1>3, <2>3 DEF CountMatchesState, DeadlineMatchesTrip, TypeOK
  <2> QED
    BY <2>5, <2>6, <2>7, <2>8
<1> QED
  BY <1>4, <1>5, <1>6

\* The clock preserves it.
LEMMA TickInv == IndInv /\ Tick => IndInv'
BY DEF Tick, breakerVars, IndInv, TypeOK, SingleProbe, ProbeAccounted,
       CountMatchesState, ProbePermits, DeadlineMatchesTrip, Probes

-----------------------------------------------------------------------------
\* Every step of the breaker and of its callers preserves the invariant.
LEMMA NextInv == IndInv /\ [Next]_vars => IndInv'
<1> SUFFICES ASSUME IndInv, [Next]_vars PROVE IndInv'
  OBVIOUS
<1>1. CASE Next
  BY <1>1, ObserveInv, AdmitInv, RejectInv, ReturnInv, PanicInv, TickInv DEF Next
<1>2. CASE UNCHANGED vars
  BY <1>2 DEF vars, breakerVars, IndInv, TypeOK, SingleProbe, ProbeAccounted,
              CountMatchesState, ProbePermits, DeadlineMatchesTrip, Probes
<1> QED
  BY <1>1, <1>2

\* The inductive invariant holds in every reachable state.
LEMMA Invariance == Spec => []IndInv
BY InitInv, NextInv, PTL DEF Spec

\* The fields of the Breaker keep their types for any number of callers, and
\* before() lets at most one probe into the half-open circuit: no call of an
\* earlier generation can be taken for it.
THEOREM ProbeIsSingle == Spec => []BreakerInv
BY Invariance, PTL DEF IndInv, BreakerInv

\* The probe slot is held by the probe in flight, or lost to a panic, and by
\* nothing else.
THEOREM SlotIsAccounted == Spec => []ProbeAccounted
BY Invariance, PTL DEF IndInv

\* The failure count is below the threshold exactly in the closed state.
THEOREM CountIsConsistent == Spec => []CountMatchesState
BY Invariance, PTL DEF IndInv

\* before() admits nothing until a whole cooldown has passed since the
\* circuit last opened.
THEOREM CooldownRespected == Spec => CooldownHonoured
<1>1. ASSUME IndInv, [Next]_vars, NEW c \in Callers, Admitted(c), state # "Closed"
      PROVE  now >= trippedAt + Cooldown
  <2>1. PICK d \in Callers : Admit(d)
    BY <1>1 DEF Next, vars, Observe, Reject, Return, Panic, Tick, Admitted,
                NoCall, IndInv, TypeOK
  <2> QED
    BY <1>1, <2>1 DEF Admit, CurrentState, IndInv, TypeOK, BreakerStates,
                      DeadlineMatchesTrip
<1>2. IndInv /\ [Next]_vars =>
        \A c \in Callers : Admitted(c) /\ state # "Closed" => now >= trippedAt + Cooldown
  BY <1>1
<1> QED
  BY <1>2, Invariance, PTL DEF Spec, CooldownHonoured

\* A call that was admitted before the last transition changes neither the
\* failure count nor the state when it returns.
THEOREM StaleResultsIgnored == Spec => OnlyCurrentResultsCount
<1>1. ASSUME IndInv, [Next]_vars, failures' # failures \/ generation' # generation
      PROVE  \E c \in Callers : Returned(c) /\ calls[c].generation = generation
  <2>1. PICK c \in Callers, out \in Outcomes : Return(c, out)
    BY <1>1 DEF Next, vars, breakerVars, Observe, Admit, Reject, Panic, Tick
  <2>2. Returned(c)
    BY <1>1, <2>1 DEF Return, Returned, NoCall, IndInv, TypeOK
  <2>3. calls[c].generation = generation
    BY <1>1, <2>1 DEF Return, ApplyResult, breakerVars
  <2> QED
    BY <2>2, <2>3
<1> QED
  BY <1>1, Invariance, PTL DEF Spec, OnlyCurrentResultsCount

\* A panic of the probe's fn is never repaired: after() is not deferred, the
\* slot stays taken and every later before() returns ErrCircuitOpen.
THEOREM LostProbeIsForEver == Spec => LostProbeWedges
<1>1. ASSUME IndInv, [Next]_vars, probeLost
      PROVE  /\ probeLost' /\ state' = "HalfOpen"
             /\ \A c \in Callers : ~Admitted(c)
  <2>1. halfOpenProbe /\ state = "HalfOpen" /\ CurrentState = "HalfOpen"
    BY <1>1 DEF IndInv, ProbeAccounted, CurrentState
  <2>2. probeLost'
    BY <1>1 DEF Next, vars, Observe, Admit, Reject, Return, Panic, Tick
  <2>3. IndInv'
    BY <1>1, NextInv
  <2>4. halfOpenProbe' /\ state' = "HalfOpen"
    BY <2>2, <2>3 DEF IndInv, ProbeAccounted
  <2>5. \A c \in Callers : ~Admit(c)
    BY <2>1 DEF Admit
  <2>6. \A c \in Callers : ~Admitted(c)
    BY <1>1, <2>5 DEF Next, vars, Observe, Reject, Return, Panic, Tick,
                      Admitted, NoCall, IndInv, TypeOK
  <2> QED
    BY <2>2, <2>4, <2>6
<1> QED
  BY <1>1, Invariance, PTL DEF Spec, LostProbeWedges

-----------------------------------------------------------------------------
\* HTTPClient.Do.  One request per attempt; the loop head and the back-off are
\* reached only with an attempt left, by a call that may not be retried only
\* before its one attempt.
Attempts ==
    /\ sent = attempt
    /\ pc \in {"start", "admit"} => attempt = 0
    /\ pc \in {"head", "sleep"} => attempt < retry.attempts
    /\ pc \in {"attempt", "drain"} => attempt > 0
    /\ ~HTTP!MayRetry => pc # "sleep" /\ attempt <= 1 /\ (pc = "head" => attempt = 0)

\* Every attempt without the buffered copy consumes the original body, and
\* the copy exists whenever a second attempt is possible.
RequestBody ==
    /\ streamed = IF req.body # "none" /\ ~buffered THEN attempt ELSE 0
    /\ pc \notin {"start", "returned"} \/ attempt > 0 => buffered = HTTP!MustBuffer

\* The attempt's deadline lies within the budget's and at most Timeout ahead, and
\* neither has passed while its context is in use.
Deadlines ==
    /\ pc \in {"attempt", "drain"} =>
          clock <= attemptEnd /\ attemptEnd <= budgetEnd /\ attemptEnd <= clock + Timeout
    /\ pc = "sleep" => clock <= budgetEnd

\* Only the current attempt's response body can be open: while it is drained,
\* and when it is the caller's.
ResponseBody ==
    /\ open \subseteq {attempt}
    /\ result \in {0, attempt}
    /\ pc \notin {"drain", "returned"} => open = {}
    /\ pc # "returned" => result = 0 /\ err = "nil"
    /\ pc = "returned" => (result = 0 => open = {}) /\ (result # 0 <=> err = "nil")

\* limitedResponseBody counts down from the limit, and its verdict tells
\* whether bytes are left.
Reading ==
    /\ result = 0 => got = 0 /\ bodyErr = "nil"
    /\ result # 0 => got + remaining = BodyLimit
    /\ bodyErr = "tooLarge" => unread > 0
    /\ bodyErr = "EOF" => unread = 0

DoIndInv ==
    /\ HTTP!TypeOK
    /\ Attempts
    /\ RequestBody
    /\ Deadlines
    /\ ResponseBody
    /\ Reading

USE HTTPAssumption DEF HTTP!ConstantsOK

\* normalizeRetryConfig yields a usable configuration for whatever integers
\* the caller passes: one to five attempts, an initial back-off within the
\* maximum, a positive budget.
LEMMA NormalizeType ==
    ASSUME NEW n \in Int, NEW i \in Int, NEW m \in Int, NEW b \in Int
    PROVE  /\ HTTP!Normalize(n, i, m, b) \in HTTP!Retries
           /\ HTTP!Normalize(n, i, m, b).initial <= HTTP!Normalize(n, i, m, b).max
<1> DEFINE k == HTTP!ClampAttempts(n)
<1>1. k \in 1..5
  BY DEF HTTP!ClampAttempts, HTTP!AtMost
<1>2. Timeout * k \in Nat \ {0}
  <2>1. k = 1 \/ k = 2 \/ k = 3 \/ k = 4 \/ k = 5
    BY <1>1
  <2> QED
    BY <2>1
<1> HIDE DEF k
<1> QED
  BY <1>1, <1>2 DEF HTTP!Normalize, HTTP!Retries, HTTP!AtMost, HTTP!AtLeast, k

\* A call of Do starts in the invariant.
LEMMA DoInit == HTTP!Init => DoIndInv
<1> SUFFICES ASSUME HTTP!Init PROVE DoIndInv
  OBVIOUS
<1>1. PICK n \in RawAttempts, i \in RawBackoffs, m \in RawBackoffs, b \in RawBudgets :
        retry = HTTP!Normalize(n, i, m, b)
  BY DEF HTTP!Init
<1>2. retry \in HTTP!Retries /\ retry.initial <= retry.max
  BY <1>1, NormalizeType
<1>3. HTTP!TypeOK
  <2>1. attempt \in 0..retry.attempts /\ backoff \in 1..retry.max
    BY <1>2 DEF HTTP!Init, HTTP!Retries
  <2>2. req \in HTTP!Requests
    BY DEF HTTP!Init
  <2>3. pc = "start"
    BY DEF HTTP!Init
  <2>4. cancelled = FALSE
    BY DEF HTTP!Init
  <2>5. buffered = FALSE
    BY DEF HTTP!Init
  <2>6. /\ clock \in Nat /\ budgetEnd \in Nat /\ attemptEnd \in Nat /\ wake \in Nat
        /\ streamed \in Nat /\ sent \in Nat
    BY DEF HTTP!Init
  <2>7. /\ open \subseteq 1..5 /\ ended \subseteq 1..5 /\ result \in 0..5
        /\ err = "nil" /\ bodyErr = "nil"
        /\ remaining \in 0..BodyLimit /\ unread \in Nat /\ got \in Nat
    BY DEF HTTP!Init
  <2> QED
    BY <1>2, <2>1, <2>2, <2>3, <2>4, <2>5, <2>6, <2>7 DEF HTTP!TypeOK, HTTP!Errors
<1>4. Attempts /\ Deadlines
  BY <1>2 DEF HTTP!Init, Attempts, Deadlines, HTTP!Retries
<1>5. RequestBody
  BY DEF HTTP!Init, RequestBody
<1>6. ResponseBody /\ Reading
  BY DEF HTTP!Init, ResponseBody, Reading
<1> QED
  BY <1>3, <1>4, <1>5, <1>6 DEF DoIndInv

\* Each step of Do, of the server's answers and of the reader preserves it.
LEMMA DoNext == DoIndInv /\ HTTP!Next => DoIndInv'
<1> SUFFICES ASSUME DoIndInv, HTTP!Next PROVE DoIndInv'
  OBVIOUS
<1> USE DEF DoIndInv, Attempts, RequestBody, Deadlines, ResponseBody, Reading,
           HTTP!TypeOK, HTTP!Retries, HTTP!Requests, HTTP!Errors, HTTP!Failures,
           HTTP!MayRetry, HTTP!MustBuffer, HTTP!caller, HTTP!timers, HTTP!loop,
           HTTP!request, HTTP!response, HTTP!reading, HTTP!Return
<1>1. CASE HTTP!Buffer
  BY <1>1 DEF HTTP!Buffer
<1>2. CASE HTTP!Admit
  BY <1>2 DEF HTTP!Admit
<1>3. CASE HTTP!GiveUp
  BY <1>3 DEF HTTP!GiveUp, HTTP!Proceed, HTTP!CtxError
<1>4. CASE HTTP!Send
  BY <1>4 DEF HTTP!Send, HTTP!Proceed, HTTP!CtxError, HTTP!AttemptDeadline, HTTP!AtMost
<1>5. ASSUME NEW e \in HTTP!Failures, HTTP!AttemptFails(e) PROVE DoIndInv'
  BY <1>5 DEF HTTP!AttemptFails, HTTP!Fail, HTTP!LastAttempt, HTTP!Retryable
<1>6. CASE HTTP!BadStatus
  BY <1>6 DEF HTTP!BadStatus
<1>7. ASSUME NEW e \in HTTP!Failures, HTTP!Drain(e) PROVE DoIndInv'
  BY <1>7 DEF HTTP!Drain, HTTP!CloseBody, HTTP!Fail, HTTP!LastAttempt, HTTP!Retryable
<1>8. ASSUME NEW size \in BodySizes, HTTP!Succeed(size) PROVE DoIndInv'
  BY <1>8 DEF HTTP!Succeed
<1>9. CASE HTTP!SleepEnds
  BY <1>9 DEF HTTP!SleepEnds, HTTP!nextBackoff, HTTP!AtMost
<1>10. CASE HTTP!SleepAborted
  BY <1>10 DEF HTTP!SleepAborted, HTTP!CtxError
<1>11. ASSUME NEW n \in 1..BodyLimit, HTTP!Read(n) PROVE DoIndInv'
  BY <1>11 DEF HTTP!Read, HTTP!AtLimit, HTTP!Readable, HTTP!AtMost
<1>12. CASE HTTP!ReadAborted
  BY <1>12 DEF HTTP!ReadAborted
<1>13. CASE HTTP!CloseResponse
  BY <1>13 DEF HTTP!CloseResponse
<1>14. CASE HTTP!Cancel
  BY <1>14 DEF HTTP!Cancel
<1>15. CASE HTTP!Tick
  BY <1>15 DEF HTTP!Tick
<1> QED
  <2> HIDE DEF DoIndInv
  <2>1. CASE HTTP!Local
    BY <2>1, <1>1, <1>2, <1>3, <1>4, <1>5, <1>7, <1>9, <1>10 DEF HTTP!Local
  <2>2. CASE HTTP!Answered
    BY <2>2, <1>5, <1>6, <1>7, <1>8 DEF HTTP!Answered
  <2> QED
    BY <2>1, <2>2, <1>11, <1>12, <1>13, <1>14, <1>15 DEF HTTP!Next

\* Whatever part of clientx is under way, Do's state satisfies the invariant.
LEMMA DoInvariance == FairClient => []DoIndInv
<1>1. Start => DoIndInv
  BY DoInit DEF Start
<1>2. DoIndInv /\ [InBreaker(Next) \/ InHTTP(HTTP!Next)]_clientVars => DoIndInv'
  <2>1. DoIndInv /\ UNCHANGED httpVars => DoIndInv'
    BY DEF httpVars, DoIndInv, Attempts, RequestBody, Deadlines, ResponseBody, Reading,
           HTTP!TypeOK, HTTP!MayRetry, HTTP!MustBuffer
  <2> QED
    BY <2>1, DoNext DEF InBreaker, InHTTP, clientVars
<1> QED
  BY <1>1, <1>2, PTL DEF FairClient

\* What is proved of the breaker holds within clientx: its steps there are
\* steps of Breaker.
LEMMA BreakerWithinClient == FairClient => Spec
<1>1. Start => Init
  BY DEF Start
<1>2. [InBreaker(Next) \/ InHTTP(HTTP!Next)]_clientVars => [Next]_vars
  BY DEF InBreaker, InHTTP, clientVars, sharedVars
<1> QED
  BY <1>1, <1>2, PTL DEF FairClient, Spec

\* Do sends a request that is not idempotent once and any other at most five
\* times, never streams the original body twice, and its reader gets at most
\* the limit and the truth about what was cut off.
THEOREM RequestsAndBodiesBounded == FairClient => []HTTPInv
<1>1. DoIndInv => HTTPInv
  BY DEF DoIndInv, Attempts, RequestBody, Reading, HTTPInv, HTTP!Inv, HTTP!SentBounded,
         HTTP!BodyReplayable, HTTP!LimitExact, HTTP!TypeOK, HTTP!Retries, HTTP!Requests,
         HTTP!MustBuffer
<1> QED
  BY <1>1, DoInvariance, PTL

\* A response body refused by its status is closed before Do goes on, and
\* only a call without error leaves one open, the caller's.
THEOREM OnlyTheCallersBodyStaysOpen == FairClient => []NoBodyLeaks
BY DoInvariance, PTL DEF DoIndInv, ResponseBody, NoBodyLeaks, HTTP!NoBodyLeaks

\* Every attempt is over by its own deadline, which lies within the budget Do's
\* context was given and leaves it Timeout at most; no back-off outlives the
\* budget either.
THEOREM AttemptsWithinBudget == FairClient => []WithinBudget
<1>1. DoIndInv => WithinBudget
  BY DEF DoIndInv, Deadlines, WithinBudget, HTTP!WithinBudget, HTTP!TypeOK
<1> QED
  BY <1>1, DoInvariance, PTL
=============================================================================
