----------------------------- MODULE HTTPClient -----------------------------
(***************************************************************************)
(* One call of HTTPClient.Do (clientx/http.go) with the retry loop of      *)
(* clientx/client.go: buffer the request body if it may have to be sent    *)
(* again, ask the breaker once, then attempt after attempt with a timeout  *)
(* each, backing off between them, all within the retry budget; finally    *)
(* the caller reads the response through limitedResponseBody.              *)
(*                                                                         *)
(* The call's inputs are chosen in Init.  The clock counts ticks and does  *)
(* not pass a deadline of a context in use: net/http and sleepContext      *)
(* honour their contexts.  The breaker itself is module Breaker; here it   *)
(* admits the call or not.                                                 *)
(***************************************************************************)
EXTENDS Integers, FiniteSets

CONSTANTS
    RawAttempts,        \* values of RetryConfig.MaxAttempts callers pass
    RawBackoffs,        \* values of InitialBackoff and MaxBackoff, 0 is unset
    DefaultInitial, DefaultMax,     \* 100 ms and 1 s
    InitialCap, MaxCap,             \* 1 min and 5 min
    Timeout,            \* c.timeout, of one attempt
    RawBudgets,         \* values of RetryConfig.Budget, 0 is unset
    BodyLimit,          \* maxResponseBodyBytes
    BodySizes           \* sizes of response bodies

\* What callers of NewHTTPClient may rely on and be given.
ConstantsOK ==
    /\ {DefaultInitial, DefaultMax, InitialCap, MaxCap, Timeout} \subseteq Nat \ {0}
    /\ DefaultInitial <= DefaultMax /\ DefaultMax <= MaxCap /\ InitialCap <= MaxCap
    /\ RawAttempts \subseteq Int /\ RawBackoffs \subseteq Int /\ RawBudgets \subseteq Int
    /\ BodyLimit \in Nat \ {0} /\ BodySizes \subseteq Nat

VARIABLES
    req,            \* the call: method class, request body, client options
    retry,          \* the normalised RetryConfig
    pc,
    now,
    cancelled,      \* the caller cancelled its context
    budgetEnd,      \* deadline of Do's context
    attemptEnd,     \* deadline of the current attempt's callCtx
    wake,           \* when the back-off sleep ends
    attempt,        \* number of the current attempt
    backoff,
    buffered,       \* the request body is in memory
    streamed,       \* times the original request body was read by net/http
    sent,           \* requests given to c.client.Do
    open,           \* attempts whose response body is open
    ended,          \* attempts whose callCtx was cancelled by defer cancel()
    result,         \* attempt whose response *result holds, 0 for none
    err,            \* the error returned, "nil" for none
    remaining,      \* limitedResponseBody.remaining
    unread,         \* bytes of the response body the caller has not got
    got,            \* history: bytes of it the caller has got
    bodyErr         \* what the last Read returned: "nil", "EOF", "tooLarge", "canceled"

caller == <<req, retry, cancelled>>
timers == <<now, budgetEnd, attemptEnd, wake>>
loop == <<attempt, backoff>>
request == <<buffered, streamed, sent>>
response == <<open, ended, result>>
reading == <<remaining, unread, got, bodyErr>>
vars == <<caller, pc, timers, loop, request, response, err, reading>>

\* Why an attempt fails, as the default Retryable of NewHTTPClient tells it.
Failures == {"status5xx", "status4xx", "transport", "deadline", "canceled"}
Errors == Failures \cup {"nil", "tooLarge", "body", "circuitOpen"}

Requests == [idempotent : BOOLEAN, body : {"none", "fits", "large", "broken"},
             admitted : BOOLEAN, retryNonIdempotent : BOOLEAN]

AtLeast(a, b) == IF a < b THEN b ELSE a
AtMost(a, b) == IF a > b THEN b ELSE a

\* normalizeRetryConfig: the attempts ...
ClampAttempts(n) == IF n <= 0 THEN 3 ELSE AtMost(n, 5)

\* ... and the whole configuration, with the budget NewHTTPClient adds.
Normalize(n, initial, max, budget) ==
    LET attempts == ClampAttempts(n)
        first == AtMost(IF initial <= 0 THEN DefaultInitial ELSE initial, InitialCap)
        last == AtLeast(AtMost(IF max <= 0 THEN DefaultMax ELSE max, MaxCap), first)
    IN  [attempts |-> attempts, initial |-> first, max |-> last,
         budget |-> IF budget <= 0 THEN Timeout * attempts ELSE budget]

Retries == [attempts : 1..5, initial : 1..InitialCap, max : 1..MaxCap, budget : Nat \ {0}]

TypeOK ==
    /\ req \in Requests
    /\ retry \in Retries
    /\ pc \in {"start", "admit", "head", "attempt", "drain", "sleep", "returned"}
    /\ cancelled \in BOOLEAN
    /\ now \in Nat /\ budgetEnd \in Nat /\ attemptEnd \in Nat /\ wake \in Nat
    /\ attempt \in 0..retry.attempts
    /\ backoff \in 1..retry.max
    /\ buffered \in BOOLEAN /\ streamed \in Nat /\ sent \in Nat
    /\ open \subseteq 1..5 /\ ended \subseteq 1..5 /\ result \in 0..5
    /\ err \in Errors
    /\ remaining \in 0..BodyLimit /\ unread \in Nat /\ got \in Nat
    /\ bodyErr \in {"nil", "EOF", "tooLarge", "canceled"}

Init ==
    /\ req \in Requests
    /\ retry \in {Normalize(n, i, m, b) :
                    n \in RawAttempts, i \in RawBackoffs, m \in RawBackoffs, b \in RawBudgets}
    /\ pc = "start"
    /\ cancelled = FALSE
    /\ now = 0 /\ budgetEnd = 0 /\ attemptEnd = 0 /\ wake = 0
    /\ attempt = 0 /\ backoff = retry.initial
    /\ buffered = FALSE /\ streamed = 0 /\ sent = 0
    /\ open = {} /\ ended = {} /\ result = 0
    /\ err = "nil"
    /\ remaining = 0 /\ unread = 0 /\ got = 0 /\ bodyErr = "nil"

-----------------------------------------------------------------------------
MayRetry == req.retryNonIdempotent \/ req.idempotent

\* MUTANT: the body is kept only for idempotent methods.
MustBufferIdempotent == req.body # "none" /\ retry.attempts > 1 /\ req.idempotent

\* bufferBody of Do.
MustBuffer == req.body # "none" /\ retry.attempts > 1 /\ MayRetry

Return(e) == pc' = "returned" /\ err' = e

\* Do up to the breaker: read the body into memory, within maxBodyBytes.
Buffer ==
    /\ pc = "start"
    /\ \/ /\ MustBuffer /\ req.body = "broken"
          /\ Return("body")
          /\ UNCHANGED buffered
       \/ /\ MustBuffer /\ req.body = "large"
          /\ Return("tooLarge")
          /\ UNCHANGED buffered
       \/ /\ MustBuffer => req.body = "fits"
          /\ buffered' = MustBuffer
          /\ pc' = "admit"
          /\ UNCHANGED err
    /\ UNCHANGED <<caller, timers, loop, streamed, sent, response, reading>>

\* c.breaker.Do around all attempts, then doWithResponse: Do's context gets
\* the budget; a call that may not be retried is one attempt without it.
Admit ==
    /\ pc = "admit"
    /\ \/ /\ cancelled
          /\ Return("canceled")
          /\ UNCHANGED budgetEnd
       \/ /\ ~cancelled /\ ~req.admitted
          /\ Return("circuitOpen")
          /\ UNCHANGED budgetEnd
       \/ /\ ~cancelled /\ req.admitted
          /\ budgetEnd' = now + (IF MayRetry THEN retry.budget ELSE Timeout)
          /\ pc' = "head"
          /\ UNCHANGED err
    /\ UNCHANGED <<caller, now, attemptEnd, wake, loop, request, response, reading>>

\* ctx.Err() of Do's context.
CtxError == IF cancelled THEN "canceled" ELSE IF now >= budgetEnd THEN "deadline" ELSE "nil"

\* The loop head's test, made by Do only; single relies on net/http for it.
Proceed == CtxError = "nil"

\* Loop head: give up if the context ended ...
GiveUp ==
    /\ pc = "head"
    /\ ~Proceed
    /\ Return(CtxError)
    /\ UNCHANGED <<caller, timers, loop, request, response, reading>>

\* MUTANT: callCtx is not derived from Do's context.
AttemptDeadlineDetached == now + Timeout

\* context.WithTimeout(ctx, c.timeout), with ctx bounded by the budget.
AttemptDeadline == AtMost(now + Timeout, budgetEnd)

\* ... or single(): a callCtx with its own timeout, and the request is sent,
\* with the buffered body or with what is left of the original one.
Send ==
    /\ pc = "head"
    /\ Proceed
    /\ attempt' = attempt + 1
    /\ attemptEnd' = AttemptDeadline
    /\ sent' = sent + 1
    /\ streamed' = IF req.body # "none" /\ ~buffered THEN streamed + 1 ELSE streamed
    /\ pc' = "attempt"
    /\ UNCHANGED <<caller, now, budgetEnd, wake, backoff, buffered, response, err, reading>>

\* The default Retryable.  Every error of http.Client.Do is a *url.Error,
\* which is a net.Error: a permanent transport failure counts as retryable
\* like a transient one.
Retryable(e) == e \in {"status5xx", "transport", "deadline"}

LastAttempt == attempt = retry.attempts

\* single returned e: its deferred cancel ends callCtx; Do sleeps or returns.
Fail(e) ==
    /\ ended' = ended \cup {attempt}
    /\ \/ /\ MayRetry /\ ~LastAttempt /\ Retryable(e)
          /\ \E d \in 0..(2 * backoff) : wake' = now + d
          /\ pc' = "sleep"
          /\ UNCHANGED err
       \/ /\ ~MayRetry \/ LastAttempt \/ ~Retryable(e)
          /\ Return(e)
          /\ UNCHANGED <<wake>>

\* MUTANT: the request is not given callCtx.
AttemptFailsDetached(e) ==
    /\ pc = "attempt"
    /\ e \in {"transport"}
    /\ Fail(e)
    /\ UNCHANGED <<caller, now, budgetEnd, attemptEnd, loop, request, open, result, reading>>

\* c.client.Do failed: no response; the context's end shows as its error.
AttemptFails(e) ==
    /\ pc = "attempt"
    /\ e \in {"transport", "deadline", "canceled"}
    /\ e = "deadline" => now >= attemptEnd
    /\ e = "canceled" => cancelled
    /\ Fail(e)
    /\ UNCHANGED <<caller, now, budgetEnd, attemptEnd, loop, request, open, result, reading>>

\* A response outside 2xx arrived.
BadStatus ==
    /\ pc = "attempt"
    /\ open' = open \cup {attempt}
    /\ pc' = "drain"
    /\ UNCHANGED <<caller, timers, loop, request, ended, result, err, reading>>

\* MUTANT: the refused response's body is not closed.
CloseBodyNot == open

CloseBody == open \ {attempt}

\* It is drained up to the limit and closed.
Drain(e) ==
    /\ pc = "drain"
    /\ e \in {"status5xx", "status4xx"}
    /\ open' = CloseBody
    /\ Fail(e)
    /\ UNCHANGED <<caller, now, budgetEnd, attemptEnd, loop, request, result, reading>>

\* A 2xx response: wrapped, handed over, and callCtx ends with single.
Succeed(size) ==
    /\ pc = "attempt"
    /\ open' = open \cup {attempt}
    /\ result' = attempt
    /\ ended' = ended \cup {attempt}
    /\ remaining' = BodyLimit
    /\ unread' = size
    /\ Return("nil")
    /\ UNCHANGED <<caller, timers, loop, request, got, bodyErr>>

nextBackoff == AtMost(2 * backoff, retry.max)

\* sleepContext returned: by its timer ...
SleepEnds ==
    /\ pc = "sleep"
    /\ now >= wake
    /\ backoff' = nextBackoff
    /\ pc' = "head"
    /\ UNCHANGED <<caller, timers, attempt, request, response, err, reading>>

\* ... or by the context, whose error replaces the attempt's.
SleepAborted ==
    /\ pc = "sleep"
    /\ CtxError # "nil"
    /\ Return(CtxError)
    /\ UNCHANGED <<caller, timers, loop, request, response, reading>>

-----------------------------------------------------------------------------
\* At the limit one byte more is probed for.
AtLimit == IF unread > 0 THEN "tooLarge" ELSE "EOF"

Readable == AtMost(unread, remaining)

\* The caller reads the body it owns; n bytes fit its buffer.
Read(n) ==
    /\ pc = "returned" /\ result # 0 /\ result \in open
    /\ bodyErr = "nil"
    /\ \/ /\ remaining = 0
          /\ bodyErr' = AtLimit
          /\ UNCHANGED <<remaining, unread, got>>
       \/ /\ remaining > 0 /\ unread = 0
          /\ bodyErr' = "EOF"
          /\ UNCHANGED <<remaining, unread, got>>
       \/ /\ remaining > 0 /\ unread > 0
          /\ LET m == AtMost(n, Readable)
             IN  unread' = unread - m /\ remaining' = remaining - m /\ got' = got + m
          /\ UNCHANGED bodyErr
    /\ UNCHANGED <<caller, pc, timers, loop, request, response, err>>

\* The response's context has ended: net/http may abort the read.
ReadAborted ==
    /\ pc = "returned" /\ result # 0 /\ result \in open \cap ended
    /\ bodyErr = "nil"
    /\ bodyErr' = "canceled"
    /\ UNCHANGED <<caller, pc, timers, loop, request, response, err, remaining, unread, got>>

CloseResponse ==
    /\ pc = "returned" /\ result # 0 /\ result \in open
    /\ bodyErr # "nil"
    /\ open' = open \ {result}
    /\ UNCHANGED <<caller, pc, timers, loop, request, ended, result, err, reading>>

\* The caller cancels the context it passed to Do.
Cancel ==
    /\ ~cancelled
    /\ pc \notin {"start", "returned"}
    /\ cancelled' = TRUE
    /\ UNCHANGED <<req, retry, pc, timers, loop, request, response, err, reading>>

\* Time passes while an attempt or a sleep is under way.
Tick ==
    /\ \/ pc \in {"attempt", "drain"} /\ now < attemptEnd
       \/ pc = "sleep" /\ now < wake /\ now < budgetEnd
    /\ ~cancelled
    /\ now' = now + 1
    /\ UNCHANGED <<caller, pc, budgetEnd, attemptEnd, wake, loop, request, response, err,
                   reading>>

\* What the client does by itself, without an answer of the server: a context
\* that ended ends the attempt, and the draining of a body as well.
Local ==
    \/ Buffer \/ Admit \/ GiveUp \/ Send
    \/ AttemptFails("deadline") \/ AttemptFails("canceled")
    \/ (cancelled \/ now >= attemptEnd) /\ \E e \in Failures : Drain(e)
    \/ SleepEnds \/ SleepAborted

\* What the server's answers add.
Answered ==
    \/ AttemptFails("transport")
    \/ BadStatus \/ \E e \in Failures : Drain(e)
    \/ \E size \in BodySizes : Succeed(size)

Next ==
    \/ Local
    \/ Answered
    \/ \E n \in 1..BodyLimit : Read(n)
    \/ ReadAborted
    \/ CloseResponse
    \/ Cancel
    \/ Tick

Spec == Init /\ [][Next]_vars
\* The client's own steps and time go on; the server need not answer.
FairSpec == Spec /\ WF_vars(Local) /\ WF_vars(Tick)

-----------------------------------------------------------------------------
\* A request that is not idempotent is sent at most once unless the caller
\* opted in, and no call sends more than the five attempts allowed.
SentBounded == sent <= (IF MayRetry THEN 5 ELSE 1)

\* The original request body is consumed at most once: an attempt that
\* repeats the request always has the buffered copy.
BodyReplayable == streamed <= 1

\* The reader gets at most BodyLimit bytes, learns that a body is too large
\* exactly if it is, and never takes a truncated body for a complete one.
LimitExact ==
    /\ bodyErr = "tooLarge" => unread > 0
    /\ bodyErr = "EOF" => unread = 0
    /\ got <= BodyLimit

\* What a call sends: within its attempts, and never a body already consumed.
\* What its caller reads: within the limit, and known to be truncated if it is.
Inv == TypeOK /\ SentBounded /\ BodyReplayable /\ LimitExact

\* No response body leaks: when the call is over the only open one is the
\* caller's, and the caller has one exactly if there was no error.
NoBodyLeaks ==
    /\ open \subseteq {attempt}
    /\ pc = "returned" => (result = 0 => open = {}) /\ (result # 0 <=> err = "nil")

\* All attempts and back-off sleeps together stay within the budget; an attempt
\* is over by its own deadline, which the budget and the timeout of one attempt
\* bound.
WithinBudget ==
    /\ pc \in {"attempt", "drain"} =>
          now <= attemptEnd /\ attemptEnd <= budgetEnd /\ attemptEnd <= now + Timeout
    /\ pc = "sleep" => now <= budgetEnd

\* Do returns.
DoReturns == <>(pc = "returned")

\* The response handed to the caller can be read: its context has not ended
\* while the caller still owns the open body.
BodyUsable == pc = "returned" /\ result # 0 /\ result \in open => result \notin ended
=============================================================================
