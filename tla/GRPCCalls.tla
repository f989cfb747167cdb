----------------------------- MODULE GRPCCalls -----------------------------
(***************************************************************************)
(* gRPC calls from a connection of grpcx.Dial to a server of boot.New: the *)
(* default deadlines of both sides (mid/grpc_client.go, mid/grpc_policy.go)*)
(* the concurrency limiter, the recovery of panics, and the retry policy   *)
(* that grpcx/dial.go gives to gRPC.                                       *)
(*                                                                         *)
(* gRPC itself is external: it carries the time left with each attempt,    *)
(* ends a call with its context, tells the server so, and repeats an       *)
(* attempt that failed with a retryable status if the service config names *)
(* the method.  A task is one attempt of a call at the server.  A deadline *)
(* is the number of ticks left; a handler ends when its context does.      *)
(* MaxFaults bounds broken connections.                                    *)
(***************************************************************************)
EXTENDS Integers, FiniteSets

CONSTANTS
    Calls,
    Limit,              \* cfg.GRPC.MaxConcurrent, positive
    MaxAttempts,        \* DialOption.RetryMaxAttempts
    LongestDeadline,
    Scenarios,          \* values of policy and profile to start with
    MaxFaults

VARIABLES
    policy,         \* DialOption.DefaultRequestTimeout, cfg.GRPC.RequestTimeout; 0 is off
    profile,        \* per call: its shape, its caller's deadline, in RetryMethods
    call,           \* per call: the client's side
    task,           \* per call and attempt: the server's side
    sem,            \* tokens in GRPCConcurrencyLimiter.sem
    faults

vars == <<policy, profile, call, task, sem, faults>>

NoDeadline == -1
Attempts == 1 .. MaxAttempts
Countdown(d) == IF d > 0 THEN d - 1 ELSE d
TimesLeft == NoDeadline .. LongestDeadline

\* "final" stands for OK and for every error that is not retried.
Statuses == {"final", "unavailable", "busy"}

AllPolicies == [client : 0 .. LongestDeadline, server : 0 .. LongestDeadline]
AllProfiles == [shape : {"unary", "stream"}, given : TimesLeft \ {0}, listed : BOOLEAN]
NewCall == [at |-> "idle", left |-> NoDeadline, cancelled |-> FALSE, quit |-> FALSE,
            attempt |-> 0, reply |-> "none", result |-> "none", age |-> 0]
NoTask == [at |-> "none", left |-> NoDeadline, cancelled |-> FALSE]

TypeOK ==
    /\ policy \in AllPolicies
    /\ profile \in [Calls -> AllProfiles]
    /\ call \in [Calls -> [at : {"idle", "open", "waiting", "ended"}, left : TimesLeft,
                           cancelled : BOOLEAN, quit : BOOLEAN, attempt : 0 .. MaxAttempts,
                           reply : Statuses \cup {"none"},
                           result : {"none", "answered", "busy", "deadline", "canceled"},
                           age : 0 .. LongestDeadline]]
    /\ task \in [Calls \X Attempts ->
                    [at : {"none", "sent", "running", "returned", "refused"},
                     left : TimesLeft, cancelled : BOOLEAN]]
    /\ sem \in 0 .. Limit
    /\ faults \in 0 .. MaxFaults

Init ==
    /\ \E s \in Scenarios : policy = s.policy /\ profile = s.profile
    /\ call = [c \in Calls |-> NewCall]
    /\ task = [t \in Calls \X Attempts |-> NoTask]
    /\ sem = 0
    /\ faults = 0

-----------------------------------------------------------------------------
(* The client.                                                             *)

\* ctx.Deadline() is not set and a default is configured.
Wrapped(c) == profile[c].given = NoDeadline /\ policy.client > 0

\* GRPCUnaryClientTimeout and GRPCStreamClientTimeout.
CallDeadline(c) == IF Wrapped(c) THEN policy.client ELSE profile[c].given

\* An attempt goes out with the time its call has left.
Sent(c, n, left) ==
    task' = [task EXCEPT ![<<c, n>>] = [at |-> "sent", left |-> left, cancelled |-> FALSE]]

\* invoker or streamer: a stream stays open for sending, a unary call waits.
Invoke(c) ==
    /\ call[c].at = "idle"
    /\ call' = [call EXCEPT ![c].at = IF profile[c].shape = "stream" THEN "open" ELSE "waiting",
                            ![c].left = CallDeadline(c), ![c].attempt = 1]
    /\ Sent(c, 1, CallDeadline(c))
    /\ UNCHANGED <<policy, profile, sem, faults>>

\* CloseSend: the caller has sent everything and waits for answers.  If the
\* stream is wrapped, cancelClientStream cancels its context here.
CloseSend(c) ==
    /\ call[c].at = "open"
    /\ call' = [call EXCEPT ![c].at = "waiting", ![c].cancelled = @ \/ Wrapped(c)]
    /\ UNCHANGED <<policy, profile, task, sem, faults>>

\* The caller gives up: it cancels the context it passed.
Quit(c) ==
    /\ call[c].at \in {"open", "waiting"} /\ ~call[c].quit
    /\ call' = [call EXCEPT ![c].cancelled = TRUE, ![c].quit = TRUE]
    /\ UNCHANGED <<policy, profile, task, sem, faults>>

Done(c, result) ==
    [NewCall EXCEPT !.at = "ended", !.result = result,
                    !.quit = call[c].quit /\ result = "canceled"]

\* The call's context ends it.
ContextEnds(c) ==
    /\ call[c].at \in {"open", "waiting"}
    /\ \/ call[c].cancelled /\ call' = [call EXCEPT ![c] = Done(c, "canceled")]
       \/ call[c].left = 0 /\ call' = [call EXCEPT ![c] = Done(c, "deadline")]
    /\ UNCHANGED <<policy, profile, task, sem, faults>>

\* retryServiceConfigValidated: UNAVAILABLE and RESOURCE_EXHAUSTED, for the
\* methods named, within the attempts.
Retries(c, status) ==
    /\ status \in {"unavailable", "busy"}
    /\ profile[c].listed
    /\ call[c].attempt < MaxAttempts

Outcome(status) == IF status = "busy" THEN "busy" ELSE "answered"

\* The status of the current attempt arrives and ends the call ...
Receive(c) ==
    /\ call[c].at \in {"open", "waiting"} /\ call[c].reply # "none"
    /\ ~Retries(c, call[c].reply)
    /\ call' = [call EXCEPT ![c] = Done(c, Outcome(call[c].reply))]
    /\ UNCHANGED <<policy, profile, task, sem, faults>>

\* ... or leads to the next attempt, within the same context.
Retry(c) ==
    /\ call[c].at \in {"open", "waiting"} /\ call[c].reply # "none"
    /\ Retries(c, call[c].reply)
    /\ call' = [call EXCEPT ![c].attempt = @ + 1, ![c].reply = "none"]
    /\ Sent(c, call[c].attempt + 1, call[c].left)
    /\ UNCHANGED <<policy, profile, sem, faults>>

-----------------------------------------------------------------------------
(* The server.                                                             *)

\* The status reaches the client if it still waits for this attempt.
Reply(c, n, status) ==
    call' = IF call[c].at \in {"open", "waiting"} /\ call[c].attempt = n
            THEN [call EXCEPT ![c].reply = status] ELSE call

Over(how) == [NoTask EXCEPT !.at = how]

\* Mutant: the server's default is the handler's deadline whatever the caller set.
HandlerDeadlineAlways(wire) == IF policy.server > 0 THEN policy.server ELSE wire

\* GRPCUnaryTimeout and GRPCStreamTimeout.
HandlerDeadline(wire) ==
    IF wire = NoDeadline /\ policy.server > 0 THEN policy.server ELSE wire

\* The attempt arrives and gets a token ...
Arrive(c, n) ==
    /\ task[c, n].at = "sent"
    /\ sem < Limit
    /\ sem' = sem + 1
    /\ task' = [task EXCEPT ![<<c, n>>].at = "running",
                            ![<<c, n>>].left = HandlerDeadline(@)]
    /\ UNCHANGED <<policy, profile, call, faults>>

\* ... or is refused at once: RESOURCE_EXHAUSTED.
Refuse(c, n) ==
    /\ task[c, n].at = "sent"
    /\ sem = Limit
    /\ task' = [task EXCEPT ![<<c, n>>] = Over("refused")]
    /\ Reply(c, n, "busy")
    /\ UNCHANGED <<policy, profile, sem, faults>>

\* The attempt's stream was reset before the server looked at it.
Drop(c, n) ==
    /\ task[c, n].at = "sent" /\ task[c, n].cancelled
    /\ task' = [task EXCEPT ![<<c, n>>] = Over("refused")]
    /\ UNCHANGED <<policy, profile, call, sem, faults>>

\* Mutant: the token is given back after the call of the handler, not deferred.
ReleaseUnlessPanic == UNCHANGED sem

\* The limiter's deferred receive, whichever way the handler is left.
Release == sem' = sem - 1

Leave(c, n) ==
    /\ task[c, n].at = "running"
    /\ task' = [task EXCEPT ![<<c, n>>] = Over("returned")]
    /\ UNCHANGED <<policy, profile, faults>>

\* The handler returns.
HandlerReturns(c, n) ==
    /\ Leave(c, n)
    /\ Release
    /\ \E status \in {"final", "unavailable"} : Reply(c, n, status)

\* It panics; GRPCRecovery, outside of the limiter, answers INTERNAL.
HandlerPanics(c, n) ==
    /\ Leave(c, n)
    /\ Release
    /\ Reply(c, n, "final")

-----------------------------------------------------------------------------
(* gRPC between the two.                                                   *)

\* The connection breaks: the client's attempt fails, the handler's context
\* ends.
Break(c) ==
    /\ call[c].at \in {"open", "waiting"} /\ call[c].reply = "none"
    /\ faults < MaxFaults /\ faults' = faults + 1
    /\ call' = [call EXCEPT ![c].reply = "unavailable"]
    /\ task' = [task EXCEPT ![<<c, call[c].attempt>>].cancelled = TRUE]
    /\ UNCHANGED <<policy, profile, sem>>

\* The server learns that the call is over.
Reset(c, n) ==
    /\ call[c].at = "ended"
    /\ task[c, n].at \in {"sent", "running"} /\ ~task[c, n].cancelled
    /\ task' = [task EXCEPT ![<<c, n>>].cancelled = TRUE]
    /\ UNCHANGED <<policy, profile, call, sem, faults>>

Active(c) == call[c].at \in {"open", "waiting"}
Running(t) == task[t].at = "running"
\* Somebody waits for the clock.
Timed ==
    \/ \E c \in Calls : Active(c) /\ call[c].left > 0
    \/ \E t \in DOMAIN task : Running(t) /\ task[t].left > 0

Tick ==
    /\ Timed
    /\ call' = [c \in Calls |->
                   IF Active(c)
                   THEN [call[c] EXCEPT !.left = Countdown(@),
                                        !.age = IF @ < profile[c].given THEN @ + 1 ELSE @]
                   ELSE call[c]]
    /\ task' = [t \in DOMAIN task |->
                   IF Running(t) THEN [task[t] EXCEPT !.left = Countdown(@)] ELSE task[t]]
    /\ UNCHANGED <<policy, profile, sem, faults>>

-----------------------------------------------------------------------------
ContextOver(t) == task[t].cancelled \/ task[t].left = 0

Next ==
    \/ \E c \in Calls :
        \/ Invoke(c) \/ CloseSend(c) \/ Quit(c) \/ ContextEnds(c) \/ Receive(c) \/ Retry(c)
        \/ Break(c)
        \/ \E n \in Attempts :
            \/ Arrive(c, n) \/ Refuse(c, n) \/ Drop(c, n)
            \/ HandlerReturns(c, n) \/ HandlerPanics(c, n)
            \/ Reset(c, n)
    \/ Tick

Spec == Init /\ [][Next]_vars

\* Time passes, gRPC delivers, and a handler whose context is over returns.
Fairness ==
    /\ WF_vars(Tick)
    /\ \A c \in Calls :
        /\ WF_vars(ContextEnds(c) \/ Receive(c) \/ Retry(c))
        /\ \A n \in Attempts :
            WF_vars(\/ Arrive(c, n) \/ Refuse(c, n) \/ Reset(c, n)
                    \/ ContextOver(<<c, n>>) /\ (HandlerReturns(c, n) \/ HandlerPanics(c, n)))

FairSpec == Spec /\ Fairness

-----------------------------------------------------------------------------
Handling == {t \in DOMAIN task : Running(t)}
Handled(c) == \E n \in Attempts : Running(<<c, n>>)
Executed(c) == {n \in Attempts : task[c, n].at \in {"running", "returned"}}

\* The limiter's tokens are the handlers under way, after errors, panics and
\* calls whose client is gone: none is lost, none is given back twice.
TokensAreHandlers == sem = Cardinality(Handling) /\ sem <= Limit

\* A method that was not declared idempotent is executed at most once, however
\* it fails, and not at all when the server was busy; no method is executed
\* more often than the attempts allow.
ExecutedOnce ==
    \A c \in Calls : ~profile[c].listed =>
        /\ Cardinality(Executed(c)) <= 1
        /\ call[c].result = "busy" => Executed(c) = {}

\* Limiter and retries account for every execution.
Inv == TypeOK /\ TokensAreHandlers /\ ExecutedOnce

\* A caller's deadline stands: neither default shortens it, for the call or
\* for a handler, and no handler runs on without one.
HonoursDeadlines ==
    [][\A c \in Calls : profile[c].given # NoDeadline =>
        /\ call'[c].result = "deadline" /\ call[c].result # "deadline"
             => call[c].age >= profile[c].given
        /\ \A n \in Attempts : task'[c, n].at = "running" =>
              /\ task'[c, n].left \in 0 .. profile[c].given
              /\ task'[c, n].left = 0 /\ call'[c].at # "ended"
                   => call'[c].age >= profile[c].given]_vars

\* A call with a deadline, its caller's or the default, ends; and so do its
\* handlers if they have one or their call has ended, and give back their
\* tokens.
CallsEnd ==
    \A c \in Calls :
        /\ Active(c) /\ (profile[c].given # NoDeadline \/ policy.client > 0)
             ~> call[c].at = "ended" /\ ~Handled(c)
        /\ Handled(c) /\ (call[c].at = "ended" \/ policy.server > 0) ~> ~Handled(c)

\* The default timeout is a deadline, for unary calls and streams alike: a
\* call whose caller has not given it up is not ended as canceled.
StreamAnswered == \A c \in Calls : call[c].result = "canceled" => call[c].quit
=============================================================================
