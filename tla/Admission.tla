----------------------------- MODULE Admission -----------------------------
(***************************************************************************)
(* What stands between a request and its handler: the two rate limiters of *)
(* HTTP routes, in memory (module RateLimiter) and in Redis                *)
(* (RedisRateLimiter), and the deadlines and the limiter of gRPC calls     *)
(* (GRPCCalls).  A route has one of them and they share nothing, so a      *)
(* behaviour is one of a single guard; what a caller may rely on is stated *)
(* for all of them: who is refused has given cause, nobody waits for ever, *)
(* and what a guard counts is what happened.                               *)
(***************************************************************************)
EXTENDS RateLimiter

CONSTANTS
    Sharers, Requests, MaxFaults,
    KeyLife,        \* Window in Redis
    Calls, Limit, MaxAttempts, LongestDeadline, Scenarios

ASSUME AdmissionAssumption ==
    /\ KeyLife \in Nat \ {0} /\ Sharers # {} /\ MaxFaults \in Nat
    /\ Limit \in Nat \ {0} /\ MaxAttempts \in Nat \ {0} /\ LongestDeadline \in Nat
    /\ IsFiniteSet(Calls)

VARIABLES
    guard,          \* the guard of this behaviour
    \* in Redis
    key, rRecent, request, rFaults,
    \* gRPC
    policy, profile, call, task, sem, gFaults

memoryVars == vars
redisVars == <<key, rRecent, request, rFaults>>
grpcVars == <<policy, profile, call, task, sem, gFaults>>
admissionVars == <<guard, memoryVars, redisVars, grpcVars>>

Redis == INSTANCE RedisRateLimiter
    WITH Clients <- Sharers, Window <- KeyLife, recent <- rRecent, faults <- rFaults
GRPC == INSTANCE GRPCCalls WITH faults <- gFaults

ASSUME ScenariosAssumption ==
    \A s \in Scenarios : /\ s.policy \in GRPC!AllPolicies
                         /\ s.profile \in [Calls -> GRPC!AllProfiles]

\* What is not the guard stays in a fixed state.
Start ==
    /\ guard \in {"memory", "redis", "grpc"}
    /\ Init /\ Redis!Init /\ GRPC!Init
    /\ guard # "memory" => loop = "off"
    /\ guard # "grpc" =>
         [policy |-> policy, profile |-> profile] = CHOOSE s \in Scenarios : TRUE

InMemory(A) == guard = "memory" /\ A /\ UNCHANGED <<guard, redisVars, grpcVars>>
InRedis(A) == guard = "redis" /\ A /\ UNCHANGED <<guard, memoryVars, grpcVars>>
InGRPC(A) == guard = "grpc" /\ A /\ UNCHANGED <<guard, memoryVars, redisVars>>

Step == InMemory(Next) \/ InRedis(Redis!Next) \/ InGRPC(GRPC!Next)

AdmissionSpec == Start /\ [][Step]_admissionVars

\* The fairness of each module, for the guard in use.
FairAdmission ==
    /\ AdmissionSpec
    /\ WF_memoryVars(guard = "memory" /\ Tick)
    /\ WF_memoryVars(guard = "memory" /\ CleanShard)
    /\ SF_memoryVars(guard = "memory" /\ BeginCleanup)
    /\ SF_memoryVars(guard = "memory" /\ StopSeen)
    /\ WF_memoryVars(guard = "memory" /\ \E x \in Closers : CloseSteps(x))
    /\ GRPC!Fairness

-----------------------------------------------------------------------------
\* Shard, tokens and executions are accounted for, and no client is admitted
\* more often than two windows allow, whichever limiter counts.
AdmissionInv ==
    /\ Inv /\ WithinAllowance
    /\ Redis!TypeOK /\ Redis!WithinAllowance
    /\ GRPC!Inv

\* Both limiters are fixed-window limiters.
FixedWindows == KeepsWindows /\ Redis!KeepsWindows

\* Neither limiter refuses a client without cause.
Refusals == RefusesWithCause /\ Redis!RefusesWithCause

\* Neither default shortens or lifts a caller's deadline.
Deadlines == GRPC!HonoursDeadlines

\* A default timeout ends no call early.
StreamAnswered == GRPC!StreamAnswered

\* Nothing is kept or waits for ever: windows end, Close returns, calls and
\* handlers with a deadline end.
Settles == Forgets /\ CloseReturns /\ GRPC!CallsEnd
=============================================================================
