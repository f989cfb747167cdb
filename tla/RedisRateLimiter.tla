-------------------------- MODULE RedisRateLimiter --------------------------
(***************************************************************************)
(* The distributed limiter of contrib/mid/ratelimit/redis/redis.go: the    *)
(* instances of a service share one counter per client, kept by Redis      *)
(* under a key that expires.                                               *)
(*                                                                         *)
(* Redis runs the script as one step.  A request to it may be lost before  *)
(* or after that, and the Redis client may then send it again: a request   *)
(* that is refused with 503 may have been counted, more than once.         *)
(* MaxFaults bounds how often.  Redis itself keeps its keys.               *)
(***************************************************************************)
EXTENDS Naturals, FiniteSets

CONSTANTS
    Clients,
    Max,            \* l.max, made positive by NewRedisRateLimiter
    Window,         \* ttlMillis in ticks, made positive by allow
    Requests,       \* HTTP requests under way at a time, in all instances
    MaxFaults

VARIABLES
    key,            \* per client: NoKey, or the key's age and count
    recent,         \* history: counted requests that were allowed
    request,        \* per request: where it is, its client, Redis's verdict
    faults

vars == <<key, recent, request, faults>>

NoKey == [age |-> Window, count |-> 0]
\* count stops at Max + 1, where it means "too many".
Keys == [age : 0 .. Window, count : 0 .. Max + 1]
Present(c) == key[c].count > 0

Idle == [at |-> "idle", client |-> CHOOSE c \in Clients : TRUE, allowed |-> FALSE]
Places == {"idle", "sent", "counted"}

\* The key is gone at the age Window: a window has the ages 0 .. Window - 1.
windowAge == [c \in Clients |-> key[c].age]
windowUsed == [c \in Clients |-> IF key[c].count > Max THEN Max ELSE key[c].count]

Quota == INSTANCE FixedWindow
    WITH Span <- Window - 1, age <- windowAge, used <- windowUsed

TypeOK ==
    /\ key \in [Clients -> Keys]
    /\ recent \in [Clients -> [Quota!Ages -> Nat]]
    /\ request \in [Requests -> [at : Places, client : Clients, allowed : BOOLEAN]]
    /\ faults \in 0 .. MaxFaults

Init ==
    /\ key = [c \in Clients |-> NoKey]
    /\ recent = [c \in Clients |-> Quota!NothingSpent]
    /\ request = [r \in Requests |-> Idle]
    /\ faults = 0

Fault == faults < MaxFaults /\ faults' = faults + 1

-----------------------------------------------------------------------------
Sent(c) == [at |-> "sent", client |-> c, allowed |-> FALSE]

\* Middleware: the request's key is looked up in Redis.
Ask(r, c) ==
    /\ request[r].at = "idle"
    /\ request' = [request EXCEPT ![r] = Sent(c)]
    /\ UNCHANGED <<key, recent, faults>>

Count(c) == IF key[c].count > Max THEN key[c].count ELSE key[c].count + 1

\* Mutant: every request renews the key's time to live.
IncrementedAndRenewed(c) == [age |-> 0, count |-> Count(c)]

\* INCR, with PEXPIRE when the key is new.
Incremented(c) == [age |-> IF Present(c) THEN key[c].age ELSE 0, count |-> Count(c)]

\* n <= int64(l.max)
Allowed(n) == n <= Max

\* The script, in Redis.
Execute(r) ==
    /\ request[r].at = "sent"
    /\ LET c == request[r].client
           n == Incremented(c).count
       IN  /\ key' = [key EXCEPT ![c] = Incremented(c)]
           /\ request' = [request EXCEPT ![r] =
                            [at |-> "counted", client |-> c, allowed |-> Allowed(n)]]
           /\ recent' = IF Allowed(n) THEN [recent EXCEPT ![c] = Quota!Remembered(@)]
                        ELSE recent
    /\ UNCHANGED faults

\* The reply arrives: the request goes on to its handler, or is refused.
Answer(r) ==
    /\ request[r].at = "counted"
    /\ request' = [request EXCEPT ![r] = Idle]
    /\ UNCHANGED <<key, recent, faults>>

\* The request or the reply is lost, and the Redis client tries once more ...
Resend(r) ==
    /\ request[r].at # "idle" /\ Fault
    /\ request' = [request EXCEPT ![r] = Sent(@.client)]
    /\ UNCHANGED <<key, recent>>

\* ... or gives up: 503.
Unavailable(r) ==
    /\ request[r].at # "idle" /\ Fault
    /\ request' = [request EXCEPT ![r] = Idle]
    /\ UNCHANGED <<key, recent>>

\* Time passes, and a key whose time is over is gone.
Tick ==
    /\ key' = [c \in Clients |-> IF key[c].age + 1 >= Window THEN NoKey
                                 ELSE [key[c] EXCEPT !.age = @ + 1]]
    /\ recent' = [c \in Clients |-> Quota!Aged(recent[c])]
    /\ UNCHANGED <<request, faults>>

Next ==
    \/ \E r \in Requests : \/ \E c \in Clients : Ask(r, c)
                           \/ Execute(r) \/ Answer(r) \/ Resend(r) \/ Unavailable(r)
    \/ Tick

Spec == Init /\ [][Next]_vars

-----------------------------------------------------------------------------
\* All instances together let a client spend at most two windows' permissions
\* in any span of one window, lost replies and repeated requests included.
WithinAllowance == Quota!WithinAllowance

\* Redis and its clients are a fixed-window limiter: the expiry of a window is
\* set once, whatever is counted in it later.
KeepsWindows == Quota!Spec

\* A request would be refused only if Max requests of its client were counted
\* during the last window (counted, though not all need have been let through).
RefusesWithCause ==
    \A c \in Clients :
        ~Allowed(Incremented(c).count) => Quota!Spent(recent[c]) >= Max
=============================================================================
