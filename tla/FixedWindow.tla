---------------------------- MODULE FixedWindow ----------------------------
(***************************************************************************)
(* What a fixed-window rate limiter promises, whatever it keeps its        *)
(* counters in: a client has at most one open window, a window lasts its   *)
(* full time however many requests arrive, and at most Max permissions are *)
(* spent in it.  RateLimiter and RedisRateLimiter implement it.            *)
(***************************************************************************)
EXTENDS Naturals, FiniteSets

CONSTANTS
    Clients,
    Max,            \* permissions per window
    Span            \* a window is open at the ages 0 .. Span

VARIABLES
    age,            \* per client: age of its last window, Span + 1 when it is over
    used,           \* per client: permissions spent in that window
    recent          \* history: permissions spent at most 0, 1, ..., Span ticks ago

vars == <<age, used, recent>>

Ages == 0 .. Span
NothingSpent == [a \in Ages |-> 0]

Init ==
    /\ age = [c \in Clients |-> Span + 1]
    /\ used = [c \in Clients |-> 0]
    /\ recent = [c \in Clients |-> NothingSpent]

\* How the history remembers a permission, and how it ages.
Remembered(h) == [a \in Ages |-> h[a] + 1]
Aged(h) == [a \in Ages |-> IF a = 0 THEN 0 ELSE h[a - 1]]

\* Permissions spent within the last Span + 1 instants.
Spent(h) == h[Span]

\* A request opens a window, or spends a permission of the open one.
Open(c) ==
    /\ age[c] > Span
    /\ age' = [age EXCEPT ![c] = 0]
    /\ used' = [used EXCEPT ![c] = 1]
    /\ recent' = [recent EXCEPT ![c] = Remembered(@)]

Spend(c) ==
    /\ age[c] <= Span
    /\ used[c] < Max
    /\ used' = [used EXCEPT ![c] = @ + 1]
    /\ recent' = [recent EXCEPT ![c] = Remembered(@)]
    /\ UNCHANGED age

Tick ==
    /\ age' = [c \in Clients |-> IF age[c] <= Span THEN age[c] + 1 ELSE age[c]]
    /\ used' = [c \in Clients |-> IF age'[c] <= Span THEN used[c] ELSE 0]
    /\ recent' = [c \in Clients |-> Aged(recent[c])]

Next == Tick \/ \E c \in Clients : Open(c) \/ Spend(c)

Spec == Init /\ [][Next]_vars

\* Within any span of one window, wherever it begins, a client has spent at
\* most the permissions of two windows.
WithinAllowance == \A c \in Clients : Spent(recent[c]) <= 2 * Max
=============================================================================
