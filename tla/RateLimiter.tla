---------------------------- MODULE RateLimiter ----------------------------
(***************************************************************************)
(* One shard of the in-memory RateLimiter (mid/ratelimit.go), the goroutine*)
(* that removes expired windows, and Close.  The other 63 shards are alike *)
(* and independent; the goroutine visits them before and after this one.   *)
(*                                                                         *)
(* A request works under shard.mu and reads the clock there, so it is one  *)
(* step.  cleanupExpired reads the clock once, before it locks any shard:  *)
(* lag is how old that reading is.  Time is kept as ages; an age stops at  *)
(* MaxAge, where no comparison tells it from a greater one.                *)
(***************************************************************************)
EXTENDS Integers, FiniteSets

CONSTANTS
    Clients,        \* clients whose keys fall into the shard
    Max,            \* l.max, made positive by newRateLimiter
    Window,         \* l.window in ticks, made positive by newRateLimiter
    Capacity,       \* l.maxClients / rateLimiterShardCount + 1
    MaxLag,         \* bound on the time from reading the clock to this shard
    Closers         \* callers of Close

ASSUME LimiterAssumption ==
    /\ Max \in Nat \ {0} /\ Window \in Nat \ {0} /\ Capacity \in Nat \ {0}
    /\ MaxLag \in Nat /\ IsFiniteSet(Clients)

VARIABLES
    entry,          \* shard.clients: NoEntry, or the window's age and count
    recent,         \* history: admitted requests, see FixedWindow
    loop,           \* cleanupLoop: "off" when it was never started
    lag,            \* age of the clock reading of cleanupExpired
    stop,           \* l.stop is closed
    once,           \* l.closeOnce
    closer          \* per caller of Close: where it is

cleanup == <<loop, lag>>
closing == <<stop, once, closer>>
vars == <<entry, recent, cleanup, closing>>

MaxAge == Window + 1 + MaxLag
NoEntry == [age |-> MaxAge, count |-> 0]
\* count stops at Max + 1, where it means "too many".
Entries == [age : 0 .. MaxAge, count : 0 .. Max + 1]
HasEntry(c) == entry[c].count > 0

\* now.After(e.resetAt)
Expired(c) == HasEntry(c) /\ entry[c].age > Window
Live(c) == HasEntry(c) /\ ~Expired(c)

\* An entry as a window of FixedWindow: an expired one counts as none.
windowAge == [c \in Clients |-> IF Live(c) THEN entry[c].age ELSE Window + 1]
windowUsed == [c \in Clients |-> IF ~Live(c) THEN 0
                                 ELSE IF entry[c].count > Max THEN Max ELSE entry[c].count]

Quota == INSTANCE FixedWindow WITH Span <- Window, age <- windowAge, used <- windowUsed

TypeOK ==
    /\ entry \in [Clients -> Entries]
    /\ recent \in [Clients -> [Quota!Ages -> Nat]]
    /\ loop \in {"off", "select", "scan", "done"}
    /\ lag \in 0 .. MaxLag
    /\ stop \in BOOLEAN
    /\ once \in {"unused", "running", "done"}
    /\ closer \in [Closers -> {"idle", "first", "later", "returned"}]

\* NewRateLimiter starts the cleanup goroutine, RateLimit does not.
Init ==
    /\ entry = [c \in Clients |-> NoEntry]
    /\ recent = [c \in Clients |-> Quota!NothingSpent]
    /\ loop \in {"select", "off"}
    /\ lag = 0
    /\ stop = FALSE /\ once = "unused"
    /\ closer = [x \in Closers |-> "idle"]

-----------------------------------------------------------------------------
(* A request, by what it finds in the shard.                               *)

Size(shard) == Cardinality({c \in Clients : shard[c].count > 0})
NewEntry == [age |-> 0, count |-> 1]
Admitted(c) == recent' = [recent EXCEPT ![c] = Quota!Remembered(@)]

\* What is left of a full shard after its expired entries were deleted.
Evicted == [c \in Clients |-> IF Expired(c) THEN NoEntry ELSE entry[c]]

\* Mutant: a full shard is not searched for expired entries.
RoomWithoutEviction == entry

\* The shard a new client finds.
Room == IF Size(entry) >= Capacity THEN Evicted ELSE entry

\* A client of an open window with permissions left ...
CountRequest(c) ==
    /\ Live(c) /\ entry[c].count < Max
    /\ entry' = [entry EXCEPT ![c].count = @ + 1]
    /\ Admitted(c)
    /\ UNCHANGED <<cleanup, closing>>

\* ... or with none: 42901.
IsSpent(c) == Live(c) /\ entry[c].count >= Max

OverLimit(c) ==
    /\ IsSpent(c)
    /\ entry' = [entry EXCEPT ![c].count = Max + 1]
    /\ UNCHANGED <<recent, cleanup, closing>>

\* A known client whose window is over gets a new one.
RenewWindow(c) ==
    /\ Expired(c)
    /\ entry' = [entry EXCEPT ![c] = NewEntry]
    /\ Admitted(c)
    /\ UNCHANGED <<cleanup, closing>>

\* An unknown client gets one if the shard has room ...
NewClient(c) ==
    /\ ~HasEntry(c)
    /\ Size(Room) < Capacity
    /\ entry' = [Room EXCEPT ![c] = NewEntry]
    /\ Admitted(c)
    /\ UNCHANGED <<cleanup, closing>>

\* ... and is refused otherwise: 42902.
FindsNoRoom(c) == ~HasEntry(c) /\ Size(Room) >= Capacity

ShardFull(c) ==
    /\ FindsNoRoom(c)
    /\ entry' = Room
    /\ UNCHANGED <<recent, cleanup, closing>>

-----------------------------------------------------------------------------
(* cleanupLoop.                                                            *)

\* The ticker fires, and cleanupExpired reads the clock ...
BeginCleanup ==
    /\ loop = "select"
    /\ loop' = "scan" /\ lag' = 0
    /\ UNCHANGED <<entry, recent, closing>>

\* ... and, when it has come to this shard, deletes what had expired then.
Swept == [c \in Clients |-> IF HasEntry(c) /\ entry[c].age - lag > Window
                            THEN NoEntry ELSE entry[c]]

CleanShard ==
    /\ loop = "scan"
    /\ entry' = Swept
    /\ loop' = "select" /\ lag' = 0
    /\ UNCHANGED <<recent, closing>>

StopSeen ==
    /\ loop = "select" /\ stop
    /\ loop' = "done"
    /\ UNCHANGED <<entry, recent, lag, closing>>

-----------------------------------------------------------------------------
(* Close: closeOnce.Do lets the first caller in and has the others wait.   *)

CloseBegins(x) ==
    /\ closer[x] = "idle"
    /\ IF once = "unused"
       THEN /\ once' = "running" /\ stop' = TRUE
            /\ closer' = [closer EXCEPT ![x] = "first"]
       ELSE /\ closer' = [closer EXCEPT ![x] = "later"]
            /\ UNCHANGED <<once, stop>>
    /\ UNCHANGED <<entry, recent, cleanup>>

\* Mutant: newRateLimiter leaves done open if it starts no goroutine.
CloseWaitsForGoroutine(x) ==
    /\ closer[x] = "first" /\ loop = "done"
    /\ once' = "done"
    /\ closer' = [closer EXCEPT ![x] = "returned"]
    /\ UNCHANGED <<entry, recent, cleanup, stop>>

\* <-l.done, which newRateLimiter closed itself if there is no goroutine.
CloseWaits(x) ==
    /\ closer[x] = "first" /\ loop \in {"off", "done"}
    /\ once' = "done"
    /\ closer' = [closer EXCEPT ![x] = "returned"]
    /\ UNCHANGED <<entry, recent, cleanup, stop>>

CloseFollows(x) ==
    /\ closer[x] = "later" /\ once = "done"
    /\ closer' = [closer EXCEPT ![x] = "returned"]
    /\ UNCHANGED <<entry, recent, cleanup, stop, once>>

-----------------------------------------------------------------------------
Tick ==
    /\ loop = "scan" => lag < MaxLag
    /\ lag' = IF loop = "scan" THEN lag + 1 ELSE lag
    /\ entry' = [c \in Clients |-> IF HasEntry(c) /\ entry[c].age < MaxAge
                                   THEN [entry[c] EXCEPT !.age = @ + 1] ELSE entry[c]]
    /\ recent' = [c \in Clients |-> Quota!Aged(recent[c])]
    /\ UNCHANGED <<loop, closing>>

Request(c) ==
    \/ CountRequest(c) \/ OverLimit(c) \/ RenewWindow(c) \/ NewClient(c) \/ ShardFull(c)

CloseSteps(x) == CloseWaits(x) \/ CloseFollows(x)

Next ==
    \/ \E c \in Clients : Request(c)
    \/ BeginCleanup \/ CleanShard \/ StopSeen
    \/ \E x \in Closers : CloseBegins(x) \/ CloseSteps(x)
    \/ Tick

Spec == Init /\ [][Next]_vars

\* Time passes, the ticker fires, and the goroutine and the callers of Close
\* run; select does not overlook a closed channel for ever.  No request need
\* arrive.
Fairness ==
    /\ WF_vars(Tick) /\ WF_vars(CleanShard)
    /\ SF_vars(BeginCleanup) /\ SF_vars(StopSeen)
    /\ WF_vars(\E x \in Closers : CloseSteps(x))

FairSpec == Spec /\ Fairness

-----------------------------------------------------------------------------
\* The shard never holds more clients than its share of maxClients.
ShardBounded == Size(entry) <= Capacity

\* When a call of Close has returned, also one that came second, the goroutine
\* is gone.
ClosedMeansStopped ==
    (\E x \in Closers : closer[x] = "returned") => loop \in {"off", "done"}

\* The shard is well typed and within its capacity, and Close means what it
\* says.
Inv == TypeOK /\ ShardBounded /\ ClosedMeansStopped

\* Neither eviction nor cleanup, whose clock reading may be old, lets a client
\* spend more than two windows' permissions in any span of one window.
WithinAllowance == Quota!WithinAllowance

\* The shard is a fixed-window limiter: a window that is still open is never
\* forgotten or begun anew.
KeepsWindows == Quota!Spec

\* Nobody is turned away without cause: a client would be over its limit only
\* if it was admitted Max times during the last window, and a new client would
\* be refused only if Capacity others were served during the last window.
RefusesWithCause ==
    \A c \in Clients :
        /\ IsSpent(c) => Quota!Spent(recent[c]) >= Max
        /\ FindsNoRoom(c) =>
             Cardinality({d \in Clients \ {c} : Quota!Spent(recent[d]) > 0}) >= Capacity

\* Expired clients are removed even if no request arrives any more, until the
\* limiter is closed.
Forgets == \A c \in Clients : Expired(c) ~> (~Expired(c) \/ stop \/ loop = "off")

\* Every call of Close returns.
CloseReturns ==
    (\E x \in Closers : closer[x] # "idle")
        ~> (\A x \in Closers : closer[x] \in {"idle", "returned"})
=============================================================================
