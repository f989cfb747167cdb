-------------------------- MODULE AdmissionProofs --------------------------
(***************************************************************************)
(* The safety of what stands between a request and its handler, for any    *)
(* clients, limits, windows, lags, faults, calls and deadlines.            *)
(*                                                                         *)
(* Theorem AdmissionKeepsWindows: both rate limiters implement             *)
(* FixedWindow.  Each gets the least invariant its refinement needs:       *)
(* entries and keys have their shape, and a counter is zero exactly when   *)
(* its window is over.  Then every action opens a window, spends a         *)
(* permission of one, lets time pass, or changes nothing that FixedWindow  *)
(* knows of.                                                               *)
(*                                                                         *)
(* Theorems AdmissionAccounts and AdmissionRefusals: what FixedWindow's    *)
(* counter says of the history (Accounted) is an invariant of FixedWindow, *)
(* so of both limiters; the shard and Close have one of their own          *)
(* (ShardOK).                                                              *)
(*                                                                         *)
(* Theorem AdmissionDeadlines, and the rest of AdmissionAccounts: how far  *)
(* a gRPC call and its attempts have come, what a refusal was said of, and *)
(* what is left of a deadline (Attempted, Answered, OnTime), with the      *)
(* tokens of the limiter (Tokens).                                         *)
(***************************************************************************)
EXTENDS Admission, FiniteSetTheorems, TLAPS

-----------------------------------------------------------------------------
(* In memory.                                                              *)

\* The entries of a shard and the age of the clock reading have their shape.
MemoryOK == entry \in [Clients -> Entries] /\ lag \in Nat

\* The window of c is replaced by a new one, or one permission of it is spent;
\* every other window is as it was.
Opened(c) ==
    \A d \in Clients : /\ windowAge'[d] = IF d = c THEN 0 ELSE windowAge[d]
                       /\ windowUsed'[d] = IF d = c THEN 1 ELSE windowUsed[d]
Used(c) ==
    \A d \in Clients : /\ windowAge'[d] = windowAge[d]
                       /\ windowUsed'[d] = IF d = c THEN windowUsed[d] + 1 ELSE windowUsed[d]

\* What a window is for FixedWindow is unchanged.
SameWindows == UNCHANGED <<windowAge, windowUsed, recent>>

\* An empty shard is a limiter without windows.
LEMMA MemoryInit == Init => MemoryOK /\ Quota!Init
BY LimiterAssumption
   DEF Init, MemoryOK, Entries, NoEntry, MaxAge, Quota!Init, HasEntry, Live,
       windowAge, windowUsed

\* An admission that replaces a window that is over opens one.
LEMMA OpensWindow ==
    ASSUME NEW c \in Clients, windowAge[c] > Window, Opened(c), Admitted(c)
    PROVE  Quota!Open(c)
<1>1. windowAge' = [windowAge EXCEPT ![c] = 0] BY DEF Opened, windowAge
<1>2. windowUsed' = [windowUsed EXCEPT ![c] = 1] BY DEF Opened, windowUsed
<1> QED BY <1>1, <1>2 DEF Quota!Open, Admitted

\* An admission by an open window that is not used up spends a permission.
LEMMA SpendsPermission ==
    ASSUME NEW c \in Clients, windowAge[c] <= Window, windowUsed[c] < Max,
           Used(c), Admitted(c)
    PROVE  Quota!Spend(c)
<1>1. windowAge' = windowAge BY DEF Used, windowAge
<1>2. windowUsed' = [windowUsed EXCEPT ![c] = @ + 1] BY DEF Used, windowUsed
<1> QED BY <1>1, <1>2 DEF Quota!Spend, Admitted

\* The eviction of expired entries keeps the shard's shape and its windows.
LEMMA RoomKeepsWindows ==
    ASSUME MemoryOK
    PROVE  /\ Room \in [Clients -> Entries]
           /\ \A d \in Clients : Room[d] = entry[d] \/ (Room[d] = NoEntry /\ Expired(d))
<1>1. NoEntry \in Entries BY LimiterAssumption DEF NoEntry, Entries, MaxAge
<1>2. Evicted \in [Clients -> Entries] BY <1>1 DEF MemoryOK, Evicted
<1>3. \A d \in Clients : Evicted[d] = entry[d] \/ (Evicted[d] = NoEntry /\ Expired(d))
  BY DEF Evicted, Expired, HasEntry
<1> QED BY <1>2, <1>3 DEF Room, MemoryOK

\* Every request opens a window, spends a permission, or changes no window.
LEMMA RequestStep ==
    ASSUME MemoryOK, NEW c \in Clients, Request(c)
    PROVE  MemoryOK' /\ (Quota!Open(c) \/ Quota!Spend(c) \/ SameWindows)
<1> USE LimiterAssumption DEF MemoryOK, Entries, MaxAge, Live, Expired, HasEntry,
                              windowAge, windowUsed
<1>1. CASE CountRequest(c)
  <2>1. MemoryOK' BY <1>1 DEF CountRequest, cleanup
  <2>2. windowAge[c] <= Window /\ windowUsed[c] < Max BY <1>1 DEF CountRequest
  <2>3. Used(c) BY <1>1 DEF CountRequest, Used
  <2> QED BY <1>1, <2>1, <2>2, <2>3, SpendsPermission DEF CountRequest
<1>2. CASE OverLimit(c)
  <2>1. MemoryOK' BY <1>2 DEF OverLimit, IsSpent, cleanup
  <2>2. SameWindows BY <1>2 DEF OverLimit, IsSpent, SameWindows
  <2> QED BY <2>1, <2>2
<1>3. CASE RenewWindow(c)
  <2>1. MemoryOK' BY <1>3 DEF RenewWindow, NewEntry, cleanup
  <2>2. windowAge[c] > Window BY <1>3 DEF RenewWindow
  <2>3. Opened(c) BY <1>3 DEF RenewWindow, NewEntry, Opened
  <2> QED BY <1>3, <2>1, <2>2, <2>3, OpensWindow DEF RenewWindow
<1>4. CASE NewClient(c)
  <2>1. MemoryOK' BY <1>4, RoomKeepsWindows DEF NewClient, NewEntry, cleanup
  <2>2. windowAge[c] > Window BY <1>4 DEF NewClient
  <2>3. Opened(c) BY <1>4, RoomKeepsWindows DEF NewClient, NewEntry, NoEntry, Opened
  <2> QED BY <1>4, <2>1, <2>2, <2>3, OpensWindow DEF NewClient
<1>5. CASE ShardFull(c)
  <2>1. MemoryOK' BY <1>5, RoomKeepsWindows DEF ShardFull, cleanup
  <2>2. SameWindows BY <1>5, RoomKeepsWindows DEF ShardFull, NoEntry, SameWindows
  <2> QED BY <2>1, <2>2
<1> QED BY <1>1, <1>2, <1>3, <1>4, <1>5 DEF Request

\* The cleanup deletes only what was over when it read the clock, and is so
\* still.
LEMMA CleanShardStep ==
    ASSUME MemoryOK, CleanShard
    PROVE  MemoryOK' /\ SameWindows
<1> USE LimiterAssumption DEF MemoryOK, Entries, MaxAge, HasEntry, CleanShard, Swept, NoEntry
<1>1. MemoryOK' OBVIOUS
<1>2. SameWindows BY DEF SameWindows, windowAge, windowUsed, Live, Expired
<1> QED BY <1>1, <1>2

\* Time ends windows and does nothing else to them.
LEMMA TickStep ==
    ASSUME MemoryOK, Tick
    PROVE  MemoryOK' /\ Quota!Tick
<1> USE LimiterAssumption DEF MemoryOK, Entries, MaxAge, Tick, HasEntry, Live, Expired
<1>1. MemoryOK' OBVIOUS
<1>2. windowAge' = [c \in Clients |-> IF windowAge[c] <= Window THEN windowAge[c] + 1
                                      ELSE windowAge[c]]
  BY DEF windowAge
<1>3. windowUsed' = [c \in Clients |-> IF windowAge'[c] <= Window THEN windowUsed[c] ELSE 0]
  BY DEF windowUsed, windowAge
<1> QED BY <1>1, <1>2, <1>3 DEF Quota!Tick

\* Every step of the limiter in memory is one of FixedWindow, or none.
LEMMA MemoryStep ==
    ASSUME MemoryOK, [Next]_memoryVars
    PROVE  MemoryOK' /\ [Quota!Next]_Quota!vars
<1> USE DEF Quota!Next, Quota!vars
<1>1. SameWindows => UNCHANGED Quota!vars BY DEF SameWindows
<1>2. ASSUME UNCHANGED <<entry, recent>>
      PROVE  SameWindows
  BY <1>2 DEF SameWindows, windowAge, windowUsed, Live, Expired, HasEntry
<1>3. ASSUME NEW c \in Clients, Request(c)
      PROVE  MemoryOK' /\ [Quota!Next]_Quota!vars
  BY <1>1, <1>3, RequestStep
<1>4. CASE BeginCleanup
  <2>1. MemoryOK' BY <1>4 DEF BeginCleanup, MemoryOK
  <2> QED BY <1>1, <1>2, <1>4, <2>1 DEF BeginCleanup
<1>5. CASE CleanShard BY <1>1, <1>5, CleanShardStep
<1>6. CASE StopSeen BY <1>1, <1>2, <1>6 DEF StopSeen, MemoryOK
<1>7. ASSUME NEW x \in Closers, CloseBegins(x) \/ CloseSteps(x)
      PROVE  MemoryOK' /\ [Quota!Next]_Quota!vars
  <2>1. UNCHANGED <<entry, recent, lag>>
    BY <1>7 DEF CloseBegins, CloseSteps, CloseWaits, CloseFollows, cleanup
  <2>2. MemoryOK' BY <2>1 DEF MemoryOK
  <2> QED BY <1>1, <1>2, <2>1, <2>2
<1>8. CASE Tick BY <1>8, TickStep
<1>9. CASE UNCHANGED memoryVars
  <2>1. UNCHANGED <<entry, recent, lag>> BY <1>9 DEF memoryVars, vars, cleanup
  <2>2. MemoryOK' BY <2>1 DEF MemoryOK
  <2> QED BY <1>1, <1>2, <2>1, <2>2
<1> QED BY <1>3, <1>4, <1>5, <1>6, <1>7, <1>8, <1>9 DEF Next

-----------------------------------------------------------------------------
(* In Redis.                                                               *)

\* A client without a window has no count, and none other; what Redis was sent
\* names a client.
RedisOK ==
    /\ key \in [Sharers -> Redis!Keys]
    /\ \A c \in Sharers : key[c].count = 0 <=> key[c].age = KeyLife
    /\ request \in [Requests -> [at : Redis!Places, client : Sharers, allowed : BOOLEAN]]

\* Without keys there is no window.
LEMMA RedisInit == Redis!Init => RedisOK /\ Redis!Quota!Init
<1> SUFFICES ASSUME Redis!Init PROVE RedisOK /\ Redis!Quota!Init
  OBVIOUS
<1> USE LimiterAssumption, AdmissionAssumption
<1>1. Redis!Idle \in [at : Redis!Places, client : Sharers, allowed : BOOLEAN]
  BY DEF Redis!Idle, Redis!Places
<1>2. RedisOK BY <1>1 DEF Redis!Init, RedisOK, Redis!Keys, Redis!NoKey
<1>3. Redis!Quota!Init
  BY DEF Redis!Init, Redis!NoKey, Redis!Quota!Init, Redis!windowAge, Redis!windowUsed
<1> QED BY <1>2, <1>3

\* The script opens the window of a client without a key, spends a permission of
\* one that has some left, and counts one request too many otherwise.
LEMMA ScriptStep ==
    ASSUME RedisOK, NEW r \in Requests, Redis!Execute(r)
    PROVE  RedisOK' /\ [Redis!Quota!Next]_Redis!Quota!vars
<1> USE LimiterAssumption, AdmissionAssumption
<1> DEFINE c == request[r].client
<1>1. c \in Sharers BY DEF RedisOK
<1>2. key[c] \in Redis!Keys /\ (key[c].count = 0 <=> key[c].age = KeyLife)
  BY <1>1 DEF RedisOK
<1>3. key' = [key EXCEPT ![c] = Redis!Incremented(c)] BY DEF Redis!Execute
<1>4. Redis!Incremented(c) \in Redis!Keys /\ Redis!Incremented(c).count # 0
      /\ Redis!Incremented(c).age # KeyLife
  BY <1>2 DEF Redis!Incremented, Redis!Count, Redis!Keys, Redis!Present
<1>5. RedisOK'
  <2>1. key' \in [Sharers -> Redis!Keys] BY <1>3, <1>4 DEF RedisOK
  <2>2. \A d \in Sharers : key'[d].count = 0 <=> key'[d].age = KeyLife
    BY <1>1, <1>3, <1>4 DEF RedisOK
  <2>3. request' \in [Requests -> [at : Redis!Places, client : Sharers, allowed : BOOLEAN]]
    BY <1>1 DEF RedisOK, Redis!Execute, Redis!Places, Redis!Allowed
  <2> QED BY <2>1, <2>2, <2>3 DEF RedisOK
<1> DEFINE Becomes(p, q) ==
      /\ Redis!windowAge' = [Redis!windowAge EXCEPT ![c] = p]
      /\ Redis!windowUsed' = [Redis!windowUsed EXCEPT ![c] = q]
<1>6. \A d \in Sharers : key'[d] = IF d = c THEN Redis!Incremented(c) ELSE key[d]
  BY <1>3 DEF RedisOK
<1>7. CASE key[c].count = 0
  <2>1. Redis!Incremented(c) = [age |-> 0, count |-> 1]
    BY <1>7 DEF Redis!Incremented, Redis!Count, Redis!Present
  <2>2. \A d \in Sharers :
          /\ Redis!windowAge'[d] = IF d = c THEN 0 ELSE Redis!windowAge[d]
          /\ Redis!windowUsed'[d] = IF d = c THEN 1 ELSE Redis!windowUsed[d]
    BY <1>6, <2>1 DEF Redis!windowAge, Redis!windowUsed
  <2>3. Becomes(0, 1) BY <2>2 DEF Redis!windowAge, Redis!windowUsed
  <2>4. rRecent' = [rRecent EXCEPT ![c] = Redis!Quota!Remembered(@)]
    BY <2>1 DEF Redis!Execute, Redis!Allowed
  <2>5. Redis!windowAge[c] > KeyLife - 1 BY <1>1, <1>2, <1>7 DEF Redis!windowAge
  <2>6. Redis!Quota!Open(c) BY <2>3, <2>4, <2>5 DEF Redis!Quota!Open
  <2> QED BY <1>1, <1>5, <2>6 DEF Redis!Quota!Next
<1>8. CASE key[c].count > 0 /\ key[c].count < Max
  <2>1. Redis!Incremented(c) = [age |-> key[c].age, count |-> key[c].count + 1]
    BY <1>2, <1>8 DEF Redis!Incremented, Redis!Count, Redis!Present, Redis!Keys
  <2>2. \A d \in Sharers :
          /\ Redis!windowAge'[d] = Redis!windowAge[d]
          /\ Redis!windowUsed'[d] = IF d = c THEN Redis!windowUsed[d] + 1 ELSE Redis!windowUsed[d]
    BY <1>2, <1>6, <1>8, <2>1 DEF Redis!windowAge, Redis!windowUsed, Redis!Keys
  <2>3. UNCHANGED Redis!windowAge BY <2>2 DEF Redis!windowAge
  <2>4. Redis!windowUsed' = [Redis!windowUsed EXCEPT ![c] = @ + 1]
    BY <2>2 DEF Redis!windowUsed
  <2>5. rRecent' = [rRecent EXCEPT ![c] = Redis!Quota!Remembered(@)]
    BY <1>2, <1>8, <2>1 DEF Redis!Execute, Redis!Allowed, Redis!Keys
  <2>6. Redis!windowAge[c] <= KeyLife - 1 /\ Redis!windowUsed[c] < Max
    BY <1>1, <1>2, <1>8 DEF Redis!windowAge, Redis!windowUsed, Redis!Keys
  <2>7. Redis!Quota!Spend(c) BY <2>3, <2>4, <2>5, <2>6 DEF Redis!Quota!Spend
  <2> QED BY <1>1, <1>5, <2>7 DEF Redis!Quota!Next
<1>9. CASE key[c].count >= Max
  <2>1. Redis!Incremented(c) = [age |-> key[c].age, count |-> Max + 1]
    BY <1>2, <1>9 DEF Redis!Incremented, Redis!Count, Redis!Present, Redis!Keys
  <2>2. UNCHANGED <<Redis!windowAge, Redis!windowUsed>>
    BY <1>2, <1>6, <1>9, <2>1 DEF Redis!windowAge, Redis!windowUsed, Redis!Keys
  <2>3. UNCHANGED rRecent BY <2>1 DEF Redis!Execute, Redis!Allowed
  <2> QED BY <1>5, <2>2, <2>3 DEF Redis!Quota!vars
<1> QED BY <1>2, <1>7, <1>8, <1>9 DEF Redis!Keys

\* Redis forgets a key when its window is over, and not before.
LEMMA RedisTickStep ==
    ASSUME RedisOK, Redis!Tick
    PROVE  RedisOK' /\ Redis!Quota!Tick
<1> USE LimiterAssumption, AdmissionAssumption DEF RedisOK, Redis!Keys, Redis!NoKey, Redis!Tick
<1>1. \A c \in Sharers : key[c] \in Redis!Keys OBVIOUS
<1>2. \A c \in Sharers :
        key'[c] = IF key[c].age + 1 >= KeyLife THEN Redis!NoKey
                  ELSE [age |-> key[c].age + 1, count |-> key[c].count]
  OBVIOUS
<1>3. RedisOK' BY <1>1, <1>2
<1>4. Redis!windowAge' = [c \in Sharers |->
        IF Redis!windowAge[c] <= KeyLife - 1 THEN Redis!windowAge[c] + 1 ELSE Redis!windowAge[c]]
  <2>1. ASSUME NEW c \in Sharers
        PROVE  key'[c].age = IF key[c].age <= KeyLife - 1 THEN key[c].age + 1 ELSE key[c].age
    <3>1. key[c].age \in 0 .. KeyLife /\ KeyLife \in Nat BY <1>1
    <3>2. key'[c].age = IF key[c].age + 1 >= KeyLife THEN KeyLife ELSE key[c].age + 1
      BY <1>2
    <3> HIDE DEF RedisOK, Redis!Tick
    <3> QED BY <3>1, <3>2
  <2> QED BY <2>1 DEF Redis!windowAge
<1>5. Redis!windowUsed' = [c \in Sharers |->
        IF Redis!windowAge'[c] <= KeyLife - 1 THEN Redis!windowUsed[c] ELSE 0]
  BY <1>1, <1>2 DEF Redis!windowAge, Redis!windowUsed
<1> QED BY <1>3, <1>4, <1>5 DEF Redis!Quota!Tick

\* Every step of the limiter in Redis is one of FixedWindow, or none.
LEMMA RedisStep ==
    ASSUME RedisOK, [Redis!Next]_redisVars
    PROVE  RedisOK' /\ [Redis!Quota!Next]_Redis!Quota!vars
<1> USE AdmissionAssumption
<1>1. ASSUME UNCHANGED <<key, rRecent>>
      PROVE  UNCHANGED Redis!Quota!vars
  BY <1>1 DEF Redis!Quota!vars, Redis!windowAge, Redis!windowUsed
<1>2. Redis!Idle \in [at : Redis!Places, client : Sharers, allowed : BOOLEAN]
  BY DEF Redis!Idle, Redis!Places
<1>3. ASSUME NEW r \in Requests, NEW c \in Sharers, Redis!Ask(r, c)
      PROVE  RedisOK' /\ UNCHANGED <<key, rRecent>>
  BY <1>3 DEF Redis!Ask, Redis!Sent, RedisOK, Redis!Places
<1>4. ASSUME NEW r \in Requests, Redis!Answer(r) \/ Redis!Unavailable(r)
      PROVE  RedisOK' /\ UNCHANGED <<key, rRecent>>
  BY <1>2, <1>4 DEF Redis!Answer, Redis!Unavailable, RedisOK
<1>5. ASSUME NEW r \in Requests, Redis!Resend(r)
      PROVE  RedisOK' /\ UNCHANGED <<key, rRecent>>
  BY <1>5 DEF Redis!Resend, Redis!Sent, RedisOK, Redis!Places
<1>6. ASSUME UNCHANGED redisVars
      PROVE  RedisOK' /\ UNCHANGED <<key, rRecent>>
  BY <1>6 DEF redisVars, RedisOK
<1>7. CASE Redis!Tick BY <1>7, RedisTickStep DEF Redis!Quota!Next
<1> QED BY <1>1, <1>3, <1>4, <1>5, <1>6, <1>7, ScriptStep DEF Redis!Next

-----------------------------------------------------------------------------
(* What a window's counter says of the permissions spent lately.           *)

\* A client's last window is of age g (S + 1 when it is over), u permissions were
\* spent in it, and h[a] within the last a ticks.  Less than g ticks ago nothing
\* was spent outside of it; and longer ago, as far as h reaches, at most a window.
Accounted(g, u, h, S) ==
    /\ g \in 0 .. S + 1 /\ u \in 0 .. Max /\ h \in [0 .. S -> Nat]
    /\ g > S => u = 0 /\ \A a \in 0 .. S : h[a] <= Max
    /\ g <= S => \A a \in 0 .. S : /\ a < g => h[a] <= u
                                   /\ a >= g => u <= h[a] /\ h[a] <= u + Max

\* A window opens when the last one is over.
LEMMA AccountOpen ==
    ASSUME NEW S \in Nat, NEW g, NEW u, NEW h, Accounted(g, u, h, S), g > S
    PROVE  Accounted(0, 1, [a \in 0 .. S |-> h[a] + 1], S)
BY LimiterAssumption DEF Accounted

\* A permission of an open window is spent.
LEMMA AccountSpend ==
    ASSUME NEW S \in Nat, NEW g, NEW u, NEW h, Accounted(g, u, h, S), g <= S, u < Max
    PROVE  Accounted(g, u + 1, [a \in 0 .. S |-> h[a] + 1], S)
BY LimiterAssumption DEF Accounted

\* Time passes, and ends the window at the age S.
LEMMA AccountTick ==
    ASSUME NEW S \in Nat, NEW g, NEW u, NEW h, Accounted(g, u, h, S)
    PROVE  LET older == IF g <= S THEN g + 1 ELSE g
           IN  Accounted(older, IF older <= S THEN u ELSE 0,
                         [a \in 0 .. S |-> IF a = 0 THEN 0 ELSE h[a - 1]], S)
<1> DEFINE aged == [a \in 0 .. S |-> IF a = 0 THEN 0 ELSE h[a - 1]]
<1>1. g \in 0 .. S + 1 /\ u \in 0 .. Max /\ h \in [0 .. S -> Nat]
  BY DEF Accounted
<1>2. \A a \in 0 .. S : a # 0 => a - 1 \in 0 .. S
  OBVIOUS
<1>3. aged \in [0 .. S -> Nat]
  BY <1>1, <1>2
<1>4. CASE g < S
  <2>1. \A a \in 0 .. S : /\ a < g + 1 => aged[a] <= u
                          /\ a >= g + 1 => u <= aged[a] /\ aged[a] <= u + Max
    BY <1>1, <1>2, <1>4 DEF Accounted
  <2> QED
    BY <1>1, <1>3, <1>4, <2>1 DEF Accounted
<1>5. CASE g >= S
  <2>1. \A a \in 0 .. S : aged[a] <= Max
    BY <1>1, <1>2, <1>5, LimiterAssumption DEF Accounted
  <2> QED
    BY <1>1, <1>3, <1>5, <2>1, LimiterAssumption DEF Accounted
<1> QED
  BY <1>1, <1>4, <1>5

\* What is spent within any span of a window is bounded by two windows, and is as
\* much as the last window has counted.
LEMMA AccountBounds ==
    ASSUME NEW S \in Nat, NEW g, NEW u, NEW h, Accounted(g, u, h, S)
    PROVE  h[S] <= 2 * Max /\ (g <= S => h[S] >= u)
BY LimiterAssumption DEF Accounted

\* The windows of the limiter in memory, and of Redis.
MemoryAccounts ==
    /\ recent = [c \in Clients |-> recent[c]]
    /\ \A c \in Clients : Accounted(windowAge[c], windowUsed[c], recent[c], Window)
RedisAccounts ==
    /\ rRecent = [c \in Sharers |-> rRecent[c]]
    /\ \A c \in Sharers :
          Accounted(Redis!windowAge[c], Redis!windowUsed[c], rRecent[c], KeyLife - 1)

\* A step of FixedWindow keeps the accounts, in memory ...
LEMMA MemoryAccountsStep ==
    ASSUME MemoryAccounts, [Quota!Next]_Quota!vars
    PROVE  MemoryAccounts'
<1>1. /\ DOMAIN windowAge = Clients /\ DOMAIN windowUsed = Clients
      /\ recent = [c \in Clients |-> recent[c]]
  BY DEF MemoryAccounts, windowAge, windowUsed
<1>2. recent' = [c \in Clients |-> recent'[c]]
  BY <1>1 DEF Quota!Next, Quota!vars, Quota!Open, Quota!Spend, Quota!Tick
<1> SUFFICES ASSUME NEW c \in Clients
             PROVE  Accounted(windowAge'[c], windowUsed'[c], recent'[c], Window)
  BY <1>2 DEF MemoryAccounts
<1>3. Accounted(windowAge[c], windowUsed[c], recent[c], Window) /\ Window \in Nat
  BY LimiterAssumption DEF MemoryAccounts
<1>4. CASE UNCHANGED Quota!vars \/ \E d \in Clients : d # c /\ (Quota!Open(d) \/ Quota!Spend(d))
  <2>1. windowAge'[c] = windowAge[c] /\ windowUsed'[c] = windowUsed[c] /\ recent'[c] = recent[c]
    BY <1>4, <1>1 DEF Quota!vars, Quota!Open, Quota!Spend
  <2> QED
    BY <1>3, <2>1
<1>5. CASE Quota!Open(c)
  <2>1. windowAge'[c] = 0 /\ windowUsed'[c] = 1
    BY <1>5, <1>1 DEF Quota!Open
  <2>2. recent'[c] = [a \in 0 .. Window |-> recent[c][a] + 1]
    BY <1>5, <1>1 DEF Quota!Open, Quota!Remembered, Quota!Ages
  <2> QED
    BY <1>3, <1>5, <2>1, <2>2, AccountOpen DEF Quota!Open
<1>6. CASE Quota!Spend(c)
  <2>1. windowAge'[c] = windowAge[c] /\ windowUsed'[c] = windowUsed[c] + 1
    BY <1>6, <1>1 DEF Quota!Spend
  <2>2. recent'[c] = [a \in 0 .. Window |-> recent[c][a] + 1]
    BY <1>6, <1>1 DEF Quota!Spend, Quota!Remembered, Quota!Ages
  <2> QED
    BY <1>3, <1>6, <2>1, <2>2, AccountSpend DEF Quota!Spend
<1>7. CASE Quota!Tick
  <2>1. windowAge'[c] = IF windowAge[c] <= Window THEN windowAge[c] + 1 ELSE windowAge[c]
    BY <1>7 DEF Quota!Tick
  <2>2. windowUsed'[c] = IF windowAge'[c] <= Window THEN windowUsed[c] ELSE 0
    BY <1>7 DEF Quota!Tick
  <2>3. recent'[c] = [a \in 0 .. Window |-> IF a = 0 THEN 0 ELSE recent[c][a - 1]]
    BY <1>7 DEF Quota!Tick, Quota!Aged, Quota!Ages
  <2> QED
    BY <1>3, <2>1, <2>2, <2>3, AccountTick
<1> QED
  BY <1>4, <1>5, <1>6, <1>7 DEF Quota!Next

\* ... and in Redis.
LEMMA RedisAccountsStep ==
    ASSUME RedisAccounts, [Redis!Quota!Next]_Redis!Quota!vars
    PROVE  RedisAccounts'
<1>1. /\ DOMAIN Redis!windowAge = Sharers /\ DOMAIN Redis!windowUsed = Sharers
      /\ rRecent = [c \in Sharers |-> rRecent[c]]
  BY DEF RedisAccounts, Redis!windowAge, Redis!windowUsed
<1>2. rRecent' = [c \in Sharers |-> rRecent'[c]]
  BY <1>1 DEF Redis!Quota!Next, Redis!Quota!vars, Redis!Quota!Open, Redis!Quota!Spend,
              Redis!Quota!Tick
<1> SUFFICES ASSUME NEW c \in Sharers
             PROVE  Accounted(Redis!windowAge'[c], Redis!windowUsed'[c], rRecent'[c],
                              KeyLife - 1)
  BY <1>2 DEF RedisAccounts
<1>3. /\ Accounted(Redis!windowAge[c], Redis!windowUsed[c], rRecent[c], KeyLife - 1)
      /\ KeyLife - 1 \in Nat
  BY AdmissionAssumption DEF RedisAccounts
<1>4. CASE \/ UNCHANGED Redis!Quota!vars
           \/ \E d \in Sharers : d # c /\ (Redis!Quota!Open(d) \/ Redis!Quota!Spend(d))
  <2>1. /\ Redis!windowAge'[c] = Redis!windowAge[c]
        /\ Redis!windowUsed'[c] = Redis!windowUsed[c] /\ rRecent'[c] = rRecent[c]
    BY <1>4, <1>1 DEF Redis!Quota!vars, Redis!Quota!Open, Redis!Quota!Spend
  <2> QED
    BY <1>3, <2>1
<1>5. CASE Redis!Quota!Open(c)
  <2>1. Redis!windowAge'[c] = 0 /\ Redis!windowUsed'[c] = 1
    BY <1>5, <1>1 DEF Redis!Quota!Open
  <2>2. rRecent'[c] = [a \in 0 .. KeyLife - 1 |-> rRecent[c][a] + 1]
    BY <1>5, <1>1 DEF Redis!Quota!Open, Redis!Quota!Remembered, Redis!Quota!Ages
  <2> QED
    BY <1>3, <1>5, <2>1, <2>2, AccountOpen DEF Redis!Quota!Open
<1>6. CASE Redis!Quota!Spend(c)
  <2>1. /\ Redis!windowAge'[c] = Redis!windowAge[c]
        /\ Redis!windowUsed'[c] = Redis!windowUsed[c] + 1
    BY <1>6, <1>1 DEF Redis!Quota!Spend
  <2>2. rRecent'[c] = [a \in 0 .. KeyLife - 1 |-> rRecent[c][a] + 1]
    BY <1>6, <1>1 DEF Redis!Quota!Spend, Redis!Quota!Remembered, Redis!Quota!Ages
  <2> QED
    BY <1>3, <1>6, <2>1, <2>2, AccountSpend DEF Redis!Quota!Spend
<1>7. CASE Redis!Quota!Tick
  <2>1. Redis!windowAge'[c] = IF Redis!windowAge[c] <= KeyLife - 1
                              THEN Redis!windowAge[c] + 1 ELSE Redis!windowAge[c]
    BY <1>7 DEF Redis!Quota!Tick
  <2>2. Redis!windowUsed'[c] = IF Redis!windowAge'[c] <= KeyLife - 1
                               THEN Redis!windowUsed[c] ELSE 0
    BY <1>7 DEF Redis!Quota!Tick
  <2>3. rRecent'[c] = [a \in 0 .. KeyLife - 1 |-> IF a = 0 THEN 0 ELSE rRecent[c][a - 1]]
    BY <1>7 DEF Redis!Quota!Tick, Redis!Quota!Aged, Redis!Quota!Ages
  <2> QED
    BY <1>3, <2>1, <2>2, <2>3, AccountTick
<1> QED
  BY <1>4, <1>5, <1>6, <1>7 DEF Redis!Quota!Next

\* Nothing is spent before the first request.
LEMMA AccountsInit == Init /\ Redis!Init => MemoryAccounts /\ RedisAccounts
<1> SUFFICES ASSUME Init, Redis!Init
             PROVE  MemoryAccounts /\ RedisAccounts
  OBVIOUS
<1> USE LimiterAssumption, AdmissionAssumption DEF Accounted
<1>1. Quota!Init /\ Redis!Quota!Init
  BY MemoryInit, RedisInit
<1>2. MemoryAccounts
  BY <1>1 DEF Quota!Init, MemoryAccounts, Quota!NothingSpent, Quota!Ages
<1>3. RedisAccounts
  BY <1>1 DEF Redis!Quota!Init, RedisAccounts, Redis!Quota!NothingSpent, Redis!Quota!Ages
<1> QED
  BY <1>2, <1>3

\* Both limiters keep every client within two windows' permissions ...
LEMMA AllowanceKept ==
    ASSUME MemoryAccounts, RedisAccounts
    PROVE  WithinAllowance /\ Redis!WithinAllowance
<1>1. WithinAllowance
  BY AccountBounds, LimiterAssumption
     DEF MemoryAccounts, WithinAllowance, Quota!WithinAllowance, Quota!Spent
<1>2. Redis!WithinAllowance
  BY AccountBounds, AdmissionAssumption
     DEF RedisAccounts, Redis!WithinAllowance, Redis!Quota!WithinAllowance, Redis!Quota!Spent
<1> QED
  BY <1>1, <1>2

\* ... and the one in Redis refuses only clients that have spent one's.
LEMMA RedisRefusesWithCause ==
    ASSUME RedisOK, RedisAccounts
    PROVE  Redis!RefusesWithCause
<1> SUFFICES ASSUME NEW c \in Sharers, ~Redis!Allowed(Redis!Incremented(c).count)
             PROVE  rRecent[c][KeyLife - 1] >= Max
  BY DEF Redis!RefusesWithCause, Redis!Quota!Spent
<1> DEFINE g == Redis!windowAge[c]
           u == Redis!windowUsed[c]
<1>1. KeyLife \in Nat /\ KeyLife - 1 \in Nat /\ Max \in Nat \ {0}
  BY LimiterAssumption, AdmissionAssumption
<1>2. Accounted(g, u, rRecent[c], KeyLife - 1)
  BY DEF RedisAccounts
<1>3. /\ key[c].count \in 0 .. Max + 1 /\ key[c].age \in 0 .. KeyLife
      /\ key[c].count = 0 <=> key[c].age = KeyLife
  BY DEF RedisOK, Redis!Keys
<1>4. key[c].count >= Max
  BY <1>1, <1>3 DEF Redis!Allowed, Redis!Incremented, Redis!Count
<1>5. g <= KeyLife - 1 /\ u = Max
  <2>1. g = key[c].age
    BY DEF Redis!windowAge
  <2>2. u = IF key[c].count > Max THEN Max ELSE key[c].count
    BY DEF Redis!windowUsed
  <2> QED
    BY <1>1, <1>4, <1>3, <2>1, <2>2
<1> QED
  BY <1>1, <1>5, <1>2, AccountBounds

-----------------------------------------------------------------------------
(* The shard, its cleanup and Close.                                       *)

\* Inv, with what makes it inductive: the Close that has let the others go saw the
\* goroutine gone.
ShardOK ==
    /\ MemoryOK /\ lag <= MaxLag
    /\ loop \in {"off", "select", "scan", "done"} /\ stop \in BOOLEAN
    /\ once \in {"unused", "running", "done"}
    /\ closer \in [Closers -> {"idle", "first", "later", "returned"}]
    /\ ShardBounded
    /\ ClosedMeansStopped
    /\ once = "done" => loop \in {"off", "done"}

\* The clients that have an entry.
Kept(shard) == {c \in Clients : shard[c].count > 0}

\* No more entries than before are no more clients than before.
LEMMA SizeOfSubset ==
    ASSUME NEW s, NEW t, Kept(t) \subseteq Kept(s)
    PROVE  Size(t) \in Nat /\ Size(s) \in Nat /\ Size(t) <= Size(s)
<1>1. IsFiniteSet(Kept(s)) /\ IsFiniteSet(Kept(t))
  BY LimiterAssumption, FS_Subset DEF Kept
<1> QED
  BY <1>1, FS_Subset, FS_CardinalityType DEF Size, Kept

\* One client more is one more at most.
LEMMA SizeOfOneMore ==
    ASSUME NEW s, NEW t, NEW c, Kept(t) \subseteq Kept(s) \cup {c}
    PROVE  Size(t) \in Nat /\ Size(s) \in Nat /\ Size(t) <= Size(s) + 1
<1>1. IsFiniteSet(Kept(s)) /\ IsFiniteSet(Kept(t))
  BY LimiterAssumption, FS_Subset DEF Kept
<1>2. Cardinality(Kept(s)) \in Nat
  BY <1>1, FS_CardinalityType
<1>3. /\ IsFiniteSet(Kept(s) \cup {c})
      /\ Cardinality(Kept(s) \cup {c}) = IF c \in Kept(s) THEN Cardinality(Kept(s))
                                          ELSE Cardinality(Kept(s)) + 1
  BY <1>1, FS_AddElement
<1>4. /\ IsFiniteSet(Kept(s) \cup {c})
      /\ Cardinality(Kept(s) \cup {c}) <= Cardinality(Kept(s)) + 1
  BY <1>2, <1>3
<1>5. Cardinality(Kept(t)) <= Cardinality(Kept(s) \cup {c})
  BY <1>1, <1>4, FS_Subset
<1> QED
  BY <1>1, <1>4, <1>5, FS_CardinalityType DEF Size, Kept

\* A request for an entry finds the shard within its capacity and leaves it so.
LEMMA RequestKeepsBound ==
    ASSUME MemoryOK, ShardBounded, NEW c \in Clients, Request(c)
    PROVE  ShardBounded'
<1> USE DEF ShardBounded, MemoryOK, Entries
<1>1. Capacity \in Nat
  BY LimiterAssumption
<1>2. CASE CountRequest(c) \/ OverLimit(c) \/ RenewWindow(c)
  <2>1. Kept(entry') \subseteq Kept(entry)
    BY <1>2, LimiterAssumption DEF Kept, CountRequest, OverLimit, RenewWindow, IsSpent, Live,
                                   Expired, HasEntry, NewEntry
  <2>2. Size(entry') \in Nat /\ Size(entry) \in Nat /\ Size(entry') <= Size(entry)
    BY <2>1, SizeOfSubset
  <2> QED
    BY <1>1, <2>2
<1>3. CASE NewClient(c)
  <2>1. entry' = [Room EXCEPT ![c] = NewEntry] /\ Size(Room) < Capacity
    BY <1>3 DEF NewClient
  <2>2. Kept(entry') \subseteq Kept(Room) \cup {c}
    BY <2>1, RoomKeepsWindows DEF Kept, NewEntry
  <2>3. Size(entry') \in Nat /\ Size(Room) \in Nat /\ Size(entry') <= Size(Room) + 1
    BY <2>2, SizeOfOneMore
  <2> QED
    BY <1>1, <2>1, <2>3
<1>4. CASE ShardFull(c)
  <2>1. entry' = Room
    BY <1>4 DEF ShardFull
  <2>2. Kept(entry') \subseteq Kept(entry)
    BY <2>1, RoomKeepsWindows DEF Kept, NoEntry
  <2>3. Size(entry') \in Nat /\ Size(entry) \in Nat /\ Size(entry') <= Size(entry)
    BY <2>2, SizeOfSubset
  <2> QED
    BY <1>1, <2>3
<1> QED
  BY <1>2, <1>3, <1>4 DEF Request

\* The empty shard and a limiter that was not closed.
LEMMA ShardInit == Init => ShardOK
<1> SUFFICES ASSUME Init PROVE ShardOK
  OBVIOUS
<1>1. Kept(entry) = {}
  BY DEF Init, Kept, NoEntry
<1>2. Size(entry) = 0
  BY <1>1, FS_EmptySet DEF Size, Kept
<1>3. MemoryOK /\ ShardBounded
  BY <1>2, MemoryInit, LimiterAssumption DEF ShardBounded
<1>4. lag = 0 /\ loop \in {"select", "off"} /\ stop = FALSE /\ once = "unused"
      /\ closer = [x \in Closers |-> "idle"]
  BY DEF Init
<1>5. closer \in [Closers -> {"idle", "first", "later", "returned"}]
  BY <1>4
<1>6. ClosedMeansStopped
  BY <1>4 DEF ClosedMeansStopped
<1>7. stop \in BOOLEAN
  BY <1>4, Zenon
<1>8. lag <= MaxLag
  BY <1>4, LimiterAssumption
<1> QED
  BY <1>3, <1>4, <1>5, <1>6, <1>7, <1>8 DEF ShardOK

\* Every step of the limiter keeps it.
LEMMA ShardStep ==
    ASSUME ShardOK, [Next]_memoryVars
    PROVE  ShardOK'
<1>1. MemoryOK' /\ lag \in Nat /\ MaxLag \in Nat /\ Capacity \in Nat
  BY MemoryStep, LimiterAssumption DEF ShardOK, MemoryOK
<1>2. ASSUME entry' \in [Clients -> Entries], Kept(entry') \subseteq Kept(entry)
      PROVE  ShardBounded'
  <2>1. Size(entry') \in Nat /\ Size(entry) \in Nat /\ Size(entry') <= Size(entry)
    BY <1>2, SizeOfSubset
  <2> QED
    BY <1>1, <2>1 DEF ShardBounded, ShardOK
<1>3. ASSUME NEW c \in Clients, Request(c)
      PROVE  ShardOK'
  <2>1. ShardBounded'
    BY <1>3, RequestKeepsBound DEF ShardOK
  <2>2. UNCHANGED <<loop, lag, stop, once, closer>>
    BY <1>3 DEF Request, CountRequest, OverLimit, RenewWindow, NewClient, ShardFull,
                cleanup, closing
  <2> QED
    BY <1>1, <2>1, <2>2 DEF ShardOK, ClosedMeansStopped
<1>4. CASE BeginCleanup \/ StopSeen
  <2>1. ShardBounded'
    BY <1>1, <1>2, <1>4 DEF BeginCleanup, StopSeen, MemoryOK
  <2> QED
    BY <1>1, <1>4, <2>1 DEF ShardOK, ClosedMeansStopped, BeginCleanup, StopSeen, closing
<1>5. CASE CleanShard
  <2>1. Kept(entry') \subseteq Kept(entry)
    BY <1>5 DEF CleanShard, Swept, Kept, NoEntry
  <2>2. ShardBounded'
    BY <1>1, <1>2, <2>1 DEF MemoryOK
  <2> QED
    BY <1>1, <1>5, <2>2 DEF ShardOK, ClosedMeansStopped, CleanShard, closing
<1>6. ASSUME NEW x \in Closers, CloseBegins(x) \/ CloseSteps(x)
      PROVE  ShardOK'
  <2>1. UNCHANGED <<entry, recent, loop, lag>>
    BY <1>6 DEF CloseBegins, CloseSteps, CloseWaits, CloseFollows, cleanup
  <2>2. ShardBounded'
    BY <1>1, <1>2, <2>1 DEF MemoryOK
  <2>3. CASE CloseBegins(x)
    BY <1>1, <2>1, <2>2, <2>3 DEF ShardOK, ClosedMeansStopped, CloseBegins
  <2>4. CASE CloseWaits(x) \/ CloseFollows(x)
    BY <1>1, <2>1, <2>2, <2>4 DEF ShardOK, ClosedMeansStopped, CloseWaits, CloseFollows
  <2> QED
    BY <1>6, <2>3, <2>4 DEF CloseSteps
<1>7. CASE Tick
  <2>1. Kept(entry') \subseteq Kept(entry)
    BY <1>7 DEF Tick, Kept, HasEntry
  <2>2. ShardBounded'
    BY <1>1, <1>2, <2>1 DEF MemoryOK
  <2> QED
    BY <1>1, <1>7, <2>2 DEF ShardOK, ClosedMeansStopped, Tick, closing
<1>8. CASE UNCHANGED memoryVars
  <2>1. UNCHANGED <<entry, recent, loop, lag, stop, once, closer>>
    BY <1>8 DEF memoryVars, vars, cleanup, closing
  <2>2. ShardBounded'
    BY <1>1, <1>2, <2>1 DEF MemoryOK
  <2> QED
    BY <1>1, <2>1, <2>2 DEF ShardOK, ClosedMeansStopped
<1> QED
  BY <1>3, <1>4, <1>5, <1>6, <1>7, <1>8 DEF Next

\* The limiter in memory refuses a client that has spent a window's permissions,
\* and a new one when Capacity others have spent some.
LEMMA MemoryRefusesWithCause ==
    ASSUME ShardOK, MemoryAccounts
    PROVE  RefusesWithCause
<1>1. Window \in Nat /\ Max \in Nat \ {0} /\ Capacity \in Nat
  BY LimiterAssumption
<1>2. ASSUME NEW d \in Clients, Live(d)
      PROVE  recent[d][Window] >= windowUsed[d]
  <2>1. Accounted(windowAge[d], windowUsed[d], recent[d], Window)
    BY DEF MemoryAccounts
  <2>2. windowAge[d] <= Window
    BY <1>1, <1>2 DEF windowAge, Live, Expired, ShardOK, MemoryOK, Entries
  <2> QED
    BY <1>1, <2>1, <2>2, AccountBounds
<1>3. ASSUME NEW c \in Clients, IsSpent(c)
      PROVE  Quota!Spent(recent[c]) >= Max
  <2>1. Live(c) /\ windowUsed[c] = Max
    BY <1>1, <1>3 DEF IsSpent, windowUsed, ShardOK, MemoryOK, Entries
  <2> QED
    BY <1>2, <2>1 DEF Quota!Spent
<1>4. ASSUME NEW c \in Clients, FindsNoRoom(c)
      PROVE  Cardinality({d \in Clients \ {c} : Quota!Spent(recent[d]) > 0}) >= Capacity
  <2>1. Room = Evicted
    BY <1>4 DEF FindsNoRoom, Room
  <2>2. ASSUME NEW d \in Kept(Room)
        PROVE  d \in Clients \ {c} /\ Quota!Spent(recent[d]) > 0
    <3>1. d \in Clients /\ HasEntry(d) /\ ~Expired(d)
      BY <2>1, <2>2 DEF Kept, Evicted, NoEntry, HasEntry
    <3>2. windowUsed[d] > 0 /\ windowUsed[d] \in Nat
      BY <1>1, <3>1 DEF windowUsed, Live, HasEntry, ShardOK, MemoryOK, Entries
    <3>3. recent[d] \in [0 .. Window -> Nat]
      BY <3>1 DEF MemoryAccounts, Accounted
    <3> QED
      BY <1>1, <1>2, <1>4, <3>1, <3>2, <3>3 DEF Live, FindsNoRoom, Quota!Spent
  <2> DEFINE Others == {d \in Clients \ {c} : Quota!Spent(recent[d]) > 0}
  <2>3. IsFiniteSet(Others) /\ Kept(Room) \subseteq Others
    BY <2>2, LimiterAssumption, FS_Subset
  <2>4. Cardinality(Kept(Room)) <= Cardinality(Others) /\ Cardinality(Others) \in Nat
        /\ Cardinality(Kept(Room)) \in Nat
    BY <2>3, FS_Subset, FS_CardinalityType
  <2> QED
    BY <1>1, <1>4, <2>4 DEF FindsNoRoom, Size, Kept
<1> QED
  BY <1>3, <1>4 DEF RefusesWithCause

\* The faults of Redis are counted.
LEMMA RedisFaultsCounted ==
    ASSUME rFaults \in 0 .. MaxFaults, [Redis!Next]_redisVars
    PROVE  rFaults' \in 0 .. MaxFaults
<1>1. CASE UNCHANGED rFaults
  BY <1>1
<1>2. CASE Redis!Fault
  BY <1>2, AdmissionAssumption DEF Redis!Fault
<1> QED
  BY <1>1, <1>2 DEF redisVars, Redis!Next, Redis!Ask, Redis!Execute, Redis!Answer,
                    Redis!Resend, Redis!Unavailable, Redis!Tick

\* The invariants of both limiters are in what was shown of them.
LEMMA LimitersTyped ==
    ASSUME ShardOK, MemoryAccounts, RedisOK, RedisAccounts, rFaults \in 0 .. MaxFaults
    PROVE  Inv /\ Redis!TypeOK
<1>1. recent \in [Clients -> [Quota!Ages -> Nat]]
  BY DEF MemoryAccounts, Accounted, Quota!Ages
<1>2. rRecent \in [Sharers -> [Redis!Quota!Ages -> Nat]]
  BY DEF RedisAccounts, Accounted, Redis!Quota!Ages
<1>3. lag \in 0 .. MaxLag
  BY LimiterAssumption DEF ShardOK, MemoryOK
<1> QED
  BY <1>1, <1>2, <1>3 DEF Inv, TypeOK, ShardOK, MemoryOK, Redis!TypeOK, RedisOK

-----------------------------------------------------------------------------
(* gRPC calls.                                                             *)

\* The records of calls and tasks, as GRPC!TypeOK has them.
CallRecords == [at : {"idle", "open", "waiting", "ended"}, left : GRPC!TimesLeft,
                cancelled : BOOLEAN, quit : BOOLEAN, attempt : 0 .. MaxAttempts,
                reply : GRPC!Statuses \cup {"none"},
                result : {"none", "answered", "busy", "deadline", "canceled"},
                age : 0 .. LongestDeadline]
TaskRecords == [at : {"none", "sent", "running", "returned", "refused"},
                left : GRPC!TimesLeft, cancelled : BOOLEAN]

\* What has not begun, or is over, is such a record.
LEMMA FreshRecords ==
    /\ GRPC!NewCall \in CallRecords /\ GRPC!NoTask \in TaskRecords
    /\ \A how \in {"returned", "refused"} : GRPC!Over(how) \in TaskRecords
<1>1. GRPC!NoDeadline \in GRPC!TimesLeft /\ 0 \in 0 .. MaxAttempts /\ 0 \in 0 .. LongestDeadline
  BY AdmissionAssumption DEF GRPC!TimesLeft, GRPC!NoDeadline
<1>2. GRPC!NewCall \in CallRecords
  BY <1>1 DEF GRPC!NewCall, CallRecords
<1>3. GRPC!NoTask \in TaskRecords
  BY <1>1 DEF GRPC!NoTask, TaskRecords
<1>4. ASSUME NEW how \in {"returned", "refused"}
      PROVE  GRPC!Over(how) \in TaskRecords
  BY <1>1 DEF GRPC!Over, GRPC!NoTask, TaskRecords
<1> QED
  BY <1>2, <1>3, <1>4

\* So is a call that has ended.
LEMMA EndedRecords ==
    ASSUME NEW c \in Calls, NEW result \in {"answered", "busy", "deadline", "canceled"},
           call[c].quit \in BOOLEAN
    PROVE  GRPC!Done(c, result) \in CallRecords
<1>1. GRPC!NoDeadline \in GRPC!TimesLeft /\ 0 \in 0 .. MaxAttempts /\ 0 \in 0 .. LongestDeadline
  BY AdmissionAssumption DEF GRPC!TimesLeft, GRPC!NoDeadline
<1>2. (call[c].quit /\ result = "canceled") \in BOOLEAN
  OBVIOUS
<1> QED
  BY <1>1, <1>2 DEF GRPC!Done, GRPC!NewCall, CallRecords

\* The types but for the tokens.
GRPCTypes ==
    /\ policy \in GRPC!AllPolicies
    /\ profile \in [Calls -> GRPC!AllProfiles]
    /\ call \in [Calls -> CallRecords]
    /\ task \in [Calls \X GRPC!Attempts -> TaskRecords]
    /\ gFaults \in 0 .. MaxFaults

\* A deadline that is set, or counted down, is one.
LEMMA DeadlinesAreTimes ==
    ASSUME GRPCTypes
    PROVE  /\ \A d \in GRPC!TimesLeft : GRPC!Countdown(d) \in GRPC!TimesLeft
           /\ \A d \in GRPC!TimesLeft : GRPC!HandlerDeadline(d) \in GRPC!TimesLeft
           /\ \A c \in Calls : GRPC!CallDeadline(c) \in GRPC!TimesLeft
<1>1. LongestDeadline \in Nat
  BY AdmissionAssumption
<1>2. policy.client \in 0 .. LongestDeadline /\ policy.server \in 0 .. LongestDeadline
  BY DEF GRPCTypes, GRPC!AllPolicies
<1>3. \A c \in Calls : profile[c].given \in GRPC!TimesLeft
  BY DEF GRPCTypes, GRPC!AllProfiles
<1> QED
  BY <1>1, <1>2, <1>3 DEF GRPC!TimesLeft, GRPC!NoDeadline, GRPC!Countdown,
                          GRPC!HandlerDeadline, GRPC!CallDeadline

\* A step changes the call c and its tasks; the rest is as it was.
Changed(c, k) == k \in CallRecords /\ call' = [call EXCEPT ![c] = k]
ChangedTask(c, n, t) == t \in TaskRecords /\ task' = [task EXCEPT ![<<c, n>>] = t]

\* Such a step keeps the types.
LEMMA TypedChange ==
    ASSUME GRPCTypes, NEW c \in Calls, UNCHANGED <<policy, profile>>,
           gFaults' \in 0 .. MaxFaults,
           UNCHANGED call \/ \E k : Changed(c, k),
           UNCHANGED task \/ \E n \in GRPC!Attempts : \E t : ChangedTask(c, n, t)
    PROVE  GRPCTypes'
BY DEF GRPCTypes, Changed, ChangedTask, GRPC!Attempts

\* An attempt is sent with the call's deadline.
LEMMA InvokeTypes ==
    ASSUME GRPCTypes, NEW c \in Calls, GRPC!Invoke(c)
    PROVE  GRPCTypes'
<1>1. GRPC!CallDeadline(c) \in GRPC!TimesLeft /\ 1 \in GRPC!Attempts /\ 1 \in 0 .. MaxAttempts
  BY DeadlinesAreTimes, AdmissionAssumption DEF GRPC!Attempts
<1> DEFINE k == [call[c] EXCEPT !.at = IF profile[c].shape = "stream" THEN "open" ELSE "waiting",
                                !.left = GRPC!CallDeadline(c), !.attempt = 1]
           t == [at |-> "sent", left |-> GRPC!CallDeadline(c), cancelled |-> FALSE]
<1>2. k \in CallRecords
  BY <1>1 DEF GRPCTypes, CallRecords
<1>3. t \in TaskRecords
  BY <1>1 DEF TaskRecords
<1>4. Changed(c, k)
  BY <1>2 DEF Changed, GRPC!Invoke, GRPCTypes
<1>5. ChangedTask(c, 1, t)
  BY <1>3 DEF ChangedTask, GRPC!Invoke, GRPC!Sent
<1> QED
  BY <1>1, <1>4, <1>5, TypedChange DEF GRPC!Invoke, GRPCTypes

\* The caller's steps.
LEMMA CallerTypes ==
    ASSUME GRPCTypes, NEW c \in Calls,
           GRPC!CloseSend(c) \/ GRPC!Quit(c) \/ GRPC!ContextEnds(c) \/ GRPC!Receive(c)
    PROVE  GRPCTypes'
<1>1. UNCHANGED <<policy, profile, task, gFaults>>
  BY DEF GRPC!CloseSend, GRPC!Quit, GRPC!ContextEnds, GRPC!Receive
<1>2. CASE GRPC!CloseSend(c)
  <2> DEFINE k == [call[c] EXCEPT !.at = "waiting", !.cancelled = @ \/ GRPC!Wrapped(c)]
  <2>1. k \in CallRecords
    BY DEF GRPCTypes, CallRecords, GRPC!Wrapped
  <2>2. Changed(c, k)
    BY <1>2, <2>1 DEF Changed, GRPC!CloseSend, GRPCTypes
  <2> QED
    BY <1>1, <2>2, TypedChange DEF GRPCTypes
<1>3. CASE GRPC!Quit(c)
  <2> DEFINE k == [call[c] EXCEPT !.cancelled = TRUE, !.quit = TRUE]
  <2>1. k \in CallRecords
    BY DEF GRPCTypes, CallRecords
  <2>2. Changed(c, k)
    BY <1>3, <2>1 DEF Changed, GRPC!Quit, GRPCTypes
  <2> QED
    BY <1>1, <2>2, TypedChange DEF GRPCTypes
<1>4. CASE GRPC!ContextEnds(c) \/ GRPC!Receive(c)
  <2>1. PICK result \in {"answered", "busy", "deadline", "canceled"} :
            call' = [call EXCEPT ![c] = GRPC!Done(c, result)]
    BY <1>4 DEF GRPC!ContextEnds, GRPC!Receive, GRPC!Outcome
  <2>2. call[c].quit \in BOOLEAN
    BY DEF GRPCTypes, CallRecords
  <2>3. Changed(c, GRPC!Done(c, result))
    BY <2>1, <2>2, EndedRecords DEF Changed
  <2> QED
    BY <1>1, <2>3, TypedChange DEF GRPCTypes
<1> QED
  BY <1>2, <1>3, <1>4

\* The next attempt.
LEMMA RetryTypes ==
    ASSUME GRPCTypes, NEW c \in Calls, GRPC!Retry(c)
    PROVE  GRPCTypes'
<1>1. /\ call[c] \in CallRecords /\ call[c].attempt \in 0 .. MaxAttempts
      /\ call[c].left \in GRPC!TimesLeft
  BY DEF GRPCTypes, CallRecords
<1>2. call[c].attempt + 1 \in GRPC!Attempts /\ call[c].attempt + 1 \in 0 .. MaxAttempts
  BY <1>1, AdmissionAssumption DEF GRPC!Retry, GRPC!Retries, GRPC!Attempts
<1> DEFINE k == [call[c] EXCEPT !.attempt = @ + 1, !.reply = "none"]
           t == [at |-> "sent", left |-> call[c].left, cancelled |-> FALSE]
<1>3. k \in CallRecords
  BY <1>1, <1>2 DEF CallRecords
<1>4. t \in TaskRecords
  BY <1>1 DEF TaskRecords
<1>5. Changed(c, k)
  BY <1>3 DEF Changed, GRPC!Retry, GRPCTypes
<1>6. ChangedTask(c, call[c].attempt + 1, t)
  BY <1>4 DEF ChangedTask, GRPC!Retry, GRPC!Sent
<1> QED
  BY <1>2, <1>5, <1>6, TypedChange DEF GRPC!Retry, GRPCTypes

\* A reply changes at most that of its call.
LEMMA ReplyTypes ==
    ASSUME GRPCTypes, NEW c \in Calls, NEW n, NEW status \in GRPC!Statuses,
           GRPC!Reply(c, n, status)
    PROVE  UNCHANGED call \/ \E k : Changed(c, k)
<1> DEFINE k == [call[c] EXCEPT !.reply = status]
<1>1. k \in CallRecords
  BY DEF GRPCTypes, CallRecords
<1>2. CASE call' = [call EXCEPT ![c].reply = status]
  BY <1>1, <1>2 DEF Changed, GRPCTypes
<1>3. CASE UNCHANGED call
  BY <1>3
<1> QED
  BY <1>2, <1>3 DEF GRPC!Reply

\* The server's steps, a broken connection and a reset.
LEMMA ServerTypes ==
    ASSUME GRPCTypes, NEW c \in Calls, NEW n \in GRPC!Attempts,
           \/ GRPC!Arrive(c, n) \/ GRPC!Refuse(c, n) \/ GRPC!Drop(c, n)
           \/ GRPC!HandlerReturns(c, n) \/ GRPC!HandlerPanics(c, n) \/ GRPC!Reset(c, n)
    PROVE  GRPCTypes'
<1>1. UNCHANGED <<policy, profile, gFaults>>
  BY DEF GRPC!Arrive, GRPC!Refuse, GRPC!Drop, GRPC!HandlerReturns, GRPC!HandlerPanics,
         GRPC!Leave, GRPC!Reset
<1>2. task[<<c, n>>] \in TaskRecords /\ task[<<c, n>>].left \in GRPC!TimesLeft
  BY DEF GRPCTypes, TaskRecords
<1>3. CASE GRPC!Arrive(c, n)
  <2> DEFINE t == [task[<<c, n>>] EXCEPT !.at = "running", !.left = GRPC!HandlerDeadline(@)]
  <2>1. GRPC!HandlerDeadline(task[<<c, n>>].left) \in GRPC!TimesLeft
    BY <1>2, DeadlinesAreTimes
  <2>2. t \in TaskRecords
    BY <1>2, <2>1 DEF TaskRecords
  <2>3. ChangedTask(c, n, t)
    BY <1>3, <2>2 DEF ChangedTask, GRPC!Arrive, GRPCTypes
  <2>4. UNCHANGED call
    BY <1>3 DEF GRPC!Arrive
  <2> QED
    BY <1>1, <2>3, <2>4, TypedChange DEF GRPCTypes
<1>4. CASE GRPC!Reset(c, n)
  <2> DEFINE t == [task[<<c, n>>] EXCEPT !.cancelled = TRUE]
  <2>1. t \in TaskRecords
    BY <1>2 DEF TaskRecords
  <2>2. ChangedTask(c, n, t) /\ UNCHANGED call
    BY <1>4, <2>1 DEF ChangedTask, GRPC!Reset, GRPCTypes
  <2> QED
    BY <1>1, <2>2, TypedChange DEF GRPCTypes
<1>5. ASSUME NEW how \in {"returned", "refused"},
             task' = [task EXCEPT ![<<c, n>>] = GRPC!Over(how)],
             UNCHANGED call \/ \E status \in GRPC!Statuses : GRPC!Reply(c, n, status)
      PROVE  GRPCTypes'
  <2>1. ChangedTask(c, n, GRPC!Over(how))
    BY <1>5, FreshRecords DEF ChangedTask
  <2>2. UNCHANGED call \/ \E k : Changed(c, k)
    BY <1>5, ReplyTypes
  <2> QED
    BY <1>1, <2>1, <2>2, TypedChange DEF GRPCTypes
<1>6. CASE GRPC!Refuse(c, n) \/ GRPC!Drop(c, n)
  BY <1>5, <1>6 DEF GRPC!Refuse, GRPC!Drop, GRPC!Statuses
<1>7. CASE GRPC!HandlerReturns(c, n) \/ GRPC!HandlerPanics(c, n)
  BY <1>5, <1>7 DEF GRPC!HandlerReturns, GRPC!HandlerPanics, GRPC!Leave, GRPC!Statuses
<1> QED
  BY <1>3, <1>4, <1>6, <1>7

\* How far a call has come, its attempts are at the server no further; a call that
\* has not begun has nothing there.
Attempted(c) ==
    /\ call[c].at = "idle" =>
         /\ call[c].age = 0 /\ call[c].reply = "none"
         /\ \A n \in GRPC!Attempts : task[<<c, n>>].at = "none"
    /\ call[c].at # "ended" => call[c].result = "none"
    /\ GRPC!Active(c) =>
         /\ call[c].attempt \in GRPC!Attempts
         /\ \A n \in GRPC!Attempts : n > call[c].attempt => task[<<c, n>>].at = "none"

\* Who says that the server was busy was refused by it, and a method that is not
\* listed was tried once.
Answered(c) ==
    /\ GRPC!Active(c) /\ call[c].reply = "busy" => task[<<c, call[c].attempt>>].at = "refused"
    /\ ~profile[c].listed =>
         /\ GRPC!Active(c) => call[c].attempt = 1
         /\ \A n \in GRPC!Attempts : n # 1 => task[<<c, n>>].at = "none"
         /\ call[c].result = "busy" => task[<<c, 1>>].at = "refused"

\* What is left of a caller's deadline and what has passed of it are all of it; an
\* attempt has no less than its call, and no more than the whole.
OnTime(c) ==
    profile[c].given # GRPC!NoDeadline =>
        /\ GRPC!Active(c) => /\ call[c].left \in 0 .. profile[c].given
                             /\ call[c].left + call[c].age = profile[c].given
        /\ \A n \in GRPC!Attempts : task[<<c, n>>].at \in {"sent", "running"} =>
             /\ task[<<c, n>>].left \in 0 .. profile[c].given
             /\ call[c].at # "ended" => call[c].age + task[<<c, n>>].left >= profile[c].given

CallInv(c) == Attempted(c) /\ Answered(c) /\ OnTime(c)

\* Every token belongs to a handler under way.
Tokens == sem = Cardinality(GRPC!Handling) /\ sem <= Limit

GRPCInd == GRPCTypes /\ Tokens /\ \A c \in Calls : CallInv(c)

\* A step of one call ...
CallStep(c) ==
    \/ GRPC!Invoke(c) \/ GRPC!CloseSend(c) \/ GRPC!Quit(c) \/ GRPC!ContextEnds(c)
    \/ GRPC!Receive(c) \/ GRPC!Retry(c) \/ GRPC!Break(c)
    \/ \E n \in GRPC!Attempts :
          \/ GRPC!Arrive(c, n) \/ GRPC!Refuse(c, n) \/ GRPC!Drop(c, n)
          \/ GRPC!HandlerReturns(c, n) \/ GRPC!HandlerPanics(c, n) \/ GRPC!Reset(c, n)

\* ... is none of another.
LEMMA Elsewhere ==
    ASSUME GRPCTypes, NEW c \in Calls, NEW d \in Calls \ {c}, CallInv(d), CallStep(c)
    PROVE  CallInv(d)'
<1>1. UNCHANGED <<policy, profile>>
  BY DEF CallStep, GRPC!Invoke, GRPC!CloseSend, GRPC!Quit, GRPC!ContextEnds, GRPC!Receive,
         GRPC!Retry, GRPC!Break, GRPC!Arrive, GRPC!Refuse, GRPC!Drop, GRPC!HandlerReturns,
         GRPC!HandlerPanics, GRPC!Leave, GRPC!Reset
<1> DEFINE Apart == /\ call'[d] = call[d]
                    /\ \A n \in GRPC!Attempts : task'[<<d, n>>] = task[<<d, n>>]
<1>2. Apart
  <2>1. CASE GRPC!Invoke(c) \/ GRPC!Retry(c)
    BY <2>1 DEF GRPC!Invoke, GRPC!Retry, GRPC!Sent, GRPCTypes
  <2>2. CASE GRPC!CloseSend(c) \/ GRPC!Quit(c) \/ GRPC!ContextEnds(c) \/ GRPC!Receive(c)
    BY <2>2 DEF GRPC!CloseSend, GRPC!Quit, GRPC!ContextEnds, GRPC!Receive, GRPCTypes
  <2>3. CASE GRPC!Break(c)
    BY <2>3 DEF GRPC!Break, GRPCTypes
  <2>4. ASSUME NEW n \in GRPC!Attempts,
               GRPC!Arrive(c, n) \/ GRPC!Drop(c, n) \/ GRPC!Reset(c, n)
        PROVE  Apart
    BY <2>4 DEF GRPC!Arrive, GRPC!Drop, GRPC!Reset, GRPCTypes
  <2>5. ASSUME NEW n \in GRPC!Attempts,
               GRPC!Refuse(c, n) \/ GRPC!HandlerReturns(c, n) \/ GRPC!HandlerPanics(c, n)
        PROVE  Apart
    BY <2>5 DEF GRPC!Refuse, GRPC!HandlerReturns, GRPC!HandlerPanics, GRPC!Leave,
                GRPC!Reply, GRPCTypes
  <2> QED
    BY <2>1, <2>2, <2>3, <2>4, <2>5 DEF CallStep
<1>3. call'[d] = call[d]
  BY <1>2
<1>4. \A n \in GRPC!Attempts : task'[<<d, n>>] = task[<<d, n>>]
  BY <1>2
<1>5. call[d].attempt \in GRPC!Attempts =>
        task'[<<d, call[d].attempt>>] = task[<<d, call[d].attempt>>]
  BY <1>4
<1>6. 1 \in GRPC!Attempts
  BY AdmissionAssumption DEF GRPC!Attempts
<1>7. Attempted(d)'
  BY <1>3, <1>4 DEF CallInv, Attempted, GRPC!Active
<1>8. Answered(d)'
  BY <1>3, <1>4, <1>5, <1>6, <1>1 DEF CallInv, Answered, Attempted, GRPC!Active
<1>9. OnTime(d)'
  BY <1>3, <1>4, <1>1 DEF CallInv, OnTime, GRPC!Active
<1> QED
  BY <1>7, <1>8, <1>9 DEF CallInv

\* The times of a caller's deadline are numbers.
LEMMA GivenIsTime ==
    ASSUME GRPCTypes, NEW c \in Calls, profile[c].given # GRPC!NoDeadline
    PROVE  profile[c].given \in 1 .. LongestDeadline /\ profile[c].given \in Nat
<1>1. profile[c].given \in GRPC!TimesLeft \ {0}
  BY DEF GRPCTypes, GRPC!AllProfiles
<1> QED
  BY <1>1, AdmissionAssumption DEF GRPC!TimesLeft, GRPC!NoDeadline

\* The first attempt has the whole deadline.
LEMMA InvokeKeeps ==
    ASSUME GRPCTypes, NEW c \in Calls, CallInv(c), GRPC!Invoke(c)
    PROVE  CallInv(c)'
<1>1. /\ call[c].at = "idle" /\ call[c].age = 0 /\ call[c].reply = "none"
      /\ call[c].result = "none"
      /\ \A n \in GRPC!Attempts : task[<<c, n>>].at = "none"
  BY DEF CallInv, Attempted, GRPC!Invoke
<1>2. /\ call'[c].at \in {"open", "waiting"} /\ call'[c].left = GRPC!CallDeadline(c)
      /\ call'[c].attempt = 1 /\ call'[c].age = 0 /\ call'[c].reply = "none"
      /\ call'[c].result = "none"
  BY <1>1 DEF GRPC!Invoke, GRPCTypes, CallRecords
<1>3. 1 \in GRPC!Attempts
  BY AdmissionAssumption DEF GRPC!Attempts
<1>4. /\ task'[<<c, 1>>].at = "sent" /\ task'[<<c, 1>>].left = GRPC!CallDeadline(c)
      /\ \A n \in GRPC!Attempts : n # 1 => task'[<<c, n>>] = task[<<c, n>>]
  BY <1>3 DEF GRPC!Invoke, GRPC!Sent, GRPCTypes
<1>5. UNCHANGED profile
  BY DEF GRPC!Invoke
<1>6. Attempted(c)'
  BY <1>1, <1>2, <1>3, <1>4 DEF Attempted, GRPC!Active
<1>7. Answered(c)'
  BY <1>1, <1>2, <1>3, <1>4, <1>5 DEF Answered, GRPC!Active
<1>8. OnTime(c)'
  <2>1. CASE profile[c].given = GRPC!NoDeadline
    BY <1>5, <2>1 DEF OnTime
  <2>2. CASE profile[c].given # GRPC!NoDeadline
    <3>1. GRPC!CallDeadline(c) = profile[c].given
      BY <2>2 DEF GRPC!CallDeadline, GRPC!Wrapped
    <3>2. profile[c].given \in Nat
      BY <2>2, GivenIsTime
    <3> QED
      BY <1>1, <1>2, <1>4, <1>5, <3>1, <3>2 DEF OnTime, GRPC!Active
  <2> QED
    BY <2>1, <2>2
<1> QED
  BY <1>6, <1>7, <1>8 DEF CallInv

\* The caller closes its side or gives up.
LEMMA CallerKeeps ==
    ASSUME GRPCTypes, NEW c \in Calls, CallInv(c), GRPC!CloseSend(c) \/ GRPC!Quit(c)
    PROVE  CallInv(c)'
<1>1. UNCHANGED <<profile, task>>
  BY DEF GRPC!CloseSend, GRPC!Quit
<1>2. /\ call[c].at \in {"open", "waiting"} /\ call'[c].at \in {"open", "waiting"}
      /\ call'[c].left = call[c].left /\ call'[c].attempt = call[c].attempt
      /\ call'[c].age = call[c].age /\ call'[c].reply = call[c].reply
      /\ call'[c].result = call[c].result
  BY DEF GRPC!CloseSend, GRPC!Quit, GRPCTypes, CallRecords
<1>3. Attempted(c)'
  BY <1>1, <1>2 DEF CallInv, Attempted, GRPC!Active
<1>4. Answered(c)'
  BY <1>1, <1>2 DEF CallInv, Answered, GRPC!Active
<1>5. OnTime(c)'
  BY <1>1, <1>2 DEF CallInv, OnTime, GRPC!Active
<1> QED
  BY <1>3, <1>4, <1>5 DEF CallInv

\* The call ends.
LEMMA EndKeeps ==
    ASSUME GRPCTypes, NEW c \in Calls, CallInv(c), GRPC!ContextEnds(c) \/ GRPC!Receive(c)
    PROVE  CallInv(c)'
<1>1. UNCHANGED <<profile, task>>
  BY DEF GRPC!ContextEnds, GRPC!Receive
<1>2. /\ call[c].at \in {"open", "waiting"} /\ call'[c].at = "ended"
      /\ call'[c].result = "busy" => call[c].reply = "busy"
  <2>1. PICK result \in {"answered", "busy", "deadline", "canceled"} :
            /\ call' = [call EXCEPT ![c] = GRPC!Done(c, result)]
            /\ result = "busy" => call[c].reply = "busy"
    BY DEF GRPC!ContextEnds, GRPC!Receive, GRPC!Outcome
  <2>2. call'[c] = GRPC!Done(c, result)
    BY <2>1 DEF GRPCTypes
  <2>3. GRPC!Done(c, result).at = "ended" /\ GRPC!Done(c, result).result = result
    BY DEF GRPC!Done, GRPC!NewCall
  <2>4. call[c].at \in {"open", "waiting"}
    BY DEF GRPC!ContextEnds, GRPC!Receive
  <2> QED
    BY <2>1, <2>2, <2>3, <2>4
<1>3. Attempted(c)'
  BY <1>2 DEF Attempted, GRPC!Active
<1>4. Answered(c)'
  BY <1>1, <1>2 DEF CallInv, Answered, GRPC!Active
<1>5. OnTime(c)'
  BY <1>1, <1>2 DEF CallInv, OnTime, GRPC!Active
<1> QED
  BY <1>3, <1>4, <1>5 DEF CallInv

\* The next attempt has what is left.
LEMMA RetryKeeps ==
    ASSUME GRPCTypes, NEW c \in Calls, CallInv(c), GRPC!Retry(c)
    PROVE  CallInv(c)'
<1> DEFINE m == call[c].attempt + 1
<1>1. /\ call[c].at \in {"open", "waiting"} /\ call[c].attempt \in GRPC!Attempts
      /\ profile[c].listed /\ UNCHANGED profile
      /\ call[c].attempt < MaxAttempts
  BY DEF CallInv, Attempted, GRPC!Active, GRPC!Retry, GRPC!Retries
<1>2. /\ m \in GRPC!Attempts /\ m > call[c].attempt
      /\ \A n \in GRPC!Attempts : n > m => n > call[c].attempt
  BY <1>1, AdmissionAssumption DEF GRPC!Attempts
<1>3. /\ call'[c].at = call[c].at /\ call'[c].left = call[c].left /\ call'[c].attempt = m
      /\ call'[c].age = call[c].age /\ call'[c].reply = "none"
      /\ call'[c].result = call[c].result
  BY DEF GRPC!Retry, GRPCTypes, CallRecords
<1>4. /\ task'[<<c, m>>].at = "sent" /\ task'[<<c, m>>].left = call[c].left
      /\ \A n \in GRPC!Attempts : n # m => task'[<<c, n>>] = task[<<c, n>>]
  BY <1>2 DEF GRPC!Retry, GRPC!Sent, GRPCTypes
<1>5. Attempted(c)'
  <2>1. ASSUME NEW n \in GRPC!Attempts, n > m
        PROVE  task'[<<c, n>>].at = "none"
    <3>1. n # m /\ n > call[c].attempt
      BY <1>2, <2>1 DEF GRPC!Attempts
    <3> QED
      BY <1>1, <1>4, <3>1 DEF CallInv, Attempted, GRPC!Active
  <2>2. call'[c].result = "none"
    BY <1>1, <1>3 DEF CallInv, Attempted
  <2> QED
    BY <1>1, <1>2, <1>3, <2>1, <2>2 DEF Attempted, GRPC!Active
<1>6. Answered(c)'
  BY <1>1, <1>3 DEF Answered
<1>7. OnTime(c)'
  <2>1. CASE profile[c].given = GRPC!NoDeadline
    BY <1>1, <2>1 DEF OnTime
  <2>2. CASE profile[c].given # GRPC!NoDeadline
    <3>1. profile[c].given \in Nat /\ call[c].age \in Nat
      BY <2>2, GivenIsTime DEF GRPCTypes, CallRecords
    <3>2. /\ call[c].left \in 0 .. profile[c].given
          /\ call[c].left + call[c].age = profile[c].given
      BY <1>1, <2>2 DEF CallInv, OnTime, GRPC!Active
    <3>3. ASSUME NEW n \in GRPC!Attempts, task'[<<c, n>>].at \in {"sent", "running"}
          PROVE  /\ task'[<<c, n>>].left \in 0 .. profile[c].given
                 /\ call[c].age + task'[<<c, n>>].left >= profile[c].given
      <4>1. CASE n = m
        BY <1>4, <3>1, <3>2, <4>1
      <4>2. CASE n # m
        BY <1>1, <1>4, <2>2, <3>3, <4>2 DEF CallInv, OnTime
      <4> QED
        BY <4>1, <4>2
    <3> QED
      BY <1>1, <1>3, <3>2, <3>3 DEF OnTime, GRPC!Active
  <2> QED
    BY <2>1, <2>2
<1> QED
  BY <1>5, <1>6, <1>7 DEF CallInv

\* What the server's steps do to the call and to the attempt.
LEMMA ServerEffect ==
    ASSUME GRPCTypes, NEW c \in Calls, NEW m \in GRPC!Attempts,
           \/ GRPC!Arrive(c, m) \/ GRPC!Refuse(c, m) \/ GRPC!Drop(c, m)
           \/ GRPC!HandlerReturns(c, m) \/ GRPC!HandlerPanics(c, m) \/ GRPC!Reset(c, m)
    PROVE  /\ UNCHANGED <<policy, profile, gFaults>>
           /\ task[<<c, m>>].at \in {"sent", "running"}
           /\ \E t : /\ task' = [task EXCEPT ![<<c, m>>] = t]
                    /\ \/ t.at \in {"returned", "refused"}
                       \/ /\ t.at \in {"sent", "running"}
                          /\ \/ t.left = task[<<c, m>>].left
                             \/ t.left = GRPC!HandlerDeadline(task[<<c, m>>].left)
                    /\ \/ UNCHANGED call
                       \/ /\ GRPC!Active(c) /\ call[c].attempt = m
                          /\ \E status \in GRPC!Statuses :
                                /\ call' = [call EXCEPT ![c].reply = status]
                                /\ status = "busy" => t.at = "refused"
<1>1. task[<<c, m>>] \in TaskRecords /\ DOMAIN task = Calls \X GRPC!Attempts
  BY DEF GRPCTypes
<1>2. CASE GRPC!Arrive(c, m)
  <2> DEFINE t == [task[<<c, m>>] EXCEPT !.at = "running", !.left = GRPC!HandlerDeadline(@)]
  <2>1. task' = [task EXCEPT ![<<c, m>>] = t]
    BY <1>1, <1>2 DEF GRPC!Arrive
  <2>2. t.at = "running" /\ t.left = GRPC!HandlerDeadline(task[<<c, m>>].left)
    BY <1>1 DEF TaskRecords
  <2>3. /\ UNCHANGED <<policy, profile, gFaults, call>>
        /\ task[<<c, m>>].at \in {"sent", "running"}
    BY <1>2 DEF GRPC!Arrive
  <2> QED
    BY <2>1, <2>2, <2>3
<1>3. CASE GRPC!Reset(c, m)
  <2> DEFINE t == [task[<<c, m>>] EXCEPT !.cancelled = TRUE]
  <2>1. task' = [task EXCEPT ![<<c, m>>] = t]
    BY <1>1, <1>3 DEF GRPC!Reset
  <2>2. t.at = task[<<c, m>>].at /\ t.left = task[<<c, m>>].left
    BY <1>1 DEF TaskRecords
  <2>3. /\ UNCHANGED <<policy, profile, gFaults, call>>
        /\ task[<<c, m>>].at \in {"sent", "running"}
    BY <1>3 DEF GRPC!Reset
  <2> QED
    BY <2>1, <2>2, <2>3
<1>4. \A how : GRPC!Over(how).at = how
  BY DEF GRPC!Over, GRPC!NoTask
<1>5. CASE GRPC!Drop(c, m)
  BY <1>4, <1>5 DEF GRPC!Drop
<1>6. CASE GRPC!Refuse(c, m)
  <2>1. GRPC!Reply(c, m, "busy") /\ "busy" \in GRPC!Statuses
    BY <1>6 DEF GRPC!Refuse, GRPC!Statuses
  <2> QED
    BY <1>4, <1>6, <2>1 DEF GRPC!Refuse, GRPC!Reply, GRPC!Active
<1>7. CASE GRPC!HandlerReturns(c, m) \/ GRPC!HandlerPanics(c, m)
  <2>1. PICK status \in GRPC!Statuses \ {"busy"} : GRPC!Reply(c, m, status)
    BY <1>7 DEF GRPC!HandlerReturns, GRPC!HandlerPanics, GRPC!Statuses
  <2>2. /\ UNCHANGED <<policy, profile, gFaults>> /\ task[<<c, m>>].at \in {"sent", "running"}
        /\ task' = [task EXCEPT ![<<c, m>>] = GRPC!Over("returned")]
    BY <1>7 DEF GRPC!HandlerReturns, GRPC!HandlerPanics, GRPC!Leave
  <2> QED
    BY <1>4, <2>1, <2>2 DEF GRPC!Reply, GRPC!Active
<1> QED
  BY <1>2, <1>3, <1>5, <1>6, <1>7

\* An attempt that is handled or refused, and its reply.
LEMMA ServerKeeps ==
    ASSUME GRPCTypes, NEW c \in Calls, CallInv(c), NEW m \in GRPC!Attempts,
           \/ GRPC!Arrive(c, m) \/ GRPC!Refuse(c, m) \/ GRPC!Drop(c, m)
           \/ GRPC!HandlerReturns(c, m) \/ GRPC!HandlerPanics(c, m) \/ GRPC!Reset(c, m)
    PROVE  CallInv(c)'
<1>1. UNCHANGED <<policy, profile>> /\ task[<<c, m>>].at \in {"sent", "running"}
  BY ServerEffect
<1>2. PICK t : /\ task' = [task EXCEPT ![<<c, m>>] = t]
               /\ \/ t.at \in {"returned", "refused"}
                  \/ /\ t.at \in {"sent", "running"}
                     /\ \/ t.left = task[<<c, m>>].left
                        \/ t.left = GRPC!HandlerDeadline(task[<<c, m>>].left)
               /\ \/ UNCHANGED call
                  \/ /\ GRPC!Active(c) /\ call[c].attempt = m
                     /\ \E status \in GRPC!Statuses :
                           /\ call' = [call EXCEPT ![c].reply = status]
                           /\ status = "busy" => t.at = "refused"
  BY ServerEffect
<1>3. /\ task'[<<c, m>>] = t
      /\ \A n \in GRPC!Attempts : n # m => task'[<<c, n>>] = task[<<c, n>>]
  BY <1>2 DEF GRPCTypes
<1> DEFINE Same(k) ==
      /\ k.at = call[c].at /\ k.left = call[c].left /\ k.attempt = call[c].attempt
      /\ k.age = call[c].age /\ k.result = call[c].result
      /\ k.reply = "busy" =>
            call[c].reply = "busy" \/ (call[c].attempt = m /\ t.at = "refused")
<1>4. Same(call'[c])
  <2>1. CASE UNCHANGED call
    BY <2>1
  <2>2. ASSUME call[c].attempt = m, NEW status,
               call' = [call EXCEPT ![c].reply = status], status = "busy" => t.at = "refused"
        PROVE  Same(call'[c])
    BY <2>2 DEF GRPCTypes, CallRecords
  <2> QED
    BY <1>2, <2>1, <2>2
<1>5. call[c].at # "idle"
  BY <1>1 DEF CallInv, Attempted
<1>6. Attempted(c)'
  BY <1>1, <1>3, <1>4, <1>5 DEF CallInv, Attempted, GRPC!Active
<1>7. Answered(c)'
  <2>1. ASSUME GRPC!Active(c), call'[c].reply = "busy"
        PROVE  task'[<<c, call[c].attempt>>].at = "refused"
    <3>1. CASE call[c].attempt = m /\ t.at = "refused"
      BY <1>3, <3>1
    <3>2. CASE call[c].reply = "busy"
      <4>1. /\ task[<<c, call[c].attempt>>].at = "refused"
            /\ call[c].attempt \in GRPC!Attempts /\ call[c].attempt # m
        BY <1>1, <2>1, <3>2 DEF CallInv, Answered, Attempted
      <4> QED
        BY <1>3, <4>1
    <3> QED
      BY <1>4, <2>1, <3>1, <3>2
  <2>2. ASSUME ~profile[c].listed
        PROVE  /\ m = 1
               /\ \A n \in GRPC!Attempts : n # 1 => task'[<<c, n>>].at = "none"
               /\ call'[c].result # "busy"
    BY <1>1, <1>3, <1>4, <2>2 DEF CallInv, Answered
  <2>3. (GRPC!Active(c))' <=> GRPC!Active(c)
    BY <1>4 DEF GRPC!Active
  <2> QED
    BY <1>1, <1>4, <2>1, <2>2, <2>3 DEF CallInv, Answered
<1>8. OnTime(c)'
  <2>1. CASE profile[c].given = GRPC!NoDeadline
    BY <1>1, <2>1 DEF OnTime
  <2>2. CASE profile[c].given # GRPC!NoDeadline
    <3>1. task[<<c, m>>].left \in 0 .. profile[c].given /\ profile[c].given \in Nat
      BY <1>1, <2>2, GivenIsTime DEF CallInv, OnTime
    <3>2. GRPC!HandlerDeadline(task[<<c, m>>].left) = task[<<c, m>>].left
      BY <3>1 DEF GRPC!HandlerDeadline, GRPC!NoDeadline
    <3>3. t.at \in {"sent", "running"} => t.left = task[<<c, m>>].left
      BY <1>2, <3>2
    <3> QED
      BY <1>1, <1>3, <1>4, <3>3 DEF CallInv, OnTime, GRPC!Active
  <2> QED
    BY <2>1, <2>2
<1> QED
  BY <1>6, <1>7, <1>8 DEF CallInv

\* A broken connection.
LEMMA BreakKeeps ==
    ASSUME GRPCTypes, NEW c \in Calls, CallInv(c), GRPC!Break(c)
    PROVE  GRPCTypes' /\ CallInv(c)'
<1> DEFINE m == call[c].attempt
           k == [call[c] EXCEPT !.reply = "unavailable"]
           t == [task[<<c, m>>] EXCEPT !.cancelled = TRUE]
<1>1. /\ GRPC!Active(c) /\ m \in GRPC!Attempts /\ UNCHANGED <<policy, profile>>
      /\ gFaults' \in 0 .. MaxFaults
  BY AdmissionAssumption DEF CallInv, Attempted, GRPC!Active, GRPC!Break, GRPCTypes
<1>2. k \in CallRecords
  <2>1. call[c] \in CallRecords /\ "unavailable" \in GRPC!Statuses
    BY DEF GRPCTypes, GRPC!Statuses
  <2> QED
    BY <2>1 DEF CallRecords
<1>3. t \in TaskRecords
  <2>1. task[<<c, m>>] \in TaskRecords
    BY <1>1 DEF GRPCTypes
  <2> QED
    BY <2>1 DEF TaskRecords
<1>4. Changed(c, k) /\ ChangedTask(c, m, t)
  BY <1>1, <1>2, <1>3 DEF Changed, ChangedTask, GRPC!Break, GRPCTypes
<1>5. GRPCTypes'
  BY <1>1, <1>4, TypedChange
<1>6. /\ call'[c].at = call[c].at /\ call'[c].left = call[c].left
      /\ call'[c].attempt = m /\ call'[c].age = call[c].age
      /\ call'[c].result = call[c].result /\ call'[c].reply = "unavailable"
  BY <1>4 DEF Changed, GRPCTypes, CallRecords
<1>7. /\ task'[<<c, m>>].at = task[<<c, m>>].at /\ task'[<<c, m>>].left = task[<<c, m>>].left
      /\ \A n \in GRPC!Attempts : n # m => task'[<<c, n>>] = task[<<c, n>>]
  BY <1>1, <1>4 DEF ChangedTask, GRPCTypes, TaskRecords
<1>8. Attempted(c)'
  BY <1>1, <1>6, <1>7 DEF CallInv, Attempted, GRPC!Active
<1>9. Answered(c)'
  BY <1>1, <1>6, <1>7 DEF CallInv, Answered, Attempted, GRPC!Active
<1>10. OnTime(c)'
  BY <1>1, <1>6, <1>7 DEF CallInv, OnTime, GRPC!Active
<1> QED
  BY <1>5, <1>8, <1>9, <1>10 DEF CallInv

\* Time takes from a deadline what it adds to a call's age.
LEMMA TickTypes ==
    ASSUME GRPCTypes, GRPC!Tick
    PROVE  GRPCTypes'
<1>1. ASSUME NEW c \in Calls
      PROVE  [call[c] EXCEPT !.left = GRPC!Countdown(@),
                             !.age = IF @ < profile[c].given THEN @ + 1 ELSE @] \in CallRecords
  <2>1. /\ call[c] \in CallRecords /\ call[c].left \in GRPC!TimesLeft
        /\ call[c].age \in 0 .. LongestDeadline
        /\ profile[c].given \in GRPC!TimesLeft
    BY DEF GRPCTypes, CallRecords, GRPC!AllProfiles
  <2>2. (IF call[c].age < profile[c].given THEN call[c].age + 1 ELSE call[c].age)
          \in 0 .. LongestDeadline
    BY <2>1, AdmissionAssumption DEF GRPC!TimesLeft, GRPC!NoDeadline
  <2>3. GRPC!Countdown(call[c].left) \in GRPC!TimesLeft
    BY <2>1, DeadlinesAreTimes
  <2> QED
    BY <2>1, <2>2, <2>3 DEF CallRecords
<1>2. ASSUME NEW t \in Calls \X GRPC!Attempts
      PROVE  [task[t] EXCEPT !.left = GRPC!Countdown(@)] \in TaskRecords
  <2>1. task[t] \in TaskRecords /\ task[t].left \in GRPC!TimesLeft
    BY DEF GRPCTypes, TaskRecords
  <2>2. GRPC!Countdown(task[t].left) \in GRPC!TimesLeft
    BY <2>1, DeadlinesAreTimes
  <2> QED
    BY <2>1, <2>2 DEF TaskRecords
<1>3. call' \in [Calls -> CallRecords]
  BY <1>1 DEF GRPC!Tick, GRPCTypes
<1>4. task' \in [Calls \X GRPC!Attempts -> TaskRecords]
  BY <1>2 DEF GRPC!Tick, GRPCTypes
<1>5. UNCHANGED <<policy, profile, gFaults>>
  BY DEF GRPC!Tick
<1> QED
  BY <1>3, <1>4, <1>5 DEF GRPCTypes

\* So the two remain the whole deadline, for the call and for its attempts.
LEMMA TickKeeps ==
    ASSUME GRPCTypes, GRPC!Tick, NEW c \in Calls, CallInv(c)
    PROVE  CallInv(c)'
<1> DEFINE g == profile[c].given
<1>1. /\ call'[c].at = call[c].at /\ call'[c].attempt = call[c].attempt
      /\ call'[c].reply = call[c].reply /\ call'[c].result = call[c].result
      /\ ~GRPC!Active(c) => call'[c] = call[c]
      /\ GRPC!Active(c) =>
           /\ call'[c].left = GRPC!Countdown(call[c].left)
           /\ call'[c].age = IF call[c].age < g THEN call[c].age + 1 ELSE call[c].age
  BY DEF GRPC!Tick, GRPCTypes, CallRecords
<1>2. ASSUME NEW n \in GRPC!Attempts
      PROVE  /\ task'[<<c, n>>].at = task[<<c, n>>].at
             /\ task'[<<c, n>>].left = IF task[<<c, n>>].at = "running"
                                       THEN GRPC!Countdown(task[<<c, n>>].left)
                                       ELSE task[<<c, n>>].left
  BY DEF GRPC!Tick, GRPCTypes, TaskRecords, GRPC!Running
<1>3. UNCHANGED profile
  BY DEF GRPC!Tick
<1>4. (GRPC!Active(c))' <=> GRPC!Active(c)
  BY <1>1 DEF GRPC!Active
<1>5. Attempted(c)'
  BY <1>1, <1>2, <1>4 DEF CallInv, Attempted, GRPC!Active
<1>6. Answered(c)'
  <2>1. 1 \in GRPC!Attempts
    BY AdmissionAssumption DEF GRPC!Attempts
  <2> QED
    BY <1>1, <1>2, <1>3, <1>4, <2>1 DEF CallInv, Answered, Attempted
<1>7. OnTime(c)'
  <2>1. CASE g = GRPC!NoDeadline
    BY <1>3, <2>1 DEF OnTime
  <2>2. CASE g # GRPC!NoDeadline
    <3>1. g \in Nat /\ call[c].age \in Nat
      BY <2>2, GivenIsTime DEF GRPCTypes, CallRecords
    <3>2. GRPC!Active(c) => /\ call'[c].left \in 0 .. g
                            /\ call'[c].left + call'[c].age = g
      BY <1>1, <2>2, <3>1 DEF CallInv, OnTime, GRPC!Countdown
    <3>3. ASSUME NEW n \in GRPC!Attempts, task[<<c, n>>].at \in {"sent", "running"}
          PROVE  /\ task'[<<c, n>>].left \in 0 .. g
                 /\ call[c].at # "ended" => call'[c].age + task'[<<c, n>>].left >= g
      <4>1. /\ task[<<c, n>>].left \in 0 .. g
            /\ call[c].at # "ended" => call[c].age + task[<<c, n>>].left >= g
        BY <2>2, <3>3 DEF CallInv, OnTime
      <4>2. task'[<<c, n>>].left \in 0 .. g /\ task'[<<c, n>>].left >= task[<<c, n>>].left - 1
        BY <1>2, <3>1, <4>1 DEF GRPC!Countdown
      <4>3. call[c].at # "ended" => GRPC!Active(c)
        BY <3>3 DEF CallInv, Attempted, GRPC!Active, GRPCTypes, CallRecords
      <4> QED
        BY <1>1, <3>1, <4>1, <4>2, <4>3
    <3> QED
      BY <1>1, <1>2, <1>3, <1>4, <3>2, <3>3 DEF OnTime
  <2> QED
    BY <2>1, <2>2
<1> QED
  BY <1>5, <1>6, <1>7 DEF CallInv

\* The handlers under way are finitely many.
LEMMA HandlersAreFinite ==
    ASSUME GRPCTypes
    PROVE  IsFiniteSet(GRPC!Handling) /\ Cardinality(GRPC!Handling) \in Nat
<1>1. IsFiniteSet(GRPC!Attempts)
  BY FS_Interval, AdmissionAssumption DEF GRPC!Attempts
<1>2. IsFiniteSet(Calls \X GRPC!Attempts)
  BY <1>1, FS_Product, AdmissionAssumption
<1>3. GRPC!Handling \subseteq Calls \X GRPC!Attempts
  BY DEF GRPC!Handling, GRPCTypes
<1> QED
  BY <1>2, <1>3, FS_Subset, FS_CardinalityType

\* The tokens stay with the handlers if none comes and none goes ...
LEMMA SameTokens ==
    ASSUME GRPCTypes, Tokens, UNCHANGED sem, DOMAIN task' = DOMAIN task,
           \A t \in DOMAIN task : task'[t].at = "running" <=> task[t].at = "running"
    PROVE  Tokens'
<1>1. GRPC!Handling' = GRPC!Handling
  BY DEF GRPC!Handling, GRPC!Running
<1> QED
  BY <1>1 DEF Tokens

\* ... and a handler takes one with it ...
LEMMA TokenTaken ==
    ASSUME GRPCTypes, Tokens, NEW c \in Calls, NEW n \in GRPC!Attempts, GRPC!Arrive(c, n)
    PROVE  Tokens'
<1>1. <<c, n>> \notin GRPC!Handling
  BY DEF GRPC!Arrive, GRPC!Handling, GRPC!Running
<1> DEFINE t == [task[<<c, n>>] EXCEPT !.at = "running", !.left = GRPC!HandlerDeadline(@)]
<1>2. task' = [task EXCEPT ![<<c, n>>] = t]
  BY DEF GRPC!Arrive, GRPCTypes
<1>3. t.at = "running"
  <2>1. task[<<c, n>>] \in TaskRecords
    BY DEF GRPCTypes
  <2> QED
    BY <2>1 DEF TaskRecords
<1> HIDE DEF t
<1>4. GRPC!Handling' = GRPC!Handling \cup {<<c, n>>}
  BY <1>2, <1>3 DEF GRPC!Handling, GRPC!Running, GRPCTypes
<1>5. Cardinality(GRPC!Handling') = Cardinality(GRPC!Handling) + 1
  BY <1>1, <1>4, HandlersAreFinite, FS_AddElement
<1>6. sem' = sem + 1 /\ sem < Limit
  BY DEF GRPC!Arrive
<1>7. sem' = Cardinality(GRPC!Handling')
  BY <1>5, <1>6 DEF Tokens
<1>8. sem' <= Limit
  BY <1>6, HandlersAreFinite, AdmissionAssumption DEF Tokens
<1> QED
  BY <1>7, <1>8 DEF Tokens

\* ... and gives it back.
LEMMA TokenReturned ==
    ASSUME GRPCTypes, Tokens, NEW c \in Calls, NEW n \in GRPC!Attempts,
           GRPC!HandlerReturns(c, n) \/ GRPC!HandlerPanics(c, n)
    PROVE  Tokens'
<1>1. /\ task[<<c, n>>].at = "running" /\ sem' = sem - 1
      /\ task' = [task EXCEPT ![<<c, n>>] = GRPC!Over("returned")]
  BY DEF GRPC!HandlerReturns, GRPC!HandlerPanics, GRPC!Leave, GRPC!Release
<1>2. <<c, n>> \in GRPC!Handling
  BY <1>1 DEF GRPC!Handling, GRPC!Running, GRPCTypes
<1>3. GRPC!Over("returned").at # "running"
  BY DEF GRPC!Over, GRPC!NoTask
<1>4. GRPC!Handling' = GRPC!Handling \ {<<c, n>>}
  BY <1>1, <1>3 DEF GRPC!Handling, GRPC!Running, GRPCTypes
<1>5. Cardinality(GRPC!Handling') = Cardinality(GRPC!Handling) - 1
  BY <1>2, <1>4, HandlersAreFinite, FS_RemoveElement
<1> QED
  BY <1>1, <1>5, HandlersAreFinite, AdmissionAssumption DEF Tokens

\* A call that is not executing leaves the tokens alone, and so does time.
LEMMA OtherTokens ==
    ASSUME GRPCTypes, Tokens, NEW c \in Calls, CallInv(c),
           \/ GRPC!Invoke(c) \/ GRPC!CloseSend(c) \/ GRPC!Quit(c) \/ GRPC!ContextEnds(c)
           \/ GRPC!Receive(c) \/ GRPC!Retry(c) \/ GRPC!Break(c)
           \/ \E n \in GRPC!Attempts : GRPC!Refuse(c, n) \/ GRPC!Drop(c, n) \/ GRPC!Reset(c, n)
    PROVE  Tokens'
<1>1. UNCHANGED sem
  BY DEF GRPC!Invoke, GRPC!CloseSend, GRPC!Quit, GRPC!ContextEnds, GRPC!Receive, GRPC!Retry,
         GRPC!Break, GRPC!Refuse, GRPC!Drop, GRPC!Reset
<1>2. CASE UNCHANGED task
  BY <1>1, <1>2, SameTokens
<1>3. ASSUME NEW n \in GRPC!Attempts, NEW t, task' = [task EXCEPT ![<<c, n>>] = t],
             t.at = "running" <=> task[<<c, n>>].at = "running"
      PROVE  Tokens'
  <2>1. /\ DOMAIN task' = DOMAIN task
        /\ \A u \in DOMAIN task : task'[u].at = "running" <=> task[u].at = "running"
    BY <1>3 DEF GRPCTypes
  <2> QED
    BY <1>1, <2>1, SameTokens
<1>4. CASE GRPC!Invoke(c) \/ GRPC!Retry(c)
  <2>1. PICK n \in GRPC!Attempts, d \in GRPC!TimesLeft :
            task[<<c, n>>].at = "none" /\ GRPC!Sent(c, n, d)
    <3>1. CASE GRPC!Invoke(c)
      <4>1. GRPC!Sent(c, 1, GRPC!CallDeadline(c)) /\ call[c].at = "idle"
        BY <3>1 DEF GRPC!Invoke
      <4>2. 1 \in GRPC!Attempts /\ GRPC!CallDeadline(c) \in GRPC!TimesLeft
        BY DeadlinesAreTimes, AdmissionAssumption DEF GRPC!Attempts
      <4> QED
        BY <4>1, <4>2 DEF CallInv, Attempted
    <3>2. CASE GRPC!Retry(c)
      <4>1. /\ GRPC!Sent(c, call[c].attempt + 1, call[c].left) /\ GRPC!Active(c)
            /\ call[c].attempt < MaxAttempts
        BY <3>2 DEF GRPC!Retry, GRPC!Retries, GRPC!Active
      <4>2. call[c].attempt \in GRPC!Attempts /\ call[c].left \in GRPC!TimesLeft
        BY <4>1 DEF CallInv, Attempted, GRPCTypes, CallRecords
      <4>3. call[c].attempt + 1 \in GRPC!Attempts /\ call[c].attempt + 1 > call[c].attempt
        BY <4>1, <4>2, AdmissionAssumption DEF GRPC!Attempts
      <4> QED
        BY <4>1, <4>2, <4>3 DEF CallInv, Attempted
    <3> QED
      BY <1>4, <3>1, <3>2
  <2>2. task' = [task EXCEPT ![<<c, n>>] = [at |-> "sent", left |-> d, cancelled |-> FALSE]]
    BY <2>1 DEF GRPC!Sent
  <2> QED
    BY <1>3, <2>1, <2>2
<1>5. CASE GRPC!Break(c)
  <2> DEFINE m == call[c].attempt
             t == [task[<<c, m>>] EXCEPT !.cancelled = TRUE]
  <2>1. m \in GRPC!Attempts /\ task' = [task EXCEPT ![<<c, m>>] = t]
    BY <1>5 DEF GRPC!Break, CallInv, Attempted, GRPC!Active, GRPCTypes
  <2>2. t.at = task[<<c, m>>].at
    <3>1. task[<<c, m>>] \in TaskRecords
      BY <2>1 DEF GRPCTypes
    <3> QED
      BY <3>1 DEF TaskRecords
  <2> HIDE DEF t
  <2> QED
    BY <1>3, <2>1, <2>2
<1>6. ASSUME NEW n \in GRPC!Attempts, GRPC!Refuse(c, n) \/ GRPC!Drop(c, n)
      PROVE  Tokens'
  <2>1. /\ task' = [task EXCEPT ![<<c, n>>] = GRPC!Over("refused")]
        /\ task[<<c, n>>].at = "sent"
    BY <1>6 DEF GRPC!Refuse, GRPC!Drop
  <2>2. GRPC!Over("refused").at = "refused"
    BY DEF GRPC!Over, GRPC!NoTask
  <2> QED
    BY <1>3, <2>1, <2>2
<1>7. ASSUME NEW n \in GRPC!Attempts, GRPC!Reset(c, n)
      PROVE  Tokens'
  <2> DEFINE t == [task[<<c, n>>] EXCEPT !.cancelled = TRUE]
  <2>1. task' = [task EXCEPT ![<<c, n>>] = t]
    BY <1>7 DEF GRPC!Reset, GRPCTypes
  <2>2. t.at = task[<<c, n>>].at
    <3>1. task[<<c, n>>] \in TaskRecords
      BY DEF GRPCTypes
    <3> QED
      BY <3>1 DEF TaskRecords
  <2> HIDE DEF t
  <2> QED
    BY <1>3, <2>1, <2>2
<1>8. CASE GRPC!CloseSend(c) \/ GRPC!Quit(c) \/ GRPC!ContextEnds(c) \/ GRPC!Receive(c)
  BY <1>2, <1>8 DEF GRPC!CloseSend, GRPC!Quit, GRPC!ContextEnds, GRPC!Receive
<1> QED
  BY <1>4, <1>5, <1>6, <1>7, <1>8

\* Time changes no place.
LEMMA TickTokens ==
    ASSUME GRPCTypes, Tokens, GRPC!Tick
    PROVE  Tokens'
<1>1. UNCHANGED sem /\ DOMAIN task' = DOMAIN task
  BY DEF GRPC!Tick
<1>2. ASSUME NEW t \in DOMAIN task
      PROVE  task'[t].at = task[t].at
  <2>1. task[t] \in TaskRecords
    BY DEF GRPCTypes
  <2>2. task'[t] = task[t] \/ task'[t] = [task[t] EXCEPT !.left = GRPC!Countdown(@)]
    BY DEF GRPC!Tick
  <2> QED
    BY <2>1, <2>2 DEF TaskRecords
<1> QED
  BY <1>1, <1>2, SameTokens

\* Before the first call there is neither handler nor token.
LEMMA GRPCInit == GRPC!Init => GRPCInd
<1> SUFFICES ASSUME GRPC!Init PROVE GRPCInd
  OBVIOUS
<1>1. GRPCTypes
  BY FreshRecords, ScenariosAssumption, AdmissionAssumption DEF GRPC!Init, GRPCTypes
<1>2. GRPC!NoTask.at = "none"
  BY DEF GRPC!NoTask
<1>3. GRPC!Handling = {}
  BY <1>2 DEF GRPC!Handling, GRPC!Running, GRPC!Init
<1>4. Tokens
  BY <1>3, FS_EmptySet, AdmissionAssumption DEF Tokens, GRPC!Init
<1>5. /\ GRPC!NewCall.at = "idle" /\ GRPC!NewCall.age = 0 /\ GRPC!NewCall.reply = "none"
      /\ GRPC!NewCall.result = "none"
  BY DEF GRPC!NewCall
<1>6. ASSUME NEW c \in Calls
      PROVE  CallInv(c)
  <2>1. /\ call[c].at = "idle" /\ call[c].age = 0 /\ call[c].reply = "none"
        /\ call[c].result = "none"
        /\ \A n \in GRPC!Attempts : task[<<c, n>>].at = "none"
    BY <1>2, <1>5 DEF GRPC!Init
  <2> QED
    BY <2>1 DEF CallInv, Attempted, Answered, OnTime, GRPC!Active
<1> QED
  BY <1>1, <1>4, <1>6 DEF GRPCInd

\* Every step keeps the invariant of gRPC calls.
LEMMA GRPCStep ==
    ASSUME GRPCInd, [GRPC!Next]_grpcVars
    PROVE  GRPCInd'
<1>1. GRPCTypes /\ Tokens /\ \A c \in Calls : CallInv(c)
  BY DEF GRPCInd
<1>2. ASSUME NEW c \in Calls, CallStep(c)
      PROVE  GRPCInd'
  <2>1. GRPCTypes' /\ CallInv(c)'
    <3>1. CASE GRPC!Invoke(c)
      BY <1>1, <3>1, InvokeTypes, InvokeKeeps
    <3>2. CASE GRPC!CloseSend(c) \/ GRPC!Quit(c)
      BY <1>1, <3>2, CallerTypes, CallerKeeps
    <3>3. CASE GRPC!ContextEnds(c) \/ GRPC!Receive(c)
      BY <1>1, <3>3, CallerTypes, EndKeeps
    <3>4. CASE GRPC!Retry(c)
      BY <1>1, <3>4, RetryTypes, RetryKeeps
    <3>5. CASE GRPC!Break(c)
      BY <1>1, <3>5, BreakKeeps
    <3>6. ASSUME NEW n \in GRPC!Attempts,
                 \/ GRPC!Arrive(c, n) \/ GRPC!Refuse(c, n) \/ GRPC!Drop(c, n)
                 \/ GRPC!HandlerReturns(c, n) \/ GRPC!HandlerPanics(c, n) \/ GRPC!Reset(c, n)
          PROVE  GRPCTypes' /\ CallInv(c)'
      BY <1>1, <3>6, ServerTypes, ServerKeeps
    <3> QED
      BY <1>2, <3>1, <3>2, <3>3, <3>4, <3>5, <3>6 DEF CallStep
  <2>2. \A d \in Calls \ {c} : CallInv(d)'
    BY <1>1, <1>2, Elsewhere
  <2>3. Tokens'
    <3>1. CASE \E n \in GRPC!Attempts :
                 GRPC!Arrive(c, n) \/ GRPC!HandlerReturns(c, n) \/ GRPC!HandlerPanics(c, n)
      BY <1>1, <3>1, TokenTaken, TokenReturned
    <3> QED
      BY <1>1, <1>2, <3>1, OtherTokens DEF CallStep
  <2> QED
    BY <2>1, <2>2, <2>3 DEF GRPCInd
<1>3. CASE GRPC!Tick
  BY <1>1, <1>3, TickTypes, TickKeeps, TickTokens DEF GRPCInd
<1>4. CASE UNCHANGED grpcVars
  BY <1>1, <1>4 DEF grpcVars, GRPCInd, GRPCTypes, Tokens, GRPC!Handling, GRPC!Running, CallInv,
                    Attempted, Answered, OnTime, GRPC!Active
<1> QED
  BY <1>2, <1>3, <1>4 DEF GRPC!Next, CallStep

\* The instance's Cardinality is the standard one.
LEMMA GRPCCardinality == \A S : GRPC!Cardinality(S) = Cardinality(S)
BY Zenon DEF GRPC!Cardinality, Cardinality

\* Tokens and executions are accounted for.
LEMMA GRPCAccounted ==
    ASSUME GRPCInd
    PROVE  GRPC!Inv
<1>1. GRPCTypes /\ Tokens /\ \A c \in Calls : CallInv(c)
  BY DEF GRPCInd
<1>2. sem \in 0 .. Limit
  BY <1>1, HandlersAreFinite, AdmissionAssumption DEF Tokens
<1>3. GRPC!TypeOK
  BY <1>1, <1>2, Zenon DEF GRPCTypes, GRPC!TypeOK, CallRecords, TaskRecords
<1>4. GRPC!TokensAreHandlers
  BY <1>1, GRPCCardinality, Zenon DEF Tokens, GRPC!TokensAreHandlers
<1>5. ASSUME NEW c \in Calls, ~profile[c].listed
      PROVE  /\ Cardinality(GRPC!Executed(c)) <= 1
             /\ call[c].result = "busy" => GRPC!Executed(c) = {}
  <2>1. GRPC!Executed(c) \subseteq {1}
    BY <1>1, <1>5 DEF CallInv, Answered, GRPC!Executed
  <2>2. GRPC!Executed(c) = {} \/ GRPC!Executed(c) = {1}
    BY <2>1
  <2>3. call[c].result = "busy" => 1 \notin GRPC!Executed(c)
    BY <1>1, <1>5 DEF CallInv, Answered, GRPC!Executed
  <2> QED
    BY <2>2, <2>3, FS_EmptySet, FS_Singleton
<1>6. GRPC!ExecutedOnce
  BY <1>5, GRPCCardinality, Zenon DEF GRPC!ExecutedOnce
<1> QED
  BY <1>3, <1>4, <1>6 DEF GRPC!Inv

\* Only a context without time left makes a call end with DEADLINE_EXCEEDED.
LEMMA OnlyTheContextEnds ==
    ASSUME GRPCTypes, [GRPC!Next]_grpcVars, NEW c \in Calls,
           call'[c].result = "deadline", call[c].result # "deadline"
    PROVE  GRPC!Active(c) /\ call[c].left = 0
<1>1. call[c] \in CallRecords /\ DOMAIN call = Calls
  BY DEF GRPCTypes
<1>2. ASSUME NEW d \in Calls, GRPC!ContextEnds(d)
      PROVE  GRPC!Active(c) /\ call[c].left = 0
  <2>1. GRPC!Done(d, "canceled").result = "canceled"
    BY DEF GRPC!Done, GRPC!NewCall
  <2>2. CASE call' = [call EXCEPT ![d] = GRPC!Done(d, "canceled")]
    BY <1>1, <2>1, <2>2
  <2> QED
    BY <1>1, <1>2, <2>2 DEF GRPC!ContextEnds, GRPC!Active
<1>3. ASSUME NEW d \in Calls, GRPC!Receive(d)
      PROVE  FALSE
  <2>1. PICK result \in {"answered", "busy"} : call' = [call EXCEPT ![d] = GRPC!Done(d, result)]
    BY <1>3 DEF GRPC!Receive, GRPC!Outcome
  <2>2. GRPC!Done(d, result).result = result
    BY DEF GRPC!Done, GRPC!NewCall
  <2> QED
    BY <1>1, <2>1, <2>2
<1>4. ASSUME NEW d \in Calls, GRPC!Invoke(d) \/ GRPC!Retry(d) \/ GRPC!Break(d)
      PROVE  FALSE
  BY <1>1, <1>4 DEF GRPC!Invoke, GRPC!Retry, GRPC!Break, CallRecords
<1>5. ASSUME NEW d \in Calls, GRPC!CloseSend(d) \/ GRPC!Quit(d)
      PROVE  FALSE
  BY <1>1, <1>5 DEF GRPC!CloseSend, GRPC!Quit, CallRecords
<1>6. ASSUME NEW d \in Calls, NEW n \in GRPC!Attempts,
             \/ GRPC!Arrive(d, n) \/ GRPC!Refuse(d, n) \/ GRPC!Drop(d, n)
             \/ GRPC!HandlerReturns(d, n) \/ GRPC!HandlerPanics(d, n) \/ GRPC!Reset(d, n)
      PROVE  FALSE
  <2>1. UNCHANGED call \/ \E status : call' = [call EXCEPT ![d].reply = status]
    BY <1>6, ServerEffect
  <2> QED
    BY <1>1, <2>1 DEF CallRecords
<1>7. CASE GRPC!Tick
  <2>1. \/ call'[c] = call[c]
        \/ call'[c] = [call[c] EXCEPT !.left = GRPC!Countdown(@),
                                      !.age = IF @ < profile[c].given THEN @ + 1 ELSE @]
    BY <1>7 DEF GRPC!Tick
  <2> QED
    BY <1>1, <2>1 DEF CallRecords
<1>8. CASE UNCHANGED grpcVars
  BY <1>8 DEF grpcVars
<1> QED
  BY <1>2, <1>3, <1>4, <1>5, <1>6, <1>7, <1>8 DEF GRPC!Next

\* A call ends of its deadline when it has passed, and what a handler has left of it
\* is a part of it.
LEMMA DeadlinesStand ==
    ASSUME GRPCInd, GRPCInd', [GRPC!Next]_grpcVars, NEW c \in Calls,
           profile[c].given # GRPC!NoDeadline
    PROVE  /\ call'[c].result = "deadline" /\ call[c].result # "deadline"
                => call[c].age >= profile[c].given
           /\ \A n \in GRPC!Attempts : task'[c, n].at = "running" =>
                /\ task'[c, n].left \in 0 .. profile[c].given
                /\ task'[c, n].left = 0 /\ call'[c].at # "ended"
                     => call'[c].age >= profile[c].given
<1>1. GRPCTypes /\ CallInv(c)
  BY DEF GRPCInd
<1>2. profile' = profile
  BY DEF GRPC!Next, grpcVars, GRPC!Invoke, GRPC!CloseSend, GRPC!Quit, GRPC!ContextEnds,
         GRPC!Receive, GRPC!Retry, GRPC!Break, GRPC!Arrive, GRPC!Refuse, GRPC!Drop,
         GRPC!HandlerReturns, GRPC!HandlerPanics, GRPC!Leave, GRPC!Reset, GRPC!Tick
<1>3. OnTime(c)' /\ GRPCTypes'
  BY DEF GRPCInd, CallInv
<1>4. profile[c].given \in Nat
  BY <1>1, GivenIsTime
<1>5. ASSUME NEW n \in GRPC!Attempts, task'[c, n].at = "running"
      PROVE  /\ task'[c, n].left \in 0 .. profile[c].given
             /\ task'[c, n].left = 0 /\ call'[c].at # "ended"
                  => call'[c].age >= profile[c].given
  <2> DEFINE left == task'[<<c, n>>].left
  <2>1. /\ left \in 0 .. profile[c].given
        /\ call'[c].at # "ended" => call'[c].age + left >= profile[c].given
    BY <1>2, <1>3, <1>5 DEF OnTime
  <2>2. call'[c].age \in Nat
    BY <1>3 DEF GRPCTypes, CallRecords
  <2> HIDE DEF left
  <2>3. left = 0 /\ call'[c].at # "ended" => call'[c].age >= profile[c].given
    BY <1>4, <2>1, <2>2
  <2> QED
    BY <2>1, <2>3 DEF left
<1>6. ASSUME call'[c].result = "deadline", call[c].result # "deadline"
      PROVE  call[c].age >= profile[c].given
  <2>1. GRPC!Active(c) /\ call[c].left = 0
    BY <1>1, <1>6, OnlyTheContextEnds
  <2>2. call[c].left + call[c].age = profile[c].given /\ call[c].age \in Nat
    BY <1>1, <2>1 DEF CallInv, OnTime, GRPCTypes, CallRecords
  <2> QED
    BY <1>4, <2>1, <2>2
<1> QED
  BY <1>5, <1>6

-----------------------------------------------------------------------------
\* A route's limiter, whichever it is, begins every window once, keeps it for its
\* full time, and spends no more than Max permissions in it: a request finds the
\* window its predecessors left (mid/ratelimit.go, Middleware and cleanupExpired;
\* the script of contrib/mid/ratelimit/redis/redis.go).
THEOREM AdmissionKeepsWindows == AdmissionSpec => FixedWindows
<1> DEFINE OK == MemoryOK /\ RedisOK
<1>1. Start => OK /\ Quota!Init /\ Redis!Quota!Init
  BY MemoryInit, RedisInit DEF Start
<1>2. ASSUME OK, [Step]_admissionVars
      PROVE  [Next]_memoryVars /\ [Redis!Next]_redisVars
  BY <1>2 DEF Step, InMemory, InRedis, InGRPC, admissionVars
<1>3. OK /\ [Step]_admissionVars
        => OK' /\ [Quota!Next]_Quota!vars /\ [Redis!Quota!Next]_Redis!Quota!vars
  BY <1>2, MemoryStep, RedisStep
<1> QED
  BY <1>1, <1>3, PTL DEF AdmissionSpec, FixedWindows, KeepsWindows, Redis!KeepsWindows,
                         Quota!Spec, Redis!Quota!Spec

\* What the guards account for, and the faults and the shapes they rest on.
GuardsInd ==
    /\ ShardOK /\ MemoryAccounts
    /\ RedisOK /\ RedisAccounts /\ rFaults \in 0 .. MaxFaults
    /\ GRPCInd

\* A step of the system is a step of each guard, or none.
LEMMA GuardsStep ==
    ASSUME [Step]_admissionVars
    PROVE  [Next]_memoryVars /\ [Redis!Next]_redisVars /\ [GRPC!Next]_grpcVars
BY DEF Step, InMemory, InRedis, InGRPC, admissionVars

\* The accounts are right when the program starts ...
LEMMA GuardsInit == Start => GuardsInd
<1> SUFFICES ASSUME Start PROVE GuardsInd
  OBVIOUS
<1>1. Init /\ Redis!Init /\ GRPC!Init
  BY DEF Start
<1>2. rFaults \in 0 .. MaxFaults
  BY <1>1, AdmissionAssumption DEF Redis!Init
<1> QED
  BY <1>1, <1>2, ShardInit, RedisInit, AccountsInit, GRPCInit DEF GuardsInd

\* ... and every step keeps them.
LEMMA GuardsKept ==
    ASSUME GuardsInd, [Step]_admissionVars
    PROVE  GuardsInd'
<1>1. [Next]_memoryVars /\ [Redis!Next]_redisVars /\ [GRPC!Next]_grpcVars
  BY GuardsStep
<1>2. ShardOK'
  BY <1>1, ShardStep DEF GuardsInd
<1>3. MemoryAccounts'
  <2>1. [Quota!Next]_Quota!vars
    BY <1>1, MemoryStep DEF GuardsInd, ShardOK
  <2> QED
    BY <2>1, MemoryAccountsStep DEF GuardsInd
<1>4. RedisOK' /\ RedisAccounts'
  <2>1. RedisOK' /\ [Redis!Quota!Next]_Redis!Quota!vars
    BY <1>1, RedisStep DEF GuardsInd
  <2> QED
    BY <2>1, RedisAccountsStep DEF GuardsInd
<1>5. rFaults' \in 0 .. MaxFaults
  BY <1>1, RedisFaultsCounted DEF GuardsInd
<1>6. GRPCInd'
  BY <1>1, GRPCStep DEF GuardsInd
<1> QED
  BY <1>2, <1>3, <1>4, <1>5, <1>6 DEF GuardsInd

\* So they are always.
LEMMA GuardsAccount == AdmissionSpec => []GuardsInd
BY GuardsInit, GuardsKept, PTL DEF AdmissionSpec

\* The shard never outgrows its capacity and Close returns to nobody before the
\* cleanup has stopped; within any span of a window no client is admitted more
\* often than two windows allow, in memory or in Redis; every token of the gRPC
\* limiter belongs to a handler under way, and a method that may not be retried is
\* executed once at most, and not at all when its caller is told the server was busy
\* (mid/ratelimit.go; contrib/mid/ratelimit/redis/redis.go; mid/grpc_policy.go,
\* GRPCConcurrencyLimiter; grpcx/dial.go, retryServiceConfigValidated).
THEOREM AdmissionAccounts == AdmissionSpec => []AdmissionInv
<1>1. GuardsInd => AdmissionInv
  <2>1. GuardsInd => Inv /\ Redis!TypeOK
    BY LimitersTyped DEF GuardsInd
  <2>2. GuardsInd => WithinAllowance /\ Redis!WithinAllowance
    BY AllowanceKept DEF GuardsInd
  <2>3. GuardsInd => GRPC!Inv
    BY GRPCAccounted DEF GuardsInd
  <2> QED
    BY <2>1, <2>2, <2>3 DEF AdmissionInv
<1> QED
  BY <1>1, GuardsAccount, PTL

\* A limiter refuses only a client that has spent a window's permissions within the
\* last window, and a new one when as many others as the shard holds have spent some
\* (mid/ratelimit.go, Middleware; the script of contrib/mid/ratelimit/redis/redis.go).
THEOREM AdmissionRefusals == AdmissionSpec => []Refusals
<1>1. GuardsInd => Refusals
  <2>1. GuardsInd => RefusesWithCause
    BY MemoryRefusesWithCause DEF GuardsInd
  <2>2. GuardsInd => Redis!RefusesWithCause
    BY RedisRefusesWithCause DEF GuardsInd
  <2> QED
    BY <2>1, <2>2 DEF Refusals
<1> QED
  BY <1>1, GuardsAccount, PTL

\* Neither the client's default timeout nor the server's shortens or lifts the
\* deadline a caller gave: its call ends of it only when it has passed, and the
\* context of a handler never has more time than it and runs out only when it has
\* passed (mid/grpc_client.go, GRPCUnaryClientTimeout and GRPCStreamClientTimeout;
\* mid/grpc_policy.go, GRPCUnaryTimeout and GRPCStreamTimeout).
THEOREM AdmissionDeadlines == AdmissionSpec => Deadlines
<1> DEFINE Stands ==
      \A c \in Calls : profile[c].given # GRPC!NoDeadline =>
        /\ call'[c].result = "deadline" /\ call[c].result # "deadline"
             => call[c].age >= profile[c].given
        /\ \A n \in GRPC!Attempts : task'[c, n].at = "running" =>
              /\ task'[c, n].left \in 0 .. profile[c].given
              /\ task'[c, n].left = 0 /\ call'[c].at # "ended"
                   => call'[c].age >= profile[c].given
<1>1. GuardsInd /\ [Step]_admissionVars => [Stands]_GRPC!vars
  <2> SUFFICES ASSUME GuardsInd, [Step]_admissionVars
               PROVE  Stands
    OBVIOUS
  <2>1. GRPCInd /\ GRPCInd'
    BY GuardsKept DEF GuardsInd
  <2>2. [GRPC!Next]_grpcVars
    BY GuardsStep
  <2> QED
    BY <2>1, <2>2, DeadlinesStand
<1> QED
  BY <1>1, GuardsAccount, PTL DEF AdmissionSpec, Deadlines, GRPC!HonoursDeadlines
=============================================================================
