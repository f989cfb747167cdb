---------------------------- MODULE StreamGroup ----------------------------
(***************************************************************************)
(* What the polls of RunGroupConsumer (contrib/stream/redis/consumer.go)   *)
(* and the primitives of stream.go do to a consumer group: several         *)
(* consumers, each a process that runs the poll loop, share one stream and *)
(* one group kept by Redis.                                                *)
(*                                                                         *)
(* A message is its position in the stream; poison are the ones            *)
(* validateMessageValues refuses (over 1 MiB once encoded).  Redis is      *)
(* external: its commands are atomic, and each may fail before or after    *)
(* taking effect.  How long the loop waits after a failed poll, and what   *)
(* it reports, is module ConsumerLoop; here a failed poll is a visit to    *)
(* "backoff".  Faults of every kind share the budget MaxFaults.            *)
(***************************************************************************)
EXTENDS Integers, FiniteSets

CONSTANTS
    Consumers,
    MaxMessages,        \* bound on the stream's length
    Count,              \* config.Count, the batch size
    MaxFaults           \* bound on failed commands, panics, crashes, lost groups

ConstantsOK == Count \in Nat \ {0} /\ MaxMessages \in Nat /\ MaxFaults \in Nat

VARIABLES
    length,         \* messages published so far
    poison,         \* those that validateMessageValues refuses
    exists,         \* Redis: the group exists
    lastDelivered,  \* Redis: the group's last-delivered position
    pending,        \* Redis: the group's pending entries
    idle,           \* pending entries idle for at least ClaimMinIdle
    pc,             \* per consumer: where its poll is
    groupReady,     \* per consumer: the variable of RunGroupConsumer
    claimCursor,    \* per consumer: 0 is "" and "0-0"
    ticked,         \* per consumer: claimTicker.C holds a tick
    batch,          \* per consumer: messages given to its handler
    handled,        \* history: messages a handler processed and acknowledged
    faults

stream == <<length, poison>>
redis == <<exists, lastDelivered, pending, idle>>
consumer == <<pc, groupReady, claimCursor, ticked, batch>>
vars == <<stream, redis, consumer, handled, faults>>

Ids == 1..MaxMessages
PCs == {"stopped", "poll", "handle", "claim", "handleStale", "backoff"}

TypeOK ==
    /\ length \in 0..MaxMessages
    /\ poison \subseteq 1..length
    /\ exists \in BOOLEAN
    /\ lastDelivered \in 0..length
    /\ pending \subseteq 1..lastDelivered
    /\ idle \subseteq pending
    /\ pc \in [Consumers -> PCs]
    /\ groupReady \in [Consumers -> BOOLEAN]
    /\ claimCursor \in [Consumers -> 0..MaxMessages]
    /\ ticked \in [Consumers -> BOOLEAN]
    /\ batch \in [Consumers -> SUBSET Ids]
    /\ handled \subseteq Ids
    /\ faults \in 0..MaxFaults

Init ==
    /\ length = 0
    /\ poison = {}
    /\ exists = FALSE
    /\ lastDelivered = 0
    /\ pending = {}
    /\ idle = {}
    /\ pc = [c \in Consumers |-> "stopped"]
    /\ groupReady = [c \in Consumers |-> FALSE]
    /\ claimCursor = [c \in Consumers |-> 0]
    /\ ticked = [c \in Consumers |-> FALSE]
    /\ batch = [c \in Consumers |-> {}]
    /\ handled = {}
    /\ faults = 0

At(c, p) == pc[c] = p
Goto(c, p) == pc' = [pc EXCEPT ![c] = p]
Set(f, c, v) == [f EXCEPT ![c] = v]
Fault == faults < MaxFaults /\ faults' = faults + 1

-----------------------------------------------------------------------------
\* Environment.

\* PublishMaxLen appends a message that passed validateMessageValues.
Publish ==
    /\ length < MaxMessages
    /\ length' = length + 1
    /\ UNCHANGED <<poison, redis, consumer, handled, faults>>

\* A producer that does not use this kit appends a message it would refuse.
PublishInvalid ==
    /\ length < MaxMessages
    /\ length' = length + 1
    /\ poison' = poison \cup {length'}
    /\ UNCHANGED <<redis, consumer, handled, faults>>

\* The entry has been idle for ClaimMinIdle.
Age(m) ==
    /\ m \in pending \ idle
    /\ idle' = idle \cup {m}
    /\ UNCHANGED <<stream, exists, lastDelivered, pending, consumer, handled, faults>>

\* claimTicker fires; its channel holds one tick.
TickClaim(c) ==
    /\ pc[c] # "stopped"
    /\ ~ticked[c]
    /\ ticked' = Set(ticked, c, TRUE)
    /\ UNCHANGED <<stream, redis, pc, groupReady, claimCursor, batch, handled, faults>>

\* The group disappears: destroyed, or lost with a failed-over Redis.
LoseGroup ==
    /\ exists
    /\ Fault
    /\ exists' = FALSE
    /\ lastDelivered' = 0
    /\ pending' = {}
    /\ idle' = {}
    /\ UNCHANGED <<stream, consumer, handled>>

\* A process starts RunGroupConsumer; b is config.SkipEnsureGroup.
Start(c) ==
    /\ At(c, "stopped")
    /\ \E b \in BOOLEAN : groupReady' = Set(groupReady, c, b)
    /\ claimCursor' = Set(claimCursor, c, 0)
    /\ ticked' = Set(ticked, c, FALSE)
    /\ Goto(c, "poll")
    /\ UNCHANGED <<stream, redis, batch, handled, faults>>

\* The process dies, or its context is cancelled, anywhere in a poll.
Crash(c) ==
    /\ ~At(c, "stopped")
    /\ Fault
    /\ batch' = Set(batch, c, {})
    /\ Goto(c, "stopped")
    /\ UNCHANGED <<stream, redis, groupReady, claimCursor, ticked, handled>>

-----------------------------------------------------------------------------
\* The poll.

\* EnsureGroup with StartID "0"; BUSYGROUP is not an error.
EnsureGroup(c) ==
    /\ At(c, "poll")
    /\ ~groupReady[c]
    /\ exists' = TRUE
    /\ groupReady' = Set(groupReady, c, TRUE)
    /\ UNCHANGED <<stream, lastDelivered, pending, idle, pc, claimCursor, ticked, batch,
                   handled, faults>>

\* XGROUP CREATE failed, before or after it took effect.
EnsureGroupFails(c) ==
    /\ At(c, "poll")
    /\ ~groupReady[c]
    /\ Fault
    /\ exists' \in {exists, TRUE}
    /\ Goto(c, "backoff")
    /\ UNCHANGED <<stream, lastDelivered, pending, idle, groupReady, claimCursor, ticked,
                   batch, handled>>

\* MUTANT: an unknown group is one more read error.
ReadNoGroupIgnored(c) ==
    /\ At(c, "poll")
    /\ groupReady[c]
    /\ ~exists
    /\ Goto(c, "backoff")
    /\ UNCHANGED <<stream, redis, groupReady, claimCursor, ticked, batch, handled, faults>>

\* XREADGROUP answers NOGROUP: the next poll ensures the group again.
ReadNoGroup(c) ==
    /\ At(c, "poll")
    /\ groupReady[c]
    /\ ~exists
    /\ groupReady' = Set(groupReady, c, FALSE)
    /\ Goto(c, "backoff")
    /\ UNCHANGED <<stream, redis, claimCursor, ticked, batch, handled, faults>>

\* The messages XREADGROUP delivers next.
NewMessages == {m \in (lastDelivered + 1)..length : m <= lastDelivered + Count}

\* MUTANT: XREADGROUP with NoAck, which keeps delivered messages off the
\* pending entries.
XReadGroupNoAck ==
    /\ lastDelivered' = lastDelivered + Cardinality(NewMessages)
    /\ UNCHANGED <<exists, pending, idle>>

\* XREADGROUP ... STREAMS s > : delivered messages become pending entries.
XReadGroup ==
    /\ lastDelivered' = lastDelivered + Cardinality(NewMessages)
    /\ pending' = pending \cup NewMessages
    /\ UNCHANGED <<exists, idle>>

\* validateMessageValues of every message of a batch.
Valid(S) == S \cap poison = {}

\* ReadGroup: nothing new within Block (redis.Nil), a batch for the handler,
\* or an error for the whole batch because one message is invalid.
ReadGroup(c) ==
    /\ At(c, "poll")
    /\ groupReady[c]
    /\ exists
    /\ XReadGroup
    /\ \/ /\ NewMessages = {}
          /\ Goto(c, "claim")
          /\ UNCHANGED batch
       \/ /\ NewMessages # {} /\ Valid(NewMessages)
          /\ batch' = Set(batch, c, NewMessages)
          /\ Goto(c, "handle")
       \/ /\ NewMessages # {} /\ ~Valid(NewMessages)
          /\ Goto(c, "backoff")
          /\ UNCHANGED batch
    /\ UNCHANGED <<stream, groupReady, claimCursor, ticked, handled, faults>>

\* The read failed, before or after Redis delivered the messages.
ReadGroupFails(c) ==
    /\ At(c, "poll")
    /\ groupReady[c]
    /\ Fault
    /\ \/ exists /\ XReadGroup
       \/ UNCHANGED redis
    /\ Goto(c, "backoff")
    /\ UNCHANGED <<stream, groupReady, claimCursor, ticked, batch, handled>>

AfterHandler(c) == IF At(c, "handle") THEN "claim" ELSE "poll"

\* Ack (XACK) of the messages A, which the handler processed before.
Ack(A) ==
    /\ handled' = handled \cup A
    /\ pending' = pending \ A
    /\ idle' = idle \ A
    /\ UNCHANGED <<exists, lastDelivered>>

\* The handler processed and acknowledged the batch; invokeHandler returns nil.
HandlerReturns(c) ==
    /\ pc[c] \in {"handle", "handleStale"}
    /\ Ack(batch[c])
    /\ batch' = Set(batch, c, {})
    /\ Goto(c, AfterHandler(c))
    /\ UNCHANGED <<stream, groupReady, claimCursor, ticked, faults>>

\* The handler panicked after some messages; invokeHandler turns that into an
\* error and the rest of the batch stays pending.
HandlerPanics(c) ==
    /\ pc[c] \in {"handle", "handleStale"}
    /\ Fault
    /\ \E A \in SUBSET batch[c] : Ack(A)
    /\ batch' = Set(batch, c, {})
    /\ Goto(c, "backoff")
    /\ UNCHANGED <<stream, groupReady, claimCursor, ticked>>

\* The handler returned without acknowledging everything (its Ack failed).
HandlerSkips(c) ==
    /\ pc[c] \in {"handle", "handleStale"}
    /\ Fault
    /\ \E A \in SUBSET batch[c] : Ack(A)
    /\ batch' = Set(batch, c, {})
    /\ Goto(c, AfterHandler(c))
    /\ UNCHANGED <<stream, groupReady, claimCursor, ticked>>

\* No tick: the select's default, and the poll is over.
NoClaim(c) ==
    /\ At(c, "claim")
    /\ ~ticked[c]
    /\ Goto(c, "poll")
    /\ UNCHANGED <<stream, redis, groupReady, claimCursor, ticked, batch, handled, faults>>

\* XAUTOCLAIM scans the pending entries from a cursor, claims the first Count
\* that are idle, and returns the entry after the last one it scanned, or 0.
Claimable(start) == {m \in idle : m >= start}
Claimed(start) ==
    {m \in Claimable(start) : Cardinality({n \in Claimable(start) : n < m}) < Count}
CursorAfter(start) ==
    LET rest == {m \in pending : \A n \in Claimed(start) : m > n}
    IN  IF Cardinality(Claimed(start)) < Count \/ rest = {} THEN 0
        ELSE CHOOSE m \in rest : \A n \in rest : m <= n

\* claimCursor = next
NextCursor(c) == CursorAfter(claimCursor[c])

\* ClaimStale: nothing stale, a batch for the handler, or an error because one
\* message is invalid, which leaves claimCursor where it was.
ClaimStale(c) ==
    /\ At(c, "claim")
    /\ ticked[c]
    /\ exists
    /\ ticked' = Set(ticked, c, FALSE)
    /\ idle' = idle \ Claimed(claimCursor[c])
    /\ \/ /\ Claimed(claimCursor[c]) = {}
          /\ claimCursor' = Set(claimCursor, c, NextCursor(c))
          /\ Goto(c, "poll")
          /\ UNCHANGED batch
       \/ /\ Claimed(claimCursor[c]) # {} /\ Valid(Claimed(claimCursor[c]))
          /\ claimCursor' = Set(claimCursor, c, NextCursor(c))
          /\ batch' = Set(batch, c, Claimed(claimCursor[c]))
          /\ Goto(c, "handleStale")
       \/ /\ ~Valid(Claimed(claimCursor[c]))
          /\ Goto(c, "backoff")
          /\ UNCHANGED <<claimCursor, batch>>
    /\ UNCHANGED <<stream, exists, lastDelivered, pending, groupReady, handled, faults>>

\* The claim failed: no group, or a fault before or after it took effect.
ClaimStaleFails(c) ==
    /\ At(c, "claim")
    /\ ticked[c]
    /\ ticked' = Set(ticked, c, FALSE)
    /\ \/ ~exists /\ UNCHANGED <<idle, faults>>
       \/ Fault /\ idle' \in {idle, idle \ Claimed(claimCursor[c])}
    /\ Goto(c, "backoff")
    /\ UNCHANGED <<stream, exists, lastDelivered, pending, groupReady, claimCursor, batch,
                   handled>>

\* runConsumerLoop slept and polls again.
Backoff(c) ==
    /\ At(c, "backoff")
    /\ Goto(c, "poll")
    /\ UNCHANGED <<stream, redis, groupReady, claimCursor, ticked, batch, handled, faults>>

-----------------------------------------------------------------------------
\* What a running consumer does by itself, faults apart.
Step(c) ==
    \/ EnsureGroup(c) \/ ReadNoGroup(c) \/ ReadGroup(c)
    \/ HandlerReturns(c)
    \/ NoClaim(c) \/ ClaimStale(c) \/ ClaimStaleFails(c)
    \/ Backoff(c)

Next ==
    \/ Publish \/ PublishInvalid
    \/ LoseGroup
    \/ \E m \in Ids : Age(m)
    \/ \E c \in Consumers :
          \/ Start(c) \/ Crash(c) \/ TickClaim(c)
          \/ Step(c)
          \/ EnsureGroupFails(c) \/ ReadGroupFails(c)
          \/ HandlerPanics(c) \/ HandlerSkips(c)

Spec == Init /\ [][Next]_vars

\* Processes are restarted and run.
Running(c) == Start(c) \/ Step(c)

\* Time passes as well: tickers fire, entries age.
FairSpec ==
    /\ Spec
    /\ WF_vars(\E m \in Ids : Age(m))
    /\ \A c \in Consumers : WF_vars(TickClaim(c)) /\ WF_vars(Running(c))

-----------------------------------------------------------------------------
\* At-least-once: while the group exists, a message handed out and not yet
\* acknowledged is still pending, so that ClaimStale can find it again, after
\* a crash, a panic, a lost reply or a refused batch.
UnackedIsPending == exists => \A m \in 1..lastDelivered : m \in handled \cup pending

\* No handler is given a message that validateMessageValues refuses.
HandlersSeeValid == \A c \in Consumers : batch[c] \cap poison = {}

\* The group and its consumers agree on what is delivered and what may be
\* handled.
Inv == TypeOK /\ UnackedIsPending /\ HandlersSeeValid

Delivery == INSTANCE AtLeastOnce
    WITH Messages <- Ids, processed <- handled, refused <- poison,
         place <- [m \in Ids |-> IF m > length THEN "unpublished"
                                 ELSE IF m > lastDelivered THEN "waiting"
                                 ELSE IF m \in pending THEN "handedOut" ELSE "settled"]

\* The group delivers at least once: no message is settled without having been
\* processed, and while every message in the stream is valid each is processed
\* in the end, through reads, claims, crashes, a lost group and whatever else
\* goes wrong finitely often.
DeliversAtLeastOnce == Delivery!Spec
=============================================================================
