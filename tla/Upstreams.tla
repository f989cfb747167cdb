----------------------------- MODULE Upstreams -----------------------------
(***************************************************************************)
(* Service discovery on the client side: registry.WatchUpstreamsWithOptions*)
(* (the goroutine that reconciles every watch event against Discover and   *)
(* publishes snapshots with a bounded last-known-good fallback) and the    *)
(* registry.Resolver that consumes the snapshots.                          *)
(*                                                                         *)
(* Time is kept as ages, not as instants: age is time.Now() - staleSince   *)
(* capped at the grace period, resyncClock the phase of the resync ticker. *)
(* UpstreamSnapshot.StaleSince is therefore not part of a snapshot: within *)
(* one outage it is constant (see OutageOnlyShrinks) and between two       *)
(* outages a fresh snapshot is sent, so it never decides DeepEqual.        *)
(*                                                                         *)
(* The registry behind the Discovery interface is external.  Discover      *)
(* returns the instances registered at the moment it reads them, an error  *)
(* (backend down), or nothing until its context ends (backend hung).       *)
(***************************************************************************)
EXTENDS Naturals, Sequences, FiniteSets

CONSTANTS
    Instances,      \* everything that may be registered under the name
    Accepted,       \* the instances options.Filter accepts
    Grace,          \* staleGracePeriod in ticks
    Resync,         \* resyncInterval in ticks
    ChanCap,        \* capacity of the snapshot channel (8 in the code)
    MayHang         \* whether a Discover call may block

ASSUME AcceptedAssumption == Accepted \subseteq Instances
ASSUME GraceAssumption == Grace \in Nat \ {0}
ASSUME ResyncAssumption == Resync \in Nat \ {0}
ASSUME ChanCapAssumption == ChanCap \in Nat \ {0}
ASSUME MayHangAssumption == MayHang \in BOOLEAN

VARIABLES
    \* the registry (external)
    live,           \* registered and healthy instances
    backend,        \* how Discover behaves now
    eventPending,   \* an unread event in the watch channel
    eventsOpen,     \* the watch channel has not been closed
    ctxDone,        \* watchCtx is cancelled
    \* the watching goroutine
    pc,
    result,         \* what the last Discover returned
    out,            \* the snapshot publish is about to send
    watchOpen,      \* drainEvents saw the channel still open
    lastGood,       \* upstreamState.lastGood
    outage,         \* ~upstreamState.staleSince.IsZero()
    age,            \* time since staleSince, at most Grace
    timerArmed,     \* staleTimerC # nil
    resyncClock,    \* phase of the resync ticker
    tickDue,        \* a tick waits in resync.C
    lastSent,       \* the last snapshot delivered to ch
    \* the snapshot channel and the Resolver
    ch,
    cache,          \* Resolver.services
    resolverDone    \* Resolver.done is closed

env == <<live, backend, eventsOpen, ctxDone>>
fallback == <<lastGood, outage, age>>
clocks == <<resyncClock, tickDue>>
resolver == <<cache, resolverDone>>
vars == <<env, eventPending, pc, result, out, watchOpen, fallback, timerArmed,
          clocks, lastSent, ch, resolver>>

PCs == {"watch", "discover0", "first", "select", "discover", "publish",
        "send", "stopped", "failed"}
Snapshots == [services : SUBSET Accepted, stale : BOOLEAN]
\* What Discover returned: an error (services are then ignored) or a set.
Results == [err : BOOLEAN, services : SUBSET Instances]
NoResult == [err |-> FALSE, services |-> {}]
NoSnapshot == [services |-> {}, stale |-> FALSE]

TypeOK ==
    /\ live \subseteq Instances
    /\ backend \in {"up", "down", "hung"}
    /\ eventPending \in BOOLEAN /\ eventsOpen \in BOOLEAN /\ ctxDone \in BOOLEAN
    /\ pc \in PCs
    /\ result \in Results
    /\ out \in Snapshots
    /\ watchOpen \in BOOLEAN
    /\ lastGood \subseteq Accepted
    /\ outage \in BOOLEAN /\ age \in 0 .. Grace
    /\ timerArmed \in BOOLEAN
    /\ resyncClock \in 0 .. Resync - 1 /\ tickDue \in BOOLEAN
    /\ lastSent \in Snapshots
    /\ ch \in Seq(Snapshots) /\ Len(ch) <= ChanCap
    /\ cache \subseteq Accepted
    /\ resolverDone \in BOOLEAN

Init ==
    /\ live \in SUBSET Instances
    /\ backend = "up"
    /\ eventPending = FALSE /\ eventsOpen = TRUE /\ ctxDone = FALSE
    /\ pc = "watch"
    /\ result = NoResult
    /\ out = NoSnapshot
    /\ watchOpen = TRUE
    /\ lastGood = {} /\ outage = FALSE /\ age = 0
    /\ timerArmed = FALSE
    /\ resyncClock = 0 /\ tickDue = FALSE
    /\ lastSent = NoSnapshot
    /\ ch = <<>>
    /\ cache = {}
    /\ resolverDone = FALSE

-----------------------------------------------------------------------------
(* The environment.                                                        *)

\* Instances register and deregister; the watch usually reports the change,
\* but the report may be lost, which is what the resync ticker is for.
Change(S) ==
    /\ S # live
    /\ live' = S
    /\ eventPending' \in (IF eventsOpen THEN {eventPending, TRUE} ELSE {eventPending})
    /\ UNCHANGED <<backend, eventsOpen, ctxDone, pc, result, out, watchOpen, fallback,
                   timerArmed, clocks, lastSent, ch, resolver>>

SetBackend(b) ==
    /\ b # backend
    /\ b = "hung" => MayHang
    /\ backend' = b
    /\ UNCHANGED <<live, eventPending, eventsOpen, ctxDone, pc, result, out, watchOpen,
                   fallback, timerArmed, clocks, lastSent, ch, resolver>>

\* The Discovery implementation closes its event channel.
CloseEvents ==
    /\ eventsOpen /\ pc \notin {"watch", "failed"}
    /\ eventsOpen' = FALSE
    /\ UNCHANGED <<live, backend, eventPending, ctxDone, pc, result, out, watchOpen,
                   fallback, timerArmed, clocks, lastSent, ch, resolver>>

\* Resolver.Close, or the end of the caller's context.  Before NewResolver
\* has returned only the latter can happen; the effect is the same.
Cancel ==
    /\ ~ctxDone
    /\ ctxDone' = TRUE
    /\ UNCHANGED <<live, backend, eventPending, eventsOpen, pc, result, out, watchOpen,
                   fallback, timerArmed, clocks, lastSent, ch, resolver>>

\* Mutant: the resync ticker is created but its ticks are missed.
TickWithoutResync ==
    /\ age' = IF outage /\ age < Grace THEN age + 1 ELSE age
    /\ UNCHANGED <<env, eventPending, pc, result, out, watchOpen, lastGood, outage,
                   timerArmed, clocks, lastSent, ch, resolver>>

\* A tick of the clock: the outage ages, the resync ticker advances and, at
\* the end of its interval, leaves one tick in its one-slot channel.
Tick ==
    /\ age' = IF outage /\ age < Grace THEN age + 1 ELSE age
    /\ IF pc \in {"watch", "discover0", "first", "stopped", "failed"}
       THEN UNCHANGED clocks
       ELSE /\ resyncClock' = (resyncClock + 1) % Resync
            /\ tickDue' = (tickDue \/ resyncClock + 1 = Resync)
    /\ UNCHANGED <<env, eventPending, pc, result, out, watchOpen, lastGood, outage,
                   timerArmed, lastSent, ch, resolver>>

-----------------------------------------------------------------------------
(* WatchUpstreamsWithOptions up to its return.                             *)

\* r.Watch returns its channel; or it fails, or initialTimeout fires first.
InitialWatch ==
    /\ pc = "watch"
    /\ \/ backend = "up" /\ ~ctxDone /\ pc' = "discover0" /\ UNCHANGED ctxDone
       \/ pc' = "failed" /\ ctxDone' = TRUE
    /\ UNCHANGED <<live, backend, eventPending, eventsOpen, result, out, watchOpen,
                   fallback, timerArmed, clocks, lastSent, ch, resolver>>

\* The first Discover, under the same timeout; an error makes the call fail
\* and cancels the watch.
InitialDiscover ==
    /\ pc = "discover0"
    /\ \/ /\ backend = "up" /\ ~ctxDone
          /\ result' = [err |-> FALSE, services |-> live]
          /\ pc' = "first"
          /\ UNCHANGED ctxDone
       \/ /\ pc' = "failed" /\ ctxDone' = TRUE
          /\ UNCHANGED result
    /\ UNCHANGED <<live, backend, eventPending, eventsOpen, out, watchOpen,
                   fallback, timerArmed, clocks, lastSent, ch, resolver>>

-----------------------------------------------------------------------------
(* upstreamState.snapshot.                                                 *)

\* filterServices after the error case: what a Discover result is worth.
Usable(r) == IF r.err THEN {} ELSE r.services \cap Accepted

\* Mutant: every unusable result restarts the outage.
ObserveRestarting(usable) ==
    IF usable # {}
    THEN lastGood' = usable /\ outage' = FALSE /\ age' = 0
    ELSE lastGood' = lastGood /\ outage' = TRUE /\ age' = 0

\* The fallback state after a result: a usable one becomes the last known
\* good, the first unusable one starts the outage, further ones change
\* nothing.
Observe(usable) ==
    IF usable # {}
    THEN lastGood' = usable /\ outage' = FALSE /\ age' = 0
    ELSE lastGood' = lastGood /\ outage' = TRUE /\ age' = IF outage THEN age ELSE 0

\* The snapshot itself: fresh, fallback within the grace period, or empty.
SnapshotOf(usable, good, staleFor) ==
    [services |-> IF usable # {} THEN usable
                  ELSE IF staleFor < Grace THEN good ELSE {},
     stale    |-> usable = {}]

\* The duration snapshot returns is positive exactly for a non-empty
\* fallback, and resetStaleTimer arms the timer then.
NeedsTimer(s) == s.stale /\ s.services # {}

-----------------------------------------------------------------------------
(* The goroutine.                                                          *)

Stop == pc' = "stopped" /\ UNCHANGED <<lastSent, ch>>

\* The initial snapshot: lastGood is seeded with the services themselves.
\* The channel is empty and buffered; sendSnapshot may still prefer a
\* cancelled context.
FirstSnapshot ==
    LET usable == Usable(result)
        s == SnapshotOf(usable, usable, 0)
    IN  /\ pc = "first"
        /\ lastGood' = usable
        /\ outage' = (usable = {}) /\ age' = 0
        /\ \/ /\ ch' = Append(ch, s)
              /\ lastSent' = s
              /\ pc' = "select"
           \/ ctxDone /\ Stop
        /\ timerArmed' = NeedsTimer(s)
        /\ UNCHANGED <<env, eventPending, result, out, watchOpen, clocks, resolver>>

OnDone ==
    /\ pc = "select" /\ ctxDone
    /\ Stop
    /\ UNCHANGED <<env, eventPending, result, out, watchOpen, fallback, timerArmed,
                   clocks, resolver>>

\* An event: drainEvents empties the channel and reports whether it is open.
OnEvent ==
    /\ pc = "select" /\ eventPending
    /\ eventPending' = FALSE
    /\ watchOpen' = eventsOpen
    /\ pc' = "discover"
    /\ UNCHANGED <<env, result, out, fallback, timerArmed, clocks, lastSent, ch, resolver>>

OnEventsClosed ==
    /\ pc = "select" /\ ~eventPending /\ ~eventsOpen
    /\ Stop
    /\ UNCHANGED <<env, eventPending, result, out, watchOpen, fallback, timerArmed,
                   clocks, resolver>>

OnResync ==
    /\ pc = "select" /\ tickDue
    /\ tickDue' = FALSE
    /\ watchOpen' = TRUE
    /\ pc' = "discover"
    /\ UNCHANGED <<env, eventPending, result, out, fallback, timerArmed, resyncClock,
                   lastSent, ch, resolver>>

OnStaleTimer ==
    /\ pc = "select" /\ timerArmed /\ age = Grace
    /\ timerArmed' = FALSE
    /\ watchOpen' = TRUE
    /\ pc' = "discover"
    /\ UNCHANGED <<env, eventPending, result, out, fallback, clocks, lastSent, ch, resolver>>

\* Mutant: Discover is given a context that does not end with the watch.
DiscoverWithoutContext ==
    /\ pc = "discover"
    /\ \/ backend = "up" /\ result' = [err |-> FALSE, services |-> live]
       \/ backend = "down" /\ result' = [err |-> TRUE, services |-> {}]
    /\ pc' = "publish"
    /\ UNCHANGED <<env, eventPending, out, watchOpen, fallback, timerArmed, clocks,
                   lastSent, ch, resolver>>

\* Discover(watchCtx, name) returns.  It has no deadline of its own: while
\* the backend hangs only the end of watchCtx makes it return.
DiscoverReturns ==
    /\ pc = "discover"
    /\ \/ backend = "up" /\ result' = [err |-> FALSE, services |-> live]
       \/ /\ backend = "down" \/ ctxDone
          /\ result' = [err |-> TRUE, services |-> {}]
    /\ pc' = "publish"
    /\ UNCHANGED <<env, eventPending, out, watchOpen, fallback, timerArmed, clocks,
                   lastSent, ch, resolver>>

\* Mutant: a snapshot equal to the last one stops the timer and returns.
PublishDroppingTimer ==
    LET usable == Usable(result)
        s == SnapshotOf(usable, lastGood, IF outage THEN age ELSE 0)
    IN  /\ pc = "publish"
        /\ Observe(usable)
        /\ timerArmed' = (s # lastSent /\ NeedsTimer(s))
        /\ out' = IF s # lastSent THEN s ELSE NoSnapshot
        /\ pc' = IF s # lastSent THEN "send"
                 ELSE IF watchOpen THEN "select" ELSE "stopped"
        /\ result' = NoResult
        /\ UNCHANGED <<env, eventPending, watchOpen, clocks, lastSent, ch, resolver>>

\* publish up to its send: update the fallback state, re-arm the timer and
\* skip a snapshot equal to the last one.
Publish ==
    LET usable == Usable(result)
        s == SnapshotOf(usable, lastGood, IF outage THEN age ELSE 0)
    IN  /\ pc = "publish"
        /\ Observe(usable)
        /\ timerArmed' = NeedsTimer(s)
        /\ out' = IF s # lastSent THEN s ELSE NoSnapshot
        /\ pc' = IF s # lastSent THEN "send"
                 ELSE IF watchOpen THEN "select" ELSE "stopped"
        /\ result' = NoResult
        /\ UNCHANGED <<env, eventPending, watchOpen, clocks, lastSent, ch, resolver>>

\* sendSnapshot delivers the snapshot once the channel has room ...
Send ==
    /\ pc = "send" /\ Len(ch) < ChanCap
    /\ ch' = Append(ch, out)
    /\ lastSent' = out
    /\ out' = NoSnapshot
    /\ pc' = IF watchOpen THEN "select" ELSE "stopped"
    /\ UNCHANGED <<env, eventPending, result, watchOpen, fallback, timerArmed,
                   clocks, resolver>>

\* ... or gives up when the context ends.
SendAborted ==
    /\ pc = "send" /\ ctxDone
    /\ out' = NoSnapshot
    /\ Stop
    /\ UNCHANGED <<env, eventPending, result, watchOpen, fallback, timerArmed,
                   clocks, resolver>>

-----------------------------------------------------------------------------
(* The Resolver's goroutine.                                               *)

Receive ==
    /\ ch # <<>>
    /\ cache' = Head(ch).services
    /\ ch' = Tail(ch)
    /\ UNCHANGED <<env, eventPending, pc, result, out, watchOpen, fallback,
                   timerArmed, clocks, lastSent, resolverDone>>

\* The watching goroutine closed ch on its way out, and ch is drained.
ReceiveClosed ==
    /\ pc = "stopped" /\ ch = <<>> /\ ~resolverDone
    /\ resolverDone' = TRUE
    /\ UNCHANGED <<env, eventPending, pc, result, out, watchOpen, fallback,
                   timerArmed, clocks, lastSent, ch, cache>>

-----------------------------------------------------------------------------
Loop == \/ FirstSnapshot \/ OnDone \/ OnEvent \/ OnEventsClosed \/ OnResync
        \/ OnStaleTimer \/ DiscoverReturns \/ Publish \/ Send \/ SendAborted

Next ==
    \/ \E S \in SUBSET Instances : Change(S)
    \/ \E b \in {"up", "down", "hung"} : SetBackend(b)
    \/ CloseEvents
    \/ Cancel
    \/ Tick
    \/ InitialWatch \/ InitialDiscover
    \/ FirstSnapshot
    \/ OnDone \/ OnEvent \/ OnEventsClosed \/ OnResync \/ OnStaleTimer
    \/ DiscoverReturns \/ Publish \/ Send \/ SendAborted
    \/ Receive \/ ReceiveClosed

Spec == Init /\ [][Next]_vars

\* The clock runs, both goroutines are scheduled, and a select statement that
\* finds the same case ready again and again picks it at some time (Go
\* chooses uniformly among the ready cases).  Nothing is assumed about when
\* the registry changes, fails or recovers.
Fairness ==
    /\ WF_vars(Tick)
    /\ WF_vars(InitialWatch) /\ WF_vars(InitialDiscover)
    /\ WF_vars(Loop)
    /\ SF_vars(OnDone) /\ SF_vars(OnEvent) /\ SF_vars(OnResync)
    /\ SF_vars(OnStaleTimer)
    /\ WF_vars(Receive) /\ WF_vars(ReceiveClosed)

FairSpec == Spec /\ Fairness

-----------------------------------------------------------------------------
Good == live \cap Accepted

\* While an outage lasts the announced upstreams only shrink and its clock
\* only advances: repeated failures and resyncs do not extend the grace
\* period, and a fallback that has been withdrawn does not come back.
OutageOnlyShrinks ==
    [][/\ lastSent.stale /\ lastSent'.stale
             => lastSent'.services \subseteq lastSent.services
       /\ outage /\ outage' => age' >= age]_vars

\* While routable instances are announced as a fallback, the expiry timer is
\* armed or its work is under way: expiry does not depend on a further event.
FallbackHasTimer ==
    NeedsTimer(lastSent) /\ pc = "select" => timerArmed

\* A consumer is woken only by news: two consecutive snapshots in the channel
\* differ, and the last one is the one the goroutine remembers having sent.
SnapshotsAreNews ==
    /\ \A i \in 1 .. Len(ch) - 1 : ch[i] # ch[i + 1]
    /\ ch # <<>> => ch[Len(ch)] = lastSent
    /\ ch = <<>> /\ pc \notin {"watch", "discover0", "first", "failed"}
         => cache = lastSent.services

\* The state of the watching goroutine and its resolver is consistent: well
\* typed, a fallback that will expire, and a cache that is the last snapshot
\* sent once the channel is drained.
Inv == TypeOK /\ FallbackHasTimer /\ SnapshotsAreNews

\* When the registry stops changing, the Resolver ends up with exactly the
\* registered accepted instances if Discover works, and with none if it keeps
\* failing or nothing is registered, although watch events may be lost.
Converges ==
    <>[][FALSE]_env =>
        <>[](\/ ctxDone \/ ~eventsOpen \/ backend = "hung"
             \/ cache = IF backend = "up" THEN Good ELSE {})

\* Resolver.Close (cancel, then wait for done) returns, even when a Discover
\* call is blocked in the registry.
CloseReturns == (ctxDone /\ pc # "failed") ~> (resolverDone \/ pc = "failed")

\* Last-known-good services expire after the grace period instead of
\* remaining routable indefinitely (registry.go, WatchUpstreamsWithOptions).
\* Stated for an open watch whose registry has lost all accepted instances.
FallbackExpires ==
    <>[][FALSE]_env =>
        (NeedsTimer(lastSent) /\ Good = {} /\ eventsOpen /\ ~ctxDone
             ~> (cache = {} \/ ctxDone \/ ~eventsOpen \/ Good # {}))
=============================================================================
