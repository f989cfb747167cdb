-------------------------- MODULE UpstreamsProofs --------------------------
(***************************************************************************)
(* Theorems about Upstreams: the invariant of the watching goroutine and   *)
(* its resolver, and that an outage only shrinks what is announced.        *)
(*                                                                         *)
(* What the goroutine announced and the fallback state it keeps are two    *)
(* copies of one history; AnnouncedFor says how they agree.  The second    *)
(* half of OutageOnlyShrinks rests on it: a fallback that was withdrawn    *)
(* had run out, and its clock does not go back before the registry works.  *)
(***************************************************************************)
EXTENDS Upstreams, TLAPS

Starting == {"watch", "discover0", "first", "failed"}
Watching == {"select", "discover", "publish"}

\* Nothing was announced before the first snapshot, and no outage noticed.
NothingYet ==
    pc \in Starting => ch = <<>> /\ cache = {} /\ lastSent = NoSnapshot /\ ~outage

\* A snapshot s is what the fallback state calls for: stale in an outage, and then
\* the last known good instances or, once the grace period is over, none.
AnnouncedFor(s) ==
    /\ s.stale <=> outage
    /\ s.stale => s.services = lastGood \/ (s.services = {} /\ age = Grace)

Announced ==
    /\ pc \in Watching => AnnouncedFor(lastSent)
    /\ pc = "send" =>
         /\ AnnouncedFor(out)
         /\ out # lastSent
         /\ NeedsTimer(out) => timerArmed
         /\ lastSent.stale /\ out.stale => out.services \subseteq lastSent.services

IndInv == Inv /\ NothingYet /\ Announced

Shrinks ==
    /\ lastSent.stale /\ lastSent'.stale => lastSent'.services \subseteq lastSent.services
    /\ outage /\ outage' => age' >= age

-----------------------------------------------------------------------------
\* Before Watch is called nothing was announced and no outage noticed.
LEMMA IndInit == Init => IndInv
<1> SUFFICES ASSUME Init PROVE IndInv OBVIOUS
<1> USE GraceAssumption, ResyncAssumption, ChanCapAssumption DEF Init
<1>1. NoResult \in Results /\ NoSnapshot \in Snapshots
  BY DEF NoResult, Results, NoSnapshot, Snapshots
<1>2. ch \in Seq(Snapshots) /\ Len(ch) = 0 OBVIOUS
<1>3. age \in 0 .. Grace /\ resyncClock \in 0 .. Resync - 1 /\ 0 <= ChanCap OBVIOUS
<1>4. TypeOK BY <1>1, <1>2, <1>3 DEF TypeOK, PCs
<1>5. FallbackHasTimer /\ SnapshotsAreNews BY <1>2 DEF FallbackHasTimer, SnapshotsAreNews
<1>6. NothingYet /\ Announced BY DEF NothingYet, Announced, Watching
<1> QED BY <1>4, <1>5, <1>6 DEF IndInv, Inv

\* What is usable is accepted, and a snapshot holds accepted instances.
LEMMA SnapshotType ==
    ASSUME NEW r \in Results, NEW good \in SUBSET Accepted, NEW n \in Nat
    PROVE  /\ Usable(r) \subseteq Accepted
           /\ SnapshotOf(Usable(r), good, n) \in Snapshots
           /\ NeedsTimer(SnapshotOf(Usable(r), good, n)) \in BOOLEAN
BY DEF Usable, SnapshotOf, Snapshots, Results, NeedsTimer

\* The registry changes, fails, or loses its events.
LEMMA RegistryStep ==
    ASSUME IndInv, \/ \E S \in SUBSET Instances : Change(S)
                   \/ \E b \in {"up", "down", "hung"} : SetBackend(b)
                   \/ CloseEvents \/ Cancel
    PROVE  IndInv' /\ Shrinks
<1> USE DEF IndInv, Inv
<1>1. /\ UNCHANGED <<pc, result, out, watchOpen, fallback, timerArmed, clocks, lastSent, ch, resolver>>
      /\ live' \subseteq Instances /\ backend' \in {"up", "down", "hung"}
      /\ eventPending' \in BOOLEAN /\ eventsOpen' \in BOOLEAN /\ ctxDone' \in BOOLEAN
  BY DEF Change, SetBackend, CloseEvents, Cancel, TypeOK
<1>2. TypeOK' BY <1>1 DEF TypeOK, fallback, clocks, resolver
<1>3. FallbackHasTimer' /\ SnapshotsAreNews'
  BY <1>1 DEF FallbackHasTimer, SnapshotsAreNews, resolver
<1>4. NothingYet' /\ Announced'
  BY <1>1 DEF NothingYet, Announced, AnnouncedFor, fallback, resolver
<1>5. Shrinks BY <1>1 DEF Shrinks, TypeOK, fallback
<1> QED BY <1>2, <1>3, <1>4, <1>5

\* Time lets an outage grow older and stops at the grace period.
LEMMA TickStep ==
    ASSUME IndInv, Tick
    PROVE  IndInv' /\ Shrinks
<1> USE GraceAssumption, ResyncAssumption DEF IndInv, Inv, Tick, env, resolver
<1>1. age' \in 0 .. Grace /\ age' >= age /\ (age = Grace => age' = Grace)
  BY DEF TypeOK
<1>2. resyncClock' \in 0 .. Resync - 1 /\ tickDue' \in BOOLEAN
  <2>1. resyncClock \in 0 .. Resync - 1 /\ tickDue \in BOOLEAN BY DEF TypeOK
  <2>2. (resyncClock + 1) % Resync \in 0 .. Resync - 1 BY <2>1
  <2> QED BY <2>1, <2>2 DEF clocks
<1>3. TypeOK' BY <1>1, <1>2 DEF TypeOK
<1>4. FallbackHasTimer' /\ SnapshotsAreNews' BY DEF FallbackHasTimer, SnapshotsAreNews
<1>5. NothingYet' /\ Announced' BY <1>1 DEF NothingYet, Announced, AnnouncedFor
<1>6. Shrinks BY <1>1 DEF Shrinks
<1> QED BY <1>3, <1>4, <1>5, <1>6

\* The calls before the loop announce nothing.
LEMMA InitialStep ==
    ASSUME IndInv, InitialWatch \/ InitialDiscover
    PROVE  IndInv' /\ Shrinks
<1> USE DEF IndInv, Inv, InitialWatch, InitialDiscover
<1>1. UNCHANGED <<eventPending, out, watchOpen, fallback, timerArmed, clocks, lastSent, ch, resolver>>
      /\ pc \in Starting /\ pc' \in {"discover0", "first", "failed"}
  BY DEF Starting
<1>2. result' \in Results
  <2>1. [err |-> FALSE, services |-> live] \in Results BY DEF TypeOK, Results
  <2> QED BY <2>1 DEF TypeOK
<1>7. UNCHANGED <<live, backend, eventsOpen>> /\ ctxDone' \in BOOLEAN BY DEF TypeOK
<1>3. TypeOK' BY <1>1, <1>2, <1>7 DEF TypeOK, fallback, clocks, resolver, PCs
<1>4. FallbackHasTimer' /\ SnapshotsAreNews'
  BY <1>1 DEF FallbackHasTimer, SnapshotsAreNews, resolver, Starting
<1>5. NothingYet' /\ Announced'
  BY <1>1 DEF NothingYet, Announced, Watching, Starting, fallback, resolver
<1>6. Shrinks BY <1>1 DEF Shrinks, NothingYet, fallback
<1> QED BY <1>3, <1>4, <1>5, <1>6

\* The first snapshot is fresh, or empty and stale.
LEMMA FirstSnapshotStep ==
    ASSUME IndInv, FirstSnapshot
    PROVE  IndInv' /\ Shrinks
<1> DEFINE usable == Usable(result)
           s == SnapshotOf(usable, usable, 0)
<1> USE DEF IndInv, Inv
<1>1. usable \subseteq Accepted /\ s \in Snapshots /\ NeedsTimer(s) \in BOOLEAN
  BY SnapshotType DEF TypeOK, Usable, Results
<1>2. /\ s.stale = (usable = {}) /\ s.services = usable /\ ~NeedsTimer(s)
  BY GraceAssumption DEF SnapshotOf, NeedsTimer
<1>3. /\ pc = "first" /\ ch = <<>> /\ cache = {} /\ lastSent = NoSnapshot
  BY DEF FirstSnapshot, NothingYet, Starting
<1>4. /\ lastGood' = usable /\ outage' = (usable = {}) /\ age' = 0
      /\ timerArmed' = NeedsTimer(s)
      /\ UNCHANGED <<env, eventPending, result, out, watchOpen, clocks, resolver>>
      /\ \/ ch' = Append(ch, s) /\ lastSent' = s /\ pc' = "select"
         \/ pc' = "stopped" /\ lastSent' = lastSent /\ ch' = ch
  BY DEF FirstSnapshot, Stop
<1> HIDE DEF s, usable
<1>5. ch' = <<s>> \/ ch' = <<>> BY <1>3, <1>4
<1>6. ch' \in Seq(Snapshots) /\ Len(ch') <= ChanCap
  <2>1. CASE ch' = <<s>>
    <3>1. <<s>> \in Seq(Snapshots) /\ Len(<<s>>) = 1 BY <1>1
    <3> QED BY <2>1, <3>1, ChanCapAssumption
  <2>2. CASE ch' = <<>> BY <2>2, ChanCapAssumption
  <2> QED BY <1>5, <2>1, <2>2
<1>7. TypeOK'
  BY <1>1, <1>4, <1>6, GraceAssumption DEF TypeOK, env, clocks, resolver, PCs
<1>8. FallbackHasTimer' BY <1>2, <1>3, <1>4 DEF FallbackHasTimer, NeedsTimer, NoSnapshot
<1>9. SnapshotsAreNews'
  BY <1>3, <1>4, <1>5 DEF SnapshotsAreNews, resolver, NoSnapshot
<1>10. NothingYet' BY <1>4 DEF NothingYet, Starting
<1>11. Announced' BY <1>2, <1>4 DEF Announced, AnnouncedFor, Watching
<1>12. Shrinks BY <1>3, <1>4 DEF Shrinks, NoSnapshot, NothingYet, Starting
<1> QED BY <1>7, <1>8, <1>9, <1>10, <1>11, <1>12

\* A case of select, or the return of Discover, announces nothing.
LEMMA SelectStep ==
    ASSUME IndInv, \/ OnDone \/ OnEvent \/ OnEventsClosed \/ OnResync \/ OnStaleTimer
                   \/ DiscoverReturns
    PROVE  IndInv' /\ Shrinks
<1> USE DEF IndInv, Inv
<1>1. /\ UNCHANGED <<env, out, fallback, resyncClock, lastSent, ch, resolver>>
      /\ pc \in Watching /\ pc' \in {"discover", "publish", "stopped"}
      /\ timerArmed' \in BOOLEAN /\ tickDue' \in BOOLEAN /\ watchOpen' \in BOOLEAN
      /\ eventPending' \in BOOLEAN /\ result' \in Results
  <2>1. [err |-> FALSE, services |-> live] \in Results /\ [err |-> TRUE, services |-> {}] \in Results
    BY DEF TypeOK, Results
  <2>2. CASE OnDone \/ OnEventsClosed
    BY <2>2 DEF OnDone, OnEventsClosed, Stop, TypeOK, clocks, Watching
  <2>3. CASE OnEvent \/ OnResync \/ OnStaleTimer
    BY <2>3 DEF OnEvent, OnResync, OnStaleTimer, TypeOK, env, clocks, Watching
  <2>4. CASE DiscoverReturns
    BY <2>1, <2>4 DEF DiscoverReturns, TypeOK, clocks, Watching
  <2> QED BY <2>2, <2>3, <2>4
<1>2. TypeOK' BY <1>1 DEF TypeOK, env, fallback, resolver, PCs
<1>3. FallbackHasTimer' /\ SnapshotsAreNews'
  BY <1>1 DEF FallbackHasTimer, SnapshotsAreNews, resolver, Watching
<1>4. NothingYet' /\ Announced'
  BY <1>1 DEF NothingYet, Announced, AnnouncedFor, Watching, Starting, fallback
<1>5. Shrinks BY <1>1 DEF Shrinks, TypeOK, fallback
<1> QED BY <1>2, <1>3, <1>4, <1>5

\* publish prepares a snapshot that its fallback state calls for, and that only
\* shrinks what an outage announced before.
LEMMA PublishStep ==
    ASSUME IndInv, Publish
    PROVE  IndInv' /\ Shrinks
<1> DEFINE usable == Usable(result)
           s == SnapshotOf(usable, lastGood, IF outage THEN age ELSE 0)
<1> USE DEF IndInv, Inv
<1>1. usable \subseteq Accepted /\ s \in Snapshots /\ NeedsTimer(s) \in BOOLEAN
  BY SnapshotType, GraceAssumption DEF TypeOK
<1>2. /\ pc = "publish" /\ Observe(usable)
      /\ timerArmed' = NeedsTimer(s)
      /\ out' = IF s # lastSent THEN s ELSE NoSnapshot
      /\ pc' = IF s # lastSent THEN "send" ELSE IF watchOpen THEN "select" ELSE "stopped"
      /\ result' = NoResult
      /\ UNCHANGED <<env, eventPending, watchOpen, clocks, lastSent, ch, resolver>>
  BY DEF Publish
<1>3. AnnouncedFor(lastSent) BY <1>2 DEF Announced, Watching
<1>4. /\ s.stale = (usable = {})
      /\ s.services = IF usable # {} THEN usable
                      ELSE IF (IF outage THEN age ELSE 0) < Grace THEN lastGood ELSE {}
  BY DEF SnapshotOf
<1> HIDE DEF s, usable
<1>5. /\ lastGood' \subseteq Accepted /\ outage' \in BOOLEAN /\ age' \in 0 .. Grace
      /\ outage /\ outage' => age' = age
  <2>1. lastGood \subseteq Accepted /\ outage \in BOOLEAN /\ age \in 0 .. Grace BY DEF TypeOK
  <2>2. CASE usable # {}
    <3>1. lastGood' = usable /\ outage' = FALSE /\ age' = 0
      BY <1>2, <2>2 DEF Observe
    <3>2. 0 \in 0 .. Grace BY GraceAssumption
    <3> QED BY <1>1, <3>1, <3>2, Zenon
  <2>3. CASE usable = {}
    <3>1. lastGood' = lastGood /\ outage' = TRUE /\ age' = IF outage THEN age ELSE 0
      BY <1>2, <2>3 DEF Observe
    <3> QED BY <2>1, <3>1, GraceAssumption
  <2> QED BY <2>2, <2>3
<1>6. NoResult \in Results /\ NoSnapshot \in Snapshots
  BY DEF NoResult, Results, NoSnapshot, Snapshots
<1>7. TypeOK' BY <1>1, <1>2, <1>5, <1>6 DEF TypeOK, env, clocks, resolver, PCs
<1>8. FallbackHasTimer' BY <1>2 DEF FallbackHasTimer
<1>9. SnapshotsAreNews' BY <1>2 DEF SnapshotsAreNews, resolver
<1>10. NothingYet' BY <1>2 DEF NothingYet, Starting
<1>11. /\ s.stale <=> outage'
       /\ s.stale => s.services = lastGood' \/ (s.services = {} /\ age' = Grace)
       /\ lastSent.stale /\ s.stale => s.services \subseteq lastSent.services
  <2>1. CASE usable # {} BY <1>2, <1>4, <2>1 DEF Observe
  <2>2. CASE usable = {}
    <3>1. lastGood' = lastGood /\ outage' = TRUE /\ age' = IF outage THEN age ELSE 0
      BY <1>2, <2>2 DEF Observe
    <3>2. s.stale = TRUE /\ s.services = IF age' < Grace THEN lastGood ELSE {}
      BY <1>4, <2>2, <3>1
    <3>3. age' \in 0 .. Grace BY <1>5
    <3>4. lastSent.stale => age' = age /\ (lastSent.services = lastGood \/ age = Grace)
      BY <1>3, <3>1 DEF AnnouncedFor
    <3>5. lastSent.stale => s.services \subseteq lastSent.services
      BY <3>2, <3>3, <3>4, GraceAssumption
    <3>6. s.services = lastGood' \/ (s.services = {} /\ age' = Grace)
      BY <3>1, <3>2, <3>3, GraceAssumption
    <3> QED BY <3>1, <3>2, <3>5, <3>6
  <2> QED BY <2>1, <2>2
<1>12. Announced' BY <1>2, <1>11 DEF Announced, AnnouncedFor, Watching
<1>13. Shrinks BY <1>2, <1>5 DEF Shrinks, TypeOK
<1> QED BY <1>7, <1>8, <1>9, <1>10, <1>12, <1>13

\* The prepared snapshot is sent, or given up.
LEMMA SendStep ==
    ASSUME IndInv, Send \/ SendAborted
    PROVE  IndInv' /\ Shrinks
<1> USE DEF IndInv, Inv
<1>1. NoSnapshot \in Snapshots BY DEF NoSnapshot, Snapshots
<1>2. CASE Send
  <2> USE <1>2 DEF Send
  <2>1. ch' = Append(ch, out) /\ ch \in Seq(Snapshots) /\ out \in Snapshots BY DEF TypeOK
  <2>2. /\ ch' \in Seq(Snapshots) /\ Len(ch') = Len(ch) + 1 /\ ch'[Len(ch')] = out
        /\ \A i \in 1 .. Len(ch) : ch'[i] = ch[i]
    BY <2>1
  <2>3. TypeOK'
    BY <1>1, <2>2, ChanCapAssumption DEF TypeOK, env, fallback, clocks, resolver, PCs
  <2>4. FallbackHasTimer' BY DEF FallbackHasTimer, Announced
  <2>5. \A i \in 1 .. Len(ch') - 1 : ch'[i] # ch'[i + 1]
    <3> TAKE i \in 1 .. Len(ch') - 1
    <3>1. CASE i = Len(ch)
      <4>1. ch # <<>> /\ ch'[i] = ch[Len(ch)] BY <2>1, <2>2, <3>1
      <4> QED BY <2>2, <3>1, <4>1 DEF SnapshotsAreNews, Announced
    <3>2. CASE i \in 1 .. Len(ch) - 1
      <4>1. ch'[i] = ch[i] /\ ch'[i + 1] = ch[i + 1] BY <2>1, <2>2, <3>2
      <4> QED BY <3>2, <4>1 DEF SnapshotsAreNews
    <3> QED BY <2>1, <2>2, <3>1, <3>2
  <2>6. SnapshotsAreNews' BY <2>1, <2>2, <2>5 DEF SnapshotsAreNews
  <2>7. NothingYet' /\ Announced'
    BY DEF NothingYet, Announced, AnnouncedFor, Starting, Watching, fallback
  <2>8. Shrinks BY DEF Shrinks, Announced, TypeOK, fallback
  <2> QED BY <2>3, <2>4, <2>6, <2>7, <2>8
<1>3. CASE SendAborted
  <2> USE <1>3 DEF SendAborted, Stop
  <2>1. TypeOK' BY <1>1 DEF TypeOK, env, fallback, clocks, resolver, PCs
  <2>2. FallbackHasTimer' /\ SnapshotsAreNews'
    BY DEF FallbackHasTimer, SnapshotsAreNews, resolver
  <2>3. NothingYet' /\ Announced' BY DEF NothingYet, Announced, Starting, Watching
  <2>4. Shrinks BY DEF Shrinks, TypeOK, fallback
  <2> QED BY <2>1, <2>2, <2>3, <2>4
<1> QED BY <1>2, <1>3

\* The resolver takes the oldest snapshot; the last one is what it keeps.
LEMMA ReceiveStep ==
    ASSUME IndInv, Receive \/ ReceiveClosed
    PROVE  IndInv' /\ Shrinks
<1> USE DEF IndInv, Inv
<1>1. UNCHANGED <<env, eventPending, pc, result, out, watchOpen, fallback, timerArmed,
                  clocks, lastSent>>
  BY DEF Receive, ReceiveClosed
<1>2. FallbackHasTimer' BY <1>1 DEF FallbackHasTimer
<1>3. Announced' BY <1>1 DEF Announced, AnnouncedFor, fallback
<1>4. Shrinks BY <1>1 DEF Shrinks, TypeOK, fallback
<1>5. CASE Receive
  <2> USE <1>5 DEF Receive
  <2>1. ch \in Seq(Snapshots) /\ ch # <<>> /\ Len(ch) \in Nat \ {0} /\ Head(ch) \in Snapshots
    BY DEF TypeOK
  <2>2. /\ ch' \in Seq(Snapshots) /\ Len(ch') = Len(ch) - 1
        /\ \A i \in 1 .. Len(ch') : ch'[i] = ch[i + 1]
    BY <2>1
  <2>9. cache' \subseteq Accepted /\ UNCHANGED resolverDone BY <2>1 DEF Snapshots
  <2>3. TypeOK'
    <3>1. Len(ch') <= ChanCap BY <2>1, <2>2, ChanCapAssumption DEF TypeOK
    <3> QED BY <1>1, <2>2, <2>9, <3>1 DEF TypeOK, env, fallback, clocks
  <2>4. \A i \in 1 .. Len(ch') - 1 : ch'[i] # ch'[i + 1]
    BY <2>1, <2>2 DEF SnapshotsAreNews
  <2>5. ch' # <<>> => ch'[Len(ch')] = lastSent'
    BY <1>1, <2>1, <2>2 DEF SnapshotsAreNews
  <2>6. ch' = <<>> => cache' = lastSent'.services
    <3>1. ch' = <<>> => Len(ch) = 1
      <4>1. Len(<<>>) = 0 OBVIOUS
      <4> QED BY ONLY <2>1, <2>2, <4>1
    <3>2. Len(ch) = 1 => Head(ch) = ch[Len(ch)] BY <2>1
    <3> QED BY <1>1, <2>1, <3>1, <3>2 DEF SnapshotsAreNews
  <2>7. SnapshotsAreNews' BY <2>4, <2>5, <2>6 DEF SnapshotsAreNews
  <2>8. NothingYet' BY <1>1, <2>1 DEF NothingYet
  <2> QED BY <1>2, <1>3, <1>4, <2>3, <2>7, <2>8
<1>6. CASE ReceiveClosed
  <2>1. TypeOK' BY <1>1, <1>6 DEF ReceiveClosed, TypeOK, env, fallback, clocks
  <2>2. SnapshotsAreNews' /\ NothingYet'
    BY <1>1, <1>6 DEF ReceiveClosed, SnapshotsAreNews, NothingYet, fallback
  <2> QED BY <1>2, <1>3, <1>4, <2>1, <2>2
<1> QED BY <1>5, <1>6

\* Every step preserves the invariant, and none lets an outage announce more.
LEMMA IndNext == IndInv /\ [Next]_vars => IndInv' /\ [Shrinks]_vars
<1>1. IndInv /\ Next => IndInv' /\ Shrinks
  BY RegistryStep, TickStep, InitialStep, FirstSnapshotStep, SelectStep, PublishStep,
     SendStep, ReceiveStep
     DEF Next
<1>2. IndInv /\ UNCHANGED vars => IndInv'
  BY DEF vars, env, fallback, clocks, resolver, IndInv, Inv, TypeOK, FallbackHasTimer,
         SnapshotsAreNews, NothingYet, Announced, AnnouncedFor
<1> QED BY <1>1, <1>2

\* The inductive invariant holds in every reachable state.
LEMMA Invariance == Spec => []IndInv
BY IndInit, IndNext, PTL DEF Spec

-----------------------------------------------------------------------------
\* An announced fallback has its timer, snapshots are news, and a drained channel
\* leaves the resolver with the last of them (registry/registry.go, publish and
\* sendSnapshot): for any instances, grace period, interval and channel.
THEOREM WatchIsConsistent == Spec => []Inv
<1>1. IndInv => Inv BY DEF IndInv
<1> QED BY <1>1, Invariance, PTL

\* While an outage lasts the announced instances only shrink and its clock is not
\* set back, however often Discover fails (registry/registry.go, upstreamState).
THEOREM OutageShrinks == Spec => OutageOnlyShrinks
<1>1. IndInv /\ [Next]_vars
        => [/\ lastSent.stale /\ lastSent'.stale
                 => lastSent'.services \subseteq lastSent.services
            /\ outage /\ outage' => age' >= age]_vars
  BY IndNext DEF Shrinks
<1> QED BY <1>1, Invariance, PTL DEF Spec, OutageOnlyShrinks
=============================================================================
