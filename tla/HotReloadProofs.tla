-------------------------- MODULE HotReloadProofs --------------------------
(***************************************************************************)
(* Theorems about HotReload: what GetConfig returns was accepted and is    *)
(* known to the components, and a reload never goes back to an older read. *)
(*                                                                         *)
(* NeverRollsBack needs more than the lock: a reload publishes what it     *)
(* fetched while it held reloadMu, and what was published before it took   *)
(* the lock was read before that.  FetchedLater says so of a reload under  *)
(* way, and OneReload that there is no other that could publish meanwhile. *)
(***************************************************************************)
EXTENDS HotReload, TLAPS, WellFoundedInduction

-----------------------------------------------------------------------------
(* The least and the greatest element of a set of revisions.               *)

\* A set of numbers that is not empty has a least element.
LEMMA LeastExists ==
    ASSUME NEW S \in SUBSET Nat, S # {}
    PROVE  \E x \in S : \A y \in S : x <= y
<1>1. PICK x \in S : \A y \in S : ~ (<<y, x>> \in OpToRel(<, Nat))
  BY NatLessThanWellFounded, WFMin
<1>2. \A y \in S : ~ (y < x) BY <1>1 DEF OpToRel
<1> QED BY <1>2

\* Min finds it.
LEMMA MinIsElement ==
    ASSUME NEW S \in SUBSET Nat, S # {}
    PROVE  Min(S) \in S
BY LeastExists DEF Min

\* Max finds the greatest element of a bounded set.
LEMMA MaxIsElement ==
    ASSUME NEW n \in Nat, NEW S \in SUBSET (0 .. n), S # {}
    PROVE  Max(S) \in S
<1> DEFINE T == {n - x : x \in S}
<1>1. T \in SUBSET Nat /\ T # {}
  <2>1. \A x \in S : n - x \in Nat OBVIOUS
  <2>2. PICK x \in S : TRUE OBVIOUS
  <2>3. n - x \in T BY <2>2
  <2> QED BY <2>1, <2>3
<1>2. PICK t \in T : \A u \in T : t <= u BY <1>1, LeastExists
<1>3. PICK x \in S : t = n - x OBVIOUS
<1>4. \A y \in S : x >= y
  <2> TAKE y \in S
  <2>1. n - x <= n - y BY <1>2, <1>3
  <2> QED BY <2>1
<1> QED BY <1>4 DEF Max

-----------------------------------------------------------------------------
Reloading == {"fetchService", "fetchNode", "apply"}

\* Only the goroutine that holds reloadMu is inside a reload.
OneReload == \A k \in Keys : watcher[k] \in Reloading => reloadMu = k

\* The published configuration was read from the store as it was some time ago.
ReadInThePast == \A l \in Keys : config.from[l] <= Len(writes)

\* What a reload has fetched it read after what is published.
ReadsBetween(k, l) == fetched[k][l].at \in config.from[l] .. Len(writes)
FetchedLater ==
    \A k \in Keys :
        /\ watcher[k] \in {"fetchNode", "apply"} => ReadsBetween(k, "service")
        /\ watcher[k] = "apply" => ReadsBetween(k, "node")

IndInv ==
    /\ TypeOK /\ OnlyAcceptedPublished /\ applied = config
    /\ OneReload /\ ReadInThePast /\ FetchedLater

\* A configuration made of two reads is one, and names their revisions.
LEMMA MergeType ==
    ASSUME NEW svc \in Reads, NEW node \in Reads
    PROVE  /\ Merge(svc, node).startup \in BOOLEAN
           /\ Merge(svc, node) \in Configs
           /\ Merge(svc, node).from["service"] = svc.at
           /\ Merge(svc, node).from["node"] = node.at
BY DEF Merge, Dynamic, Configs, Reads, Keys

\* The revision after an event is that of a write, or follows one.
LEMMA EventType ==
    ASSUME TypeOK, NEW k \in Keys, Event(k)
    PROVE  revision' \in [Keys -> 0 .. (MaxWrites + 1)]
<1> USE BoundAssumption
<1>1. Len(writes) \in Nat /\ Len(writes) <= MaxWrites BY DEF TypeOK
<1>2. CASE EtcdEvent(k)
  <2>1. Undelivered(k) \in SUBSET Nat /\ Undelivered(k) # {}
    BY <1>1, <1>2 DEF EtcdEvent, Undelivered
  <2>2. Min(Undelivered(k)) \in 1 .. Len(writes)
    BY <2>1, MinIsElement DEF Undelivered
  <2> QED BY <1>1, <1>2, <2>2 DEF EtcdEvent, Notify, TypeOK
<1>3. CASE ConsulEvent(k)
  <2> DEFINE S == {i \in 1..Len(writes) : kv[k] = "absent" \/ writes[i] = k} \cup {0}
  <2>1. S \in SUBSET (0 .. Len(writes)) BY <1>1
  <2>2. Max(S) \in S
    <3>1. S # {} OBVIOUS
    <3> HIDE DEF S
    <3> QED BY <1>1, <2>1, <3>1, MaxIsElement
  <2>3. Index(k) = 1 + Max(S) BY DEF Index
  <2>4. Index(k) \in 0 .. (MaxWrites + 1)
    <3>1. Max(S) \in 0 .. Len(writes) BY <2>1, <2>2
    <3> HIDE DEF S
    <3> QED BY <1>1, <2>3, <3>1
  <2> QED BY <1>3, <2>4 DEF ConsulEvent, Notify, TypeOK
<1> QED BY <1>2, <1>3 DEF Event


-----------------------------------------------------------------------------
\* New leaves a configuration behind that was accepted, and no reload runs.
LEMMA IndInit == Init => IndInv
<1> SUFFICES ASSUME Init PROVE IndInv OBVIOUS
<1> USE BoundAssumption DEF Init
<1>1. config \in Configs /\ applied = config BY DEF Configs, Keys
<1>2. kv \in [Keys -> Layers] BY DEF Layers
<1>3. fetched \in [Keys -> [Keys -> Reads]] BY DEF Reads, Unread, Layers
<1>4. writes \in Seq(Keys) /\ Len(writes) = 0 OBVIOUS
<1>5. TypeOK
  <2>1. watcher \in [Keys -> WatcherPCs] /\ revision \in [Keys -> 0 .. (MaxWrites + 1)]
    BY DEF WatcherPCs
  <2>2. backend \in Backends /\ Len(writes) <= MaxWrites /\ faults \in 0 .. MaxFaults
    BY <1>4
  <2> QED BY <1>1, <1>2, <1>3, <1>4, <2>1, <2>2 DEF TypeOK
<1>6. OneReload /\ FetchedLater BY DEF OneReload, FetchedLater, Reloading
<1>7. OnlyAcceptedPublished /\ ReadInThePast BY <1>4 DEF OnlyAcceptedPublished, ReadInThePast
<1> QED BY <1>1, <1>5, <1>6, <1>7 DEF IndInv

\* A step of goroutine k outside a reload changes its place and its revision.
LEMMA Outside ==
    ASSUME IndInv, NEW k \in Keys, NEW p \in WatcherPCs \ Reloading, Goto(k, p),
           revision' \in [Keys -> 0 .. (MaxWrites + 1)],
           UNCHANGED <<store, reloadMu, fetched, published>>,
           cancelled' \in BOOLEAN, faults' \in 0 .. MaxFaults
    PROVE  IndInv'
<1> USE DEF IndInv, store, published, Goto, Reloading
<1>1. TypeOK' BY DEF TypeOK
<1>2. OneReload' BY DEF OneReload, TypeOK
<1>3. FetchedLater' BY DEF FetchedLater, ReadsBetween, TypeOK
<1>4. (OnlyAcceptedPublished /\ ReadInThePast /\ applied = config)'
  BY DEF OnlyAcceptedPublished, ReadInThePast
<1> QED BY <1>1, <1>2, <1>3, <1>4

\* A write makes all reads older.
LEMMA WriteStep ==
    ASSUME IndInv, NEW k \in Keys, NEW v \in Written, v \in Layers, Write(k, v)
    PROVE  IndInv'
<1> USE DEF IndInv, Write
<1>1. TypeOK' BY BoundAssumption DEF TypeOK, published
<1>2. Len(writes) \in Nat /\ Len(writes') = Len(writes) + 1 BY DEF TypeOK
<1>3. OneReload' BY DEF OneReload
<1>4. ReadInThePast' BY <1>2 DEF ReadInThePast, published, TypeOK, Configs
<1>5. \A o, l \in Keys : ReadsBetween(o, l) => ReadsBetween(o, l)'
  <2> SUFFICES ASSUME NEW o \in Keys, NEW l \in Keys, ReadsBetween(o, l)
               PROVE  ReadsBetween(o, l)'
    OBVIOUS
  <2>1. config.from[l] \in Nat BY DEF TypeOK, Configs
  <2>2. fetched'[o][l].at = fetched[o][l].at /\ config'.from[l] = config.from[l]
    BY DEF published
  <2> QED BY <1>2, <2>1, <2>2 DEF ReadsBetween
<1>7. FetchedLater' BY <1>5 DEF FetchedLater, Keys
<1>6. (OnlyAcceptedPublished /\ applied = config)' BY DEF OnlyAcceptedPublished, published
<1> QED BY <1>1, <1>3, <1>4, <1>6, <1>7

\* The lock admits one reload, which has fetched nothing yet.
LEMMA LockStep ==
    ASSUME IndInv, NEW k \in Keys, LockReload(k)
    PROVE  IndInv'
<1> USE DEF IndInv, LockReload, Goto
<1>1. TypeOK' BY DEF TypeOK, store, WatcherPCs
<1>2. OneReload' BY DEF OneReload, CanLock, Reloading, TypeOK, Keys
<1>3. FetchedLater' BY DEF FetchedLater, ReadsBetween, store, TypeOK
<1>4. (OnlyAcceptedPublished /\ ReadInThePast /\ applied = config)'
  BY DEF OnlyAcceptedPublished, ReadInThePast, store
<1> QED BY <1>1, <1>2, <1>3, <1>4

\* What a reload fetches is the newest there is.
LEMMA FetchStep ==
    ASSUME IndInv, NEW k \in Keys, FetchService(k) \/ FetchNode(k)
    PROVE  IndInv'
<1> USE DEF IndInv, FetchService, FetchNode, Fetch, Goto, store, published
<1>1. Len(writes) \in Nat BY DEF TypeOK
<1>2. \A l \in Keys : [layer |-> kv[l], at |-> Len(writes)] \in Reads
  BY <1>1 DEF TypeOK, Reads
<1>3. TypeOK' BY <1>2 DEF TypeOK, WatcherPCs, Keys
<1>4. OneReload' BY DEF OneReload, Reloading, TypeOK
<1>5. \A l \in Keys : Len(writes) \in config.from[l] .. Len(writes)
  BY <1>1 DEF ReadInThePast, TypeOK, Configs
<1>6. FetchedLater' BY <1>5 DEF FetchedLater, ReadsBetween, TypeOK, Keys
<1>7. (OnlyAcceptedPublished /\ ReadInThePast /\ applied = config)'
  BY DEF OnlyAcceptedPublished, ReadInThePast
<1> QED BY <1>3, <1>4, <1>6, <1>7

\* A reload that cannot fetch leaves everything as it was.
LEMMA FetchFailsStep ==
    ASSUME IndInv, NEW k \in Keys, FetchFails(k)
    PROVE  IndInv'
<1> USE BoundAssumption DEF IndInv, FetchFails, Fault, Goto, store
<1>1. TypeOK' BY DEF TypeOK, WatcherPCs, Reads, Unread, Layers
<1>2. OneReload' BY DEF OneReload, Reloading, TypeOK
<1>3. FetchedLater' BY <1>2 DEF FetchedLater, ReadsBetween, OneReload, Reloading, TypeOK
<1>4. (OnlyAcceptedPublished /\ ReadInThePast /\ applied = config)'
  BY DEF OnlyAcceptedPublished, ReadInThePast
<1> QED BY <1>1, <1>2, <1>3, <1>4

\* A reload publishes only what is acceptable and was read after what it replaces,
\* and no other reload is under way.
LEMMA ApplyStep ==
    ASSUME IndInv, NEW k \in Keys, Apply(k)
    PROVE  IndInv' /\ \A l \in Keys : config'.from[l] >= config.from[l]
<1> DEFINE svc == fetched[k]["service"]
           node == fetched[k]["node"]
<1> USE DEF IndInv
<1>1. svc \in Reads /\ node \in Reads BY DEF TypeOK, Apply, Keys
<1>2. Len(writes) \in Nat BY DEF TypeOK
<1>3. ReadsBetween(k, "service") /\ ReadsBetween(k, "node")
  BY DEF Apply, FetchedLater
<1>4. /\ config' = applied'
      /\ config' \in Configs /\ OnlyAcceptedPublished'
      /\ \A l \in Keys : config'.from[l] \in config.from[l] .. Len(writes)
  <2>1. CASE Acceptable(svc, node) /\ Publish(Merge(svc, node))
    <3>1. config' = Merge(svc, node) /\ applied' = config' BY <2>1 DEF Publish
    <3>2. OnlyAcceptedPublished' BY <2>1, <3>1 DEF Acceptable, OnlyAcceptedPublished
    <3> QED BY <1>1, <1>3, <3>1, <3>2, MergeType DEF ReadsBetween, Keys
  <2>2. CASE UNCHANGED published
    BY <1>2, <2>2 DEF published, TypeOK, Configs, ReadInThePast, OnlyAcceptedPublished
  <2> QED BY <2>1, <2>2 DEF Apply
<1>5. TypeOK'
  <2>1. dropped' \in BOOLEAN BY DEF Apply, Publish, published, TypeOK
  <2> QED BY <1>4, <2>1 DEF Apply, TypeOK, store, Goto, WatcherPCs, Reads, Unread, Layers
<1>6. \A o \in Keys : watcher'[o] \notin Reloading
  BY DEF Apply, OneReload, Goto, Reloading, TypeOK
<1>7. OneReload' /\ FetchedLater'
  BY <1>6 DEF OneReload, FetchedLater, Reloading
<1>8. ReadInThePast' BY <1>4 DEF ReadInThePast, Apply, store
<1>9. \A l \in Keys : config'.from[l] >= config.from[l]
  BY <1>4 DEF TypeOK, Configs
<1> QED BY <1>4, <1>5, <1>7, <1>8, <1>9

\* Every step preserves the invariant, and none rolls a layer back.
LEMMA IndNext ==
    ASSUME IndInv, [Next]_vars
    PROVE  IndInv' /\ \A l \in Keys : config'.from[l] >= config.from[l]
<1> USE BoundAssumption
<1>1. \A l \in Keys : config.from[l] \in Nat BY DEF IndInv, TypeOK, Configs
<1>2. ASSUME UNCHANGED published
      PROVE  \A l \in Keys : config'.from[l] >= config.from[l]
  BY <1>1, <1>2 DEF published
<1>3. ASSUME NEW k \in Keys, NEW v \in Written, Write(k, v)
      PROVE  IndInv' /\ UNCHANGED published
  BY <1>3, WriteStep, WrittenAssumption DEF Write
<1>4. ASSUME NEW k \in Keys,
             \/ Open(k) \/ OpenFails(k) \/ Get(k) \/ GetFails(k) \/ Event(k)
             \/ WatchFails(k) \/ QueryFails(k) \/ Retry(k) \/ WatcherEnds(k)
      PROVE  IndInv' /\ UNCHANGED published
  <2>1. TypeOK /\ Len(writes) \in Nat BY DEF IndInv, TypeOK
  <2>2. CASE Open(k)
    <3> DEFINE p == IF backend = "etcd" THEN "get" ELSE "watch"
    <3>1. p \in WatcherPCs \ Reloading BY DEF WatcherPCs, Reloading
    <3> QED BY <2>1, <2>2, <3>1, Outside DEF Open, TypeOK
  <2>3. CASE OpenFails(k)
    BY <2>1, <2>3, Outside DEF OpenFails, Fault, TypeOK, WatcherPCs, Reloading
  <2>4. CASE Get(k)
    <3>1. Len(writes) + 1 \in 0 .. (MaxWrites + 1) BY <2>1 DEF TypeOK
    <3>2. revision' \in [Keys -> 0 .. (MaxWrites + 1)] BY <2>4, <3>1 DEF Get, IndInv, TypeOK
    <3> QED BY <2>1, <2>4, <3>2, Outside DEF Get, TypeOK, WatcherPCs, Reloading
  <2>5. CASE GetFails(k)
    BY <2>1, <2>5, Outside DEF GetFails, Fault, TypeOK, WatcherPCs, Reloading
  <2>6. CASE Event(k)
    <3>1. revision' \in [Keys -> 0 .. (MaxWrites + 1)] BY <2>1, <2>6, EventType
    <3>2. Goto(k, "lock") /\ UNCHANGED <<store, reloadMu, fetched, published, cancelled, faults>>
      BY <2>6 DEF Event, EtcdEvent, ConsulEvent, Notify
    <3> QED BY <2>1, <3>1, <3>2, Outside DEF TypeOK, WatcherPCs, Reloading
  <2>7. CASE WatchFails(k)
    <3>1. revision' = [revision EXCEPT ![k] = 0] \/ revision' = revision
      BY <2>7 DEF WatchFails
    <3>2. revision' \in [Keys -> 0 .. (MaxWrites + 1)]
      <4>1. revision \in [Keys -> 0 .. (MaxWrites + 1)] /\ 0 \in 0 .. (MaxWrites + 1)
        BY <2>1 DEF TypeOK
      <4>2. CASE revision' = [revision EXCEPT ![k] = 0] BY <4>1, <4>2
      <4> QED BY <3>1, <4>1, <4>2
    <3> QED BY <2>1, <2>7, <3>2, Outside
            DEF WatchFails, Fault, TypeOK, WatcherPCs, Reloading
  <2>8. CASE QueryFails(k)
    BY <2>1, <2>8, Outside DEF QueryFails, Fault, TypeOK, WatcherPCs, Reloading
  <2>9. CASE Retry(k)
    <3> DEFINE p == IF backend = "etcd" /\ revision[k] = 0 THEN "get" ELSE "watch"
    <3>1. p \in WatcherPCs \ Reloading BY DEF WatcherPCs, Reloading
    <3> QED BY <2>1, <2>9, <3>1, Outside DEF Retry, TypeOK
  <2>10. CASE WatcherEnds(k)
    BY <2>1, <2>10, Outside DEF WatcherEnds, TypeOK, WatcherPCs, Reloading
  <2> QED BY <1>4, <2>2, <2>3, <2>4, <2>5, <2>6, <2>7, <2>8, <2>9, <2>10
<1>5. ASSUME NEW k \in Keys, Reload(k) \/ FetchFails(k)
      PROVE  IndInv' /\ \A l \in Keys : config'.from[l] >= config.from[l]
  <2>1. CASE LockReload(k)
    <3>1. IndInv' BY <2>1, LockStep
    <3> QED BY <1>1, <2>1, <3>1 DEF LockReload
  <2>2. CASE FetchService(k) \/ FetchNode(k)
    BY <1>2, <2>2, FetchStep DEF FetchService, FetchNode, Fetch
  <2>3. CASE FetchFails(k)
    <3>1. IndInv' BY <2>3, FetchFailsStep
    <3> QED BY <1>1, <2>3, <3>1 DEF FetchFails
  <2>4. CASE Apply(k) BY <2>4, ApplyStep
  <2> QED BY <1>5, <2>1, <2>2, <2>3, <2>4 DEF Reload
<1>6. ASSUME Cancel \/ UNCHANGED vars
      PROVE  IndInv' /\ UNCHANGED published
  <2>1. UNCHANGED <<store, watcher, revision, reloadMu, fetched, published, faults>>
        /\ cancelled' \in BOOLEAN
    BY <1>6 DEF Cancel, vars, IndInv, TypeOK
  <2> QED BY <2>1 DEF IndInv, TypeOK, store, published, OnlyAcceptedPublished, OneReload,
                      ReadInThePast, FetchedLater, ReadsBetween
<1> QED BY <1>2, <1>3, <1>4, <1>5, <1>6 DEF Next

\* The inductive invariant holds in every reachable state.
LEMMA Invariance == Spec => []IndInv
<1>1. IndInv /\ [Next]_vars => IndInv' BY IndNext
<1> QED BY <1>1, IndInit, PTL DEF Spec

-----------------------------------------------------------------------------
\* What GetConfig returns passed the validators and kept its startup-only fields, and
\* outside a reload the components were last given it (boot/app.go, watchRemoteConfig):
\* for any number of writes and failed calls.
THEOREM ConfigIsAccepted == Spec => []Inv
<1>1. IndInv => Inv BY DEF IndInv, Inv, AppliedIsPublished
<1> QED BY <1>1, Invariance, PTL

\* No reload publishes a layer that was read before the one it replaces, although the two
\* watchers reload at the same time and fetch the layers one by one.
THEOREM ReloadsGoForward == Spec => NeverRollsBack
<1>1. IndInv /\ [Next]_vars => [\A k \in Keys : config'.from[k] >= config.from[k]]_vars
  BY IndNext
<1> QED BY <1>1, Invariance, PTL DEF Spec, NeverRollsBack
=============================================================================
