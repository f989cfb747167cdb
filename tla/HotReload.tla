----------------------------- MODULE HotReload -----------------------------
(***************************************************************************)
(* Remote configuration at run time: App.watchRemoteConfig (boot/app.go),  *)
(* WatchRemoteConfigTree and MergeRemoteConfigOptional (boot/remote.go),   *)
(* over WatchKey of the backends (contrib/registry): etcd reports every    *)
(* write since a revision, Consul answers a query when the index of the    *)
(* key is no longer the one that the query names.  One goroutine per key   *)
(* watches it; every event makes its goroutine rebuild the whole           *)
(* configuration: lock reloadMu, fetch the service layer, fetch the node   *)
(* layer, merge, validate, publish, run the applied callbacks.             *)
(*                                                                         *)
(* A layer is abstracted to what the code tells apart: it sets the dynamic *)
(* fields to d1 or d2, sets them to a value an OnConfigChange callback     *)
(* refuses ("vetoed"), changes a startup-only field ("startup"), cannot be *)
(* parsed or holds a secret ("bad"), or is missing ("absent").  Fields     *)
(* that environment variables override do not depend on the layers.        *)
(***************************************************************************)
EXTENDS Integers, FiniteSetsExt, Sequences

CONSTANTS
    Backends,       \* values of Registry.Type: "etcd", "consul"
    Written,        \* the layers an operator writes
    MaxWrites,      \* bound on writes to the store
    MaxFaults       \* bound on failed calls

Layers == {"d1", "d2", "vetoed", "startup", "bad", "absent"}

ASSUME WrittenAssumption == Written \subseteq Layers

ASSUME BoundAssumption ==
    /\ Backends \subseteq {"etcd", "consul"}
    /\ MaxWrites \in Nat /\ MaxFaults \in Nat

VARIABLES
    backend,
    writes,         \* the keys written, by revision
    kv,             \* key -> its layer
    watcher,        \* key -> place of its goroutine
    revision,       \* key -> revision of watchEtcdKey, lastIndex in Consul's
                    \* WatchKey; 0 asks for the present value
    reloadMu,       \* key whose goroutine holds reloadMu, or "free"
    fetched,        \* key -> what the reload its goroutine runs fetched
    config,         \* a.Config: the published configuration
    applied,        \* history: configuration last given to OnConfigApplied
    dropped,        \* history: the last reload could not fetch and was dropped
    cancelled,      \* watchCtx ended: shutdown, or an error of a watcher
    faults

store == <<backend, writes, kv>>
published == <<config, applied, dropped>>
vars == <<store, watcher, revision, reloadMu, fetched, published, cancelled, faults>>

Keys == {"service", "node"}
WatcherPCs == {"open", "get", "watch", "wait", "lock", "fetchService", "fetchNode", "apply", "done"}

\* A layer as read, with the revision at which it was read.
Reads == [layer : Layers, at : Nat]
Unread == [layer |-> "absent", at |-> 0]

\* A configuration: its dynamic fields, whether startup-only fields differ
\* from those at startup, and the revisions of the reads it was merged from.
Configs == [dynamic : {"local", "d1", "d2", "vetoed"}, startup : BOOLEAN, from : [Keys -> Nat]]

TypeOK ==
    /\ backend \in Backends
    /\ writes \in Seq(Keys)
    /\ Len(writes) <= MaxWrites
    /\ kv \in [Keys -> Layers]
    /\ watcher \in [Keys -> WatcherPCs]
    /\ revision \in [Keys -> 0..(MaxWrites + 1)]
    /\ reloadMu \in Keys \cup {"free"}
    /\ fetched \in [Keys -> [Keys -> Reads]]
    /\ config \in Configs
    /\ applied \in Configs
    /\ dropped \in BOOLEAN
    /\ cancelled \in BOOLEAN
    /\ faults \in 0..MaxFaults

\* New merged an existing service layer without startup fields; the watch
\* goroutines are about to start.
Init ==
    /\ backend \in Backends
    /\ writes = <<>>
    /\ kv = [k \in Keys |-> IF k = "service" THEN "d1" ELSE "absent"]
    /\ watcher = [k \in Keys |-> "open"]
    /\ revision = [k \in Keys |-> 0]
    /\ reloadMu = "free"
    /\ fetched = [k \in Keys |-> [l \in Keys |-> Unread]]
    /\ config = [dynamic |-> "d1", startup |-> FALSE, from |-> [k \in Keys |-> 0]]
    /\ applied = config
    /\ dropped = FALSE
    /\ cancelled = FALSE
    /\ faults = 0

Goto(k, p) == watcher' = [watcher EXCEPT ![k] = p]
Fault == faults < MaxFaults /\ faults' = faults + 1

-----------------------------------------------------------------------------
\* An operator writes or deletes a key.
Write(k, v) ==
    /\ Len(writes) < MaxWrites
    /\ v # kv[k]
    /\ kv' = [kv EXCEPT ![k] = v]
    /\ writes' = Append(writes, k)
    /\ UNCHANGED <<backend, watcher, revision, reloadMu, fetched, published, cancelled,
                   faults>>

\* watchRemoteConfigKey opens its own connection.
Open(k) ==
    /\ watcher[k] = "open"
    /\ Goto(k, IF backend = "etcd" THEN "get" ELSE "watch")
    /\ UNCHANGED <<store, revision, reloadMu, fetched, published, cancelled, faults>>

\* It cannot: its error makes WatchRemoteConfigTree return, which cancels the
\* other watcher as well.
OpenFails(k) ==
    /\ watcher[k] = "open"
    /\ Fault
    /\ Goto(k, "done")
    /\ cancelled' = TRUE
    /\ UNCHANGED <<store, revision, reloadMu, fetched, published>>

\* MUTANT: the watch starts at the current revision without a callback for
\* what is there already.
GetQuietly(k) ==
    /\ watcher[k] = "get"
    /\ ~cancelled
    /\ revision' = [revision EXCEPT ![k] = Len(writes) + 1]
    /\ Goto(k, "watch")
    /\ UNCHANGED <<store, reloadMu, fetched, published, cancelled, faults>>

\* Get for the revision to watch from, and onChange for what is there.
Get(k) ==
    /\ watcher[k] = "get"
    /\ ~cancelled
    /\ revision' = [revision EXCEPT ![k] = Len(writes) + 1]
    /\ Goto(k, "lock")
    /\ UNCHANGED <<store, reloadMu, fetched, published, cancelled, faults>>

\* A failed Get waits a second and is tried again.
GetFails(k) ==
    /\ watcher[k] = "get"
    /\ Fault
    /\ Goto(k, "wait")
    /\ UNCHANGED <<store, revision, reloadMu, fetched, published, cancelled>>

\* The writes to k the watch has still to deliver.
Undelivered(k) == {i \in 1..Len(writes) : i >= revision[k] /\ writes[i] = k}

\* Consul's index of a key: of its last write, or of the last write of all if
\* the key is missing.
Index(k) ==
    LET relevant == {i \in 1..Len(writes) : kv[k] = "absent" \/ writes[i] = k}
    IN  1 + Max(relevant \cup {0})

\* onChange, in this goroutine.
Notify(k, rev) ==
    /\ revision' = [revision EXCEPT ![k] = rev]
    /\ Goto(k, "lock")
    /\ UNCHANGED <<store, reloadMu, fetched, published, cancelled, faults>>

\* One event of etcd.
EtcdEvent(k) ==
    /\ watcher[k] = "watch" /\ backend = "etcd"
    /\ Undelivered(k) # {}
    /\ Notify(k, Min(Undelivered(k)) + 1)

\* An answer of Consul that has news.
ConsulEvent(k) ==
    /\ watcher[k] = "watch" /\ backend = "consul"
    /\ Index(k) # revision[k]
    /\ Notify(k, Index(k))

\* A watch of etcd ends: with an error (compaction, lost leader), which asks
\* for a new Get, or just by its channel closing, which keeps the revision.
WatchFails(k) ==
    /\ watcher[k] = "watch" /\ backend = "etcd"
    /\ Fault
    /\ revision' \in {[revision EXCEPT ![k] = 0], revision}
    /\ Goto(k, "wait")
    /\ UNCHANGED <<store, reloadMu, fetched, published, cancelled>>

\* A query to Consul fails: its index is kept.
QueryFails(k) ==
    /\ watcher[k] = "watch" /\ backend = "consul"
    /\ Fault
    /\ Goto(k, "wait")
    /\ UNCHANGED <<store, revision, reloadMu, fetched, published, cancelled>>

\* waitForContext(ctx, ...) and back to the loop head.
Retry(k) ==
    /\ watcher[k] = "wait"
    /\ ~cancelled
    /\ Goto(k, IF backend = "etcd" /\ revision[k] = 0 THEN "get" ELSE "watch")
    /\ UNCHANGED <<store, revision, reloadMu, fetched, published, cancelled, faults>>

-----------------------------------------------------------------------------
\* MUTANT: no reloadMu.
CanLockAlways == TRUE

CanLock == reloadMu = "free"

\* reloadMu.Lock()
LockReload(k) ==
    /\ watcher[k] = "lock"
    /\ CanLock
    /\ reloadMu' = k
    /\ dropped' = FALSE
    /\ Goto(k, "fetchService")
    /\ UNCHANGED <<store, revision, fetched, config, applied, cancelled, faults>>

\* fetchRemoteByKey, once per layer.  Its context has no end: while the store
\* does not answer, the reload waits.
Fetch(k, layer, from, to) ==
    /\ watcher[k] = from
    /\ fetched' = [fetched EXCEPT ![k][layer] = [layer |-> kv[layer], at |-> Len(writes)]]
    /\ Goto(k, to)
    /\ UNCHANGED <<store, revision, reloadMu, published, cancelled, faults>>

FetchService(k) == Fetch(k, "service", "fetchService", "fetchNode")
FetchNode(k) == Fetch(k, "node", "fetchNode", "apply")

\* MergeRemoteConfigOptional failed: the update is dropped.
FetchFails(k) ==
    /\ watcher[k] \in {"fetchService", "fetchNode"}
    /\ Fault
    /\ reloadMu' = "free"
    /\ dropped' = TRUE
    /\ fetched' = [fetched EXCEPT ![k] = [l \in Keys |-> Unread]]
    /\ Goto(k, "watch")
    /\ UNCHANGED <<store, revision, config, applied, cancelled>>

\* mergeConfigLayers on the dynamic fields: local, then service, then node,
\* each overriding only what it contains.
Dynamic(svc, node) ==
    IF node \in {"d1", "d2", "vetoed"} THEN node
    ELSE IF svc \in {"d1", "d2", "vetoed"} THEN svc
    ELSE "local"

Merge(svc, node) ==
    [dynamic |-> Dynamic(svc.layer, node.layer),
     startup |-> "startup" \in {svc.layer, node.layer},
     from |-> [k \in Keys |-> IF k = "service" THEN svc.at ELSE node.at]]

\* MUTANT: validateRuntimeConfigChange does not compare startup-only fields.
AcceptableAnyStartup(svc, node) ==
    /\ "bad" \notin {svc.layer, node.layer}
    /\ Merge(svc, node).dynamic # "vetoed"

\* Parsing, validateRuntimeConfigChange and the OnConfigChange callbacks.
Acceptable(svc, node) ==
    /\ "bad" \notin {svc.layer, node.layer}
    /\ ~Merge(svc, node).startup
    /\ Merge(svc, node).dynamic # "vetoed"

\* swapConfig, and the OnConfigApplied callbacks with GetConfig().
Publish(cfg) ==
    /\ config' = cfg
    /\ applied' = cfg
    /\ UNCHANGED dropped

\* MUTANT: the early return of a rejected update keeps reloadMu locked.
ApplyKeepsLock(k) ==
    /\ watcher[k] = "apply"
    /\ LET svc == fetched[k]["service"]
           node == fetched[k]["node"]
       IN  \/ Acceptable(svc, node) /\ Publish(Merge(svc, node)) /\ reloadMu' = "free"
           \/ ~Acceptable(svc, node) /\ UNCHANGED <<published, reloadMu>>
    /\ fetched' = [fetched EXCEPT ![k] = [l \in Keys |-> Unread]]
    /\ Goto(k, "watch")
    /\ UNCHANGED <<store, revision, cancelled, faults>>

\* The rest of the reload, still under reloadMu: reject or publish.
Apply(k) ==
    /\ watcher[k] = "apply"
    /\ LET svc == fetched[k]["service"]
           node == fetched[k]["node"]
       IN  \/ Acceptable(svc, node) /\ Publish(Merge(svc, node))
           \/ ~Acceptable(svc, node) /\ UNCHANGED published
    /\ reloadMu' = "free"
    /\ fetched' = [fetched EXCEPT ![k] = [l \in Keys |-> Unread]]
    /\ Goto(k, "watch")
    /\ UNCHANGED <<store, revision, cancelled, faults>>

\* stopConfigWatcher: shutdown cancels watchCtx.
Cancel ==
    /\ ~cancelled
    /\ cancelled' = TRUE
    /\ UNCHANGED <<store, watcher, revision, reloadMu, fetched, published, faults>>

\* A watcher sees its context ended: between callbacks, never inside one.
WatcherEnds(k) ==
    /\ watcher[k] \in {"get", "watch", "wait"}
    /\ cancelled
    /\ Goto(k, "done")
    /\ UNCHANGED <<store, revision, reloadMu, fetched, published, cancelled, faults>>

-----------------------------------------------------------------------------
Event(k) == EtcdEvent(k) \/ ConsulEvent(k)
Reload(k) == LockReload(k) \/ FetchService(k) \/ FetchNode(k) \/ Apply(k)

Next ==
    \/ \E k \in Keys, v \in Written : Write(k, v)
    \/ \E k \in Keys :
          \/ Open(k) \/ OpenFails(k)
          \/ Get(k) \/ GetFails(k) \/ Event(k) \/ WatchFails(k) \/ QueryFails(k) \/ Retry(k)
          \/ Reload(k) \/ FetchFails(k)
          \/ WatcherEnds(k)
    \/ Cancel

Spec == Init /\ [][Next]_vars

\* The goroutines run and a lock that is free again and again is granted.
\* Nobody is obliged to write or to shut down, and the store need not answer
\* a fetch.
FairSpec ==
    /\ Spec
    /\ \A k \in Keys :
          /\ WF_vars(Open(k)) /\ WF_vars(Get(k)) /\ WF_vars(Event(k)) /\ WF_vars(Retry(k))
          /\ SF_vars(LockReload(k))
          /\ WF_vars(Apply(k))
          /\ WF_vars(WatcherEnds(k))

-----------------------------------------------------------------------------
\* Whatever is written to the store, the published configuration keeps its
\* startup-only fields and passed the validators.
OnlyAcceptedPublished == ~config.startup /\ config.dynamic # "vetoed"

\* Outside a reload, the components were last given the configuration that
\* GetConfig returns.
AppliedIsPublished == reloadMu = "free" => applied = config

\* What GetConfig returns is acceptable and known to the components.
Inv == TypeOK /\ OnlyAcceptedPublished /\ AppliedIsPublished

\* A reload never publishes a layer read before the one it replaces.
NeverRollsBack ==
    [][\A k \in Keys : config'.from[k] >= config.from[k]]_vars

Now(k) == [layer |-> kv[k], at |-> Len(writes)]
UpToDate ==
    Acceptable(Now("service"), Now("node"))
        => config.dynamic = Merge(Now("service"), Now("node")).dynamic

\* A reload whose fetch hangs keeps reloadMu and its watcher.
Stuck == \E k \in Keys : watcher[k] \in {"fetchService", "fetchNode"}

\* Once writes stop, the service runs with what the store holds, if that is
\* acceptable, although watches break and restart.  It may be shutting down
\* instead, its last reload may have failed to fetch a layer (such a reload
\* is dropped, and nothing repeats it before the next event), or a fetch may
\* hang for ever.
Converges == <>[]Stuck \/ <>[](UpToDate \/ cancelled \/ dropped)

\* After cancellation both watchers end, so that watchers.Wait returns, unless
\* a fetch hangs for ever.
WatchersEnd == <>[]Stuck \/ (cancelled ~> \A k \in Keys : watcher[k] = "done")
=============================================================================
