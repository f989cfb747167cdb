----------------------------- MODULE EtcdLease -----------------------------
(***************************************************************************)
(* Registration of one instance in etcd: Register, the keep-alive loop it  *)
(* spawns, Deregister and Close of contrib/registry/etcd/registry.go,      *)
(* against an etcd server whose leases expire.                             *)
(*                                                                         *)
(* The client keeps one entry per instance in its maps leases and cancels; *)
(* the model follows one instance, so they are the two variables held and  *)
(* owner.  Every request to the server is a step of its own.  A request    *)
(* may fail before or after it took effect; MaxFaults bounds how often     *)
(* (connection losses seen by a keep-alive stream count as well), and a    *)
(* request under a cancelled context fails without counting.  Steps under  *)
(* r.mu are atomic, together with the cancel() calls that follow them.     *)
(***************************************************************************)
EXTENDS Naturals, FiniteSets

CONSTANTS
    Regs,           \* Register calls; each names the loop it spawns
    MaxFaults       \* bound on failed requests and broken streams

ASSUME RegsAssumption == IsFiniteSet(Regs) /\ 0 \notin Regs
ASSUME MaxFaultsAssumption == MaxFaults \in Nat

VARIABLES
    \* the etcd server (external)
    key,            \* lease the service key is attached to, 0 when absent
    alive,          \* leases that exist
    granted,        \* number of leases granted so far
    faults,
    \* the client
    held,           \* r.leases[instanceID], 0 when absent
    owner,          \* loop whose cancel is r.cancels[instanceID], 0 if none
    reg,            \* Register calls
    loop,           \* keep-alive loops
    dereg,          \* the Deregister call
    closing         \* the Close call

server == <<key, alive, granted, faults>>
vars == <<server, held, owner, reg, loop, dereg, closing>>

MaxLease == Cardinality(Regs) + MaxFaults
Leases == 1 .. MaxLease
LeaseOrNone == 0 .. MaxLease

RegPCs == {"idle", "grant", "put", "undo", "store", "revokeOld", "spawn", "ok", "failed"}
LoopPCs == {"none", "stream", "grant", "put", "undo", "swap", "drop", "backoff", "done"}

TypeOK ==
    /\ key \in LeaseOrNone
    /\ alive \subseteq Leases
    /\ granted \in LeaseOrNone
    /\ faults \in 0 .. MaxFaults
    /\ held \in LeaseOrNone
    /\ owner \in Regs \cup {0}
    /\ reg \in [Regs -> [pc : RegPCs, lease : LeaseOrNone, old : LeaseOrNone]]
    /\ loop \in [Regs -> [pc : LoopPCs, lease : LeaseOrNone, new : LeaseOrNone,
                          cancelled : BOOLEAN]]
    /\ \A r \in Regs : loop[r].pc \in {"put", "undo", "swap", "drop"} <=> loop[r].new # 0
    /\ dereg \in [pc : {"idle", "delete", "revoke", "done"}, lease : LeaseOrNone]
    /\ closing \in [pc : {"idle", "revoke", "wait", "closed"}, lease : LeaseOrNone]

Init ==
    /\ key = 0 /\ alive = {} /\ granted = 0 /\ faults = 0
    /\ held = 0 /\ owner = 0
    /\ reg = [r \in Regs |-> [pc |-> "idle", lease |-> 0, old |-> 0]]
    /\ loop = [r \in Regs |-> [pc |-> "none", lease |-> 0, new |-> 0, cancelled |-> FALSE]]
    /\ dereg = [pc |-> "idle", lease |-> 0]
    /\ closing = [pc |-> "idle", lease |-> 0]

-----------------------------------------------------------------------------
(* The etcd server, as the client's requests use it (external).            *)

Fault == faults < MaxFaults /\ faults' = faults + 1

\* A new lease; the caller learns its ID.
Granted(l) ==
    /\ l = granted + 1 /\ l \in Leases
    /\ granted' = l
    /\ alive' = alive \cup {l}
    /\ UNCHANGED <<key, faults>>

\* Put with a lease attaches the key to it; an unknown lease is an error.
PutApplied(l) == l \in alive /\ key' = l /\ UNCHANGED <<alive, granted>>

\* The end of a lease, by Revoke or by expiry, deletes the keys attached.
EndLease(l) ==
    /\ alive' = alive \ {l}
    /\ key' = IF key = l THEN 0 ELSE key
    /\ UNCHANGED granted

\* A Revoke request whose result the client ignores: done, or lost.
RevokeIgnored(l) ==
    \/ EndLease(l) /\ UNCHANGED faults
    \/ Fault /\ UNCHANGED <<key, alive, granted>>

\* Renewals keep a lease from expiring while its stream is up.  That it
\* expires between Grant and the start of its stream takes a stall of a
\* whole TTL, which counts as a fault.
Renewed(l) == \E r \in Regs : /\ loop[r].pc = "stream" /\ loop[r].lease = l
                               /\ ~loop[r].cancelled
Young(l) == \E r \in Regs :
    \/ reg[r].pc \in {"put", "store", "revokeOld", "spawn"} /\ reg[r].lease = l
    \/ loop[r].pc \in {"put", "swap"} /\ loop[r].new = l
Expire(l) ==
    /\ l \in alive /\ ~Renewed(l)
    /\ EndLease(l)
    /\ IF Young(l) THEN Fault ELSE UNCHANGED faults
    /\ UNCHANGED <<held, owner, reg, loop, dereg, closing>>

-----------------------------------------------------------------------------
(* Register.                                                               *)

RegAt(r, p) == reg[r].pc = p
RegGoto(r, p) == reg' = [reg EXCEPT ![r].pc = p]
NoRegRunning == \A r \in Regs : reg[r].pc \in {"idle", "ok", "failed"}

\* Register calls may overlap each other, not a Deregister or a Close.
RegisterBegins(r) ==
    /\ RegAt(r, "idle") /\ dereg.pc = "idle" /\ closing.pc = "idle"
    /\ RegGoto(r, "grant")
    /\ UNCHANGED <<server, held, owner, loop, dereg, closing>>

RegisterGrants(r) ==
    /\ RegAt(r, "grant")
    /\ \/ \E l \in Leases : /\ Granted(l)
                            /\ reg' = [reg EXCEPT ![r].pc = "put", ![r].lease = l]
       \/ Fault /\ RegGoto(r, "failed") /\ UNCHANGED <<key, alive, granted>>
    /\ UNCHANGED <<held, owner, loop, dereg, closing>>

\* The Put: a failed one may have been applied.
RegisterPuts(r) ==
    /\ RegAt(r, "put")
    /\ \/ PutApplied(reg[r].lease) /\ UNCHANGED faults /\ RegGoto(r, "store")
       \/ PutApplied(reg[r].lease) /\ Fault /\ RegGoto(r, "undo")
       \/ Fault /\ UNCHANGED <<key, alive, granted>> /\ RegGoto(r, "undo")
       \/ /\ reg[r].lease \notin alive
          /\ UNCHANGED server /\ RegGoto(r, "undo")
    /\ UNCHANGED <<held, owner, loop, dereg, closing>>

\* Its lease is revoked under the same context, which may have ended.
RegisterUndoes(r) ==
    /\ RegAt(r, "undo")
    /\ EndLease(reg[r].lease) \/ UNCHANGED <<key, alive, granted>>
    /\ RegGoto(r, "failed")
    /\ UNCHANGED <<faults, held, owner, loop, dereg, closing>>

\* Under r.mu the new lease and cancel replace the old ones; the old loop is
\* cancelled.
RegisterStores(r) ==
    /\ RegAt(r, "store")
    /\ reg' = [reg EXCEPT ![r].pc = "revokeOld", ![r].old = held]
    /\ held' = reg[r].lease
    /\ owner' = r
    /\ loop' = IF owner = 0 THEN loop
               ELSE [loop EXCEPT ![owner].cancelled = TRUE]
    /\ UNCHANGED <<server, dereg, closing>>

RegisterRevokesOld(r) ==
    /\ RegAt(r, "revokeOld")
    /\ IF reg[r].old = 0 THEN UNCHANGED server ELSE RevokeIgnored(reg[r].old)
    /\ RegGoto(r, "spawn")
    /\ UNCHANGED <<held, owner, loop, dereg, closing>>

\* The keep-alive loop starts and Register returns nil.
RegisterSpawns(r) ==
    /\ RegAt(r, "spawn")
    /\ loop' = [loop EXCEPT ![r].pc = "stream", ![r].lease = reg[r].lease]
    /\ RegGoto(r, "ok")
    /\ UNCHANGED <<server, held, owner, dereg, closing>>

-----------------------------------------------------------------------------
(* keepAliveLoop.                                                          *)

LoopAt(r, p) == loop[r].pc = p
LoopGoto(r, p) == loop' = [loop EXCEPT ![r].pc = p]

\* The stream ends: cancelled (the loop returns), the lease is gone, or the
\* connection broke (a fault): re-register.
StreamEnds(r) ==
    /\ LoopAt(r, "stream")
    /\ \/ loop[r].cancelled /\ LoopGoto(r, "done") /\ UNCHANGED faults
       \/ /\ ~loop[r].cancelled
          /\ loop[r].lease \notin alive
          /\ LoopGoto(r, "grant") /\ UNCHANGED faults
       \/ ~loop[r].cancelled /\ Fault /\ LoopGoto(r, "grant")
    /\ UNCHANGED <<key, alive, granted, held, owner, reg, dereg, closing>>

\* A new lease; a cancelled context makes the request fail.
LoopGrants(r) ==
    /\ LoopAt(r, "grant")
    /\ \/ /\ ~loop[r].cancelled
          /\ \E l \in Leases : /\ Granted(l)
                               /\ loop' = [loop EXCEPT ![r].pc = "put", ![r].new = l]
       \/ loop[r].cancelled /\ LoopGoto(r, "backoff") /\ UNCHANGED server
       \/ Fault /\ LoopGoto(r, "backoff") /\ UNCHANGED <<key, alive, granted>>
    /\ UNCHANGED <<held, owner, reg, dereg, closing>>

\* The Put.  A context cancelled while it is under way leaves open whether
\* it was applied.
LoopPuts(r) ==
    /\ LoopAt(r, "put")
    /\ \/ PutApplied(loop[r].new) /\ UNCHANGED faults /\ LoopGoto(r, "swap")
       \/ /\ loop[r].cancelled \/ loop[r].new \notin alive
          /\ PutApplied(loop[r].new) \/ UNCHANGED <<key, alive, granted>>
          /\ UNCHANGED faults /\ LoopGoto(r, "undo")
       \/ /\ Fault
          /\ PutApplied(loop[r].new) \/ UNCHANGED <<key, alive, granted>>
          /\ LoopGoto(r, "undo")
    /\ UNCHANGED <<held, owner, reg, dereg, closing>>

\* The failed attempt's lease is revoked under the same context: never
\* after a cancellation, perhaps otherwise.
LoopUndoes(r) ==
    /\ LoopAt(r, "undo")
    /\ \/ ~loop[r].cancelled /\ EndLease(loop[r].new)
       \/ UNCHANGED <<key, alive, granted>>
    /\ loop' = [loop EXCEPT ![r].pc = "backoff", ![r].new = 0]
    /\ UNCHANGED <<faults, held, owner, reg, dereg, closing>>

\* Mutant: the loop gives up after one failed re-registration.
LoopGivesUp(r) ==
    /\ LoopAt(r, "backoff")
    /\ LoopGoto(r, "done")
    /\ UNCHANGED <<server, held, owner, reg, dereg, closing>>

\* waitForContext: one second, or the end of the context.
LoopBacksOff(r) ==
    /\ LoopAt(r, "backoff")
    /\ LoopGoto(r, IF loop[r].cancelled THEN "done" ELSE "grant")
    /\ UNCHANGED <<server, held, owner, reg, dereg, closing>>

\* Under r.mu: the new lease replaces the loop's own one in the map, unless
\* somebody else replaced or removed that one meanwhile.
LoopSwaps(r) ==
    /\ LoopAt(r, "swap")
    /\ IF held = loop[r].lease
       THEN /\ held' = loop[r].new
            /\ loop' = [loop EXCEPT ![r].lease = loop[r].new, ![r].new = 0,
                                    ![r].pc = "stream"]
       ELSE LoopGoto(r, "drop") /\ UNCHANGED held
    /\ UNCHANGED <<server, owner, reg, dereg, closing>>

\* In the latter case the new lease is revoked and the loop returns.
LoopDrops(r) ==
    /\ LoopAt(r, "drop")
    /\ RevokeIgnored(loop[r].new)
    /\ loop' = [loop EXCEPT ![r].pc = "done", ![r].new = 0]
    /\ UNCHANGED <<held, owner, reg, dereg, closing>>

-----------------------------------------------------------------------------
(* Deregister and Close.                                                   *)

CancelOwner == IF owner = 0 THEN loop ELSE [loop EXCEPT ![owner].cancelled = TRUE]

\* Under r.mu: the loop is cancelled and both map entries are removed.
DeregisterBegins ==
    /\ dereg.pc = "idle" /\ NoRegRunning /\ closing.pc = "idle"
    /\ loop' = CancelOwner
    /\ owner' = 0
    /\ held' = 0
    /\ dereg' = [pc |-> "delete", lease |-> held]
    /\ UNCHANGED <<server, reg, closing>>

DeregisterDeletes ==
    /\ dereg.pc = "delete"
    /\ \/ key' = 0 /\ UNCHANGED <<alive, granted, faults>>
       \/ Fault /\ UNCHANGED <<key, alive, granted>>
    /\ dereg' = [dereg EXCEPT !.pc = "revoke"]
    /\ UNCHANGED <<held, owner, reg, loop, closing>>

DeregisterRevokes ==
    /\ dereg.pc = "revoke"
    /\ IF dereg.lease = 0 THEN UNCHANGED server ELSE RevokeIgnored(dereg.lease)
    /\ dereg' = [dereg EXCEPT !.pc = "done"]
    /\ UNCHANGED <<held, owner, reg, loop, closing>>

\* Close under r.mu: cancel everything, take and clear the leases.
CloseBegins ==
    /\ closing.pc = "idle" /\ NoRegRunning /\ dereg.pc \in {"idle", "done"}
    /\ loop' = CancelOwner
    /\ owner' = 0
    /\ held' = 0
    /\ closing' = [pc |-> "revoke", lease |-> held]
    /\ UNCHANGED <<server, reg, dereg>>

CloseRevokes ==
    /\ closing.pc = "revoke"
    /\ IF closing.lease = 0 THEN UNCHANGED server ELSE RevokeIgnored(closing.lease)
    /\ closing' = [closing EXCEPT !.pc = "wait"]
    /\ UNCHANGED <<held, owner, reg, loop, dereg>>

\* r.wg.Wait, then the client is closed.
CloseEnds ==
    /\ closing.pc = "wait"
    /\ \A r \in Regs : loop[r].pc \in {"none", "done"}
    /\ closing' = [closing EXCEPT !.pc = "closed"]
    /\ UNCHANGED <<server, held, owner, reg, loop, dereg>>

-----------------------------------------------------------------------------
RegisterStep(r) ==
    \/ RegisterGrants(r) \/ RegisterPuts(r) \/ RegisterUndoes(r)
    \/ RegisterStores(r) \/ RegisterRevokesOld(r) \/ RegisterSpawns(r)

LoopStep(r) ==
    \/ StreamEnds(r) \/ LoopGrants(r) \/ LoopPuts(r) \/ LoopUndoes(r)
    \/ LoopBacksOff(r) \/ LoopSwaps(r) \/ LoopDrops(r)

EndStep == DeregisterDeletes \/ DeregisterRevokes \/ CloseRevokes \/ CloseEnds

Next ==
    \/ \E r \in Regs : RegisterBegins(r) \/ RegisterStep(r) \/ LoopStep(r)
    \/ DeregisterBegins
    \/ CloseBegins
    \/ EndStep
    \/ \E l \in Leases : Expire(l)

Spec == Init /\ [][Next]_vars

\* Every goroutine inside an operation goes on (requests have deadlines or
\* end with their context) and an unattended lease expires.
Fairness ==
    /\ \A r \in Regs : WF_vars(RegisterStep(r)) /\ WF_vars(LoopStep(r))
    /\ WF_vars(EndStep)
    /\ \A l \in Leases : WF_vars(Expire(l))

-----------------------------------------------------------------------------
Attentive(r) == loop[r].pc \notin {"none", "done"} /\ ~loop[r].cancelled

\* A lease is renewed only while it is the one the client believes to hold:
\* an instance that was replaced or deregistered is never kept alive by a
\* loop of its past.
RenewsOnlyHeld ==
    \A r \in Regs : Attentive(r) => owner = r /\ loop[r].lease = held

\* What the maps promise is backed: a held lease has exactly one loop that
\* will renew or replace it, or a Register about to start that loop.
HeldHasLoop ==
    held # 0 => /\ owner # 0
                /\ Attentive(owner) \/ reg[owner].pc \in {"revokeOld", "spawn"}

\* The client's maps and its keep-alive loops agree: each held lease has its
\* loop, and no other loop renews.
Inv == TypeOK /\ RenewsOnlyHeld /\ HeldHasLoop

\* Once the client holds nothing (a failed Register, a Deregister or a Close
\* whatever its requests returned), the service key disappears and stays
\* away, also when a re-registration was in flight at that moment.
NoGhost == <>[](held = 0 /\ NoRegRunning) => <>[](key = 0)

\* The instance was registered by one call of Register.
RegisteredOnce == Cardinality({r \in Regs : reg[r].pc # "idle"}) = 1

\* An instance that is registered once and neither deregistered nor closed
\* ends up in etcd and stays there, through lost leases, failed requests and
\* re-registrations by its loop.  (With a second Register this fails: a Put of
\* the first loop still in flight may move the key to a lease that is dropped.)
StaysRegistered == <>[](held # 0 /\ RegisteredOnce) => <>[](key = held)

\* Close returns: the loops it waits for end, whatever they were doing.
CloseReturns == closing.pc = "revoke" ~> closing.pc = "closed"
=============================================================================
