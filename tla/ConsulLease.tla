---------------------------- MODULE ConsulLease ----------------------------
(***************************************************************************)
(* Registration of one instance in Consul: Register, the loop that renews  *)
(* its TTL check, Deregister and Close of contrib/registry/consul/         *)
(* registry.go, against a Consul agent.                                    *)
(*                                                                         *)
(* The agent keeps one service with one check.  A TTL check passes while   *)
(* it is renewed; an HTTP check passes while the instance answers /ready.  *)
(* A check that stays critical is removed together with its service        *)
(* (DeregisterCriticalServiceAfter), and Discover returns services none of *)
(* whose checks is critical: a service that lost its check is found, and   *)
(* nothing reaps it.  Unlike the etcd client this one never registers      *)
(* again.                                                                  *)
(*                                                                         *)
(* Requests, faults and critical sections are treated as in EtcdLease.     *)
(***************************************************************************)
EXTENDS Naturals, FiniteSets

CONSTANTS
    Regs,           \* Register calls; each names the loop it spawns
    MaxFaults       \* bound on failed requests and missed renewals

VARIABLES
    \* the Consul agent and the instance's HTTP server (external)
    check,          \* the service's check, "none" without the service and
                    \* "unchecked" of a service that has no check any more
    serving,        \* the instance answers /ready
    faults,
    \* the client
    checkType,      \* cfg.CheckType
    known,          \* r.checks has the instance
    owner,          \* loop whose cancel is r.cancels[instanceID], 0 if none
    reg,            \* Register calls
    loop,           \* refreshTTL loops
    dereg,          \* the Deregister call
    closing         \* the Close call

agent == <<check, serving, faults>>
client == <<checkType, known, owner, reg, loop, dereg, closing>>
vars == <<agent, client>>

Checks == {"none", "critical", "passing", "unchecked"}
RegPCs == {"idle", "service", "pass", "undo", "store", "spawn", "ok", "failed"}
LoopPCs == {"none", "wait", "update", "done"}

TypeOK ==
    /\ check \in Checks /\ serving \in BOOLEAN /\ faults \in 0 .. MaxFaults
    /\ checkType \in {"ttl", "http"}
    /\ known \in BOOLEAN /\ owner \in Regs \cup {0}
    /\ reg \in [Regs -> RegPCs]
    /\ loop \in [Regs -> [pc : LoopPCs, cancelled : BOOLEAN]]
    /\ dereg \in {"idle", "service", "done"}
    /\ closing \in [pc : {"idle", "wait", "service", "check", "closed"}, known : BOOLEAN]

Init ==
    /\ check = "none" /\ serving = TRUE /\ faults = 0
    /\ checkType \in {"ttl", "http"}
    /\ known = FALSE /\ owner = 0
    /\ reg = [r \in Regs |-> "idle"]
    /\ loop = [r \in Regs |-> [pc |-> "none", cancelled |-> FALSE]]
    /\ dereg = "idle"
    /\ closing = [pc |-> "idle", known |-> FALSE]

-----------------------------------------------------------------------------
(* The Consul agent (external).                                            *)

Fault == faults < MaxFaults /\ faults' = faults + 1

HasCheck == check \in {"critical", "passing"}

\* A new check is critical; registering again may keep the old status.
ServiceAdded == check' = "critical" \/ (HasCheck /\ UNCHANGED check)
\* A renewal of a check that exists.
Renewed == HasCheck /\ check' = "passing"
\* The service is deregistered, and its check with it.
Removed == check' = "none"
\* Only the check is deregistered: a service that is still there keeps being
\* found.
CheckRemoved == check' = IF check = "none" THEN "none" ELSE "unchecked"

\* A request whose result the client ignores: done, or lost.
Ignored(effect) ==
    \/ effect /\ UNCHANGED faults
    \/ Fault /\ UNCHANGED check

Attentive(r) == loop[r].pc \in {"wait", "update"} /\ ~loop[r].cancelled
Renewing == \E r \in Regs : Attentive(r) \/ reg[r] \in {"store", "spawn"}

\* The TTL passes without a renewal: with a loop at work, a fault.
TTLExpires ==
    /\ checkType = "ttl" /\ check = "passing"
    /\ check' = "critical"
    /\ IF Renewing THEN Fault ELSE UNCHANGED faults
    /\ UNCHANGED <<serving, client>>

\* The agent calls /ready.
Probe ==
    /\ checkType = "http" /\ HasCheck
    /\ check' = IF serving THEN "passing" ELSE "critical"
    /\ check' # check
    /\ UNCHANGED <<serving, faults, client>>

\* A check was critical for too long.  While it is renewed, or probed
\* successfully, that takes more than one fault in a row.
Reap ==
    /\ check = "critical"
    /\ Removed
    /\ IF \/ checkType = "ttl" /\ (Renewing \/ \E r \in Regs : reg[r] = "pass")
          \/ checkType = "http" /\ serving
       THEN Fault ELSE UNCHANGED faults
    /\ UNCHANGED <<serving, client>>

\* The instance stops or starts to be ready.
Readiness ==
    /\ checkType = "http"
    /\ serving' = ~serving
    /\ UNCHANGED <<check, faults, client>>

-----------------------------------------------------------------------------
(* Register.                                                               *)

RegGoto(r, p) == reg' = [reg EXCEPT ![r] = p]
NoRegRunning == \A r \in Regs : reg[r] \in {"idle", "ok", "failed"}

\* Register calls may overlap each other, not a Deregister or a Close.
RegisterBegins(r) ==
    /\ reg[r] = "idle" /\ dereg = "idle" /\ closing.pc = "idle"
    /\ RegGoto(r, "service")
    /\ UNCHANGED <<agent, checkType, known, owner, loop, dereg, closing>>

\* ServiceRegisterOpts: a failed one may have been applied, and stays.
RegisterService(r) ==
    /\ reg[r] = "service"
    /\ \/ /\ ServiceAdded /\ UNCHANGED faults
          /\ RegGoto(r, IF checkType = "ttl" THEN "pass" ELSE "store")
       \/ /\ ServiceAdded \/ UNCHANGED check
          /\ Fault /\ RegGoto(r, "failed")
    /\ UNCHANGED <<serving, checkType, known, owner, loop, dereg, closing>>

\* UpdateTTLOpts(..., "initial"), so that the service is found at once.
RegisterPasses(r) ==
    /\ reg[r] = "pass"
    /\ \/ Renewed /\ UNCHANGED faults /\ RegGoto(r, "store")
       \/ ~HasCheck /\ UNCHANGED <<check, faults>> /\ RegGoto(r, "undo")
       \/ (Renewed \/ UNCHANGED check) /\ Fault /\ RegGoto(r, "undo")
    /\ UNCHANGED <<serving, checkType, known, owner, loop, dereg, closing>>

\* The service is deregistered under the same context, which may have ended.
RegisterUndoes(r) ==
    /\ reg[r] = "undo"
    /\ Removed \/ UNCHANGED check
    /\ RegGoto(r, "failed")
    /\ UNCHANGED <<serving, faults, checkType, known, owner, loop, dereg, closing>>

Cancelled(l) == IF l = 0 THEN loop ELSE [loop EXCEPT ![l].cancelled = TRUE]

\* Under r.mu: the check is known, a TTL check's cancel replaces the old one,
\* which is called.
RegisterStores(r) ==
    /\ reg[r] = "store"
    /\ known' = TRUE
    /\ owner' = IF checkType = "ttl" THEN r ELSE 0
    /\ loop' = Cancelled(owner)
    /\ RegGoto(r, IF checkType = "ttl" THEN "spawn" ELSE "ok")
    /\ UNCHANGED <<agent, checkType, dereg, closing>>

RegisterSpawns(r) ==
    /\ reg[r] = "spawn"
    /\ loop' = [loop EXCEPT ![r].pc = "wait"]
    /\ RegGoto(r, "ok")
    /\ UNCHANGED <<agent, checkType, known, owner, dereg, closing>>

-----------------------------------------------------------------------------
(* refreshTTL.                                                             *)

\* A tick, or the end of the context.
LoopWakes(r) ==
    /\ loop[r].pc = "wait"
    /\ loop' = [loop EXCEPT ![r].pc = IF loop[r].cancelled THEN "done" ELSE "update"]
    /\ UNCHANGED <<agent, checkType, known, owner, reg, dereg, closing>>

\* UpdateTTLOpts: an error is only logged.  A context cancelled while the
\* request is under way leaves open whether it was applied.
LoopUpdates(r) ==
    /\ loop[r].pc = "update"
    /\ \/ Renewed /\ UNCHANGED faults
       \/ (loop[r].cancelled \/ ~HasCheck) /\ UNCHANGED <<check, faults>>
       \/ Fault /\ UNCHANGED check
    /\ loop' = [loop EXCEPT ![r].pc = "wait"]
    /\ UNCHANGED <<serving, checkType, known, owner, reg, dereg, closing>>

-----------------------------------------------------------------------------
(* Deregister and Close.                                                   *)

\* Mutant: Deregister leaves the loop running.
DeregisterWithoutCancel ==
    /\ dereg = "idle" /\ NoRegRunning /\ closing.pc = "idle"
    /\ dereg' = "service"
    /\ known' = FALSE /\ owner' = 0
    /\ UNCHANGED <<agent, checkType, reg, loop, closing>>

\* Under r.mu: the loop is cancelled and both map entries are removed.
DeregisterBegins ==
    /\ dereg = "idle" /\ NoRegRunning /\ closing.pc = "idle"
    /\ loop' = Cancelled(owner)
    /\ known' = FALSE /\ owner' = 0
    /\ dereg' = "service"
    /\ UNCHANGED <<agent, checkType, reg, closing>>

DeregisterService ==
    /\ dereg = "service"
    /\ Ignored(Removed)
    /\ dereg' = "done"
    /\ UNCHANGED <<serving, checkType, known, owner, reg, loop, closing>>

\* Close under r.mu: cancel everything, take and clear the checks.
CloseBegins ==
    /\ closing.pc = "idle" /\ NoRegRunning /\ dereg \in {"idle", "done"}
    /\ loop' = Cancelled(owner)
    /\ known' = FALSE /\ owner' = 0
    /\ closing' = [pc |-> "wait", known |-> known]
    /\ UNCHANGED <<agent, checkType, reg, dereg>>

\* r.wg.Wait.
CloseWaits ==
    /\ closing.pc = "wait"
    /\ \A r \in Regs : loop[r].pc \in {"none", "done"}
    /\ closing' = [closing EXCEPT !.pc = IF closing.known THEN "service" ELSE "closed"]
    /\ UNCHANGED <<agent, checkType, known, owner, reg, loop, dereg>>

\* The service is deregistered ...
CloseDeregistersService ==
    /\ closing.pc = "service"
    /\ Ignored(Removed)
    /\ closing' = [closing EXCEPT !.pc = "check"]
    /\ UNCHANGED <<serving, checkType, known, owner, reg, loop, dereg>>

\* ... and then its check, whatever the first request returned.
CloseDeregistersCheck ==
    /\ closing.pc = "check"
    /\ Ignored(CheckRemoved)
    /\ closing' = [closing EXCEPT !.pc = "closed"]
    /\ UNCHANGED <<serving, checkType, known, owner, reg, loop, dereg>>

-----------------------------------------------------------------------------
RegisterStep(r) ==
    \/ RegisterService(r) \/ RegisterPasses(r) \/ RegisterUndoes(r)
    \/ RegisterStores(r) \/ RegisterSpawns(r)

LoopStep(r) == LoopWakes(r) \/ LoopUpdates(r)

EndStep ==
    \/ DeregisterService
    \/ CloseWaits \/ CloseDeregistersService \/ CloseDeregistersCheck

Next ==
    \/ \E r \in Regs : RegisterBegins(r) \/ RegisterStep(r) \/ LoopStep(r)
    \/ DeregisterBegins \/ CloseBegins \/ EndStep
    \/ TTLExpires \/ Probe \/ Reap \/ Readiness

\* Every goroutine inside an operation goes on, the ticker ticks, and the
\* agent expires, probes and reaps.
Fairness ==
    /\ \A r \in Regs : WF_vars(RegisterStep(r)) /\ WF_vars(LoopStep(r))
    /\ WF_vars(EndStep)
    /\ WF_vars(TTLExpires) /\ WF_vars(Probe) /\ WF_vars(Reap)

-----------------------------------------------------------------------------
\* A check is renewed only by the loop of the registration in force, and a
\* TTL registration in force has such a loop or is about to start it.
LoopsMatchMaps ==
    /\ \A r \in Regs : Attentive(r) => owner = r /\ known
    /\ known /\ checkType = "ttl"
          => owner # 0 /\ (Attentive(owner) \/ reg[owner] = "spawn")
    /\ checkType = "http" => owner = 0

\* A service loses its check, which nothing would reap, only to a Close that
\* has ended and one of whose client's requests failed: no overlap of Register,
\* Deregister, Close and the loops does that without a failure.
OnlyFailedCloseUnchecks ==
    check = "unchecked" => closing.pc = "closed" /\ faults > 0 /\ NoRegRunning

\* The client's maps and its loops agree, and so do the requests of Close.
Inv == TypeOK /\ LoopsMatchMaps /\ OnlyFailedCloseUnchecks

\* Once the client holds nothing (a failed Register, a Deregister or a Close),
\* and no longer answers /ready where that is the check, the service disappears
\* and stays away, whatever the requests returned but for one case: a Close
\* whose request for the service fails and whose request for the check does
\* not leaves a service without a check, which stays for ever.
Withdrawn == ~known /\ NoRegRunning /\ (checkType = "http" => ~serving)
NoGhost == <>[](Withdrawn /\ check # "unchecked") => <>[](check = "none")

\* An instance that is registered once, answers /ready where that is the
\* check, and is neither deregistered nor closed is found and stays found,
\* through failed requests and missed renewals, unless the agent reaped it:
\* nothing registers it again then.
Once == Cardinality({r \in Regs : reg[r] # "idle"}) = 1
Held == known /\ Once /\ HasCheck /\ (checkType = "http" => serving)
StaysRegistered == <>[]Held => <>[](check = "passing")

\* Close returns: the loops it waits for end.
CloseReturns == closing.pc = "wait" ~> closing.pc = "closed"
=============================================================================
