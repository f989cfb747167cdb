------------------------------ MODULE Registry ------------------------------
(***************************************************************************)
(* registry.Registry (registry/registry.go), the interface services        *)
(* register and are found through, with the two backends that implement    *)
(* it: registration in etcd (module EtcdLease) and in Consul (ConsulLease) *)
(* and the watch of both (ServiceWatch).  registry.New chooses a backend;  *)
(* what a caller may rely on is the same for both.                         *)
(*                                                                         *)
(* A backend's registrations and watches do not share any state of the     *)
(* client, so a behaviour is one of a registration or one of a watch.      *)
(***************************************************************************)
EXTENDS EtcdLease

CONSTANTS Ids, MaxWrites, MaxBreaks, Capacity

ASSUME IdsAssumption == IsFiniteSet(Ids)
ASSUME WatchAssumption == {MaxWrites, MaxBreaks, Capacity} \subseteq Nat

VARIABLES
    use,            \* a registration in etcd or in Consul, or a watch
    \* the Consul registration
    cCheck, cServing, cFaults, cCheckType, cKnown, cOwner, cReg, cLoop, cDereg, cClosing,
    \* the watch
    source, writes, breaks, wpc, index, seen, todo, events, closed, stopped, view, viewed

consulVars == <<cCheck, cServing, cFaults, cCheckType, cKnown, cOwner, cReg, cLoop,
                cDereg, cClosing>>
watchVars == <<source, writes, breaks, wpc, index, seen, todo, events, closed, stopped,
               view, viewed>>
registryVars == <<use, vars, consulVars, watchVars>>

Consul == INSTANCE ConsulLease
    WITH check <- cCheck, serving <- cServing, faults <- cFaults, checkType <- cCheckType,
         known <- cKnown, owner <- cOwner, reg <- cReg, loop <- cLoop,
         dereg <- cDereg, closing <- cClosing
Watch == INSTANCE ServiceWatch

\* registry.New: the factory registered under cfg.Type.
New ==
    /\ use \in {"etcd", "consul", "watch"}
    /\ Init /\ Consul!Init /\ Watch!Init
    /\ use # "consul" => cCheckType = "ttl"
    /\ use # "watch" => source = "etcd"

Step ==
    /\ \/ use = "etcd" /\ Next /\ UNCHANGED <<consulVars, watchVars>>
       \/ use = "consul" /\ Consul!Next /\ UNCHANGED <<vars, watchVars>>
       \/ use = "watch" /\ Watch!Next /\ UNCHANGED <<vars, consulVars>>
    /\ UNCHANGED use

\* What is in use goes on: requests end with their context.  A consumer of
\* events need not read them.
FairRegistry ==
    /\ New /\ [][Step]_registryVars
    /\ Fairness
    /\ Consul!Fairness
    /\ WF_registryVars(use = "watch" /\ Watch!Watcher /\ UNCHANGED <<vars, consulVars, use>>)

-----------------------------------------------------------------------------
\* The client's maps and its loops agree: each registration in force has the
\* loop that renews it, and no loop renews anything else; a service in Consul
\* is left without its check only by a Close with a failed request.  A watcher
\* tells its consumer of each instance in the order of its history, where one
\* event may stand for several writes, and a consumer that has read everything
\* of a watcher that has heard of every write knows the instances as they are,
\* but for an instance whose data in etcd was ever invalid.
RegistryInv == Inv /\ Consul!Inv /\ Watch!Inv

\* An instance that is not registered any more disappears from the registry;
\* in Consul, unless Close took the check and not the service.
Withdraws == NoGhost /\ Consul!NoGhost

\* An instance that is registered is found, and a watcher sees what Discover
\* returns.
Announces == StaysRegistered /\ Consul!StaysRegistered /\ Watch!Converges

\* Close returns, and a watch whose context ends closes its channel.
Closes == CloseReturns /\ Consul!CloseReturns /\ Watch!Ends
=============================================================================
