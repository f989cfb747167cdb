--------------------------- MODULE RegistryProofs ---------------------------
(***************************************************************************)
(* Proofs about Registry, for any number of Register calls, instances,     *)
(* writes and faults and any capacity of the event channel.                *)
(*                                                                         *)
(* What the maps of a backend's client say about its loops is not          *)
(* inductive by itself.  Three facts are missing: how far its Register     *)
(* call is when a loop exists, that a loop leaves its cycle only when it   *)
(* was cancelled, and that whoever is not in the map any more was          *)
(* cancelled in the same critical section.                                 *)
(* For the requests of Close in Consul it takes that no Register is under  *)
(* way then and what the first request left when the second is sent.       *)
(*                                                                         *)
(* Of a watch it takes what is under way: the last event under way of an   *)
(* instance is what the watcher knows of it, and what the watcher knows is *)
(* what the writes it was told of say.                                     *)
(***************************************************************************)
EXTENDS Registry, TLAPS, FiniteSetTheorems, SequenceTheorems, WellFoundedInduction

USE RegsAssumption, MaxFaultsAssumption

-----------------------------------------------------------------------------
(* Registration in etcd.                                                   *)

Registers == [pc : RegPCs, lease : LeaseOrNone, old : LeaseOrNone]
Loops == [pc : LoopPCs, lease : LeaseOrNone, new : LeaseOrNone, cancelled : BOOLEAN]

\* Register has stored its lease and its cancel in the maps.
Stored(r) == reg[r].pc \in {"revokeOld", "spawn", "ok"}

\* A loop exists once its Register returned; the stored one that is not the
\* owner is cancelled, and only a cancelled loop gives up.
LoopsOfRegisters ==
    \A r \in Regs :
        /\ loop[r].pc = "none" <=> reg[r].pc # "ok"
        /\ Stored(r) => owner = r \/ loop[r].cancelled
        /\ ~Stored(r) => owner # r /\ ~loop[r].cancelled
        /\ owner = r => ~loop[r].cancelled
        /\ loop[r].pc \in {"drop", "done"} => loop[r].cancelled

\* The held lease is the owner's.
LeaseOfOwner ==
    /\ held # 0 <=> owner # 0
    /\ \A r \in Regs :
        /\ reg[r].pc \in {"put", "undo", "store", "revokeOld", "spawn"} => reg[r].lease # 0
        /\ owner = r => held = IF reg[r].pc = "ok" THEN loop[r].lease ELSE reg[r].lease

EtcdIndInv == TypeOK /\ LoopsOfRegisters /\ LeaseOfOwner

\* Leases are numbered.
LEMMA MaxLeaseType == MaxLease \in Nat
BY FS_CardinalityType DEF MaxLease

\* Calling the owner's cancel, if there is one, does this to the loops.
LEMMA CancelOwnerLemma ==
    ASSUME TypeOK
    PROVE  /\ CancelOwner \in [Regs -> Loops]
           /\ \A s \in Regs :
                /\ CancelOwner[s].pc = loop[s].pc
                /\ CancelOwner[s].lease = loop[s].lease
                /\ CancelOwner[s].new = loop[s].new
                /\ s # owner => CancelOwner[s].cancelled = loop[s].cancelled
                /\ s = owner => CancelOwner[s].cancelled
<1>1. loop \in [Regs -> Loops]
  BY DEF TypeOK, Loops
<1>2. CASE owner = 0
  BY <1>1, <1>2 DEF CancelOwner, TypeOK
<1>3. CASE owner # 0
  <2>1. owner \in Regs
    BY <1>3 DEF TypeOK
  <2>2. CancelOwner = [loop EXCEPT ![owner].cancelled = TRUE]
    BY <1>3 DEF CancelOwner
  <2> QED
    BY <1>1, <2>1, <2>2 DEF Loops
<1> QED
  BY <1>2, <1>3

\* New returns a client that holds nothing.
LEMMA EtcdInit == Init => EtcdIndInv
BY MaxLeaseType DEF Init, EtcdIndInv, TypeOK, LoopsOfRegisters, LeaseOfOwner, Stored,
                    LeaseOrNone, RegPCs, LoopPCs

\* Every step of Register preserves it: the request to the server under any
\* outcome ...
LEMMA RegisterRequestInv ==
    ASSUME EtcdIndInv, NEW r \in Regs
    PROVE  \/ RegisterBegins(r) \/ RegisterPuts(r) \/ RegisterUndoes(r)
           \/ RegisterRevokesOld(r)
           => EtcdIndInv'
<1> USE MaxLeaseType DEF EtcdIndInv, TypeOK, LoopsOfRegisters, LeaseOfOwner, Stored,
                         LeaseOrNone, Leases, RegPCs, LoopPCs, Fault, Granted,
                         PutApplied, EndLease, RevokeIgnored, RegAt, RegGoto, LoopAt,
                         LoopGoto, server
<1>1. ASSUME RegisterBegins(r) PROVE EtcdIndInv'
  BY <1>1 DEF RegisterBegins
<1>2. ASSUME RegisterPuts(r) PROVE EtcdIndInv'
  BY <1>2 DEF RegisterPuts
<1>3. ASSUME RegisterUndoes(r) PROVE EtcdIndInv'
  BY <1>3 DEF RegisterUndoes
<1>4. ASSUME RegisterRevokesOld(r) PROVE EtcdIndInv'
  BY <1>4 DEF RegisterRevokesOld
<1> QED
  BY <1>1, <1>2, <1>3, <1>4

\* ... the Grant, which makes the lease known ...
LEMMA RegisterGrantsInv ==
    ASSUME EtcdIndInv, NEW r \in Regs, RegisterGrants(r) PROVE EtcdIndInv'
<1> USE MaxLeaseType DEF RegisterGrants, EtcdIndInv, TypeOK, LoopsOfRegisters,
                         LeaseOfOwner, Stored, LeaseOrNone, Leases, RegPCs, LoopPCs,
                         Fault, Granted, PutApplied, EndLease, RevokeIgnored, RegAt,
                         RegGoto, LoopAt, LoopGoto, server
<1>1. /\ \A s \in Regs : s # r => reg'[s] = reg[s]
      /\ loop' = loop /\ owner' = owner /\ held' = held
      /\ reg'[r].pc \in {"put", "failed"}
      /\ reg'[r].pc = "put" => reg'[r].lease # 0
      /\ reg' \in [Regs -> Registers]
  BY DEF Registers
<1>2. TypeOK'
  BY <1>1 DEF Registers
<1>3. LoopsOfRegisters'
  BY <1>1
<1>4. LeaseOfOwner'
  BY <1>1
<1> QED
  BY <1>2, <1>3, <1>4

\* ... the critical section, which replaces and cancels the former owner ...
LEMMA RegisterStoresInv ==
    ASSUME EtcdIndInv, NEW r \in Regs, RegisterStores(r) PROVE EtcdIndInv'
<1>1. /\ owner \in Regs \cup {0} /\ held \in LeaseOrNone /\ reg \in [Regs -> Registers]
      /\ owner # r /\ reg[r].lease # 0 /\ reg[r].lease \in LeaseOrNone
      /\ reg[r].pc = "store" /\ ~loop[r].cancelled /\ loop[r].pc = "none"
  BY DEF EtcdIndInv, TypeOK, Registers, LoopsOfRegisters, LeaseOfOwner, Stored,
         RegisterStores, RegAt
<1>2. /\ reg' \in [Regs -> Registers]
      /\ \A s \in Regs : s # r => reg'[s] = reg[s]
      /\ reg'[r].pc = "revokeOld" /\ reg'[r].lease = reg[r].lease
  <2>1. reg' = [reg EXCEPT ![r].pc = "revokeOld", ![r].old = held]
    BY DEF RegisterStores
  <2>2. \A s \in Regs : s # r => reg'[s] = reg[s]
    BY <1>1, <2>1 DEF Registers
  <2>3. reg'[r].pc = "revokeOld" /\ reg'[r].lease = reg[r].lease
    BY <1>1, <2>1 DEF Registers
  <2>4. reg' \in [Regs -> Registers]
    BY <1>1, <2>1 DEF Registers, RegPCs
  <2> QED
    BY <2>2, <2>3, <2>4
<1>3. /\ loop' = CancelOwner /\ owner' = r /\ held' = reg[r].lease
      /\ UNCHANGED <<server, dereg, closing>>
  BY DEF RegisterStores, CancelOwner
<1>4. /\ loop' \in [Regs -> Loops]
      /\ \A s \in Regs : /\ loop'[s].pc = loop[s].pc /\ loop'[s].lease = loop[s].lease
                         /\ loop'[s].new = loop[s].new
                         /\ s # owner => loop'[s].cancelled = loop[s].cancelled
                         /\ s = owner => loop'[s].cancelled
  BY <1>3, CancelOwnerLemma DEF EtcdIndInv
<1>5. TypeOK'
  BY <1>1, <1>2, <1>3, <1>4 DEF EtcdIndInv, TypeOK, Registers, Loops, server
<1>6. LoopsOfRegisters'
  BY <1>1, <1>2, <1>3, <1>4 DEF EtcdIndInv, LoopsOfRegisters, Stored
<1>7. LeaseOfOwner'
  BY <1>1, <1>2, <1>3, <1>4 DEF EtcdIndInv, LeaseOfOwner
<1> QED
  BY <1>5, <1>6, <1>7 DEF EtcdIndInv

\* ... and the start of its loop.
LEMMA RegisterSpawnsInv ==
    ASSUME EtcdIndInv, NEW r \in Regs, RegisterSpawns(r) PROVE EtcdIndInv'
<1>1. /\ reg \in [Regs -> Registers] /\ loop \in [Regs -> Loops]
      /\ reg[r].lease \in LeaseOrNone /\ reg[r].pc = "spawn" /\ loop[r].pc = "none"
  BY DEF EtcdIndInv, TypeOK, Registers, Loops, LoopsOfRegisters, RegisterSpawns, RegAt
<1>2. /\ loop' \in [Regs -> Loops]
      /\ \A s \in Regs : s # r => loop'[s] = loop[s]
      /\ loop'[r].pc = "stream" /\ loop'[r].lease = reg[r].lease
      /\ loop'[r].new = loop[r].new /\ loop'[r].cancelled = loop[r].cancelled
  <2>1. loop' = [loop EXCEPT ![r].pc = "stream", ![r].lease = reg[r].lease]
    BY DEF RegisterSpawns
  <2>2. \A s \in Regs : s # r => loop'[s] = loop[s]
    BY <1>1, <2>1 DEF Loops
  <2>3. /\ loop'[r].pc = "stream" /\ loop'[r].lease = reg[r].lease
        /\ loop'[r].new = loop[r].new /\ loop'[r].cancelled = loop[r].cancelled
    BY <1>1, <2>1 DEF Loops
  <2>4. loop' \in [Regs -> Loops]
    BY <1>1, <2>1 DEF Loops, LoopPCs
  <2> QED
    BY <2>2, <2>3, <2>4
<1>3. /\ reg' \in [Regs -> Registers]
      /\ \A s \in Regs : s # r => reg'[s] = reg[s]
      /\ reg'[r].pc = "ok" /\ reg'[r].lease = reg[r].lease
  BY <1>1 DEF RegisterSpawns, RegGoto, Registers, RegPCs
<1>4. UNCHANGED <<server, held, owner, dereg, closing>>
  BY DEF RegisterSpawns
<1>5. TypeOK'
  BY <1>1, <1>2, <1>3, <1>4 DEF EtcdIndInv, TypeOK, Registers, Loops, server
<1>6. LoopsOfRegisters'
  BY <1>1, <1>2, <1>3, <1>4 DEF EtcdIndInv, LoopsOfRegisters, Stored
<1>7. LeaseOfOwner'
  BY <1>1, <1>2, <1>3, <1>4 DEF EtcdIndInv, LeaseOfOwner
<1> QED
  BY <1>5, <1>6, <1>7 DEF EtcdIndInv

\* Every step of a keep-alive loop preserves it.  A request or a wait moves
\* its program counter: never to the end unless it was cancelled.
LEMMA LoopMoves ==
    ASSUME EtcdIndInv, NEW r \in Regs, NEW p \in LoopPCs \ {"none"},
           loop[r].pc # "none", LoopGoto(r, p),
           p \in {"drop", "done"} => loop[r].cancelled,
           p \in {"put", "undo", "swap", "drop"} <=> loop[r].new # 0,
           UNCHANGED <<held, owner, reg, dereg, closing>>,
           key' \in LeaseOrNone, alive' \subseteq Leases, granted' \in LeaseOrNone,
           faults' \in 0 .. MaxFaults
    PROVE  EtcdIndInv'
<1>1. loop \in [Regs -> Loops]
  BY DEF EtcdIndInv, TypeOK, Loops
<1>2. /\ \A s \in Regs : s # r => loop'[s] = loop[s]
      /\ loop'[r].pc = p /\ loop'[r].lease = loop[r].lease /\ loop'[r].new = loop[r].new
      /\ loop'[r].cancelled = loop[r].cancelled
      /\ loop' \in [Regs -> Loops]
  BY <1>1 DEF LoopGoto, Loops
<1>3. TypeOK'
  BY <1>2 DEF EtcdIndInv, TypeOK, Loops
<1>4. LoopsOfRegisters'
  BY <1>2 DEF EtcdIndInv, LoopsOfRegisters, Stored
<1>5. LeaseOfOwner'
  BY <1>2 DEF EtcdIndInv, LeaseOfOwner
<1> QED
  BY <1>3, <1>4, <1>5 DEF EtcdIndInv

\* Its requests and waits ...
LEMMA LoopRequestInv ==
    ASSUME EtcdIndInv, NEW r \in Regs
    PROVE  \/ StreamEnds(r) \/ LoopPuts(r) \/ LoopUndoes(r) \/ LoopBacksOff(r)
           \/ LoopDrops(r)
           => EtcdIndInv'
<1>1. /\ key \in LeaseOrNone /\ alive \subseteq Leases /\ Leases \subseteq LeaseOrNone
      /\ granted \in LeaseOrNone /\ faults \in 0 .. MaxFaults
      /\ loop[r].pc \in {"put", "undo", "swap", "drop"} <=> loop[r].new # 0
      /\ loop[r].cancelled \in BOOLEAN
  BY MaxLeaseType DEF EtcdIndInv, TypeOK, Leases, LeaseOrNone
<1>2. ASSUME StreamEnds(r) PROVE EtcdIndInv'
  <2>1. PICK p \in {"done", "grant"} :
           LoopGoto(r, p) /\ (p = "done" => loop[r].cancelled)
    BY <1>2 DEF StreamEnds
  <2>2. faults' \in 0 .. MaxFaults
    BY <1>1, <1>2 DEF StreamEnds, Fault
  <2>3. loop[r].pc = "stream" /\ p \in LoopPCs \ {"none"}
    BY <1>2, <2>1 DEF StreamEnds, LoopAt, LoopPCs
  <2> QED
    BY <1>1, <1>2, <2>1, <2>2, <2>3, LoopMoves DEF StreamEnds
<1>3. ASSUME LoopPuts(r) PROVE EtcdIndInv'
  <2>1. PICK p \in {"swap", "undo"} : LoopGoto(r, p)
    BY <1>3 DEF LoopPuts
  <2>2. /\ key' \in LeaseOrNone /\ alive' \subseteq Leases /\ granted' \in LeaseOrNone
        /\ faults' \in 0 .. MaxFaults
    BY <1>1, <1>3 DEF LoopPuts, Fault, PutApplied
  <2>3. loop[r].pc = "put" /\ p \in LoopPCs \ {"none"}
    BY <1>3, <2>1 DEF LoopPuts, LoopAt, LoopPCs
  <2> QED
    BY <1>1, <1>3, <2>1, <2>2, <2>3, LoopMoves DEF LoopPuts
<1>4. ASSUME LoopBacksOff(r) PROVE EtcdIndInv'
  <2>1. PICK p \in {"done", "grant"} :
           LoopGoto(r, p) /\ (p = "done" => loop[r].cancelled)
    BY <1>1, <1>4 DEF LoopBacksOff
  <2>2. loop[r].pc = "backoff" /\ p \in LoopPCs \ {"none"}
    BY <1>4, <2>1 DEF LoopBacksOff, LoopAt, LoopPCs
  <2> QED
    BY <1>1, <1>4, <2>1, <2>2, LoopMoves DEF LoopBacksOff, server
<1>5. ASSUME LoopUndoes(r) \/ LoopDrops(r) PROVE EtcdIndInv'
  BY <1>5, MaxLeaseType DEF LoopUndoes, LoopDrops, EtcdIndInv, TypeOK, LoopsOfRegisters,
                            LeaseOfOwner, Stored, LeaseOrNone, Leases, RegPCs, LoopPCs,
                            Fault, Granted, PutApplied, EndLease, RevokeIgnored, RegAt,
                            RegGoto, LoopAt, LoopGoto, server
<1> QED
  BY <1>2, <1>3, <1>4, <1>5

\* ... the Grant of a re-registration ...
LEMMA LoopGrantsInv ==
    ASSUME EtcdIndInv, NEW r \in Regs, LoopGrants(r) PROVE EtcdIndInv'
<1> DEFINE Moved ==
        /\ \A s \in Regs : s # r => loop'[s] = loop[s]
        /\ loop'[r].pc \in {"put", "backoff"}
        /\ loop'[r].pc = "put" <=> loop'[r].new # 0
        /\ loop'[r].lease = loop[r].lease /\ loop'[r].cancelled = loop[r].cancelled
        /\ loop' \in [Regs -> Loops]
<1>1. /\ loop \in [Regs -> Loops] /\ loop[r].pc = "grant" /\ loop[r].new = 0
      /\ key \in LeaseOrNone /\ alive \subseteq Leases /\ Leases \subseteq LeaseOrNone \ {0}
      /\ granted \in LeaseOrNone /\ faults \in 0 .. MaxFaults
      /\ UNCHANGED <<held, owner, reg, dereg, closing>>
  BY MaxLeaseType
     DEF EtcdIndInv, TypeOK, Loops, LoopGrants, LoopAt, Leases, LeaseOrNone
<1>2. Moved
  <2>1. ASSUME loop' = [loop EXCEPT ![r].pc = "backoff"] PROVE Moved
    BY <1>1, <2>1 DEF Loops, LoopPCs
  <2>2. ASSUME NEW l \in Leases, loop' = [loop EXCEPT ![r].pc = "put", ![r].new = l]
        PROVE  Moved
    <3>1. \A s \in Regs : s # r => loop'[s] = loop[s]
      BY <1>1, <2>2 DEF Loops
    <3>2. loop'[r].pc = "put" /\ loop'[r].new = l /\ l # 0
      BY <1>1, <2>2 DEF Loops
    <3>3. loop'[r].lease = loop[r].lease /\ loop'[r].cancelled = loop[r].cancelled
      BY <1>1, <2>2 DEF Loops
    <3>4. loop' \in [Regs -> Loops]
      BY <1>1, <2>2 DEF Loops, LoopPCs
    <3> QED
      BY <3>1, <3>2, <3>3, <3>4
  <2> QED
    BY <2>1, <2>2 DEF LoopGrants, LoopGoto
<1>3. TypeOK'
  <2>1. /\ key' \in LeaseOrNone /\ alive' \subseteq Leases /\ granted' \in LeaseOrNone
        /\ faults' \in 0 .. MaxFaults
    BY <1>1 DEF LoopGrants, Granted, Fault, server
  <2>2. \A s \in Regs : loop'[s].pc \in {"put", "undo", "swap", "drop"} <=> loop'[s].new # 0
    BY <1>2 DEF EtcdIndInv, TypeOK
  <2> QED
    BY <1>1, <1>2, <2>1, <2>2 DEF EtcdIndInv, TypeOK, Loops
<1>4. LoopsOfRegisters'
  BY <1>1, <1>2 DEF EtcdIndInv, LoopsOfRegisters, Stored
<1>5. LeaseOfOwner'
  BY <1>1, <1>2 DEF EtcdIndInv, LeaseOfOwner
<1> QED
  BY <1>3, <1>4, <1>5 DEF EtcdIndInv

\* ... and the critical section, in which the loop finds that it is still the
\* one that holds the lease, or not.
LEMMA LoopSwapsInv ==
    ASSUME EtcdIndInv, NEW r \in Regs, LoopSwaps(r) PROVE EtcdIndInv'
<1>1. /\ loop \in [Regs -> Loops] /\ loop[r].pc = "swap" /\ loop[r].new # 0
      /\ loop[r].new \in LeaseOrNone /\ 0 \in LeaseOrNone
      /\ UNCHANGED <<server, owner, reg, dereg, closing>>
  BY MaxLeaseType DEF EtcdIndInv, TypeOK, Loops, LoopSwaps, LoopAt, LeaseOrNone
<1>2. CASE held = loop[r].lease
  <2>1. /\ held' = loop[r].new
        /\ loop' = [loop EXCEPT ![r].lease = loop[r].new, ![r].new = 0, ![r].pc = "stream"]
    BY <1>2 DEF LoopSwaps
  <2>2. /\ loop' \in [Regs -> Loops]
        /\ \A s \in Regs : s # r => loop'[s] = loop[s]
        /\ loop'[r].pc = "stream" /\ loop'[r].lease = loop[r].new /\ loop'[r].new = 0
        /\ loop'[r].cancelled = loop[r].cancelled
    <3>1. \A s \in Regs : s # r => loop'[s] = loop[s]
      BY <1>1, <2>1 DEF Loops
    <3>2. loop'[r].pc = "stream" /\ loop'[r].lease = loop[r].new /\ loop'[r].new = 0
      BY <1>1, <2>1 DEF Loops
    <3>3. loop'[r].cancelled = loop[r].cancelled
      BY <1>1, <2>1 DEF Loops
    <3>4. loop' \in [Regs -> Loops]
      BY <1>1, <2>1 DEF Loops, LoopPCs
    <3> QED
      BY <3>1, <3>2, <3>3, <3>4
  <2>3. TypeOK'
    BY <1>1, <2>1, <2>2 DEF EtcdIndInv, TypeOK, Loops, server
  <2>4. LoopsOfRegisters'
    BY <1>1, <2>1, <2>2 DEF EtcdIndInv, LoopsOfRegisters, Stored
  <2>5. LeaseOfOwner'
    BY <1>1, <1>2, <2>1, <2>2 DEF EtcdIndInv, LeaseOfOwner, LoopsOfRegisters, Stored,
         TypeOK
  <2> QED
    BY <2>3, <2>4, <2>5 DEF EtcdIndInv
<1>3. CASE held # loop[r].lease
  <2>1. held' = held /\ loop' = [loop EXCEPT ![r].pc = "drop"]
    BY <1>3 DEF LoopSwaps, LoopGoto
  <2>2. /\ loop' \in [Regs -> Loops]
        /\ \A s \in Regs : s # r => loop'[s] = loop[s]
        /\ loop'[r].pc = "drop" /\ loop'[r].lease = loop[r].lease
        /\ loop'[r].new = loop[r].new /\ loop'[r].cancelled = loop[r].cancelled
    BY <1>1, <2>1 DEF Loops, LoopPCs
  <2>3. loop[r].cancelled
    BY <1>1, <1>3 DEF EtcdIndInv, LoopsOfRegisters, LeaseOfOwner, Stored
  <2>4. TypeOK'
    BY <1>1, <2>1, <2>2 DEF EtcdIndInv, TypeOK, Loops, server
  <2>5. LoopsOfRegisters'
    BY <1>1, <2>1, <2>2, <2>3 DEF EtcdIndInv, LoopsOfRegisters, Stored
  <2>6. LeaseOfOwner'
    BY <1>1, <2>1, <2>2 DEF EtcdIndInv, LeaseOfOwner
  <2> QED
    BY <2>4, <2>5, <2>6 DEF EtcdIndInv
<1> QED
  BY <1>2, <1>3

\* Deregister and Close cancel the owner and clear the maps in one critical
\* section; what they do afterwards concerns the server only.
LEMMA EtcdEndInv ==
    ASSUME EtcdIndInv, DeregisterBegins \/ CloseBegins \/ EndStep
    PROVE  EtcdIndInv'
<1>1. ASSUME DeregisterBegins \/ CloseBegins PROVE EtcdIndInv'
  <2>1. /\ loop' = CancelOwner /\ owner' = 0 /\ held' = 0 /\ UNCHANGED <<server, reg>>
        /\ dereg' \in [pc : {"idle", "delete", "revoke", "done"}, lease : LeaseOrNone]
        /\ closing' \in [pc : {"idle", "revoke", "wait", "closed"}, lease : LeaseOrNone]
    BY <1>1 DEF DeregisterBegins, CloseBegins, EtcdIndInv, TypeOK
  <2>2. /\ loop' \in [Regs -> Loops]
        /\ \A s \in Regs : /\ loop'[s].pc = loop[s].pc /\ loop'[s].lease = loop[s].lease
                           /\ loop'[s].new = loop[s].new
                           /\ s # owner => loop'[s].cancelled = loop[s].cancelled
                           /\ s = owner => loop'[s].cancelled
    BY <2>1, CancelOwnerLemma DEF EtcdIndInv
  <2>3. 0 \in LeaseOrNone
    BY MaxLeaseType DEF LeaseOrNone
  <2>4. TypeOK'
    BY <2>1, <2>2, <2>3 DEF EtcdIndInv, TypeOK, Loops, server
  <2>5. LoopsOfRegisters'
    BY <2>1, <2>2 DEF EtcdIndInv, LoopsOfRegisters, Stored
  <2>6. LeaseOfOwner'
    BY <2>1, <2>2 DEF EtcdIndInv, LeaseOfOwner
  <2> QED
    BY <2>4, <2>5, <2>6 DEF EtcdIndInv
<1> USE MaxLeaseType DEF EtcdIndInv, TypeOK, LoopsOfRegisters, LeaseOfOwner, Stored,
                         LeaseOrNone, Leases, RegPCs, LoopPCs, Fault, Granted,
                         PutApplied, EndLease, RevokeIgnored, RegAt, RegGoto, LoopAt,
                         LoopGoto, server
<1>2. CASE DeregisterDeletes
  BY <1>2 DEF DeregisterDeletes
<1>3. CASE DeregisterRevokes
  BY <1>3 DEF DeregisterRevokes
<1>4. CASE CloseRevokes
  BY <1>4 DEF CloseRevokes
<1>5. CASE CloseEnds
  BY <1>5 DEF CloseEnds
<1> QED
  BY <1>1, <1>2, <1>3, <1>4, <1>5 DEF EndStep

\* The end of a lease is the server's.
LEMMA ExpireInv == ASSUME EtcdIndInv, NEW l \in Leases, Expire(l) PROVE EtcdIndInv'
BY MaxLeaseType DEF Expire, EtcdIndInv, TypeOK, LoopsOfRegisters, LeaseOfOwner, Stored,
                    LeaseOrNone, Leases, RegPCs, LoopPCs, Fault, Granted, PutApplied,
                    EndLease, RevokeIgnored, RegAt, RegGoto, LoopAt, LoopGoto, server

\* The invariant of a registration in etcd is inductive.
LEMMA EtcdNext == EtcdIndInv /\ [Next]_vars => EtcdIndInv'
<1>1. EtcdIndInv /\ Next => EtcdIndInv'
  BY RegisterRequestInv, RegisterGrantsInv, RegisterStoresInv, RegisterSpawnsInv,
     LoopRequestInv, LoopGrantsInv, LoopSwapsInv, EtcdEndInv, ExpireInv
     DEF Next, RegisterStep, LoopStep
<1>2. EtcdIndInv /\ UNCHANGED vars => EtcdIndInv'
  BY DEF vars, server, EtcdIndInv, TypeOK, LoopsOfRegisters, LeaseOfOwner, Stored
<1> QED
  BY <1>1, <1>2

\* It says what the maps and the loops promise each other.
LEMMA EtcdImplies == EtcdIndInv => Inv
BY DEF EtcdIndInv, LoopsOfRegisters, LeaseOfOwner, Inv, RenewsOnlyHeld, HeldHasLoop,
       Attentive, Stored, TypeOK

-----------------------------------------------------------------------------
(* Registration in Consul.                                                 *)

\* Register has stored its cancel, which it does for a TTL check only.
CStored(r) == cCheckType = "ttl" /\ cReg[r] \in {"spawn", "ok"}

\* The same of a refreshTTL loop; an HTTP check has none.
CLoopsOfRegisters ==
    \A r \in Regs :
        /\ cLoop[r].pc # "none" <=> cCheckType = "ttl" /\ cReg[r] = "ok"
        /\ CStored(r) => cOwner = r \/ cLoop[r].cancelled
        /\ ~CStored(r) => cOwner # r /\ ~cLoop[r].cancelled
        /\ cOwner = r => ~cLoop[r].cancelled
        /\ cLoop[r].pc = "done" => cLoop[r].cancelled
        /\ cReg[r] = "spawn" => cCheckType = "ttl"

\* Both maps have the instance, or none.
CMapsAgree == cCheckType = "ttl" => (cKnown <=> cOwner # 0)

ConsulMapsInv == Consul!TypeOK /\ CLoopsOfRegisters /\ CMapsAgree

\* When Close asks for the check to be removed, the service is gone or its
\* request failed; no Register is under way then that could bring it back.
CloseRequests ==
    /\ cClosing.pc # "idle" => Consul!NoRegRunning
    /\ cClosing.pc = "check" => cCheck = "none" \/ cFaults > 0
    /\ cCheck = "unchecked" => cClosing.pc = "closed" /\ cFaults > 0

ConsulIndInv == ConsulMapsInv /\ CloseRequests

CLoops == [pc : Consul!LoopPCs, cancelled : BOOLEAN]

\* Calling a stored cancel, if there is one, does this to the loops.
LEMMA CancelledLemma ==
    ASSUME Consul!TypeOK
    PROVE  /\ Consul!Cancelled(cOwner) \in [Regs -> CLoops]
           /\ \A s \in Regs :
                /\ Consul!Cancelled(cOwner)[s].pc = cLoop[s].pc
                /\ s # cOwner => Consul!Cancelled(cOwner)[s].cancelled = cLoop[s].cancelled
                /\ s = cOwner => Consul!Cancelled(cOwner)[s].cancelled
<1>1. cLoop \in [Regs -> CLoops]
  BY DEF Consul!TypeOK, CLoops
<1>2. CASE cOwner = 0
  BY <1>1, <1>2 DEF Consul!Cancelled, Consul!TypeOK
<1>3. CASE cOwner # 0
  <2>1. cOwner \in Regs
    BY <1>3 DEF Consul!TypeOK
  <2>2. Consul!Cancelled(cOwner) = [cLoop EXCEPT ![cOwner].cancelled = TRUE]
    BY <1>3 DEF Consul!Cancelled
  <2> QED
    BY <1>1, <2>1, <2>2 DEF CLoops
<1> QED
  BY <1>2, <1>3

\* New returns a client that knows nothing.
LEMMA ConsulInit == Consul!Init => ConsulIndInv
<1> SUFFICES ASSUME Consul!Init PROVE ConsulIndInv
  OBVIOUS
<1>1. Consul!TypeOK
  <2>1. cServing \in BOOLEAN /\ cKnown \in BOOLEAN
    BY DEF Consul!Init
  <2>2. cLoop \in [Regs -> CLoops]
    BY DEF Consul!Init, CLoops, Consul!LoopPCs
  <2>3. cReg \in [Regs -> Consul!RegPCs]
    BY DEF Consul!Init, Consul!RegPCs
  <2>4. /\ cCheck \in Consul!Checks /\ cFaults \in 0 .. MaxFaults
        /\ cCheckType \in {"ttl", "http"} /\ cOwner = 0
    BY DEF Consul!Init, Consul!Checks
  <2>5. /\ cDereg = "idle"
        /\ cClosing \in [pc : {"idle", "wait", "service", "check", "closed"}, known : BOOLEAN]
    BY DEF Consul!Init
  <2> QED
    BY <2>1, <2>2, <2>3, <2>4, <2>5 DEF Consul!TypeOK, CLoops
<1>2. CLoopsOfRegisters
  BY DEF Consul!Init, CLoopsOfRegisters, CStored
<1>3. CMapsAgree
  BY DEF Consul!Init, CMapsAgree
<1>4. CloseRequests
  BY DEF Consul!Init, CloseRequests
<1> QED
  BY <1>1, <1>2, <1>3, <1>4 DEF ConsulMapsInv, ConsulIndInv

\* The agent, the ticks of the loops and the requests change the agent's
\* check, and at most one program counter.
LEMMA ConsulRequestInv ==
    ASSUME ConsulMapsInv, NEW r \in Regs
    PROVE  \/ Consul!RegisterBegins(r) \/ Consul!RegisterService(r)
           \/ Consul!RegisterPasses(r) \/ Consul!RegisterUndoes(r)
           => ConsulMapsInv'
<1> USE DEF ConsulMapsInv, Consul!TypeOK, CLoopsOfRegisters, CMapsAgree, CStored,
            Consul!RegPCs, Consul!LoopPCs, Consul!Checks, Consul!Fault, Consul!RegGoto,
            Consul!ServiceAdded, Consul!HasCheck, Consul!Renewed, Consul!Removed,
            Consul!agent
<1>1. ASSUME Consul!RegisterBegins(r) PROVE ConsulMapsInv'
  BY <1>1 DEF Consul!RegisterBegins
<1>2. ASSUME Consul!RegisterService(r) PROVE ConsulMapsInv'
  BY <1>2 DEF Consul!RegisterService
<1>3. ASSUME Consul!RegisterPasses(r) PROVE ConsulMapsInv'
  BY <1>3 DEF Consul!RegisterPasses
<1>4. ASSUME Consul!RegisterUndoes(r) PROVE ConsulMapsInv'
  BY <1>4 DEF Consul!RegisterUndoes
<1> QED
  BY <1>1, <1>2, <1>3, <1>4

\* The critical section of Register.
LEMMA ConsulStoresInv ==
    ASSUME ConsulMapsInv, NEW r \in Regs, Consul!RegisterStores(r) PROVE ConsulMapsInv'
<1>1. /\ cReg \in [Regs -> Consul!RegPCs] /\ cReg[r] = "store"
      /\ cOwner # r /\ ~cLoop[r].cancelled /\ cCheckType \in {"ttl", "http"}
  BY DEF ConsulMapsInv, Consul!TypeOK, CLoopsOfRegisters, CStored, Consul!RegisterStores
<1>2. /\ cLoop' = Consul!Cancelled(cOwner) /\ cKnown' = TRUE
      /\ cOwner' = IF cCheckType = "ttl" THEN r ELSE 0
      /\ UNCHANGED <<Consul!agent, cCheckType, cDereg, cClosing>>
  BY DEF Consul!RegisterStores
<1>3. /\ cLoop' \in [Regs -> CLoops]
      /\ \A s \in Regs : /\ cLoop'[s].pc = cLoop[s].pc
                         /\ s # cOwner => cLoop'[s].cancelled = cLoop[s].cancelled
                         /\ s = cOwner => cLoop'[s].cancelled
  BY <1>2, CancelledLemma DEF ConsulMapsInv
<1>4. /\ \A s \in Regs : s # r => cReg'[s] = cReg[s]
      /\ cReg'[r] = IF cCheckType = "ttl" THEN "spawn" ELSE "ok"
      /\ cReg' \in [Regs -> Consul!RegPCs]
  BY <1>1 DEF Consul!RegisterStores, Consul!RegGoto, Consul!RegPCs
<1>5. Consul!TypeOK'
  BY <1>2, <1>3, <1>4 DEF ConsulMapsInv, Consul!TypeOK, CLoops, Consul!agent
<1>6. CLoopsOfRegisters'
  BY <1>1, <1>2, <1>3, <1>4 DEF ConsulMapsInv, CLoopsOfRegisters, CStored
<1>7. CMapsAgree'
  BY <1>2 DEF CMapsAgree
<1> QED
  BY <1>5, <1>6, <1>7 DEF ConsulMapsInv

\* The start of the loop, its ticks and its updates.
LEMMA ConsulLoopInv ==
    ASSUME ConsulMapsInv, NEW r \in Regs,
           Consul!RegisterSpawns(r) \/ Consul!LoopWakes(r) \/ Consul!LoopUpdates(r)
    PROVE  ConsulMapsInv'
<1>1. cLoop \in [Regs -> CLoops] /\ cReg \in [Regs -> Consul!RegPCs]
  BY DEF ConsulMapsInv, Consul!TypeOK, CLoops
<1>2. PICK p \in {"wait", "update", "done"} :
         /\ cLoop' = [cLoop EXCEPT ![r].pc = p]
         /\ p = "done" => cLoop[r].cancelled
  BY DEF Consul!RegisterSpawns, Consul!LoopWakes, Consul!LoopUpdates
<1>3. /\ cLoop' \in [Regs -> CLoops]
      /\ \A s \in Regs : s # r => cLoop'[s] = cLoop[s]
      /\ cLoop'[r].pc = p /\ cLoop'[r].cancelled = cLoop[r].cancelled
  BY <1>1, <1>2 DEF CLoops, Consul!LoopPCs
<1>4. /\ cReg' \in [Regs -> Consul!RegPCs]
      /\ \A s \in Regs : s # r => cReg'[s] = cReg[s]
      /\ cReg'[r] = "ok"
      /\ cReg[r] = "spawn" \/ cReg[r] = "ok"
      /\ cCheckType = "ttl"
  BY <1>1 DEF Consul!RegisterSpawns, Consul!LoopWakes, Consul!LoopUpdates,
              Consul!RegGoto, Consul!RegPCs, ConsulMapsInv, CLoopsOfRegisters
<1>5. UNCHANGED <<cServing, cCheckType, cKnown, cOwner, cDereg, cClosing>>
  BY DEF Consul!RegisterSpawns, Consul!LoopWakes, Consul!LoopUpdates, Consul!agent
<1>6. cCheck' \in Consul!Checks /\ cFaults' \in 0 .. MaxFaults
  BY DEF Consul!RegisterSpawns, Consul!LoopWakes, Consul!LoopUpdates, Consul!agent,
         Consul!HasCheck, Consul!Renewed, Consul!Fault, Consul!Checks, ConsulMapsInv,
         Consul!TypeOK
<1>7. Consul!TypeOK'
  BY <1>3, <1>4, <1>5, <1>6 DEF ConsulMapsInv, Consul!TypeOK, CLoops
<1>8. CLoopsOfRegisters'
  BY <1>2, <1>3, <1>4, <1>5 DEF ConsulMapsInv, CLoopsOfRegisters, CStored
<1>9. CMapsAgree'
  BY <1>5 DEF ConsulMapsInv, CMapsAgree
<1> QED
  BY <1>7, <1>8, <1>9 DEF ConsulMapsInv

\* Deregister and Close cancel the owner and clear both maps in one critical
\* section.
LEMMA ConsulEndBeginsInv ==
    ASSUME ConsulMapsInv, Consul!DeregisterBegins \/ Consul!CloseBegins
    PROVE  ConsulMapsInv'
<1>1. /\ cLoop' = Consul!Cancelled(cOwner) /\ cKnown' = FALSE /\ cOwner' = 0
      /\ UNCHANGED <<Consul!agent, cCheckType, cReg>>
      /\ cDereg' \in {"idle", "service", "done"}
      /\ cClosing' \in [pc : {"idle", "wait", "service", "check", "closed"}, known : BOOLEAN]
  BY DEF Consul!DeregisterBegins, Consul!CloseBegins, ConsulMapsInv, Consul!TypeOK
<1>2. /\ cLoop' \in [Regs -> CLoops]
      /\ \A s \in Regs : /\ cLoop'[s].pc = cLoop[s].pc
                         /\ s # cOwner => cLoop'[s].cancelled = cLoop[s].cancelled
                         /\ s = cOwner => cLoop'[s].cancelled
  BY <1>1, CancelledLemma DEF ConsulMapsInv
<1>3. Consul!TypeOK'
  BY <1>1, <1>2 DEF ConsulMapsInv, Consul!TypeOK, CLoops, Consul!agent
<1>4. CLoopsOfRegisters'
  BY <1>1, <1>2 DEF ConsulMapsInv, CLoopsOfRegisters, CStored
<1>5. CMapsAgree'
  BY <1>1 DEF CMapsAgree
<1> QED
  BY <1>3, <1>4, <1>5 DEF ConsulMapsInv

\* What they do afterwards, and what the agent does by itself, leaves the
\* client's maps and loops alone.
LEMMA AgentInv ==
    ASSUME ConsulMapsInv,
           \/ Consul!EndStep \/ Consul!TTLExpires \/ Consul!Probe \/ Consul!Reap
           \/ Consul!Readiness
    PROVE  ConsulMapsInv'
<1>1. UNCHANGED <<cCheckType, cKnown, cOwner, cReg, cLoop>>
  BY DEF Consul!EndStep, Consul!DeregisterService, Consul!CloseWaits,
         Consul!CloseDeregistersService, Consul!CloseDeregistersCheck, Consul!TTLExpires,
         Consul!Probe, Consul!Reap, Consul!Readiness, Consul!client, Consul!agent
<1>2. cCheck' \in Consul!Checks /\ cFaults' \in 0 .. MaxFaults
  BY DEF Consul!EndStep, Consul!DeregisterService, Consul!CloseWaits,
         Consul!CloseDeregistersService, Consul!CloseDeregistersCheck, Consul!TTLExpires,
         Consul!Probe, Consul!Reap, Consul!Readiness, Consul!client, Consul!agent,
         Consul!Ignored, Consul!Removed, Consul!CheckRemoved, Consul!HasCheck,
         Consul!Fault, Consul!Checks, ConsulMapsInv, Consul!TypeOK
<1>3. cServing' \in BOOLEAN /\ cDereg' \in {"idle", "service", "done"}
  BY DEF Consul!EndStep, Consul!DeregisterService, Consul!CloseWaits,
         Consul!CloseDeregistersService, Consul!CloseDeregistersCheck, Consul!TTLExpires,
         Consul!Probe, Consul!Reap, Consul!Readiness, Consul!client, Consul!agent,
         ConsulMapsInv, Consul!TypeOK
<1>4. cClosing' \in [pc : {"idle", "wait", "service", "check", "closed"}, known : BOOLEAN]
  BY DEF Consul!EndStep, Consul!DeregisterService, Consul!CloseWaits,
         Consul!CloseDeregistersService, Consul!CloseDeregistersCheck, Consul!TTLExpires,
         Consul!Probe, Consul!Reap, Consul!Readiness, Consul!client, ConsulMapsInv,
         Consul!TypeOK
<1>5. Consul!TypeOK'
  BY <1>1, <1>2, <1>3, <1>4 DEF ConsulMapsInv, Consul!TypeOK
<1> QED
  BY <1>1, <1>5 DEF ConsulMapsInv, CLoopsOfRegisters, CStored, CMapsAgree

\* No step of the client or of the agent leaves a service without its check but
\* the last request of Close, and it does so only after a failure.
LEMMA CloseRequestsNext == ConsulIndInv /\ Consul!Next => CloseRequests'
<1> SUFFICES ASSUME ConsulIndInv, Consul!Next PROVE CloseRequests'
  OBVIOUS
<1>1. /\ cFaults \in Nat /\ cCheck \in Consul!Checks /\ cReg \in [Regs -> Consul!RegPCs]
      /\ cClosing \in [pc : {"idle", "wait", "service", "check", "closed"}, known : BOOLEAN]
  BY DEF ConsulIndInv, ConsulMapsInv, Consul!TypeOK
<1>2. CloseRequests
  BY DEF ConsulIndInv
<1>3. ASSUME NEW r \in Regs,
             \/ Consul!RegisterBegins(r) \/ Consul!RegisterService(r)
             \/ Consul!RegisterPasses(r) \/ Consul!RegisterUndoes(r)
             \/ Consul!RegisterStores(r) \/ Consul!RegisterSpawns(r)
      PROVE  CloseRequests'
  <2>1. /\ cClosing.pc = "idle" /\ cClosing' = cClosing
        /\ cCheck' \in {"none", "critical", "passing", cCheck}
    BY <1>1, <1>2, <1>3
       DEF CloseRequests, Consul!NoRegRunning, Consul!RegisterBegins,
           Consul!RegisterService, Consul!RegisterPasses, Consul!RegisterUndoes,
           Consul!RegisterStores, Consul!RegisterSpawns, Consul!ServiceAdded,
           Consul!Renewed, Consul!Removed, Consul!HasCheck, Consul!Checks, Consul!agent
  <2> QED
    BY <1>2, <2>1 DEF CloseRequests
<1>4. ASSUME NEW r \in Regs, Consul!LoopStep(r) PROVE CloseRequests'
  <2>1. /\ cClosing' = cClosing /\ cReg' = cReg
        /\ cFaults' = cFaults \/ cFaults' = cFaults + 1
        /\ cCheck' = cCheck \/ (cCheck # "none" /\ cCheck' = "passing")
    BY <1>4 DEF Consul!LoopStep, Consul!LoopWakes, Consul!LoopUpdates, Consul!Renewed,
                Consul!HasCheck, Consul!Fault, Consul!agent
  <2> QED
    BY <1>1, <1>2, <2>1 DEF CloseRequests, Consul!NoRegRunning
<1>5. CASE \/ Consul!TTLExpires \/ Consul!Probe \/ Consul!Reap \/ Consul!Readiness
           \/ Consul!DeregisterService \/ Consul!DeregisterBegins
  <2>1. /\ cClosing' = cClosing /\ cReg' = cReg
        /\ cFaults' = cFaults \/ cFaults' = cFaults + 1
        /\ \/ cCheck' = cCheck \/ cCheck' = "none"
           \/ cCheck # "none" /\ cCheck' \in {"critical", "passing"}
    BY <1>5 DEF Consul!TTLExpires, Consul!Probe, Consul!Reap, Consul!Readiness,
                Consul!DeregisterService, Consul!DeregisterBegins, Consul!Ignored,
                Consul!Removed, Consul!HasCheck, Consul!Fault, Consul!client, Consul!agent
  <2> QED
    BY <1>1, <1>2, <2>1 DEF CloseRequests, Consul!NoRegRunning
<1>6. CASE Consul!CloseBegins \/ Consul!CloseWaits
  BY <1>1, <1>2, <1>6 DEF CloseRequests, Consul!CloseBegins, Consul!CloseWaits,
                          Consul!NoRegRunning, Consul!agent
<1>7. CASE Consul!CloseDeregistersService
  BY <1>1, <1>2, <1>7 DEF CloseRequests, Consul!CloseDeregistersService,
                          Consul!NoRegRunning, Consul!Ignored, Consul!Removed,
                          Consul!Fault
<1>8. CASE Consul!CloseDeregistersCheck
  BY <1>1, <1>2, <1>8 DEF CloseRequests, Consul!CloseDeregistersCheck,
                          Consul!NoRegRunning, Consul!Ignored, Consul!CheckRemoved,
                          Consul!Fault
<1> QED
  BY <1>3, <1>4, <1>5, <1>6, <1>7, <1>8
     DEF Consul!Next, Consul!RegisterStep, Consul!EndStep

\* The invariant of a registration in Consul is inductive.
LEMMA ConsulNext == ConsulIndInv /\ [Consul!Next]_consulVars => ConsulIndInv'
<1>1. ConsulMapsInv /\ Consul!Next => ConsulMapsInv'
  BY ConsulRequestInv, ConsulStoresInv, ConsulLoopInv, ConsulEndBeginsInv, AgentInv
     DEF Consul!Next, Consul!RegisterStep, Consul!LoopStep
<1>2. ConsulIndInv /\ UNCHANGED consulVars => ConsulIndInv'
  BY DEF consulVars, ConsulIndInv, ConsulMapsInv, Consul!TypeOK, CLoopsOfRegisters,
         CStored, CMapsAgree, CloseRequests, Consul!NoRegRunning
<1> QED
  BY <1>1, <1>2, CloseRequestsNext DEF ConsulIndInv

\* It says what the maps and the loops promise each other.
LEMMA ConsulImplies == ConsulIndInv => Consul!Inv
<1> SUFFICES ASSUME ConsulMapsInv, CloseRequests PROVE Consul!LoopsMatchMaps
  BY DEF ConsulIndInv, ConsulMapsInv, CloseRequests, Consul!Inv,
         Consul!OnlyFailedCloseUnchecks
<1>1. ASSUME NEW r \in Regs, Consul!Attentive(r) PROVE cOwner = r /\ cKnown
  <2>1. cLoop[r].pc # "none" /\ ~cLoop[r].cancelled
    BY <1>1 DEF Consul!Attentive
  <2>2. cCheckType = "ttl" /\ CStored(r) /\ cOwner = r
    BY <2>1 DEF ConsulMapsInv, CLoopsOfRegisters, CStored
  <2> QED
    BY <2>2 DEF ConsulMapsInv, CMapsAgree
<1>2. ASSUME cOwner # 0
      PROVE  cCheckType = "ttl" /\ (Consul!Attentive(cOwner) \/ cReg[cOwner] = "spawn")
  <2>1. cOwner \in Regs
    BY <1>2 DEF ConsulMapsInv, Consul!TypeOK
  <2>2. CStored(cOwner) /\ ~cLoop[cOwner].cancelled /\ cLoop[cOwner].pc # "done"
    BY <2>1 DEF ConsulMapsInv, CLoopsOfRegisters
  <2>3. cReg[cOwner] = "ok" => cLoop[cOwner].pc # "none"
    BY <2>1, <2>2 DEF ConsulMapsInv, CLoopsOfRegisters, CStored
  <2>4. cLoop[cOwner].pc \in Consul!LoopPCs
    BY <2>1 DEF ConsulMapsInv, Consul!TypeOK
  <2> QED
    BY <2>2, <2>3, <2>4 DEF CStored, Consul!Attentive, Consul!LoopPCs
<1>3. cKnown /\ cCheckType = "ttl" => cOwner # 0
  BY DEF ConsulMapsInv, CMapsAgree
<1>4. cCheckType = "http" => cOwner = 0
  BY <1>2
<1> QED
  BY <1>1, <1>2, <1>3, <1>4 DEF Consul!LoopsMatchMaps

-----------------------------------------------------------------------------
(* The watch.                                                              *)

\* What the consumer has still to hear.
Pending == events \o todo

\* No event is newer than the watcher's index, nor any belief of the consumer;
\* only a watcher that sends has events left to send.
Indexed ==
    /\ index <= Len(writes)
    /\ \A k \in DOMAIN Pending : Pending[k].write <= index
    /\ \A i \in Ids : viewed[i] <= index
    /\ wpc \in {"watch", "follow", "retry", "failed"} => todo = <<>>

\* What is under way of an instance is in the order of its history.
Ordered ==
    \A n \in DOMAIN Pending :
        /\ viewed[Pending[n].id] <= Pending[n].write
        /\ \A m \in 1..n :
             Pending[m].id = Pending[n].id => Pending[m].write <= Pending[n].write

\* The last event under way of an instance, or without one the consumer's
\* view of it, is what the watcher knows of it.
Believed ==
    /\ \A i \in Ids : (\A k \in DOMAIN Pending : Pending[k].id # i) => view[i] = seen[i]
    /\ \A k \in DOMAIN Pending :
         (\A m \in DOMAIN Pending : m > k => Pending[m].id # Pending[k].id)
            => Pending[k].service = seen[Pending[k].id]

\* The watcher knows of i what the writes it was told of say.
Reflects(i) ==
    /\ (\A k \in 1..index : writes[k].id # i) => seen[i] = "absent"
    /\ \A k \in 1..index :
         writes[k].id = i /\ (\A m \in (k + 1)..index : writes[m].id # i)
            => seen[i] = writes[k].to

\* Consul tells the whole state, etcd every write.
Informed ==
    /\ source = "consul" /\ index = Len(writes) => seen = Watch!Live
    /\ source = "etcd" => \A i \in Ids : Watch!NeverInvalid(i) => Reflects(i)

WatchIndInv == Watch!TypeOK /\ Indexed /\ Ordered /\ Believed /\ Informed

Writes == [id : Ids, to : Watch!Contents]

\* The cardinality that orders the events is that of FiniteSets.
LEMMA WatchCardinality == \A S : Watch!Cardinality(S) = Cardinality(S)
BY Zenon DEF Watch!Cardinality, Cardinality

\* A set of numbers that is not empty has a least element.
LEMMA LeastExists ==
    ASSUME NEW S \in SUBSET Nat, S # {}
    PROVE  \E x \in S : \A y \in S : x <= y
<1>1. PICK x \in S : \A y \in S : ~ (<<y, x>> \in OpToRel(<, Nat))
  BY NatLessThanWellFounded, WFMin
<1>2. \A y \in S : ~ (y < x)
  BY <1>1 DEF OpToRel
<1> QED
  BY <1>2

\* A set of positions that is not empty has a last one.
LEMMA LastExists ==
    ASSUME NEW n \in Nat, NEW S \in SUBSET (1..n), S # {}
    PROVE  \E x \in S : \A y \in S : y <= x
<1> DEFINE T == {n - x : x \in S}
<1>1. T \in SUBSET Nat /\ T # {}
  <2>1. \A x \in S : n - x \in Nat
    OBVIOUS
  <2> QED
    BY <2>1, Zenon
<1>2. PICK t \in T : \A u \in T : t <= u
  BY <1>1, LeastExists
<1>3. PICK x \in S : t = n - x
  BY <1>2
<1>4. \A y \in S : n - y \in T
  OBVIOUS
<1>5. \A y \in S : n - x <= n - y
  BY <1>2, <1>3, <1>4
<1>6. \A y \in S : y <= x
  BY <1>5
<1> QED
  BY <1>3, <1>6

\* What the backend holds of an instance is decided by its last write.
LEMMA ContentLemma ==
    ASSUME writes \in Seq(Writes), NEW i \in Ids
    PROVE  \/ (\A k \in DOMAIN writes : writes[k].id # i) /\ Watch!Content(i) = "absent"
           \/ \E k \in DOMAIN writes :
                /\ writes[k].id = i /\ \A m \in DOMAIN writes : m > k => writes[m].id # i
                /\ Watch!Content(i) = writes[k].to
<1> DEFINE changes == {n \in DOMAIN writes : writes[n].id = i}
           last == CHOOSE n \in changes : \A m \in changes : m <= n
<1>1. DOMAIN writes = 1..Len(writes) /\ Len(writes) \in Nat
  BY LenProperties
<1>2. Watch!Content(i) = IF changes = {} THEN "absent" ELSE writes[last].to
  BY DEF Watch!Content
<1>3. CASE changes = {}
  BY <1>2, <1>3
<1>4. CASE changes # {}
  <2>1. \E x \in changes : \A y \in changes : y <= x
    <3>1. changes \in SUBSET (1..Len(writes))
      BY <1>1
    <3> HIDE DEF changes
    <3> QED
      BY <1>1, <1>4, <3>1, LastExists
  <2>2. last \in changes /\ \A m \in changes : m <= last
    <3> HIDE DEF changes
    <3> QED
      BY <2>1
  <2>3. Watch!Content(i) = writes[last].to
    BY <1>2, <1>4
  <2> HIDE DEF last
  <2>4. \A m \in DOMAIN writes : m > last => writes[m].id # i
    BY <1>1, <2>2
  <2> QED
    BY <2>2, <2>3, <2>4
<1> QED
  BY <1>3, <1>4

\* What Discover returns is a view of the instances.
LEMMA LiveType ==
    ASSUME writes \in Seq(Writes)
    PROVE  Watch!Live \in [Ids -> Watch!Views]
BY DEF Watch!Live, Watch!Valid, Watch!Views

\* A function on 1..n is a sequence.
LEMMA FunctionIsSeq ==
    ASSUME NEW S, NEW n \in Nat, NEW f \in [1..n -> S]
    PROVE  f \in Seq(S) /\ Len(f) = n
OBVIOUS

\* The events of a snapshot: one for each instance, with what it holds now.
LEMMA EventsForLemma ==
    ASSUME writes \in Seq(Writes), Len(writes) \in 0..MaxWrites,
           NEW q, q \in Watch!EventsFor(Watch!Announced(Watch!Live), Watch!Live)
    PROVE  /\ q \in Seq(Watch!Events)
           /\ \A k \in DOMAIN q : /\ q[k].id \in Watch!Announced(Watch!Live)
                                  /\ q[k].service = Watch!Live[q[k].id]
                                  /\ q[k].write = Len(writes)
           /\ \A i \in Watch!Announced(Watch!Live) : \E k \in DOMAIN q : q[k].id = i
<1> DEFINE now == Watch!Live
           ids == Watch!Announced(Watch!Live)
<1>0. ids \in SUBSET Ids /\ now \in [Ids -> Watch!Views]
  BY LiveType DEF Watch!Announced
<1>q. q \in Watch!EventsFor(ids, now)
  OBVIOUS
<1> SUFFICES /\ q \in Seq(Watch!Events)
             /\ \A k \in DOMAIN q : /\ q[k].id \in ids /\ q[k].service = now[q[k].id]
                                    /\ q[k].write = Len(writes)
             /\ \A i \in ids : \E k \in DOMAIN q : q[k].id = i
  OBVIOUS
<1> HIDE DEF now, ids
<1> DEFINE Puts == Watch!Present(ids, now)
<1>1. PICK p \in Watch!Orders(Puts), d \in Watch!Orders(ids \ Puts) :
        q = Watch!EventsOf(p \o d, now)
  BY ONLY <1>q DEF Watch!EventsFor, Puts
<1>2. IsFiniteSet(Puts) /\ IsFiniteSet(ids \ Puts)
  BY <1>0, IdsAssumption, FS_Subset DEF Watch!Present
<1> HIDE DEF Puts
<1>3. /\ p \in [1..Cardinality(Puts) -> Puts] /\ \A i \in Puts : \E k \in DOMAIN p : p[k] = i
      /\ d \in [1..Cardinality(ids \ Puts) -> ids \ Puts]
      /\ \A i \in ids \ Puts : \E k \in DOMAIN d : d[k] = i
  BY WatchCardinality DEF Watch!Orders, Watch!Bijection, Watch!Surjection,
                          Watch!Injection
<1>4. Cardinality(Puts) \in Nat /\ Cardinality(ids \ Puts) \in Nat
  BY <1>2, FS_CardinalityType
<1>5. Puts \subseteq ids
  BY DEF Puts, Watch!Present
<1>6. /\ p \in Seq(ids) /\ Len(p) = Cardinality(Puts)
      /\ d \in Seq(ids) /\ Len(d) = Cardinality(ids \ Puts)
  <2>1. /\ p \in [1..Cardinality(Puts) -> ids]
        /\ d \in [1..Cardinality(ids \ Puts) -> ids]
    BY <1>3, <1>5
  <2> QED
    BY <1>4, <2>1, FunctionIsSeq
<1> DEFINE s == p \o d
<1>7. /\ s \in Seq(ids) /\ Len(s) = Len(p) + Len(d) /\ DOMAIN s = 1..Len(s)
      /\ \A k \in 1..Len(s) : s[k] = IF k <= Len(p) THEN p[k] ELSE d[k - Len(p)]
  BY <1>6, ConcatProperties, LenProperties
<1>8. \A i \in ids : \E k \in DOMAIN s : s[k] = i
  <2> SUFFICES ASSUME NEW i \in ids PROVE \E k \in DOMAIN s : s[k] = i
    OBVIOUS
  <2> HIDE DEF s
  <2>1. CASE i \in Puts
    <3>1. PICK k \in DOMAIN p : p[k] = i
      BY <1>3, <2>1
    <3>2. k \in 1..Len(p) /\ Len(p) \in Nat /\ Len(d) \in Nat
      BY <1>3, <1>4, <1>6
    <3>3. k \in DOMAIN s /\ s[k] = i
      BY <1>7, <3>1, <3>2
    <3> QED
      BY <3>3
  <2>2. CASE i \notin Puts
    <3>1. PICK k \in DOMAIN d : d[k] = i
      BY <1>3, <2>2
    <3>2. k \in 1..Len(d) /\ Len(p) \in Nat /\ Len(d) \in Nat
      BY <1>3, <1>4, <1>6
    <3>3. k + Len(p) \in DOMAIN s /\ s[k + Len(p)] = i
      BY <1>7, <3>1, <3>2
    <3> QED
      BY <3>3
  <2> QED
    BY <2>1, <2>2
<1>9. q = [n \in 1..Len(s) |-> Watch!Event(s[n], now[s[n]], Len(writes))]
  BY ONLY <1>1, <1>7 DEF Watch!EventsOf, s
<1> HIDE DEF s
<1>10. /\ DOMAIN q = 1..Len(s) /\ Len(s) \in Nat
       /\ \A k \in 1..Len(s) : /\ s[k] \in ids
                               /\ q[k] = Watch!Event(s[k], now[s[k]], Len(writes))
  BY <1>7, <1>9
<1>11. \A k \in 1..Len(s) : /\ q[k].id = s[k] /\ q[k].service = now[s[k]]
                            /\ q[k].write = Len(writes) /\ q[k] \in Watch!Events
  BY <1>0, <1>10 DEF Watch!Event, Watch!Events
<1>12. q \in [1..Len(s) -> Watch!Events]
  BY <1>9, <1>10, <1>11
<1>13. q \in Seq(Watch!Events)
  BY <1>10, <1>12
<1>14. \A k \in DOMAIN q : /\ q[k].id \in ids /\ q[k].service = now[q[k].id]
                           /\ q[k].write = Len(writes)
  BY <1>10, <1>11
<1>15. \A i \in ids : \E k \in DOMAIN q : q[k].id = i
  <2> SUFFICES ASSUME NEW i \in ids PROVE \E k \in DOMAIN q : q[k].id = i
    OBVIOUS
  <2>1. PICK k \in DOMAIN s : s[k] = i
    BY <1>8
  <2> QED
    BY <1>7, <1>10, <1>11, <2>1
<1> QED
  BY <1>13, <1>14, <1>15



\* The elements of a concatenation.
LEMMA ConcatElements ==
    ASSUME NEW S, NEW s \in Seq(S), NEW t \in Seq(S)
    PROVE  /\ Len(s) \in Nat /\ Len(t) \in Nat
           /\ DOMAIN (s \o t) = 1..(Len(s) + Len(t))
           /\ \A k \in 1..(Len(s) + Len(t)) :
                /\ (s \o t)[k] = IF k <= Len(s) THEN s[k] ELSE t[k - Len(s)]
                /\ (s \o t)[k] \in S
<1>1. /\ s \o t \in Seq(S) /\ Len(s \o t) = Len(s) + Len(t)
      /\ \A k \in 1 .. Len(s) + Len(t) :
            (s \o t)[k] = IF k <= Len(s) THEN s[k] ELSE t[k - Len(s)]
  BY ConcatProperties
<1>2. /\ DOMAIN (s \o t) = 1..Len(s \o t) /\ Len(s) \in Nat /\ Len(t) \in Nat
      /\ \A k \in 1..Len(s \o t) : (s \o t)[k] \in S
  BY <1>1, LenProperties, ElementOfSeq
<1> QED
  BY <1>1, <1>2

\* The types the steps below rest on.
LEMMA WatchTypes ==
    Watch!TypeOK =>
        /\ writes \in Seq(Writes) /\ Len(writes) \in 0..MaxWrites
        /\ DOMAIN writes = 1..Len(writes) /\ \A k \in 1..Len(writes) : writes[k] \in Writes
        /\ events \in Seq(Watch!Events) /\ todo \in Seq(Watch!Events)
        /\ Len(events) \in Nat /\ Len(todo) \in Nat
        /\ DOMAIN Pending = 1..(Len(events) + Len(todo))
        /\ \A k \in 1..(Len(events) + Len(todo)) :
             /\ Pending[k] = IF k <= Len(events) THEN events[k] ELSE todo[k - Len(events)]
             /\ Pending[k] \in Watch!Events
<1> SUFFICES ASSUME Watch!TypeOK
             PROVE  /\ writes \in Seq(Writes) /\ Len(writes) \in 0..MaxWrites
                    /\ DOMAIN writes = 1..Len(writes)
                    /\ \A k \in 1..Len(writes) : writes[k] \in Writes
                    /\ events \in Seq(Watch!Events) /\ todo \in Seq(Watch!Events)
                    /\ Len(events) \in Nat /\ Len(todo) \in Nat
                    /\ DOMAIN Pending = 1..(Len(events) + Len(todo))
                    /\ \A k \in 1..(Len(events) + Len(todo)) :
                         /\ Pending[k] = IF k <= Len(events) THEN events[k]
                                         ELSE todo[k - Len(events)]
                         /\ Pending[k] \in Watch!Events
  OBVIOUS
<1>1. writes \in Seq(Writes) /\ Len(writes) <= MaxWrites
  BY DEF Watch!TypeOK, Writes
<1>2. /\ DOMAIN writes = 1..Len(writes) /\ Len(writes) \in Nat
      /\ \A k \in 1..Len(writes) : writes[k] \in Writes
  BY <1>1, LenProperties, ElementOfSeq
<1>3. events \in Seq(Watch!Events) /\ todo \in Seq(Watch!Events)
  BY DEF Watch!TypeOK
<1>4. /\ Len(events) \in Nat /\ Len(todo) \in Nat
      /\ DOMAIN Pending = 1..(Len(events) + Len(todo))
      /\ \A k \in 1..(Len(events) + Len(todo)) :
           /\ Pending[k] = IF k <= Len(events) THEN events[k] ELSE todo[k - Len(events)]
           /\ Pending[k] \in Watch!Events
  BY <1>3, ConcatElements DEF Pending
<1> QED
  BY <1>1, <1>2, <1>3, <1>4, WatchAssumption

\* A step that leaves alone what is under way, what is known and the backend.
LEMMA WatchKeeps ==
    ASSUME WatchIndInv, Watch!TypeOK', Pending' = Pending,
           UNCHANGED <<source, writes, index, seen, view, viewed>>,
           wpc' \in {"watch", "follow", "retry", "failed"} => todo' = <<>>
    PROVE  WatchIndInv'
<1>1. Watch!Live' = Watch!Live
  BY DEF Watch!Live, Watch!Valid, Watch!Content
<1>2. \A i \in Ids : Watch!NeverInvalid(i)' => Watch!NeverInvalid(i)
  BY DEF Watch!NeverInvalid
<1>3. Indexed' /\ Ordered' /\ Believed'
  BY DEF WatchIndInv, Indexed, Ordered, Believed
<1>4. Informed'
  BY <1>1, <1>2 DEF WatchIndInv, Informed, Reflects
<1> QED
  BY <1>3, <1>4 DEF WatchIndInv

\* The consumer takes the oldest event.
LEMMA ConsumeInv == WatchIndInv /\ Watch!Consume => WatchIndInv'
<1> SUFFICES ASSUME WatchIndInv, Watch!Consume PROVE WatchIndInv'
  OBVIOUS
<1> DEFINE e == Head(events)
<1>1. /\ events # <<>> /\ events' = Tail(events)
      /\ view' = [view EXCEPT ![e.id] = e.service]
      /\ viewed' = [viewed EXCEPT ![e.id] = e.write]
      /\ UNCHANGED <<source, writes, breaks, wpc, index, seen, todo, closed, stopped>>
  BY DEF Watch!Consume
<1>2. /\ events \in Seq(Watch!Events) /\ todo \in Seq(Watch!Events)
      /\ Len(events) \in Nat /\ Len(todo) \in Nat /\ Len(events) <= Capacity
      /\ DOMAIN Pending = 1..(Len(events) + Len(todo))
      /\ \A k \in 1..(Len(events) + Len(todo)) :
           /\ Pending[k] = IF k <= Len(events) THEN events[k] ELSE todo[k - Len(events)]
           /\ Pending[k] \in Watch!Events
  BY WatchTypes DEF WatchIndInv, Watch!TypeOK
<1>3. /\ events' \in Seq(Watch!Events) /\ Len(events') = Len(events) - 1
      /\ \A k \in 1..Len(events') : events'[k] = events[k + 1]
  BY <1>1, <1>2, HeadTailProperties
<1>4. /\ Len(events) > 0 /\ e = Pending[1] /\ 1 \in DOMAIN Pending
      /\ e \in Watch!Events
  <2>1. Len(events) > 0
    BY <1>1, <1>2, EmptySeq
  <2>2. e = events[1]
    BY <1>1, <1>2, <2>1
  <2> QED
    BY <1>2, <2>1, <2>2
<1>5. /\ DOMAIN Pending' = 1..(Len(events) + Len(todo) - 1)
      /\ \A k \in DOMAIN Pending' : Pending'[k] = Pending[k + 1] /\ k + 1 \in DOMAIN Pending
  <2>1. /\ DOMAIN Pending' = 1..(Len(events') + Len(todo))
        /\ \A k \in 1..(Len(events') + Len(todo)) :
              Pending'[k] = IF k <= Len(events') THEN events'[k] ELSE todo[k - Len(events')]
    BY <1>1, <1>2, <1>3, ConcatElements DEF Pending
  <2>2. ASSUME NEW k \in 1..(Len(events) + Len(todo) - 1)
        PROVE  Pending'[k] = Pending[k + 1] /\ k + 1 \in DOMAIN Pending
    BY <1>2, <1>3, <2>1
  <2> QED
    BY <1>2, <1>3, <2>1, <2>2
<1> HIDE DEF e
<1>6. /\ view' \in [Ids -> Watch!Views] /\ viewed' \in [Ids -> 0..MaxWrites]
      /\ view'[e.id] = e.service /\ viewed'[e.id] = e.write
      /\ \A i \in Ids : i # e.id => view'[i] = view[i] /\ viewed'[i] = viewed[i]
  BY <1>1, <1>4 DEF WatchIndInv, Watch!TypeOK, Watch!Events
<1>7. Watch!TypeOK'
  <2>1. Len(events') <= Capacity
    BY <1>2, <1>3, WatchAssumption
  <2>2. /\ closed' \in BOOLEAN /\ stopped' \in BOOLEAN /\ source' \in {"etcd", "consul"}
        /\ breaks' \in 0..MaxBreaks /\ index' \in 0..MaxWrites
        /\ writes' \in Seq([id : Ids, to : Watch!Contents]) /\ Len(writes') <= MaxWrites
        /\ wpc' \in {"watch", "send", "follow", "retry", "failed", "done"}
        /\ seen' \in [Ids -> Watch!Views]
    BY <1>1, Zenon DEF WatchIndInv, Watch!TypeOK
  <2> QED
    BY <1>1, <1>2, <1>3, <1>6, <2>1, <2>2 DEF Watch!TypeOK
<1>8. Indexed'
  BY <1>1, <1>4, <1>5, <1>6 DEF WatchIndInv, Indexed
<1>9. Ordered'
  <2> SUFFICES ASSUME NEW n \in DOMAIN Pending'
               PROVE  /\ viewed'[Pending'[n].id] <= Pending'[n].write
                      /\ \A m \in 1..n : Pending'[m].id = Pending'[n].id
                                            => Pending'[m].write <= Pending'[n].write
    BY DEF Ordered
  <2>1. /\ Pending'[n] = Pending[n + 1] /\ n + 1 \in DOMAIN Pending /\ n \in Nat
        /\ Pending[n + 1].id \in Ids
    BY <1>2, <1>5 DEF Watch!Events
  <2>2. viewed'[Pending'[n].id] <= Pending'[n].write
    <3>1. CASE Pending[n + 1].id = e.id
      BY <1>4, <1>6, <2>1, <3>1 DEF WatchIndInv, Ordered
    <3>2. CASE Pending[n + 1].id # e.id
      BY <1>6, <2>1, <3>2 DEF WatchIndInv, Ordered
    <3> QED
      BY <3>1, <3>2
  <2>3. ASSUME NEW m \in 1..n, Pending'[m].id = Pending'[n].id
        PROVE  Pending'[m].write <= Pending'[n].write
    <3>1. /\ n <= Len(events) + Len(todo) - 1 /\ 1 <= m /\ m <= n /\ m \in Nat
          /\ Len(events) + Len(todo) \in Nat
      BY <1>2, <1>5, <2>1
    <3>2. m \in 1..(Len(events) + Len(todo) - 1) /\ m + 1 \in 1..(n + 1)
      BY <2>1, <3>1
    <3>3. m \in DOMAIN Pending' /\ Pending'[m] = Pending[m + 1]
      BY <1>5, <3>2
    <3> QED
      BY <2>1, <2>3, <3>2, <3>3 DEF WatchIndInv, Ordered
  <2> QED
    BY <2>2, <2>3
<1>10. Believed'
  <2>1. ASSUME NEW i \in Ids, \A k \in DOMAIN Pending' : Pending'[k].id # i
        PROVE  view'[i] = seen[i]
    <3>1. \A k \in DOMAIN Pending : k > 1 => Pending[k].id # i
      <4> SUFFICES ASSUME NEW k \in DOMAIN Pending, k > 1 PROVE Pending[k].id # i
        OBVIOUS
      <4>1. k - 1 \in DOMAIN Pending' /\ (k - 1) + 1 = k
        BY <1>2, <1>5
      <4> QED
        BY <1>5, <2>1, <4>1
    <3>2. CASE i = e.id
      <4>1. Pending[1].service = seen[Pending[1].id]
        BY <1>4, <3>1, <3>2 DEF WatchIndInv, Believed
      <4> QED
        BY <1>4, <1>6, <3>2, <4>1
    <3>3. CASE i # e.id
      <4>1. \A k \in DOMAIN Pending : Pending[k].id # i
        BY <1>2, <1>4, <3>1, <3>3
      <4> QED
        BY <1>6, <3>3, <4>1 DEF WatchIndInv, Believed
    <3> QED
      BY <3>2, <3>3
  <2>2. ASSUME NEW k \in DOMAIN Pending',
               \A m \in DOMAIN Pending' : m > k => Pending'[m].id # Pending'[k].id
        PROVE  Pending'[k].service = seen[Pending'[k].id]
    <3>1. Pending'[k] = Pending[k + 1] /\ k + 1 \in DOMAIN Pending /\ k \in Nat
      BY <1>2, <1>5
    <3>2. \A m \in DOMAIN Pending : m > k + 1 => Pending[m].id # Pending[k + 1].id
      <4> SUFFICES ASSUME NEW m \in DOMAIN Pending, m > k + 1
                   PROVE  Pending[m].id # Pending[k + 1].id
        OBVIOUS
      <4>1. m - 1 \in DOMAIN Pending' /\ (m - 1) + 1 = m /\ m - 1 > k
        BY <1>2, <1>5, <3>1
      <4> QED
        BY <1>5, <2>2, <3>1, <4>1
    <3> QED
      BY <3>1, <3>2 DEF WatchIndInv, Believed
  <2> QED
    BY <1>1, <2>1, <2>2 DEF Believed
<1>11. Informed'
  <2>1. Watch!Live' = Watch!Live
    BY <1>1 DEF Watch!Live, Watch!Valid, Watch!Content
  <2>2. \A i \in Ids : Watch!NeverInvalid(i)' => Watch!NeverInvalid(i)
    BY <1>1 DEF Watch!NeverInvalid
  <2> QED
    BY <1>1, <2>1, <2>2 DEF WatchIndInv, Informed, Reflects
<1> QED
  BY <1>7, <1>8, <1>9, <1>10, <1>11 DEF WatchIndInv


\* At first nothing is known, nothing is under way and nothing was written.
LEMMA WatchInit == Watch!Init => WatchIndInv
<1> SUFFICES ASSUME Watch!Init PROVE WatchIndInv
  OBVIOUS
<1>1. /\ source \in {"etcd", "consul"} /\ writes = <<>> /\ breaks = 0 /\ wpc = "watch"
      /\ index = 0 /\ seen = [i \in Ids |-> "absent"] /\ todo = <<>> /\ events = <<>>
      /\ view = [i \in Ids |-> "absent"] /\ viewed = [i \in Ids |-> 0]
      /\ closed \in BOOLEAN /\ stopped \in BOOLEAN
  BY Zenon DEF Watch!Init
<1>2. /\ Len(writes) = 0 /\ DOMAIN writes = {} /\ Len(events) = 0
      /\ writes \in Seq(Writes)
      /\ todo \in Seq(Watch!Events) /\ events \in Seq(Watch!Events) /\ DOMAIN Pending = {}
  BY <1>1 DEF Pending
<1>3. /\ seen \in [Ids -> Watch!Views] /\ view \in [Ids -> Watch!Views]
      /\ viewed \in [Ids -> 0..MaxWrites]
  BY <1>1, WatchAssumption DEF Watch!Views
<1>4. Watch!TypeOK
  BY <1>1, <1>2, <1>3, WatchAssumption DEF Watch!TypeOK, Writes
<1>5. seen = Watch!Live
  <2>1. \A i \in Ids : Watch!Content(i) = "absent"
    BY <1>2, ContentLemma
  <2> QED
    BY <1>1, <2>1 DEF Watch!Live, Watch!Valid, Watch!Services
<1>6. \A i \in Ids : Reflects(i)
  BY <1>1 DEF Reflects
<1> QED
  BY <1>1, <1>2, <1>4, <1>5, <1>6
     DEF WatchIndInv, Indexed, Ordered, Believed, Informed

\* A write reaches the watcher later: what it was told of stays as it is.
LEMMA WriteInv == ASSUME NEW j \in Ids PROVE WatchIndInv /\ Watch!Write(j) => WatchIndInv'
<1> SUFFICES ASSUME WatchIndInv, Watch!Write(j) PROVE WatchIndInv'
  OBVIOUS
<1>1. PICK c \in Watch!Contents : writes' = Append(writes, [id |-> j, to |-> c])
  BY DEF Watch!Write
<1> DEFINE r == [id |-> j, to |-> c]
<1>2. /\ Len(writes) < MaxWrites
      /\ UNCHANGED <<source, breaks, wpc, index, seen, todo, events, closed, stopped, view,
                     viewed>>
  BY DEF Watch!Write
<1>3. writes \in Seq(Writes) /\ r \in Writes /\ Len(writes) \in Nat
  BY DEF WatchIndInv, Watch!TypeOK, Writes
<1> HIDE DEF r
<1>4. /\ writes' \in Seq(Writes) /\ Len(writes') = Len(writes) + 1
      /\ \A k \in 1..Len(writes) : writes'[k] = writes[k]
  BY <1>1, <1>3, AppendProperties DEF r
<1>5. Watch!TypeOK'
  <2>1. Len(writes') <= MaxWrites
    BY <1>2, <1>3, <1>4, WatchAssumption
  <2>2. /\ closed' \in BOOLEAN /\ stopped' \in BOOLEAN /\ source' \in {"etcd", "consul"}
        /\ breaks' \in 0..MaxBreaks /\ index' \in 0..MaxWrites
        /\ wpc' \in {"watch", "send", "follow", "retry", "failed", "done"}
        /\ seen' \in [Ids -> Watch!Views] /\ view' \in [Ids -> Watch!Views]
        /\ viewed' \in [Ids -> 0..MaxWrites]
        /\ todo' \in Seq(Watch!Events) /\ events' \in Seq(Watch!Events)
        /\ Len(events') <= Capacity
    BY <1>2, Zenon DEF WatchIndInv, Watch!TypeOK
  <2> QED
    BY <1>4, <2>1, <2>2 DEF Watch!TypeOK, Writes
<1>6. index \in Nat /\ index <= Len(writes) /\ index' = index
  BY <1>2 DEF WatchIndInv, Indexed, Watch!TypeOK
<1>7. Indexed' /\ Ordered' /\ Believed'
  <2>1. Pending' = Pending
    BY <1>2 DEF Pending
  <2>2. Indexed'
    BY <1>2, <1>3, <1>4, <1>6, <2>1 DEF WatchIndInv, Indexed
  <2> QED
    BY <1>2, <2>1, <2>2 DEF WatchIndInv, Ordered, Believed
<1>8. Informed'
  <2>1. ~(index' = Len(writes'))
    BY <1>3, <1>4, <1>6
  <2>2. ASSUME NEW i \in Ids, source' = "etcd", Watch!NeverInvalid(i)' PROVE Reflects(i)'
    <3>1. Watch!NeverInvalid(i)
      BY <1>3, <1>4, <2>2 DEF Watch!NeverInvalid
    <3>2. Reflects(i)
      BY <1>2, <2>2, <3>1 DEF WatchIndInv, Informed
    <3>3. \A k \in 1..index : writes'[k] = writes[k]
      BY <1>3, <1>4, <1>6
    <3> QED
      BY <1>2, <1>6, <3>2, <3>3 DEF Reflects
  <2> QED
    BY <2>1, <2>2 DEF Informed
<1> QED
  BY <1>5, <1>7, <1>8 DEF WatchIndInv


\* Discover returns what the last write of an instance says, unless an instance
\* held data that validateService refuses.
LEMMA LiveReflects ==
    ASSUME writes \in Seq(Writes), NEW i \in Ids, Watch!NeverInvalid(i)
    PROVE  /\ (\A k \in DOMAIN writes : writes[k].id # i) => Watch!Live[i] = "absent"
           /\ \A k \in DOMAIN writes :
                writes[k].id = i /\ (\A m \in DOMAIN writes : m > k => writes[m].id # i)
                    => Watch!Live[i] = writes[k].to
<1>1. /\ DOMAIN writes = 1..Len(writes) /\ Len(writes) \in Nat
      /\ \A k \in DOMAIN writes : writes[k] \in Writes
  BY LenProperties, ElementOfSeq
<1>2. Watch!Live[i] = Watch!Valid(Watch!Content(i))
  BY DEF Watch!Live
<1>3. ASSUME \A k \in DOMAIN writes : writes[k].id # i PROVE Watch!Live[i] = "absent"
  <2>1. Watch!Content(i) = "absent"
    BY <1>3, ContentLemma
  <2> QED
    BY <1>2, <2>1 DEF Watch!Valid, Watch!Services
<1>4. ASSUME NEW k \in DOMAIN writes, writes[k].id = i,
             \A m \in DOMAIN writes : m > k => writes[m].id # i
      PROVE  Watch!Live[i] = writes[k].to
  <2>1. PICK n \in DOMAIN writes :
           /\ writes[n].id = i /\ \A m \in DOMAIN writes : m > n => writes[m].id # i
           /\ Watch!Content(i) = writes[n].to
    BY <1>4, ContentLemma
  <2>2. n = k
    BY <1>1, <1>4, <2>1
  <2>3. writes[k].to \in Watch!Contents /\ writes[k].to # "invalid"
    <3>1. writes[k] = [id |-> i, to |-> writes[k].to] /\ writes[k].to \in Watch!Contents
      BY <1>1, <1>4 DEF Writes
    <3>2. writes[k] # [id |-> i, to |-> "invalid"]
      BY <1>4 DEF Watch!NeverInvalid
    <3> QED
      BY <3>1, <3>2
  <2> QED
    BY <1>2, <2>1, <2>2, <2>3 DEF Watch!Valid, Watch!Services, Watch!Contents
<1> QED
  BY <1>3, <1>4

\* A snapshot, or the answer of a blocking query: what is told after it makes the
\* consumer's view the present state.
LEMMA SynchroniseInv ==
    ASSUME WatchIndInv, Watch!Synchronise, todo = <<>>,
           breaks' \in 0..MaxBreaks, closed' \in BOOLEAN,
           UNCHANGED <<source, writes, events, stopped, view, viewed>>
    PROVE  WatchIndInv'
<1>1. /\ todo' \in Watch!EventsFor(Watch!Announced(Watch!Live), Watch!Live)
      /\ seen' = Watch!Live /\ index' = Len(writes) /\ wpc' = "send"
  BY DEF Watch!Synchronise
<1>2. /\ writes \in Seq(Writes) /\ Len(writes) \in 0..MaxWrites
      /\ DOMAIN writes = 1..Len(writes) /\ \A k \in 1..Len(writes) : writes[k] \in Writes
      /\ events \in Seq(Watch!Events) /\ Len(events) \in Nat
      /\ DOMAIN Pending = 1..Len(events)
      /\ \A k \in 1..Len(events) : Pending[k] = events[k] /\ Pending[k] \in Watch!Events
  <2>1. Len(todo) = 0
    OBVIOUS
  <2> QED
    BY <2>1, WatchTypes DEF WatchIndInv
<1>3. /\ todo' \in Seq(Watch!Events)
      /\ \A k \in DOMAIN todo' : /\ todo'[k].id \in Watch!Announced(Watch!Live)
                                 /\ todo'[k].service = Watch!Live[todo'[k].id]
                                 /\ todo'[k].write = Len(writes)
      /\ \A i \in Watch!Announced(Watch!Live) : \E k \in DOMAIN todo' : todo'[k].id = i
  BY <1>1, <1>2, EventsForLemma
<1>4. /\ Len(todo') \in Nat /\ DOMAIN todo' = 1..Len(todo')
      /\ DOMAIN Pending' = 1..(Len(events) + Len(todo'))
      /\ \A k \in 1..Len(events) : Pending'[k] = Pending[k]
      /\ \A k \in 1..Len(todo') : Pending'[Len(events) + k] = todo'[k]
  <2>1. events' = events
    OBVIOUS
  <2>2. /\ Len(todo') \in Nat /\ DOMAIN todo' = 1..Len(todo')
    BY <1>3, LenProperties
  <2>3. /\ DOMAIN Pending' = 1..(Len(events) + Len(todo'))
        /\ \A k \in 1..(Len(events) + Len(todo')) :
             Pending'[k] = IF k <= Len(events) THEN events[k] ELSE todo'[k - Len(events)]
    BY <1>2, <1>3, <2>1, ConcatElements DEF Pending
  <2>4. ASSUME NEW k \in 1..Len(todo') PROVE Pending'[Len(events) + k] = todo'[k]
    <3>1. /\ Len(events) + k \in 1..(Len(events) + Len(todo'))
          /\ ~(Len(events) + k <= Len(events)) /\ (Len(events) + k) - Len(events) = k
      BY <1>2, <2>2
    <3> QED
      BY <2>3, <3>1
  <2>5. ASSUME NEW k \in 1..Len(events) PROVE Pending'[k] = Pending[k]
    <3>1. k \in 1..(Len(events) + Len(todo')) /\ k <= Len(events)
      BY <1>2, <2>2
    <3> QED
      BY <1>2, <2>3, <3>1
  <2> QED
    BY <2>2, <2>3, <2>4, <2>5
<1>5. \A k \in DOMAIN Pending' :
         k \in 1..Len(events) \/ \E m \in 1..Len(todo') : k = Len(events) + m
  <2> SUFFICES ASSUME NEW k \in DOMAIN Pending', k \notin 1..Len(events)
               PROVE  \E m \in 1..Len(todo') : k = Len(events) + m
    OBVIOUS
  <2>1. k - Len(events) \in 1..Len(todo') /\ k = Len(events) + (k - Len(events))
    BY <1>2, <1>4
  <2> QED
    BY <2>1
<1>6. Watch!Live \in [Ids -> Watch!Views]
  BY <1>2, LiveType
<1>7. /\ index \in Nat /\ index <= Len(writes)
      /\ \A k \in 1..Len(events) : Pending[k].write <= index
      /\ \A i \in Ids : viewed[i] \in Nat /\ viewed[i] <= index
  <2>1. index \in Nat /\ index <= Len(writes)
    BY DEF WatchIndInv, Indexed, Watch!TypeOK
  <2>2. \A k \in 1..Len(events) : Pending[k].write <= index
    BY <1>2 DEF WatchIndInv, Indexed
  <2>3. ASSUME NEW i \in Ids PROVE viewed[i] \in Nat /\ viewed[i] <= index
    <3>1. viewed[i] \in 0..MaxWrites
      BY DEF WatchIndInv, Watch!TypeOK
    <3> QED
      BY <3>1, WatchAssumption DEF WatchIndInv, Indexed
  <2> QED
    BY <2>1, <2>2, <2>3
<1>8. Watch!TypeOK'
  <2>1. /\ closed' \in BOOLEAN /\ stopped' \in BOOLEAN /\ source' \in {"etcd", "consul"}
        /\ breaks' \in 0..MaxBreaks
        /\ writes' \in Seq([id : Ids, to : Watch!Contents]) /\ Len(writes') <= MaxWrites
        /\ view' \in [Ids -> Watch!Views] /\ viewed' \in [Ids -> 0..MaxWrites]
        /\ events' \in Seq(Watch!Events) /\ Len(events') <= Capacity
    BY Zenon DEF WatchIndInv, Watch!TypeOK
  <2> QED
    BY <1>1, <1>2, <1>3, <1>6, <2>1 DEF Watch!TypeOK
<1>9. \A k \in DOMAIN Pending' : /\ Pending'[k].write <= Len(writes)
                                 /\ Pending'[k].write \in Nat /\ Pending'[k].id \in Ids
  <2>1. \A k \in 1..Len(events) : /\ Pending[k].write <= Len(writes)
                                  /\ Pending[k].write \in Nat /\ Pending[k].id \in Ids
    BY <1>2, <1>7 DEF Watch!Events
  <2>2. \A k \in 1..Len(todo') : /\ todo'[k].write <= Len(writes)
                                 /\ todo'[k].write \in Nat /\ todo'[k].id \in Ids
    BY <1>2, <1>3, <1>4 DEF Watch!Announced
  <2> QED
    BY <1>4, <1>5, <2>1, <2>2
<1>10. Indexed'
  BY <1>1, <1>2, <1>7, <1>9 DEF Indexed
<1>11. Ordered'
  <2> SUFFICES ASSUME NEW n \in DOMAIN Pending'
               PROVE  /\ viewed[Pending'[n].id] <= Pending'[n].write
                      /\ \A m \in 1..n : Pending'[m].id = Pending'[n].id
                                            => Pending'[m].write <= Pending'[n].write
    BY DEF Ordered
  <2>1. CASE n \in 1..Len(events)
    <3>1. \A m \in 1..n : m \in 1..Len(events)
      BY <1>2, <2>1
    <3> QED
      BY <1>2, <1>4, <2>1, <3>1 DEF WatchIndInv, Ordered
  <2>2. CASE \E m \in 1..Len(todo') : n = Len(events) + m
    <3>1. Pending'[n].write = Len(writes)
      <4>1. PICK m \in 1..Len(todo') : n = Len(events) + m
        BY <2>2
      <4>2. m \in DOMAIN todo' /\ Pending'[n] = todo'[m]
        BY <1>4, <4>1
      <4> QED
        BY <1>3, <4>2
    <3>2. \A m \in 1..n : m \in DOMAIN Pending'
      BY <1>2, <1>4
    <3>3. viewed[Pending'[n].id] <= Len(writes)
      BY <1>2, <1>7, <1>9
    <3> QED
      BY <1>9, <3>1, <3>2, <3>3
  <2> QED
    BY <1>5, <2>1, <2>2
<1>12. \A i \in Ids \ Watch!Announced(Watch!Live) : Watch!Live[i] = seen[i]
  BY DEF Watch!Announced
<1>13. Believed'
  <2>1. ASSUME NEW i \in Ids, \A k \in DOMAIN Pending' : Pending'[k].id # i
        PROVE  view[i] = Watch!Live[i]
    <3>1. \A k \in DOMAIN Pending : Pending[k].id # i
      BY <1>2, <1>4, <2>1
    <3>2. \A k \in 1..Len(todo') : todo'[k].id # i
      <4> SUFFICES ASSUME NEW k \in 1..Len(todo') PROVE todo'[k].id # i
        OBVIOUS
      <4>1. Len(events) + k \in DOMAIN Pending'
        BY <1>2, <1>4
      <4> QED
        BY <1>4, <2>1, <4>1
    <3>3. i \notin Watch!Announced(Watch!Live)
      BY <1>3, <1>4, <3>2
    <3> QED
      BY <1>12, <3>1, <3>3 DEF WatchIndInv, Believed
  <2>2. ASSUME NEW k \in DOMAIN Pending',
               \A m \in DOMAIN Pending' : m > k => Pending'[m].id # Pending'[k].id
        PROVE  Pending'[k].service = Watch!Live[Pending'[k].id]
    <3>1. CASE \E m \in 1..Len(todo') : k = Len(events) + m
      <4>1. PICK m \in 1..Len(todo') : k = Len(events) + m
        BY <3>1
      <4>2. m \in DOMAIN todo' /\ Pending'[k] = todo'[m]
        BY <1>4, <4>1
      <4> QED
        BY <1>3, <4>2
    <3>2. CASE k \in 1..Len(events)
      <4>1. \A m \in DOMAIN Pending : m > k => Pending[m].id # Pending[k].id
        BY <1>2, <1>4, <2>2, <3>2
      <4>2. Pending[k].service = seen[Pending[k].id] /\ Pending[k].id \in Ids
        BY <1>2, <3>2, <4>1 DEF WatchIndInv, Believed, Watch!Events
      <4>3. \A m \in 1..Len(todo') : todo'[m].id # Pending[k].id
        <5> SUFFICES ASSUME NEW m \in 1..Len(todo') PROVE todo'[m].id # Pending[k].id
          OBVIOUS
        <5>1. Len(events) + m \in DOMAIN Pending' /\ Len(events) + m > k
          BY <1>2, <1>4, <3>2
        <5> QED
          BY <1>4, <2>2, <3>2, <5>1
      <4>4. Pending[k].id \notin Watch!Announced(Watch!Live)
        BY <1>3, <1>4, <4>3
      <4> QED
        BY <1>4, <1>12, <3>2, <4>2, <4>4
    <3> QED
      BY <1>5, <3>1, <3>2
  <2> QED
    BY <1>1, <2>1, <2>2 DEF Believed
<1>14. Informed'
  <2>1. Watch!Live' = Watch!Live
    BY DEF Watch!Live, Watch!Valid, Watch!Content
  <2>2. ASSUME NEW i \in Ids, Watch!NeverInvalid(i)' PROVE Reflects(i)'
    <3>1. Watch!NeverInvalid(i)
      BY <2>2 DEF Watch!NeverInvalid
    <3>2. /\ (\A k \in 1..Len(writes) : writes[k].id # i) => Watch!Live[i] = "absent"
          /\ \A k \in 1..Len(writes) :
               writes[k].id = i /\ (\A m \in 1..Len(writes) : m > k => writes[m].id # i)
                   => Watch!Live[i] = writes[k].to
      BY <1>2, <3>1, LiveReflects
    <3>3. \A k \in 1..Len(writes) : \A m \in 1..Len(writes) :
             m > k => m \in (k + 1)..Len(writes)
      BY <1>2
    <3> QED
      BY <1>1, <3>2, <3>3 DEF Reflects
  <2> QED
    BY <1>1, <2>1, <2>2 DEF Informed
<1> QED
  BY <1>8, <1>10, <1>11, <1>13, <1>14 DEF WatchIndInv


\* A write of etcd's stream is told, or skipped when its data is invalid.
LEMMA StreamEventInv == WatchIndInv /\ Watch!StreamEvent => WatchIndInv'
<1> SUFFICES ASSUME WatchIndInv, Watch!StreamEvent PROVE WatchIndInv'
  OBVIOUS
<1> DEFINE w == writes[index + 1]
           e == Watch!Event(w.id, w.to, index + 1)
<1>1. /\ source = "etcd" /\ wpc = "follow" /\ index < Len(writes) /\ index' = index + 1
      /\ UNCHANGED <<source, writes, breaks, events, closed, stopped, view, viewed>>
  BY DEF Watch!StreamEvent
<1>2. /\ writes \in Seq(Writes) /\ Len(writes) \in 0..MaxWrites
      /\ DOMAIN writes = 1..Len(writes) /\ \A k \in 1..Len(writes) : writes[k] \in Writes
      /\ events \in Seq(Watch!Events) /\ Len(events) \in Nat /\ todo = <<>>
      /\ DOMAIN Pending = 1..Len(events)
      /\ \A k \in 1..Len(events) : Pending[k] = events[k] /\ Pending[k] \in Watch!Events
  <2>1. todo = <<>> /\ Len(todo) = 0
    BY <1>1 DEF WatchIndInv, Indexed
  <2> QED
    BY <2>1, WatchTypes DEF WatchIndInv
<1>3. /\ index \in Nat /\ index + 1 \in 1..Len(writes) /\ index + 1 \in 0..MaxWrites
      /\ w \in Writes /\ w.id \in Ids /\ w.to \in Watch!Contents
  <2>1. index \in Nat
    BY DEF WatchIndInv, Watch!TypeOK
  <2>2. index + 1 \in 1..Len(writes) /\ index + 1 \in 0..MaxWrites
    BY <1>1, <1>2, <2>1, WatchAssumption
  <2>3. w \in Writes
    BY <1>2, <2>2
  <2> QED
    BY <2>1, <2>2, <2>3 DEF Writes
<1>4. /\ Watch!Live' = Watch!Live
      /\ \A i \in Ids : Watch!NeverInvalid(i)' => Watch!NeverInvalid(i)
  BY <1>1 DEF Watch!Live, Watch!Valid, Watch!Content, Watch!NeverInvalid
<1>5. /\ closed' \in BOOLEAN /\ stopped' \in BOOLEAN /\ source' \in {"etcd", "consul"}
      /\ breaks' \in 0..MaxBreaks
      /\ writes' \in Seq([id : Ids, to : Watch!Contents]) /\ Len(writes') <= MaxWrites
      /\ view' \in [Ids -> Watch!Views] /\ viewed' \in [Ids -> 0..MaxWrites]
      /\ events' \in Seq(Watch!Events) /\ Len(events') <= Capacity
  BY <1>1, Zenon DEF WatchIndInv, Watch!TypeOK
<1>6. CASE w.to = "invalid"
  <2>1. UNCHANGED <<seen, todo, wpc>>
    BY <1>1, <1>6 DEF Watch!StreamEvent
  <2>2. Watch!TypeOK'
    BY <1>1, <1>3, <1>5, <2>1 DEF WatchIndInv, Watch!TypeOK
  <2>3. Pending' = Pending
    BY <1>1, <2>1 DEF Pending
  <2>4. Indexed'
    <3>1. \A k \in DOMAIN Pending : Pending[k].write \in Nat /\ Pending[k].write <= index
      BY <1>2 DEF WatchIndInv, Indexed, Watch!Events
    <3>2. \A i \in Ids : viewed[i] \in Nat /\ viewed[i] <= index
      BY <1>2 DEF WatchIndInv, Indexed, Watch!TypeOK
    <3> QED
      BY <1>1, <1>2, <1>3, <2>1, <2>3, <3>1, <3>2 DEF Indexed
  <2>5. Ordered' /\ Believed'
    BY <1>1, <2>1, <2>3 DEF WatchIndInv, Ordered, Believed
  <2>6. ASSUME NEW i \in Ids, Watch!NeverInvalid(i)' PROVE Reflects(i)'
    <3>1. Watch!NeverInvalid(i) /\ Reflects(i)
      BY <1>1, <1>4, <2>6 DEF WatchIndInv, Informed
    <3>2. w.id # i
      <4>1. w = [id |-> w.id, to |-> w.to]
        BY <1>3 DEF Writes
      <4> QED
        BY <1>2, <1>3, <1>6, <3>1, <4>1 DEF Watch!NeverInvalid
    <3>3. (\A k \in 1..(index + 1) : writes[k].id # i) => seen[i] = "absent"
      BY <1>3, <3>1 DEF Reflects
    <3>4. ASSUME NEW k \in 1..(index + 1), writes[k].id = i,
                 \A m \in (k + 1)..(index + 1) : writes[m].id # i
          PROVE  seen[i] = writes[k].to
      <4>1. k # index + 1
        BY <3>2, <3>4
      <4>2. k \in 1..index /\ \A m \in (k + 1)..index : m \in (k + 1)..(index + 1)
        BY <1>3, <4>1
      <4> QED
        BY <3>1, <3>4, <4>2 DEF Reflects
    <3> QED
      BY <1>1, <2>1, <3>3, <3>4 DEF Reflects
  <2>7. Informed'
    BY <1>1, <2>6 DEF Informed
  <2> QED
    BY <2>2, <2>4, <2>5, <2>7 DEF WatchIndInv
<1>7. CASE w.to # "invalid"
  <2>1. /\ seen' = [seen EXCEPT ![w.id] = w.to] /\ todo' = <<e>> /\ wpc' = "send"
    BY <1>1, <1>7 DEF Watch!StreamEvent
  <2>2. w.to \in Watch!Views
    BY <1>3, <1>7 DEF Watch!Contents, Watch!Views
  <2>3. /\ e \in Watch!Events /\ e.id = w.id /\ e.service = w.to /\ e.write = index + 1
    BY <1>3, <2>2 DEF Watch!Event, Watch!Events
  <2> HIDE DEF w, e
  <2>4. /\ seen' \in [Ids -> Watch!Views] /\ seen'[w.id] = w.to
        /\ \A i \in Ids : i # w.id => seen'[i] = seen[i]
    BY <1>3, <2>1, <2>2 DEF WatchIndInv, Watch!TypeOK
  <2>5. todo' \in Seq(Watch!Events) /\ Len(todo') = 1 /\ todo'[1] = e
    BY <2>1, <2>3
  <2>6. Watch!TypeOK'
    BY <1>1, <1>3, <1>5, <2>1, <2>4, <2>5 DEF Watch!TypeOK
  <2>7. /\ DOMAIN Pending' = 1..(Len(events) + 1) /\ Pending'[Len(events) + 1] = e
        /\ \A k \in 1..Len(events) : Pending'[k] = Pending[k]
    <3>1. /\ DOMAIN Pending' = 1..(Len(events) + 1)
          /\ \A k \in 1..(Len(events) + 1) :
                Pending'[k] = IF k <= Len(events) THEN events[k] ELSE todo'[k - Len(events)]
      <4>1. /\ DOMAIN (events \o todo') = 1..(Len(events) + Len(todo'))
            /\ \A k \in 1..(Len(events) + Len(todo')) :
                 (events \o todo')[k] = IF k <= Len(events) THEN events[k]
                                       ELSE todo'[k - Len(events)]
        <5>1. events \in Seq(Watch!Events) /\ todo' \in Seq(Watch!Events)
          BY <1>2, <2>5
        <5> QED
          BY ONLY <5>1, ConcatElements
      <4>2. Pending' = events \o todo'
        BY <1>1 DEF Pending
      <4> QED
        BY <2>5, <4>1, <4>2
    <3>2. /\ Len(events) + 1 \in 1..(Len(events) + 1) /\ ~(Len(events) + 1 <= Len(events))
          /\ (Len(events) + 1) - Len(events) = 1
      BY <1>2
    <3>3. Pending'[Len(events) + 1] = e
      BY <2>5, <3>1, <3>2
    <3>4. ASSUME NEW k \in 1..Len(events) PROVE Pending'[k] = Pending[k]
      <4>1. k \in 1..(Len(events) + 1) /\ k <= Len(events)
        BY <1>2
      <4> QED
        BY <1>2, <3>1, <4>1
    <3> QED
      BY <3>1, <3>3, <3>4
  <2>8. \A k \in DOMAIN Pending' : k \in 1..Len(events) \/ k = Len(events) + 1
    BY <1>2, <2>7
  <2>9. /\ \A k \in 1..Len(events) : /\ Pending[k].write \in Nat /\ Pending[k].write <= index
                                     /\ Pending[k].id \in Ids
        /\ \A i \in Ids : viewed[i] \in Nat /\ viewed[i] <= index
    <3>1. \A k \in 1..Len(events) : /\ Pending[k].write \in Nat /\ Pending[k].write <= index
                                    /\ Pending[k].id \in Ids
      BY <1>2 DEF WatchIndInv, Indexed, Watch!Events
    <3>2. \A i \in Ids : viewed[i] \in Nat /\ viewed[i] <= index
      BY <1>2 DEF WatchIndInv, Indexed, Watch!TypeOK
    <3> QED
      BY <3>1, <3>2
  <2>10. Indexed'
    <3>1. \A k \in DOMAIN Pending' : Pending'[k].write <= index + 1
      BY <1>3, <2>3, <2>7, <2>8, <2>9
    <3>2. \A i \in Ids : viewed[i] <= index + 1
      BY <1>3, <2>9
    <3> QED
      BY <1>1, <1>2, <1>3, <2>1, <3>1, <3>2 DEF Indexed
  <2>11. Ordered'
    <3> SUFFICES ASSUME NEW n \in DOMAIN Pending'
                 PROVE  /\ viewed[Pending'[n].id] <= Pending'[n].write
                        /\ \A m \in 1..n : Pending'[m].id = Pending'[n].id
                                              => Pending'[m].write <= Pending'[n].write
      BY <1>1 DEF Ordered
    <3>1. CASE n \in 1..Len(events)
      <4>1. \A m \in 1..n : m \in 1..Len(events)
        BY <1>2, <3>1
      <4> QED
        BY <1>2, <2>7, <3>1, <4>1 DEF WatchIndInv, Ordered
    <3>2. CASE n = Len(events) + 1
      <4>1. \A m \in 1..n : m = n \/ m \in 1..Len(events)
        BY <1>2, <3>2
      <4>2. Pending'[n].write = index + 1 /\ Pending'[n].id \in Ids
        BY <1>3, <2>3, <2>7, <3>2
      <4>3. viewed[Pending'[n].id] <= Pending'[n].write
        BY <1>3, <2>9, <4>2
      <4>4. ASSUME NEW m \in 1..n PROVE Pending'[m].write <= Pending'[n].write
        BY <1>3, <2>7, <2>9, <4>1, <4>2
      <4> QED
        BY <4>3, <4>4
    <3> QED
      BY <2>8, <3>1, <3>2
  <2>12. Believed'
    <3>1. ASSUME NEW i \in Ids, \A k \in DOMAIN Pending' : Pending'[k].id # i
          PROVE  view[i] = seen'[i]
      <4>1. i # w.id
        BY <1>2, <2>3, <2>7, <3>1
      <4>2. \A k \in DOMAIN Pending : Pending[k].id # i
        BY <1>2, <2>7, <3>1
      <4> QED
        BY <2>4, <4>1, <4>2 DEF WatchIndInv, Believed
    <3>2. ASSUME NEW k \in DOMAIN Pending',
                 \A m \in DOMAIN Pending' : m > k => Pending'[m].id # Pending'[k].id
          PROVE  Pending'[k].service = seen'[Pending'[k].id]
      <4>1. CASE k = Len(events) + 1
        BY <2>3, <2>4, <2>7, <4>1
      <4>2. CASE k \in 1..Len(events)
        <5>1. Pending[k].id # w.id
          <6>1. Len(events) + 1 \in DOMAIN Pending' /\ Len(events) + 1 > k
            BY <1>2, <2>7, <4>2
          <6> QED
            BY <2>3, <2>7, <3>2, <4>2, <6>1
        <5>2. \A m \in DOMAIN Pending : m > k => Pending[m].id # Pending[k].id
          BY <1>2, <2>7, <3>2, <4>2
        <5>3. Pending[k].service = seen[Pending[k].id]
          BY <1>2, <4>2, <5>2 DEF WatchIndInv, Believed
        <5> QED
          BY <2>4, <2>7, <2>9, <4>2, <5>1, <5>3
      <4> QED
        BY <2>8, <4>1, <4>2
    <3> QED
      BY <1>1, <3>1, <3>2 DEF Believed
  <2>13. ASSUME NEW i \in Ids, Watch!NeverInvalid(i)' PROVE Reflects(i)'
    <3>1. Reflects(i)
      BY <1>1, <1>4, <2>13 DEF WatchIndInv, Informed
    <3>2. (\A k \in 1..(index + 1) : writes[k].id # i) => seen'[i] = "absent"
      <4> SUFFICES ASSUME \A k \in 1..(index + 1) : writes[k].id # i
                   PROVE  seen'[i] = "absent"
        OBVIOUS
      <4>1. w.id # i /\ \A k \in 1..index : writes[k].id # i
        BY <1>3 DEF w
      <4> QED
        BY <2>4, <3>1, <4>1 DEF Reflects
    <3>3. ASSUME NEW k \in 1..(index + 1), writes[k].id = i,
                 \A m \in (k + 1)..(index + 1) : writes[m].id # i
          PROVE  seen'[i] = writes[k].to
      <4>1. CASE k = index + 1
        BY <2>4, <3>3, <4>1 DEF w
      <4>2. CASE k # index + 1
        <5>1. k \in 1..index /\ \A m \in (k + 1)..index : m \in (k + 1)..(index + 1)
          BY <1>3, <4>2
        <5>2. w.id # i
          <6>1. index + 1 \in (k + 1)..(index + 1)
            BY <1>3, <5>1
          <6> QED
            BY <3>3, <6>1 DEF w
        <5> QED
          BY <2>4, <3>1, <3>3, <5>1, <5>2 DEF Reflects
      <4> QED
        BY <4>1, <4>2
    <3> QED
      BY <1>1, <3>2, <3>3 DEF Reflects
  <2>14. Informed'
    BY <1>1, <2>13 DEF Informed
  <2> QED
    BY <2>6, <2>10, <2>11, <2>12, <2>14 DEF WatchIndInv
<1> QED
  BY <1>6, <1>7


\* Moving the oldest event into the channel changes nothing that is under way.
LEMMA SendInv == WatchIndInv /\ Watch!Send => WatchIndInv'
<1> SUFFICES ASSUME WatchIndInv, Watch!Send PROVE WatchIndInv'
  OBVIOUS
<1>1. /\ wpc = "send" /\ todo # <<>>
      /\ UNCHANGED <<source, writes, breaks, index, seen, stopped, view, viewed>>
  BY DEF Watch!Send
<1>2. /\ events \in Seq(Watch!Events) /\ todo \in Seq(Watch!Events)
      /\ Len(events) \in Nat /\ Len(todo) \in Nat
  BY WatchTypes DEF WatchIndInv
<1>3. /\ stopped' \in BOOLEAN /\ source' \in {"etcd", "consul"}
      /\ breaks' \in 0..MaxBreaks /\ index' \in 0..MaxWrites
      /\ writes' \in Seq([id : Ids, to : Watch!Contents]) /\ Len(writes') <= MaxWrites
      /\ view' \in [Ids -> Watch!Views] /\ viewed' \in [Ids -> 0..MaxWrites]
      /\ seen' \in [Ids -> Watch!Views]
  BY <1>1, Zenon DEF WatchIndInv, Watch!TypeOK
<1>4. CASE /\ Len(events) < Capacity
           /\ events' = Append(events, Head(todo))
           /\ todo' = Tail(todo)
           /\ UNCHANGED <<wpc, closed>>
  <2>1. /\ Head(todo) \in Watch!Events /\ Tail(todo) \in Seq(Watch!Events)
        /\ Len(todo) > 0
    BY <1>1, <1>2, EmptySeq, HeadTailProperties
  <2>2. /\ events' \in Seq(Watch!Events) /\ Len(events') = Len(events) + 1
        /\ Len(events') <= Capacity
    BY <1>2, <1>4, <2>1, AppendProperties, WatchAssumption
  <2>3. Pending' = Pending
    <3> DEFINE a == Append(events, Head(todo))
               b == Tail(todo)
    <3>1. a \o b = events \o todo
      <4>1. /\ a \in Seq(Watch!Events) /\ b \in Seq(Watch!Events)
            /\ Len(a) = Len(events) + 1 /\ Len(b) = Len(todo) - 1
            /\ \A k \in 1..Len(events) : a[k] = events[k]
            /\ a[Len(events) + 1] = todo[1]
            /\ \A k \in 1..(Len(todo) - 1) : b[k] = todo[k + 1]
        BY <1>1, <1>2, <2>1, AppendProperties, HeadTailProperties
      <4> HIDE DEF a, b
      <4>2. /\ a \o b \in Seq(Watch!Events) /\ events \o todo \in Seq(Watch!Events)
            /\ Len(a \o b) = Len(events) + Len(todo)
            /\ Len(events \o todo) = Len(events) + Len(todo)
        <5>1. a \o b \in Seq(Watch!Events) /\ Len(a \o b) = Len(a) + Len(b)
          BY <4>1, ConcatProperties
        <5>2. /\ events \o todo \in Seq(Watch!Events)
              /\ Len(events \o todo) = Len(events) + Len(todo)
          BY <1>2, ConcatProperties
        <5>3. Len(a) + Len(b) = Len(events) + Len(todo)
          BY <1>2, <4>1
        <5> QED
          BY <5>1, <5>2, <5>3
      <4>3. ASSUME NEW k \in 1..(Len(events) + Len(todo))
            PROVE  (a \o b)[k] = (events \o todo)[k]
        <5>1. /\ (a \o b)[k] = IF k <= Len(a) THEN a[k] ELSE b[k - Len(a)]
              /\ (events \o todo)[k] = IF k <= Len(events) THEN events[k]
                                       ELSE todo[k - Len(events)]
          BY <1>2, <4>1, ConcatProperties
        <5>2. CASE k <= Len(events)
          BY <1>2, <4>1, <5>1, <5>2
        <5>3. CASE k = Len(events) + 1
          BY <1>2, <4>1, <5>1, <5>3
        <5>4. CASE k > Len(events) + 1
          <6>1. /\ k - Len(a) \in 1..(Len(todo) - 1) /\ ~(k <= Len(a)) /\ ~(k <= Len(events))
                /\ (k - Len(a)) + 1 = k - Len(events)
            BY <1>2, <4>1, <5>4
          <6> QED
            BY <4>1, <5>1, <6>1
        <5>5. k <= Len(events) \/ k = Len(events) + 1 \/ k > Len(events) + 1
          BY <1>2
        <5> QED
          BY <5>2, <5>3, <5>4, <5>5
      <4> QED
        BY <4>2, <4>3, SeqEqual
    <3> QED
      BY <1>4, <3>1 DEF Pending
  <2>4. wpc' = "send" /\ closed' \in BOOLEAN
    BY <1>1, <1>4, Zenon DEF WatchIndInv, Watch!TypeOK
  <2>5. Watch!TypeOK'
    BY <1>3, <1>4, <2>1, <2>2, <2>4 DEF Watch!TypeOK
  <2> QED
    BY <1>1, <2>3, <2>4, <2>5, WatchKeeps
<1>5. CASE stopped /\ Watch!Done /\ UNCHANGED <<events, todo>>
  <2>1. wpc' = "done" /\ closed' \in BOOLEAN
    BY <1>5 DEF Watch!Done
  <2>2. Len(events') <= Capacity /\ Pending' = Pending
    BY <1>5 DEF WatchIndInv, Watch!TypeOK, Pending
  <2>3. Watch!TypeOK'
    BY <1>2, <1>3, <1>5, <2>1, <2>2 DEF Watch!TypeOK
  <2> QED
    BY <1>1, <2>1, <2>2, <2>3, WatchKeeps
<1> QED
  BY <1>4, <1>5 DEF Watch!Send

\* The first request, or a request after the stream broke.
LEMMA WatchAndRetryInv == WatchIndInv /\ (Watch!Watch \/ Watch!Retry) => WatchIndInv'
<1> SUFFICES ASSUME WatchIndInv, Watch!Watch \/ Watch!Retry PROVE WatchIndInv'
  OBVIOUS
<1>1. /\ wpc \in {"watch", "retry"}
      /\ UNCHANGED <<source, writes, events, stopped, view, viewed>>
  BY DEF Watch!Watch, Watch!Retry
<1>2. todo = <<>>
  BY <1>1 DEF WatchIndInv, Indexed
<1>3. breaks \in 0..MaxBreaks /\ closed \in BOOLEAN
  BY Zenon DEF WatchIndInv, Watch!TypeOK
<1>4. closed' = closed \/ closed' \in BOOLEAN
  BY DEF Watch!Watch, Watch!Retry
<1>5. ASSUME Watch!Synchronise, UNCHANGED <<breaks, closed>> PROVE WatchIndInv'
  BY <1>1, <1>2, <1>3, <1>5, SynchroniseInv
<1>6. ASSUME Watch!Break \/ UNCHANGED breaks, wpc' \in {"failed", "retry", "follow"},
             UNCHANGED <<index, seen, todo, closed>>
      PROVE  WatchIndInv'
  <2>1. breaks' \in 0..MaxBreaks
    BY <1>3, <1>6, WatchAssumption DEF Watch!Break
  <2>2. /\ closed' \in BOOLEAN /\ stopped' \in BOOLEAN /\ source' \in {"etcd", "consul"}
        /\ index' \in 0..MaxWrites
        /\ writes' \in Seq([id : Ids, to : Watch!Contents]) /\ Len(writes') <= MaxWrites
        /\ view' \in [Ids -> Watch!Views] /\ viewed' \in [Ids -> 0..MaxWrites]
        /\ seen' \in [Ids -> Watch!Views]
        /\ todo' \in Seq(Watch!Events) /\ events' \in Seq(Watch!Events)
        /\ Len(events') <= Capacity
    BY <1>1, <1>6, Zenon DEF WatchIndInv, Watch!TypeOK
  <2>3. Watch!TypeOK'
    BY <1>6, <2>1, <2>2 DEF Watch!TypeOK
  <2>4. Pending' = Pending /\ todo' = <<>>
    BY <1>1, <1>2, <1>6 DEF Pending
  <2> QED
    BY <1>1, <1>6, <2>3, <2>4, WatchKeeps
<1>7. CASE Watch!Watch
  <2>1. \/ Watch!Synchronise /\ UNCHANGED <<breaks, closed>>
        \/ /\ Watch!Break \/ UNCHANGED breaks
           /\ wpc' = "failed" /\ UNCHANGED <<index, seen, todo, closed>>
    BY <1>7, Zenon DEF Watch!Watch
  <2> QED
    BY <1>5, <1>6, <2>1
<1>8. CASE Watch!Retry
  <2>1. /\ UNCHANGED closed
        /\ \/ Watch!Synchronise /\ UNCHANGED breaks
           \/ Watch!Break /\ UNCHANGED <<wpc, index, seen, todo>>
           \/ wpc' = "follow" /\ UNCHANGED <<breaks, index, seen, todo>>
    BY <1>8, Zenon DEF Watch!Retry
  <2>2. wpc = "retry"
    BY <1>8 DEF Watch!Retry
  <2> QED
    BY <1>5, <1>6, <2>1, <2>2
<1> QED
  BY <1>7, <1>8

\* The steps that move no event: all told, a stream that breaks, the context's end.
LEMMA QuietWatchInv ==
    WatchIndInv /\ (Watch!Sent \/ Watch!FollowFails \/ Watch!StopSeen \/ Watch!Stop)
        => WatchIndInv'
<1> SUFFICES ASSUME WatchIndInv,
                    Watch!Sent \/ Watch!FollowFails \/ Watch!StopSeen \/ Watch!Stop
             PROVE  WatchIndInv'
  OBVIOUS
<1>1. UNCHANGED <<source, writes, index, seen, todo, events, view, viewed>>
  BY Zenon DEF Watch!Sent, Watch!FollowFails, Watch!StopSeen, Watch!Stop
<1>2. closed' \in BOOLEAN /\ stopped' \in BOOLEAN
  <2>1. (closed' = closed \/ closed' = TRUE) /\ (stopped' = stopped \/ stopped' = TRUE)
    BY Zenon DEF Watch!Sent, Watch!FollowFails, Watch!StopSeen, Watch!Stop, Watch!Done
  <2>2. closed \in BOOLEAN /\ stopped \in BOOLEAN
    BY Zenon DEF WatchIndInv, Watch!TypeOK
  <2> QED
    BY <2>1, <2>2, Zenon
<1>3. breaks' \in 0..MaxBreaks
  <2>1. breaks \in 0..MaxBreaks
    BY Zenon DEF WatchIndInv, Watch!TypeOK
  <2>2. breaks' = breaks \/ Watch!Break
    BY Zenon DEF Watch!Sent, Watch!FollowFails, Watch!StopSeen, Watch!Stop
  <2> QED
    BY <2>1, <2>2, WatchAssumption DEF Watch!Break
<1>4. /\ wpc' \in {"watch", "send", "follow", "retry", "failed", "done"}
      /\ wpc' \in {"watch", "follow", "retry", "failed"} => todo' = <<>>
  <2>1. \/ wpc' = wpc
        \/ wpc' = "follow" /\ todo = <<>>
        \/ wpc' = "retry" /\ wpc = "follow"
        \/ wpc' = "done"
    BY Zenon DEF Watch!Sent, Watch!FollowFails, Watch!StopSeen, Watch!Stop, Watch!Done
  <2> QED
    BY <1>1, <2>1 DEF WatchIndInv, Indexed, Watch!TypeOK
<1>5. Watch!TypeOK'
  <2>1. /\ source' \in {"etcd", "consul"} /\ index' \in 0..MaxWrites
        /\ writes' \in Seq([id : Ids, to : Watch!Contents]) /\ Len(writes') <= MaxWrites
        /\ view' \in [Ids -> Watch!Views] /\ viewed' \in [Ids -> 0..MaxWrites]
        /\ seen' \in [Ids -> Watch!Views]
        /\ todo' \in Seq(Watch!Events) /\ events' \in Seq(Watch!Events)
        /\ Len(events') <= Capacity
    BY <1>1, Zenon DEF WatchIndInv, Watch!TypeOK
  <2> QED
    BY <1>2, <1>3, <1>4, <2>1 DEF Watch!TypeOK
<1>6. Pending' = Pending
  BY <1>1 DEF Pending
<1> QED
  BY <1>1, <1>4, <1>5, <1>6, WatchKeeps

\* Every step of the watcher, its consumer and the backend keeps the invariant.
LEMMA WatchNext == WatchIndInv /\ [Watch!Next]_watchVars => WatchIndInv'
<1> SUFFICES ASSUME WatchIndInv, [Watch!Next]_watchVars PROVE WatchIndInv'
  OBVIOUS
<1>1. CASE UNCHANGED watchVars
  <2>1. UNCHANGED <<source, writes, breaks, wpc, index, seen, todo, events, closed, stopped,
                    view, viewed>>
    BY <1>1 DEF watchVars
  <2>2. Watch!TypeOK'
    BY <2>1, Zenon DEF WatchIndInv, Watch!TypeOK
  <2>3. Pending' = Pending
    BY <2>1 DEF Pending
  <2> QED
    BY <2>1, <2>2, <2>3, WatchKeeps DEF WatchIndInv, Indexed
<1>2. CASE Watch!QueryReturns
  <2>1. /\ Watch!Synchronise /\ wpc = "follow"
        /\ UNCHANGED <<source, writes, breaks, events, closed, stopped, view, viewed>>
    BY <1>2 DEF Watch!QueryReturns
  <2>2. todo = <<>>
    BY <2>1 DEF WatchIndInv, Indexed
  <2>3. breaks' \in 0..MaxBreaks /\ closed' \in BOOLEAN
    BY <2>1, Zenon DEF WatchIndInv, Watch!TypeOK
  <2> QED
    BY <2>1, <2>2, <2>3, SynchroniseInv
<1>3. ASSUME NEW i \in Ids, Watch!Write(i) PROVE WatchIndInv'
  BY <1>3, WriteInv
<1> QED
  BY <1>1, <1>2, <1>3, ConsumeInv, StreamEventInv, SendInv, WatchAndRetryInv, QuietWatchInv
     DEF Watch!Next, Watch!Watcher

\* Without an event under way the consumer believes what the watcher knows.
LEMMA WatchImplies == WatchIndInv => Watch!Inv
<1> SUFFICES ASSUME WatchIndInv PROVE Watch!Inv
  OBVIOUS
<1>1. Watch!InOrder
  BY DEF WatchIndInv, Ordered, Pending, Watch!InOrder
<1>2. Watch!CaughtUp
  <2> SUFFICES ASSUME wpc = "follow", events = <<>>, index = Len(writes), NEW i \in Ids,
                      source = "consul" \/ Watch!NeverInvalid(i)
               PROVE  view[i] = Watch!Live[i]
    BY DEF Watch!CaughtUp
  <2>1. writes \in Seq(Writes) /\ DOMAIN writes = 1..Len(writes) /\ Len(writes) \in Nat
    BY WatchTypes DEF WatchIndInv
  <2>2. view[i] = seen[i]
    <3>1. todo = <<>> /\ Len(todo) = 0 /\ Len(events) = 0
      BY DEF WatchIndInv, Indexed
    <3>2. DOMAIN Pending = {}
      BY <3>1, WatchTypes DEF WatchIndInv
    <3> QED
      BY <3>2 DEF WatchIndInv, Believed
  <2>3. CASE source = "consul"
    BY <2>2, <2>3 DEF WatchIndInv, Informed
  <2>4. CASE source = "etcd" /\ Watch!NeverInvalid(i)
    <3>1. Reflects(i)
      BY <2>4 DEF WatchIndInv, Informed
    <3>2. \/ (\A k \in DOMAIN writes : writes[k].id # i) /\ Watch!Live[i] = "absent"
          \/ \E k \in DOMAIN writes :
               /\ writes[k].id = i /\ \A m \in DOMAIN writes : m > k => writes[m].id # i
               /\ Watch!Live[i] = writes[k].to
      BY <2>1, <2>4, ContentLemma, LiveReflects
    <3>3. \A k \in 1..Len(writes) : \A m \in (k + 1)..Len(writes) :
             m \in 1..Len(writes) /\ m > k
      BY <2>1
    <3> QED
      BY <2>1, <2>2, <3>1, <3>2, <3>3 DEF Reflects
  <2> QED
    BY <2>3, <2>4 DEF WatchIndInv, Watch!TypeOK
<1> QED
  BY <1>1, <1>2 DEF WatchIndInv, Watch!Inv


-----------------------------------------------------------------------------
(* The interface.                                                          *)

\* The invariants of a registration in each backend and of a watch, together.
LEMMA RegistryParts == FairRegistry => [](EtcdIndInv /\ ConsulIndInv /\ WatchIndInv)
<1>1. New => EtcdIndInv /\ ConsulIndInv /\ WatchIndInv
  BY EtcdInit, ConsulInit, WatchInit DEF New
<1>2. ASSUME EtcdIndInv, ConsulIndInv, WatchIndInv, [Step]_registryVars
      PROVE  EtcdIndInv' /\ ConsulIndInv' /\ WatchIndInv'
  <2>1. [Next]_vars /\ [Consul!Next]_consulVars /\ [Watch!Next]_watchVars
    BY <1>2 DEF Step, registryVars
  <2> QED
    BY <1>2, <2>1, EtcdNext, ConsulNext, WatchNext
<1> QED
  BY <1>1, <1>2, PTL DEF FairRegistry

\* For every number of Register calls, faults, instances and writes, and for
\* every capacity of the event channel: registrations and their loops agree in
\* both backends, only a Close with a failed request leaves a service without its
\* check, and a watcher's consumer hears of each instance in the order of its
\* history and, when it has read everything of a watcher that has heard of every
\* write, knows what is registered, but for data in etcd that was ever invalid
\* (Register, Deregister and Close of the two backends; Watch and sendEvent).
THEOREM MapsAndViewsAgree == FairRegistry => []RegistryInv
<1>1. EtcdIndInv /\ ConsulIndInv /\ WatchIndInv => RegistryInv
  BY EtcdImplies, ConsulImplies, WatchImplies DEF RegistryInv
<1> QED
  BY <1>1, RegistryParts, PTL
=============================================================================
