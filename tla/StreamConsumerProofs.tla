------------------------ MODULE StreamConsumerProofs ------------------------
(***************************************************************************)
(* Theorems about StreamConsumer.  The group first: its invariant, and     *)
(* that it delivers at least once, as far as that is a matter of safety.   *)
(* Nothing is delivered of a group that is gone, so UnackedIsPending needs *)
(* no premise to be inductive; and a batch holds published messages, so    *)
(* that one published later and invalid is not among them.                 *)
(*                                                                         *)
(* Then the loop, for any errors, delays and intervals: the accounting of  *)
(* failures is inductive only together with when the loop considers the    *)
(* outage reported, and the summary of a recovery only with the two clocks *)
(* of the outage: the code's outageStarted, guarded by IsZero, and the     *)
(* moment the first poll really failed.                                    *)
(***************************************************************************)
EXTENDS StreamConsumer, TLAPS, FiniteSetTheorems, WellFoundedInduction

Published == 1 .. length
DeliveredIsAccounted == \A m \in 1 .. lastDelivered : m \in handled \cup pending
BatchesArePublished == \A c \in Consumers : batch[c] \subseteq Published

GroupIndInv ==
    /\ Group!TypeOK /\ Group!HandlersSeeValid
    /\ DeliveredIsAccounted /\ BatchesArePublished
    /\ ~exists => lastDelivered = 0

\* The messages and what AtLeastOnce knows of them.
Ids == 1 .. MaxMessages
Place(m) == IF m > length THEN "unpublished"
            ELSE IF m > lastDelivered THEN "waiting"
            ELSE IF m \in pending THEN "handedOut" ELSE "settled"
place == [m \in Ids |-> Place(m)]
Promise == INSTANCE AtLeastOnce
    WITH Messages <- Ids, processed <- handled, refused <- poison

\* A set of numbers that is not empty has a least element.
LEMMA LeastExists ==
    ASSUME NEW S \in SUBSET Nat, S # {}
    PROVE  \E x \in S : \A y \in S : x <= y
<1>1. PICK x \in S : \A y \in S : ~ (<<y, x>> \in OpToRel(<, Nat))
  BY NatLessThanWellFounded, WFMin
<1>2. \A y \in S : ~ (y < x) BY <1>1 DEF OpToRel
<1> QED BY <1>2

\* The cardinality that the group counts with is that of FiniteSets.
LEMMA GroupCardinality == \A S : Group!Cardinality(S) = Cardinality(S)
BY Zenon DEF Group!Cardinality, Cardinality

\* XREADGROUP hands out what comes next, up to the end of the stream.
LEMMA NewMessagesAreNext ==
    ASSUME Group!TypeOK
    PROVE  LET next == lastDelivered + Cardinality(Group!NewMessages)
           IN  /\ next \in lastDelivered .. length
               /\ Group!NewMessages = (lastDelivered + 1) .. next
<1> DEFINE last == IF lastDelivered + Count > length THEN length ELSE lastDelivered + Count
<1> USE GroupAssumption DEF Group!ConstantsOK, Group!TypeOK
<1>1. last \in lastDelivered .. length OBVIOUS
<1>2. Group!NewMessages = (lastDelivered + 1) .. last BY DEF Group!NewMessages
<1>3. lastDelivered + Cardinality((lastDelivered + 1) .. last) = last
  <2>1. lastDelivered \in Int /\ last \in Int BY <1>1
  <2> HIDE DEF last
  <2>2. Cardinality((lastDelivered + 1) .. last)
          = IF lastDelivered + 1 > last THEN 0 ELSE last - (lastDelivered + 1) + 1
    BY <2>1, FS_Interval
  <2> QED BY <1>1, <2>1, <2>2
<1> HIDE DEF last
<1> QED BY <1>1, <1>2, <1>3

-----------------------------------------------------------------------------
\* Before the first message there is nothing to deliver.
LEMMA GroupInit == Group!Init => GroupIndInv /\ Promise!Init
<1> SUFFICES ASSUME Group!Init PROVE GroupIndInv /\ Promise!Init OBVIOUS
<1> USE GroupAssumption DEF Group!Init, Group!ConstantsOK
<1>1. Group!TypeOK
  <2>1. exists \in BOOLEAN /\ groupReady \in [Consumers -> BOOLEAN]
        /\ ticked \in [Consumers -> BOOLEAN]
    OBVIOUS
  <2>2. /\ length \in 0 .. MaxMessages /\ lastDelivered \in 0 .. length
        /\ faults \in 0 .. MaxFaults /\ claimCursor \in [Consumers -> 0 .. MaxMessages]
    OBVIOUS
  <2>3. groupPC \in [Consumers -> Group!PCs] /\ batch \in [Consumers -> SUBSET Group!Ids]
    BY DEF Group!PCs
  <2>4. poison = {} /\ pending = {} /\ idle = {} /\ handled = {} OBVIOUS
  <2> QED BY <2>1, <2>2, <2>3, <2>4 DEF Group!TypeOK
<1>2. DeliveredIsAccounted BY DEF DeliveredIsAccounted
<1>3. Group!HandlersSeeValid /\ BatchesArePublished
  BY DEF Group!HandlersSeeValid, BatchesArePublished
<1>4. Promise!Init
  <2>1. \A m \in Ids : Place(m) = "unpublished" BY DEF Ids, Place
  <2> QED BY <2>1 DEF Promise!Init, place
<1> QED BY <1>1, <1>2, <1>3, <1>4 DEF GroupIndInv

\* A message is appended, valid or not: it is one more that waits.
LEMMA PublishStep ==
    ASSUME GroupIndInv, Group!Publish \/ Group!PublishInvalid
    PROVE  GroupIndInv' /\ Promise!Publish
<1> USE GroupAssumption DEF Group!ConstantsOK
<1>1. /\ length < MaxMessages /\ length' = length + 1
      /\ poison' \in {poison, poison \cup {length + 1}}
      /\ UNCHANGED <<exists, lastDelivered, pending, idle, groupPC, groupReady, claimCursor,
                     ticked, batch, handled, faults>>
  BY DEF Group!Publish, Group!PublishInvalid, Group!redis, Group!consumer
<1>2. Group!TypeOK' BY <1>1 DEF GroupIndInv, Group!TypeOK, Group!Ids
<1>3. Group!HandlersSeeValid' /\ BatchesArePublished'
  BY <1>1 DEF GroupIndInv, Group!TypeOK, Group!HandlersSeeValid, BatchesArePublished, Published
<1>4. GroupIndInv' BY <1>1, <1>2, <1>3 DEF GroupIndInv, DeliveredIsAccounted
<1>5. Promise!Publish
  <2> DEFINE m == length + 1
  <2>1. m \in Promise!At("unpublished") /\ \A n \in Promise!At("unpublished") : m <= n
    BY <1>1 DEF GroupIndInv, Group!TypeOK, Promise!At, place, Place, Ids
  <2>2. place' = Promise!Moved({m}, "waiting")
    BY <1>1 DEF GroupIndInv, Group!TypeOK, Promise!Moved, place, Place, Ids
  <2> QED BY <1>1, <2>1, <2>2 DEF Promise!Publish
<1> QED BY <1>4, <1>5

\* The group is gone, and what it knew: everything waits again.
LEMMA LoseGroupStep ==
    ASSUME GroupIndInv, Group!LoseGroup
    PROVE  GroupIndInv' /\ Promise!StartAgain
<1> USE GroupAssumption DEF Group!ConstantsOK
<1>1. /\ exists' = FALSE /\ lastDelivered' = 0 /\ pending' = {} /\ idle' = {}
      /\ faults' \in 0 .. MaxFaults
      /\ UNCHANGED <<length, poison, groupPC, groupReady, claimCursor, ticked, batch, handled>>
  BY DEF Group!LoseGroup, Group!Fault, Group!stream, Group!consumer, GroupIndInv, Group!TypeOK
<1>2. Group!TypeOK'
  <2>1. 0 \in 0 .. length /\ FALSE \in BOOLEAN BY DEF GroupIndInv, Group!TypeOK
  <2> QED BY <1>1, <2>1 DEF GroupIndInv, Group!TypeOK, Group!Ids
<1>3. GroupIndInv'
  BY <1>1, <1>2 DEF GroupIndInv, Group!HandlersSeeValid, BatchesArePublished, Published,
                    DeliveredIsAccounted
<1>4. place' = Promise!Moved(Promise!At("handedOut") \cup Promise!At("settled"), "waiting")
  BY <1>1 DEF GroupIndInv, Group!TypeOK, Promise!Moved, Promise!At, place, Place, Ids
<1> QED BY <1>1, <1>3, <1>4 DEF Promise!StartAgain

\* A consumer that changes nothing but its own place, and what Redis remembers of
\* idle times, moves no message.
LEMMA QuietStep ==
    ASSUME GroupIndInv, Group!TypeOK',
           UNCHANGED <<length, poison, lastDelivered, pending, handled>>,
           exists => exists',
           \A c \in Consumers : batch'[c] \in {batch[c], {}}
    PROVE  GroupIndInv' /\ UNCHANGED Promise!vars
<1>1. GroupIndInv'
  BY DEF GroupIndInv, Group!HandlersSeeValid, BatchesArePublished, Published, DeliveredIsAccounted
<1>2. UNCHANGED Promise!vars BY DEF Promise!vars, place, Place
<1> QED BY <1>1, <1>2

\* A read that reaches Redis hands out the messages that come next.
LEMMA XReadGroupStep ==
    ASSUME GroupIndInv, exists, Group!XReadGroup, UNCHANGED <<length, poison, handled>>,
           NEW c \in Consumers,
           \/ UNCHANGED batch
           \/ Group!Valid(Group!NewMessages) /\ batch' = [batch EXCEPT ![c] = Group!NewMessages],
           groupPC' \in [Consumers -> Group!PCs], UNCHANGED <<groupReady, claimCursor, ticked>>,
           faults' \in 0 .. MaxFaults
    PROVE  GroupIndInv' /\ Promise!HandOut
<1> USE GroupAssumption DEF Group!ConstantsOK
<1> DEFINE new == Group!NewMessages
<1>1. /\ lastDelivered' \in lastDelivered .. length
      /\ new = (lastDelivered + 1) .. lastDelivered'
      /\ pending' = pending \cup new
      /\ UNCHANGED <<exists, idle>>
  BY NewMessagesAreNext, GroupCardinality DEF GroupIndInv, Group!XReadGroup
<1> HIDE DEF new
<1>2. new \subseteq Published /\ new \subseteq Group!Ids
  BY <1>1 DEF GroupIndInv, Group!TypeOK, Published, Group!Ids
<1>3. batch' \in [Consumers -> SUBSET Group!Ids]
  BY <1>2 DEF GroupIndInv, Group!TypeOK, new
<1>4. Group!TypeOK'
  BY <1>1, <1>2, <1>3 DEF GroupIndInv, Group!TypeOK, Published
<1>5. Group!HandlersSeeValid' /\ BatchesArePublished'
  BY <1>2 DEF GroupIndInv, Group!TypeOK, Group!HandlersSeeValid, BatchesArePublished, Published,
              Group!Valid, new
<1>6. DeliveredIsAccounted' BY <1>1 DEF GroupIndInv, Group!TypeOK, DeliveredIsAccounted
<1>7. GroupIndInv' BY <1>1, <1>4, <1>5, <1>6 DEF GroupIndInv
<1>8. new \in SUBSET Promise!At("waiting")
  BY <1>1, <1>2 DEF GroupIndInv, Group!TypeOK, Promise!At, place, Place, Ids, Group!Ids
<1>9. place' = Promise!Moved(new, "handedOut")
  BY <1>1 DEF GroupIndInv, Group!TypeOK, Promise!Moved, place, Place, Ids
<1> QED BY <1>7, <1>8, <1>9 DEF Promise!HandOut

\* What a handler has acknowledged is processed, and settled unless it waits again.
LEMMA AckStep ==
    ASSUME GroupIndInv, NEW c \in Consumers, NEW A \in SUBSET batch[c], Group!Ack(A),
           batch' = [batch EXCEPT ![c] = {}], UNCHANGED <<length, poison>>,
           groupPC' \in [Consumers -> Group!PCs], UNCHANGED <<groupReady, claimCursor, ticked>>,
           faults' \in 0 .. MaxFaults
    PROVE  GroupIndInv' /\ Promise!Process
<1> USE GroupAssumption DEF Group!ConstantsOK
<1>1. /\ handled' = handled \cup A /\ pending' = pending \ A /\ idle' = idle \ A
      /\ UNCHANGED <<exists, lastDelivered>>
  BY DEF Group!Ack
<1>2. A \subseteq Published /\ A \cap poison = {} /\ A \subseteq Ids
  BY DEF GroupIndInv, Group!TypeOK, Group!HandlersSeeValid, BatchesArePublished, Published, Ids
<1>3. Group!TypeOK' BY <1>1, <1>2 DEF GroupIndInv, Group!TypeOK, Group!Ids, Ids
<1>4. Group!HandlersSeeValid' /\ BatchesArePublished'
  BY DEF GroupIndInv, Group!TypeOK, Group!HandlersSeeValid, BatchesArePublished, Published
<1>5. GroupIndInv' BY <1>1, <1>3, <1>4 DEF GroupIndInv, DeliveredIsAccounted
<1>6. A \in SUBSET (Ids \ (Promise!At("unpublished") \cup poison))
  BY <1>2 DEF GroupIndInv, Group!TypeOK, Promise!At, place, Place, Ids, Published
<1>7. place' = Promise!Moved(A \cap Promise!At("handedOut"), "settled")
  BY <1>1, <1>2 DEF GroupIndInv, Group!TypeOK, Promise!Moved, Promise!At, place, Place, Ids
<1> QED BY <1>1, <1>5, <1>6, <1>7 DEF Promise!Process

-----------------------------------------------------------------------------
\* A poll ensures the group and reads from it.
LEMMA ReadStep ==
    ASSUME GroupIndInv, NEW c \in Consumers,
           \/ Group!EnsureGroup(c) \/ Group!EnsureGroupFails(c) \/ Group!ReadNoGroup(c)
           \/ Group!ReadGroup(c) \/ Group!ReadGroupFails(c)
    PROVE  GroupIndInv' /\ [Promise!Next]_Promise!vars
<1> USE GroupAssumption DEF Group!ConstantsOK, Group!Set, Group!Goto, Group!At
<1>1. CASE Group!EnsureGroup(c) \/ Group!EnsureGroupFails(c) \/ Group!ReadNoGroup(c)
  <2>1. UNCHANGED <<length, poison, lastDelivered, pending, idle, handled, batch, claimCursor,
                    ticked>>
    BY <1>1 DEF Group!EnsureGroup, Group!EnsureGroupFails, Group!ReadNoGroup, Group!stream,
                Group!redis
  <2>2. exists' \in BOOLEAN /\ (exists => exists')
    <3>1. exists' = TRUE \/ exists' = exists
      BY <1>1 DEF Group!EnsureGroup, Group!EnsureGroupFails, Group!ReadNoGroup, Group!redis
    <3>2. exists \in BOOLEAN BY DEF GroupIndInv, Group!TypeOK
    <3>3. CASE exists' = TRUE BY <3>3
    <3>4. CASE exists' = exists BY <3>2, <3>4
    <3> QED BY <3>1, <3>3, <3>4
  <2>3. groupReady' \in [Consumers -> BOOLEAN]
    <3>1. groupReady \in [Consumers -> BOOLEAN] BY DEF GroupIndInv, Group!TypeOK
    <3>2. \/ groupReady' = groupReady
          \/ \E b \in BOOLEAN : groupReady' = [groupReady EXCEPT ![c] = b]
      BY <1>1 DEF Group!EnsureGroup, Group!EnsureGroupFails, Group!ReadNoGroup
    <3> QED BY <3>1, <3>2
  <2>4. groupPC' \in [Consumers -> Group!PCs] /\ faults' \in 0 .. MaxFaults
    <3>1. groupPC \in [Consumers -> Group!PCs] /\ faults \in 0 .. MaxFaults
      BY DEF GroupIndInv, Group!TypeOK
    <3>2. groupPC' = groupPC \/ groupPC' = [groupPC EXCEPT ![c] = "backoff"]
      BY <1>1 DEF Group!EnsureGroup, Group!EnsureGroupFails, Group!ReadNoGroup
    <3>3. faults' = faults \/ (faults < MaxFaults /\ faults' = faults + 1)
      BY <1>1 DEF Group!EnsureGroup, Group!EnsureGroupFails, Group!ReadNoGroup, Group!Fault
    <3> QED BY <3>1, <3>2, <3>3 DEF Group!PCs
  <2>5. Group!TypeOK'
    <3>1. Group!TypeOK BY DEF GroupIndInv
    <3> QED BY <2>1, <2>2, <2>3, <2>4, <3>1 DEF Group!TypeOK
  <2> QED BY <2>1, <2>2, <2>5, QuietStep
<1>2. CASE Group!ReadGroup(c)
  <2>1. groupPC' \in [Consumers -> Group!PCs] /\ faults' \in 0 .. MaxFaults
    BY <1>2 DEF GroupIndInv, Group!TypeOK, Group!PCs, Group!ReadGroup
  <2>2. /\ exists /\ Group!XReadGroup
        /\ UNCHANGED <<length, poison, handled, groupReady, claimCursor, ticked>>
        /\ \/ UNCHANGED batch
           \/ /\ Group!Valid(Group!NewMessages)
              /\ batch' = [batch EXCEPT ![c] = Group!NewMessages]
    BY <1>2 DEF Group!ReadGroup, Group!stream
  <2> QED BY <2>1, <2>2, XReadGroupStep DEF Promise!Next
<1>3. CASE Group!ReadGroupFails(c)
  <2>1. /\ groupPC' \in [Consumers -> Group!PCs] /\ faults' \in 0 .. MaxFaults
        /\ UNCHANGED <<length, poison, handled, groupReady, claimCursor, ticked, batch>>
    BY <1>3 DEF GroupIndInv, Group!TypeOK, Group!PCs, Group!ReadGroupFails, Group!stream, Group!Fault
  <2>2. CASE UNCHANGED <<exists, lastDelivered, pending, idle>>
    <3>1. Group!TypeOK' BY <2>1, <2>2 DEF GroupIndInv, Group!TypeOK
    <3> QED BY <2>1, <2>2, <3>1, QuietStep
  <2>3. CASE exists /\ Group!XReadGroup
    BY <2>1, <2>3, XReadGroupStep DEF Promise!Next
  <2>4. (exists /\ Group!XReadGroup) \/ UNCHANGED Group!redis
    BY <1>3 DEF Group!ReadGroupFails
  <2> QED BY <2>2, <2>3, <2>4 DEF Group!redis
<1> QED BY <1>1, <1>2, <1>3

\* A handler returns, panics, or leaves a part of its batch for later.
LEMMA HandlerStep ==
    ASSUME GroupIndInv, NEW c \in Consumers,
           Group!HandlerReturns(c) \/ Group!HandlerPanics(c) \/ Group!HandlerSkips(c)
    PROVE  GroupIndInv' /\ [Promise!Next]_Promise!vars
<1> USE DEF Group!Set, Group!Goto, Group!At
<1>1. /\ groupPC' \in [Consumers -> Group!PCs] /\ faults' \in 0 .. MaxFaults
      /\ batch' = [batch EXCEPT ![c] = {}]
      /\ UNCHANGED <<length, poison, groupReady, claimCursor, ticked>>
  BY GroupAssumption
     DEF GroupIndInv, Group!TypeOK, Group!PCs, Group!HandlerReturns, Group!HandlerPanics,
         Group!HandlerSkips, Group!AfterHandler, Group!Fault, Group!stream, Group!ConstantsOK
<1>2. PICK A \in SUBSET batch[c] : Group!Ack(A)
  BY DEF Group!HandlerReturns, Group!HandlerPanics, Group!HandlerSkips
<1> QED BY <1>1, <1>2, AckStep DEF Promise!Next

\* A claim gives a consumer messages that are pending, and settles none.
LEMMA ClaimStep ==
    ASSUME GroupIndInv, NEW c \in Consumers,
           Group!NoClaim(c) \/ Group!ClaimStale(c) \/ Group!ClaimStaleFails(c)
    PROVE  GroupIndInv' /\ UNCHANGED Promise!vars
<1> USE GroupAssumption DEF Group!ConstantsOK, Group!Set, Group!Goto, Group!At
<1> DEFINE claimed == Group!Claimed(claimCursor[c])
<1>1. claimed \subseteq idle BY DEF Group!Claimed, Group!Claimable
<1>2. /\ pending \subseteq 1 .. length /\ pending \subseteq 1 .. MaxMessages
      /\ claimed \subseteq Published /\ claimed \subseteq Group!Ids
  <2>1. /\ idle \subseteq pending /\ pending \subseteq 1 .. lastDelivered
        /\ lastDelivered \in 0 .. length /\ length \in 0 .. MaxMessages
    BY DEF GroupIndInv, Group!TypeOK
  <2>2. pending \subseteq 1 .. length /\ pending \subseteq 1 .. MaxMessages BY <2>1
  <2> QED BY <1>1, <2>1, <2>2 DEF Published, Group!Ids
<1>3. Group!NextCursor(c) \in 0 .. MaxMessages
  <2> DEFINE rest == {m \in pending : \A n \in claimed : m > n}
             next == CHOOSE m \in rest : \A n \in rest : m <= n
  <2>1. rest \subseteq pending OBVIOUS
  <2>2. Group!NextCursor(c) = 0 \/ (rest # {} /\ Group!NextCursor(c) = next)
    BY DEF Group!NextCursor, Group!CursorAfter
  <2> HIDE DEF rest
  <2>3. pending \subseteq 0 .. MaxMessages /\ pending \subseteq Nat /\ 0 \in 0 .. MaxMessages
    BY <1>2
  <2>4. rest # {} => next \in rest BY <2>1, <2>3, LeastExists
  <2> HIDE DEF next
  <2> QED BY <2>1, <2>2, <2>3, <2>4
<1> HIDE DEF claimed
<1>4. /\ UNCHANGED <<length, poison, exists, lastDelivered, pending, handled, groupReady>>
      /\ groupPC' \in [Consumers -> Group!PCs] /\ faults' \in 0 .. MaxFaults
      /\ ticked' \in [Consumers -> BOOLEAN] /\ idle' \subseteq idle
      /\ claimCursor' \in [Consumers -> 0 .. MaxMessages]
      /\ \/ UNCHANGED batch
         \/ Group!Valid(claimed) /\ batch' = [batch EXCEPT ![c] = claimed]
  <2>1. CASE Group!NoClaim(c)
    BY <2>1 DEF GroupIndInv, Group!TypeOK, Group!PCs, Group!NoClaim, Group!stream, Group!redis
  <2>2. CASE Group!ClaimStale(c)
    BY <1>3, <2>2 DEF GroupIndInv, Group!TypeOK, Group!PCs, Group!ClaimStale, Group!stream, claimed
  <2>3. CASE Group!ClaimStaleFails(c)
    BY <2>3 DEF GroupIndInv, Group!TypeOK, Group!PCs, Group!ClaimStaleFails, Group!stream, Group!Fault
  <2> QED BY <2>1, <2>2, <2>3
<1>5. Group!TypeOK' BY <1>2, <1>4 DEF GroupIndInv, Group!TypeOK
<1>6. Group!HandlersSeeValid' /\ BatchesArePublished'
  BY <1>2, <1>4 DEF GroupIndInv, Group!TypeOK, Group!HandlersSeeValid, BatchesArePublished, Published,
                    Group!Valid
<1>7. GroupIndInv' BY <1>4, <1>5, <1>6 DEF GroupIndInv, DeliveredIsAccounted
<1>8. UNCHANGED Promise!vars BY <1>4 DEF Promise!vars, place, Place
<1> QED BY <1>7, <1>8

\* Processes start, crash and wait; tickers fire and entries age.
LEMMA ProcessStep ==
    ASSUME GroupIndInv,
           \/ \E m \in 1 .. MaxMessages : Group!Age(m)
           \/ \E c \in Consumers : \/ Group!Start(c) \/ Group!Crash(c)
                                   \/ Group!TickClaim(c) \/ Group!Backoff(c)
    PROVE  GroupIndInv' /\ UNCHANGED Promise!vars
<1> USE GroupAssumption DEF Group!ConstantsOK, Group!Set, Group!Goto, Group!At
<1> DEFINE MovesNothing ==
            /\ Group!TypeOK'
            /\ UNCHANGED <<length, poison, exists, lastDelivered, pending, handled>>
            /\ \A c \in Consumers : batch'[c] \in {batch[c], {}}
<1>1. MovesNothing
  <2>1. CASE \E m \in 1 .. MaxMessages : Group!Age(m)
    BY <2>1 DEF Group!Age, Group!stream, Group!consumer, GroupIndInv, Group!TypeOK
  <2>2. ASSUME NEW c \in Consumers,
               Group!Start(c) \/ Group!TickClaim(c) \/ Group!Backoff(c) \/ Group!Crash(c)
        PROVE  MovesNothing
    <3>1. /\ UNCHANGED <<length, poison, exists, lastDelivered, pending, idle, handled>>
          /\ batch' = batch \/ batch' = [batch EXCEPT ![c] = {}]
      BY <2>2 DEF Group!Start, Group!TickClaim, Group!Backoff, Group!Crash, Group!stream,
                  Group!redis
    <3>2. faults' \in 0 .. MaxFaults /\ groupPC' \in [Consumers -> Group!PCs]
      BY <2>2 DEF Group!Start, Group!TickClaim, Group!Backoff, Group!Crash, Group!Fault, GroupIndInv,
                  Group!TypeOK, Group!PCs
    <3>3. groupReady' \in [Consumers -> BOOLEAN] /\ ticked' \in [Consumers -> BOOLEAN]
      <4>1. groupReady \in [Consumers -> BOOLEAN] /\ ticked \in [Consumers -> BOOLEAN]
        BY DEF GroupIndInv, Group!TypeOK
      <4>2. /\ \/ groupReady' = groupReady
               \/ \E b \in BOOLEAN : groupReady' = [groupReady EXCEPT ![c] = b]
            /\ \/ ticked' = ticked
               \/ \E b \in BOOLEAN : ticked' = [ticked EXCEPT ![c] = b]
        BY <2>2 DEF Group!Start, Group!TickClaim, Group!Backoff, Group!Crash
      <4> QED BY <4>1, <4>2
    <3>4. claimCursor' \in [Consumers -> 0 .. MaxMessages]
      BY <2>2 DEF Group!Start, Group!TickClaim, Group!Backoff, Group!Crash, GroupIndInv, Group!TypeOK
    <3>5. batch' \in [Consumers -> SUBSET Group!Ids]
          /\ \A d \in Consumers : batch'[d] \in {batch[d], {}}
      BY <3>1 DEF GroupIndInv, Group!TypeOK
    <3>6. Group!TypeOK BY DEF GroupIndInv
    <3> QED BY <3>1, <3>2, <3>3, <3>4, <3>5, <3>6 DEF Group!TypeOK
  <2> QED BY <2>1, <2>2
<1> QED BY <1>1, QuietStep

-----------------------------------------------------------------------------
\* Every step of the group preserves the invariant, and is one that AtLeastOnce
\* allows, or none.
LEMMA GroupStep ==
    GroupIndInv /\ [Group!Next]_groupVars => GroupIndInv' /\ [Promise!Next]_Promise!vars
<1> SUFFICES ASSUME GroupIndInv, [Group!Next]_groupVars
             PROVE  GroupIndInv' /\ [Promise!Next]_Promise!vars
  OBVIOUS
<1>1. CASE UNCHANGED groupVars
  <2>1. Group!TypeOK' BY <1>1 DEF groupVars, GroupIndInv, Group!TypeOK
  <2> QED BY <1>1, <2>1, QuietStep DEF groupVars
<1>2. ASSUME NEW c \in Consumers, Group!Step(c)
      PROVE  GroupIndInv' /\ [Promise!Next]_Promise!vars
  BY <1>2, ReadStep, HandlerStep, ClaimStep, ProcessStep DEF Group!Step
<1>3. CASE Group!Next
  BY <1>2, <1>3, PublishStep, LoseGroupStep, ReadStep, HandlerStep, ProcessStep
     DEF Group!Next, Group!Ids, Promise!Next
<1> QED BY <1>1, <1>3

\* A behaviour of the loop leaves the group as it was.
LEMMA GroupInvariance ==
    FairConsumer => []GroupIndInv /\ Promise!Init /\ [][Promise!Next]_Promise!vars
<1>1. Start => GroupIndInv /\ Promise!Init BY GroupInit DEF Start
<1>2. [InLoop(Next) \/ InGroup(Group!Next)]_consumerVars => [Group!Next]_groupVars
  BY DEF InLoop, InGroup, consumerVars
<1>3. GroupIndInv /\ [InLoop(Next) \/ InGroup(Group!Next)]_consumerVars
        => GroupIndInv' /\ [Promise!Next]_Promise!vars
  BY <1>2, GroupStep
<1> QED BY <1>1, <1>3, PTL DEF FairConsumer

-----------------------------------------------------------------------------
\* Whatever fails, crashes or is lost, a message that was delivered and not handled is
\* pending, so that ClaimStale finds it, and handlers are given valid messages only
\* (contrib/stream/redis/stream.go, ReadGroup and ClaimStale).
THEOREM DeliveredStaysClaimable == FairConsumer => []GroupInv
<1>1. GroupIndInv => GroupInv
  BY DEF GroupIndInv, GroupInv, Group!Inv, Group!UnackedIsPending, DeliveredIsAccounted
<1> QED BY <1>1, GroupInvariance, PTL

\* A message is settled only by a handler that processed it, and nothing but the loss of
\* the group takes it back (contrib/stream/redis/consumer.go, RunGroupConsumer): every
\* step is one of AtLeastOnce, or none.  That is DeliversAtLeastOnce but for liveness.
THEOREM NothingSettledUnhandled ==
    FairConsumer => Promise!Init /\ [][Promise!Next]_Promise!vars
BY GroupInvariance, PTL

-----------------------------------------------------------------------------
\* The outage's bookkeeping agrees on whether there is an outage.
OutageConsistent ==
    /\ reported <=> attempts > 0
    /\ outageStarted = firstFailure
    /\ attempts = 0 <=> firstFailure = NoTime
    /\ firstFailure <= now
    /\ lastReport <= now

LoopIndInv ==
    /\ TypeOK
    /\ FailuresAccounted
    /\ WithheldIsEquivalent
    /\ OutageConsistent

USE BackoffAssumption, ReportAssumption, BoundAssumption DEF NoTime

-----------------------------------------------------------------------------
\* Every delay the loop sleeps is between 0 and maxBackoff.
LEMMA DelaysBounded == TypeOK => Delays \subseteq 0..MaxBackoff
BY DEF TypeOK, Delays

\* Doubling the backoff never leaves initialBackoff..maxBackoff.
LEMMA BackoffBounded == TypeOK => nextConsumerBackoff \in InitialBackoff..MaxBackoff
BY DEF TypeOK, nextConsumerBackoff

\* The loop starts outside any outage.
LEMMA LoopInit == Init => LoopIndInv
<1> SUFFICES ASSUME Init PROVE LoopIndInv
  OBVIOUS
<1>1. NoRecovery \in Recoveries
  BY DEF NoRecovery, Recoveries
<1>2. TypeOK
  <2>1. NoTime \in Nat \cup {NoTime} /\ NoError \in Errors \cup {NoError} /\ {} \subseteq Failures
    OBVIOUS
  <2>2. cancelled \in BOOLEAN /\ reported \in BOOLEAN
    BY DEF Init
  <2> QED
    BY <1>1, <2>1, <2>2 DEF Init, TypeOK
<1>3. FailuresAccounted /\ WithheldIsEquivalent
  BY DEF Init, FailuresAccounted, WithheldIsEquivalent
<1>4. OutageConsistent
  BY DEF Init, OutageConsistent
<1> QED
  BY <1>2, <1>3, <1>4 DEF LoopIndInv

\* A successful poll ends the outage and resets its bookkeeping.
LEMMA SucceedsStep == LoopIndInv /\ PollSucceeds => LoopIndInv'
<1> SUFFICES ASSUME LoopIndInv, PollSucceeds PROVE LoopIndInv'
  OBVIOUS
<1> USE DEF LoopIndInv, PollSucceeds
<1>1. recovery' \in Recoveries
  <2>1. CASE attempts > 0
    <3>1. outageStarted \in Nat /\ outageStarted <= now /\ firstFailure \in Nat
      BY <2>1 DEF TypeOK, OutageConsistent
    <3> QED
      BY <2>1, <3>1 DEF TypeOK, Recoveries
  <2>2. CASE ~(attempts > 0)
    BY <2>2 DEF TypeOK
  <2> QED
    BY <2>1, <2>2
<1>2. TypeOK'
  <2>1. cancelled' \in BOOLEAN /\ reported' \in BOOLEAN
    BY DEF TypeOK
  <2>2. withheld' \subseteq Failures /\ lastError' \in Errors \cup {NoError}
    OBVIOUS
  <2>3. backoff' \in InitialBackoff..MaxBackoff
    OBVIOUS
  <2> QED
    BY <1>1, <2>1, <2>2, <2>3 DEF TypeOK
<1>3. FailuresAccounted' /\ WithheldIsEquivalent'
  BY DEF FailuresAccounted, WithheldIsEquivalent
<1>4. OutageConsistent'
  BY DEF OutageConsistent, TypeOK
<1> QED
  BY <1>2, <1>3, <1>4

\* A failed poll is counted once, as reported or as withheld.
LEMMA FailsStep == ASSUME LoopIndInv, NEW e \in Errors, PollFails(e) PROVE LoopIndInv'
<1> USE DEF LoopIndInv, PollFails
<1>1. wake' \in Nat
  <2>1. PICK d \in Delays : wake' = now + d
    OBVIOUS
  <2> QED
    BY <2>1, DelaysBounded DEF TypeOK
<1>2. firstFailure' = outageStarted' /\ firstFailure' \in Nat /\ firstFailure' <= now
  BY DEF TypeOK, OutageConsistent
<1>3. CASE MustReport(e)
  <2>1. /\ reported' = TRUE /\ lastReport' = now /\ lastError' = e /\ sinceReport' = 0
        /\ reports' = reports + 1 /\ withheld' = {} /\ totalSuppressed' = totalSuppressed
    BY <1>3 DEF Report
  <2>2. TypeOK'
    BY <1>1, <1>2, <2>1 DEF TypeOK
  <2>3. FailuresAccounted' /\ WithheldIsEquivalent'
    BY <2>1 DEF FailuresAccounted, WithheldIsEquivalent, TypeOK
  <2>4. OutageConsistent'
    BY <1>2, <2>1 DEF OutageConsistent, TypeOK
  <2> QED
    BY <2>2, <2>3, <2>4
<1>4. CASE ~MustReport(e)
  <2>1. /\ sinceReport' = sinceReport + 1 /\ totalSuppressed' = totalSuppressed + 1
        /\ withheld' = withheld \cup {[err |-> e, at |-> now]}
        /\ reported' = reported /\ lastReport' = lastReport
        /\ lastError' = lastError /\ reports' = reports
    BY <1>4 DEF Report
  <2>2. reported /\ e = lastError /\ now - lastReport < ReportInterval
    BY <1>4 DEF MustReport, TypeOK
  <2>3. TypeOK'
    BY <1>1, <1>2, <2>1 DEF TypeOK, Failures
  <2>4. attempts > 0
    BY <2>2 DEF OutageConsistent
  <2>5. FailuresAccounted'
    <3>1. attempts' = reports' + totalSuppressed' /\ sinceReport' <= totalSuppressed'
      BY <2>1 DEF FailuresAccounted, TypeOK
    <3>2. reports' > 0
      BY <2>1, <2>4 DEF FailuresAccounted
    <3>3. [err |-> e, at |-> now] \in withheld'
      BY <2>1
    <3>4. withheld' # {}
      BY <3>3
    <3>5. sinceReport' # 0
      BY <2>1 DEF TypeOK
    <3> QED
      BY <3>1, <3>2, <3>4, <3>5 DEF FailuresAccounted
  <2>6. WithheldIsEquivalent'
    BY <2>1, <2>2 DEF WithheldIsEquivalent, TypeOK, OutageConsistent
  <2>7. reported' /\ attempts' > 0
    BY <2>1, <2>2, <2>4 DEF TypeOK
  <2>8. OutageConsistent'
    BY <1>2, <2>1, <2>4, <2>7 DEF OutageConsistent, TypeOK
  <2> QED
    BY <2>3, <2>5, <2>6, <2>8
<1> QED
  BY <1>3, <1>4

\* The remaining steps leave the outage alone.
LEMMA LoopQuietStep ==
  LoopIndInv /\ (BeginPoll \/ Leave \/ PollInterrupted \/ SleepEnds \/ SleepAborted \/ Cancel \/ Tick)
    => LoopIndInv'
<1> SUFFICES ASSUME LoopIndInv,
                    BeginPoll \/ Leave \/ PollInterrupted \/ SleepEnds \/ SleepAborted
                      \/ Cancel \/ Tick
             PROVE  LoopIndInv'
  OBVIOUS
<1> USE DEF LoopIndInv
<1>1. /\ UNCHANGED <<attempts, outageStarted, wake, reporting, history>>
      /\ now' \in Nat /\ now <= now'
      /\ pc' \in {"head", "polling", "sleeping", "done"}
      /\ cancelled' \in BOOLEAN
      /\ backoff' \in InitialBackoff..MaxBackoff
  <2> USE DEF TypeOK
  <2>1. CASE BeginPoll \/ Leave \/ PollInterrupted
    BY <2>1 DEF BeginPoll, Leave, PollInterrupted
  <2>2. CASE SleepEnds
    BY <2>2, BackoffBounded DEF SleepEnds
  <2>3. CASE SleepAborted
    BY <2>3 DEF SleepAborted
  <2>4. CASE Cancel
    BY <2>4 DEF Cancel
  <2>5. CASE Tick
    BY <2>5 DEF Tick
  <2> QED
    BY <2>1, <2>2, <2>3, <2>4, <2>5
<1>2. /\ UNCHANGED <<attempts, outageStarted, wake, totalSuppressed, sinceReport>>
      /\ UNCHANGED <<lastReport, lastError, reports, withheld, firstFailure, recovery>>
  BY <1>1 DEF reporting, history
<1>3. (reported' = reported) /\ (reported' \in BOOLEAN)
  BY <1>1 DEF reporting, TypeOK
<1>4. TypeOK'
  BY <1>1, <1>2, <1>3 DEF TypeOK
<1>5. FailuresAccounted' /\ WithheldIsEquivalent'
  BY <1>2 DEF FailuresAccounted, WithheldIsEquivalent
<1>6. reported' <=> attempts' > 0
  BY <1>2, <1>3 DEF OutageConsistent
<1>7. OutageConsistent'
  BY <1>1, <1>2, <1>6 DEF OutageConsistent, TypeOK
<1> QED
  BY <1>4, <1>5, <1>7

\* Every step of the loop preserves the inductive invariant.
LEMMA LoopStep == LoopIndInv /\ [Next]_vars => LoopIndInv'
<1> SUFFICES ASSUME LoopIndInv, [Next]_vars PROVE LoopIndInv'
  OBVIOUS
<1>1. CASE BeginPoll \/ Leave \/ PollInterrupted \/ SleepEnds \/ SleepAborted \/ Cancel \/ Tick
  BY <1>1, LoopQuietStep
<1>2. CASE PollSucceeds
  BY <1>2, SucceedsStep
<1>3. CASE \E e \in Errors : PollFails(e)
  BY <1>3, FailsStep
<1>4. CASE UNCHANGED vars
  BY <1>4 DEF vars, reporting, history, LoopIndInv, TypeOK, FailuresAccounted,
     WithheldIsEquivalent, OutageConsistent
<1> QED
  BY <1>1, <1>2, <1>3, <1>4 DEF Next, Returns

\* The inductive invariant holds in every reachable state.
LEMMA LoopInvariance == Spec => []LoopIndInv
BY LoopInit, LoopStep, PTL DEF Spec

-----------------------------------------------------------------------------
\* The loop's state keeps its types, in particular the backoff stays between
\* initialBackoff and maxBackoff; and runConsumerLoop loses no failure: each
\* one was reported or is counted in Suppressed, and no outage goes unreported.
THEOREM NoFailureLost == Spec => []LoopInv
BY LoopInvariance, PTL DEF LoopIndInv, LoopInv

\* Only repetitions of the failure last reported, within the interval, are
\* withheld from onFailure.
THEOREM OnlyRepetitionsWithheld == Spec => []WithheldIsEquivalent
BY LoopInvariance, PTL DEF LoopIndInv

\* What onRecovery is given describes the outage that just ended.
THEOREM RecoveryIsAccurate == Spec => RecoverySummarisesOutage
<1> DEFINE A == recovery' # recovery =>
                  /\ recovery'.attempts = recovery'.reports + recovery'.suppressed
                  /\ recovery'.lasted = now - recovery'.since
<1>1. LoopIndInv /\ [Next]_vars => [A]_vars
  <2> SUFFICES ASSUME LoopIndInv, Next, recovery' # recovery
               PROVE  /\ recovery'.attempts = recovery'.reports + recovery'.suppressed
                      /\ recovery'.lasted = now - recovery'.since
    OBVIOUS
  <2>1. PollSucceeds /\ attempts > 0
    BY DEF Next, Returns, PollSucceeds, PollFails, BeginPoll, Leave, PollInterrupted,
       SleepEnds, SleepAborted, Cancel, Tick, history
  <2>2. recovery' = [attempts |-> attempts, suppressed |-> totalSuppressed,
                     reports |-> reports, lasted |-> now - outageStarted,
                     since |-> firstFailure]
    BY <2>1 DEF PollSucceeds
  <2> QED
    BY <2>2 DEF LoopIndInv, FailuresAccounted, OutageConsistent
<1> QED
  BY <1>1, LoopInvariance, PTL DEF Spec, RecoverySummarisesOutage
=============================================================================
