--------------------------- MODULE StreamConsumer ---------------------------
(***************************************************************************)
(* The Redis stream consumer: the loop of RunGroupConsumer, which paces    *)
(* and reports polls (module ConsumerLoop), and what polls do to the group *)
(* (StreamGroup).  All they tell each other is whether a poll failed, and  *)
(* each is checked for every such answer of the other, so a behaviour is   *)
(* one of the loop or one of the group.                                    *)
(***************************************************************************)
EXTENDS ConsumerLoop

CONSTANTS Consumers, MaxMessages, Count, MaxFaults

VARIABLES
    part,           \* "loop" or "group"
    \* the group
    length, poison, exists, lastDelivered, pending, idle, groupPC, groupReady, claimCursor,
    ticked, batch, handled, faults

loopVars == vars
groupVars == <<length, poison, exists, lastDelivered, pending, idle, groupPC, groupReady,
               claimCursor, ticked, batch, handled, faults>>
consumerVars == <<part, loopVars, groupVars>>

Group == INSTANCE StreamGroup WITH pc <- groupPC

ASSUME GroupAssumption == Group!ConstantsOK

Start == part \in {"loop", "group"} /\ Init /\ Group!Init

InLoop(A) == part = "loop" /\ A /\ UNCHANGED <<part, groupVars>>
InGroup(A) == part = "group" /\ A /\ UNCHANGED <<part, loopVars>>

\* The fairness of each module, for the part that runs.
FairConsumer ==
    /\ Start /\ [][InLoop(Next) \/ InGroup(Group!Next)]_consumerVars
    /\ WF_loopVars(part = "loop" /\ Ending)
    /\ WF_groupVars(part = "group" /\ \E m \in 1..MaxMessages : Group!Age(m))
    /\ \A c \in Consumers :
        /\ WF_groupVars(part = "group" /\ Group!TickClaim(c))
        /\ WF_groupVars(part = "group" /\ Group!Running(c))

-----------------------------------------------------------------------------
\* What is delivered and not handled can be claimed again, and no handler is
\* given what the kit would not have published.
GroupInv == Group!Inv

\* At-least-once delivery, to its end.
DeliversAtLeastOnce == Group!DeliversAtLeastOnce
=============================================================================
