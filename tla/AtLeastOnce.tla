---------------------------- MODULE AtLeastOnce ----------------------------
(***************************************************************************)
(* What a consumer group promises of a stream: a message is handed out     *)
(* before it is settled, is settled only once a handler has processed it,  *)
(* and is not taken back one by one: only a lost group makes everything    *)
(* wait again.  Each message that no handler would refuse is processed in  *)
(* the end.  StreamGroup implements it.                                    *)
(***************************************************************************)
EXTENDS Naturals

CONSTANT Messages       \* positions in the stream, 1 .. some number

VARIABLES
    place,          \* per message: where it is
    processed,      \* messages a handler has processed
    refused         \* messages that are never given to a handler

vars == <<place, processed, refused>>

Places == {"unpublished", "waiting", "handedOut", "settled"}
At(p) == {m \in Messages : place[m] = p}
Moved(S, p) == [m \in Messages |-> IF m \in S THEN p ELSE place[m]]

Init ==
    /\ place = [m \in Messages |-> "unpublished"]
    /\ processed = {} /\ refused = {}

\* The next message of the stream.
Publish ==
    \E m \in At("unpublished") :
        /\ \A n \in At("unpublished") : m <= n
        /\ place' = Moved({m}, "waiting")
        /\ refused' \in {refused, refused \cup {m}}
        /\ UNCHANGED processed

HandOut ==
    \E S \in SUBSET At("waiting") :
        place' = Moved(S, "handedOut") /\ UNCHANGED <<processed, refused>>

\* Handlers have processed S, and what of it is handed out is settled.
Process ==
    \E S \in SUBSET (Messages \ (At("unpublished") \cup refused)) :
        /\ processed' = processed \cup S
        /\ place' = Moved(S \cap At("handedOut"), "settled")
        /\ UNCHANGED refused

\* The group is lost.
StartAgain ==
    /\ place' = Moved(At("handedOut") \cup At("settled"), "waiting")
    /\ UNCHANGED <<processed, refused>>

Next == Publish \/ HandOut \/ Process \/ StartAgain

\* A refused message may keep those behind it waiting.
Delivers == \A m \in Messages : (place[m] # "unpublished") ~> (m \in processed \/ refused # {})

Spec == Init /\ [][Next]_vars /\ Delivers
=============================================================================
