---------------------------- MODULE MCAdmission ----------------------------
EXTENDS Admission, TLC

CONSTANTS p, q

\* GRPC!NoDeadline
NoDeadline == -1

\* A unary call with a caller's deadline and a stream without one, when only
\* the client has a default; and the other way round.
Kind(shape, given, listed) == [shape |-> shape, given |-> given, listed |-> listed]
MCScenarios ==
    {[policy |-> [client |-> 1, server |-> 0],
      profile |-> (p :> Kind("unary", 2, TRUE) @@ q :> Kind("stream", NoDeadline, FALSE))],
     [policy |-> [client |-> 0, server |-> 1],
      profile |-> (p :> Kind("stream", 2, FALSE) @@ q :> Kind("unary", NoDeadline, FALSE))]}
=============================================================================
