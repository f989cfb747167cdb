------------------------------- MODULE Client -------------------------------
(***************************************************************************)
(* clientx: the circuit breaker, which all callers of a service share      *)
(* (module Breaker), and HTTPClient.Do, which asks it once for a whole     *)
(* sequence of attempts (HTTPClient).  To Do the breaker only says yes or  *)
(* no, and to the breaker Do is a call with an outcome; each is checked    *)
(* for every such answer, so a behaviour is one of either.                 *)
(***************************************************************************)
EXTENDS Breaker

CONSTANTS
    RawAttempts, RawBackoffs, DefaultInitial, DefaultMax, InitialCap, MaxCap, Timeout,
    RawBudgets, BodyLimit, BodySizes

VARIABLES
    part,           \* "breaker" or "http"
    \* Do
    req, retry, pc, clock, cancelled, budgetEnd, attemptEnd, wake, attempt, backoff, buffered,
    streamed, sent, open, ended, result, err, remaining, unread, got, bodyErr

sharedVars == vars
httpVars == <<req, retry, pc, clock, cancelled, budgetEnd, attemptEnd, wake, attempt, backoff,
              buffered, streamed, sent, open, ended, result, err, remaining, unread, got,
              bodyErr>>
clientVars == <<part, sharedVars, httpVars>>

HTTP == INSTANCE HTTPClient WITH now <- clock

ASSUME HTTPAssumption == HTTP!ConstantsOK

\* What is not the part under way stays in a fixed state.
Start ==
    /\ part \in {"breaker", "http"}
    /\ Init /\ HTTP!Init
    /\ part # "http" =>
         /\ req = CHOOSE r \in HTTP!Requests : TRUE
         /\ retry = HTTP!Normalize(CHOOSE n \in RawAttempts : TRUE, 0, 0,
                                   CHOOSE b \in RawBudgets : TRUE)

InBreaker(A) == part = "breaker" /\ A /\ UNCHANGED <<part, httpVars>>
InHTTP(A) == part = "http" /\ A /\ UNCHANGED <<part, sharedVars>>

\* The fairness of each module, for the part under way.
FairClient ==
    /\ Start /\ [][InBreaker(Next) \/ InHTTP(HTTP!Next)]_clientVars
    /\ WF_sharedVars(part = "breaker" /\ Tick)
    /\ WF_sharedVars(part = "breaker" /\ \E c \in Callers : Admit(c))
    /\ \A c \in Callers :
        WF_sharedVars(part = "breaker" /\ \E out \in Outcomes : Return(c, out))
    /\ WF_httpVars(part = "http" /\ HTTP!Local)
    /\ WF_httpVars(part = "http" /\ HTTP!Tick)

-----------------------------------------------------------------------------
\* Do sends what it may, and its caller reads what there is.
HTTPInv == HTTP!Inv

\* No response body is left open.
NoBodyLeaks == HTTP!NoBodyLeaks

\* Attempts and back-off stay within the retry budget.
WithinBudget == HTTP!WithinBudget

\* Do returns, whatever the server does.
DoReturns == part = "http" ~> pc = "returned"
=============================================================================
