---------------------------- MODULE ConsumerLoop ----------------------------
(***************************************************************************)
(* runConsumerLoop of contrib/stream/redis/consumer.go: poll again and     *)
(* again, back off exponentially while polls fail, report an outage        *)
(* without repeating the same failure more often than reportInterval, and  *)
(* summarise the outage when polling recovers.                             *)
(*                                                                         *)
(* poll is a parameter here: it succeeds or fails with some error (module  *)
(* StreamGroup models what it does).  An error stands for the loop's       *)
(* errorKey, the operation and the error text.  Delays and the clock count *)
(* ticks.                                                                  *)
(***************************************************************************)
EXTENDS Integers, FiniteSets

CONSTANTS
    Errors,             \* errorKeys a poll can fail with
    InitialBackoff,     \* options.initialBackoff
    MaxBackoff,         \* options.maxBackoff, at least InitialBackoff
    ReportInterval,     \* options.reportInterval
    MaxTime,            \* bound on the clock
    MaxAttempts         \* bound on the failures of one outage

ASSUME BackoffAssumption ==
    /\ InitialBackoff \in Nat \ {0}
    /\ MaxBackoff \in Nat
    /\ MaxBackoff >= InitialBackoff
ASSUME ReportAssumption == ReportInterval \in Nat \ {0}
ASSUME BoundAssumption == MaxTime \in Nat /\ MaxAttempts \in Nat

VARIABLES
    pc,                 \* where the loop is: head, polling, sleeping, done
    cancelled,          \* ctx.Err() # nil
    now,                \* options.now()
    backoff,
    attempts,
    totalSuppressed,
    sinceReport,
    reported,
    lastReport,
    lastError,          \* NoError is the empty key
    outageStarted,      \* NoTime is the zero time
    wake,               \* when options.sleep returns
    reports,            \* history: onFailure calls of this outage
    withheld,           \* history: failures not reported since the last report
    firstFailure,       \* history: when this outage's first poll failed
    recovery            \* history: what onRecovery was last given

reporting == <<totalSuppressed, sinceReport, reported, lastReport, lastError>>
history == <<reports, withheld, firstFailure, recovery>>
vars == <<pc, cancelled, now, backoff, attempts, outageStarted, wake, reporting, history>>

NoTime == -1
NoError == "none"
NoRecovery == [attempts |-> 0, suppressed |-> 0, reports |-> 0, lasted |-> 0, since |-> 0]
Recoveries ==
    [attempts : Nat, suppressed : Nat, reports : Nat, lasted : Nat, since : Nat]
Failures == [err : Errors, at : Nat]

TypeOK ==
    /\ pc \in {"head", "polling", "sleeping", "done"}
    /\ cancelled \in BOOLEAN
    /\ now \in Nat
    /\ backoff \in InitialBackoff..MaxBackoff
    /\ attempts \in Nat
    /\ totalSuppressed \in Nat
    /\ sinceReport \in Nat
    /\ reported \in BOOLEAN
    /\ lastReport \in Nat
    /\ lastError \in Errors \cup {NoError}
    /\ outageStarted \in Nat \cup {NoTime}
    /\ wake \in Nat
    /\ reports \in Nat
    /\ withheld \subseteq Failures
    /\ firstFailure \in Nat \cup {NoTime}
    /\ recovery \in Recoveries

Init ==
    /\ pc = "head"
    /\ cancelled = FALSE
    /\ now = 0
    /\ backoff = InitialBackoff
    /\ attempts = 0
    /\ totalSuppressed = 0
    /\ sinceReport = 0
    /\ reported = FALSE
    /\ lastReport = 0
    /\ lastError = NoError
    /\ outageStarted = NoTime
    /\ wake = 0
    /\ reports = 0
    /\ withheld = {}
    /\ firstFailure = NoTime
    /\ recovery = NoRecovery

-----------------------------------------------------------------------------
\* for ctx.Err() == nil { poll(ctx) ... }
BeginPoll ==
    /\ pc = "head"
    /\ ~cancelled
    /\ pc' = "polling"
    /\ UNCHANGED <<cancelled, now, backoff, attempts, outageStarted, wake, reporting, history>>

\* return ctx.Err() at the loop head
Leave ==
    /\ pc = "head"
    /\ cancelled
    /\ pc' = "done"
    /\ UNCHANGED <<cancelled, now, backoff, attempts, outageStarted, wake, reporting, history>>

\* MUTANT: the recovery branch forgets the suppression total.
PollSucceedsKeepsTotal ==
    /\ pc = "polling"
    /\ recovery' = IF attempts > 0
                   THEN [attempts |-> attempts, suppressed |-> totalSuppressed,
                         reports |-> reports, lasted |-> now - outageStarted,
                         since |-> firstFailure]
                   ELSE recovery
    /\ backoff' = InitialBackoff
    /\ attempts' = 0
    /\ sinceReport' = 0
    /\ reported' = FALSE
    /\ lastError' = NoError
    /\ outageStarted' = NoTime
    /\ pc' = "head"
    /\ reports' = 0
    /\ withheld' = {}
    /\ firstFailure' = NoTime
    /\ UNCHANGED <<cancelled, now, lastReport, wake, totalSuppressed>>

\* MUTANT: the recovery branch keeps the start of the outage it summarised.
PollSucceedsKeepsStart ==
    /\ pc = "polling"
    /\ recovery' = IF attempts > 0
                   THEN [attempts |-> attempts, suppressed |-> totalSuppressed,
                         reports |-> reports, lasted |-> now - outageStarted,
                         since |-> firstFailure]
                   ELSE recovery
    /\ backoff' = InitialBackoff
    /\ attempts' = 0
    /\ totalSuppressed' = 0
    /\ sinceReport' = 0
    /\ reported' = FALSE
    /\ lastError' = NoError
    /\ pc' = "head"
    /\ reports' = 0
    /\ withheld' = {}
    /\ firstFailure' = NoTime
    /\ UNCHANGED <<cancelled, now, lastReport, wake, outageStarted>>

\* poll returned nil: onRecovery if there was an outage, then everything but
\* lastReport is reset.
PollSucceeds ==
    /\ pc = "polling"
    /\ recovery' = IF attempts > 0
                   THEN [attempts |-> attempts, suppressed |-> totalSuppressed,
                         reports |-> reports, lasted |-> now - outageStarted,
                         since |-> firstFailure]
                   ELSE recovery
    /\ backoff' = InitialBackoff
    /\ attempts' = 0
    /\ totalSuppressed' = 0
    /\ sinceReport' = 0
    /\ reported' = FALSE
    /\ lastError' = NoError
    /\ outageStarted' = NoTime
    /\ pc' = "head"
    /\ reports' = 0
    /\ withheld' = {}
    /\ firstFailure' = NoTime
    /\ UNCHANGED <<cancelled, now, lastReport, wake>>

\* poll returned an error, but because ctx ended: nothing is reported.
PollInterrupted ==
    /\ pc = "polling"
    /\ cancelled
    /\ pc' = "done"
    /\ UNCHANGED <<cancelled, now, backoff, attempts, outageStarted, wake, reporting, history>>

\* options.jitter(backoff), clamped to 0..maxBackoff.  normalizeGroupConsumer
\* keeps JitterFraction at most 1; this is that widest spread, and a smaller
\* fraction only has fewer delays.
Delays == {IF d > MaxBackoff THEN MaxBackoff ELSE d : d \in 0..(2 * backoff)}

\* MUTANT: only the age of the last report decides, not which failure it was.
MustReportByAge(e) == ~reported \/ now - lastReport >= ReportInterval

MustReport(e) ==
    \/ ~reported
    \/ e # lastError
    \/ now - lastReport >= ReportInterval

\* onFailure, or one more failure withheld.
Report(e) ==
    \/ /\ MustReport(e)
       /\ reported' = TRUE
       /\ lastReport' = now
       /\ lastError' = e
       /\ sinceReport' = 0
       /\ reports' = reports + 1
       /\ withheld' = {}
       /\ UNCHANGED totalSuppressed
    \/ /\ ~MustReport(e)
       /\ sinceReport' = sinceReport + 1
       /\ totalSuppressed' = totalSuppressed + 1
       /\ withheld' = withheld \cup {[err |-> e, at |-> now]}
       /\ UNCHANGED <<reported, lastReport, lastError, reports>>

\* poll failed while ctx is live: count, report or withhold, go to sleep.
PollFails(e) ==
    /\ pc = "polling"
    /\ ~cancelled
    /\ attempts < MaxAttempts
    /\ attempts' = attempts + 1
    /\ outageStarted' = IF outageStarted = NoTime THEN now ELSE outageStarted
    /\ firstFailure' = IF attempts = 0 THEN now ELSE firstFailure
    /\ \E d \in Delays : wake' = now + d
    /\ Report(e)
    /\ pc' = "sleeping"
    /\ UNCHANGED <<cancelled, now, backoff, recovery>>

nextConsumerBackoff ==
    IF backoff >= MaxBackoff \/ backoff > MaxBackoff \div 2 THEN MaxBackoff ELSE backoff * 2

\* sleepConsumerContext's timer fired
SleepEnds ==
    /\ pc = "sleeping"
    /\ now >= wake
    /\ backoff' = nextConsumerBackoff
    /\ pc' = "head"
    /\ UNCHANGED <<cancelled, now, attempts, outageStarted, wake, reporting, history>>

\* MUTANT: the sleep does not listen to ctx.
SleepAbortedNever ==
    /\ FALSE
    /\ UNCHANGED vars

\* sleepConsumerContext saw ctx.Done()
SleepAborted ==
    /\ pc = "sleeping"
    /\ cancelled
    /\ pc' = "done"
    /\ UNCHANGED <<cancelled, now, backoff, attempts, outageStarted, wake, reporting, history>>

\* The owner of ctx cancels it.
Cancel ==
    /\ ~cancelled
    /\ cancelled' = TRUE
    /\ UNCHANGED <<pc, now, backoff, attempts, outageStarted, wake, reporting, history>>

Tick ==
    /\ now < MaxTime
    /\ now' = now + 1
    /\ UNCHANGED <<pc, cancelled, backoff, attempts, outageStarted, wake, reporting, history>>

Returns == PollSucceeds \/ PollInterrupted \/ \E e \in Errors : PollFails(e)

Next ==
    \/ BeginPoll
    \/ Leave
    \/ Returns
    \/ SleepEnds
    \/ SleepAborted
    \/ Cancel
    \/ Tick

Spec == Init /\ [][Next]_vars

\* The loop's own statements run, and a poll returns once ctx ended: every
\* Redis command is given ctx.
Ending == BeginPoll \/ Leave \/ (cancelled /\ Returns) \/ SleepAborted
FairSpec == Spec /\ WF_vars(Ending)

-----------------------------------------------------------------------------
\* Every failure of an outage is accounted for: it was reported or counted as
\* suppressed, an outage is never silent, and sinceReport counts no failure
\* that totalSuppressed does not.
FailuresAccounted ==
    /\ attempts = reports + totalSuppressed
    /\ sinceReport <= totalSuppressed
    /\ attempts > 0 => reports > 0
    /\ (withheld = {}) <=> (sinceReport = 0)

\* The loop is well typed, its backoff within bounds, and no failure is lost.
LoopInv == TypeOK /\ FailuresAccounted

\* A failure is withheld only if the very same failure was reported less than
\* ReportInterval before it, with no other failure in between.
WithheldIsEquivalent ==
    \A f \in withheld :
        /\ f.err = lastError
        /\ lastReport <= f.at
        /\ f.at - lastReport < ReportInterval

\* PollRecovery describes exactly the outage that ended: all of its failures,
\* and the time since its first one, not since an earlier outage's.
RecoverySummarisesOutage ==
    [][recovery' # recovery =>
           /\ recovery'.attempts = recovery'.reports + recovery'.suppressed
           /\ recovery'.lasted = now - recovery'.since]_vars

\* A cancelled context ends the loop, wherever it is.
StopsOnCancel == cancelled ~> (pc = "done")
=============================================================================
