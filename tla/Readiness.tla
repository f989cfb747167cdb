----------------------------- MODULE Readiness -----------------------------
(***************************************************************************)
(* App.readinessOK and the checks behind /ready (boot/app.go): a verdict   *)
(* cached for a while, evaluations serialised by readinessEvalMu, one      *)
(* goroutine per check with a results channel of its own evaluation, and   *)
(* the counter readinessInFlight that keeps a check that ignores its       *)
(* context from being started again.                                       *)
(*                                                                         *)
(* A prober is a goroutine that serves /ready requests, one after another. *)
(* The two-second timeout of an evaluation may fire at any moment of it;   *)
(* the clock only measures the age of the cached verdict.                  *)
(***************************************************************************)
EXTENDS Integers, FiniteSets

CONSTANTS
    Probers,
    Checks,         \* readiness checks that can be registered
    TTLs,           \* values SetReadinessCacheTTL is called with
    DefaultTTL,     \* two seconds, used for a TTL of 0
    MaxTime,        \* bound on the clock
    MaxEvals,       \* names for evaluations, reused; with the counter one is enough
    None

ASSUME TTLAssumption == TTLs \subseteq Int /\ DefaultTTL \in Nat \ {0}
ASSUME BoundAssumption == MaxTime \in Nat /\ MaxEvals \in Nat
ASSUME ChecksAssumption == IsFiniteSet(Checks)
ASSUME NoneAssumption == None \notin Probers

VARIABLES
    now,
    ttl,            \* a.readinessCacheTTL
    cachedAt,       \* a.readinessCachedAt, NoTime is the zero time
    cachedOK,       \* a.readinessCachedOK
    evalMu,         \* holder of a.readinessEvalMu, or None
    checks,         \* registered: a.readinessChecks
    inFlight,       \* a.readinessInFlight
    running,        \* check goroutines inside their check
    sent,           \* check goroutines that sent, with Add(-1) still to run
    pc,             \* per prober: its place in readinessOK
    call,           \* per prober: its local variables
    cachedFrom      \* history: what the cached verdict was computed from

cache == <<ttl, cachedAt, cachedOK, cachedFrom>>
routines == <<inFlight, running, sent>>
probers == <<pc, call>>
vars == <<now, cache, evalMu, checks, routines, probers>>

NoTime == -1
Effective(t) == IF t = 0 THEN DefaultTTL ELSE t

\* One goroutine: its check and the evaluation whose results channel it has.
Goroutines == [check : Checks, eval : 1..MaxEvals]
Results == [check : Checks, nil : BOOLEAN]
Calls == [began : Nat, ttl : TTLs \cup {DefaultTTL}, eval : 0..MaxEvals, asked : SUBSET Checks,
          chan : SUBSET Results, passed : SUBSET Checks, remaining : 0..Cardinality(Checks),
          ok : BOOLEAN]
NoCall == [began |-> 0, ttl |-> DefaultTTL, eval |-> 0, asked |-> {}, chan |-> {}, passed |-> {},
           remaining |-> 0, ok |-> TRUE]
NoVerdict == [asked |-> {}, passed |-> {}]

TypeOK ==
    /\ now \in 0..MaxTime
    /\ ttl \in TTLs
    /\ cachedAt \in Nat \cup {NoTime}
    /\ cachedOK \in BOOLEAN
    /\ evalMu \in Probers \cup {None}
    /\ checks \subseteq Checks
    /\ inFlight \in Nat
    /\ running \subseteq Goroutines
    /\ sent \subseteq Goroutines
    /\ pc \in [Probers -> {"idle", "lookup", "lock", "launch", "collect", "store"}]
    /\ call \in [Probers -> Calls]
    /\ cachedFrom \in [asked : SUBSET Checks, passed : SUBSET Checks]

Init ==
    /\ now = 0
    /\ ttl \in TTLs
    /\ cachedAt = NoTime
    /\ cachedOK = FALSE
    /\ evalMu = None
    /\ checks = {}
    /\ inFlight = 0
    /\ running = {}
    /\ sent = {}
    /\ pc = [p \in Probers |-> "idle"]
    /\ call = [p \in Probers |-> NoCall]
    /\ cachedFrom = NoVerdict

Goto(p, l) == pc' = [pc EXCEPT ![p] = l]
Answer(p) ==
    /\ call' = [call EXCEPT ![p] = NoCall]
    /\ Goto(p, "idle")

-----------------------------------------------------------------------------
\* AddReadinessCheck, or AddComponent for a ReadyAware component.
AddReadinessCheck(k) ==
    /\ k \notin checks
    /\ checks' = checks \cup {k}
    /\ UNCHANGED <<now, cache, evalMu, routines, probers>>

\* A new TTL drops the cached verdict.
SetReadinessCacheTTL(t) ==
    /\ t # ttl
    /\ ttl' = t
    /\ cachedAt' = NoTime
    /\ UNCHANGED <<now, cachedOK, cachedFrom, evalMu, checks, routines, probers>>

\* now := time.Now()
Begin(p) ==
    /\ pc[p] = "idle"
    /\ call' = [call EXCEPT ![p] = [NoCall EXCEPT !.began = now]]
    /\ Goto(p, "lookup")
    /\ UNCHANGED <<now, cache, evalMu, checks, routines>>

Fresh(t, at) == t > 0 /\ cachedAt # NoTime /\ at - cachedAt < t

\* The cached verdict, if it is young enough; otherwise wait for evalMu.
Lookup(p) ==
    /\ pc[p] = "lookup"
    /\ \/ /\ Fresh(Effective(ttl), call[p].began)
          /\ Answer(p)
       \/ /\ ~Fresh(Effective(ttl), call[p].began)
          /\ call' = [call EXCEPT ![p].ttl = Effective(ttl)]
          /\ Goto(p, "lock")
    /\ UNCHANGED <<now, cache, evalMu, checks, routines>>

\* readinessEvalMu.Lock() and the second look at the cache.
Lock(p) ==
    /\ pc[p] = "lock"
    /\ evalMu = None
    /\ \/ /\ Fresh(call[p].ttl, now)
          /\ Answer(p)
          /\ UNCHANGED evalMu
       \/ /\ ~Fresh(call[p].ttl, now)
          /\ evalMu' = p
          /\ Goto(p, "launch")
          /\ UNCHANGED call
    /\ UNCHANGED <<now, cache, checks, routines>>

\* storeReadinessCache(ok), with what the verdict rests on.
storeReadinessCache(p) ==
    /\ cachedAt' = now
    /\ cachedOK' = call[p].ok
    /\ cachedFrom' = [asked |-> call[p].asked, passed |-> call[p].passed]
    /\ UNCHANGED ttl

\* MUTANT: no look at readinessInFlight.
MayLaunchAlways == TRUE

\* readinessInFlight.Load() > 0 refuses the evaluation.
MayLaunch == inFlight = 0

\* readinessInFlight after one Add(1) per check.
Counted == inFlight + Cardinality(checks)

\* No checks: ready.  A goroutine still in flight: not ready.  Otherwise one
\* goroutine per check.
Launch(p) ==
    /\ pc[p] = "launch"
    /\ \/ /\ checks = {}
          /\ storeReadinessCache(p)
          /\ Answer(p)
          /\ evalMu' = None
          /\ UNCHANGED routines
       \/ /\ checks # {} /\ ~MayLaunch
          /\ Answer(p)
          /\ evalMu' = None
          /\ UNCHANGED <<cache, routines>>
       \/ /\ checks # {} /\ MayLaunch
          /\ \E e \in 1..MaxEvals :
                /\ \A g \in running \cup sent : g.eval # e
                /\ \A f \in 1..(e - 1) : \E g \in running \cup sent : g.eval = f
                /\ call' = [call EXCEPT ![p].eval = e, ![p].asked = checks,
                                        ![p].remaining = Cardinality(checks)]
                /\ running' = running \cup {[check |-> k, eval |-> e] : k \in checks}
          /\ inFlight' = Counted
          /\ Goto(p, "collect")
          /\ UNCHANGED <<cache, evalMu, sent>>
    /\ UNCHANGED <<now, checks>>

-----------------------------------------------------------------------------
\* runReadinessCheck returns nil or an error (a dependency that is down, a
\* context that ended, a panic) and its goroutine sends that to its own
\* evaluation's channel, which nobody may be reading any more.
CheckReturns(g) ==
    /\ g \in running
    /\ \E nil \in BOOLEAN :
          call' = [p \in Probers |->
                     IF pc[p] = "collect" /\ call[p].eval = g.eval
                     THEN [call[p] EXCEPT !.chan = @ \cup {[check |-> g.check, nil |-> nil]}]
                     ELSE call[p]]
    /\ running' = running \ {g}
    /\ sent' = sent \cup {g}
    /\ UNCHANGED <<now, cache, evalMu, checks, inFlight, pc>>

\* The goroutine's deferred readinessInFlight.Add(-1).
CheckEnds(g) ==
    /\ g \in sent
    /\ sent' = sent \ {g}
    /\ inFlight' = inFlight - 1
    /\ UNCHANGED <<now, cache, evalMu, checks, running, probers>>

\* MUTANT: an error does not lower ok.
CollectOptimistic(p) ==
    /\ pc[p] = "collect"
    /\ \E r \in call[p].chan :
          /\ call' = [call EXCEPT ![p].chan = @ \ {r}, ![p].remaining = @ - 1,
                                  ![p].passed = IF r.nil THEN @ \cup {r.check} ELSE @]
          /\ Goto(p, IF call[p].remaining = 1 THEN "store" ELSE "collect")
    /\ UNCHANGED <<now, cache, evalMu, checks, routines>>

\* err := <-results; an error cancels the evaluation's context.
Collect(p) ==
    /\ pc[p] = "collect"
    /\ \E r \in call[p].chan :
          /\ call' = [call EXCEPT ![p].chan = @ \ {r},
                                  ![p].remaining = @ - 1,
                                  ![p].passed = IF r.nil THEN @ \cup {r.check} ELSE @,
                                  ![p].ok = @ /\ r.nil]
          /\ Goto(p, IF call[p].remaining = 1 THEN "store" ELSE "collect")
    /\ UNCHANGED <<now, cache, evalMu, checks, routines>>

\* MUTANT: the evaluation waits for every result.
CollectAbortedNever(p) ==
    /\ FALSE
    /\ UNCHANGED vars

\* <-ctx.Done(), by the timeout or after an error: not ready, nothing cached.
CollectAborted(p) ==
    /\ pc[p] = "collect"
    /\ Answer(p)
    /\ evalMu' = None
    /\ UNCHANGED <<now, cache, checks, routines>>

Store(p) ==
    /\ pc[p] = "store"
    /\ storeReadinessCache(p)
    /\ Answer(p)
    /\ evalMu' = None
    /\ UNCHANGED <<now, checks, routines>>

Tick ==
    /\ now < MaxTime
    /\ now' = now + 1
    /\ UNCHANGED <<cache, evalMu, checks, routines, probers>>

-----------------------------------------------------------------------------
Probe(p) ==
    \/ Lookup(p) \/ Lock(p) \/ Launch(p)
    \/ Collect(p) \/ CollectAborted(p) \/ Store(p)

Next ==
    \/ \E k \in Checks : AddReadinessCheck(k)
    \/ \E t \in TTLs : SetReadinessCacheTTL(t)
    \/ \E p \in Probers : Begin(p) \/ Probe(p)
    \/ \E g \in Goroutines : CheckReturns(g) \/ CheckEnds(g)
    \/ Tick

Spec == Init /\ [][Next]_vars

\* Goroutines of readinessOK run, its lock is granted to every waiter (Go
\* mutexes do not starve), and its context ends.  No check is assumed ever to
\* return.
FairSpec ==
    /\ Spec
    /\ \A p \in Probers :
          /\ WF_vars(Lookup(p)) /\ SF_vars(Lock(p)) /\ WF_vars(Launch(p))
          /\ WF_vars(Collect(p) \/ CollectAborted(p)) /\ WF_vars(CollectAborted(p))
          /\ WF_vars(Store(p))

-----------------------------------------------------------------------------
\* However many probes arrive and however long checks hang, at most one copy
\* of each check is in flight: probes do not pile up goroutines.
SingleCopy ==
    \A g, h \in running \cup sent : g.check = h.check => g = h

\* The counter is exact: a leaked count would refuse every later evaluation.
CounterExact == inFlight = Cardinality(running) + Cardinality(sent)

\* The goroutines of checks are bounded and counted.
Inv == TypeOK /\ SingleCopy /\ CounterExact

\* A cached "ready" rests on one evaluation in which every check asked then
\* returned nil, never on a mixture of evaluations or on a late result.
ReadyIsEarned ==
    cachedAt # NoTime /\ cachedOK => cachedFrom.asked \subseteq cachedFrom.passed

\* Every probe is answered, even if a check ignores its context for ever.
ProbesAnswered == \A p \in Probers : pc[p] = "lookup" ~> pc[p] = "idle"
=============================================================================
