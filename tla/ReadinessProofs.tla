-------------------------- MODULE ReadinessProofs --------------------------
(***************************************************************************)
(* Theorems about Readiness: no check is in flight twice, the counter is   *)
(* exact, and a cached "ready" was earned by one evaluation.               *)
(*                                                                         *)
(* An evaluation ends when it has counted its results, not when it knows   *)
(* them; Collecting says what the count stands for: the results not yet    *)
(* read and the goroutines still running, all of its own evaluation.       *)
(***************************************************************************)
EXTENDS Readiness, TLAPS, FiniteSetTheorems

Evaluating == {"launch", "collect", "store"}

\* The holder of readinessEvalMu is the only prober inside an evaluation.
OneEvaluation == \A p \in Probers : pc[p] \in Evaluating => evalMu = p

\* Until it has started its goroutines a probe has asked nothing.
NothingAsked(p) == call[p].asked = {} /\ call[p].chan = {}

Names(S) == {x.check : x \in S}

\* While p collects, the goroutines that run are those of its evaluation.
Collecting(p) ==
    LET c == call[p]
    IN  /\ \A g \in running : g.eval = c.eval
        /\ Names(c.chan) \cap Names(running) = {}
        /\ c.remaining = Cardinality(c.chan) + Cardinality(running)
        /\ c.ok => c.asked \subseteq c.passed \cup Names(c.chan) \cup Names(running)

Evaluations ==
    \A p \in Probers :
        /\ pc[p] \in {"lookup", "lock", "launch"} => NothingAsked(p)
        /\ pc[p] = "collect" => Collecting(p)
        /\ pc[p] = "store" => (call[p].ok => call[p].asked \subseteq call[p].passed)

IndInv ==
    /\ TypeOK /\ SingleCopy /\ CounterExact /\ ReadyIsEarned
    /\ running \cap sent = {}
    /\ OneEvaluation /\ Evaluations

-----------------------------------------------------------------------------
\* There are finitely many goroutines and results.
LEMMA Finite ==
    /\ IsFiniteSet(Goroutines) /\ IsFiniteSet(Results)
    /\ \A S \in SUBSET Goroutines : IsFiniteSet(S) /\ Cardinality(S) \in Nat
    /\ \A S \in SUBSET Results : IsFiniteSet(S) /\ Cardinality(S) \in Nat
    /\ \A S \in SUBSET Checks : IsFiniteSet(S) /\ Cardinality(S) \in 0 .. Cardinality(Checks)
<1> USE ChecksAssumption, BoundAssumption
<1>1. IsFiniteSet(Goroutines)
  <2>0. IsFiniteSet(1 .. MaxEvals) BY FS_Interval
  <2>1. IsFiniteSet(Checks \X (1 .. MaxEvals)) BY <2>0, FS_Product
  <2> DEFINE f == [x \in Checks \X (1 .. MaxEvals) |-> [check |-> x[1], eval |-> x[2]]]
  <2>2. f \in Surjection(Checks \X (1 .. MaxEvals), Goroutines)
    <3>1. f \in [Checks \X (1 .. MaxEvals) -> Goroutines] BY DEF Goroutines
    <3>2. ASSUME NEW g \in Goroutines
          PROVE  \E x \in Checks \X (1 .. MaxEvals) : f[x] = g
      <4>1. <<g.check, g.eval>> \in Checks \X (1 .. MaxEvals) BY DEF Goroutines
      <4>2. f[<<g.check, g.eval>>] = g BY <4>1 DEF Goroutines
      <4> QED BY <4>1, <4>2
    <3> QED BY <3>1, <3>2 DEF Surjection
  <2> QED BY <2>1, <2>2, FS_Surjection
<1>2. IsFiniteSet(Results)
  <2>0. IsFiniteSet(BOOLEAN)
    <3>1. IsFiniteSet({}) /\ IsFiniteSet({TRUE}) /\ IsFiniteSet({TRUE} \cup {FALSE})
      BY FS_EmptySet, FS_AddElement, FS_Singleton
    <3>2. {TRUE} \cup {FALSE} = BOOLEAN OBVIOUS
    <3> QED BY <3>1, <3>2
  <2>1. IsFiniteSet(Checks \X BOOLEAN) BY <2>0, FS_Product
  <2> DEFINE f == [x \in Checks \X BOOLEAN |-> [check |-> x[1], nil |-> x[2]]]
  <2>2. f \in Surjection(Checks \X BOOLEAN, Results)
    <3>1. f \in [Checks \X BOOLEAN -> Results] BY DEF Results
    <3>2. ASSUME NEW g \in Results
          PROVE  \E x \in Checks \X BOOLEAN : f[x] = g
      <4>1. <<g.check, g.nil>> \in Checks \X BOOLEAN BY DEF Results
      <4>2. f[<<g.check, g.nil>>] = g BY <4>1 DEF Results
      <4> QED BY <4>1, <4>2
    <3> QED BY <3>1, <3>2 DEF Surjection
  <2> QED BY <2>1, <2>2, FS_Surjection
<1> QED BY <1>1, <1>2, FS_Subset, FS_CardinalityType

-----------------------------------------------------------------------------
\* Nothing runs and nothing is cached before the first probe.
LEMMA IndInit == Init => IndInv
<1> SUFFICES ASSUME Init PROVE IndInv OBVIOUS
<1> USE DEF Init
<1>1. NoCall \in Calls
  BY Finite, TTLAssumption, BoundAssumption, FS_CardinalityType, ChecksAssumption
     DEF NoCall, Calls
<1>2. NoVerdict \in [asked : SUBSET Checks, passed : SUBSET Checks] BY DEF NoVerdict
<1>3. TypeOK
  <2>1. now \in 0 .. MaxTime /\ inFlight \in Nat BY BoundAssumption
  <2>2. cachedAt \in Nat \cup {NoTime} /\ evalMu \in Probers \cup {None} OBVIOUS
  <2>3. call \in [Probers -> Calls] BY <1>1
  <2>4. pc \in [Probers -> {"idle", "lookup", "lock", "launch", "collect", "store"}] OBVIOUS
  <2> QED BY <1>2, <2>1, <2>2, <2>3, <2>4 DEF TypeOK
<1>4. CounterExact BY FS_EmptySet DEF CounterExact
<1>5. SingleCopy /\ ReadyIsEarned BY DEF SingleCopy, ReadyIsEarned
<1>6. OneEvaluation /\ Evaluations BY DEF OneEvaluation, Evaluations, Evaluating
<1> QED BY <1>3, <1>4, <1>5, <1>6 DEF IndInv

\* Checks are added, the TTL changes and time passes between the steps of a probe.
LEMMA OutsideStep ==
    ASSUME IndInv, \/ \E k \in Checks : AddReadinessCheck(k)
                   \/ \E t \in TTLs : SetReadinessCacheTTL(t)
                   \/ Tick
                   \/ UNCHANGED vars
    PROVE  IndInv'
<1> USE DEF IndInv
<1>1. /\ UNCHANGED <<evalMu, routines, probers, cachedOK, cachedFrom>>
      /\ now' \in 0 .. MaxTime /\ ttl' \in TTLs /\ checks' \subseteq Checks
      /\ cachedAt' \in {cachedAt, NoTime}
  BY BoundAssumption
     DEF AddReadinessCheck, SetReadinessCacheTTL, Tick, vars, cache, TypeOK
<1>2. TypeOK' BY <1>1 DEF TypeOK, routines, probers
<1>3. SingleCopy' /\ CounterExact' BY <1>1 DEF SingleCopy, CounterExact, routines
<1>4. ReadyIsEarned' BY <1>1 DEF ReadyIsEarned
<1>5. OneEvaluation' BY <1>1 DEF OneEvaluation, probers
<1>6. Evaluations'
  BY <1>1 DEF Evaluations, Collecting, NothingAsked, Names, probers, routines
<1> QED BY <1>1, <1>2, <1>3, <1>4, <1>5, <1>6 DEF routines

\* Between evaluations a probe changes its own place and variables.
LEMMA ProbeMoves ==
    ASSUME IndInv, NEW p \in Probers, NEW c \in Calls, NEW l \in {"idle", "lookup", "lock"},
           call' = [call EXCEPT ![p] = c], Goto(p, l),
           l # "idle" => c.asked = {} /\ c.chan = {},
           evalMu' \in {evalMu, None}, evalMu' # evalMu => evalMu = p,
           UNCHANGED <<now, checks, routines>>, ttl' \in TTLs, cachedAt' \in Nat \cup {NoTime},
           cachedOK' \in BOOLEAN, cachedFrom' \in [asked : SUBSET Checks, passed : SUBSET Checks],
           ReadyIsEarned'
    PROVE  IndInv'
<1> USE DEF IndInv, Goto
<1>1. TypeOK' BY DEF TypeOK, routines
<1>2. SingleCopy' /\ CounterExact' /\ (running \cap sent = {})'
  BY DEF SingleCopy, CounterExact, routines
<1>3. OneEvaluation' BY DEF OneEvaluation, Evaluating, TypeOK
<1>4. ASSUME NEW q \in Probers, q # p
      PROVE  call'[q] = call[q] /\ pc'[q] = pc[q]
  BY <1>4 DEF TypeOK
<1>5. call'[p] = c /\ pc'[p] = l BY DEF TypeOK
<1>6. Evaluations'
  BY <1>4, <1>5 DEF Evaluations, Collecting, NothingAsked, Names, routines
<1> QED BY <1>1, <1>2, <1>3, <1>6

\* An answered probe lets go of the lock, if it held it.
LEMMA ProbeAnswered ==
    ASSUME IndInv, NEW p \in Probers, Answer(p),
           evalMu' \in {evalMu, None}, evalMu' # evalMu => evalMu = p,
           UNCHANGED <<now, checks, routines>>, ttl' \in TTLs, cachedAt' \in Nat \cup {NoTime},
           cachedOK' \in BOOLEAN, cachedFrom' \in [asked : SUBSET Checks, passed : SUBSET Checks],
           ReadyIsEarned'
    PROVE  IndInv'
<1>1. NoCall \in Calls
  BY TTLAssumption, BoundAssumption, FS_CardinalityType, ChecksAssumption DEF NoCall, Calls
<1>2. PICK l \in {"idle", "lookup", "lock"} : l = "idle" OBVIOUS
<1>3. call' = [call EXCEPT ![p] = NoCall] /\ Goto(p, l) BY <1>2 DEF Answer
<1>4. l # "idle" => NoCall.asked = {} /\ NoCall.chan = {} BY <1>2
<1> QED BY <1>1, <1>3, <1>4, ProbeMoves

\* A probe begins, looks into the cache, and is answered from it or waits.
LEMMA LookStep ==
    ASSUME IndInv, NEW p \in Probers, Begin(p) \/ Lookup(p)
    PROVE  IndInv'
<1> USE DEF IndInv
<1>1. NoCall \in Calls /\ NoCall.asked = {} /\ NoCall.chan = {}
  BY TTLAssumption, BoundAssumption, FS_CardinalityType, ChecksAssumption DEF NoCall, Calls
<1>2. UNCHANGED <<now, cache, evalMu, checks, routines>> BY DEF Begin, Lookup
<1>3. ReadyIsEarned' BY <1>2 DEF ReadyIsEarned, cache
<1>4. CASE Begin(p)
  <2> DEFINE c == [NoCall EXCEPT !.began = now]
  <2>1. c \in Calls /\ c.asked = {} /\ c.chan = {} BY <1>1 DEF Calls, TypeOK
  <2>2. call' = [call EXCEPT ![p] = c] /\ Goto(p, "lookup") BY <1>4 DEF Begin
  <2> HIDE DEF c
  <2> QED BY <1>2, <1>3, <2>1, <2>2, ProbeMoves DEF cache, TypeOK
<1>5. CASE Lookup(p)
  <2>1. CASE Answer(p) BY <1>2, <1>3, <2>1, ProbeAnswered DEF cache, TypeOK
  <2>2. CASE call' = [call EXCEPT ![p].ttl = Effective(ttl)] /\ Goto(p, "lock")
    <3> DEFINE c == [call[p] EXCEPT !.ttl = Effective(ttl)]
    <3>1. NothingAsked(p) BY <1>5 DEF Lookup, Evaluations
    <3>2. c \in Calls /\ c.asked = {} /\ c.chan = {}
      BY <3>1 DEF Calls, TypeOK, Effective, NothingAsked
    <3>3. call' = [call EXCEPT ![p] = c] BY <2>2 DEF TypeOK
    <3> HIDE DEF c
    <3> QED BY <1>2, <1>3, <2>2, <3>2, <3>3, ProbeMoves DEF cache, TypeOK
  <2> QED BY <1>5, <2>1, <2>2 DEF Lookup
<1> QED BY <1>4, <1>5

\* Whoever takes readinessEvalMu is alone.
LEMMA LockStep ==
    ASSUME IndInv, NEW p \in Probers, Lock(p)
    PROVE  IndInv'
<1>1. UNCHANGED <<now, cache, checks, routines>> BY DEF Lock
<1>2. ReadyIsEarned' BY <1>1 DEF ReadyIsEarned, cache, IndInv
<1>3. CASE Answer(p) /\ UNCHANGED evalMu
  BY <1>1, <1>2, <1>3, ProbeAnswered DEF cache, IndInv, TypeOK
<1>4. CASE evalMu = None /\ evalMu' = p /\ Goto(p, "launch") /\ UNCHANGED call /\ pc[p] = "lock"
  <2> USE <1>4 DEF IndInv, Goto
  <2>1. TypeOK' BY <1>1 DEF TypeOK, cache, routines
  <2>2. SingleCopy' /\ CounterExact' /\ (running \cap sent = {})'
    BY <1>1 DEF SingleCopy, CounterExact, routines
  <2>3. OneEvaluation' BY NoneAssumption DEF OneEvaluation, TypeOK, Evaluating
  <2>4. Evaluations'
    BY <1>1 DEF Evaluations, Collecting, NothingAsked, Names, routines, TypeOK
  <2> QED BY <1>2, <2>1, <2>2, <2>3, <2>4
<1> QED BY <1>3, <1>4 DEF Lock

\* One goroutine per check: as many as there are checks, each for another one.
Copies(S, e) == {[check |-> k, eval |-> e] : k \in S}

\* The goroutines of an evaluation are as many as its checks, and tell them apart.
LEMMA CopiesCount ==
    ASSUME NEW S \in SUBSET Checks, NEW e
    PROVE  /\ Cardinality(Copies(S, e)) = Cardinality(S)
           /\ Names(Copies(S, e)) = S
           /\ \A g, h \in Copies(S, e) : g.check = h.check => g = h
           /\ \A g \in Copies(S, e) : g.eval = e
<1> DEFINE f == [k \in S |-> [check |-> k, eval |-> e]]
<1>1. f \in [S -> Copies(S, e)] BY DEF Copies
<1>2. \A k, m \in S : f[k] = f[m] => k = m
  <2> TAKE k, m \in S
  <2>1. f[k].check = k /\ f[m].check = m OBVIOUS
  <2> QED BY <2>1
<1>3. \A g \in Copies(S, e) : \E k \in S : f[k] = g BY DEF Copies
<1>4. f \in Bijection(S, Copies(S, e))
  <2> HIDE DEF f
  <2> QED BY <1>1, <1>2, <1>3 DEF Bijection, Injection, Surjection, IsInjective
<1>5. Cardinality(Copies(S, e)) = Cardinality(S)
  <2> HIDE DEF f
  <2> QED BY <1>4, Finite, FS_Bijection DEF ExistsBijection
<1>6. \A k \in S : [check |-> k, eval |-> e] \in Copies(S, e) BY DEF Copies
<1>7. \A g \in Copies(S, e) : g.check \in S BY DEF Copies
<1>8. Names(Copies(S, e)) = S
  <2>1. \A k \in S : k \in Names(Copies(S, e))
    <3> TAKE k \in S
    <3>1. [check |-> k, eval |-> e].check = k OBVIOUS
    <3> QED BY <1>6, <3>1 DEF Names
  <2> QED BY <1>7, <2>1 DEF Names
<1>9. \A g, h \in Copies(S, e) : g.check = h.check => g = h BY DEF Copies
<1>10. \A g \in Copies(S, e) : g.eval = e BY DEF Copies
<1> QED BY <1>5, <1>8, <1>9, <1>10

\* An evaluation starts its goroutines only when none is in flight.
LEMMA LaunchStep ==
    ASSUME IndInv, NEW p \in Probers, Launch(p)
    PROVE  IndInv'
<1>1. /\ UNCHANGED <<now, checks>> /\ pc[p] = "launch" /\ evalMu = p
      /\ NothingAsked(p)
  BY DEF Launch, IndInv, OneEvaluation, Evaluations, Evaluating
<1>2. CASE checks = {} /\ storeReadinessCache(p) /\ Answer(p) /\ evalMu' = None /\ UNCHANGED routines
  <2>1. ReadyIsEarned'
    BY <1>1, <1>2 DEF ReadyIsEarned, storeReadinessCache, NothingAsked
  <2>2. /\ ttl' \in TTLs /\ cachedAt' \in Nat /\ cachedOK' \in BOOLEAN
        /\ cachedFrom' \in [asked : SUBSET Checks, passed : SUBSET Checks]
    BY <1>2 DEF storeReadinessCache, IndInv, TypeOK, Calls
  <2> QED BY <1>1, <1>2, <2>1, <2>2, ProbeAnswered
<1>3. CASE Answer(p) /\ evalMu' = None /\ UNCHANGED <<cache, routines>>
  <2>1. ReadyIsEarned' BY <1>3 DEF ReadyIsEarned, cache, IndInv
  <2> QED BY <1>1, <1>3, <2>1, ProbeAnswered DEF cache, IndInv, TypeOK
<1>4. ASSUME MayLaunch, NEW e \in 1 .. MaxEvals,
             call' = [call EXCEPT ![p].eval = e, ![p].asked = checks,
                                  ![p].remaining = Cardinality(checks)],
             running' = running \cup {[check |-> k, eval |-> e] : k \in checks},
             inFlight' = Counted, Goto(p, "collect"), UNCHANGED <<cache, evalMu, sent>>
      PROVE  IndInv'
  <2> USE DEF IndInv
  <2> DEFINE T == Copies(checks, e)
             c == [call[p] EXCEPT !.eval = e, !.asked = checks, !.remaining = Cardinality(checks)]
  <2>1. running = {} /\ sent = {}
    <3>1. /\ Cardinality(running) \in Nat /\ Cardinality(sent) \in Nat
          /\ IsFiniteSet(running) /\ IsFiniteSet(sent)
      BY Finite DEF TypeOK
    <3>2. Cardinality(running) = 0 /\ Cardinality(sent) = 0
      BY <1>4, <3>1 DEF MayLaunch, CounterExact
    <3> QED BY <3>1, <3>2, FS_EmptySet
  <2>2. running' = T /\ sent' = {} BY <1>4, <2>1 DEF Copies
  <2>3. /\ Cardinality(T) = Cardinality(checks) /\ Names(T) = checks
        /\ \A g, h \in T : g.check = h.check => g = h
        /\ \A g \in T : g.eval = e
    <3>1. checks \in SUBSET Checks BY DEF TypeOK
    <3> HIDE DEF IndInv
    <3> QED BY <3>1, CopiesCount
  <2>4. checks \subseteq Checks /\ Cardinality(checks) \in 0 .. Cardinality(Checks)
    BY Finite DEF TypeOK
  <2>5. T \subseteq Goroutines BY <2>4 DEF Goroutines, Copies
  <2>6. call' = [call EXCEPT ![p] = c] BY <1>4 DEF TypeOK
  <2>7. c \in Calls
    <3>1. call[p] \in Calls BY DEF TypeOK
    <3>2. e \in 0 .. MaxEvals BY BoundAssumption
    <3> HIDE DEF IndInv
    <3> QED BY <2>4, <3>1, <3>2 DEF Calls
  <2>8. c.eval = e /\ c.asked = checks /\ c.remaining = Cardinality(checks) /\ c.chan = {}
    BY <1>1 DEF TypeOK, Calls, NothingAsked
  <2> HIDE DEF T, c
  <2>9. inFlight' = Cardinality(checks) /\ inFlight' \in Nat
    BY <1>4, <2>4, Finite, ChecksAssumption, FS_CardinalityType DEF Counted, MayLaunch
  <2>10. TypeOK'
    <3>1. call' \in [Probers -> Calls] BY <2>6, <2>7 DEF TypeOK
    <3>2. pc' \in [Probers -> {"idle", "lookup", "lock", "launch", "collect", "store"}]
      BY <1>4 DEF TypeOK, Goto
    <3>3. running' \subseteq Goroutines /\ sent' \subseteq Goroutines BY <2>2, <2>5
    <3> QED BY <1>1, <1>4, <2>9, <3>1, <3>2, <3>3 DEF TypeOK, cache
  <2>11. SingleCopy' BY <2>2, <2>3 DEF SingleCopy
  <2>12. CounterExact' BY <2>2, <2>3, <2>4, <2>9, FS_EmptySet DEF CounterExact
  <2>13. OneEvaluation' BY <1>1, <1>4 DEF OneEvaluation, Goto, Evaluating, TypeOK
  <2>14. Collecting(p)'
    <3>1. call'[p] = c BY <2>6 DEF TypeOK
    <3>2. Names({}) = {} BY DEF Names
    <3>3. c.remaining = Cardinality(c.chan) + Cardinality(T)
      BY <2>3, <2>4, <2>8, FS_EmptySet
    <3> QED BY <2>2, <2>3, <2>8, <3>1, <3>2, <3>3 DEF Collecting
  <2>15. ASSUME NEW q \in Probers, q # p
         PROVE  pc'[q] = pc[q] /\ pc[q] \notin Evaluating /\ call'[q] = call[q]
    BY <1>1, <1>4, <2>6, <2>15 DEF OneEvaluation, Goto, TypeOK
  <2>16. pc'[p] = "collect" BY <1>4 DEF Goto, TypeOK
  <2>17. Evaluations'
    BY <2>14, <2>15, <2>16 DEF Evaluations, Evaluating, NothingAsked
  <2>18. ReadyIsEarned' BY <1>4 DEF ReadyIsEarned, cache
  <2> QED BY <2>2, <2>10, <2>11, <2>12, <2>13, <2>17, <2>18
<1> QED BY <1>2, <1>3, <1>4 DEF Launch


\* A check returns: its goroutine leaves a result to the prober that still waits
\* for it, if there is one.
LEMMA CheckReturnsStep ==
    ASSUME IndInv, NEW g \in Goroutines, CheckReturns(g)
    PROVE  IndInv'
<1> USE DEF IndInv
<1>1. PICK nil \in BOOLEAN :
        call' = [p \in Probers |->
                   IF pc[p] = "collect" /\ call[p].eval = g.eval
                   THEN [call[p] EXCEPT !.chan = @ \cup {[check |-> g.check, nil |-> nil]}]
                   ELSE call[p]]
  BY DEF CheckReturns
<1> DEFINE x == [check |-> g.check, nil |-> nil]
<1>2. g \in running /\ running' = running \ {g} /\ sent' = sent \cup {g}
      /\ UNCHANGED <<now, cache, evalMu, checks, inFlight, pc>>
  BY DEF CheckReturns
<1>3. x \in Results /\ x.check = g.check BY DEF Results, Goroutines
<1>4. /\ IsFiniteSet(running) /\ IsFiniteSet(sent) /\ g \notin sent
      /\ Cardinality(running) \in Nat /\ Cardinality(sent) \in Nat
  BY <1>2, Finite DEF TypeOK
<1>5. Cardinality(running') = Cardinality(running) - 1
      /\ Cardinality(sent') = Cardinality(sent) + 1
  BY <1>2, <1>4, FS_AddElement, FS_RemoveElement
<1> HIDE DEF x
<1>6. \A p \in Probers : call[p] \in Calls BY DEF TypeOK
<1>7. \A p \in Probers : [call[p] EXCEPT !.chan = @ \cup {x}] \in Calls
  BY <1>3, <1>6 DEF Calls
<1>8. call' \in [Probers -> Calls] BY <1>1, <1>6, <1>7 DEF x
<1>9. TypeOK' BY <1>2, <1>8 DEF TypeOK, cache
<1>10. SingleCopy' BY <1>2 DEF SingleCopy
<1>11. CounterExact' BY <1>2, <1>4, <1>5 DEF CounterExact
<1>12. (running \cap sent)' = {} BY <1>2
<1>13. OneEvaluation' /\ ReadyIsEarned' BY <1>2 DEF OneEvaluation, ReadyIsEarned, cache
<1>14. ASSUME NEW p \in Probers, pc[p] = "collect"
       PROVE  Collecting(p)'
  <2>1. Collecting(p) BY <1>14 DEF Evaluations
  <2>2. call'[p] = [call[p] EXCEPT !.chan = @ \cup {x}]
    BY <1>1, <1>2, <1>14, <2>1 DEF x, Collecting
  <2>3. /\ call'[p].chan = call[p].chan \cup {x} /\ call'[p].eval = call[p].eval
        /\ call'[p].remaining = call[p].remaining /\ call'[p].ok = call[p].ok
        /\ call'[p].asked = call[p].asked /\ call'[p].passed = call[p].passed
    BY <1>6, <2>2 DEF Calls
  <2>4. call[p].chan \in SUBSET Results BY <1>6 DEF Calls
  <2>5. x \notin call[p].chan
    <3>1. g.check \in Names(running) BY <1>2 DEF Names
    <3> QED BY <1>3, <2>1, <3>1 DEF Collecting, Names
  <2>6. Cardinality(call'[p].chan) = Cardinality(call[p].chan) + 1
    BY <2>3, <2>4, <2>5, Finite, FS_AddElement
  <2>7. Names(call'[p].chan) = Names(call[p].chan) \cup {g.check}
    BY <1>3, <2>3 DEF Names
  <2>8. Names(running') = Names(running) \ {g.check}
    <3>1. \A h \in running : h.check = g.check <=> h = g BY <1>2 DEF SingleCopy
    <3> QED BY <1>2, <3>1 DEF Names
  <2>10. Cardinality(call[p].chan) \in Nat BY <2>4, Finite
  <2>11. \A h \in running' : h.eval = call'[p].eval BY <1>2, <2>1, <2>3 DEF Collecting
  <2>12. Names(call'[p].chan) \cap Names(running') = {} BY <2>1, <2>7, <2>8 DEF Collecting
  <2>13. call'[p].remaining = Cardinality(call'[p].chan) + Cardinality(running')
    <3>1. call[p].remaining = Cardinality(call[p].chan) + Cardinality(running)
      BY <2>1 DEF Collecting
    <3> QED BY <1>4, <1>5, <2>3, <2>6, <2>10, <3>1
  <2>14. call'[p].ok => call'[p].asked
                          \subseteq call'[p].passed \cup Names(call'[p].chan) \cup Names(running')
    BY <2>1, <2>3, <2>7, <2>8 DEF Collecting
  <2> QED BY <2>11, <2>12, <2>13, <2>14 DEF Collecting
<1>15. ASSUME NEW p \in Probers, pc[p] # "collect"
       PROVE  call'[p] = call[p] /\ pc'[p] = pc[p]
  BY <1>1, <1>2, <1>15
<1>16. Evaluations' BY <1>2, <1>14, <1>15 DEF Evaluations, NothingAsked
<1> QED BY <1>9, <1>10, <1>11, <1>12, <1>13, <1>16

\* The goroutine is gone, and no longer counted.
LEMMA CheckEndsStep ==
    ASSUME IndInv, NEW g \in Goroutines, CheckEnds(g)
    PROVE  IndInv'
<1> USE DEF IndInv
<1>1. g \in sent /\ sent' = sent \ {g} /\ inFlight' = inFlight - 1
      /\ UNCHANGED <<now, cache, evalMu, checks, running, probers>>
  BY DEF CheckEnds
<1>2. /\ IsFiniteSet(sent) /\ Cardinality(running) \in Nat /\ Cardinality(sent) \in Nat
  BY Finite DEF TypeOK
<1>3. Cardinality(sent') = Cardinality(sent) - 1 /\ Cardinality(sent) # 0
  BY <1>1, <1>2, FS_RemoveElement, FS_EmptySet
<1>4. CounterExact' /\ inFlight' \in Nat BY <1>1, <1>2, <1>3 DEF CounterExact, TypeOK
<1>5. TypeOK' BY <1>1, <1>4 DEF TypeOK, cache, probers
<1>6. SingleCopy' /\ (running \cap sent)' = {} BY <1>1 DEF SingleCopy
<1>7. OneEvaluation' /\ ReadyIsEarned' BY <1>1 DEF OneEvaluation, ReadyIsEarned, cache, probers
<1>8. Evaluations' BY <1>1 DEF Evaluations, Collecting, NothingAsked, Names, probers
<1> QED BY <1>4, <1>5, <1>6, <1>7, <1>8


\* A result is read: one fewer to wait for, and, if it was an error, no readiness.
LEMMA CollectStep ==
    ASSUME IndInv, NEW p \in Probers, Collect(p)
    PROVE  IndInv'
<1> USE DEF IndInv
<1>1. PICK r \in call[p].chan :
        /\ call' = [call EXCEPT ![p].chan = @ \ {r},
                                ![p].remaining = @ - 1,
                                ![p].passed = IF r.nil THEN @ \cup {r.check} ELSE @,
                                ![p].ok = @ /\ r.nil]
        /\ Goto(p, IF call[p].remaining = 1 THEN "store" ELSE "collect")
  BY DEF Collect
<1>2. pc[p] = "collect" /\ Collecting(p) /\ UNCHANGED <<now, cache, evalMu, checks, routines>>
  BY DEF Collect, Evaluations
<1> DEFINE c == [call[p] EXCEPT !.chan = @ \ {r}, !.remaining = @ - 1,
                                !.passed = IF r.nil THEN @ \cup {r.check} ELSE @,
                                !.ok = @ /\ r.nil]
<1>3. call[p] \in Calls /\ r \in Results BY DEF TypeOK, Calls
<1>4. call' = [call EXCEPT ![p] = c] BY <1>1 DEF TypeOK
<1>5. /\ c.chan = call[p].chan \ {r} /\ c.remaining = call[p].remaining - 1
      /\ c.passed = IF r.nil THEN call[p].passed \cup {r.check} ELSE call[p].passed
      /\ c.ok = (call[p].ok /\ r.nil) /\ c.asked = call[p].asked /\ c.eval = call[p].eval
      /\ c.began = call[p].began /\ c.ttl = call[p].ttl
      /\ DOMAIN c = DOMAIN call[p]
  BY <1>3 DEF Calls
<1>6. /\ IsFiniteSet(call[p].chan) /\ Cardinality(call[p].chan) \in Nat
      /\ Cardinality(running) \in Nat
  BY <1>3, Finite DEF TypeOK, Calls
<1>7. Cardinality(call[p].chan) # 0 /\ Cardinality(c.chan) = Cardinality(call[p].chan) - 1
  BY <1>1, <1>5, <1>6, FS_EmptySet, FS_RemoveElement
<1>8. call[p].remaining \in 1 .. Cardinality(Checks)
      /\ call[p].remaining = Cardinality(call[p].chan) + Cardinality(running)
  BY <1>2, <1>3, <1>6, <1>7 DEF Collecting, Calls
<1>9. c \in Calls
  <2>1. c.remaining \in 0 .. Cardinality(Checks) BY <1>5, <1>8, Finite
  <2>2. c.chan \in SUBSET Results /\ c.passed \in SUBSET Checks /\ c.ok \in BOOLEAN
    BY <1>3, <1>5 DEF Calls, Results
  <2> QED BY <1>3, <1>5, <2>1, <2>2 DEF Calls
<1> HIDE DEF c
<1>10. c.ok => c.asked \subseteq c.passed \cup Names(c.chan) \cup Names(running)
  <2>1. Names(call[p].chan) \subseteq Names(c.chan) \cup {r.check} BY <1>5 DEF Names
  <2> QED BY <1>2, <1>5, <2>1 DEF Collecting
<1>11. c.remaining = Cardinality(c.chan) + Cardinality(running)
  BY <1>5, <1>6, <1>7, <1>8
<1>12. call'[p] = c /\ pc'[p] = IF call[p].remaining = 1 THEN "store" ELSE "collect"
  BY <1>1, <1>4 DEF TypeOK, Goto
<1>13. ASSUME pc'[p] = "collect"
       PROVE  Collecting(p)'
  <2>1. Names(c.chan) \subseteq Names(call[p].chan) BY <1>5 DEF Names
  <2> QED BY <1>2, <1>5, <1>10, <1>11, <1>12, <2>1 DEF Collecting, routines
<1>14. ASSUME pc'[p] = "store"
       PROVE  c.ok => c.asked \subseteq c.passed
  <2>1. Cardinality(c.chan) = 0 /\ Cardinality(running) = 0
    <3>1. call[p].remaining = 1 BY <1>12, <1>14
    <3>2. Cardinality(c.chan) \in Nat BY <1>6, <1>7
    <3> QED BY <1>5, <1>6, <1>11, <3>1, <3>2
  <2>2. c.chan = {} /\ running = {}
    BY <2>1, <1>9, Finite, FS_EmptySet DEF Calls, TypeOK
  <2> QED BY <1>10, <2>2 DEF Names
<1>15. ASSUME NEW q \in Probers, q # p
       PROVE  call'[q] = call[q] /\ pc'[q] = pc[q]
  BY <1>1, <1>4, <1>15 DEF TypeOK, Goto
<1>16. Evaluations'
  BY <1>2, <1>12, <1>13, <1>14, <1>15
     DEF Evaluations, Collecting, NothingAsked, Names, routines
<1>17. TypeOK'
  <2>1. call' \in [Probers -> Calls] BY <1>4, <1>9 DEF TypeOK
  <2>2. pc' \in [Probers -> {"idle", "lookup", "lock", "launch", "collect", "store"}]
    BY <1>1 DEF TypeOK, Goto
  <2> QED BY <1>2, <2>1, <2>2 DEF TypeOK, cache, routines
<1>18. SingleCopy' /\ CounterExact' /\ (running \cap sent)' = {} /\ ReadyIsEarned'
  BY <1>2 DEF SingleCopy, CounterExact, ReadyIsEarned, routines, cache
<1>19. OneEvaluation' BY <1>2, <1>12, <1>15 DEF OneEvaluation, Evaluating
<1> QED BY <1>16, <1>17, <1>18, <1>19

\* An evaluation ends: given up, or with a verdict that all checks asked support.
LEMMA EndStep ==
    ASSUME IndInv, NEW p \in Probers, CollectAborted(p) \/ Store(p)
    PROVE  IndInv'
<1>1. /\ pc[p] \in Evaluating /\ evalMu = p /\ evalMu' = None /\ Answer(p)
      /\ UNCHANGED <<now, checks, routines>>
  BY DEF CollectAborted, Store, IndInv, OneEvaluation, Evaluating
<1>2. CASE CollectAborted(p)
  <2>1. UNCHANGED cache BY <1>2 DEF CollectAborted
  <2>2. ReadyIsEarned' BY <2>1 DEF ReadyIsEarned, cache, IndInv
  <2> QED BY <1>1, <2>1, <2>2, ProbeAnswered DEF cache, IndInv, TypeOK
<1>3. CASE Store(p)
  <2>1. storeReadinessCache(p) /\ pc[p] = "store" BY <1>3 DEF Store
  <2>2. ReadyIsEarned'
    BY <2>1 DEF storeReadinessCache, ReadyIsEarned, IndInv, Evaluations
  <2>3. /\ ttl' \in TTLs /\ cachedAt' \in Nat /\ cachedOK' \in BOOLEAN
        /\ cachedFrom' \in [asked : SUBSET Checks, passed : SUBSET Checks]
    BY <2>1, BoundAssumption DEF storeReadinessCache, IndInv, TypeOK, Calls
  <2> QED BY <1>1, <2>2, <2>3, ProbeAnswered
<1> QED BY <1>2, <1>3

\* Every step of the probes and of their checks preserves the invariant.
LEMMA IndNext == IndInv /\ [Next]_vars => IndInv'
<1> SUFFICES ASSUME IndInv, [Next]_vars PROVE IndInv' OBVIOUS
<1>1. ASSUME NEW p \in Probers, Begin(p) \/ Probe(p)
      PROVE  IndInv'
  BY <1>1, LookStep, LockStep, LaunchStep, CollectStep, EndStep DEF Probe
<1>2. ASSUME NEW g \in Goroutines, CheckReturns(g) \/ CheckEnds(g)
      PROVE  IndInv'
  BY <1>2, CheckReturnsStep, CheckEndsStep
<1> QED BY <1>1, <1>2, OutsideStep DEF Next

\* The inductive invariant holds in every reachable state.
LEMMA Invariance == Spec => []IndInv
BY IndInit, IndNext, PTL DEF Spec

-----------------------------------------------------------------------------
\* However many probes arrive, for any checks and however long they hang, no check is
\* in flight twice and readinessInFlight counts the goroutines (boot/app.go, readinessOK
\* and runReadinessCheck).
THEOREM GoroutinesAreCounted == Spec => []Inv
<1>1. IndInv => Inv BY DEF IndInv, Inv
<1> QED BY <1>1, Invariance, PTL

\* A cached "ready" rests on one evaluation whose every check returned nil
\* (boot/app.go, storeReadinessCache).
THEOREM CachedReadyIsEarned == Spec => []ReadyIsEarned
<1>1. IndInv => ReadyIsEarned BY DEF IndInv
<1> QED BY <1>1, Invariance, PTL
=============================================================================
