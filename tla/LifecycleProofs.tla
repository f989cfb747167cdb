--------------------------- MODULE LifecycleProofs ---------------------------
(***************************************************************************)
(* Proofs about Lifecycle, and with it about Startup, for any number of    *)
(* components, any listeners and databases, and any configuration file,    *)
(* environment and remote layers.                                          *)
(*                                                                         *)
(* Two invariants.  AppInd holds whatever order the components have: what  *)
(* New knows of the configuration at each of its steps and which resources *)
(* are open then, where the two goroutines are and who is inside which     *)
(* once, and at which point of Run listeners, requests, the registration   *)
(* and the watcher of the remote configuration have got how far.  CompInd  *)
(* says how the components stand to the place idx of a start or a stop     *)
(* loop.  It rests on what orderComponents returns, which is proved first: *)
(* when it returns no error, every component once and each after those it  *)
(* depends on.                                                             *)
(***************************************************************************)
EXTENDS Lifecycle, FiniteSetTheorems, SequenceTheorems, WellFoundedInduction, TLAPS

-----------------------------------------------------------------------------
(* orderComponents, for any number of components and any dependencies: the *)
(* traversal keeps an invariant, and at its end the invariant says that    *)
(* there is an order.  That one move follows another is an induction over  *)
(* the moves, made by taking the least number of moves after which         *)
(* something would be wrong.                                               *)

\* A property of all natural numbers that fails has a least failure.
LEMMA LeastFailure ==
    ASSUME NEW T, T \subseteq Nat, T # {}
    PROVE  \E k \in T : \A j \in T : k <= j
<1>1. PICK k \in T : \A j \in T : <<j, k>> \notin OpToRel(<, Nat)
  BY WFMin, NatLessThanWellFounded
<1>2. ASSUME NEW j \in T, j < k
      PROVE  FALSE
  BY <1>1, <1>2 DEF OpToRel
<1> QED
  BY <1>2

\* The first moves of a traversal.
FirstMoves(n, deps, g, k) ==
    /\ g = [j \in 0 .. k |-> g[j]]
    /\ g[0] = Begin(n)
    /\ \A j \in 0 .. k : j > 0 => g[j] = Move(n, deps, g[j - 1])

\* There are as many as one likes ...
LEMMA MovesExist ==
    ASSUME NEW n, NEW deps
    PROVE  \A k \in Nat : \E g : FirstMoves(n, deps, g, k)
<1> DEFINE T == {k \in Nat : ~ \E g : FirstMoves(n, deps, g, k)}
<1> SUFFICES ASSUME T # {} PROVE FALSE
  OBVIOUS
<1>1. PICK k \in T : \A j \in T : k <= j
  BY LeastFailure
<1>2. CASE k = 0
  <2> DEFINE g == [j \in 0 .. 0 |-> Begin(n)]
  <2>1. FirstMoves(n, deps, g, 0)
    BY DEF FirstMoves
  <2> QED
    BY <1>1, <1>2, <2>1
<1>3. CASE k # 0
  <2>1. k \in Nat /\ k - 1 \in Nat /\ k - 1 \notin T
    BY <1>1, <1>3
  <2>2. PICK g : FirstMoves(n, deps, g, k - 1)
    BY <2>1
  <2> DEFINE h == [j \in 0 .. k |-> IF j = k THEN Move(n, deps, g[k - 1]) ELSE g[j]]
  <2>3. ASSUME NEW j \in 0 .. k, j > 0
        PROVE  h[j] = Move(n, deps, h[j - 1])
    <3>1. h[j - 1] = g[j - 1]
      BY <2>1, <2>3
    <3>2. CASE j = k
      BY <2>3, <3>1, <3>2
    <3>3. CASE j # k
      <4>1. j \in 0 .. k - 1 /\ h[j] = g[j]
        BY <2>1, <2>3, <3>3
      <4>2. \A i \in 0 .. k - 1 : i > 0 => g[i] = Move(n, deps, g[i - 1])
        BY <2>2 DEF FirstMoves
      <4> HIDE DEF h
      <4> QED
        BY <2>3, <3>1, <4>1, <4>2
    <3> QED
      BY <3>2, <3>3
  <2>4. h[0] = Begin(n)
    BY <1>3, <2>1, <2>2 DEF FirstMoves
  <2>5. FirstMoves(n, deps, h, k)
    BY <2>3, <2>4 DEF FirstMoves
  <2> QED
    BY <1>1, <2>5
<1> QED
  BY <1>2, <1>3

\* ... and only one kind.
LEMMA MovesAgree ==
    ASSUME NEW n, NEW deps, NEW k \in Nat, NEW g, FirstMoves(n, deps, g, k),
           NEW l \in Nat, NEW h, FirstMoves(n, deps, h, l)
    PROVE  \A j \in Nat : j <= k /\ j <= l => g[j] = h[j]
<1> DEFINE T == {j \in Nat : j <= k /\ j <= l /\ g[j] # h[j]}
<1> SUFFICES ASSUME T # {} PROVE FALSE
  OBVIOUS
<1>1. PICK j \in T : \A i \in T : j <= i
  BY LeastFailure
<1>2. j # 0
  BY <1>1 DEF FirstMoves
<1>3. j - 1 \in Nat /\ j - 1 <= k /\ j - 1 <= l /\ j - 1 \notin T
  BY <1>1, <1>2
<1>4. g[j - 1] = h[j - 1]
  BY <1>3
<1>5. j \in 0 .. k /\ j \in 0 .. l /\ j > 0
  BY <1>1, <1>2
<1>6. g[j] = h[j]
  BY <1>4, <1>5 DEF FirstMoves
<1> QED
  BY <1>1, <1>6

\* So the recursive function in orderComponents is what its equation says.
Traversal(n, deps, f) ==
    f = [k \in Nat |-> IF k = 0 THEN Begin(n) ELSE Move(n, deps, f[k - 1])]

LEMMA TraversalExists ==
    ASSUME NEW n, NEW deps
    PROVE  \E f : Traversal(n, deps, f)
<1> DEFINE First(k) == CHOOSE g : FirstMoves(n, deps, g, k)
           f == [k \in Nat |-> First(k)[k]]
<1>1. \A k \in Nat : FirstMoves(n, deps, First(k), k)
  BY MovesExist, Zenon
<1> HIDE DEF First
<1>2. ASSUME NEW k \in Nat, k # 0
      PROVE  f[k] = Move(n, deps, f[k - 1])
  <2>1. k - 1 \in Nat /\ k - 1 <= k
    BY <1>2
  <2>2. FirstMoves(n, deps, First(k), k) /\ FirstMoves(n, deps, First(k - 1), k - 1)
    BY <1>1, <2>1
  <2>3. First(k)[k] = Move(n, deps, First(k)[k - 1])
    <3>1. \A j \in 0 .. k : j > 0 => First(k)[j] = Move(n, deps, First(k)[j - 1])
      BY <2>2 DEF FirstMoves
    <3> QED
      BY <1>2, <3>1
  <2>4. First(k)[k - 1] = First(k - 1)[k - 1]
    BY <2>1, <2>2, MovesAgree
  <2> QED
    BY <2>1, <2>3, <2>4
<1>3. f[0] = Begin(n)
  BY <1>1 DEF FirstMoves
<1>4. Traversal(n, deps, f)
  <2>1. \A k \in Nat : f[k] = IF k = 0 THEN Begin(n) ELSE Move(n, deps, f[k - 1])
    BY <1>2, <1>3
  <2> HIDE DEF f
  <2>2. f = [k \in Nat |-> f[k]]
    BY DEF f
  <2> QED
    BY <2>1, <2>2 DEF Traversal
<1> QED
  BY <1>4

\* What orderComponents returns is a traversal after some number of moves.
LEMMA OrderComponentsMoves ==
    ASSUME NEW n, NEW deps
    PROVE  \E f : /\ Traversal(n, deps, f)
                  /\ orderComponents(n, deps) = f[Moves(n, deps)]
<1> DEFINE f == CHOOSE t : Traversal(n, deps, t)
<1>1. Traversal(n, deps, f)
  BY TraversalExists, Zenon
<1>2. orderComponents(n, deps) = f[Moves(n, deps)]
  BY Zenon DEF orderComponents, Traversal
<1> QED
  BY <1>1, <1>2

\* Appending to a sequence adds one element at its end.
LEMMA Appended ==
    ASSUME NEW S, NEW s \in Seq(S), NEW c \in S
    PROVE  /\ Append(s, c) \in Seq(S) /\ Len(Append(s, c)) = Len(s) + 1
           /\ \A i \in 1 .. Len(s) : Append(s, c)[i] = s[i]
           /\ Append(s, c)[Len(s) + 1] = c
           /\ Range(Append(s, c)) = Range(s) \cup {c}
<1>1. /\ Append(s, c) \in Seq(S) /\ Len(Append(s, c)) = Len(s) + 1
      /\ \A i \in 1 .. Len(s) : Append(s, c)[i] = s[i]
      /\ Append(s, c)[Len(s) + 1] = c
      /\ DOMAIN s = 1 .. Len(s) /\ DOMAIN Append(s, c) = 1 .. Len(s) + 1 /\ Len(s) \in Nat
  OBVIOUS
<1>2. Range(s) \cup {c} \subseteq Range(Append(s, c))
  <2>1. ASSUME NEW i \in DOMAIN s
        PROVE  s[i] \in Range(Append(s, c))
    BY <1>1 DEF Range
  <2>2. c \in Range(Append(s, c))
    BY <1>1 DEF Range
  <2> QED
    BY <2>1, <2>2 DEF Range
<1>3. Range(Append(s, c)) \subseteq Range(s) \cup {c}
  <2> SUFFICES ASSUME NEW i \in 1 .. Len(s) + 1
               PROVE  Append(s, c)[i] \in Range(s) \cup {c}
    BY <1>1 DEF Range
  <2>1. CASE i = Len(s) + 1
    BY <1>1, <2>1
  <2>2. CASE i # Len(s) + 1
    <3>1. i \in 1 .. Len(s) /\ Append(s, c)[i] = s[i]
      BY <1>1, <2>2
    <3> QED
      BY <1>1, <3>1 DEF Range
  <2> QED
    BY <2>1, <2>2
<1> QED
  BY <1>1, <1>2, <1>3

\* What a sequence is made of.
LEMMA Elements ==
    ASSUME NEW S, NEW s \in Seq(S)
    PROVE  Len(s) \in Nat /\ DOMAIN s = 1 .. Len(s) /\ \A i \in 1 .. Len(s) : s[i] \in S
OBVIOUS

\* Taking the last element away leaves the others where they are.
LEMMA Shortened ==
    ASSUME NEW S, NEW s \in Seq(S), s # <<>>
    PROVE  LET f == SubSeq(s, 1, Len(s) - 1)
           IN  /\ f \in Seq(S) /\ Len(f) = Len(s) - 1 /\ Len(f) \in Nat
               /\ \A i \in 1 .. Len(f) : f[i] = s[i]
<1> DEFINE k == Len(s) - 1
           f == SubSeq(s, 1, k)
<1>1. k \in Nat /\ \A i \in 1 .. k : s[i] \in S
  OBVIOUS
<1> HIDE DEF k
<1>2. f \in Seq(S) /\ Len(f) = (IF 1 <= k THEN k - 1 + 1 ELSE 0)
      /\ \A i \in 1 .. k - 1 + 1 : f[i] = s[1 + i - 1]
  BY <1>1, SubSeqProperties
<1> HIDE DEF f
<1>3. f \in Seq(S) /\ Len(f) = k /\ \A i \in 1 .. k : f[i] = s[i]
  BY <1>1, <1>2
<1> QED
  BY <1>1, <1>3 DEF k, f

-----------------------------------------------------------------------------

\* What each component depends on, components that do not exist among it.
Graphs(n) == [1 .. n -> Seq(Nat)]

\* No component twice.
Distinct(s) == \A i, j \in 1 .. Len(s) : s[i] = s[j] => i = j

\* Who is on the path has come through its dependencies up to next: they are in
\* the order, or the one it waits for is next on the path; of the last, in D.
Dealt(deps, path, next, ordered, D) ==
    \A i \in 1 .. Len(path) : \A q \in DOMAIN deps[path[i]] :
        q < next[path[i]] =>
           \/ deps[path[i]][q] \in Range(ordered)
           \/ i < Len(path) /\ deps[path[i]][q] = path[i + 1]
           \/ i = Len(path) /\ deps[path[i]][q] \in D

\* Who is in the order comes after its dependencies.
InOrder(deps, ordered) ==
    \A j \in 1 .. Len(ordered) : \A q \in DOMAIN deps[ordered[j]] :
        \E i \in 1 .. Len(ordered) : i < j /\ ordered[i] = deps[ordered[j]][q]

\* The components before root were visited, or the last of them is the one whose
\* visit is under way.
RootsDone(root, path, ordered) ==
    \A c \in Nat \ {0} : c < root => c \in Range(ordered) \/ (path # <<>> /\ c = path[1])

Fine(deps, path, next, ordered, D) ==
    /\ Distinct(path) /\ Distinct(ordered)
    /\ \A i \in 1 .. Len(path) : path[i] \notin Range(ordered)
    /\ Dealt(deps, path, next, ordered, D)
    /\ InOrder(deps, ordered)

Shaped(n, path, next, ordered) ==
    path \in Seq(1 .. n) /\ next \in [1 .. n -> Nat \ {0}] /\ ordered \in Seq(1 .. n)

\* visit pushes d on the path: its dependencies are all still to come, and who waits
\* for d has it next on the path.
LEMMA Pushed ==
    ASSUME NEW n \in Nat, NEW deps \in Graphs(n), NEW path, NEW next, NEW ordered,
           Shaped(n, path, next, ordered),
           NEW d \in 1 .. n, d \notin Range(path), d \notin Range(ordered),
           Fine(deps, path, next, ordered, {d})
    PROVE  Fine(deps, Append(path, d), [next EXCEPT ![d] = 1], ordered, {})
<1> DEFINE p == Append(path, d)
           x == [next EXCEPT ![d] = 1]
<1>1. path \in Seq(1 .. n) /\ next \in [1 .. n -> Nat \ {0}]
  BY DEF Shaped
<1>2. /\ Len(p) = Len(path) + 1 /\ Len(path) \in Nat
      /\ \A i \in 1 .. Len(path) : p[i] = path[i] /\ path[i] # d /\ path[i] \in 1 .. n
      /\ p[Len(path) + 1] = d
  <2>1. /\ Len(p) = Len(path) + 1 /\ \A i \in 1 .. Len(path) : p[i] = path[i]
        /\ p[Len(path) + 1] = d
    BY <1>1, Appended
  <2>2. /\ Len(path) \in Nat /\ DOMAIN path = 1 .. Len(path)
        /\ \A i \in 1 .. Len(path) : path[i] \in 1 .. n
    BY <1>1
  <2>3. \A i \in 1 .. Len(path) : path[i] # d
    BY <2>2 DEF Range
  <2> QED
    BY <2>1, <2>2, <2>3
<1>3. /\ x[d] = 1
      /\ \A c \in 1 .. n : c # d => x[c] = next[c]
  BY <1>1
<1> HIDE DEF p, x
<1>4. \A i \in 1 .. Len(p) : i \in 1 .. Len(path) \/ i = Len(path) + 1
  BY ONLY <1>2
<1>5. /\ \A i, j \in 1 .. Len(path) : path[i] = path[j] => i = j
      /\ \A i \in 1 .. Len(path) : path[i] \notin Range(ordered)
  BY DEF Fine, Distinct
<1>6. Distinct(p)
  <2> SUFFICES ASSUME NEW i \in 1 .. Len(p), NEW j \in 1 .. Len(p), p[i] = p[j]
               PROVE  i = j
    BY DEF Distinct
  <2>1. CASE i \in 1 .. Len(path) /\ j \in 1 .. Len(path)
    BY ONLY <1>2, <1>5, <2>1, p[i] = p[j]
  <2>2. CASE i \in 1 .. Len(path) /\ j = Len(path) + 1
    BY ONLY <1>2, <2>2, p[i] = p[j]
  <2>3. CASE i = Len(path) + 1 /\ j \in 1 .. Len(path)
    BY ONLY <1>2, <2>3, p[i] = p[j]
  <2> QED
    BY <1>4, <2>1, <2>2, <2>3
<1>7. \A i \in 1 .. Len(p) : p[i] \notin Range(ordered)
  BY ONLY <1>2, <1>4, <1>5, d \notin Range(ordered)
<1>8. Dealt(deps, p, x, ordered, {})
  <2> SUFFICES ASSUME NEW i \in 1 .. Len(p), NEW q \in DOMAIN deps[p[i]], q < x[p[i]],
                      deps[p[i]][q] \notin Range(ordered)
               PROVE  i < Len(p) /\ deps[p[i]][q] = p[i + 1]
    BY DEF Dealt
  <2>1. CASE i <= Len(path)
    <3>1. i \in 1 .. Len(path)
      BY ONLY <1>2, <2>1, i \in 1 .. Len(p)
    <3>2. p[i] = path[i] /\ x[p[i]] = next[path[i]] /\ i \in 1 .. Len(path)
      BY ONLY <1>2, <1>3, <3>1
    <3>3. \/ i < Len(path) /\ deps[path[i]][q] = path[i + 1]
          \/ i = Len(path) /\ deps[path[i]][q] = d
      BY <3>2 DEF Fine, Dealt
    <3>4. CASE i < Len(path)
      <4>1. i + 1 \in 1 .. Len(path) /\ i < Len(p)
        BY ONLY <1>2, <3>2, <3>4
      <4>2. p[i + 1] = path[i + 1]
        BY ONLY <1>2, <4>1
      <4> QED
        BY ONLY <3>2, <3>3, <3>4, <4>1, <4>2, <1>2
    <3>5. CASE i = Len(path)
      BY ONLY <1>2, <3>2, <3>3, <3>5
    <3> QED
      BY <3>3, <3>4, <3>5
  <2>2. CASE i > Len(path)
    <3>1. i = Len(path) + 1
      BY ONLY <1>4, <1>2, <2>2, i \in 1 .. Len(p)
    <3>2. p[i] = d /\ q < 1
      BY <1>2, <1>3, <3>1
    <3>3. q \in Nat \ {0}
      <4>1. deps[d] \in Seq(Nat)
        BY DEF Graphs
      <4> QED
        BY <3>2, <4>1
    <3> QED
      BY <3>2, <3>3
  <2> QED
    BY <1>2, <2>1, <2>2
<1> QED
  BY <1>6, <1>7, <1>8 DEF Fine, p, x

\* A component whose dependencies are all visited has them in the order, and may
\* follow them there; who waited for it now has it in the order.
LEMMA Popped ==
    ASSUME NEW n \in Nat, NEW deps \in Graphs(n), NEW path, NEW next, NEW ordered,
           Shaped(n, path, next, ordered), path # <<>>,
           next[path[Len(path)]] > Len(deps[path[Len(path)]]),
           Fine(deps, path, next, ordered, {})
    PROVE  Fine(deps, SubSeq(path, 1, Len(path) - 1), next,
                Append(ordered, path[Len(path)]), {})
<1> DEFINE c == path[Len(path)]
           p == SubSeq(path, 1, Len(path) - 1)
           o == Append(ordered, c)
<1>1. /\ Len(p) = Len(path) - 1 /\ Len(p) \in Nat /\ Len(path) \in Nat
      /\ \A i \in 1 .. Len(p) : p[i] = path[i]
  BY Shortened DEF Shaped
<1> HIDE DEF p
<1>2. Len(path) \in 1 .. Len(path)
  BY <1>1
<1>3. c \in 1 .. n /\ next[c] \in Nat /\ deps[c] \in Seq(Nat)
  BY <1>2 DEF Shaped, Graphs
<1>4. \A i \in 1 .. Len(p) : i \in 1 .. Len(path) /\ i < Len(path) /\ path[i] # c
  <2> SUFFICES ASSUME NEW i \in 1 .. Len(p)
               PROVE  i \in 1 .. Len(path) /\ i < Len(path) /\ path[i] # c
    OBVIOUS
  <2>1. i \in 1 .. Len(path) /\ i < Len(path)
    BY <1>1
  <2>2. \A k, l \in 1 .. Len(path) : path[k] = path[l] => k = l
    BY DEF Fine, Distinct
  <2>3. path[i] = path[Len(path)] => i = Len(path)
    BY <1>2, <2>1, <2>2
  <2> QED
    BY <1>1, <2>1, <2>3
<1>5. c \notin Range(ordered)
  BY <1>2 DEF Fine
<1>6. deps[c] \in Seq(Nat) /\ \A q \in DOMAIN deps[c] : q < next[c]
  BY <1>3
<1>7. ASSUME NEW q \in DOMAIN deps[c]
      PROVE  deps[c][q] \in Range(ordered)
  <2>1. \A i \in 1 .. Len(path) : \A r \in DOMAIN deps[path[i]] :
            r < next[path[i]] =>
               \/ deps[path[i]][r] \in Range(ordered)
               \/ i < Len(path) /\ deps[path[i]][r] = path[i + 1]
               \/ i = Len(path) /\ deps[path[i]][r] \in {}
    BY DEF Fine, Dealt
  <2>2. \/ deps[c][q] \in Range(ordered)
        \/ Len(path) < Len(path) /\ deps[c][q] = path[Len(path) + 1]
    BY ONLY <1>2, <1>6, <1>7, <2>1
  <2> QED
    BY ONLY <1>1, <2>2
<1>8. /\ Len(o) = Len(ordered) + 1 /\ Len(ordered) \in Nat
      /\ \A i \in 1 .. Len(ordered) : o[i] = ordered[i]
      /\ o[Len(o)] = c /\ Range(o) = Range(ordered) \cup {c}
      /\ DOMAIN ordered = 1 .. Len(ordered)
  BY <1>3, Appended DEF Shaped
<1> HIDE DEF c, o
<1>9. \A i \in 1 .. Len(o) : i \in 1 .. Len(ordered) \/ i = Len(o)
  BY ONLY <1>8
<1>10. \A i \in 1 .. Len(ordered) :
          ordered[i] \in Range(ordered) /\ i \in 1 .. Len(o) /\ i < Len(o)
  <2>1. \A i \in 1 .. Len(ordered) : i \in 1 .. Len(o) /\ i < Len(o)
    BY ONLY <1>8
  <2>2. \A i \in DOMAIN ordered : ordered[i] \in Range(ordered)
    BY ONLY Zenon DEF Range
  <2> QED
    BY ONLY <1>8, <2>1, <2>2
<1>11. Distinct(p)
  BY <1>1, <1>4 DEF Fine, Distinct
<1>12. Distinct(o)
  <2> SUFFICES ASSUME NEW i \in 1 .. Len(o), NEW j \in 1 .. Len(o), o[i] = o[j]
               PROVE  i = j
    BY DEF Distinct
  <2>1. CASE i \in 1 .. Len(ordered) /\ j \in 1 .. Len(ordered)
    BY <1>8, <2>1 DEF Fine, Distinct
  <2>2. CASE i = Len(o) /\ j = Len(o)
    BY <2>2
  <2> QED
    BY <1>5, <1>8, <1>9, <1>10, <2>1, <2>2
<1>13. \A i \in 1 .. Len(p) : p[i] \notin Range(o)
  BY <1>1, <1>4, <1>8 DEF Fine
<1>14. Dealt(deps, p, next, o, {})
  <2> SUFFICES ASSUME NEW i \in 1 .. Len(p), NEW q \in DOMAIN deps[p[i]], q < next[p[i]],
                      deps[p[i]][q] \notin Range(o)
               PROVE  i < Len(p) /\ deps[p[i]][q] = p[i + 1]
    BY DEF Dealt
  <2>1. p[i] = path[i] /\ i \in 1 .. Len(path) /\ i < Len(path)
    BY <1>1, <1>4
  <2>2. deps[path[i]][q] \notin Range(ordered) /\ deps[path[i]][q] # c
    BY <1>8, <2>1
  <2>3. deps[path[i]][q] = path[i + 1]
    BY <2>1, <2>2 DEF Fine, Dealt
  <2>4. i + 1 # Len(path)
    BY <2>2, <2>3 DEF c
  <2>5. i + 1 \in 1 .. Len(p)
    BY <1>1, <2>1, <2>4
  <2>6. p[i + 1] = path[i + 1] /\ i < Len(p)
    BY <1>1, <2>5
  <2> QED
    BY <2>1, <2>3, <2>6
<1>15. InOrder(deps, o)
  <2>1. ASSUME NEW j \in 1 .. Len(ordered), NEW q \in DOMAIN deps[ordered[j]]
        PROVE  \E i \in 1 .. Len(o) : i < j /\ o[i] = deps[ordered[j]][q]
    <3>1. PICK i \in 1 .. Len(ordered) : i < j /\ ordered[i] = deps[ordered[j]][q]
      BY DEF Fine, InOrder
    <3> QED
      BY <1>8, <1>10, <3>1
  <2>2. ASSUME NEW q \in DOMAIN deps[c]
        PROVE  \E i \in 1 .. Len(o) : i < Len(o) /\ o[i] = deps[c][q]
    <3>1. PICK i \in 1 .. Len(ordered) : ordered[i] = deps[c][q]
      <4>1. DOMAIN ordered = 1 .. Len(ordered)
        BY DEF Shaped
      <4> QED
        BY <1>7, <4>1 DEF Range
    <3> QED
      BY <1>8, <1>10, <3>1
  <2>3. ASSUME NEW j \in 1 .. Len(o)
        PROVE  \A q \in DOMAIN deps[o[j]] :
                  \E i \in 1 .. Len(o) : i < j /\ o[i] = deps[o[j]][q]
    <3>1. CASE j \in 1 .. Len(ordered)
      <4>1. o[j] = ordered[j]
        BY <1>8, <3>1
      <4> QED
        BY <2>1, <3>1, <4>1
    <3>2. CASE j = Len(o)
      BY <1>8, <2>2, <3>2
    <3> QED
      BY <1>9, <3>1, <3>2
  <2> QED
    BY <2>3 DEF InOrder
<1> QED
  BY <1>11, <1>12, <1>13, <1>14, <1>15 DEF Fine, c, p, o


-----------------------------------------------------------------------------

\* A traversal under way, or ended with an order, is Fine.
TraversalInv(n, deps, t) ==
    /\ t \in Traversals(n)
    /\ t.error \in {"pending", "none"} =>
          /\ Fine(deps, t.path, t.next, t.ordered, {})
          /\ RootsDone(t.root, t.path, t.ordered)
    /\ t.error = "none" => t.path = <<>> /\ t.root = n + 1

\* Assigning to fields of a record keeps its type.
LEMMA FieldsAssigned ==
    ASSUME NEW R, NEW P, NEW X, NEW O, NEW E,
           NEW t \in [root : R, path : P, next : X, ordered : O, error : E],
           NEW p \in P, NEW x \in X, NEW o \in O
    PROVE  /\ [t EXCEPT !.path = p, !.next = x]
                 \in [root : R, path : P, next : X, ordered : O, error : E]
           /\ [t EXCEPT !.path = p, !.ordered = o]
                 \in [root : R, path : P, next : X, ordered : O, error : E]
           /\ [t EXCEPT !.next = x]
                 \in [root : R, path : P, next : X, ordered : O, error : E]
OBVIOUS

\* So for the fields of a traversal.
LEMMA Assigned ==
    ASSUME NEW n, NEW t \in Traversals(n), NEW p \in Seq(1 .. n),
           NEW x \in [1 .. n -> Nat \ {0}], NEW o \in Seq(1 .. n)
    PROVE  /\ [t EXCEPT !.path = p, !.next = x] \in Traversals(n)
           /\ [t EXCEPT !.path = p, !.ordered = o] \in Traversals(n)
           /\ [t EXCEPT !.next = x] \in Traversals(n)
BY FieldsAssigned, Zenon DEF Traversals

\* The turn of a loop changes next only.
LEMMA NextAssigned ==
    ASSUME NEW n, NEW t \in Traversals(n), NEW x, NEW u, u = [t EXCEPT !.next = x]
    PROVE  /\ u.root = t.root /\ u.path = t.path /\ u.next = x
           /\ u.ordered = t.ordered /\ u.error = t.error
BY DEF Traversals

\* At the beginning nothing is visited.
LEMMA TraversalBegins ==
    ASSUME NEW n \in Nat, NEW deps \in Graphs(n)
    PROVE  TraversalInv(n, deps, Begin(n))
<1>1. Begin(n) \in Traversals(n)
  BY DEF Begin, Traversals
<1>2. Begin(n).path = <<>> /\ Begin(n).ordered = <<>> /\ Begin(n).error = "pending"
      /\ Begin(n).root = 1
  BY DEF Begin
<1>3. Fine(deps, <<>>, Begin(n).next, <<>>, {})
  BY DEF Fine, Distinct, Dealt, InOrder
<1>4. RootsDone(1, <<>>, <<>>)
  BY DEF RootsDone
<1> QED
  BY <1>1, <1>2, <1>3, <1>4 DEF TraversalInv

\* Calling visit for a component keeps the traversal right, when all but this one
\* have been dealt with.
LEMMA VisitKeeps ==
    ASSUME NEW n \in Nat, NEW deps \in Graphs(n), NEW t \in Traversals(n),
           NEW d \in 1 .. n, t.error = "pending",
           Fine(deps, t.path, t.next, t.ordered, {d}),
           \A c \in Nat \ {0} : c < t.root =>
              \/ c \in Range(t.ordered)
              \/ t.path # <<>> /\ c = t.path[1]
              \/ t.path = <<>> /\ c = d
    PROVE  TraversalInv(n, deps, Visit(t, d))
<1>1. Shaped(n, t.path, t.next, t.ordered) /\ t.root \in 1 .. n + 1
  BY DEF Traversals, Shaped
<1>2. CASE d \in Range(t.path)
  <2> DEFINE u == [t EXCEPT !.error = "cycle"]
  <2>1. Visit(t, d) = u
    BY <1>2 DEF Visit
  <2>2. u \in Traversals(n) /\ u.error = "cycle"
    BY DEF Traversals
  <2> QED
    BY <2>1, <2>2 DEF TraversalInv
<1>3. CASE d \notin Range(t.path) /\ d \in Range(t.ordered)
  <2>1. Visit(t, d) = t
    BY <1>3 DEF Visit
  <2>2. Dealt(deps, t.path, t.next, t.ordered, {})
    BY <1>3 DEF Fine, Dealt
  <2>3. Fine(deps, t.path, t.next, t.ordered, {})
    BY <2>2 DEF Fine
  <2>4. RootsDone(t.root, t.path, t.ordered)
    BY <1>3 DEF RootsDone
  <2> QED
    BY <2>1, <2>3, <2>4 DEF TraversalInv
<1>4. CASE d \notin Range(t.path) /\ d \notin Range(t.ordered)
  <2> DEFINE p == Append(t.path, d)
             x == [t.next EXCEPT ![d] = 1]
             u == [t EXCEPT !.path = Append(@, d), !.next[d] = 1]
  <2>1. Visit(t, d) = u
    BY <1>4 DEF Visit
  <2>2. p \in Seq(1 .. n) /\ Len(p) = Len(t.path) + 1 /\ Len(t.path) \in Nat
        /\ (\A i \in 1 .. Len(t.path) : p[i] = t.path[i]) /\ p[Len(t.path) + 1] = d
    BY <1>1, Appended DEF Shaped
  <2>3. x \in [1 .. n -> Nat \ {0}]
    BY <1>1 DEF Shaped
  <2>4. u.path = p /\ u.next = x /\ u.ordered = t.ordered /\ u.root = t.root
        /\ u.error = "pending"
    BY DEF Traversals
  <2>5. Fine(deps, p, x, t.ordered, {})
    BY <1>1, <1>4, Pushed
  <2>6. t.ordered \in Seq(1 .. n)
    BY <1>1 DEF Shaped
  <2> HIDE DEF p, x
  <2>7. [t EXCEPT !.path = p, !.next = x] \in Traversals(n)
    BY <2>6, <2>2, <2>3, Assigned
  <2>8. u \in Traversals(n)
    BY ONLY <2>7 DEF p, x
  <2> HIDE DEF u
  <2>9. RootsDone(t.root, p, t.ordered)
    <3>1. p # <<>>
      BY ONLY <2>2
    <3>2. CASE t.path = <<>>
      BY <2>2, <3>1, <3>2 DEF RootsDone
    <3>3. CASE t.path # <<>>
      <4>1. 1 \in 1 .. Len(t.path)
        BY <1>1, <3>3 DEF Shaped
      <4>2. p[1] = t.path[1]
        BY ONLY <2>2, <4>1
      <4> QED
        BY <3>1, <3>3, <4>2 DEF RootsDone
    <3> QED
      BY <3>2, <3>3
  <2> QED
    BY <2>1, <2>4, <2>5, <2>8, <2>9 DEF TraversalInv
<1> QED
  BY <1>2, <1>3, <1>4

\* So does the loop over the components, ...
LEMMA NextComponentKeeps ==
    ASSUME NEW n \in Nat, NEW deps \in Graphs(n), NEW t,
           TraversalInv(n, deps, t), t.error = "pending", t.path = <<>>
    PROVE  TraversalInv(n, deps, NextComponent(n, t))
<1>1. /\ t \in Traversals(n) /\ t.root \in 1 .. n + 1
      /\ Fine(deps, <<>>, t.next, t.ordered, {})
      /\ RootsDone(t.root, <<>>, t.ordered)
  BY DEF TraversalInv, Traversals
<1>2. CASE t.root > n
  <2> DEFINE u == [t EXCEPT !.error = "none"]
  <2>1. NextComponent(n, t) = u
    BY <1>2 DEF NextComponent
  <2>2. u \in Traversals(n) /\ u.error = "none" /\ u.path = <<>> /\ u.next = t.next
        /\ u.ordered = t.ordered /\ u.root = t.root
    BY <1>1 DEF Traversals
  <2>3. t.root = n + 1
    BY <1>1, <1>2
  <2> QED
    BY <1>1, <2>1, <2>2, <2>3 DEF TraversalInv
<1>3. CASE ~(t.root > n)
  <2> DEFINE u == [t EXCEPT !.root = @ + 1]
  <2>1. NextComponent(n, t) = Visit(u, t.root)
    BY <1>3 DEF NextComponent
  <2>2. t.root \in 1 .. n /\ t.root + 1 \in 1 .. n + 1
    BY <1>1, <1>3
  <2>3. u \in Traversals(n)
    BY <1>1, <2>2 DEF Traversals
  <2>4. u.error = "pending" /\ u.path = <<>> /\ u.next = t.next
        /\ u.ordered = t.ordered /\ u.root = t.root + 1
    BY <1>1 DEF Traversals
  <2>5. Fine(deps, <<>>, t.next, t.ordered, {t.root})
    BY <1>1 DEF Fine, Dealt
  <2>6. \A c \in Nat \ {0} : c < t.root + 1 => c \in Range(t.ordered) \/ c = t.root
    BY <1>1 DEF RootsDone
  <2> HIDE DEF u
  <2> QED
    BY <2>1, <2>2, <2>3, <2>4, <2>5, <2>6, VisitKeeps
<1> QED
  BY <1>2, <1>3

\* ... the loop over the dependencies of the last component on the path, ...
LEMMA NextDependencyKeeps ==
    ASSUME NEW n \in Nat, NEW deps \in Graphs(n), NEW t,
           TraversalInv(n, deps, t), t.error = "pending", t.path # <<>>
    PROVE  TraversalInv(n, deps, NextDependency(n, deps, t))
<1> DEFINE c == t.path[Len(t.path)]
           d == deps[c][t.next[c]]
<1>1. /\ t \in Traversals(n) /\ Shaped(n, t.path, t.next, t.ordered)
      /\ Fine(deps, t.path, t.next, t.ordered, {})
      /\ RootsDone(t.root, t.path, t.ordered)
  BY DEF TraversalInv, Traversals, Shaped
<1>2. Len(t.path) \in 1 .. Len(t.path) /\ Len(t.path) \in Nat /\ 1 \in 1 .. Len(t.path)
  BY <1>1 DEF Shaped
<1>3. t.path \in Seq(1 .. n) /\ t.next \in [1 .. n -> Nat \ {0}] /\ t.ordered \in Seq(1 .. n)
  BY <1>1 DEF Shaped
<1>4. c \in 1 .. n /\ t.next[c] \in Nat \ {0} /\ deps[c] \in Seq(Nat)
  <2>1. c \in 1 .. n
    BY ONLY <1>2, <1>3
  <2> HIDE DEF c
  <2> QED
    BY <1>3, <2>1 DEF Graphs
<1>5. CASE t.next[c] > Len(deps[c])
  <2> DEFINE p == SubSeq(t.path, 1, Len(t.path) - 1)
             o == Append(t.ordered, c)
             u == [t EXCEPT !.path = SubSeq(@, 1, Len(@) - 1), !.ordered = Append(@, c)]
  <2>1. NextDependency(n, deps, t) = u
    BY <1>5 DEF NextDependency, Visited
  <2>2. p \in Seq(1 .. n) /\ Len(p) = Len(t.path) - 1 /\ Len(p) \in Nat
        /\ \A i \in 1 .. Len(p) : p[i] = t.path[i]
    BY <1>1, Shortened DEF Shaped
  <2>3. o \in Seq(1 .. n) /\ Range(o) = Range(t.ordered) \cup {c}
    BY <1>1, <1>4, Appended DEF Shaped
  <2>4. Fine(deps, p, t.next, o, {})
    BY <1>1, <1>5, Popped
  <2>5. u.root = t.root /\ u.path = p /\ u.next = t.next /\ u.ordered = o
        /\ u.error = "pending"
    BY <1>1 DEF Traversals
  <2> HIDE DEF p, o
  <2>6. [t EXCEPT !.path = p, !.ordered = o] \in Traversals(n)
    BY <1>1, <1>3, <2>2, <2>3, Assigned
  <2>7. u \in Traversals(n)
    BY ONLY <2>6 DEF p, o
  <2> HIDE DEF u
  <2>8. RootsDone(t.root, p, o)
    <3>1. \A b \in Nat \ {0} : b < t.root => b \in Range(t.ordered) \/ b = t.path[1]
      BY <1>1 DEF RootsDone
    <3>2. CASE Len(t.path) = 1
      BY <2>3, <3>1, <3>2 DEF RootsDone
    <3>3. CASE Len(t.path) # 1
      <4>1. 1 \in 1 .. Len(p)
        <5>1. Len(t.path) \in Nat /\ Len(t.path) >= 1
          BY ONLY <1>2
        <5>2. Len(p) = Len(t.path) - 1 /\ Len(p) \in Nat
          BY <2>2
        <5>3. \A a, b \in Nat : a >= 1 /\ a # 1 /\ b = a - 1 => 1 \in 1 .. b
          BY ONLY SMT
        <5> QED
          BY ONLY <5>1, <5>2, <5>3, <3>3, Zenon
      <4>2. p # <<>> /\ p[1] = t.path[1]
        BY ONLY <2>2, <4>1
      <4> QED
        BY <2>3, <3>1, <4>2 DEF RootsDone
    <3> QED
      BY <3>2, <3>3
  <2> QED
    BY <2>1, <2>4, <2>7, <2>8, <2>5 DEF TraversalInv
<1>6. CASE ~(t.next[c] > Len(deps[c])) /\ d \notin 1 .. n
  <2> DEFINE u == [t EXCEPT !.error = "unknown"]
  <2>1. NextDependency(n, deps, t) = u
    BY <1>6 DEF NextDependency
  <2>2. u \in Traversals(n) /\ u.error = "unknown"
    BY <1>1 DEF Traversals
  <2> QED
    BY <2>1, <2>2 DEF TraversalInv
<1>7. CASE ~(t.next[c] > Len(deps[c])) /\ d \in 1 .. n
  <2> DEFINE x == [t.next EXCEPT ![c] = @ + 1]
             u == [t EXCEPT !.next[c] = @ + 1]
  <2>1. NextDependency(n, deps, t) = Visit(u, d)
    BY <1>7 DEF NextDependency
  <2>2. /\ x \in [1 .. n -> Nat \ {0}] /\ x[c] = t.next[c] + 1
        /\ \A b \in 1 .. n : b # c => x[b] = t.next[b]
    <3>1. t.next[c] + 1 \in Nat \ {0}
      BY ONLY <1>4
    <3> HIDE DEF c
    <3> QED
      BY ONLY <1>3, <1>4, <3>1
  <2>3. u = [t EXCEPT !.next = x]
    OBVIOUS
  <2> HIDE DEF x, u
  <2>4. u \in Traversals(n)
    BY <1>1, <1>3, <2>2, <2>3, Assigned
  <2>5. u.root = t.root /\ u.path = t.path /\ u.next = x /\ u.ordered = t.ordered
        /\ u.error = "pending"
    BY <1>1, <2>3, NextAssigned
  <2>6. Dealt(deps, t.path, x, t.ordered, {d})
    <3> SUFFICES ASSUME NEW i \in 1 .. Len(t.path), NEW q \in DOMAIN deps[t.path[i]],
                        q < x[t.path[i]], deps[t.path[i]][q] \notin Range(t.ordered)
                 PROVE  \/ i < Len(t.path) /\ deps[t.path[i]][q] = t.path[i + 1]
                        \/ i = Len(t.path) /\ deps[t.path[i]][q] = d
      BY DEF Dealt
    <3>1. q < t.next[t.path[i]] => i < Len(t.path) /\ deps[t.path[i]][q] = t.path[i + 1]
      BY <1>1 DEF Fine, Dealt
    <3>2. t.path[i] \in 1 .. n
      BY <1>3, Elements
    <3>3. CASE t.path[i] # c
      BY ONLY <2>2, <3>1, <3>2, <3>3, q < x[t.path[i]]
    <3>4. CASE t.path[i] = c
      <4>1. i = Len(t.path)
        BY <1>1, <1>2, <3>4 DEF Fine, Distinct
      <4>2. q \in Nat
        BY <1>4, <3>4
      <4>3. q < t.next[c] + 1
        BY <2>2, <3>4
      <4>4. q = t.next[c] \/ q < t.next[c]
        BY ONLY <4>2, <4>3, <1>4
      <4>5. ~(q < t.next[c])
        BY ONLY <1>2, <3>1, <3>4, <4>1
      <4> QED
        BY <3>4, <4>1, <4>4, <4>5
    <3> QED
      BY <3>3, <3>4
  <2>7. Fine(deps, t.path, x, t.ordered, {d})
    BY <1>1, <2>6 DEF Fine
  <2>8. \A b \in Nat \ {0} : b < t.root => b \in Range(t.ordered) \/ b = t.path[1]
    BY <1>1 DEF RootsDone
  <2> HIDE DEF d
  <2> QED
    BY <1>7, <2>1, <2>4, <2>5, <2>7, <2>8, VisitKeeps
<1> QED
  BY <1>5, <1>6, <1>7

\* ... and with them any move.
LEMMA MoveKeeps ==
    ASSUME NEW n \in Nat, NEW deps \in Graphs(n), NEW t,
           TraversalInv(n, deps, t)
    PROVE  TraversalInv(n, deps, Move(n, deps, t))
BY NextComponentKeeps, NextDependencyKeeps DEF Move

\* There are moves enough: the numbers of dependencies have a greatest.
LEMMA MovesIsNat ==
    ASSUME NEW n \in Nat, NEW deps \in Graphs(n)
    PROVE  Moves(n, deps) \in Nat
<1> DEFINE L == {0} \cup {Len(deps[c]) : c \in 1 .. n}
           T == {k \in Nat : k <= n /\ ~ \E l \in L : \A c \in 1 .. k : Len(deps[c]) <= l}
<1>1. \A c \in 1 .. n : Len(deps[c]) \in Nat /\ Len(deps[c]) \in L
  BY DEF Graphs
<1>2. T \subseteq Nat /\ \A k \in Nat :
        k \in T <=> k <= n /\ ~ \E l \in L : \A c \in 1 .. k : Len(deps[c]) <= l
  OBVIOUS
<1>3. L \subseteq Nat /\ 0 \in L
  BY <1>1
<1> HIDE DEF L, T
<1>4. T = {}
  <2> SUFFICES ASSUME T # {} PROVE FALSE
    OBVIOUS
  <2>1. PICK k \in T : \A j \in T : k <= j
    BY <1>2, LeastFailure
  <2>2. k \in Nat /\ k <= n /\ ~ \E l \in L : \A c \in 1 .. k : Len(deps[c]) <= l
    BY <1>2, <2>1
  <2>3. k # 0
    <3>1. ASSUME k = 0
          PROVE  \A c \in 1 .. k : Len(deps[c]) <= 0
      BY <3>1
    <3> QED
      BY <1>3, <2>2, <3>1
  <2>4. k - 1 \in Nat /\ k - 1 <= n /\ k \in 1 .. n /\ ~(k <= k - 1)
    BY ONLY <2>2, <2>3, n \in Nat
  <2>5. k - 1 \in Nat /\ k - 1 <= n /\ k \in 1 .. n /\ k - 1 \notin T
    BY <2>1, <2>4
  <2>6. PICK l \in L : \A c \in 1 .. k - 1 : Len(deps[c]) <= l
    BY <1>2, <2>5
  <2>7. \A c \in 1 .. k : c \in 1 .. k - 1 \/ c = k
    BY <2>5
  <2>8. CASE Len(deps[k]) <= l
    <3>1. \A c \in 1 .. k : Len(deps[c]) <= l
      BY <2>6, <2>7, <2>8
    <3> QED
      BY <2>2, <3>1
  <2>9. CASE ~(Len(deps[k]) <= l)
    <3>1. \A c \in 1 .. k : Len(deps[c]) <= Len(deps[k])
      <4>1. ASSUME NEW c \in 1 .. k - 1
            PROVE  Len(deps[c]) <= Len(deps[k])
        <5>1. c \in 1 .. n
          BY <2>5
        <5>2. Len(deps[c]) <= l
          BY <2>6
        <5> QED
          BY ONLY <5>1, <5>2, <2>5, <2>9, <1>1, <1>3, l \in L
      <4>2. Len(deps[k]) <= Len(deps[k])
        BY ONLY <1>1, <2>5
      <4> QED
        BY <2>7, <4>1, <4>2
    <3> QED
      BY <1>1, <2>2, <2>5, <3>1
  <2> QED
    BY <2>8, <2>9
<1>5. \E l \in L : \A c \in 1 .. n : Len(deps[c]) <= l
  <2>1. n \notin T /\ n <= n
    BY <1>4
  <2> QED
    BY <1>2, <2>1
<1>6. Longest(n, deps) \in L
  BY <1>5, Zenon DEF Longest, L
<1>7. Longest(n, deps) \in Nat
  BY <1>3, <1>6
<1>8. \A l \in Nat : (n + 1) * (l + 2) \in Nat
  <2> SUFFICES ASSUME NEW l \in Nat PROVE (n + 1) * (l + 2) \in Nat
    OBVIOUS
  <2>1. \A a, b \in Nat : a * b \in Nat
    BY ONLY SMT
  <2>2. n + 1 \in Nat /\ l + 2 \in Nat
    BY ONLY n \in Nat, l \in Nat
  <2> QED
    BY ONLY <2>1, <2>2, Zenon
<1> QED
  BY <1>7, <1>8, Zenon DEF Moves

\* A traversal is right after any number of moves.
LEMMA TraversalKeeps ==
    ASSUME NEW n \in Nat, NEW deps \in Graphs(n), NEW f, Traversal(n, deps, f)
    PROVE  \A k \in Nat : TraversalInv(n, deps, f[k])
<1> DEFINE T == {k \in Nat : ~TraversalInv(n, deps, f[k])}
<1> SUFFICES ASSUME T # {} PROVE FALSE
  OBVIOUS
<1>1. \A k \in Nat : f[k] = IF k = 0 THEN Begin(n) ELSE Move(n, deps, f[k - 1])
  BY DEF Traversal
<1>2. PICK k \in T : \A j \in T : k <= j
  <2>1. T \subseteq Nat
    OBVIOUS
  <2> HIDE DEF T
  <2> QED
    BY <2>1, LeastFailure
<1>3. k # 0
  BY <1>1, <1>2, TraversalBegins
<1>4. k - 1 \in Nat /\ k - 1 \notin T
  BY <1>2, <1>3
<1>5. TraversalInv(n, deps, f[k - 1]) /\ f[k] = Move(n, deps, f[k - 1])
  BY <1>1, <1>2, <1>3, <1>4
<1>6. TraversalInv(n, deps, f[k])
  BY <1>5, MoveKeeps
<1> QED
  BY <1>2, <1>6

\* When orderComponents (boot/components.go) returns no error, its result has every
\* component once and each after those it depends on, however many there are and
\* whatever DependsOn returns.
THEOREM OrderedIsOrder ==
    ASSUME NEW n \in Nat, NEW deps \in Graphs(n),
           orderComponents(n, deps).error = "none"
    PROVE  IsOrder(n, deps, orderComponents(n, deps).ordered)
<1> DEFINE t == orderComponents(n, deps)
           o == t.ordered
<1>1. TraversalInv(n, deps, t)
  BY OrderComponentsMoves, MovesIsNat, TraversalKeeps
<1> HIDE DEF t
<1>2. t.error = "none"
  BY DEF t
<1>3. /\ o \in Seq(1 .. n) /\ Distinct(o) /\ InOrder(deps, o)
      /\ RootsDone(n + 1, <<>>, o)
  BY <1>1, <1>2 DEF TraversalInv, Traversals, Fine
<1> HIDE DEF o
<1>4. /\ Len(o) \in Nat /\ DOMAIN o = 1 .. Len(o) /\ o \in [1 .. Len(o) -> 1 .. n]
  BY <1>3
<1>5. \A c \in 1 .. n : c \in Range(o)
  BY <1>3 DEF RootsDone
<1>6. \A c \in 1 .. n : \E i \in 1 .. Len(o) : o[i] = c
  BY <1>4, <1>5 DEF Range
<1>7. Len(o) = n
  <2>1. o \in Bijection(1 .. Len(o), 1 .. n)
    BY <1>3, <1>4, <1>6 DEF Bijection, Injection, Surjection, IsInjective, Distinct
  <2>2. Cardinality(1 .. n) = Len(o)
    BY <1>4, <2>1, FS_CountingElements DEF ExistsBijection
  <2>3. Cardinality(1 .. n) = IF 1 > n THEN 0 ELSE n - 1 + 1
    BY FS_Interval
  <2> QED
    BY ONLY <2>2, <2>3, n \in Nat
<1>8. o \in Bijection(1 .. n, 1 .. n)
  BY <1>3, <1>4, <1>6, <1>7 DEF Bijection, Injection, Surjection, IsInjective, Distinct
<1>9. Respects(o, DependsOn(n, deps))
  <2> SUFFICES ASSUME NEW i \in 1 .. Len(o), NEW j \in 1 .. Len(o),
                      o[j] \in Range(deps[o[i]])
               PROVE  j < i
    BY <1>4 DEF Respects, DependsOn
  <2>1. PICK q \in DOMAIN deps[o[i]] : o[j] = deps[o[i]][q]
    BY DEF Range
  <2>2. PICK k \in 1 .. Len(o) : k < i /\ o[k] = deps[o[i]][q]
    BY <1>3, <2>1 DEF InOrder
  <2> QED
    BY <1>3, <2>1, <2>2 DEF Distinct
<1> QED
  BY <1>8, <1>9 DEF IsOrder, t, o

-----------------------------------------------------------------------------
(* New: the configuration and the resources.                               *)

\* The environment is applied; a secret never comes from a remote layer.
EnvApplied ==
    /\ env.requireTLS # "unset" => cfg.requireTLS = (env.requireTLS = "true")
    /\ env.dsn => cfg.dsn \in {"env", "unused"}
    /\ env.secret => cfg.secret = "env"

ConfigInv ==
    /\ cfg.dsn # "remote" /\ cfg.secret # "remote"
    /\ step \notin {"load", "error", "running"} => EnvApplied
    /\ step \in {"validate", "server", "telemetry", "databases", "redis", "registry", "app"}
          => ~HasInlineSecret(cfg)
    /\ step \in {"server", "telemetry", "databases", "redis", "registry", "app"}
          => Valid(cfg)

\* The policy is checked before the first contact, and a server contacted later
\* is one of the final configuration.
PolicyInv ==
    /\ step \in {"load", "policy"} => contacts = {}
    /\ step = "policy" => cfg = localCfg
    /\ step \in {"fetchService", "fetchNode"}
          => cfg = localCfg /\ TransportsAllowed(cfg) /\ UsesRemote(cfg)
    /\ \A c \in contacts : c.to = "config" => c.tls \/ ~localCfg.requireTLS
    /\ \A c \in contacts : c.to # "config" =>
          /\ step \in {"registry", "app", "error"}
          /\ c.tls \/ ~cfg.requireTLS

\* Telemetry is the first resource and stays open until Close; the others open
\* are those whose error paths come after them.
OpenedInv ==
    /\ step \in {"load", "policy", "fetchService", "fetchNode", "merge", "secrets",
                 "validate", "server", "telemetry", "error"} => opened = {}
    /\ step \in {"databases", "redis"} => opened \subseteq Databases \cup {"telemetry"}
    /\ step \in {"registry"} => opened \subseteq Databases \cup {"telemetry", "redis"}
    /\ step \in {"databases", "redis", "registry", "app"} => "telemetry" \in opened
    /\ step = "running" /\ closeOnce # "done" => "telemetry" \in opened

-----------------------------------------------------------------------------
(* Run and Close: where the two goroutines are.                            *)

Late == {"close", "closeStop", "closeWatch", "release", "exited"}
Draining == {"drain", "drainWait", "watchWait", "onClose"}
Early == {"setup", "listen", "pprof", "register", "watch", "onStart"}

\* Run runs with an App.  User code closes it when Run does so too or has
\* returned; one of them is in closeOnce, and in componentStopOnce.
ControlInv ==
    /\ pc["run"] \notin {"setup", "exited"} => step = "running"
    /\ pc["run"] = "exited" => \/ step = "running" /\ closeOnce = "done"
                               \/ step = "error" /\ pc["closer"] = "exited"
    /\ pc["closer"] # "idle" => pc["run"] \in Late
    /\ pc["closer"] \notin {"idle", "exited"} => step = "running"
    /\ \A t \in Threads : closeOnce = t <=> pc[t] \in {"closeStop", "closeWatch", "release"}
    /\ \A t \in Threads : pc[t] \in {"closeWatch", "release"} => stopOnce = "done"
    /\ \A t \in Threads : stopOnce = t => pc[t] \in {"stop", "closeStop"}
    /\ pc["run"] \in Draining => stopOnce = "done"
    /\ stopOnce # "free" => pc["run"] \in {"stop"} \cup Draining \cup Late
    /\ closeOnce = "done" => stopOnce = "done" /\ opened = {} /\ pc["run"] \in Late

-----------------------------------------------------------------------------
(* Components.                                                             *)

Settled == \A i \in Components : comp[i] \notin {"up", "starting", "stopping"}

\* While they start: those before idx are up, those after it untouched.
StartPhase ==
    \A k \in Components :
        /\ k < idx => comp[order[k]] = "up"
        /\ k = idx => comp[order[k]] \in {"new", "starting", "up", "failed"}
        /\ k > idx => comp[order[k]] = "new"

\* While they stop: those before idx are up, those after it are not any more.
StopPhase ==
    \A k \in Components :
        /\ k < idx => comp[order[k]] = "up"
        /\ k = idx => comp[order[k]] \in {"up", "stopping", "stopped"}
        /\ k > idx => comp[order[k]] \notin {"up", "starting", "stopping"}

OrderInv ==
    /\ order = <<>> \/ order \in Bijection(Components, Components)
    /\ order = <<>> => needs = {} /\ ~started /\ \A i \in Components : comp[i] = "new"
    /\ order # <<>> => Respects(order, needs)
    /\ pc["run"] \in Early => order = <<>>

PhaseInv ==
    /\ pc["run"] \in {"start", "rollback"} => ~started
    /\ pc["run"] = "start" =>
          idx > 0 /\ IF order = <<>> THEN idx = 1 ELSE StartPhase
    /\ pc["run"] = "rollback" \/ stopOnce \in Threads => order # <<>> /\ StopPhase
    /\ started /\ stopOnce = "free" => \A i \in Components : comp[i] = "up"
    /\ stopOnce = "done" => Settled
    /\ ~started /\ pc["run"] \notin {"start", "rollback"} => Settled
    /\ (\E i \in Components : comp[i] = "lingering") => "stop" \in gaveUp

-----------------------------------------------------------------------------
(* What others see, and what Close must not take away from them.           *)

ReadyInv ==
    /\ ready => pc["run"] \in {"notify", "wait"}
    /\ pc["run"] \in {"notify", "wait"} => started \/ N = 0

\* An App that never was has no components to order.
NewInv == step # "running" => order = <<>>

ServersInv ==
    /\ pc["run"] \in {"setup", "listen"} => serving = {} /\ requests = {}
    /\ pc["run"] \in {"pprof", "register", "watch", "onStart", "start", "rollback",
                      "notify", "wait"} => "http" \in serving \cup serveErr
    /\ pc["run"] \in {"drainWait", "watchWait", "onClose"} \cup Late => serving = {}
    /\ pc["run"] \in {"watchWait", "onClose"} \cup Late
          => requests = {} \/ "drain" \in gaveUp

RegistrationInv ==
    /\ registered => named
    /\ pc["run"] \in {"setup", "listen", "pprof", "register"} => ~registered
    /\ pc["run"] \in {"watch", "onStart", "start", "rollback", "notify", "wait"}
          => ("registry" \in opened => registered)
    /\ pc["run"] \in {"stop"} \cup Draining \cup Late /\ registered
          => "deregister" \in gaveUp

WatcherInv ==
    /\ pc["run"] \in {"setup", "listen", "pprof", "register", "watch"} => watcher = "off"
    /\ pc["run"] \in {"onClose"} \cup Late /\ watcher \in {"on", "cancelled"}
          => "watcher" \in gaveUp

-----------------------------------------------------------------------------
(* Types, and the two invariants.                                          *)

PcTypes ==
    /\ pc \in [Threads -> RunPCs \cup CloserPCs]
    /\ pc["run"] \in RunPCs /\ pc["closer"] \in CloserPCs
    /\ stopOnce \in {"free", "done"} \cup Threads
    /\ closeOnce \in {"free", "done"} \cup Threads

NetTypes ==
    /\ serving \subseteq Servers /\ serveErr \subseteq Servers
    /\ requests \subseteq Servers
    /\ watcher \in {"off", "on", "cancelled", "done"}
    /\ gaveUp \subseteq GiveUps

FlagTypes ==
    /\ ready \in BOOLEAN
    /\ registered \in BOOLEAN /\ named \in BOOLEAN
    /\ notify \in BOOLEAN /\ quit \in BOOLEAN /\ killed \in BOOLEAN

CompTypes ==
    /\ needs \subseteq Components \X Components
    /\ idx \in 0 .. N
    /\ comp \in [Components -> CompStates]
    /\ started \in BOOLEAN

\* Whatever order the components have.
AppInd ==
    /\ StartupTypeOK /\ ConfigInv /\ PolicyInv /\ OpenedInv
    /\ PcTypes /\ ControlInv
    /\ NetTypes /\ FlagTypes /\ ServersInv /\ RegistrationInv /\ WatcherInv

\* Of the components.
CompInd == CompTypes /\ OrderInv /\ NewInv /\ PhaseInv /\ ReadyInv

-----------------------------------------------------------------------------
(* The steps.                                                              *)

\* A goroutine goes on, the other stays where it is.
LEMMA GotoRun ==
    ASSUME NEW p, PcTypes, Goto("run", p)
    PROVE  /\ pc'["run"] = p /\ pc'["closer"] = pc["closer"]
           /\ p \in RunPCs => pc' \in [Threads -> RunPCs \cup CloserPCs]
BY DEF Goto, PcTypes, Threads

\* The same for the closer.
LEMMA GotoCloser ==
    ASSUME NEW p, PcTypes, Goto("closer", p)
    PROVE  /\ pc'["closer"] = p /\ pc'["run"] = pc["run"]
           /\ p \in CloserPCs => pc' \in [Threads -> RunPCs \cup CloserPCs]
BY DEF Goto, PcTypes, Threads

\* New works before Run begins.
LEMMA Booting ==
    ASSUME Boot, PcTypes, ControlInv
    PROVE  /\ step \notin {"app", "running", "error"} /\ step' # "running"
           /\ pc["run"] = "setup" /\ UNCHANGED runVars
BY DEF Boot, NewStep, LoadFile, CheckPolicy, Fetch, FetchService, FetchNode,
       MergeLayers, CheckSecrets, CheckConfig, PrepareServer, Acquire, InitTelemetry,
       OpenDatabase, DatabasesOpen, OpenRedis, NewRegistry, Refuse, Proceed, ControlInv,
       PcTypes, RunPCs, UsesRemote

\* A goroutine stops components, waits for the watcher or enters closeOnce.
StopsOrWaits(t) ==
    \/ StopComponents(t) \/ StopBegins(t) \/ StopAdvances(t) \/ StopLoopEnds(t)
    \/ WatcherWait(t) \/ EnterClose(t)

\* The kinds of steps.
LEMMA StepCases ==
    ASSUME [Next]_vars
    PROVE  \/ RunStep \/ Environment \/ Boot \/ NewReturns \/ UNCHANGED vars
           \/ StopsOrWaits("run") /\ UNCHANGED <<newVars, orderVars>>
           \/ StopsOrWaits("closer") /\ UNCHANGED <<newVars, orderVars>>
           \/ Release("run") /\ UNCHANGED <<newVars, orderVars>>
           \/ Release("closer") /\ UNCHANGED <<newVars, orderVars>>
BY DEF Next, SharedStep, Threads, Terminated, StopsOrWaits

-----------------------------------------------------------------------------
(* Run and Close.                                                          *)

\* The definitions the steps are made of.
USE DEF vars, newVars, appVars, runVars, orderVars, compVars, netVars, regVars, sigVars,
        At, Threads, RunPCs, CloserPCs, Late, Draining, Early, PcTypes, BeginShutdown,
        InStopLoop, AfterStop, StopLoopStart, AfterWatch, Leave,
        RunStep, Setup, Listen, ListenPprof, Register, StartWatcher, OnStart,
        OrderComponents, StartBegins, StartSucceeded, StartFailed, InstallNotify, WaitEnds,
        Deregister, DrainBegins, DrainEnds, OnClose,
        StopsOrWaits, StopComponents, StopBegins, StopAdvances, StopLoopEnds, WatcherWait,
        EnterClose, Release,
        Environment, StartReturns, StopReturns, Signal, ServerFails, RequestBegins,
        RequestEnds, WatcherEnds, CloserCalls, NewReturns

\* Each goroutine is where its code is.
LEMMA PcTypesStep == AppInd /\ [Next]_vars => PcTypes'
<1> SUFFICES ASSUME AppInd, [Next]_vars PROVE PcTypes'
  OBVIOUS
<1>a. [Next]_vars
  OBVIOUS
<1>1. PcTypes /\ ControlInv
  BY DEF AppInd
<1>2. CASE RunStep
  BY <1>1, <1>2, GotoRun DEF PcTypes
<1>3. CASE Environment
  BY <1>1, <1>3, GotoCloser DEF PcTypes
<1>4. CASE Boot
  BY <1>1, <1>4, Booting DEF PcTypes
<1>5. CASE NewReturns
  BY <1>1, <1>5, GotoRun DEF PcTypes
<1>6. CASE UNCHANGED vars
  BY <1>1, <1>6 DEF PcTypes
<1>7. CASE StopsOrWaits("run") /\ UNCHANGED <<newVars, orderVars>>
  BY <1>1, <1>7, GotoRun DEF PcTypes
<1>8. CASE StopsOrWaits("closer") /\ UNCHANGED <<newVars, orderVars>>
  BY <1>1, <1>8, GotoCloser DEF PcTypes
<1>9. CASE Release("run") /\ UNCHANGED <<newVars, orderVars>>
  BY <1>1, <1>9, GotoRun DEF PcTypes
<1>10. CASE Release("closer") /\ UNCHANGED <<newVars, orderVars>>
  BY <1>1, <1>10, GotoCloser DEF PcTypes
<1> HIDE DEF RunStep, Environment, NewReturns, StopsOrWaits, Release, vars, newVars,
             orderVars
<1> QED
  BY ONLY <1>a, <1>2, <1>3, <1>4, <1>5, <1>6, <1>7, <1>8, <1>9, <1>10, StepCases

\* Listeners, requests and the watcher keep their types.
LEMMA NetTypesStep == AppInd /\ [Next]_vars => NetTypes'
<1> SUFFICES ASSUME AppInd, [Next]_vars PROVE NetTypes'
  OBVIOUS
<1>a. [Next]_vars
  OBVIOUS
<1>1. PcTypes /\ ControlInv /\ NetTypes
  BY DEF AppInd
<1>2. CASE RunStep
  BY <1>1, <1>2, GotoRun DEF NetTypes, GiveUps
<1>3. CASE Environment
  BY <1>1, <1>3, GotoCloser DEF NetTypes, GiveUps
<1>4. CASE Boot
  BY <1>1, <1>4, Booting DEF NetTypes, GiveUps
<1>5. CASE NewReturns
  BY <1>1, <1>5, GotoRun DEF NetTypes, GiveUps
<1>6. CASE UNCHANGED vars
  BY <1>1, <1>6 DEF NetTypes, GiveUps
<1>7. CASE StopsOrWaits("run") /\ UNCHANGED <<newVars, orderVars>>
  BY <1>1, <1>7, GotoRun DEF NetTypes, GiveUps
<1>8. CASE StopsOrWaits("closer") /\ UNCHANGED <<newVars, orderVars>>
  BY <1>1, <1>8, GotoCloser DEF NetTypes, GiveUps
<1>9. CASE Release("run") /\ UNCHANGED <<newVars, orderVars>>
  BY <1>1, <1>9, GotoRun DEF NetTypes, GiveUps
<1>10. CASE Release("closer") /\ UNCHANGED <<newVars, orderVars>>
  BY <1>1, <1>10, GotoCloser DEF NetTypes, GiveUps
<1> HIDE DEF RunStep, Environment, NewReturns, StopsOrWaits, Release, vars, newVars,
             orderVars
<1> QED
  BY ONLY <1>a, <1>2, <1>3, <1>4, <1>5, <1>6, <1>7, <1>8, <1>9, <1>10, StepCases

\* The onces are entered by one goroutine, and left in order.
LEMMA ControlStep == AppInd /\ [Next]_vars => ControlInv'
<1> SUFFICES ASSUME AppInd, [Next]_vars PROVE ControlInv'
  OBVIOUS
<1>a. [Next]_vars
  OBVIOUS
<1>1. PcTypes /\ ControlInv
  BY DEF AppInd
<1>2. CASE RunStep
  BY <1>1, <1>2, GotoRun DEF ControlInv
<1>3. CASE Environment
  BY <1>1, <1>3, GotoCloser DEF ControlInv
<1>4. CASE Boot
  BY <1>1, <1>4, Booting DEF ControlInv
<1>5. CASE NewReturns
  BY <1>1, <1>5, GotoRun DEF ControlInv
<1>6. CASE UNCHANGED vars
  BY <1>1, <1>6 DEF ControlInv
<1>7. CASE StopsOrWaits("run") /\ UNCHANGED <<newVars, orderVars>>
  BY <1>1, <1>7, GotoRun DEF ControlInv
<1>8. CASE StopsOrWaits("closer") /\ UNCHANGED <<newVars, orderVars>>
  BY <1>1, <1>8, GotoCloser DEF ControlInv
<1>9. CASE Release("run") /\ UNCHANGED <<newVars, orderVars>>
  BY <1>1, <1>9, GotoRun DEF ControlInv
<1>10. CASE Release("closer") /\ UNCHANGED <<newVars, orderVars>>
  BY <1>1, <1>10, GotoCloser DEF ControlInv
<1> HIDE DEF RunStep, Environment, NewReturns, StopsOrWaits, Release, vars, newVars,
             orderVars
<1> QED
  BY ONLY <1>a, <1>2, <1>3, <1>4, <1>5, <1>6, <1>7, <1>8, <1>9, <1>10, StepCases

\* The listeners are bound first and closed before the wait for their requests.
LEMMA ServersStep == AppInd /\ [Next]_vars => ServersInv'
<1> SUFFICES ASSUME AppInd, [Next]_vars PROVE ServersInv'
  OBVIOUS
<1>a. [Next]_vars
  OBVIOUS
<1>1. PcTypes /\ ControlInv /\ ServersInv
  BY DEF AppInd
<1>2. CASE RunStep
  BY <1>1, <1>2, GotoRun, ServersAssumption DEF ServersInv
<1>3. CASE Environment
  BY <1>1, <1>3, GotoCloser, ServersAssumption DEF ServersInv
<1>4. CASE Boot
  BY <1>1, <1>4, Booting, ServersAssumption DEF ServersInv
<1>5. CASE NewReturns
  BY <1>1, <1>5, GotoRun, ServersAssumption DEF ServersInv
<1>6. CASE UNCHANGED vars
  BY <1>1, <1>6, ServersAssumption DEF ServersInv
<1>7. CASE StopsOrWaits("run") /\ UNCHANGED <<newVars, orderVars>>
  BY <1>1, <1>7, GotoRun, ServersAssumption DEF ServersInv
<1>8. CASE StopsOrWaits("closer") /\ UNCHANGED <<newVars, orderVars>>
  BY <1>1, <1>8, GotoCloser, ServersAssumption DEF ServersInv
<1>9. CASE Release("run") /\ UNCHANGED <<newVars, orderVars>>
  BY <1>1, <1>9, GotoRun, ServersAssumption DEF ServersInv
<1>10. CASE Release("closer") /\ UNCHANGED <<newVars, orderVars>>
  BY <1>1, <1>10, GotoCloser, ServersAssumption DEF ServersInv
<1> HIDE DEF RunStep, Environment, NewReturns, StopsOrWaits, Release, vars, newVars,
             orderVars
<1> QED
  BY ONLY <1>a, <1>2, <1>3, <1>4, <1>5, <1>6, <1>7, <1>8, <1>9, <1>10, StepCases

\* The watcher is waited for before Close.
LEMMA WatcherStep == AppInd /\ [Next]_vars => WatcherInv'
<1> SUFFICES ASSUME AppInd, [Next]_vars PROVE WatcherInv'
  OBVIOUS
<1>a. [Next]_vars
  OBVIOUS
<1>1. PcTypes /\ ControlInv /\ WatcherInv
  BY DEF AppInd
<1>2. CASE RunStep
  BY <1>1, <1>2, GotoRun DEF WatcherInv
<1>3. CASE Environment
  BY <1>1, <1>3, GotoCloser DEF WatcherInv
<1>4. CASE Boot
  BY <1>1, <1>4, Booting DEF WatcherInv
<1>5. CASE NewReturns
  BY <1>1, <1>5, GotoRun DEF WatcherInv
<1>6. CASE UNCHANGED vars
  BY <1>1, <1>6 DEF WatcherInv
<1>7. CASE StopsOrWaits("run") /\ UNCHANGED <<newVars, orderVars>>
  BY <1>1, <1>7, GotoRun DEF WatcherInv
<1>8. CASE StopsOrWaits("closer") /\ UNCHANGED <<newVars, orderVars>>
  BY <1>1, <1>8, GotoCloser DEF WatcherInv
<1>9. CASE Release("run") /\ UNCHANGED <<newVars, orderVars>>
  BY <1>1, <1>9, GotoRun DEF WatcherInv
<1>10. CASE Release("closer") /\ UNCHANGED <<newVars, orderVars>>
  BY <1>1, <1>10, GotoCloser DEF WatcherInv
<1> HIDE DEF RunStep, Environment, NewReturns, StopsOrWaits, Release, vars, newVars,
             orderVars
<1> QED
  BY ONLY <1>a, <1>2, <1>3, <1>4, <1>5, <1>6, <1>7, <1>8, <1>9, <1>10, StepCases

\* The flags are flags.
LEMMA FlagTypesStep == AppInd /\ [Next]_vars => FlagTypes'
<1> SUFFICES ASSUME AppInd, [Next]_vars PROVE FlagTypes'
  OBVIOUS
<1>a. [Next]_vars
  OBVIOUS
<1>1. PcTypes /\ ControlInv /\ FlagTypes
  BY DEF AppInd
<1>2. CASE RunStep
  <2>1. CASE Register
    <3>1. named' \in BOOLEAN /\ registered' \in BOOLEAN
      <4>1. named' = ("registry" \in opened)
        BY <2>1, Zenon DEF Register
      <4>2. registered' = ("registry" \in opened) \/ registered' \in BOOLEAN
        BY <2>1, Zenon DEF Register
      <4> HIDE DEF Register
      <4>3. ("registry" \in opened) \in BOOLEAN
        OBVIOUS
      <4> QED
        BY <4>1, <4>2, <4>3, Zenon
    <3>2. UNCHANGED <<notify, quit, killed>> /\ (ready' = ready \/ ready' = FALSE)
      BY <2>1, Zenon DEF Register, BeginShutdown, sigVars
    <3>3. notify \in BOOLEAN /\ quit \in BOOLEAN /\ killed \in BOOLEAN /\ ready \in BOOLEAN
      BY <1>1, Zenon DEF FlagTypes
    <3> QED
      BY <3>1, <3>2, <3>3, Zenon DEF FlagTypes
  <2>2. CASE ~Register
    BY <1>1, <1>2, <2>2, GotoRun DEF FlagTypes
  <2> QED
    BY <2>1, <2>2
<1>3. CASE Environment
  BY <1>1, <1>3, GotoCloser DEF FlagTypes
<1>4. CASE Boot
  BY <1>1, <1>4, Booting DEF FlagTypes
<1>5. CASE NewReturns
  BY <1>1, <1>5, GotoRun DEF FlagTypes
<1>6. CASE UNCHANGED vars
  BY <1>1, <1>6 DEF FlagTypes
<1>7. CASE StopsOrWaits("run") /\ UNCHANGED <<newVars, orderVars>>
  BY <1>1, <1>7, GotoRun DEF FlagTypes
<1>8. CASE StopsOrWaits("closer") /\ UNCHANGED <<newVars, orderVars>>
  BY <1>1, <1>8, GotoCloser DEF FlagTypes
<1>9. CASE Release("run") /\ UNCHANGED <<newVars, orderVars>>
  BY <1>1, <1>9, GotoRun DEF FlagTypes
<1>10. CASE Release("closer") /\ UNCHANGED <<newVars, orderVars>>
  BY <1>1, <1>10, GotoCloser DEF FlagTypes
<1> HIDE DEF RunStep, Environment, NewReturns, StopsOrWaits, Release, vars, newVars,
             orderVars
<1> QED
  BY ONLY <1>a, <1>2, <1>3, <1>4, <1>5, <1>6, <1>7, <1>8, <1>9, <1>10, StepCases

\* The instance is registered from Register on until it is deregistered.
LEMMA RegistrationStep == AppInd /\ [Next]_vars => RegistrationInv'
<1> SUFFICES ASSUME AppInd, [Next]_vars PROVE RegistrationInv'
  OBVIOUS
<1>a. [Next]_vars
  OBVIOUS
<1>1. PcTypes /\ ControlInv /\ FlagTypes /\ RegistrationInv
  BY DEF AppInd
<1>2. CASE RunStep
  <2>1. CASE Register
    <3>1. named' = ("registry" \in opened) /\ (registered' => "registry" \in opened)
      BY <2>1, Zenon DEF Register
    <3>2. registered' => named'
      BY <3>1, Zenon
    <3>3. UNCHANGED <<opened, gaveUp>>
      BY <2>1 DEF Register
    <3>4. \/ pc'["run"] = "watch" /\ ("registry" \in opened => registered')
          \/ pc'["run"] = "deregister"
      <4>1. \/ Goto("run", "watch") /\ registered' = ("registry" \in opened)
            \/ Goto("run", "deregister")
        BY <2>1, Zenon DEF Register, BeginShutdown
      <4> HIDE DEF Register
      <4>2. CASE Goto("run", "watch") /\ registered' = ("registry" \in opened)
        <5>1. pc'["run"] = "watch"
          BY <1>1, <4>2, GotoRun
        <5>2. "registry" \in opened => registered'
          BY <4>2, Zenon
        <5> QED
          BY <5>1, <5>2
      <4>3. CASE Goto("run", "deregister")
        BY <1>1, <4>3, GotoRun
      <4> QED
        BY <4>1, <4>2, <4>3
    <3> HIDE DEF Register
    <3> QED
      BY <3>2, <3>3, <3>4 DEF RegistrationInv
  <2>2. CASE ~Register
    BY <1>1, <1>2, <2>2, GotoRun DEF RegistrationInv, FlagTypes
  <2> QED
    BY <2>1, <2>2
<1>3. CASE Environment
  BY <1>1, <1>3, GotoCloser DEF RegistrationInv, FlagTypes
<1>4. CASE Boot
  BY <1>1, <1>4, Booting DEF RegistrationInv, FlagTypes
<1>5. CASE NewReturns
  BY <1>1, <1>5, GotoRun DEF RegistrationInv, FlagTypes
<1>6. CASE UNCHANGED vars
  BY <1>1, <1>6 DEF RegistrationInv, FlagTypes
<1>7. CASE StopsOrWaits("run") /\ UNCHANGED <<newVars, orderVars>>
  BY <1>1, <1>7, GotoRun DEF RegistrationInv, FlagTypes
<1>8. CASE StopsOrWaits("closer") /\ UNCHANGED <<newVars, orderVars>>
  BY <1>1, <1>8, GotoCloser DEF RegistrationInv, FlagTypes
<1>9. CASE Release("run") /\ UNCHANGED <<newVars, orderVars>>
  <2>1. (registered' = registered \/ registered' = FALSE) /\ UNCHANGED named
    BY <1>9, Zenon DEF Release, regVars
  <2>2. registered' => registered
    BY <2>1, Zenon
  <2>3. pc["run"] = "release" /\ UNCHANGED gaveUp
    BY <1>9 DEF Release, At
  <2>4. pc["run"] \in Late /\ pc'["run"] \in Late
    BY <1>1, <1>9, <2>3, GotoRun DEF Release, Leave, ControlInv
  <2> HIDE DEF Release
  <2>5. registered => named /\ "deregister" \in gaveUp
    BY <1>1, <2>4 DEF RegistrationInv
  <2> QED
    BY <2>1, <2>2, <2>3, <2>4, <2>5 DEF RegistrationInv
<1>10. CASE Release("closer") /\ UNCHANGED <<newVars, orderVars>>
  <2>1. (registered' = registered \/ registered' = FALSE) /\ UNCHANGED named
    BY <1>10, Zenon DEF Release, regVars
  <2>2. registered' => registered
    BY <2>1, Zenon
  <2>3. pc["closer"] = "release" /\ UNCHANGED gaveUp
    BY <1>10 DEF Release, At
  <2>4. pc["run"] \in Late /\ pc'["run"] \in Late
    BY <1>1, <1>10, <2>3, GotoCloser DEF Release, Leave, ControlInv
  <2> HIDE DEF Release
  <2>5. registered => named /\ "deregister" \in gaveUp
    BY <1>1, <2>4 DEF RegistrationInv
  <2> QED
    BY <2>1, <2>2, <2>3, <2>4, <2>5 DEF RegistrationInv
<1> HIDE DEF RunStep, Environment, NewReturns, StopsOrWaits, Release, vars, newVars,
             orderVars
<1> QED
  BY ONLY <1>a, <1>2, <1>3, <1>4, <1>5, <1>6, <1>7, <1>8, <1>9, <1>10, StepCases

HIDE DEF vars, newVars, appVars, runVars, orderVars, compVars, netVars, regVars, sigVars,
         At, Threads, RunPCs, CloserPCs, Late, Draining, Early, PcTypes, BeginShutdown,
         InStopLoop, AfterStop, StopLoopStart, AfterWatch, Leave,
         RunStep, Setup, Listen, ListenPprof, Register, StartWatcher, OnStart,
         OrderComponents, StartBegins, StartSucceeded, StartFailed, InstallNotify, WaitEnds,
         Deregister, DrainBegins, DrainEnds, OnClose,
         StopsOrWaits, StopComponents, StopBegins, StopAdvances, StopLoopEnds, WatcherWait,
         EnterClose, Release,
         Environment, StartReturns, StopReturns, Signal, ServerFails, RequestBegins,
         RequestEnds, WatcherEnds, CloserCalls, NewReturns

-----------------------------------------------------------------------------
(* New.                                                                    *)

\* Once New has returned, its variables stay; Close alone closes resources.
LEMMA Elsewhere ==
    ASSUME [Next]_vars
    PROVE  \/ Boot \/ NewReturns
           \/ /\ UNCHANGED newVars
              /\ \/ UNCHANGED opened /\ (closeOnce = "done" => closeOnce' = "done")
                 \/ (\E t \in Threads : Release(t)) /\ opened' = {} /\ closeOnce' = "done"
<1>1. CASE Terminated \/ UNCHANGED vars
  BY <1>1 DEF Terminated, vars, appVars, runVars
<1>2. CASE RunStep
  BY <1>2 DEF RunStep, OrderComponents, Setup, Listen, ListenPprof, Register,
              StartWatcher, OnStart, StartBegins, StartSucceeded, StartFailed,
              InstallNotify, WaitEnds, Deregister, DrainBegins, DrainEnds, OnClose
<1>3. CASE Environment
  BY <1>3 DEF Environment, StartReturns, StopReturns, Signal, ServerFails,
              RequestBegins, RequestEnds, WatcherEnds, CloserCalls
<1>4. ASSUME NEW t \in Threads, SharedStep(t), ~Release(t)
      PROVE  /\ UNCHANGED newVars /\ UNCHANGED opened
             /\ closeOnce = "done" => closeOnce' = "done"
  BY <1>4 DEF SharedStep, StopComponents, StopBegins, StopAdvances, StopLoopEnds,
              WatcherWait, EnterClose
<1>5. ASSUME NEW t \in Threads, SharedStep(t), Release(t)
      PROVE  UNCHANGED newVars /\ opened' = {} /\ closeOnce' = "done"
  BY <1>5 DEF SharedStep, Release
<1> QED
  BY <1>1, <1>2, <1>3, <1>4, <1>5 DEF Next

\* The overrides of the environment.
LEMMA OverridesLemma ==
    ASSUME NEW c \in Configs, env \in Environments
    PROVE  /\ applyEnvOverrides(c) \in Configs
           /\ applyEnvOverrides(c).dsn =
                 IF env.dsn /\ c.dsn # "unused" THEN "env" ELSE c.dsn
           /\ applyEnvOverrides(c).secret = IF env.secret THEN "env" ELSE c.secret
           /\ env.requireTLS # "unset"
                 => applyEnvOverrides(c).requireTLS = (env.requireTLS = "true")
<1> DEFINE o == applyEnvOverrides(c)
           d == IF env.dsn /\ c.dsn # "unused" THEN "env" ELSE c.dsn
           s == IF env.secret THEN "env" ELSE c.secret
           r == IF env.requireTLS = "unset" THEN c.requireTLS ELSE env.requireTLS = "true"
<1>1. o = [c EXCEPT !.dsn = d, !.secret = s, !.requireTLS = r]
  BY DEF applyEnvOverrides
<1>2. d \in {"unused", "missing", "file", "env", "remote"}
  BY DEF Configs
<1>3. s \in {"missing", "file", "env", "remote"}
  BY DEF Configs
<1>4. r \in BOOLEAN
  BY DEF Configs
<1> HIDE DEF o, d, s, r
<1>5. o \in Configs /\ o.dsn = d /\ o.secret = s
  BY <1>1, <1>2, <1>3, <1>4 DEF Configs
<1>6. o.requireTLS = r
  BY <1>1 DEF Configs
<1>7. env.requireTLS # "unset" => o.requireTLS = (env.requireTLS = "true")
  BY <1>6, Zenon DEF r
<1> QED
  BY <1>5, <1>7 DEF o, d, s

\* A layer that can be merged brings no secrets.
LEMMA OverlayLemma ==
    ASSUME NEW l \in Layers \cup {Missing}, Mergeable(l), NEW c \in Configs
    PROVE  /\ Overlay(l, c) \in Configs
           /\ Overlay(l, c).dsn = c.dsn /\ Overlay(l, c).secret = c.secret
<1>1. Overlay(l, c) \in Configs
  BY LayersAssumption DEF Mergeable
<1>2. "dsn" \notin DOMAIN l.fields /\ "secret" \notin DOMAIN l.fields
  BY DEF Mergeable
<1>3. "dsn" \in DOMAIN c /\ "secret" \in DOMAIN c
  BY DEF Configs
<1> QED
  BY <1>1, <1>2, <1>3 DEF Overlay

\* A contact is recorded with its transport.
LEMMA ContactLemma ==
    ASSUME NEW server \in {"config", "redis", "registry"}, NEW transport,
           contacts \subseteq Contacts, Contact(server, transport)
    PROVE  /\ contacts' \subseteq Contacts
           /\ \A c \in contacts' :
                 c \in contacts \/ (c.to = server /\ (c.tls <=> transport = "tls"))
<1> DEFINE n == [to |-> server, tls |-> transport = "tls"]
<1>1. contacts' = contacts \cup {n}
  BY Zenon DEF Contact
<1>2. n \in Contacts
  <2>1. (transport = "tls") \in BOOLEAN
    OBVIOUS
  <2> QED
    BY <2>1, Zenon DEF Contacts
<1>3. n.to = server /\ (n.tls <=> transport = "tls")
  BY Zenon
<1> HIDE DEF n
<1> QED
  BY <1>1, <1>2, <1>3

\* What New works with keeps its types.
LEMMA StartupTypes == AppInd /\ [Next]_vars => StartupTypeOK'
<1> SUFFICES ASSUME AppInd, [Next]_vars PROVE StartupTypeOK'
  OBVIOUS
<1>1. StartupTypeOK
  BY DEF AppInd
<1>2. CASE Boot
  <2>1. NewStep /\ UNCHANGED <<closeOnce, stopOnce, pc>>
    BY <1>2 DEF Boot, runVars, compVars
  <2>2. CASE LoadFile
    BY <1>1, <2>1, <2>2, OverridesLemma, OverlayLemma, InputsAssumption DEF LoadFile,
         Proceed, Refuse, StartupTypeOK, Steps, Resources, Missing
  <2>3. CASE CheckPolicy \/ CheckSecrets \/ CheckConfig \/ PrepareServer
    BY <1>1, <2>1, <2>3 DEF CheckPolicy, CheckSecrets, CheckConfig, PrepareServer,
                            Proceed, Refuse, StartupTypeOK, Steps, Resources, Missing
  <2>4. CASE FetchService
    <3>1. contacts' \subseteq Contacts
      BY <1>1, <2>4, ContactLemma DEF FetchService, Fetch, StartupTypeOK
    <3> QED
      BY <1>1, <2>4, <3>1 DEF FetchService, StartupTypeOK, Steps, Refuse, Proceed,
                              Fetch, Resources
  <2>5. CASE FetchNode
    <3>1. contacts' \subseteq Contacts
      BY <1>1, <2>5, ContactLemma DEF FetchNode, Fetch, StartupTypeOK
    <3> QED
      BY <1>1, <2>5, <3>1 DEF FetchNode, StartupTypeOK, Steps, Refuse, Proceed, Fetch,
                              Resources
  <2>6. CASE MergeLayers
    BY <1>1, <2>1, <2>6, OverridesLemma, OverlayLemma, InputsAssumption DEF MergeLayers,
         Proceed, Refuse, StartupTypeOK, Steps, Resources, Missing
  <2>7. CASE InitTelemetry \/ (\E d \in Databases : OpenDatabase(d)) \/ DatabasesOpen
    BY <1>1, <2>1, <2>7 DEF InitTelemetry, OpenDatabase, DatabasesOpen, Acquire,
                            Proceed, StartupTypeOK, Steps, Resources, Missing
  <2>8. CASE OpenRedis
    <3>1. contacts' \subseteq Contacts
      BY <1>1, <2>8, ContactLemma DEF OpenRedis, StartupTypeOK
    <3> QED
      BY <1>1, <2>8, <3>1 DEF OpenRedis, StartupTypeOK, Steps, Refuse, Proceed, Acquire,
                              Resources
  <2>9. CASE NewRegistry
    <3>1. contacts' \subseteq Contacts
      BY <1>1, <2>9, ContactLemma DEF NewRegistry, StartupTypeOK
    <3> QED
      BY <1>1, <2>9, <3>1 DEF NewRegistry, StartupTypeOK, Steps, Refuse, Proceed,
                              Acquire, Resources
  <2> QED
    BY <2>1, <2>2, <2>3, <2>4, <2>5, <2>6, <2>7, <2>8, <2>9 DEF NewStep
<1>3. CASE NewReturns
  BY <1>1, <1>3, InputsAssumption DEF NewReturns, StartupTypeOK, Steps, Missing,
       newVars, At
<1>4. CASE /\ UNCHANGED newVars
             /\ \/ UNCHANGED opened /\ (closeOnce = "done" => closeOnce' = "done")
                \/ (\E t \in Threads : Release(t)) /\ opened' = {} /\ closeOnce' = "done"
  BY <1>1, <1>4 DEF StartupTypeOK, newVars
<1> QED
  BY <1>2, <1>3, <1>4, Elsewhere

\* Every error path closes what is open.
LEMMA OpenedStep == AppInd /\ [Next]_vars => OpenedInv'
<1> SUFFICES ASSUME AppInd, [Next]_vars PROVE OpenedInv'
  OBVIOUS
<1>1. StartupTypeOK /\ OpenedInv /\ ControlInv /\ PcTypes
  BY DEF AppInd
<1>2. CASE Boot
  <2>1. NewStep /\ UNCHANGED <<closeOnce, stopOnce, pc>>
    BY <1>2 DEF Boot, runVars, compVars
  <2>2. CASE LoadFile
    BY <1>1, <2>1, <2>2 DEF LoadFile, Proceed, Refuse, StartupTypeOK, OpenedInv, Steps,
                            UsesRemote
  <2>3. CASE CheckPolicy \/ CheckSecrets \/ CheckConfig \/ PrepareServer
    BY <1>1, <2>1, <2>3 DEF CheckPolicy, CheckSecrets, CheckConfig, PrepareServer,
                            Proceed, Refuse, StartupTypeOK, OpenedInv, Steps, UsesRemote
  <2>4. CASE FetchService
    BY <1>1, <2>1, <2>4 DEF FetchService, Contact, Fetch, Proceed, Refuse,
                            StartupTypeOK, OpenedInv, Steps, UsesRemote
  <2>5. CASE FetchNode
    BY <1>1, <2>1, <2>5 DEF FetchNode, Contact, Fetch, Proceed, Refuse, StartupTypeOK,
                            OpenedInv, Steps, UsesRemote
  <2>6. CASE MergeLayers
    BY <1>1, <2>1, <2>6 DEF MergeLayers, Proceed, Refuse, StartupTypeOK, OpenedInv,
                            Steps, UsesRemote
  <2>7. CASE InitTelemetry \/ (\E d \in Databases : OpenDatabase(d)) \/ DatabasesOpen
    BY <1>1, <2>1, <2>7 DEF InitTelemetry, OpenDatabase, DatabasesOpen, Acquire,
                            Proceed, StartupTypeOK, OpenedInv, Steps, UsesRemote
  <2>8. CASE OpenRedis
    BY <1>1, <2>1, <2>8 DEF OpenRedis, Acquire, Contact, Proceed, StartupTypeOK,
                            OpenedInv, Steps, UsesRemote
  <2>9. CASE NewRegistry
    BY <1>1, <2>1, <2>9 DEF NewRegistry, Acquire, Contact, Proceed, StartupTypeOK,
                            OpenedInv, Steps, UsesRemote
  <2> QED
    BY <2>1, <2>2, <2>3, <2>4, <2>5, <2>6, <2>7, <2>8, <2>9 DEF NewStep
<1>3. CASE NewReturns
  BY <1>1, <1>3 DEF NewReturns, OpenedInv, newVars, At
<1>4. CASE /\ UNCHANGED newVars
           /\ \/ UNCHANGED opened /\ (closeOnce = "done" => closeOnce' = "done")
              \/ (\E t \in Threads : Release(t)) /\ opened' = {} /\ closeOnce' = "done"
  <2>1. CASE \E t \in Threads : Release(t) /\ opened' = {} /\ closeOnce' = "done"
    <3>1. step = "running"
      BY <1>1, <2>1 DEF Release, At, ControlInv, Threads
    <3> QED
      BY <1>4, <2>1, <3>1 DEF OpenedInv, newVars
  <2>2. CASE UNCHANGED opened /\ (closeOnce = "done" => closeOnce' = "done")
    BY <1>1, <1>4, <2>2 DEF OpenedInv, newVars
  <2> QED
    BY <1>4, <2>1, <2>2
<1> QED
  BY <1>2, <1>3, <1>4, Elsewhere

\* The overrides are applied after each layer, and the checks come after them.
LEMMA ConfigStep == AppInd /\ [Next]_vars => ConfigInv'
<1> SUFFICES ASSUME AppInd, [Next]_vars PROVE ConfigInv'
  OBVIOUS
<1>1. StartupTypeOK /\ ConfigInv
  BY DEF AppInd
<1>2. CASE Boot
  <2>1. NewStep /\ UNCHANGED <<closeOnce, stopOnce, pc>>
    BY <1>2 DEF Boot, runVars, compVars
  <2>2. CASE LoadFile
    <3>1. /\ file \in Configs /\ file.dsn \notin {"env", "remote"}
          /\ file.secret \notin {"env", "remote"}
      BY <1>1, InputsAssumption DEF StartupTypeOK
    <3>2. env \in Environments /\ env' = env
      BY <1>1, <2>2, InputsAssumption DEF StartupTypeOK, LoadFile, Refuse
    <3>3. CASE step' = "error" /\ cfg' = cfg
      BY <1>1, <3>3 DEF ConfigInv
    <3>4. CASE cfg' = applyEnvOverrides(file) /\ step' = "policy"
      <4>1. cfg'.dsn # "remote" /\ cfg'.secret # "remote"
        BY <3>1, <3>2, <3>4, OverridesLemma
      <4>2. EnvApplied'
        BY <3>1, <3>2, <3>4, OverridesLemma DEF EnvApplied
      <4> QED
        BY <4>1, <4>2, <3>4 DEF ConfigInv
    <3> QED
      BY <2>2, <3>3, <3>4 DEF LoadFile, Refuse, Proceed
  <2>3. CASE CheckPolicy \/ CheckSecrets \/ CheckConfig \/ PrepareServer
    BY <1>1, <2>1, <2>3 DEF CheckPolicy, CheckSecrets, CheckConfig, PrepareServer,
                            Proceed, Refuse, StartupTypeOK, ConfigInv, EnvApplied,
                            Steps, UsesRemote
  <2>4. CASE FetchService
    BY <1>1, <2>1, <2>4 DEF FetchService, Contact, Fetch, Proceed, Refuse,
                            StartupTypeOK, ConfigInv, EnvApplied, Steps, UsesRemote
  <2>5. CASE FetchNode
    BY <1>1, <2>1, <2>5 DEF FetchNode, Contact, Fetch, Proceed, Refuse, StartupTypeOK,
                            ConfigInv, EnvApplied, Steps, UsesRemote
  <2>6. CASE MergeLayers
    BY <1>1, <2>1, <2>6, OverridesLemma, OverlayLemma, InputsAssumption DEF MergeLayers,
         Proceed, Refuse, StartupTypeOK, ConfigInv, EnvApplied, Steps, UsesRemote
  <2>7. CASE InitTelemetry \/ (\E d \in Databases : OpenDatabase(d)) \/ DatabasesOpen
    BY <1>1, <2>1, <2>7 DEF InitTelemetry, OpenDatabase, DatabasesOpen, Acquire,
                            Proceed, StartupTypeOK, ConfigInv, EnvApplied, Steps,
                            UsesRemote
  <2>8. CASE OpenRedis
    BY <1>1, <2>1, <2>8 DEF OpenRedis, Acquire, Contact, Proceed, StartupTypeOK,
                            ConfigInv, EnvApplied, Steps, UsesRemote
  <2>9. CASE NewRegistry
    BY <1>1, <2>1, <2>9 DEF NewRegistry, Acquire, Contact, Proceed, StartupTypeOK,
                            ConfigInv, EnvApplied, Steps, UsesRemote
  <2> QED
    BY <2>1, <2>2, <2>3, <2>4, <2>5, <2>6, <2>7, <2>8, <2>9 DEF NewStep
<1>3. CASE NewReturns
  <2>1. CASE cfg' \in Files /\ step' = "running"
    <3>1. cfg' \in Configs /\ cfg'.dsn # "remote" /\ cfg'.secret # "remote"
      BY <2>1, InputsAssumption
    <3> QED
      BY <2>1, <3>1 DEF ConfigInv
  <2>2. CASE UNCHANGED newVars
    BY <1>1, <2>2 DEF newVars, ConfigInv, EnvApplied, HasInlineSecret, Valid,
                      TransportsAllowed
  <2>3. \/ file' \in Files /\ cfg' = file' /\ step' = "running"
        \/ UNCHANGED newVars
    BY <1>1, <1>3 DEF NewReturns, StartupTypeOK
  <2> QED
    BY <2>1, <2>2, <2>3
<1>4. CASE /\ UNCHANGED newVars
             /\ \/ UNCHANGED opened /\ (closeOnce = "done" => closeOnce' = "done")
                \/ (\E t \in Threads : Release(t)) /\ opened' = {} /\ closeOnce' = "done"
  BY <1>1, <1>4 DEF ConfigInv, EnvApplied, HasInlineSecret, Valid, TransportsAllowed,
                    newVars
<1> QED
  BY <1>2, <1>3, <1>4, Elsewhere

\* The policy is checked before the first contact.
LEMMA PolicyStep == AppInd /\ [Next]_vars => PolicyInv'
<1> SUFFICES ASSUME AppInd, [Next]_vars PROVE PolicyInv'
  OBVIOUS
<1>1. StartupTypeOK /\ ConfigInv /\ PolicyInv
  BY DEF AppInd
<1>2. CASE Boot
  <2>1. NewStep /\ UNCHANGED <<closeOnce, stopOnce, pc>>
    BY <1>2 DEF Boot, runVars, compVars
  <2>2. CASE LoadFile
    BY <1>1, <2>1, <2>2 DEF LoadFile, Proceed, Refuse, StartupTypeOK, PolicyInv,
                            UsesRemote, Steps
  <2>3. CASE CheckPolicy \/ CheckSecrets \/ CheckConfig \/ PrepareServer
    BY <1>1, <2>1, <2>3 DEF CheckPolicy, CheckSecrets, CheckConfig, PrepareServer,
                            Proceed, Refuse, StartupTypeOK, PolicyInv, UsesRemote, Steps
  <2>4. CASE FetchService
    <3>1. cfg = localCfg /\ TransportsAllowed(cfg) /\ UsesRemote(cfg) /\ cfg \in Configs
      BY <1>1, <2>4 DEF FetchService, Fetch, PolicyInv, StartupTypeOK
    <3>2. Contact("config", cfg.registry) /\ UNCHANGED <<cfg, localCfg>>
      BY <2>4 DEF FetchService, Fetch, Refuse
    <3>3. \A c \in contacts' :
             c \in contacts \/ (c.to = "config" /\ (c.tls <=> cfg.registry = "tls"))
      BY <1>1, <3>2, ContactLemma DEF StartupTypeOK
    <3>4. localCfg.requireTLS => cfg.registry = "tls"
      BY <3>1 DEF TransportsAllowed, UsesRemote, Configs, Transports
    <3>5. step' \in {"fetchNode", "error"} /\ step = "fetchService"
      BY <2>4 DEF FetchService, Fetch, Refuse, Proceed
    <3> QED
      BY <1>1, <3>1, <3>2, <3>3, <3>4, <3>5 DEF PolicyInv
  <2>5. CASE FetchNode
    <3>1. cfg = localCfg /\ TransportsAllowed(cfg) /\ UsesRemote(cfg) /\ cfg \in Configs
      BY <1>1, <2>5 DEF FetchNode, Fetch, PolicyInv, StartupTypeOK
    <3>2. Contact("config", cfg.registry) /\ UNCHANGED <<cfg, localCfg>>
      BY <2>5 DEF FetchNode, Fetch, Refuse
    <3>3. \A c \in contacts' :
             c \in contacts \/ (c.to = "config" /\ (c.tls <=> cfg.registry = "tls"))
      BY <1>1, <3>2, ContactLemma DEF StartupTypeOK
    <3>4. localCfg.requireTLS => cfg.registry = "tls"
      BY <3>1 DEF TransportsAllowed, UsesRemote, Configs, Transports
    <3>5. step' \in {"merge", "error"} /\ step = "fetchNode"
      BY <2>5 DEF FetchNode, Fetch, Refuse, Proceed
    <3> QED
      BY <1>1, <3>1, <3>2, <3>3, <3>4, <3>5 DEF PolicyInv
  <2>6. CASE MergeLayers
    BY <1>1, <2>1, <2>6 DEF MergeLayers, Proceed, Refuse, StartupTypeOK, PolicyInv,
                            UsesRemote, Steps
  <2>7. CASE InitTelemetry \/ (\E d \in Databases : OpenDatabase(d)) \/ DatabasesOpen
    BY <1>1, <2>1, <2>7 DEF InitTelemetry, OpenDatabase, DatabasesOpen, Acquire,
                            Proceed, StartupTypeOK, PolicyInv, UsesRemote, Steps
  <2>8. CASE OpenRedis
    <3>1. Valid(cfg) /\ cfg \in Configs /\ UNCHANGED <<cfg, localCfg>>
      BY <1>1, <2>8 DEF OpenRedis, Acquire, ConfigInv, StartupTypeOK
    <3>2. (Contact("redis", cfg.redis) /\ cfg.redis # "off") \/ UNCHANGED contacts
      BY <2>8 DEF OpenRedis
    <3>3. \A c \in contacts' :
             c \in contacts \/ (c.to = "redis" /\ (c.tls <=> cfg.redis = "tls")
                                /\ cfg.redis # "off")
      BY <1>1, <3>2, ContactLemma DEF StartupTypeOK
    <3>4. cfg.requireTLS /\ cfg.redis # "off" => cfg.redis = "tls"
      BY <3>1 DEF Valid, TransportsAllowed, Configs, Transports
    <3>5. step' \in {"registry", "error"} /\ step = "redis"
      BY <2>8 DEF OpenRedis, Acquire, Proceed
    <3> QED
      BY <1>1, <3>1, <3>3, <3>4, <3>5 DEF PolicyInv
  <2>9. CASE NewRegistry
    <3>1. Valid(cfg) /\ cfg \in Configs /\ UNCHANGED <<cfg, localCfg>>
      BY <1>1, <2>9 DEF NewRegistry, Acquire, ConfigInv, StartupTypeOK
    <3>2. (Contact("registry", cfg.registry) /\ cfg.register) \/ UNCHANGED contacts
      BY <2>9 DEF NewRegistry
    <3>3. \A c \in contacts' :
             c \in contacts \/ (c.to = "registry" /\ (c.tls <=> cfg.registry = "tls")
                                /\ cfg.register)
      BY <1>1, <3>2, ContactLemma DEF StartupTypeOK
    <3>4. cfg.requireTLS /\ cfg.register => cfg.registry = "tls"
      BY <3>1 DEF Valid, TransportsAllowed, Configs, Transports
    <3>5. step' \in {"app", "error"} /\ step = "registry"
      BY <2>9 DEF NewRegistry, Acquire, Proceed
    <3> QED
      BY <1>1, <3>1, <3>3, <3>4, <3>5 DEF PolicyInv
  <2> QED
    BY <2>1, <2>2, <2>3, <2>4, <2>5, <2>6, <2>7, <2>8, <2>9 DEF NewStep
<1>3. CASE NewReturns
  BY <1>1, <1>3, InputsAssumption DEF NewReturns, StartupTypeOK, PolicyInv, newVars, At
<1>4. CASE /\ UNCHANGED newVars
             /\ \/ UNCHANGED opened /\ (closeOnce = "done" => closeOnce' = "done")
                \/ (\E t \in Threads : Release(t)) /\ opened' = {} /\ closeOnce' = "done"
  BY <1>1, <1>4 DEF PolicyInv, TransportsAllowed, UsesRemote, newVars
<1> QED
  BY <1>2, <1>3, <1>4, Elsewhere

-----------------------------------------------------------------------------
(* Components: the order, and the place of a loop in it.                   *)

\* An order lists every component once.
LEMMA OrderFacts ==
    ASSUME NEW o \in Bijection(Components, Components)
    PROVE  /\ DOMAIN o = Components
           /\ \A k \in Components : o[k] \in Components
           /\ \A j, k \in Components : o[j] = o[k] => j = k
           /\ \A i \in Components : \E k \in Components : o[k] = i
BY Zenon DEF Bijection, Injection, Surjection, IsInjective

\* orderComponents gives an order that respects the dependencies, or an error.
LEMMA OrderOrError ==
    ASSUME OrderComponents
    PROVE  /\ UNCHANGED <<idx, compVars, gaveUp>>
           /\ pc["run"] = "start" /\ order = <<>>
           /\ \/ /\ order' \in Bijection(Components, Components)
                 /\ needs' \subseteq Components \X Components
                 /\ Respects(order', needs')
                 /\ UNCHANGED <<pc, ready, watcher>>
              \/ BeginShutdown /\ UNCHANGED orderVars
<1>1. /\ UNCHANGED <<idx, compVars, gaveUp>>
      /\ pc["run"] = "start" /\ order = <<>>
  BY DEF OrderComponents, At
<1>2. PICK deps \in [Components -> Dependencies] :
          LET result == orderComponents(N, deps)
          IN  \/ /\ result.error = "none"
                 /\ order' = result.ordered
                 /\ needs' = DependsOn(N, deps)
                 /\ UNCHANGED <<pc, ready, watcher>>
              \/ BeginShutdown /\ UNCHANGED orderVars
  BY DEF OrderComponents
<1>3. N \in Nat /\ deps \in Graphs(N)
  <2>1. Dependencies \subseteq Seq(Nat)
    <3>1. ASSUME NEW d \in 1 .. N + 1
          PROVE  <<d>> \in Seq(Nat)
      <4>1. d \in Nat
        BY NAssumption
      <4> QED
        BY ONLY <4>1
    <3>2. <<>> \in Seq(Nat)
      OBVIOUS
    <3> QED
      BY <3>1, <3>2, Zenon DEF Dependencies
  <2> QED
    BY <1>2, <2>1, NAssumption DEF Graphs, Components
<1> DEFINE result == orderComponents(N, deps)
<1>4. result.error = "none" =>
          /\ result.ordered \in Bijection(1 .. N, 1 .. N)
          /\ Respects(result.ordered, DependsOn(N, deps))
  BY <1>3, OrderedIsOrder, Zenon DEF IsOrder
<1>5. \/ /\ result.error = "none"
         /\ order' = result.ordered
         /\ needs' = DependsOn(N, deps)
         /\ UNCHANGED <<pc, ready, watcher>>
      \/ BeginShutdown /\ UNCHANGED orderVars
  BY <1>2, Zenon
<1>6. DependsOn(N, deps) \subseteq Components \X Components
  BY Zenon DEF DependsOn, Components
<1> HIDE DEF result
<1> QED
  BY <1>1, <1>4, <1>5, <1>6 DEF Components

\* Where there are components, their order is not empty.
LEMMA NonEmpty ==
    ASSUME NEW o \in Bijection(Components, Components), NEW p \in Components
    PROVE  o # <<>>
BY OrderFacts

\* What a start loop has not started, and what a stop loop has stopped.
LEMMA EndOfStopLoop ==
    ASSUME OrderInv, order # <<>>, StopPhase, idx = 0
    PROVE  Settled
<1>1. \A i \in Components : \E k \in Components : order[k] = i
  BY OrderFacts DEF OrderInv
<1>2. \A k \in Components : k > 0
  BY DEF Components
<1> QED
  BY <1>1, <1>2 DEF StopPhase, Settled

\* Nothing is settled about a component that is starting, up or stopping.
LEMMA OneIsUp ==
    ASSUME NEW i \in Components, comp[i] \in {"up", "starting", "stopping"}
    PROVE  ~Settled
BY DEF Settled

\* A goroutine is in stopComponents, or in the rollback of startComponents.
StopsComponents(t) ==
    StopComponents(t) \/ StopBegins(t) \/ StopAdvances(t) \/ StopLoopEnds(t)

\* All other steps leave the components and the loops over them alone.
ComponentsUntouched ==
    /\ UNCHANGED <<orderVars, idx, compVars>> /\ gaveUp \subseteq gaveUp'
    /\ \A p \in {"start", "rollback"} : pc'["run"] = p <=> pc["run"] = p
    /\ pc'["run"] \in Early => pc["run"] \in Early
    /\ pc'["run"] \in {"notify", "wait"} => pc["run"] \in {"notify", "wait"}
    /\ ready' => /\ ready
                 /\ pc["run"] \in {"notify", "wait"} => pc'["run"] \in {"notify", "wait"}

\* The kinds of steps, as the components see them.
LEMMA ComponentCases ==
    ASSUME [Next]_vars, PcTypes, ControlInv
    PROVE  \/ OrderComponents
           \/ /\ OnStart \/ StartBegins \/ StartSucceeded \/ StartFailed
              /\ UNCHANGED orderVars
           \/ \E t \in Threads : StopsComponents(t) /\ UNCHANGED orderVars
           \/ \E i \in Components :
                 (StartReturns(i) \/ StopReturns(i)) /\ UNCHANGED orderVars
           \/ ComponentsUntouched
<1>1. CASE RunStep
  <2>1. CASE (Setup \/ Listen \/ ListenPprof \/ Register \/ StartWatcher)
             /\ UNCHANGED orderVars
    BY <2>1, GotoRun DEF Setup, Listen, ListenPprof, Register, StartWatcher,
                         BeginShutdown, At, orderVars, compVars, ComponentsUntouched,
                         Early
  <2>2. CASE /\ \/ InstallNotify \/ WaitEnds \/ Deregister \/ DrainBegins
                \/ DrainEnds \/ OnClose
             /\ UNCHANGED orderVars
    BY <2>2, GotoRun DEF InstallNotify, WaitEnds, Deregister, DrainBegins, DrainEnds,
                         OnClose, BeginShutdown, At, orderVars, compVars,
                         ComponentsUntouched, Early
  <2> QED
    BY <1>1, <2>1, <2>2 DEF RunStep
<1>2. CASE \E t \in Threads : SharedStep(t)
  <2> SUFFICES ASSUME NEW t \in Threads, SharedStep(t), ~StopsComponents(t)
               PROVE  ComponentsUntouched
    BY <1>2 DEF SharedStep
  <2>1. (WatcherWait(t) \/ EnterClose(t) \/ Release(t)) /\ UNCHANGED orderVars
    BY DEF SharedStep, StopsComponents
  <2>2. CASE WatcherWait(t)
    BY <2>1, <2>2, GotoRun, GotoCloser DEF WatcherWait, AfterWatch, Threads, orderVars,
         compVars, ComponentsUntouched, Early
  <2>3. CASE EnterClose(t)
    BY <2>1, <2>3, GotoRun, GotoCloser DEF EnterClose, Leave, At, Threads, orderVars,
         compVars, ComponentsUntouched, Early
  <2>4. CASE Release(t)
    BY <2>1, <2>4, GotoRun, GotoCloser DEF Release, Leave, At, Threads, orderVars,
         compVars, ComponentsUntouched, Early
  <2> QED
    BY <2>1, <2>2, <2>3, <2>4
<1>3. CASE Environment
  <2>1. CASE Signal \/ WatcherEnds \/ CloserCalls
    BY <1>3, <2>1, GotoCloser DEF Environment, Signal, WatcherEnds, CloserCalls, At,
         orderVars, compVars, ComponentsUntouched
  <2>2. CASE \E s \in Servers : ServerFails(s) \/ RequestBegins(s) \/ RequestEnds(s)
    BY <1>3, <2>2 DEF Environment, ServerFails, RequestBegins, RequestEnds, orderVars,
                      compVars, ComponentsUntouched
  <2> QED
    BY <1>3, <2>1, <2>2 DEF Environment
<1>4. CASE Boot
  BY <1>4, Booting DEF runVars, orderVars, compVars, ComponentsUntouched
<1>5. CASE NewReturns
  BY <1>5 DEF NewReturns, At, Threads, orderVars, compVars, ComponentsUntouched, Early
<1>6. CASE Terminated \/ UNCHANGED vars
  BY <1>6 DEF Terminated, vars, appVars, runVars, orderVars, compVars,
              ComponentsUntouched
<1> QED
  BY <1>1, <1>2, <1>3, <1>4, <1>5, <1>6 DEF Next

\* The components and the loops over them keep their types.
LEMMA CompTypesStep ==
    ASSUME PcTypes, ControlInv,
           CompTypes, OrderInv, PhaseInv, [Next]_vars
    PROVE  CompTypes'
<1>1. CASE OrderComponents
    BY <1>1, OrderOrError DEF CompTypes, orderVars, compVars
<1>2. CASE (OnStart \/ StartBegins \/ StartSucceeded \/ StartFailed) /\ UNCHANGED orderVars
  <2>1. CASE OnStart
    BY <1>2, <2>1, GotoRun, NAssumption DEF OnStart, At, BeginShutdown, orderVars,
         compVars, CompTypes, PhaseInv, CompStates
  <2>2. CASE StartBegins
    BY <1>2, <2>2, NAssumption DEF StartBegins, At, orderVars, compVars, CompTypes,
         PhaseInv, CompStates
  <2>3. CASE StartSucceeded
    <3>1. idx' \in 0 .. N
      BY <1>2, <2>3, NAssumption DEF StartSucceeded, CompTypes
    <3>2. started' \in BOOLEAN
      BY <1>2, <2>3, Zenon DEF StartSucceeded, CompTypes
    <3> QED
      BY <1>2, <2>3, <3>1, <3>2 DEF StartSucceeded, CompTypes, orderVars
  <2>4. CASE StartFailed
    BY <1>2, <2>4, GotoRun, NAssumption DEF StartFailed, At, orderVars, compVars,
         CompTypes, PhaseInv, CompStates
  <2> QED
    BY <1>2, <2>1, <2>2, <2>3, <2>4
<1>3. CASE \E t \in Threads : StopsComponents(t) /\ UNCHANGED orderVars
  <2> SUFFICES ASSUME NEW t \in Threads, StopsComponents(t), UNCHANGED orderVars
               PROVE  CompTypes'
    BY <1>3
  <2>1. CASE StopComponents(t)
    BY <2>1, GotoRun, GotoCloser, NAssumption DEF StopComponents, StopLoopStart,
         AfterStop, orderVars, compVars, CompTypes, PhaseInv, CompStates
  <2>2. CASE StopBegins(t)
    BY <2>2, NAssumption DEF StopBegins, InStopLoop, orderVars, compVars, CompTypes,
                             PhaseInv, CompStates
  <2>3. CASE StopAdvances(t)
    BY <2>3, NAssumption DEF StopAdvances, InStopLoop, orderVars, compVars, CompTypes,
                             PhaseInv, CompStates
  <2>4. CASE StopLoopEnds(t)
    BY <2>4, GotoRun, GotoCloser, NAssumption DEF StopLoopEnds, InStopLoop,
         BeginShutdown, AfterStop, orderVars, compVars, CompTypes, PhaseInv, CompStates
  <2> QED
    BY <2>1, <2>2, <2>3, <2>4 DEF StopsComponents
<1>4. CASE \E i \in Components : (StartReturns(i) \/ StopReturns(i)) /\ UNCHANGED orderVars
  <2> SUFFICES ASSUME NEW i \in Components, StartReturns(i) \/ StopReturns(i),
                      UNCHANGED orderVars
               PROVE  CompTypes'
    BY <1>4
  <2>1. CASE StartReturns(i)
    BY <2>1, NAssumption DEF StartReturns, orderVars, compVars, CompTypes, PhaseInv,
                             CompStates
  <2>2. CASE StopReturns(i)
    BY <2>2, NAssumption DEF StopReturns, orderVars, compVars, CompTypes, PhaseInv,
                             CompStates
  <2> QED
    BY <2>1, <2>2
<1>5. CASE ComponentsUntouched
  BY <1>5 DEF ComponentsUntouched, orderVars, compVars, CompTypes, PhaseInv, CompStates
<1> QED
  BY <1>1, <1>2, <1>3, <1>4, <1>5, ComponentCases

\* The order is made once, and nothing starts without it.
LEMMA OrderStep ==
    ASSUME PcTypes, ControlInv,
           CompTypes, OrderInv, PhaseInv, [Next]_vars
    PROVE  OrderInv'
<1>1. CASE OrderComponents
  <3>1. CASE BeginShutdown /\ UNCHANGED orderVars
    BY <1>1, <3>1, OrderOrError, GotoRun DEF BeginShutdown, OrderInv, orderVars,
         compVars, Early
  <3>2. CASE /\ order' \in Bijection(Components, Components)
             /\ Respects(order', needs')
             /\ UNCHANGED <<pc, ready, watcher>>
    <4>1. 1 \in Components
      BY <1>1, OrderOrError, NAssumption DEF PhaseInv, CompTypes, Components
    <4>2. order' # <<>>
      BY <3>2, <4>1, NonEmpty
    <4> QED
      BY <1>1, <3>2, <4>2, OrderOrError DEF OrderInv, Early
  <3> QED
    BY <1>1, <3>1, <3>2, OrderOrError
<1>2. CASE (OnStart \/ StartBegins \/ StartSucceeded \/ StartFailed) /\ UNCHANGED orderVars
  <2>1. CASE OnStart
    BY <1>2, <2>1, GotoRun DEF OnStart, At, BeginShutdown, orderVars, compVars,
                               OrderInv, CompTypes, Threads, Early
  <2>2. CASE StartBegins
    BY <1>2, <2>2 DEF StartBegins, At, orderVars, compVars, OrderInv, CompTypes,
                      Threads, Early
  <2>3. CASE StartSucceeded
    BY <1>2, <2>3, GotoRun DEF StartSucceeded, At, orderVars, compVars, OrderInv,
                               CompTypes, Threads, Early
  <2>4. CASE StartFailed
    BY <1>2, <2>4, GotoRun DEF StartFailed, At, orderVars, compVars, OrderInv,
                               CompTypes, Threads, Early
  <2> QED
    BY <1>2, <2>1, <2>2, <2>3, <2>4
<1>3. CASE \E t \in Threads : StopsComponents(t) /\ UNCHANGED orderVars
  <2> SUFFICES ASSUME NEW t \in Threads, StopsComponents(t), UNCHANGED orderVars
               PROVE  OrderInv'
    BY <1>3
  <2>1. CASE StopComponents(t)
    BY <2>1, GotoRun, GotoCloser DEF StopComponents, StopLoopStart, AfterStop,
         orderVars, compVars, OrderInv, CompTypes, Threads, Early
  <2>2. CASE StopBegins(t)
    BY <2>2 DEF StopBegins, InStopLoop, orderVars, compVars, OrderInv, CompTypes,
                Threads, Early
  <2>3. CASE StopAdvances(t)
    BY <2>3 DEF StopAdvances, InStopLoop, orderVars, compVars, OrderInv, CompTypes,
                Threads, Early
  <2>4. CASE StopLoopEnds(t)
    BY <2>4, GotoRun, GotoCloser DEF StopLoopEnds, InStopLoop, BeginShutdown, AfterStop,
         orderVars, compVars, OrderInv, CompTypes, Threads, Early
  <2> QED
    BY <2>1, <2>2, <2>3, <2>4 DEF StopsComponents
<1>4. CASE \E i \in Components : (StartReturns(i) \/ StopReturns(i)) /\ UNCHANGED orderVars
  <2> SUFFICES ASSUME NEW i \in Components, StartReturns(i) \/ StopReturns(i),
                      UNCHANGED orderVars
               PROVE  OrderInv'
    BY <1>4
  <2>1. CASE StartReturns(i)
    BY <2>1 DEF StartReturns, orderVars, compVars, OrderInv, CompTypes, Threads, Early
  <2>2. CASE StopReturns(i)
    BY <2>2 DEF StopReturns, orderVars, compVars, OrderInv, CompTypes, Threads, Early
  <2> QED
    BY <2>1, <2>2
<1>5. CASE ComponentsUntouched
  BY <1>5 DEF ComponentsUntouched, orderVars, compVars, OrderInv, CompTypes, Threads,
              Early
<1> QED
  BY <1>1, <1>2, <1>3, <1>4, <1>5, ComponentCases

\* What a component is doing follows from its place in the order.
LEMMA PhaseStep ==
    ASSUME PcTypes, ControlInv,
           CompTypes, OrderInv, PhaseInv, [Next]_vars
    PROVE  PhaseInv'
<1>1. CASE OrderComponents
  <3>1. CASE BeginShutdown /\ UNCHANGED orderVars
    BY <1>1, <3>1, OrderOrError, GotoRun
       DEF BeginShutdown, PhaseInv, OrderInv, Settled, ControlInv, compVars, Draining,
           Late, Threads
  <3>2. CASE /\ order' \in Bijection(Components, Components)
             /\ UNCHANGED <<pc, ready, watcher>>
    <4>1. \A k \in Components : order'[k] \in Components
      BY <3>2, OrderFacts
    <4>2. idx = 1 /\ \A i \in Components : comp[i] = "new"
      BY <1>1, OrderOrError DEF PhaseInv, OrderInv
    <4>3. \A k \in Components : k \in Nat /\ k >= 1
      BY NAssumption DEF Components
    <4>a. comp' = comp /\ idx' = idx
      BY <1>1, OrderOrError DEF compVars
    <4>4. StartPhase' /\ idx' > 0 /\ idx' = 1
      BY <4>a, <4>1, <4>2, <4>3 DEF StartPhase
    <4>5. stopOnce = "free" /\ UNCHANGED <<started, comp, stopOnce, gaveUp>> /\ ~started
      BY <1>1, OrderOrError DEF ControlInv, PhaseInv, compVars, PcTypes, Draining, Late,
                                Threads
    <4> QED
      BY <3>2, <4>2, <4>4, <4>5, <1>1, OrderOrError DEF PhaseInv, Threads
  <3> QED
    BY <1>1, <3>1, <3>2, OrderOrError
<1>2. CASE (OnStart \/ StartBegins \/ StartSucceeded \/ StartFailed) /\ UNCHANGED orderVars
  <2>1. CASE OnStart
    <3>1. order = <<>> /\ ~started /\ \A i \in Components : comp[i] = "new"
      BY <1>2, <2>1 DEF OnStart, At, OrderInv, Early
    <3>2. stopOnce = "free" /\ UNCHANGED <<started, comp, stopOnce, order>>
      BY <1>2, <2>1 DEF OnStart, At, ControlInv, PcTypes, Threads, Draining, Late,
                        compVars, orderVars
    <3>3. \/ pc'["run"] = "start" /\ idx' = 1
          \/ pc'["run"] \in {"notify", "deregister"}
      BY <1>2, <2>1, GotoRun DEF OnStart, BeginShutdown
    <3> QED
      BY <3>1, <3>2, <3>3 DEF PhaseInv, Settled, Threads
  <2>2. CASE StartBegins
    <3>1. /\ order \in Bijection(Components, Components) /\ order # <<>>
          /\ idx \in Components /\ StartPhase /\ ~started /\ stopOnce = "free"
      BY <1>2, <2>2 DEF StartBegins, At, OrderInv, PhaseInv, CompTypes, Components,
                        ControlInv, PcTypes, Threads, Draining, Late
    <3>2. /\ UNCHANGED <<pc, idx, started, stopOnce, order, gaveUp>>
          /\ comp' = [comp EXCEPT ![order[idx]] = "starting"]
      BY <1>2, <2>2 DEF StartBegins, orderVars
    <3>3. \A k \in Components :
             comp'[order[k]] = IF k = idx THEN "starting" ELSE comp[order[k]]
      <4>1. /\ idx \in Components /\ \A k \in Components : order[k] \in Components
            /\ \A j, k \in Components : order[j] = order[k] => j = k
        BY <3>1, OrderFacts
      <4>2. /\ comp' = [comp EXCEPT ![order[idx]] = "starting"]
            /\ comp \in [Components -> CompStates]
        BY <3>2 DEF CompTypes
      <4> QED
        BY ONLY <4>1, <4>2
    <3>4. StartPhase'
      BY <3>1, <3>2, <3>3 DEF StartPhase, Components
    <3>5. \A i \in Components : comp'[i] = "lingering" => comp[i] = "lingering"
      BY <3>2 DEF CompTypes
    <3> QED
      BY <1>2, <2>2, <3>1, <3>2, <3>4, <3>5 DEF StartBegins, At, PhaseInv, Threads
  <2>3. CASE StartSucceeded
    <3>1. /\ order \in Bijection(Components, Components) /\ order # <<>>
          /\ idx \in Components /\ StartPhase /\ ~started /\ stopOnce = "free"
          /\ comp[order[idx]] = "up" /\ pc["run"] = "start"
      BY <1>2, <2>3 DEF StartSucceeded, At, OrderInv, PhaseInv, CompTypes, Components,
                        ControlInv, PcTypes, Threads, Draining, Late
    <3>2. UNCHANGED <<comp, stopOnce, order, gaveUp>>
      BY <1>2, <2>3 DEF StartSucceeded, orderVars
    <3>3. CASE idx < N
      <4>1. idx' = idx + 1 /\ UNCHANGED <<pc, started>>
        BY <1>2, <2>3, <3>3 DEF StartSucceeded
      <4>2. StartPhase'
        BY <3>1, <3>2, <4>1, NAssumption DEF StartPhase, Components
      <4>3. idx' > 0
        BY <3>1, <4>1, NAssumption DEF Components
      <4> QED
        BY <3>1, <3>2, <4>1, <4>2, <4>3 DEF PhaseInv, Threads
    <3>4. CASE ~(idx < N)
      <4>1. started' = TRUE /\ pc'["run"] = "notify"
        BY <1>2, <2>3, <3>4, GotoRun DEF StartSucceeded
      <4>2. \A k \in Components : k <= idx
        BY <3>1, <3>4, NAssumption DEF Components
      <4>3. \A k \in Components : comp[order[k]] = "up"
        BY <3>1, <4>2, NAssumption DEF StartPhase, Components
      <4>4. \A i \in Components : comp[i] = "up"
        BY <3>1, <4>3, OrderFacts
      <4> QED
        BY <3>1, <3>2, <4>1, <4>4 DEF PhaseInv, Threads
    <3> QED
      BY <3>3, <3>4
  <2>4. CASE StartFailed
    <3>1. /\ order \in Bijection(Components, Components) /\ order # <<>>
          /\ idx \in Components /\ StartPhase /\ ~started /\ stopOnce = "free"
      BY <1>2, <2>4 DEF StartFailed, At, OrderInv, PhaseInv, CompTypes, Components,
                        ControlInv, PcTypes, Threads, Draining, Late
    <3>2. /\ UNCHANGED <<started, stopOnce, order>> /\ idx' = idx - 1
          /\ pc'["run"] = "rollback" /\ gaveUp \subseteq gaveUp'
      BY <1>2, <2>4, GotoRun DEF StartFailed, orderVars
    <3>3. /\ comp'[order[idx]] \in {"failed", "abandoned"}
          /\ \A k \in Components \ {idx} : comp'[order[k]] = comp[order[k]]
          /\ \A i \in Components : comp'[i] = "lingering" => comp[i] = "lingering"
      <4>1. CASE comp' = [comp EXCEPT ![order[idx]] = "abandoned"]
        <5>1. \A k \in Components :
                 comp'[order[k]] = IF k = idx THEN "abandoned" ELSE comp[order[k]]
          <6>1. /\ idx \in Components /\ \A k \in Components : order[k] \in Components
                /\ \A j, k \in Components : order[j] = order[k] => j = k
            BY <3>1, OrderFacts
          <6>2. comp \in [Components -> CompStates]
            BY DEF CompTypes
          <6> QED
            BY ONLY <4>1, <6>1, <6>2
        <5>2. \A i \in Components : comp'[i] = "lingering" => comp[i] = "lingering"
          BY <4>1 DEF CompTypes
        <5> QED
          BY <3>1, <5>1, <5>2
      <4>2. CASE comp[order[idx]] = "failed" /\ UNCHANGED comp
        BY <4>2
      <4> QED
        BY <1>2, <2>4, <4>1, <4>2 DEF StartFailed
    <3>4. StopPhase'
      BY <3>1, <3>2, <3>3, NAssumption DEF StartPhase, StopPhase, Components
    <3> QED
      BY <3>1, <3>2, <3>3, <3>4 DEF PhaseInv, Threads
  <2> QED
    BY <1>2, <2>1, <2>2, <2>3, <2>4
<1>3. CASE \E t \in Threads : StopsComponents(t) /\ UNCHANGED orderVars
  <2> SUFFICES ASSUME NEW t \in Threads, StopsComponents(t), UNCHANGED orderVars
               PROVE  PhaseInv'
    BY <1>3
  <2>1. CASE StopComponents(t)
    <3>1. /\ pc["run"] \notin {"start", "rollback"}
          /\ UNCHANGED <<comp, started, gaveUp, order>>
          /\ pc'["run"] \notin {"start", "rollback"}
      BY <2>1, GotoRun, GotoCloser DEF StopComponents, AfterStop, ControlInv, PcTypes,
           Threads, Late, Draining, orderVars
    <3>2. CASE stopOnce = "free" /\ started /\ stopOnce' = t /\ idx' = N
      <4>1. order # <<>>
        BY <3>2 DEF OrderInv
      <4>2. \A k \in Components : order[k] \in Components /\ k <= N /\ comp[order[k]] = "up"
        <5>1. order \in Bijection(Components, Components)
          BY <4>1 DEF OrderInv
        <5>2. \A i \in Components : comp[i] = "up" /\ i <= N
          BY <3>2 DEF PhaseInv, Components
        <5> QED
          BY <5>1, <5>2, OrderFacts
      <4>3. StopPhase'
        BY <3>1, <3>2, <4>2, NAssumption DEF StopPhase, Components
      <4> QED
        BY <3>1, <3>2, <4>1, <4>3 DEF PhaseInv, Threads
    <3>3. CASE stopOnce = "free" /\ ~started /\ stopOnce' = "done"
      BY <3>1, <3>3 DEF PhaseInv, Settled, Threads
    <3>4. CASE stopOnce = "done" /\ stopOnce' = "done"
      BY <3>1, <3>4 DEF PhaseInv, Settled, Threads
    <3> QED
      BY <2>1, <3>2, <3>3, <3>4 DEF StopComponents, StopLoopStart
  <2>2. CASE StopBegins(t)
    <3>1. InStopLoop(t) /\ idx > 0 /\ comp[order[idx]] = "up"
      BY <2>2 DEF StopBegins
    <3>2. /\ order \in Bijection(Components, Components) /\ order # <<>>
          /\ idx \in Components /\ StopPhase
      BY <3>1 DEF InStopLoop, OrderInv, PhaseInv, CompTypes, Components
    <3>3. /\ UNCHANGED <<pc, idx, started, stopOnce, order, gaveUp>>
          /\ comp' = [comp EXCEPT ![order[idx]] = "stopping"]
      BY <2>2 DEF StopBegins, orderVars
    <3>4. \A k \in Components :
             comp'[order[k]] = IF k = idx THEN "stopping" ELSE comp[order[k]]
      <4>1. /\ idx \in Components /\ \A k \in Components : order[k] \in Components
            /\ \A j, k \in Components : order[j] = order[k] => j = k
        BY <3>2, OrderFacts
      <4>2. /\ comp' = [comp EXCEPT ![order[idx]] = "stopping"]
            /\ comp \in [Components -> CompStates]
        BY <3>3 DEF CompTypes
      <4> QED
        BY ONLY <4>1, <4>2
    <3>5. StopPhase'
      BY <3>2, <3>3, <3>4 DEF StopPhase, Components
    <3>6. \A i \in Components : comp'[i] = "lingering" => comp[i] = "lingering"
      BY <3>3 DEF CompTypes
    <3>7. ~Settled
      BY <3>1, <3>2, OrderFacts DEF Settled
    <3>8. pc["run"] # "start" /\ (pc["run"] = "rollback" \/ stopOnce \in Threads)
          /\ (pc["run"] = "rollback" => stopOnce = "free")
      BY <3>1 DEF InStopLoop, ControlInv, PcTypes, Threads, Late, Draining
    <3> QED
      BY <3>2, <3>3, <3>5, <3>6, <3>7, <3>8 DEF PhaseInv, Threads
  <2>3. CASE StopAdvances(t)
    <3>1. InStopLoop(t) /\ idx > 0
      BY <2>3 DEF StopAdvances
    <3>2. /\ order \in Bijection(Components, Components) /\ order # <<>>
          /\ idx \in Components /\ StopPhase
      BY <3>1 DEF InStopLoop, OrderInv, PhaseInv, CompTypes, Components
    <3>3. UNCHANGED <<pc, started, stopOnce, order>> /\ idx' = idx - 1
      BY <2>3 DEF StopAdvances, orderVars
    <3>4. /\ comp'[order[idx]] \in {"stopped", "lingering"}
          /\ \A k \in Components \ {idx} : comp'[order[k]] = comp[order[k]]
          /\ (UNCHANGED <<comp, gaveUp>> \/ "stop" \in gaveUp')
      <4>1. CASE /\ comp' = [comp EXCEPT ![order[idx]] = "lingering"]
                 /\ gaveUp' = gaveUp \cup {"stop"}
        <5>1. \A k \in Components :
                 comp'[order[k]] = IF k = idx THEN "lingering" ELSE comp[order[k]]
          <6>1. /\ idx \in Components /\ \A k \in Components : order[k] \in Components
                /\ \A j, k \in Components : order[j] = order[k] => j = k
            BY <3>2, OrderFacts
          <6>2. comp \in [Components -> CompStates]
            BY DEF CompTypes
          <6> QED
            BY ONLY <4>1, <6>1, <6>2
        <5> QED
          BY <3>2, <4>1, <5>1
      <4>2. CASE comp[order[idx]] = "stopped" /\ UNCHANGED <<comp, gaveUp>>
        BY <4>2
      <4> QED
        BY <2>3, <4>1, <4>2 DEF StopAdvances
    <3>5. StopPhase'
      BY <3>2, <3>3, <3>4, NAssumption DEF StopPhase, Components
    <3>6. pc["run"] # "start" /\ (pc["run"] = "rollback" \/ stopOnce \in Threads)
          /\ (pc["run"] = "rollback" => stopOnce = "free")
      BY <3>1 DEF InStopLoop, ControlInv, PcTypes, Threads, Late, Draining
    <3>7. Settled => Settled'
      BY <3>2, <3>4, OrderFacts DEF Settled
    <3> QED
      BY <3>2, <3>3, <3>4, <3>5, <3>6, <3>7 DEF PhaseInv, Threads
  <2>4. CASE StopLoopEnds(t)
    <3>1. InStopLoop(t) /\ idx = 0 /\ UNCHANGED <<comp, started, gaveUp, order, idx>>
      BY <2>4 DEF StopLoopEnds, orderVars
    <3>2. Settled
      BY <3>1, EndOfStopLoop DEF InStopLoop, PhaseInv
    <3>3. stopOnce' \in {stopOnce, "done"} /\ pc'["run"] \notin {"start", "rollback"}
      BY <2>4, <3>1, GotoRun, GotoCloser
         DEF StopLoopEnds, InStopLoop, BeginShutdown, AfterStop, ControlInv, PcTypes,
             Threads, Late, Draining
    <3>4. stopOnce' \notin Threads
      BY <2>4, <3>1 DEF StopLoopEnds, InStopLoop, ControlInv, PcTypes, Threads, Late,
                        Draining
    <3>5. started /\ stopOnce' = "free" => \A i \in Components : comp[i] = "up"
      BY <2>4, <3>3 DEF PhaseInv, StopLoopEnds
    <3> QED
      BY <3>1, <3>2, <3>3, <3>4, <3>5 DEF PhaseInv, Settled, Threads
  <2> QED
    BY <2>1, <2>2, <2>3, <2>4 DEF StopsComponents
<1>4. CASE \E i \in Components : (StartReturns(i) \/ StopReturns(i)) /\ UNCHANGED orderVars
  <2> SUFFICES ASSUME NEW i \in Components, StartReturns(i) \/ StopReturns(i),
                      UNCHANGED orderVars
               PROVE  PhaseInv'
    BY <1>4
  <2>1. CASE StartReturns(i)
    <3>1. UNCHANGED <<pc, idx, started, stopOnce, order, gaveUp>>
      BY <2>1 DEF StartReturns, orderVars
    <3>2. PICK s \in {"up", "failed", "orphan"} :
             /\ comp' = [comp EXCEPT ![i] = s]
             /\ \/ comp[i] = "starting" /\ s # "orphan"
                \/ comp[i] = "abandoned" /\ s # "up"
      BY <2>1 DEF StartReturns
    <3>3. /\ comp'[i] = s /\ \A j \in Components \ {i} : comp'[j] = comp[j]
      BY <3>2 DEF CompTypes
    <3>4. order # <<>> /\ order \in Bijection(Components, Components)
      BY <3>2 DEF OrderInv
    <3>5. PICK p \in Components : order[p] = i
      BY <3>4, OrderFacts
    <3>6. /\ \A k \in Components : order[k] \in Components
          /\ \A k \in Components \ {p} : order[k] # i
      BY <3>4, <3>5, OrderFacts
    <3>7. /\ \A k \in Components : k # p => comp'[order[k]] = comp[order[k]]
          /\ comp'[order[p]] = s /\ comp[order[p]] \in {"starting", "abandoned"}
          /\ s = "up" => comp[order[p]] = "starting"
      BY <3>2, <3>3, <3>5, <3>6
    <3>8. idx \in 0 .. N /\ \A k \in Components : k \in Nat
      BY DEF CompTypes, Components
    <3>9. StopPhase => s # "up" /\ StopPhase'
      <4> SUFFICES ASSUME StopPhase PROVE s # "up" /\ StopPhase'
        OBVIOUS
      <4>1. p > idx /\ comp[order[p]] = "abandoned"
        BY <3>7, <3>8 DEF StopPhase
      <4> QED
        BY <3>1, <3>2, <3>7, <4>1 DEF StopPhase
    <3>10. StartPhase => StartPhase'
      <4> SUFFICES ASSUME StartPhase PROVE StartPhase'
        OBVIOUS
      <4>1. p = idx /\ comp[order[p]] = "starting"
        BY <3>7, <3>8 DEF StartPhase
      <4>2. s # "orphan"
        BY <3>2, <3>5, <4>1
      <4> QED
        BY <3>1, <3>2, <3>7, <4>1, <4>2 DEF StartPhase
    <3>11. Settled => Settled'
      BY <3>2, <3>3 DEF Settled
    <3>12. ~(\A j \in Components : comp[j] = "up")
      BY <3>2
    <3>13. \A j \in Components : comp'[j] = "lingering" => comp[j] = "lingering"
      BY <3>2, <3>3
    <3> QED
      BY <3>1, <3>4, <3>9, <3>10, <3>11, <3>12, <3>13 DEF PhaseInv
  <2>2. CASE StopReturns(i)
    BY <2>2 DEF StopReturns, orderVars, compVars, PhaseInv, StartPhase, StopPhase,
                Settled, CompTypes, OrderInv
  <2> QED
    BY <2>1, <2>2
<1>5. CASE ComponentsUntouched
  BY <1>5 DEF ComponentsUntouched, orderVars, compVars, PhaseInv, StartPhase, StopPhase,
              Settled, CompTypes, OrderInv
<1> QED
  BY <1>1, <1>2, <1>3, <1>4, <1>5, ComponentCases

\* Ready is set with the end of a complete start, and cleared by the shutdown.
LEMMA ReadyStep ==
    ASSUME PcTypes, ControlInv,
           CompTypes, OrderInv, PhaseInv, FlagTypes, ReadyInv, [Next]_vars
    PROVE  ReadyInv'
<1>1. CASE OrderComponents
  <3>1. ~ready /\ UNCHANGED started
    BY <1>1, OrderOrError DEF ReadyInv, compVars
  <3>2. CASE BeginShutdown
    <4>1. ready' = FALSE /\ pc'["run"] = "deregister"
      BY <3>2, GotoRun DEF BeginShutdown
    <4> QED
      BY <4>1 DEF ReadyInv
  <3>3. CASE UNCHANGED <<pc, ready>>
    BY <3>1, <3>3 DEF ReadyInv
  <3> QED
    BY <1>1, <3>2, <3>3, OrderOrError
<1>2. CASE (OnStart \/ StartBegins \/ StartSucceeded \/ StartFailed) /\ UNCHANGED orderVars
  <2>1. CASE OnStart
    BY <1>2, <2>1, GotoRun DEF OnStart, At, BeginShutdown, orderVars, compVars,
                               ReadyInv, CompTypes, FlagTypes, Threads
  <2>2. CASE StartBegins
    BY <1>2, <2>2 DEF StartBegins, At, orderVars, compVars, ReadyInv, CompTypes,
                      FlagTypes, Threads
  <2>3. CASE StartSucceeded
    BY <1>2, <2>3, GotoRun DEF StartSucceeded, At, orderVars, compVars, ReadyInv,
                               CompTypes, FlagTypes, Threads
  <2>4. CASE StartFailed
    BY <1>2, <2>4, GotoRun DEF StartFailed, At, orderVars, compVars, ReadyInv,
                               CompTypes, FlagTypes, Threads
  <2> QED
    BY <1>2, <2>1, <2>2, <2>3, <2>4
<1>3. CASE \E t \in Threads : StopsComponents(t) /\ UNCHANGED orderVars
  <2> SUFFICES ASSUME NEW t \in Threads, StopsComponents(t), UNCHANGED orderVars
               PROVE  ReadyInv'
    BY <1>3
  <2>1. CASE StopComponents(t)
    BY <2>1, GotoRun, GotoCloser DEF StopComponents, StopLoopStart, AfterStop,
         orderVars, compVars, ReadyInv, CompTypes, FlagTypes, Threads
  <2>2. CASE StopBegins(t)
    BY <2>2 DEF StopBegins, InStopLoop, orderVars, compVars, ReadyInv, CompTypes,
                FlagTypes, Threads
  <2>3. CASE StopAdvances(t)
    BY <2>3 DEF StopAdvances, InStopLoop, orderVars, compVars, ReadyInv, CompTypes,
                FlagTypes, Threads
  <2>4. CASE StopLoopEnds(t)
    BY <2>4, GotoRun, GotoCloser DEF StopLoopEnds, InStopLoop, BeginShutdown, AfterStop,
         orderVars, compVars, ReadyInv, CompTypes, FlagTypes, Threads
  <2> QED
    BY <2>1, <2>2, <2>3, <2>4 DEF StopsComponents
<1>4. CASE \E i \in Components : (StartReturns(i) \/ StopReturns(i)) /\ UNCHANGED orderVars
  <2> SUFFICES ASSUME NEW i \in Components, StartReturns(i) \/ StopReturns(i),
                      UNCHANGED orderVars
               PROVE  ReadyInv'
    BY <1>4
  <2>1. CASE StartReturns(i)
    BY <2>1 DEF StartReturns, orderVars, compVars, ReadyInv, CompTypes, FlagTypes,
                Threads
  <2>2. CASE StopReturns(i)
    BY <2>2 DEF StopReturns, orderVars, compVars, ReadyInv, CompTypes, FlagTypes,
                Threads
  <2> QED
    BY <2>1, <2>2
<1>5. CASE ComponentsUntouched
  BY <1>5 DEF ComponentsUntouched, orderVars, compVars, ReadyInv, CompTypes, FlagTypes,
              Threads
<1> QED
  BY <1>1, <1>2, <1>3, <1>4, <1>5, ComponentCases

\* Components are ordered in Run, which has an App.
LEMMA NewInvStep ==
    ASSUME PcTypes, ControlInv, OrderInv, NewInv, [Next]_vars
    PROVE  NewInv'
<1>1. CASE Boot
  <2>1. UNCHANGED order /\ pc["run"] = "setup"
    BY <1>1, Booting DEF runVars, orderVars
  <2> QED
    BY <2>1 DEF OrderInv, NewInv, Early
<1>2. CASE NewReturns
  BY <1>2 DEF NewReturns, NewInv, newVars, orderVars
<1>3. CASE OrderComponents /\ UNCHANGED newVars
  BY <1>3 DEF OrderComponents, At, ControlInv, NewInv, newVars
<1>4. CASE UNCHANGED newVars /\ UNCHANGED order
  BY <1>4 DEF NewInv, newVars
<1> QED
  BY <1>1, <1>2, <1>3, <1>4
     DEF Next, RunStep, SharedStep, Environment, Terminated, vars, appVars, runVars,
         orderVars

-----------------------------------------------------------------------------
(* The invariant AppInd, and what it shows.                                *)

\* New and Run begin in it.
LEMMA AppInit == Init => AppInd
<1> SUFFICES ASSUME Init PROVE AppInd
  OBVIOUS
<1>1. StartupTypeOK
  BY InputsAssumption DEF Init, NewInit, StartupTypeOK, Steps
<1>2. ConfigInv /\ PolicyInv /\ OpenedInv
  BY InputsAssumption DEF Init, NewInit, ConfigInv, PolicyInv, OpenedInv
<1>3. PcTypes /\ ControlInv
  BY DEF Init, PcTypes, ControlInv, Threads, RunPCs, CloserPCs, Draining, Late
<1>4. NetTypes /\ FlagTypes
  BY DEF Init, NetTypes, FlagTypes
<1>5. ServersInv /\ RegistrationInv /\ WatcherInv
  BY DEF Init, ServersInv, RegistrationInv, WatcherInv, Threads, Draining, Late
<1> QED
  BY <1>1, <1>2, <1>3, <1>4, <1>5 DEF AppInd

\* Every step of the program and of its environment preserves it.
LEMMA AppStep == AppInd /\ [Next]_vars => AppInd'
BY StartupTypes, ConfigStep, PolicyStep, OpenedStep, PcTypesStep, ControlStep,
   NetTypesStep,
   FlagTypesStep, ServersStep, RegistrationStep, WatcherStep DEF AppInd

\* It always holds.
LEMMA AppInductive == Spec => []AppInd
BY AppInit, AppStep, PTL DEF Spec

\* requireTLS is enforced before a byte is sent, whatever the remote layers
\* change later: New contacts the configuration center only if the local
\* policy lets it, Redis and the registry only if the final one does.
THEOREM PolicyBeforeContact == Spec => []PolicyFirst
<1>1. AppInd => PolicyFirst
  <2> SUFFICES ASSUME PolicyInv, NEW c \in contacts, ~c.tls
               PROVE  IF c.to = "config" THEN ~localCfg.requireTLS ELSE ~cfg.requireTLS
    BY DEF AppInd, PolicyFirst
  <2> QED
    BY DEF PolicyInv
<1> QED
  BY <1>1, AppInductive, PTL

\* Every error path of New closes all that New had opened before it.
THEOREM ErrorPathsCloseAll == Spec => []FailedNewLeaksNothing
<1>1. AppInd => FailedNewLeaksNothing
  BY DEF AppInd, OpenedInv, FailedNewLeaksNothing
<1> QED
  BY <1>1, AppInductive, PTL

\* The configuration New hands to Run is the one the environment asked for,
\* with no secret from a remote layer or, in release mode, from the file.
THEOREM OverridesWin == Spec => []EnvironmentWins
<1>1. AppInd => EnvironmentWins
  <2> SUFFICES ASSUME ConfigInv, step = "app" PROVE EnvironmentWins
    BY DEF AppInd, EnvironmentWins
  <2>1. EnvApplied /\ ~HasInlineSecret(cfg) /\ cfg.dsn # "remote" /\ cfg.secret # "remote"
    BY DEF ConfigInv
  <2> QED
    BY <2>1 DEF EnvApplied, HasInlineSecret, EnvironmentWins
<1> QED
  BY <1>1, AppInductive, PTL

\* Run registers after the ports are bound and deregisters before it closes
\* the listeners: what is registered listens, unless the deregistration is about
\* to be tried or has failed, the server itself failed, or a signal killed the
\* process.
THEOREM RegisteredOnlyWhileServing == Spec => []RegisteredIsReachable
<1>1. AppInd => RegisteredIsReachable
  <2> SUFFICES ASSUME AppInd, registered, "deregister" \notin gaveUp
               PROVE  "http" \in serving \cup serveErr \/ pc["run"] = "deregister"
    BY DEF RegisteredIsReachable
  <2> QED
    BY DEF AppInd, PcTypes, RunPCs, RegistrationInv, ServersInv, Draining, Late
<1> QED
  BY <1>1, AppInductive, PTL

-----------------------------------------------------------------------------
(* The invariant CompInd, and what the two show together.                  *)

\* No component has an order yet when Run begins.
LEMMA CompInit == Init => CompInd
<1> SUFFICES ASSUME Init PROVE CompInd
  OBVIOUS
<1>1. CompTypes
  <2>1. idx \in 0 .. N /\ needs \subseteq Components \X Components /\ started \in BOOLEAN
    <3>1. idx = 0 /\ needs = {} /\ started = FALSE
      BY DEF Init
    <3>2. idx \in 0 .. N
      BY <3>1, NAssumption
    <3>3. needs \subseteq Components \X Components /\ started \in BOOLEAN
      BY <3>1, Zenon
    <3> QED
      BY <3>2, <3>3
  <2>2. comp \in [Components -> CompStates]
    BY DEF Init, CompStates
  <2> QED
    BY <2>1, <2>2 DEF CompTypes
<1>2. OrderInv /\ NewInv
  BY DEF Init, OrderInv, NewInv
<1>3. PhaseInv /\ ReadyInv
  BY DEF Init, PhaseInv, ReadyInv, Settled, Threads
<1> QED
  BY <1>1, <1>2, <1>3 DEF CompInd

\* Every step preserves it.
LEMMA CompStep == AppInd /\ CompInd /\ [Next]_vars => CompInd'
BY CompTypesStep, OrderStep, NewInvStep, PhaseStep, ReadyStep DEF AppInd, CompInd

\* Both always hold.
LEMMA CompInductive == Spec => [](AppInd /\ CompInd)
<1>1. Init => AppInd /\ CompInd
  BY AppInit, CompInit
<1>2. (AppInd /\ CompInd) /\ [Next]_vars => (AppInd /\ CompInd)'
  BY AppStep, CompStep
<1> QED
  BY <1>1, <1>2, PTL DEF Spec

\* The variables keep their types.
LEMMA Types == AppInd /\ CompInd => TypeOK
<1> SUFFICES ASSUME AppInd, CompInd PROVE TypeOK
  OBVIOUS
<1>1. order \in Seq(Components)
  <2>1. CASE order = <<>>
    BY <2>1
  <2>2. CASE order \in Bijection(Components, Components)
    <3>1. order \in [1 .. N -> Components] /\ N \in Nat
      BY <2>2, NAssumption, Zenon DEF Bijection, Injection, Components
    <3> QED
      BY <3>1
  <2> QED
    BY <2>1, <2>2 DEF CompInd, OrderInv
<1> QED
  BY <1>1 DEF AppInd, CompInd, PcTypes, CompTypes, NetTypes, FlagTypes, TypeOK

\* /ready answers OK only while everything is up.
LEMMA ReadyIsTrue == AppInd /\ CompInd => ReadyMeansRunning
<1> SUFFICES ASSUME AppInd, CompInd, ready PROVE ReadyMeansRunning
  BY DEF ReadyMeansRunning
<1>1. pc["run"] \in {"notify", "wait"} /\ (started \/ N = 0)
  BY DEF CompInd, ReadyInv
<1>2. stopOnce = "free" /\ closeOnce # "done" /\ step = "running"
  BY <1>1 DEF AppInd, ControlInv, PcTypes, Threads, Draining, Late
<1>3. \A i \in Components : comp[i] = "up"
  <2>1. N = 0 => Components = {}
    BY DEF Components
  <2> QED
    BY <1>1, <1>2, <2>1 DEF CompInd, PhaseInv
<1>4. opened # {}
  BY <1>2 DEF AppInd, OpenedInv
<1>5. "registry" \in opened => registered
  BY <1>1 DEF AppInd, RegistrationInv
<1> QED
  BY <1>1, <1>3, <1>4, <1>5 DEF ReadyMeansRunning

\* Where a loop is, the order decides what is up.
LEMMA OrderIsKept == AppInd /\ CompInd => StartAndStopOrder
<1> SUFFICES ASSUME AppInd, CompInd PROVE StartAndStopOrder
  OBVIOUS
<1>1. CASE order = <<>>
  <2>1. needs = {} /\ DOMAIN order = {}
    BY <1>1 DEF CompInd, OrderInv
  <2> QED
    BY <2>1 DEF StartAndStopOrder
<1>2. CASE order # <<>>
  <2>1. order \in Bijection(Components, Components) /\ Respects(order, needs)
    BY <1>2 DEF CompInd, OrderInv
  <2>2. /\ DOMAIN order = Components
        /\ \A k \in Components : order[k] \in Components
        /\ \A i \in Components : \E k \in Components : order[k] = i
    BY <2>1, OrderFacts
  <2>3. idx \in 0 .. N /\ N \in Nat /\ \A k \in Components : k \in Nat
    BY NAssumption DEF CompInd, CompTypes, Components
  <2>4. \/ StartPhase \/ StopPhase \/ Settled
        \/ \A i \in Components : comp[i] = "up"
    BY <1>2 DEF AppInd, CompInd, PhaseInv, PcTypes
  <2>5. \A i, j \in Components : i < j =>
            /\ comp[order[i]] \in StopBegun => comp[order[j]] # "up"
            /\ comp[order[j]] \in {"starting", "up"} => comp[order[i]] = "up"
    <3>1. CASE StartPhase
      BY <3>1, <2>3 DEF StartPhase, StopBegun
    <3>2. CASE StopPhase
      BY <3>2, <2>3 DEF StopPhase, StopBegun
    <3>3. CASE Settled
      BY <3>3, <2>2 DEF Settled, StopBegun
    <3>4. CASE \A i \in Components : comp[i] = "up"
      BY <3>4, <2>2 DEF StopBegun
    <3> QED
      BY <2>4, <3>1, <3>2, <3>3, <3>4
  <2>6. ASSUME NEW n \in needs, comp[n[1]] \in {"starting", "up"}
        PROVE  comp[n[2]] = "up"
    <3>1. PICK a, b \in Components : n = <<a, b>>
      BY DEF CompInd, CompTypes
    <3>2. PICK i, j \in Components : order[i] = a /\ order[j] = b
      BY <2>2, <3>1
    <3>3. j < i
      BY <2>1, <2>2, <3>1, <3>2, <2>6 DEF Respects
    <3> QED
      BY <2>5, <2>6, <3>1, <3>2, <3>3
  <2> QED
    BY <2>2, <2>5, <2>6 DEF StartAndStopOrder
<1> QED
  BY <1>1, <1>2

\* What the rest of the system sees of an instance is true: /ready says OK only
\* while every component is up, the instance registered and the resources open;
\* components start after what they depend on and stop in the reverse order,
\* in a rollback and in a shutdown; what is registered accepts connections, with
\* the exceptions of RegisteredIsReachable.
THEOREM WhatIsAnnouncedHolds == Spec => []Inv
<1>1. Spec => [](TypeOK /\ ReadyMeansRunning /\ StartAndStopOrder)
  BY CompInductive, Types, ReadyIsTrue, OrderIsKept, PTL
<1> QED
  BY <1>1, OverridesWin, RegisteredOnlyWhileServing, PTL DEF Inv

\* Whichever way Run returns or Close completes, every component started has
\* been asked to stop, all that New opened is closed, no server listens, and only
\* a drain that was given up leaves requests; Run leaves the instance
\* deregistered unless the registry did not answer.
THEOREM CloseLeavesNothing == Spec => []NothingLeftUp
<1>1. AppInd /\ CompInd => NothingLeftUp
  <2> SUFFICES ASSUME AppInd, CompInd, pc["run"] = "exited" \/ closeOnce = "done"
               PROVE  NothingLeftUp
    BY DEF NothingLeftUp
  <2>1. opened = {}
    BY DEF AppInd, ControlInv, OpenedInv
  <2>2. Settled
    <3>1. CASE closeOnce = "done"
      BY <3>1 DEF AppInd, ControlInv, CompInd, PhaseInv
    <3>2. CASE closeOnce # "done"
      <4>1. step = "error" /\ pc["run"] = "exited" /\ pc["closer"] = "exited"
        BY <3>2 DEF AppInd, ControlInv
      <4> QED
        BY <4>1 DEF CompInd, NewInv, OrderInv, Settled
    <3> QED
      BY <3>1, <3>2
  <2>3. pc["run"] = "exited" /\ "deregister" \notin gaveUp => ~registered
    BY DEF AppInd, RegistrationInv, Late
  <2>4. pc["run"] \in Late
    BY DEF AppInd, ControlInv, Late
  <2>5. serving = {} /\ (requests # {} => "drain" \in gaveUp)
    BY <2>4 DEF AppInd, ServersInv
  <2> QED
    BY <2>1, <2>2, <2>3, <2>5 DEF Settled, NothingLeftUp
<1> QED
  BY <1>1, CompInductive, PTL

\* Close releases databases, Redis and telemetry after the components, the
\* requests in flight and the configuration watcher are gone, or after the
\* wait for them has been given up.
THEOREM ReleaseComesLast == Spec => []ResourcesOutliveUsers
<1>1. AppInd /\ CompInd => ResourcesOutliveUsers
  <2> SUFFICES ASSUME AppInd, CompInd, pc["run"] # "setup", opened = {}
               PROVE  ResourcesOutliveUsers
    BY DEF ResourcesOutliveUsers
  <2>1. CASE closeOnce = "done"
    <3>1. pc["run"] \in Late /\ stopOnce = "done"
      BY <2>1 DEF AppInd, ControlInv
    <3>2. Settled /\ ((\E i \in Components : comp[i] = "lingering") => "stop" \in gaveUp)
      BY <3>1 DEF CompInd, PhaseInv
    <3>3. requests # {} => "drain" \in gaveUp
      BY <3>1 DEF AppInd, ServersInv
    <3>4. watcher \in {"on", "cancelled"} => "watcher" \in gaveUp
      BY <3>1 DEF AppInd, WatcherInv
    <3> QED
      BY <3>2, <3>3, <3>4 DEF Settled, ResourcesOutliveUsers
  <2>2. CASE closeOnce # "done"
    <3>1. step # "running"
      BY <2>2 DEF AppInd, OpenedInv
    <3>2. pc["run"] = "exited"
      BY <3>1 DEF AppInd, ControlInv
    <3>3. \A i \in Components : comp[i] = "new"
      BY <3>1 DEF CompInd, NewInv, OrderInv
    <3>4. requests # {} => "drain" \in gaveUp
      BY <3>2 DEF AppInd, ServersInv, Late
    <3>5. watcher \in {"on", "cancelled"} => "watcher" \in gaveUp
      BY <3>2 DEF AppInd, WatcherInv, Late
    <3> QED
      BY <3>3, <3>4, <3>5 DEF ResourcesOutliveUsers
  <2> QED
    BY <2>1, <2>2
<1> QED
  BY <1>1, CompInductive, PTL

=============================================================================
