----------------------------- MODULE Components -----------------------------
(***************************************************************************)
(* orderComponents (boot/components.go): the order in which components     *)
(* start, a depth-first traversal of their dependencies.  Components are   *)
(* the numbers 1 .. n, in the order of their registration; deps[c] is what *)
(* c's DependsOn returns, a sequence that may name components that do not  *)
(* exist.  The recursion of visit is its path, the calls under way; a turn *)
(* of one of its loops is a move.                                          *)
(***************************************************************************)
EXTENDS Naturals, Sequences, Functions

\* The loop over the components comes next to root; of the components on the path,
\* whose state is 1, each loops over its dependencies and comes next to the one at
\* next.  A component in ordered has state 2.
Traversals(n) ==
    [root : 1..n + 1, path : Seq(1..n), next : [1..n -> Nat \ {0}],
     ordered : Seq(1..n), error : {"pending", "none", "cycle", "unknown"}]

Begin(n) ==
    [root |-> 1, path |-> <<>>, next |-> [c \in 1..n |-> 1],
     ordered |-> <<>>, error |-> "pending"]

\* visit is called for c, ...
Visit(t, c) ==
    IF c \in Range(t.path) THEN [t EXCEPT !.error = "cycle"]
    ELSE IF c \in Range(t.ordered) THEN t
    ELSE [t EXCEPT !.path = Append(@, c), !.next[c] = 1]

\* ... and appends it after its dependencies.
Visited(t, c) ==
    [t EXCEPT !.path = SubSeq(@, 1, Len(@) - 1), !.ordered = Append(@, c)]

NextComponent(n, t) ==
    IF t.root > n THEN [t EXCEPT !.error = "none"]
    ELSE Visit([t EXCEPT !.root = @ + 1], t.root)

NextDependency(n, deps, t) ==
    LET c == t.path[Len(t.path)]
        d == deps[c][t.next[c]]
    IN  IF t.next[c] > Len(deps[c]) THEN Visited(t, c)
        ELSE IF d \notin 1..n THEN [t EXCEPT !.error = "unknown"]
        ELSE Visit([t EXCEPT !.next[c] = @ + 1], d)

Move(n, deps, t) ==
    IF t.error # "pending" THEN t
    ELSE IF t.path = <<>> THEN NextComponent(n, t)
    ELSE NextDependency(n, deps, t)

\* Moves enough for every component and every dependency.
Longest(n, deps) ==
    CHOOSE l \in {0} \cup {Len(deps[c]) : c \in 1..n} : \A c \in 1..n : Len(deps[c]) <= l
Moves(n, deps) == (n + 1) * (Longest(n, deps) + 2)

orderComponents(n, deps) ==
    LET traversal[k \in Nat] ==
            IF k = 0 THEN Begin(n) ELSE Move(n, deps, traversal[k - 1])
    IN  traversal[Moves(n, deps)]

-----------------------------------------------------------------------------
(* The reference: what the order must be.                                  *)

DependsOn(n, deps) == {p \in (1..n) \X (1..n) : p[2] \in Range(deps[p[1]])}

Respects(order, relation) ==
    \A i, j \in DOMAIN order : <<order[i], order[j]>> \in relation => j < i

HasUnknown(n, deps) == \E c \in 1..n : Range(deps[c]) \ (1..n) # {}
\* An order has every component once and puts dependencies first.
IsOrder(n, deps, order) ==
    order \in Bijection(1..n, 1..n) /\ Respects(order, DependsOn(n, deps))

Orderable(n, deps) ==
    ~HasUnknown(n, deps) /\ \E order \in Bijection(1..n, 1..n) : IsOrder(n, deps, order)

\* The traversal ends; an order is found exactly for the graphs that have one, it
\* is one, and it is the order of registration when nothing depends on anything.
OrderIsRight(n, deps) ==
    LET result == orderComponents(n, deps)
    IN  /\ result.error # "pending"
        /\ result.error = "none" <=> Orderable(n, deps)
        /\ result.error = "none" => IsOrder(n, deps, result.ordered)
        /\ DependsOn(n, deps) = {} /\ result.error = "none"
              => result.ordered = [c \in 1..n |-> c]
=============================================================================
