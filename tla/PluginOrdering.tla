---------------------------- MODULE PluginOrdering ----------------------------
(***************************************************************************)
(* topological_sort of plugin/ordering.rs: the declarations of the plugins *)
(* become edges, the edges in-degrees, and a queue of plugins whose        *)
(* in-degree reached zero yields the order.  One step is one iteration of  *)
(* the loop over the plugins, the counting of the in-degrees, or one       *)
(* iteration of the loop over the queue.                                   *)
(*                                                                         *)
(* Plugins are their indices in registration order.  build has rejected    *)
(* duplicate names before it sorts, so an index stands for a name, and     *)
(* Ghost for a name that no plugin has.                                    *)
(***************************************************************************)
EXTENDS Integers, Sequences, FiniteSets

CONSTANTS
    N,          \* the number of plugins
    Ghost,      \* a name that is not registered
    Decls,      \* the sets of declarations to sort
    UsizeMax    \* usize::MAX

Plugins == 1..N

(* What a plugin's ordering() may declare.                                  *)
Declarations ==
    [by : Plugins, kind : {"before", "after"}, of : Plugins \cup {Ghost}]
        \cup [by : Plugins, kind : {"first", "last"}, of : {Ghost}]

ASSUME OrderingAssumption ==
    /\ N \in Nat
    /\ Ghost \notin Plugins
    /\ Decls \subseteq SUBSET Declarations
    /\ UsizeMax \in Nat /\ UsizeMax > N

VARIABLES
    checked,    \* overflow checks are compiled in
    decls,      \* what the plugins declare
    i,          \* the plugin whose declarations are read next
    adj,        \* the successors of each plugin
    in_degree,  \* how many predecessors of each plugin are not sorted yet
    queue,      \* plugins without unsorted predecessors
    sorted,     \* the order so far
    result      \* "running", "ok", "error", or "panic"

vars == <<checked, decls, i, adj, in_degree, queue, sorted, result>>

TypeOK ==
    /\ checked \in BOOLEAN
    /\ decls \subseteq Declarations
    /\ i \in 1..(N + 2)
    /\ adj \in [Plugins -> SUBSET Plugins]
    /\ in_degree \in [Plugins -> 0..UsizeMax]
    /\ queue \in Seq(Plugins)
    /\ sorted \in Seq(Plugins)
    /\ result \in {"running", "ok", "error", "panic"}

Init ==
    /\ checked \in BOOLEAN
    /\ decls \in Decls
    /\ i = 1
    /\ adj = [p \in Plugins |-> {}]
    /\ in_degree = [p \in Plugins |-> 0]
    /\ queue = <<>>
    /\ sorted = <<>>
    /\ result = "running"

-----------------------------------------------------------------------------
Declares(p, kind) == \E d \in decls : d.by = p /\ d.kind = kind

Named(p, kind) == {d.of : d \in {e \in decls : e.by = p /\ e.kind = kind}}

IsFirst(p) == Declares(p, "first")
IsLast(p) == Declares(p, "last")

Contradicts(p) ==
    \/ IsFirst(p) /\ IsLast(p)
    \/ Ghost \in Named(p, "before") \cup Named(p, "after")

(* Mutant: `after` makes the same edge as `before`.                         *)
EdgesReversed(p) ==
    ({<<p, q>> : q \in {r \in Plugins : r # p /\ IsFirst(p) /\ ~IsFirst(r)}})
        \cup ({<<q, p>> : q \in {r \in Plugins : r # p /\ IsLast(p) /\ ~IsLast(r)}})
        \cup ({<<p, q>> : q \in Named(p, "before") \cup Named(p, "after")})

(* Mutant: two plugins that are both `first` are ordered against each other.*)
EdgesAmongFirst(p) ==
    ({<<p, q>> : q \in {r \in Plugins : r # p /\ IsFirst(p)}})
        \cup ({<<q, p>> : q \in {r \in Plugins : r # p /\ IsLast(p) /\ ~IsLast(r)}})
        \cup ({<<p, q>> : q \in Named(p, "before")})
        \cup ({<<q, p>> : q \in Named(p, "after")})

(* The pairs <<earlier, later>> that the declarations of p ask for.         *)
EdgesOf(p) ==
    ({<<p, q>> : q \in {r \in Plugins : r # p /\ IsFirst(p) /\ ~IsFirst(r)}})
        \cup ({<<q, p>> : q \in {r \in Plugins : r # p /\ IsLast(p) /\ ~IsLast(r)}})
        \cup ({<<p, q>> : q \in Named(p, "before")})
        \cup ({<<q, p>> : q \in Named(p, "after")})

ReadDeclarations ==
    /\ result = "running" /\ i <= N /\ ~Contradicts(i)
    /\ adj' = [p \in Plugins |-> adj[p] \cup {q \in Plugins : <<p, q>> \in EdgesOf(i)}]
    /\ i' = i + 1
    /\ UNCHANGED <<checked, decls, in_degree, queue, sorted, result>>

RejectDeclarations ==
    /\ result = "running" /\ i <= N /\ Contradicts(i)
    /\ result' = "error"
    /\ UNCHANGED <<checked, decls, i, adj, in_degree, queue, sorted>>

(* Mutant: an edge counts only where it goes up, i < j for i != j.          *)
LowerPredecessors(p) == {q \in Plugins : p \in adj[q] /\ q < p}

(* An edge from a plugin to itself is not counted.                          *)
Predecessors(p) == {q \in Plugins : p \in adj[q] /\ q # p}

(* The one sequence that lists a set of plugins by their indices.           *)
InOrder(set) ==
    {s \in [1..Cardinality(set) -> set] : \A a, b \in DOMAIN s : a < b => s[a] < s[b]}

CountInDegrees ==
    /\ result = "running" /\ i = N + 1
    /\ in_degree' = [p \in Plugins |-> Cardinality(Predecessors(p))]
    /\ queue' \in InOrder({p \in Plugins : in_degree'[p] = 0})
    /\ i' = N + 2
    /\ UNCHANGED <<checked, decls, adj, sorted, result>>

(* in_degree[neighbor] -= 1 on a usize.                                     *)
Minus1(d) == (d - 1) % (UsizeMax + 1)

Pop ==
    /\ result = "running" /\ i = N + 2 /\ queue # <<>>
    /\ ~(checked /\ \E p \in adj[Head(queue)] : in_degree[p] = 0)
    /\ sorted' = Append(sorted, Head(queue))
    /\ in_degree' = [p \in Plugins |->
                        IF p \in adj[Head(queue)] THEN Minus1(in_degree[p]) ELSE in_degree[p]]
    /\ \E next \in InOrder({p \in adj[Head(queue)] : in_degree'[p] = 0}) :
        queue' = Tail(queue) \o next
    /\ UNCHANGED <<checked, decls, i, adj, result>>

(* The same with overflow checks, on a count that is zero already.          *)
PopOverflows ==
    /\ result = "running" /\ i = N + 2 /\ queue # <<>>
    /\ checked /\ \E p \in adj[Head(queue)] : in_degree[p] = 0
    /\ result' = "panic"
    /\ UNCHANGED <<checked, decls, i, adj, in_degree, queue, sorted>>

Finish ==
    /\ result = "running" /\ i = N + 2 /\ queue = <<>>
    /\ result' = IF Len(sorted) = N THEN "ok" ELSE "error"
    /\ UNCHANGED <<checked, decls, i, adj, in_degree, queue, sorted>>

Step ==
    \/ ReadDeclarations \/ RejectDeclarations \/ CountInDegrees
    \/ Pop \/ PopOverflows \/ Finish

Next == Step

Spec == Init /\ [][Next]_vars

FairSpec == Spec /\ WF_vars(Step)

-----------------------------------------------------------------------------
(* Properties.  The reference definition: an order is a bijection of        *)
(* positions and plugins, and it satisfies a declaration or does not.       *)

Orders == {s \in [1..N -> Plugins] : \A a, b \in 1..N : s[a] = s[b] => a = b}

PositionIn(s, p) == CHOOSE a \in 1..N : s[a] = p

Precedes(s, p, q) == PositionIn(s, p) < PositionIn(s, q)

Satisfies(s, d) ==
    CASE d.kind = "before" -> d.of # Ghost /\ (d.of # d.by => Precedes(s, d.by, d.of))
      [] d.kind = "after"  -> d.of # Ghost /\ (d.of # d.by => Precedes(s, d.of, d.by))
      [] d.kind = "first"  -> \A q \in Plugins \ {d.by} : Precedes(s, d.by, q) \/ IsFirst(q)
      [] d.kind = "last"   -> \A q \in Plugins \ {d.by} : Precedes(s, q, d.by) \/ IsLast(q)

HasSelfReference == \E d \in decls : d.of = d.by

(* topological_sort accepts: what it returns is an order of all plugins in  *)
(* which every before, after, first and last is honoured.                   *)
AcceptedOrderHonoursAll ==
    result = "ok" => sorted \in Orders /\ \A d \in decls : Satisfies(sorted, d)

(* topological_sort rejects: only when a plugin is both first and last, a   *)
(* name is unknown, or no order of the plugins honours all declarations.    *)
RejectsOnlyTheImpossible ==
    result = "error" =>
        \/ \E p \in Plugins : IsFirst(p) /\ IsLast(p)
        \/ ~ \E s \in Orders : \A d \in decls : Satisfies(s, d)

(* A sort without self-reference ends in a result and never panics.         *)
SortAnswers == <>(result \in {"ok", "error"} \/ (result = "panic" /\ HasSelfReference))

(* "rejecting cycles": a plugin that must run before or after itself is a   *)
(* cycle of length one.                                                     *)
SelfReferenceRejected == HasSelfReference => result # "ok"

=============================================================================
