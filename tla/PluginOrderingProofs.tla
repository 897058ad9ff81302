------------------------- MODULE PluginOrderingProofs -------------------------
(***************************************************************************)
(* Theorems about PluginOrdering, for every number of plugins and every     *)
(* set of declarations: Kahn's algorithm as topological_sort runs it.       *)
(***************************************************************************)
EXTENDS PluginOrdering, FiniteSetTheorems, TLAPS

Elements(s) == {s[a] : a \in 1..Len(s)}

(* The predecessors of p that have not been sorted.                         *)
Waiting(p) == Predecessors(p) \ Elements(sorted)

(* adj holds the edges of the declarations read so far, and no other.       *)
EdgesRead ==
    /\ \A p \in Plugins : p < i => ~Contradicts(p)
    /\ \A a, b \in Plugins : b \in adj[a] <=> \E p \in Plugins : p < i /\ <<a, b>> \in EdgesOf(p)

NothingSorted == i # N + 2 => queue = <<>> /\ sorted = <<>>

Counted == i = N + 2 =>
    /\ \A p \in Plugins \ Elements(sorted) : in_degree[p] = Cardinality(Waiting(p))
    /\ \A p \in Plugins : Waiting(p) = {} <=> p \in Elements(sorted) \cup Elements(queue)

Distinct ==
    /\ \A a, b \in 1..Len(sorted) : sorted[a] = sorted[b] => a = b
    /\ \A a, b \in 1..Len(queue) : queue[a] = queue[b] => a = b
    /\ Elements(sorted) \cap Elements(queue) = {}

(* What is sorted comes after all its predecessors.                         *)
PredecessorsFirst ==
    \A a \in 1..Len(sorted) : \A q \in Predecessors(sorted[a]) : \E b \in 1..(a - 1) : sorted[b] = q

Answered ==
    /\ result = "ok" => i = N + 2 /\ Len(sorted) = N
    /\ result = "error" =>
        \/ i \in Plugins /\ Contradicts(i)
        \/ i = N + 2 /\ queue = <<>> /\ Len(sorted) # N

IInv ==
    /\ TypeOK /\ EdgesRead /\ NothingSorted /\ Counted /\ Distinct /\ PredecessorsFirst
    /\ Answered

-----------------------------------------------------------------------------
(* Counting.                                                                *)

LEMMA PluginsFinite == IsFiniteSet(Plugins) /\ Cardinality(Plugins) = N
BY FS_Interval, OrderingAssumption DEF Plugins

LEMMA SmallSets ==
    ASSUME NEW set \in SUBSET Plugins
    PROVE  IsFiniteSet(set) /\ Cardinality(set) \in 0..N
BY PluginsFinite, FS_Subset, FS_CardinalityType, OrderingAssumption

LEMMA Minus1Small == \A d \in 1..N : Minus1(d) = d - 1
BY OrderingAssumption DEF Minus1

LEMMA Minus1Wraps == Minus1(0) = UsizeMax
BY OrderingAssumption DEF Minus1

LEMMA Minus1Usize == \A d \in 0..UsizeMax : Minus1(d) \in 0..UsizeMax
BY OrderingAssumption DEF Minus1

(* InOrder lists every element of the set once.                             *)
LEMMA InOrderLists ==
    ASSUME NEW set \in SUBSET Plugins, NEW s \in InOrder(set)
    PROVE  /\ s \in Seq(Plugins) /\ Elements(s) = set
           /\ \A a, b \in 1..Len(s) : s[a] = s[b] => a = b
<1> DEFINE n == Cardinality(set)
<1>1. n \in Nat /\ IsFiniteSet(set)
  BY SmallSets, OrderingAssumption
<1>2. s \in [1..n -> set] /\ \A a, b \in 1..n : a < b => s[a] < s[b]
  BY DEF InOrder
<1> HIDE DEF n
<1>3. s \in Seq(Plugins) /\ Len(s) = n
  BY <1>1, <1>2
<1>4. \A a, b \in 1..n : s[a] = s[b] => a = b
  <2> SUFFICES ASSUME NEW a \in 1..n, NEW b \in 1..n, s[a] = s[b], a # b PROVE FALSE
    OBVIOUS
  <2>0. Plugins \subseteq Int
    BY OrderingAssumption DEF Plugins
  <2>1. s[a] \in Int /\ s[b] \in Int
    BY <1>2, <2>0
  <2>2. a < b \/ b < a
    BY <1>1
  <2> QED  BY <1>2, <2>1, <2>2
<1>5. s \in Injection(1..n, set)
  BY <1>2, <1>4 DEF Injection, IsInjective
<1>6. Cardinality(1..n) = n
  BY <1>1, FS_Interval
<1>7. s \in Surjection(1..n, set)
  BY <1>1, <1>5, <1>6, FS_Injection DEF n
<1>8. Elements(s) = set
  BY <1>2, <1>3, <1>7 DEF Elements, Surjection
<1> QED  BY <1>3, <1>4, <1>8

-----------------------------------------------------------------------------
LEMMA InitIInv == Init => IInv
<1> SUFFICES ASSUME Init PROVE IInv
  OBVIOUS
<1> USE OrderingAssumption DEF Init
<1>1. TypeOK
  BY DEF TypeOK
<1>2. EdgesRead
  BY DEF EdgesRead, Plugins
<1>3. NothingSorted /\ Counted /\ Answered
  BY DEF NothingSorted, Counted, Answered
<1>4. Distinct /\ PredecessorsFirst
  BY DEF Distinct, PredecessorsFirst, Elements
<1> QED  BY <1>1, <1>2, <1>3, <1>4 DEF IInv

LEMMA EdgesAreOfPlugins ==
    ASSUME TypeOK, NEW p \in Plugins, ~Contradicts(p)
    PROVE  EdgesOf(p) \subseteq Plugins \X Plugins
<1>1. Named(p, "before") \subseteq Plugins /\ Named(p, "after") \subseteq Plugins
  BY DEF TypeOK, Declarations, Named, Contradicts
<1> QED  BY <1>1 DEF EdgesOf

LEMMA ReadStep == IInv /\ ReadDeclarations => IInv'
<1> SUFFICES ASSUME IInv, ReadDeclarations PROVE IInv'
  OBVIOUS
<1> USE OrderingAssumption DEF ReadDeclarations
<1>0. i \in Plugins /\ i' = i + 1 /\ i # N + 2 /\ i' # N + 2
  BY DEF IInv, TypeOK, Plugins
<1>1. TypeOK'
  BY <1>0 DEF IInv, TypeOK, Plugins
<1>2. EdgesRead'
  <2>1. \A p \in Plugins : p < i' <=> p < i \/ p = i
    BY <1>0 DEF Plugins
  <2>2. \A p : EdgesOf(p)' = EdgesOf(p) /\ Contradicts(p)' = Contradicts(p)
    BY DEF EdgesOf, IsFirst, IsLast, Declares, Named, Contradicts
  <2>3. \A a, b \in Plugins : b \in adj'[a] <=> b \in adj[a] \/ <<a, b>> \in EdgesOf(i)
    BY DEF IInv, TypeOK
  <2>4. \A p \in Plugins : p < i' => ~Contradicts(p)
    BY <2>1 DEF IInv, EdgesRead
  <2>5. ASSUME NEW a \in Plugins, NEW b \in Plugins
        PROVE  b \in adj'[a] <=> \E p \in Plugins : p < i' /\ <<a, b>> \in EdgesOf(p)
    BY <1>0, <2>1, <2>3 DEF IInv, EdgesRead
  <2> QED  BY <2>2, <2>4, <2>5 DEF EdgesRead
<1>3. NothingSorted' /\ Counted' /\ Answered'
  BY <1>0 DEF IInv, NothingSorted, Counted, Answered
<1>4. Distinct' /\ PredecessorsFirst'
  BY <1>0 DEF IInv, NothingSorted, Distinct, PredecessorsFirst, Elements
<1> QED  BY <1>1, <1>2, <1>3, <1>4 DEF IInv

(* A step that leaves the plugins, their edges and the queue alone.         *)
LEMMA ResultStep ==
    ASSUME IInv, UNCHANGED <<checked, decls, i, adj, in_degree, queue, sorted>>,
           result' \in {"ok", "error", "panic"}, Answered'
    PROVE  IInv'
<1>1. \A p : Predecessors(p)' = Predecessors(p) /\ Contradicts(p)' = Contradicts(p)
  BY DEF Predecessors, Contradicts, IsFirst, IsLast, Declares, Named
<1>2. \A p : EdgesOf(p)' = EdgesOf(p)
  BY DEF EdgesOf, IsFirst, IsLast, Declares, Named
<1>3. TypeOK'
  BY DEF IInv, TypeOK
<1>4. EdgesRead'
  BY <1>1, <1>2 DEF IInv, EdgesRead
<1>5. NothingSorted' /\ Counted'
  BY <1>1 DEF IInv, NothingSorted, Counted, Waiting
<1>6. Distinct'
  <2>1. Distinct /\ sorted' = sorted /\ queue' = queue
    BY DEF IInv
  <2>2. Elements(sorted)' = Elements(sorted) /\ Elements(queue)' = Elements(queue)
    BY <2>1 DEF Elements
  <2> QED  BY <2>1, <2>2 DEF Distinct
<1>7. PredecessorsFirst'
  BY <1>1 DEF IInv, PredecessorsFirst
<1> QED  BY <1>3, <1>4, <1>5, <1>6, <1>7 DEF IInv

LEMMA CountStep == IInv /\ CountInDegrees => IInv'
<1> SUFFICES ASSUME IInv, CountInDegrees PROVE IInv'
  OBVIOUS
<1> USE OrderingAssumption DEF CountInDegrees
<1> DEFINE free == {p \in Plugins : in_degree'[p] = 0}
<1>0. i = N + 1 /\ i' = N + 2 /\ i # N + 2 /\ sorted = <<>>
  BY DEF IInv, NothingSorted
<1>1. queue' \in Seq(Plugins) /\ Elements(queue') = free
      /\ \A a, b \in 1..Len(queue') : queue'[a] = queue'[b] => a = b
  BY InOrderLists
<1>2. Elements(sorted') = {} /\ Len(sorted') = 0
  BY <1>0 DEF Elements
<1>3. \A p : Predecessors(p)' = Predecessors(p) /\ Contradicts(p)' = Contradicts(p)
  BY DEF Predecessors, Contradicts, IsFirst, IsLast, Declares, Named
<1>4. \A p : EdgesOf(p)' = EdgesOf(p)
  BY DEF EdgesOf, IsFirst, IsLast, Declares, Named
<1>5. \A p \in Plugins : Waiting(p)' = Predecessors(p)
  BY <1>2, <1>3 DEF Waiting
<1>6. \A p \in Plugins : in_degree'[p] = Cardinality(Predecessors(p)) /\ in_degree'[p] \in 0..N
  BY SmallSets DEF Predecessors
<1>7. TypeOK'
  BY <1>0, <1>1, <1>6 DEF IInv, TypeOK
<1>8. EdgesRead'
  <2>1. \A p \in Plugins : p < i /\ p < i'
    BY <1>0 DEF Plugins
  <2> QED  BY <1>3, <1>4, <2>1 DEF IInv, EdgesRead
<1>9. Counted'
  <2>1. \A p \in Plugins : Waiting(p)' = {} <=> in_degree'[p] = 0
    BY <1>5, <1>6, SmallSets, FS_EmptySet DEF Predecessors
  <2> QED  BY <1>1, <1>2, <1>5, <1>6, <2>1 DEF Counted
<1>10. NothingSorted' /\ Answered'
  BY <1>0 DEF NothingSorted, Answered
<1>11. Distinct' /\ PredecessorsFirst'
  BY <1>1, <1>2 DEF Distinct, PredecessorsFirst
<1> QED  BY <1>7, <1>8, <1>9, <1>10, <1>11 DEF IInv

(* One plugin is sorted, and those it was the last to be waited for join    *)
(* the queue.                                                               *)
LEMMA PopStep == IInv /\ Pop => IInv'
<1> SUFFICES ASSUME IInv, Pop PROVE IInv'
  OBVIOUS
<1> DEFINE h == Head(queue)
           freed == {p \in adj[h] : in_degree'[p] = 0}
<1> USE OrderingAssumption
<1>0. /\ i = N + 2 /\ i' = i /\ UNCHANGED <<checked, decls, adj, result>>
      /\ result = "running" /\ queue # <<>>
  BY DEF Pop
<1>1. /\ queue \in Seq(Plugins) /\ sorted \in Seq(Plugins) /\ h \in Plugins
      /\ adj \in [Plugins -> SUBSET Plugins] /\ in_degree \in [Plugins -> 0..UsizeMax]
      /\ Len(queue) \in Nat /\ Len(queue) > 0
  BY <1>0 DEF IInv, TypeOK
<1>2. PICK next \in InOrder(freed) : queue' = Tail(queue) \o next
  BY DEF Pop
<1>3. /\ next \in Seq(Plugins) /\ Elements(next) = freed
      /\ \A a, b \in 1..Len(next) : next[a] = next[b] => a = b
  BY <1>1, <1>2, InOrderLists
<1>4. sorted' = Append(sorted, h)
  BY DEF Pop
<1> HIDE DEF h
<1>5. /\ Len(sorted') = Len(sorted) + 1 /\ sorted'[Len(sorted) + 1] = h
      /\ \A a \in 1..Len(sorted) : sorted'[a] = sorted[a]
      /\ sorted' \in Seq(Plugins)
  BY <1>1, <1>4
<1>6. Elements(sorted') = Elements(sorted) \cup {h}
  <2>1. 1..Len(sorted') = (1..Len(sorted)) \cup {Len(sorted) + 1}
    BY <1>1, <1>5
  <2> QED  BY <1>5, <2>1 DEF Elements
<1>7. /\ Len(Tail(queue)) = Len(queue) - 1 /\ Tail(queue) \in Seq(Plugins)
      /\ \A a \in 1..(Len(queue) - 1) : Tail(queue)[a] = queue[a + 1]
      /\ h = queue[1]
  BY <1>1 DEF h
<1>8. Elements(Tail(queue)) = Elements(queue) \ {h}
  <2>1. \A a \in 2..Len(queue) : queue[a] # h
    BY <1>1, <1>7 DEF IInv, Distinct
  <2>2. Elements(queue) = {h} \cup {queue[a] : a \in 2..Len(queue)}
    BY <1>1, <1>7 DEF Elements
  <2>3. Elements(Tail(queue)) = {queue[a] : a \in 2..Len(queue)}
    <3>1. \A a \in 2..Len(queue) : a - 1 \in 1..(Len(queue) - 1) /\ Tail(queue)[a - 1] = queue[a]
      BY <1>1, <1>7
    <3>2. \A a \in 1..(Len(queue) - 1) : a + 1 \in 2..Len(queue)
      BY <1>1
    <3>3. ASSUME NEW a \in 2..Len(queue) PROVE queue[a] \in Elements(Tail(queue))
      BY <1>7, <3>1 DEF Elements
    <3>4. ASSUME NEW x \in Elements(Tail(queue)) PROVE \E a \in 2..Len(queue) : x = queue[a]
      <4>1. PICK a \in 1..(Len(queue) - 1) : x = Tail(queue)[a]
        BY <1>7 DEF Elements
      <4> QED  BY <1>7, <3>2, <4>1
    <3> QED  BY <3>3, <3>4
  <2> QED  BY <2>1, <2>2, <2>3
<1>9. /\ queue' \in Seq(Plugins)
      /\ Elements(queue') = (Elements(queue) \ {h}) \cup freed
  <2>1. Elements(queue') = Elements(Tail(queue)) \cup Elements(next)
    <3>1. /\ Len(queue') = Len(Tail(queue)) + Len(next)
          /\ Len(Tail(queue)) \in Nat /\ Len(next) \in Nat
          /\ \A a \in 1..Len(Tail(queue)) : queue'[a] = Tail(queue)[a]
          /\ \A a \in 1..Len(next) : queue'[Len(Tail(queue)) + a] = next[a]
      BY <1>2, <1>3, <1>7
    <3>2. \A a \in 1..Len(queue') :
            \/ a \in 1..Len(Tail(queue))
            \/ a - Len(Tail(queue)) \in 1..Len(next)
                /\ a = Len(Tail(queue)) + (a - Len(Tail(queue)))
      BY <3>1
    <3>3. \A a \in 1..Len(next) : Len(Tail(queue)) + a \in 1..Len(queue')
      BY <3>1
    <3>4. 1..Len(Tail(queue)) \subseteq 1..Len(queue')
      BY <3>1
    <3> DEFINE t == Tail(queue)
    <3> HIDE DEF t
    <3>5. ASSUME NEW x \in Elements(queue') PROVE x \in Elements(t) \/ x \in Elements(next)
      <4>1. PICK a \in 1..Len(queue') : queue'[a] = x
        BY DEF Elements
      <4>2. CASE a \in 1..Len(t)
        BY <3>1, <4>1, <4>2 DEF Elements, t
      <4>3. CASE a - Len(t) \in 1..Len(next) /\ a = Len(t) + (a - Len(t))
        BY <3>1, <4>1, <4>3 DEF Elements, t
      <4> QED  BY <3>2, <4>2, <4>3 DEF t
    <3>6. \A x : x \in Elements(t) => x \in Elements(queue')
      BY <3>1, <3>4 DEF Elements, t
    <3>7. \A x : x \in Elements(next) => x \in Elements(queue')
      BY <3>1, <3>3 DEF Elements
    <3> QED  BY <3>5, <3>6, <3>7 DEF t
  <2> QED  BY <1>2, <1>3, <1>7, <1>8, <2>1
<1>10. h \in Elements(queue) /\ h \notin Elements(sorted) /\ Waiting(h) = {}
  <2>1. h \in Elements(queue)
    BY <1>1, <1>7 DEF Elements
  <2> QED  BY <1>0, <1>1, <2>1 DEF IInv, Distinct, Counted
<1>11. \A p : Predecessors(p)' = Predecessors(p)
  BY <1>0 DEF Predecessors
<1>12. \A p : Waiting(p)' = Waiting(p) \ {h}
  BY <1>6, <1>11 DEF Waiting
(* A successor of h has been waiting for it, unless it is h.                *)
<1>13. ASSUME NEW p \in adj[h], p # h
       PROVE  /\ p \in Plugins /\ h \in Waiting(p)
              /\ p \notin Elements(sorted) /\ p \notin Elements(queue)
              /\ in_degree[p] = Cardinality(Waiting(p)) /\ in_degree[p] \in 1..N
              /\ in_degree'[p] = Cardinality(Waiting(p)')
  <2>1. p \in Plugins /\ h \in Waiting(p)
    BY <1>1, <1>10, <1>13 DEF Waiting, Predecessors
  <2>2. p \notin Elements(sorted) /\ p \notin Elements(queue)
    BY <1>0, <2>1 DEF IInv, Counted
  <2>3. in_degree[p] = Cardinality(Waiting(p))
    BY <1>0, <2>1, <2>2 DEF IInv, Counted
  <2>4. IsFiniteSet(Waiting(p)) /\ Cardinality(Waiting(p)) \in 0..N
    BY SmallSets DEF Waiting, Predecessors
  <2>5. in_degree[p] \in 1..N
    BY <2>1, <2>3, <2>4, FS_EmptySet
  <2>6. Cardinality(Waiting(p)') = in_degree[p] - 1
    BY <1>12, <2>1, <2>3, <2>4, FS_RemoveElement
  <2>7. in_degree'[p] = Minus1(in_degree[p])
    BY <1>13, <2>1 DEF Pop, h
  <2> QED  BY <2>1, <2>2, <2>3, <2>5, <2>6, <2>7, Minus1Small
<1>14. h \in adj[h] => in_degree'[h] # 0
  <2>1. in_degree[h] = 0
    BY <1>0, <1>1, <1>10, FS_EmptySet DEF IInv, Counted
  <2>2. h \in adj[h] => in_degree'[h] = Minus1(0)
    BY <1>1, <2>1 DEF Pop, h
  <2> QED  BY <2>2, Minus1Wraps
<1>15. freed = {p \in Plugins : p \in adj[h] /\ p # h /\ Waiting(p) = {h}}
  <2>1. \A p \in freed : p \in Plugins /\ p \in adj[h] /\ p # h
    BY <1>1, <1>14
  <2>2. ASSUME NEW p \in adj[h], p # h PROVE in_degree'[p] = 0 <=> Waiting(p) = {h}
    <3>1. IsFiniteSet(Waiting(p)')
      BY <1>12, SmallSets DEF Waiting, Predecessors
    <3> QED  BY <1>12, <1>13, <2>2, <3>1, FS_EmptySet
  <2> QED  BY <1>1, <2>1, <2>2
<1>16. TypeOK'
  <2>1. in_degree' \in [Plugins -> 0..UsizeMax]
    BY <1>1, Minus1Usize DEF Pop
  <2> QED  BY <1>0, <1>1, <1>5, <1>9, <2>1 DEF IInv, TypeOK
<1>17. EdgesRead'
  <2>1. \A p : EdgesOf(p)' = EdgesOf(p) /\ Contradicts(p)' = Contradicts(p)
    BY <1>0 DEF EdgesOf, IsFirst, IsLast, Declares, Named, Contradicts
  <2> QED  BY <1>0, <2>1 DEF IInv, EdgesRead
<1>18. NothingSorted' /\ Answered'
  BY <1>0 DEF NothingSorted, Answered
<1>19. Counted'
  <2>1. ASSUME NEW p \in Plugins, p \notin Elements(sorted')
        PROVE  in_degree'[p] = Cardinality(Waiting(p)')
    <3>1. p # h /\ p \notin Elements(sorted)
      BY <1>6, <2>1
    <3>2. CASE p \in adj[h]
      BY <1>13, <3>1, <3>2
    <3>3. CASE p \notin adj[h]
      <4>1. h \notin Waiting(p)
        BY <3>3 DEF Waiting, Predecessors
      <4>2. in_degree'[p] = in_degree[p]
        BY <3>3 DEF Pop, h
      <4>3. in_degree[p] = Cardinality(Waiting(p))
        BY <1>0, <3>1 DEF IInv, Counted
      <4>4. Waiting(p)' = Waiting(p)
        BY <1>12, <4>1
      <4> QED  BY <4>2, <4>3, <4>4
    <3> QED  BY <3>2, <3>3
  <2>2. ASSUME NEW p \in Plugins
        PROVE  Waiting(p)' = {} <=> p \in Elements(sorted') \cup Elements(queue')
    <3>1. Waiting(p) = {} <=> p \in Elements(sorted) \cup Elements(queue)
      BY <1>0 DEF IInv, Counted
    <3>2. Waiting(p)' = {} <=> Waiting(p) = {} \/ Waiting(p) = {h}
      BY <1>12
    <3>3. Waiting(p) = {h} => p \in adj[h] /\ p # h
      BY DEF Waiting, Predecessors
    <3>4. p \in freed <=> Waiting(p) = {h}
      BY <1>15, <3>3
    <3>5. p \in Elements(sorted') \cup Elements(queue')
            <=> p \in Elements(sorted) \cup Elements(queue) \/ p \in freed
      BY <1>6, <1>9, <1>10
    <3> QED  BY <3>1, <3>2, <3>4, <3>5
  <2> QED  BY <2>1, <2>2 DEF Counted
<1>20. Distinct'
  <2>1. \A a, b \in 1..Len(sorted') : sorted'[a] = sorted'[b] => a = b
    <3>1. \A a \in 1..Len(sorted) : sorted[a] # h
      BY <1>10 DEF Elements
    <3>2. \A a, b \in 1..Len(sorted) : sorted[a] = sorted[b] => a = b
      BY DEF IInv, Distinct
    <3>3. \A a \in 1..Len(sorted') : a \in 1..Len(sorted) \/ a = Len(sorted) + 1
      BY <1>1, <1>5
    <3> QED  BY <1>5, <3>1, <3>2, <3>3
  <2>2. \A a, b \in 1..Len(queue') : queue'[a] = queue'[b] => a = b
    <3> DEFINE t == Tail(queue)
    <3>1. /\ Len(queue') = Len(t) + Len(next) /\ Len(t) \in Nat /\ Len(next) \in Nat
          /\ \A a \in 1..Len(t) : queue'[a] = t[a]
          /\ \A a \in 1..Len(queue') : a \notin 1..Len(t) =>
                a - Len(t) \in 1..Len(next) /\ queue'[a] = next[a - Len(t)]
      BY <1>2, <1>3, <1>7
    <3>2. \A a, b \in 1..Len(t) : t[a] = t[b] => a = b
      <4>1. \A a, b \in 1..Len(queue) : queue[a] = queue[b] => a = b
        BY DEF IInv, Distinct
      <4>2. \A a \in 1..Len(t) : a + 1 \in 1..Len(queue) /\ t[a] = queue[a + 1]
        BY <1>1, <1>7
      <4>3. ASSUME NEW a \in 1..Len(t), NEW b \in 1..Len(t), t[a] = t[b] PROVE a = b
        <5>1. a + 1 = b + 1
          BY <4>1, <4>2, <4>3
        <5> QED  BY <5>1
      <4> QED  BY <4>3
    <3>3. \A a \in 1..Len(t), b \in 1..Len(next) : t[a] # next[b]
      <4>1. Elements(t) \cap Elements(next) = {}
        BY <1>3, <1>8, <1>10, <1>13, <1>15
      <4> QED  BY <4>1 DEF Elements
    <3> HIDE DEF t
    <3>4. ASSUME NEW a \in 1..Len(queue'), NEW b \in 1..Len(queue'), queue'[a] = queue'[b]
          PROVE  a = b
      <4>1. CASE a \in 1..Len(t) /\ b \in 1..Len(t)
        BY <3>1, <3>2, <3>4, <4>1
      <4>2. CASE a \in 1..Len(t) /\ b \notin 1..Len(t)
        BY <3>1, <3>3, <3>4, <4>2
      <4>3. CASE a \notin 1..Len(t) /\ b \in 1..Len(t)
        BY <3>1, <3>3, <3>4, <4>3
      <4>4. CASE a \notin 1..Len(t) /\ b \notin 1..Len(t)
        <5>1. a - Len(t) = b - Len(t)
          BY <1>3, <3>1, <3>4, <4>4
        <5> QED  BY <3>1, <5>1
      <4> QED  BY <4>1, <4>2, <4>3, <4>4
    <3> QED  BY <3>4
  <2>3. Elements(sorted') \cap Elements(queue') = {}
    <3>1. Elements(sorted) \cap Elements(queue) = {}
      BY DEF IInv, Distinct
    <3>2. freed \cap Elements(sorted) = {} /\ h \notin freed
      BY <1>13, <1>15
    <3> QED  BY <1>6, <1>9, <3>1, <3>2
  <2> QED  BY <2>1, <2>2, <2>3 DEF Distinct
<1>21. PredecessorsFirst'
  <2> SUFFICES ASSUME NEW a \in 1..Len(sorted'), NEW q \in Predecessors(sorted'[a])
               PROVE  \E b \in 1..(a - 1) : sorted'[b] = q
    BY <1>11 DEF PredecessorsFirst, Predecessors
  <2>1. CASE a \in 1..Len(sorted)
    <3>1. PICK b \in 1..(a - 1) : sorted[b] = q
      BY <1>5, <2>1 DEF IInv, PredecessorsFirst
    <3>2. b \in 1..Len(sorted)
      BY <1>1, <2>1
    <3> QED  BY <1>5, <3>1, <3>2
  <2>2. CASE a = Len(sorted) + 1
    <3>1. q \in Elements(sorted)
      BY <1>5, <1>10, <2>2 DEF Waiting
    <3>2. PICK b \in 1..Len(sorted) : sorted[b] = q
      BY <3>1 DEF Elements
    <3> QED  BY <1>1, <1>5, <2>2, <3>2
  <2> QED  BY <1>1, <1>5, <2>1, <2>2
<1> QED  BY <1>16, <1>17, <1>18, <1>19, <1>20, <1>21 DEF IInv

-----------------------------------------------------------------------------
LEMMA Inductive == IInv /\ [Next]_vars => IInv'
<1> SUFFICES ASSUME IInv, [Next]_vars PROVE IInv'
  OBVIOUS
<1>1. CASE ReadDeclarations
  BY <1>1, ReadStep
<1>2. CASE RejectDeclarations
  <2>1. Answered'
    BY <1>2, OrderingAssumption
    DEF RejectDeclarations, Answered, Contradicts, IsFirst, IsLast, Declares, Named, IInv, TypeOK,
        Plugins
  <2> QED  BY <1>2, <2>1, ResultStep DEF RejectDeclarations
<1>3. CASE CountInDegrees
  BY <1>3, CountStep
<1>4. CASE Pop
  BY <1>4, PopStep
<1>5. CASE PopOverflows
  <2>1. Answered'
    BY <1>5 DEF PopOverflows, Answered
  <2> QED  BY <1>5, <2>1, ResultStep DEF PopOverflows
<1>6. CASE Finish
  <2>1. Answered'
    BY <1>6 DEF Finish, Answered
  <2> QED  BY <1>6, <2>1, ResultStep DEF Finish
<1>7. CASE UNCHANGED vars
  <2>1. \A p : Predecessors(p)' = Predecessors(p) /\ Contradicts(p)' = Contradicts(p)
    BY <1>7 DEF vars, Predecessors, Contradicts, IsFirst, IsLast, Declares, Named
  <2>2. \A p : EdgesOf(p)' = EdgesOf(p)
    BY <1>7 DEF vars, EdgesOf, IsFirst, IsLast, Declares, Named
  <2>3. TypeOK' /\ EdgesRead' /\ NothingSorted' /\ Counted'
    BY <1>7, <2>1, <2>2 DEF vars, IInv, TypeOK, EdgesRead, NothingSorted, Counted, Waiting
  <2>4. Contradicts(i)' <=> Contradicts(i)
    BY <1>7 DEF vars, Contradicts, IsFirst, IsLast, Declares, Named
  <2>5. Answered'
    BY <1>7, <2>4 DEF vars, IInv, Answered
  <2>6. Distinct'
    <3>1. Distinct /\ sorted' = sorted /\ queue' = queue
      BY <1>7 DEF vars, IInv
    <3> QED  BY <3>1 DEF Distinct, Elements
  <2>7. PredecessorsFirst'
    BY <1>7, <2>1 DEF vars, IInv, PredecessorsFirst
  <2> QED  BY <2>3, <2>5, <2>6, <2>7 DEF IInv
<1> QED  BY <1>1, <1>2, <1>3, <1>4, <1>5, <1>6, <1>7 DEF Next, Step

LEMMA Invariance == Spec => []IInv
BY InitIInv, Inductive, PTL DEF Spec

-----------------------------------------------------------------------------
(* In an order, every plugin has one position.                              *)
LEMMA OnePosition ==
    ASSUME NEW s \in Orders, NEW p \in Plugins
    PROVE  /\ PositionIn(s, p) \in 1..N /\ s[PositionIn(s, p)] = p
           /\ \A a \in 1..N : s[a] = p => a = PositionIn(s, p)
<1>1. s \in [1..N -> Plugins] /\ \A a, b \in 1..N : s[a] = s[b] => a = b
  BY DEF Orders
<1>2. s \in Injection(1..N, Plugins)
  BY <1>1 DEF Injection, IsInjective
<1>3. Cardinality(1..N) = N
  BY PluginsFinite DEF Plugins
<1>4. s \in Surjection(1..N, Plugins)
  BY <1>2, <1>3, PluginsFinite, FS_Injection
<1>5. \E a \in 1..N : s[a] = p
  BY <1>4 DEF Surjection
<1> QED  BY <1>1, <1>5 DEF PositionIn

LEMMA AcceptedFollows == IInv => AcceptedOrderHonoursAll
<1> SUFFICES ASSUME IInv, result = "ok"
             PROVE  sorted \in Orders /\ \A d \in decls : Satisfies(sorted, d)
  BY DEF AcceptedOrderHonoursAll
<1>1. i = N + 2 /\ Len(sorted) = N
  BY DEF IInv, Answered
<1>2. sorted \in Orders
  BY <1>1, OrderingAssumption DEF IInv, TypeOK, Distinct, Orders
<1>3. \A p \in Plugins : p < i
  BY <1>1, OrderingAssumption DEF Plugins
<1>4. ASSUME NEW p \in Plugins, NEW a \in Plugins, NEW b \in Plugins, a # b,
             <<a, b>> \in EdgesOf(p)
      PROVE  Precedes(sorted, a, b)
  <2>1. a \in Predecessors(b)
    BY <1>3, <1>4 DEF IInv, EdgesRead, Predecessors
  <2>2. PositionIn(sorted, b) \in 1..N /\ sorted[PositionIn(sorted, b)] = b
    BY <1>2, OnePosition
  <2>3. PICK k \in 1..(PositionIn(sorted, b) - 1) : sorted[k] = a
    BY <1>1, <2>1, <2>2 DEF IInv, PredecessorsFirst
  <2>4. k \in 1..N /\ k < PositionIn(sorted, b)
    BY <2>2, <2>3, OrderingAssumption
  <2>5. k = PositionIn(sorted, a)
    BY <1>2, <2>3, <2>4, OnePosition
  <2> QED  BY <2>4, <2>5 DEF Precedes
<1>5. ASSUME NEW d \in decls PROVE Satisfies(sorted, d)
  <2>1. d \in Declarations /\ d.by \in Plugins /\ ~Contradicts(d.by)
    BY <1>3 DEF IInv, TypeOK, Declarations, EdgesRead
  <2>2. CASE d.kind = "before"
    <3>1. d.of \in Named(d.by, "before") /\ d.of \in Plugins /\ d.of # Ghost
      BY <2>1, <2>2, OrderingAssumption DEF Named, Contradicts, Declarations
    <3>2. <<d.by, d.of>> \in EdgesOf(d.by)
      BY <3>1 DEF EdgesOf
    <3> QED  BY <1>4, <2>1, <2>2, <3>1, <3>2 DEF Satisfies
  <2>3. CASE d.kind = "after"
    <3>1. d.of \in Named(d.by, "after") /\ d.of \in Plugins /\ d.of # Ghost
      BY <2>1, <2>3, OrderingAssumption DEF Named, Contradicts, Declarations
    <3>2. <<d.of, d.by>> \in EdgesOf(d.by)
      BY <3>1 DEF EdgesOf
    <3> QED  BY <1>4, <2>1, <2>3, <3>1, <3>2 DEF Satisfies
  <2>4. CASE d.kind = "first"
    <3>1. IsFirst(d.by)
      BY <2>4 DEF IsFirst, Declares
    <3>2. \A q \in Plugins \ {d.by} : ~IsFirst(q) => <<d.by, q>> \in EdgesOf(d.by)
      BY <3>1 DEF EdgesOf
    <3> QED  BY <1>4, <2>1, <2>4, <3>2 DEF Satisfies
  <2>5. CASE d.kind = "last"
    <3>1. IsLast(d.by)
      BY <2>5 DEF IsLast, Declares
    <3>2. \A q \in Plugins \ {d.by} : ~IsLast(q) => <<q, d.by>> \in EdgesOf(d.by)
      BY <3>1 DEF EdgesOf
    <3> QED  BY <1>4, <2>1, <2>5, <3>2 DEF Satisfies
  <2> QED  BY <2>1, <2>2, <2>3, <2>4, <2>5 DEF Declarations
<1> QED  BY <1>2, <1>5

(* An order that honours every declaration honours every edge.              *)
LEMMA EdgeHonoured ==
    ASSUME NEW s \in Orders, \A d \in decls : Satisfies(s, d),
           NEW p \in Plugins, NEW a, NEW b, a # b, <<a, b>> \in EdgesOf(p)
    PROVE  Precedes(s, a, b)
<1>1. CASE a = p /\ b \in Plugins /\ b # p /\ IsFirst(p) /\ ~IsFirst(b)
  BY <1>1 DEF IsFirst, Declares, Satisfies
<1>2. CASE b = p /\ a \in Plugins /\ a # p /\ IsLast(p) /\ ~IsLast(a)
  BY <1>2 DEF IsLast, Declares, Satisfies
<1>3. CASE a = p /\ b \in Named(p, "before")
  BY <1>3 DEF Named, Satisfies
<1>4. CASE b = p /\ a \in Named(p, "after")
  BY <1>4 DEF Named, Satisfies
<1> QED  BY <1>1, <1>2, <1>3, <1>4 DEF EdgesOf

(* In an order, a set of plugins has one that comes before the others.      *)
LEMMA SomeIsEarliest ==
    ASSUME NEW s \in Orders, NEW set \in SUBSET Plugins, set # {}
    PROVE  \E p \in set : \A q \in set : ~Precedes(s, q, p)
<1> DEFINE before == [p \in set |-> {q \in set : Precedes(s, q, p)}]
           below == {before[p] : p \in set}
<1>1. below \subseteq FiniteSubsetsOf(Plugins) /\ below # {}
  <2>1. FiniteSubsetsOf(Plugins) = SUBSET Plugins
    BY PluginsFinite, FS_FiniteSubsetsOfFinite
  <2>2. \A p \in set : before[p] \in SUBSET Plugins
    OBVIOUS
  <2>3. PICK p \in set : TRUE
    OBVIOUS
  <2>4. before[p] \in below
    BY <2>3
  <2>5. below \subseteq SUBSET Plugins
    BY <2>2
  <2> QED  BY <2>1, <2>4, <2>5
<1>2. PICK t \in below : \A u \in below : <<u, t>> \notin StrictSubsetOrdering(Plugins)
  BY <1>1, WFMin, FS_StrictSubsetOrderingWellFounded
<1>3. PICK p \in set : t = before[p]
  OBVIOUS
<1>4. ASSUME NEW q \in set, Precedes(s, q, p) PROVE FALSE
  <2>1. /\ PositionIn(s, p) \in Int /\ PositionIn(s, q) \in Int
        /\ \A r \in set : PositionIn(s, r) \in Int
    BY OnePosition
  <2>2. before[q] \subseteq before[p] /\ q \in before[p] /\ q \notin before[q]
    BY <1>4, <2>1 DEF Precedes
  <2>3. before[q] \in SUBSET Plugins /\ before[p] \in SUBSET Plugins
    OBVIOUS
  <2>4. <<before[q], t>> \in StrictSubsetOrdering(Plugins)
    BY <1>3, <2>2, <2>3 DEF StrictSubsetOrdering
  <2> QED  BY <1>2, <2>4
<1> QED  BY <1>4

LEMMA RejectedFollows == IInv => RejectsOnlyTheImpossible
<1> SUFFICES ASSUME IInv, result = "error", NEW s \in Orders,
                    \A d \in decls : Satisfies(s, d)
             PROVE  \E p \in Plugins : IsFirst(p) /\ IsLast(p)
  BY DEF RejectsOnlyTheImpossible
<1>1. CASE i \in Plugins /\ Contradicts(i)
  <2>1. CASE Ghost \in Named(i, "before") \cup Named(i, "after")
    <3>1. PICK d \in decls : d.kind \in {"before", "after"} /\ d.of = Ghost
      BY <2>1 DEF Named
    <3>2. ~Satisfies(s, d)
      BY <3>1 DEF Satisfies
    <3> QED  BY <3>2
  <2> QED  BY <1>1, <2>1 DEF Contradicts
<1>2. CASE i = N + 2 /\ queue = <<>> /\ Len(sorted) # N
  <2> DEFINE stuck == Plugins \ Elements(sorted)
  <2>1. stuck # {}
    <3> SUFFICES ASSUME Plugins \subseteq Elements(sorted) PROVE FALSE
      OBVIOUS
    <3>1. /\ sorted \in [1..Len(sorted) -> Plugins] /\ Len(sorted) \in Nat
          /\ \A a, b \in 1..Len(sorted) : sorted[a] = sorted[b] => a = b
      BY DEF IInv, TypeOK, Distinct
    <3>2. sorted \in Bijection(1..Len(sorted), Plugins)
      BY <3>1 DEF Elements, Bijection, Injection, Surjection, IsInjective
    <3>3. Cardinality(Plugins) = Len(sorted)
      BY <3>1, <3>2, FS_CountingElements DEF ExistsBijection
    <3> QED  BY <1>2, <3>3, PluginsFinite
  <2>2. PICK p \in stuck : \A q \in stuck : ~Precedes(s, q, p)
    <3> HIDE DEF stuck
    <3>1. stuck \in SUBSET Plugins
      BY DEF stuck
    <3> QED  BY <2>1, <3>1, SomeIsEarliest
  <2>3. Waiting(p) # {}
    BY <1>2, <2>2 DEF IInv, Counted, Elements
  <2>4. PICK q \in Waiting(p) : TRUE
    BY <2>3
  <2>5. q \in stuck /\ q # p /\ p \in adj[q]
    BY <2>4 DEF Waiting, Predecessors
  <2>6. PICK r \in Plugins : <<q, p>> \in EdgesOf(r)
    BY <2>2, <2>5 DEF IInv, EdgesRead
  <2>7. Precedes(s, q, p)
    BY <2>5, <2>6, EdgeHonoured
  <2> QED  BY <2>2, <2>5, <2>7
<1> QED  BY <1>1, <1>2 DEF IInv, Answered

-----------------------------------------------------------------------------
(* topological_sort, for every number of plugins and all declarations: the  *)
(* order it returns lists every plugin once and honours every before,       *)
(* after, first and last.                                                   *)
THEOREM AcceptedHonoursAll == Spec => []AcceptedOrderHonoursAll
<1>1. IInv => AcceptedOrderHonoursAll
  BY AcceptedFollows
<1> QED  BY <1>1, Invariance, PTL

(* topological_sort, for every number of plugins and all declarations: its  *)
(* error means a plugin both first and last, an unknown name, or            *)
(* declarations that no order honours, so no valid set is refused.          *)
THEOREM RejectsImpossible == Spec => []RejectsOnlyTheImpossible
<1>1. IInv => RejectsOnlyTheImpossible
  BY RejectedFollows
<1> QED  BY <1>1, Invariance, PTL

(* topological_sort: queue and order hold plugins only, and every in-degree *)
(* is a usize, also where a self-reference makes one wrap around.           *)
THEOREM OrderingTypeCorrect == Spec => []TypeOK
<1>1. IInv => TypeOK
  BY DEF IInv
<1> QED  BY <1>1, Invariance, PTL

=============================================================================
