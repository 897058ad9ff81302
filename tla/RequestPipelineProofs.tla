------------------------ MODULE RequestPipelineProofs ------------------------
(***************************************************************************)
(* Theorems about RequestPipeline, for every set of requests, plugins,      *)
(* routes, chains and connections, in four parts: the stacks that           *)
(* build_router makes; who holds a connection, and who commits; who is let  *)
(* in, who pays, and what is told of it; and the theorems.                  *)
(***************************************************************************)
EXTENDS RequestPipeline, FiniteSetTheorems, SequenceTheorems, TLAPS

(***************************************************************************)
(* The router: the order in which a request meets the layers.               *)
(***************************************************************************)

(* Precedes is a strict total order on what the plugins contribute.         *)
LEMMA PrecedesOrders ==
    ASSUME NEW given, Contributions(given), NEW x \in Contributed(given),
           NEW y \in Contributed(given), NEW z \in Contributed(given)
    PROVE  /\ ~Precedes(given, x, x)
           /\ x # y => Precedes(given, x, y) \/ Precedes(given, y, x)
           /\ Precedes(given, x, y) /\ Precedes(given, y, z) => Precedes(given, x, z)
<1>1. \A w \in Contributed(given) :
        w = <<w[1], w[2]>> /\ w[1] \in Nat /\ w[2] \in Nat /\ LayerAt(given, w).slot \in Nat
  <2> SUFFICES ASSUME NEW w \in Contributed(given)
               PROVE  /\ w = <<w[1], w[2]>> /\ w[1] \in Nat /\ w[2] \in Nat
                      /\ LayerAt(given, w).slot \in Nat
    OBVIOUS
  <2>1. PICK p \in DOMAIN given : w \in {p} \X DOMAIN given[p]
    BY DEF Contributed
  <2>2. given \in Seq(Range(given)) /\ given[p] \in Seq(Range(given[p]))
    BY DEF Contributions, Range
  <2>3. DOMAIN given \subseteq Nat /\ DOMAIN given[p] \subseteq Nat
    BY <2>2
  <2>4. LayerAt(given, w).slot \in Slots
    BY DEF Contributions
  <2> QED
    BY <2>1, <2>3, <2>4 DEF Slots, TransportSecurity, Logging, Authentication, RateLimit,
                            Transaction, Custom
<1>2. x # y => x[1] # y[1] \/ x[2] # y[2]
  BY <1>1
<1> QED  BY <1>1, <1>2 DEF Precedes

LEMMA ContributedFinite ==
    ASSUME NEW given, Contributions(given) PROVE IsFiniteSet(Contributed(given))
<1> DEFINE Parts == {{p} \X DOMAIN given[p] : p \in DOMAIN given}
<1>1. \A s : s \in Seq(Range(s)) => IsFiniteSet(DOMAIN s)
  <2> SUFFICES ASSUME NEW s, s \in Seq(Range(s)) PROVE IsFiniteSet(DOMAIN s)
    OBVIOUS
  <2>1. Len(s) \in Nat /\ DOMAIN s = 1..Len(s)
    OBVIOUS
  <2> QED  BY <2>1, FS_Interval
<1>2. IsFiniteSet(DOMAIN given) /\ \A p \in DOMAIN given : IsFiniteSet({p} \X DOMAIN given[p])
  <2>1. IsFiniteSet(DOMAIN given)
    BY <1>1 DEF Contributions
  <2>2. ASSUME NEW p \in DOMAIN given PROVE IsFiniteSet({p} \X DOMAIN given[p])
    <3>1. IsFiniteSet(DOMAIN given[p])
      BY <1>1 DEF Contributions, Range
    <3> QED  BY <3>1, FS_Singleton, FS_Product
  <2> QED  BY <2>1, <2>2
<1>3. IsFiniteSet(Parts)
  <2> DEFINE f == [p \in DOMAIN given |-> {p} \X DOMAIN given[p]]
  <2>1. f \in Surjection(DOMAIN given, Parts)
    BY DEF Surjection
  <2> QED  BY <1>2, <2>1, FS_Surjection
<1> QED  BY <1>2, <1>3, FS_UNION DEF Contributed

(* Ranks number the layers from 0 in their order.                           *)
LEMMA RanksNumber ==
    ASSUME NEW given, Contributions(given), NEW layers \in SUBSET Contributed(given)
    PROVE  /\ Cardinality(layers) \in Nat
           /\ \A x \in layers : /\ Rank(given, layers, x) \in Nat
                               /\ Rank(given, layers, x) + 1 \in 1..Cardinality(layers)
           /\ \A x, y \in layers :
                Precedes(given, x, y) <=> Rank(given, layers, x) < Rank(given, layers, y)
           /\ \A n \in 1..Cardinality(layers) : \E x \in layers : Rank(given, layers, x) + 1 = n
<1> DEFINE Below(x) == {y \in layers : Precedes(given, y, x)}
           N == Cardinality(layers)
<1>1. IsFiniteSet(layers) /\ N \in Nat
  BY ContributedFinite, FS_Subset, FS_CardinalityType
<1>2. \A x \in layers : IsFiniteSet(Below(x)) /\ Cardinality(Below(x)) \in Nat
  BY <1>1, FS_Subset, FS_CardinalityType
<1>3. ASSUME NEW x \in layers PROVE Cardinality(Below(x)) < N
  <2>1. Below(x) \in SUBSET (layers \ {x})
    BY PrecedesOrders
  <2>2. IsFiniteSet(layers \ {x}) /\ Cardinality(layers \ {x}) = N - 1
    BY <1>1, FS_RemoveElement
  <2>3. Cardinality(Below(x)) <= Cardinality(layers \ {x})
    BY <2>1, <2>2, FS_Subset
  <2> QED  BY <1>1, <1>2, <2>2, <2>3
<1>4. ASSUME NEW x \in layers, NEW y \in layers, Precedes(given, x, y)
      PROVE  Cardinality(Below(x)) < Cardinality(Below(y))
  <2>1. Below(x) \in SUBSET Below(y) /\ x \in Below(y) /\ x \notin Below(x)
    BY <1>4, PrecedesOrders
  <2>2. Cardinality(Below(x)) <= Cardinality(Below(y)) /\ Cardinality(Below(x)) # Cardinality(Below(y))
    BY <1>2, <2>1, FS_Subset
  <2> QED  BY <1>2, <2>2
<1>5. \A x, y \in layers : Precedes(given, x, y) <=> Cardinality(Below(x)) < Cardinality(Below(y))
  <2> SUFFICES ASSUME NEW x \in layers, NEW y \in layers,
                      Cardinality(Below(x)) < Cardinality(Below(y)), ~Precedes(given, x, y)
               PROVE  FALSE
    BY <1>4
  <2>1. x # y
    BY <1>2
  <2>2. Precedes(given, y, x)
    BY <2>1, PrecedesOrders
  <2>3. Cardinality(Below(y)) < Cardinality(Below(x))
    BY <1>4, <2>2
  <2> QED  BY <1>2, <2>3
<1>6. \A n \in 1..N : \E x \in layers : Cardinality(Below(x)) + 1 = n
  <2> DEFINE f == [x \in layers |-> Cardinality(Below(x)) + 1]
  <2>1. f \in [layers -> 1..N]
    BY <1>1, <1>2, <1>3
  <2>2. ASSUME NEW x \in layers, NEW y \in layers, x # y PROVE f[x] # f[y]
    <3>1. Precedes(given, x, y) \/ Precedes(given, y, x)
      BY <2>2, PrecedesOrders
    <3>2. Cardinality(Below(x)) < Cardinality(Below(y)) \/ Cardinality(Below(y)) < Cardinality(Below(x))
      BY <1>4, <3>1
    <3>3. Cardinality(Below(x)) # Cardinality(Below(y))
      BY <1>2, <3>2
    <3> HIDE DEF Below
    <3> QED  BY <1>2, <3>3
  <2>3. f \in Injection(layers, 1..N)
    BY <2>1, <2>2 DEF Injection, IsInjective
  <2>4. IsFiniteSet(1..N) /\ Cardinality(1..N) = N
    BY <1>1, FS_Interval
  <2>5. f \in Surjection(layers, 1..N)
    BY <2>3, <2>4, FS_Injection
  <2> QED  BY <2>5 DEF Surjection
<1>7. \A x : Rank(given, layers, x) = Cardinality(Below(x))
  BY DEF Rank
<1> HIDE DEF Below
<1> QED  BY <1>1, <1>2, <1>3, <1>5, <1>6, <1>7

(* The layers of some slots: each once, sorted by slot.                     *)
LEMMA CollectedLayers ==
    ASSUME NEW given, Contributions(given), NEW slots
    PROVE  LET all == Contributed(given)
               q == CollectLayers(given, slots)
           IN  /\ q \in Seq(Range(q))
               /\ \A n \in DOMAIN q : \E x \in all :
                    q[n] = LayerAt(given, x) /\ LayerAt(given, x).slot \in slots
               /\ \A x \in all : LayerAt(given, x).slot \in slots =>
                    \E n \in DOMAIN q : q[n] = LayerAt(given, x)
               /\ \A m, n \in DOMAIN q : m < n => \E x, y \in all :
                    /\ q[m] = LayerAt(given, x) /\ q[n] = LayerAt(given, y)
                    /\ x # y /\ LayerAt(given, x).slot <= LayerAt(given, y).slot
<1> DEFINE all == Contributed(given)
           layers == InSlots(given, slots)
           N == Cardinality(layers)
           At(n) == CHOOSE x \in layers : Rank(given, layers, x) + 1 = n
           q == CollectLayers(given, slots)
<1>0. layers \in SUBSET all
  BY DEF InSlots
<1>1. /\ N \in Nat
      /\ \A x \in layers : /\ Rank(given, layers, x) \in Nat
                          /\ Rank(given, layers, x) + 1 \in 1..N
      /\ \A x, y \in layers :
            Precedes(given, x, y) <=> Rank(given, layers, x) < Rank(given, layers, y)
      /\ \A n \in 1..N : \E x \in layers : Rank(given, layers, x) + 1 = n
  BY <1>0, RanksNumber
<1>2. \A n \in 1..N : At(n) \in layers /\ Rank(given, layers, At(n)) + 1 = n
  BY <1>1
<1>3. q = [n \in 1..N |-> LayerAt(given, At(n))]
  BY DEF CollectLayers
<1> HIDE DEF q, At, N
<1>4. q \in Seq(Range(q))
  BY <1>1, <1>3 DEF Range
<1>5. \A n \in DOMAIN q : \E x \in all : q[n] = LayerAt(given, x) /\ LayerAt(given, x).slot \in slots
  BY <1>2, <1>3 DEF InSlots
<1>6. ASSUME NEW x \in all, LayerAt(given, x).slot \in slots
      PROVE  \E n \in DOMAIN q : q[n] = LayerAt(given, x)
  <2> DEFINE n == Rank(given, layers, x) + 1
  <2>1. x \in layers
    BY <1>6 DEF InSlots
  <2>2. n \in 1..N /\ At(n) \in layers /\ Rank(given, layers, At(n)) + 1 = n
    BY <1>1, <1>2, <2>1
  <2>3. ~Precedes(given, x, At(n)) /\ ~Precedes(given, At(n), x)
    BY <1>1, <2>1, <2>2
  <2>4. x = At(n)
    BY <1>0, <2>1, <2>2, <2>3, PrecedesOrders
  <2> QED  BY <1>3, <2>2, <2>4
<1>7. ASSUME NEW m \in DOMAIN q, NEW n \in DOMAIN q, m < n
      PROVE  \E x, y \in all :
                /\ q[m] = LayerAt(given, x) /\ q[n] = LayerAt(given, y)
                /\ x # y /\ LayerAt(given, x).slot <= LayerAt(given, y).slot
  <2>1. m \in 1..N /\ n \in 1..N
    BY <1>3
  <2>2. At(m) \in layers /\ At(n) \in layers
    BY <1>2, <2>1
  <2>4. Precedes(given, At(m), At(n)) /\ At(m) # At(n)
    BY <1>1, <1>2, <1>7, <2>1, <2>2
  <2>5. LayerAt(given, At(m)).slot \in Slots /\ LayerAt(given, At(n)).slot \in Slots
    BY <1>0, <2>2 DEF Contributions
  <2>6. LayerAt(given, At(m)).slot <= LayerAt(given, At(n)).slot
    BY <2>4, <2>5 DEF Precedes, Slots, TransportSecurity, Logging, Authentication, RateLimit,
                      Transaction, Custom
  <2>7. q[m] = LayerAt(given, At(m)) /\ q[n] = LayerAt(given, At(n))
    BY <1>3, <2>1
  <2> QED  BY <1>0, <2>2, <2>4, <2>6, <2>7
<1> QED  BY <1>4, <1>5, <1>6, <1>7 DEF q

(* The layers that decide about a request, in the order they do.            *)
Order == [logging |-> 1, auth |-> 2, rate_limit |-> 3, transaction |-> 4]

(* What every stack satisfies: each deciding layer once and in order, the   *)
(* timeouts around them, logging outside the rest.                          *)
InOrder(s) ==
    /\ \A i, j \in DOMAIN s :
        s[i].kind \in DOMAIN Order /\ s[j].kind \in DOMAIN Order /\ i < j
            => Order[s[i].kind] < Order[s[j].kind]
    /\ \A i, j \in DOMAIN s :
        s[i].kind = "timeout" /\ s[j].kind \in DOMAIN Order => i < j
    /\ \A j \in DOMAIN s : s[j].kind \in DOMAIN Order =>
        \E i \in DOMAIN s : s[i].kind = "logging"

Deciding(q) ==
    /\ \A n \in DOMAIN q : q[n].kind \notin {"logging", "timeout"}
    /\ \A m, n \in DOMAIN q :
        q[m].kind \in DOMAIN Order /\ q[n].kind \in DOMAIN Order /\ m < n
            => Order[q[m].kind] < Order[q[n].kind]

(* s is p, then q.                                                          *)
Follows(p, q, s) ==
    /\ s \in Seq(Range(s)) /\ Len(s) = Len(p) + Len(q) /\ Len(p) \in Nat /\ Len(q) \in Nat
    /\ DOMAIN p = 1..Len(p) /\ DOMAIN q = 1..Len(q) /\ DOMAIN s = 1..(Len(p) + Len(q))
    /\ \A i \in DOMAIN p : s[i] = p[i]
    /\ \A i \in DOMAIN q : s[Len(p) + i] = q[i]

LEMMA Joined ==
    ASSUME NEW p, p \in Seq(Range(p)), NEW q, q \in Seq(Range(q))
    PROVE  Follows(p, q, p \o q)
<1> DEFINE S == Range(p) \cup Range(q)
<1>1. p \in Seq(S) /\ q \in Seq(S)
  BY SeqMonotonic
<1> HIDE DEF S
<1>2. /\ p \o q \in Seq(S) /\ Len(p \o q) = Len(p) + Len(q)
      /\ Len(p) \in Nat /\ Len(q) \in Nat
      /\ DOMAIN p = 1..Len(p) /\ DOMAIN q = 1..Len(q) /\ DOMAIN (p \o q) = 1..(Len(p) + Len(q))
  BY <1>1
<1>3. \A i \in DOMAIN p : (p \o q)[i] = p[i]
  BY <1>1, <1>2
<1>4. \A i \in DOMAIN q : (p \o q)[Len(p) + i] = q[i]
  BY <1>1, <1>2
<1>5. p \o q \in Seq(Range(p \o q))
  BY <1>2, SeqOfRange
<1> QED  BY <1>2, <1>3, <1>4, <1>5 DEF Follows

LEMMA Stacked ==
    ASSUME NEW t, t \in Seq(Range(t)), \A n \in DOMAIN t : t[n].kind \notin DOMAIN Order,
           NEW q, q \in Seq(Range(q)), Deciding(q)
    PROVE  LET s == t \o Outer \o q
           IN  /\ s \in Seq(Range(s)) /\ InOrder(s)
               /\ \A i \in DOMAIN s : s[i].kind = "auth" => \E n \in DOMAIN q : s[i] = q[n]
               /\ \A n \in DOMAIN q : \E i \in DOMAIN s : s[i] = q[n]
<1> DEFINE u == t \o Outer
           s == u \o q
           k == Len(t)
<1>1. /\ Outer \in Seq(Range(Outer)) /\ Len(Outer) = 2
      /\ Outer[1].kind = "body_limit" /\ Outer[2].kind = "logging"
  BY DEF Outer, Range, Layer
<1>2. /\ u \in Seq(Range(u)) /\ DOMAIN u = 1..(k + 2) /\ Len(u) = k + 2 /\ k \in Nat
      /\ \A i \in 1..k : u[i].kind \notin DOMAIN Order
      /\ u[k + 1].kind = "body_limit" /\ u[k + 2].kind = "logging"
  <2>0. Follows(t, Outer, u)
    BY <1>1, Joined
  <2> HIDE DEF u
  <2>1. /\ u \in Seq(Range(u)) /\ Len(u) = k + Len(Outer) /\ k \in Nat
        /\ DOMAIN t = 1..k /\ DOMAIN Outer = 1..Len(Outer) /\ DOMAIN u = 1..(k + Len(Outer))
        /\ \A i \in DOMAIN t : u[i] = t[i]
        /\ \A i \in DOMAIN Outer : u[k + i] = Outer[i]
    BY <2>0 DEF Follows
  <2> HIDE DEF k
  <2>2. u[k + 1] = Outer[1] /\ u[k + 2] = Outer[2]
    BY <1>1, <2>1
  <2>3. DOMAIN u = 1..(k + 2) /\ Len(u) = k + 2 /\ \A i \in 1..k : u[i].kind \notin DOMAIN Order
    BY <1>1, <2>1
  <2> QED  BY <1>1, <2>1, <2>2, <2>3
<1>3. /\ s \in Seq(Range(s)) /\ DOMAIN s = 1..(k + 2 + Len(q)) /\ Len(q) \in Nat
      /\ \A i \in 1..(k + 2) : s[i] = u[i]
      /\ \A i \in DOMAIN q : s[k + 2 + i] = q[i]
      /\ DOMAIN q = 1..Len(q)
  <2> HIDE DEF u, k
  <2>1. Follows(u, q, s)
    BY <1>2, Joined
  <2> HIDE DEF s
  <2> QED  BY <1>2, <2>1 DEF Follows
<1> HIDE DEF u, s, k
<1>4. /\ \A i \in 1..k : s[i].kind \notin DOMAIN Order
      /\ s[k + 1].kind = "body_limit" /\ s[k + 2].kind = "logging"
      /\ \A i \in DOMAIN s : i \in 1..k \/ i = k + 1 \/ i = k + 2
            \/ (i > k + 2 /\ \E n \in DOMAIN q : i = k + 2 + n /\ s[i] = q[n])
  <2>1. ASSUME NEW i \in DOMAIN s, i > k + 2
        PROVE  \E n \in DOMAIN q : i = k + 2 + n /\ s[i] = q[n]
    <3>1. i - (k + 2) \in DOMAIN q /\ i = k + 2 + (i - (k + 2))
      BY <1>2, <1>3, <2>1
    <3> QED  BY <1>3, <3>1
  <2>2. \A i \in 1..k : s[i].kind \notin DOMAIN Order
    BY <1>2, <1>3
  <2>3. s[k + 1].kind = "body_limit" /\ s[k + 2].kind = "logging"
    BY <1>2, <1>3
  <2>4. \A i \in DOMAIN s : i \in 1..k \/ i = k + 1 \/ i = k + 2 \/ i > k + 2
    BY <1>2, <1>3
  <2> QED  BY <2>1, <2>2, <2>3, <2>4
<1>5. {"body_limit"} \cap DOMAIN Order = {} /\ "timeout" \notin DOMAIN Order
      /\ Order["logging"] = 1 /\ \A x \in DOMAIN Order \ {"logging"} : Order[x] > 1
      /\ "auth" \in DOMAIN Order /\ "logging" \in DOMAIN Order
  BY DEF Order
<1>a. "auth" \in DOMAIN Order
  BY DEF Order
<1> HIDE DEF Order
<1>6. ASSUME NEW i \in DOMAIN s, NEW j \in DOMAIN s, i < j,
             s[i].kind \in DOMAIN Order, s[j].kind \in DOMAIN Order
      PROVE  Order[s[i].kind] < Order[s[j].kind]
  <2>1. PICK n \in DOMAIN q : j = k + 2 + n /\ s[j] = q[n]
    BY <1>2, <1>4, <1>5, <1>6
  <2>2. CASE i = k + 2
    BY <1>4, <1>5, <1>6, <2>1, <2>2 DEF Deciding
  <2>3. CASE i # k + 2
    <3>1. PICK m \in DOMAIN q : i = k + 2 + m /\ s[i] = q[m]
      BY <1>2, <1>4, <1>5, <1>6, <2>3
    <3>2. m < n
      BY <1>2, <1>3, <1>6, <2>1, <3>1
    <3> QED  BY <1>6, <2>1, <3>1, <3>2 DEF Deciding
  <2> QED  BY <2>2, <2>3
<1>7. ASSUME NEW i \in DOMAIN s, NEW j \in DOMAIN s, s[i].kind = "timeout", s[j].kind \in DOMAIN Order
      PROVE  i < j
  <2>1. i \in 1..k
    BY <1>4, <1>5, <1>7 DEF Deciding
  <2>2. j > k
    BY <1>2, <1>3, <1>4, <1>7
  <2> QED  BY <1>2, <1>3, <2>1, <2>2
<1>8. k + 2 \in DOMAIN s
  BY <1>2, <1>3
<1>9. InOrder(s)
  BY <1>4, <1>6, <1>7, <1>8 DEF InOrder
<1>10. ASSUME NEW i \in DOMAIN s, s[i].kind = "auth" PROVE \E n \in DOMAIN q : s[i] = q[n]
  <2>1. i \notin 1..k
    <3>2. \A h \in 1..k : s[h].kind \notin DOMAIN Order
      BY <1>4
    <3> QED  BY <1>10, <1>a, <3>2
  <2>2. i # k + 1 /\ i # k + 2
    BY <1>4, <1>10
  <2> QED  BY <1>4, <2>1, <2>2
<1>11. ASSUME NEW n \in DOMAIN q PROVE \E i \in DOMAIN s : s[i] = q[n]
  <2>1. k + 2 + n \in DOMAIN s /\ s[k + 2 + n] = q[n]
    BY <1>2, <1>3
  <2> QED  BY <2>1
<1> QED  BY <1>3, <1>9, <1>10, <1>11 DEF s, u

(* What the layers of some slots contain.                                   *)
LEMMA CollectedKinds ==
    ASSUME NEW given, Contributions(given), NEW slots \in SUBSET Slots
    PROVE  LET q == CollectLayers(given, slots)
           IN  /\ q \in Seq(Range(q))
               /\ \A n \in DOMAIN q :
                    /\ q[n].kind # "logging"
                    /\ q[n].kind \in DOMAIN SlotOf => SlotOf[q[n].kind] \in slots
                    /\ q[n].kind = "auth" => q[n].chain = "global"
               /\ TransportSecurity \notin slots => Deciding(q)
               /\ Authentication \in slots =>
                    \A x \in Contributed(given) : LayerAt(given, x).kind = "auth" =>
                        \E n \in DOMAIN q : q[n].kind = "auth"
<1> DEFINE q == CollectLayers(given, slots)
<1>1. /\ q \in Seq(Range(q))
      /\ \A n \in DOMAIN q : \E x \in Contributed(given) :
            q[n] = LayerAt(given, x) /\ LayerAt(given, x).slot \in slots
      /\ \A x \in Contributed(given) : LayerAt(given, x).slot \in slots =>
            \E n \in DOMAIN q : q[n] = LayerAt(given, x)
      /\ \A m, n \in DOMAIN q : m < n => \E x, y \in Contributed(given) :
            /\ q[m] = LayerAt(given, x) /\ q[n] = LayerAt(given, y)
            /\ x # y /\ LayerAt(given, x).slot <= LayerAt(given, y).slot
  BY CollectedLayers
<1> HIDE DEF q
<1>2. \A n \in DOMAIN q :
        /\ q[n].kind # "logging"
        /\ q[n].kind \in DOMAIN SlotOf => SlotOf[q[n].kind] \in slots
        /\ q[n].kind = "auth" => q[n].chain = "global"
  <2>1. "logging" \notin DOMAIN SlotOf \cup {"custom"} /\ "custom" \notin DOMAIN SlotOf
    BY DEF SlotOf
  <2> QED  BY <1>1, <2>1 DEF Contributions
<1>3. ASSUME TransportSecurity \notin slots PROVE Deciding(q)
  <2>1. \A n \in DOMAIN q : q[n].kind \notin {"logging", "timeout"}
    BY <1>2, <1>3 DEF SlotOf
  <2>2. ASSUME NEW m \in DOMAIN q, NEW n \in DOMAIN q, m < n,
               q[m].kind \in DOMAIN Order, q[n].kind \in DOMAIN Order
        PROVE  Order[q[m].kind] < Order[q[n].kind]
    <3>1. PICK x \in Contributed(given), y \in Contributed(given) :
            /\ q[m] = LayerAt(given, x) /\ q[n] = LayerAt(given, y)
            /\ x # y /\ LayerAt(given, x).slot <= LayerAt(given, y).slot
      BY <1>1, <2>2
    <3>2. q[m].kind \in Single /\ q[n].kind \in Single
      BY <1>2, <2>2 DEF Order, Single
    <3>3. q[m].kind # q[n].kind
      BY <3>1, <3>2 DEF Contributions
    <3>4. SlotOf[q[m].kind] <= SlotOf[q[n].kind]
      BY <3>1, <3>2 DEF Contributions, Single
    <3> QED  BY <3>2, <3>3, <3>4 DEF Single, Order, SlotOf, Authentication, RateLimit, Transaction
  <2> QED  BY <2>1, <2>2 DEF Deciding
<1>4. ASSUME Authentication \in slots, NEW x \in Contributed(given),
             LayerAt(given, x).kind = "auth"
      PROVE  \E n \in DOMAIN q : q[n].kind = "auth"
  <2>1. LayerAt(given, x).slot = Authentication
    BY <1>4 DEF Contributions, SlotOf
  <2> QED  BY <1>1, <1>4, <2>1
<1> QED  BY <1>1, <1>2, <1>3, <1>4 DEF q

(* The stack of every route is in order, and authenticates exactly where    *)
(* the route is guarded, by the chain of the route (build_router).          *)
THEOREM StackInOrder ==
    ASSUME NEW given, Contributions(given), NEW route, route.group \in Groups
    PROVE  LET s == Stack(given, route)
           IN  /\ s \in Seq(Range(s)) /\ InOrder(s)
               /\ \A i \in DOMAIN s : s[i].kind = "auth" =>
                    IsGuarded(given, route) /\ s[i].chain = GuardOf(route)
               /\ IsGuarded(given, route) => \E i \in DOMAIN s : s[i].kind = "auth"
<1> DEFINE s == Stack(given, route)
           t == Transport(given)
           rest == CollectLayers(given, Slots \ {TransportSecurity, Authentication})
<1> USE DEF GuardOf, IsGuarded
<1>1. t \in Seq(Range(t)) /\ \A n \in DOMAIN t : t[n].kind \notin DOMAIN Order
  <2>1. /\ t \in Seq(Range(t))
        /\ \A n \in DOMAIN t : /\ t[n].kind # "logging"
                               /\ t[n].kind \in DOMAIN SlotOf => SlotOf[t[n].kind] = TransportSecurity
    BY CollectedKinds DEF Transport, Slots
  <2> HIDE DEF t
  <2> QED
    BY <2>1 DEF Order, SlotOf, TransportSecurity, Authentication, RateLimit, Transaction
<1>2. CASE route.group = "bare"
  BY <1>2 DEF Stack, InOrder, Range
<1>3. CASE route.group = "public"
  <2> DEFINE q == <<>>
  <2>1. q \in Seq(Range(q)) /\ Deciding(q) /\ DOMAIN q = {}
    BY DEF Deciding, Range
  <2>2. t \o Outer \o q = t \o Outer
    <3>1. Outer \in Seq(Range(Outer))
      BY DEF Outer, Range
    <3>2. t \o Outer \in Seq(Range(t \o Outer))
      BY <1>1, <3>1, Joined DEF Follows
    <3> QED  BY <3>2, ConcatEmptySeq
  <2>3. s = t \o Outer \o q
    BY <1>3, <2>2 DEF Stack
  <2> HIDE DEF q, t
  <2>4. /\ s \in Seq(Range(s)) /\ InOrder(s)
        /\ \A i \in DOMAIN s : s[i].kind = "auth" => \E n \in DOMAIN q : s[i] = q[n]
    BY <1>1, <2>1, <2>3, Stacked
  <2> QED  BY <1>3, <2>1, <2>4
<1>4. CASE route.group = "protected"
  <2> DEFINE q == Protected(given)
  <2>1. /\ q \in Seq(Range(q)) /\ Deciding(q)
        /\ \A n \in DOMAIN q : q[n].kind = "auth" => q[n].chain = "global"
        /\ \A x \in Contributed(given) : LayerAt(given, x).kind = "auth" =>
            \E n \in DOMAIN q : q[n].kind = "auth"
    <3>1. Authentication \in Slots \ {TransportSecurity}
      BY DEF Slots, TransportSecurity, Authentication
    <3> QED  BY <3>1, CollectedKinds DEF Protected
  <2>2. \A n \in DOMAIN q : q[n].kind = "auth" =>
            \E x \in Contributed(given) : LayerAt(given, x).kind = "auth"
    BY CollectedLayers DEF Protected
  <2>3. s = t \o Outer \o q
    BY <1>4 DEF Stack
  <2> HIDE DEF q, t
  <2>4. /\ s \in Seq(Range(s)) /\ InOrder(s)
        /\ \A i \in DOMAIN s : s[i].kind = "auth" => \E n \in DOMAIN q : s[i] = q[n]
        /\ \A n \in DOMAIN q : \E i \in DOMAIN s : s[i] = q[n]
    <3> HIDE DEF s
    <3> QED  BY <1>1, <2>1, <2>3, Stacked
  <2> HIDE DEF s
  <2> QED  BY <1>4, <2>1, <2>2, <2>4 DEF s
<1>5. CASE route.group = "protected_with"
  <2> DEFINE q == NamedProtected(given, route.chain)
             own == <<AuthLayer(route.chain)>>
  <2>1. own \in Seq(Range(own)) /\ Len(own) = 1 /\ own[1] = AuthLayer(route.chain)
    BY DEF Range
  <2>2. rest \in Seq(Range(rest)) /\ Deciding(rest) /\ \A n \in DOMAIN rest : rest[n].kind # "auth"
    <3>1. /\ rest \in Seq(Range(rest)) /\ Deciding(rest)
          /\ \A n \in DOMAIN rest : rest[n].kind \in DOMAIN SlotOf => SlotOf[rest[n].kind] # Authentication
      BY CollectedKinds
    <3> HIDE DEF rest
    <3> QED  BY <3>1 DEF SlotOf
  <2> HIDE DEF rest, own
  <2>3. q = own \o rest
    BY DEF NamedProtected, rest, own
  <2>4. /\ q \in Seq(Range(q)) /\ DOMAIN q = 1..(1 + Len(rest)) /\ Len(rest) \in Nat
        /\ q[1] = AuthLayer(route.chain) /\ DOMAIN rest = 1..Len(rest)
        /\ \A n \in DOMAIN rest : q[1 + n] = rest[n]
    <3>1. Follows(own, rest, q)
      BY <2>1, <2>2, <2>3, Joined
    <3> HIDE DEF q
    <3> QED  BY <2>1, <3>1 DEF Follows
  <2>5. \A n \in DOMAIN q : n = 1 \/ (n > 1 /\ n - 1 \in DOMAIN rest /\ q[n] = rest[n - 1])
    <3>1. ASSUME NEW n \in DOMAIN q, n # 1 PROVE n > 1 /\ n - 1 \in DOMAIN rest /\ q[n] = rest[n - 1]
      <4>1. n \in Nat /\ n > 1 /\ n - 1 \in DOMAIN rest /\ 1 + (n - 1) = n
        BY <2>4, <3>1
      <4> QED  BY <2>4, <4>1
    <3> QED  BY <3>1
  <2> HIDE DEF q
  <2>6. Deciding(q)
    <3>1. \A n \in DOMAIN q : q[n].kind \notin {"logging", "timeout"}
      BY <2>2, <2>4, <2>5 DEF Deciding, AuthLayer
    <3>2. ASSUME NEW m \in DOMAIN q, NEW n \in DOMAIN q, m < n,
                 q[m].kind \in DOMAIN Order, q[n].kind \in DOMAIN Order
          PROVE  Order[q[m].kind] < Order[q[n].kind]
      <4>1. n > 1 /\ n - 1 \in DOMAIN rest /\ q[n] = rest[n - 1]
        BY <2>4, <2>5, <3>2
      <4>2. CASE m = 1
        <5>1. q[n].kind \in {"rate_limit", "transaction"}
          BY <2>2, <3>2, <4>1 DEF Deciding, Order
        <5> QED  BY <2>4, <4>2, <5>1 DEF AuthLayer, Order
      <4>3. CASE m # 1
        <5>1. m - 1 \in DOMAIN rest /\ q[m] = rest[m - 1] /\ m - 1 < n - 1
          BY <2>4, <2>5, <3>2, <4>3
        <5> QED  BY <2>2, <3>2, <4>1, <5>1 DEF Deciding
      <4> QED  BY <4>2, <4>3
    <3> QED  BY <3>1, <3>2 DEF Deciding
  <2>7. s = t \o Outer \o q
    BY <1>5 DEF Stack, q
  <2> HIDE DEF t
  <2>8. /\ s \in Seq(Range(s)) /\ InOrder(s)
        /\ \A i \in DOMAIN s : s[i].kind = "auth" => \E n \in DOMAIN q : s[i] = q[n]
        /\ \A n \in DOMAIN q : \E i \in DOMAIN s : s[i] = q[n]
    <3>1. q \in Seq(Range(q)) /\ t \in Seq(Range(t)) /\ \A n \in DOMAIN t : t[n].kind \notin DOMAIN Order
      BY <1>1, <2>4
    <3> DEFINE w == t \o Outer \o q
    <3>2. /\ w \in Seq(Range(w)) /\ InOrder(w)
          /\ \A i \in DOMAIN w : w[i].kind = "auth" => \E n \in DOMAIN q : w[i] = q[n]
          /\ \A n \in DOMAIN q : \E i \in DOMAIN w : w[i] = q[n]
      BY <2>6, <3>1, Stacked
    <3> HIDE DEF s
    <3> QED  BY <2>7, <3>2
  <2>9. \A n \in DOMAIN q : q[n].kind = "auth" => q[n].chain = route.chain
    BY <2>2, <2>4, <2>5 DEF AuthLayer
  <2>10. 1 \in DOMAIN q /\ q[1].kind = "auth"
    BY <2>4 DEF AuthLayer
  <2> HIDE DEF s
  <2> QED  BY <1>5, <2>8, <2>9, <2>10 DEF s
<1> QED  BY <1>2, <1>3, <1>4, <1>5 DEF Groups

-----------------------------------------------------------------------------
(***************************************************************************)
(* Connections and transactions.                                            *)
(***************************************************************************)

Shapes ==
    /\ dir \in [Requests -> {"new", "in", "handler", "out", "done", "gone"}]
    /\ depth \in [Requests -> Nat] /\ step \in [Requests -> Nat]
    /\ conn \in [Requests -> Conns \cup {None}] /\ second \in [Requests -> Conns \cup {None}]
    /\ taken \in [Requests -> BOOLEAN] /\ DOMAIN ext = Requests
    /\ idle \subseteq Conns /\ committed \subseteq Requests

(* What the routes and the stacks satisfy from the start.                   *)
FixedSound ==
    /\ [plugins |-> plugins, wire |-> wire] \in Scenarios
    /\ \A r \in Requests :
        /\ stack[r] = Stack(plugins, wire[r].route)
        /\ Extractors(r) \in Seq(Range(Extractors(r)))
        /\ \A i, j \in DOMAIN stack[r] :
            stack[r][i].kind = "transaction" /\ stack[r][j].kind = "transaction" => i = j

(* A request with a transaction is inside the layer that began it, or       *)
(* waits there for BEGIN.                                                   *)
InsideTransaction(r) == \E d \in Nat :
    /\ d \in DOMAIN stack[r] /\ stack[r][d].kind = "transaction"
    /\ d <= depth[r] \/ (d = depth[r] + 1 /\ step[r] = 2)

HeldInside == \A r \in Requests :
    /\ conn[r] # None => dir[r] \in {"in", "handler"} /\ (dir[r] = "in" => InsideTransaction(r))
    /\ second[r] # None => dir[r] = "handler"
    /\ dir[r] = "new" => step[r] = 1 /\ ~taken[r]

OnePlace ==
    /\ \A c \in Conns : c \notin idle => \E r \in Requests : c \in {conn[r], second[r]}
    /\ \A r \in Requests :
        /\ {conn[r], second[r]} \cap idle = {}
        /\ conn[r] # None => conn[r] # second[r]
        /\ \A q \in Requests \ {r} : {conn[r], second[r]} \cap {conn[q], second[q]} \subseteq {None}

(* A transaction that was taken is still open until it is committed.        *)
TakenHeld == \A r \in Requests :
    taken[r] /\ dir[r] \in {"in", "handler"} /\ r \notin committed => conn[r] # None

Passed(r, i) ==
    Extractors(r)[i].kind # "DbTx" =>
        Rejection(Extractors(r)[i], wire[r], IdentityOf(r), ext[r].request_id) = None

(* The extractors that come before the next one have let the request pass.  *)
PassedSoFar == \A r \in Requests : \A i \in DOMAIN Extractors(r) :
    Inside(r) /\ i < step[r] => Passed(r, i)

PassedAll == \A r \in Requests :
    dir[r] = "handler" \/ r \in committed => \A i \in DOMAIN Extractors(r) : Passed(r, i)

CommittedTaken == \A r \in committed :
    taken[r] /\ conn[r] = None /\ wire[r].route.commits /\ dir[r] \notin {"new", "in"}

IInv ==
    /\ Shapes /\ FixedSound /\ HeldInside /\ OnePlace /\ TakenHeld
    /\ PassedSoFar /\ PassedAll /\ CommittedTaken

-----------------------------------------------------------------------------
LEMMA PassedSame ==
    ASSUME UNCHANGED <<wire, ext>>, NEW q, NEW k
    PROVE  Passed(q, k)' <=> Passed(q, k)
BY DEF Passed, Extractors, IdentityOf

LEMMA InitIInv == Init => IInv
<1> SUFFICES ASSUME Init PROVE IInv
  OBVIOUS
<1>1. FixedSound
  <2>1. PICK s \in Scenarios : plugins = s.plugins /\ wire = s.wire
    BY DEF Init
  <2>2. [plugins |-> plugins, wire |-> wire] \in Scenarios
    BY <2>1, ScenarioAssumption
  <2>3. \A r \in Requests : stack[r] = Stack(plugins, wire[r].route)
    BY DEF Init
  <2>4. \A r \in Requests : Extractors(r) \in Seq(Range(Extractors(r)))
    BY <2>1, ScenarioAssumption DEF Extractors
  <2>5. ASSUME NEW r \in Requests PROVE InOrder(stack[r]) /\ DOMAIN stack[r] \subseteq Nat
    <3>1. Contributions(plugins) /\ wire[r].route.group \in Groups
      BY <2>1, ScenarioAssumption
    <3>2. LET t == Stack(plugins, wire[r].route) IN t \in Seq(Range(t)) /\ InOrder(t)
      BY <3>1, StackInOrder
    <3> QED  BY <2>3, <3>2
  <2>6. ASSUME NEW r \in Requests, NEW a \in DOMAIN stack[r], NEW b \in DOMAIN stack[r],
               stack[r][a].kind = "transaction", stack[r][b].kind = "transaction"
        PROVE  a = b
    <3>1. "transaction" \in DOMAIN Order /\ ~(Order["transaction"] < Order["transaction"])
      BY DEF Order
    <3>2. ~(a < b) /\ ~(b < a)
      BY <2>5, <2>6, <3>1 DEF InOrder
    <3>3. a \in Nat /\ b \in Nat
      BY <2>5
    <3> QED  BY <3>2, <3>3
  <2> QED  BY <2>2, <2>3, <2>4, <2>6 DEF FixedSound
<1>2. Shapes
  BY PipelineAssumption DEF Init, Shapes
<1>3. HeldInside /\ OnePlace /\ TakenHeld
  BY PipelineAssumption DEF Init, HeldInside, OnePlace, TakenHeld
<1>4. PassedSoFar /\ PassedAll /\ CommittedTaken
  BY DEF Init, PassedSoFar, PassedAll, CommittedTaken, Inside
<1> QED  BY <1>1, <1>2, <1>3, <1>4 DEF IInv

-----------------------------------------------------------------------------
(* What the layers and extractors do to the invariant's variables, whatever *)
(* else they do.                                                            *)

Others(r) ==
    \A q \in Requests \ {r} : depth'[q] = depth[q] /\ step'[q] = step[q] /\ ext'[q] = ext[q]

LEMMA ReturnedShapes ==
    ASSUME IInv, NEW r \in Requests, ReturnConnections(r)
    PROVE  /\ conn' \in [Requests -> Conns \cup {None}] /\ second' \in [Requests -> Conns \cup {None}]
           /\ idle' \subseteq Conns
BY DEF IInv, Shapes, ReturnConnections

(* Connections that are given back are in the pool and nowhere else.        *)
LEMMA Returned == ASSUME IInv, NEW r \in Requests, ReturnConnections(r) PROVE OnePlace'
<1> USE PipelineAssumption
<1>0. /\ conn'[r] = None /\ second'[r] = None
      /\ \A q \in Requests \ {r} : conn'[q] = conn[q] /\ second'[q] = second[q]
      /\ idle' = idle \cup ({conn[r], second[r]} \ {None})
  BY DEF IInv, Shapes, ReturnConnections
<1> USE <1>0 DEF IInv, Shapes, OnePlace
<1>1. \A c \in Conns : c \notin idle' => \E q \in Requests : c \in {conn'[q], second'[q]}
  <2> SUFFICES ASSUME NEW c \in Conns, c \notin idle'
               PROVE  \E q \in Requests : c \in {conn'[q], second'[q]}
    OBVIOUS
  <2>1. PICK q \in Requests : c \in {conn[q], second[q]}
    OBVIOUS
  <2>2. q # r
    BY <2>1
  <2> QED  BY <2>1, <2>2
<1>2. ASSUME NEW p \in Requests
      PROVE  /\ {conn'[p], second'[p]} \cap idle' = {}
             /\ conn'[p] # None => conn'[p] # second'[p]
             /\ \A q \in Requests \ {p} :
                  {conn'[p], second'[p]} \cap {conn'[q], second'[q]} \subseteq {None}
  <2>1. CASE p = r
    BY <2>1
  <2>2. CASE p # r
    <3>1. {conn[p], second[p]} \cap {conn[r], second[r]} \subseteq {None}
      BY <2>2
    <3>2. None \notin idle'
      BY PipelineAssumption
    <3>3. {conn'[p], second'[p]} \cap idle' = {}
      BY <2>2, <3>1, <3>2
    <3>4. conn'[p] # None => conn'[p] # second'[p]
      BY <2>2
    <3>5. ASSUME NEW q \in Requests \ {p}
          PROVE  {conn'[p], second'[p]} \cap {conn'[q], second'[q]} \subseteq {None}
      <4>1. CASE q = r
        BY <4>1
      <4>2. CASE q # r
        BY <2>2, <4>2
      <4> QED  BY <4>1, <4>2
    <3> QED  BY <3>3, <3>4, <3>5
  <2> QED  BY <2>1, <2>2
<1> QED  BY <1>1, <1>2

(* A request that ends, or is answered, gives back what it holds.           *)
LEMMA Released ==
    ASSUME IInv, NEW r \in Requests, ReturnConnections(r), UNCHANGED <<fixed_vars, ext>>,
           NEW d \in {"out", "gone"}, dir' = [dir EXCEPT ![r] = d],
           depth' \in [Requests -> Nat], step' \in [Requests -> Nat], Others(r)
    PROVE  IInv'
<1> USE PipelineAssumption DEF fixed_vars, Others
<1>a. /\ dir'[r] \in {"out", "gone"} /\ conn'[r] = None /\ second'[r] = None
      /\ \A q \in Requests \ {r} : dir'[q] = dir[q] /\ conn'[q] = conn[q] /\ second'[q] = second[q]
      /\ idle' = idle \cup ({conn[r], second[r]} \ {None})
      /\ UNCHANGED <<taken, committed>>
  BY DEF IInv, Shapes, ReturnConnections
<1>1. Shapes'
  <2>1. dir' \in [Requests -> {"new", "in", "handler", "out", "done", "gone"}]
    BY DEF IInv, Shapes
  <2> QED  BY <2>1, ReturnedShapes, <1>a DEF IInv, Shapes
<1>2. FixedSound'
  BY DEF IInv, FixedSound, Extractors
<1>3. HeldInside'
  <2>1. \A q \in Requests \ {r} : InsideTransaction(q)' <=> InsideTransaction(q)
    BY DEF InsideTransaction
  <2> QED  BY <2>1, <1>a DEF IInv, Shapes, HeldInside
<1>4. OnePlace'
  BY Returned
<1>5. TakenHeld'
  BY <1>a DEF IInv, Shapes, TakenHeld
<1>6. PassedSoFar'
  BY <1>a DEF IInv, Shapes, PassedSoFar, Passed, Inside, Extractors, IdentityOf
<1>7. PassedAll'
  BY <1>a DEF IInv, Shapes, PassedAll, Passed, Extractors, IdentityOf
<1>8. CommittedTaken'
  BY <1>a DEF IInv, Shapes, CommittedTaken
<1> QED  BY <1>1, <1>2, <1>3, <1>4, <1>5, <1>6, <1>7, <1>8 DEF IInv

(* A request that goes on into the next layer keeps what it holds.  No      *)
(* extractor has seen it yet, so its extensions may change.                 *)
LEMMA Entered ==
    ASSUME IInv, NEW r \in Requests, Enter(r), UNCHANGED <<fixed_vars, db_vars>>,
           dir[r] = "in", DOMAIN ext' = Requests, Others(r)
    PROVE  IInv'
<1> USE DEF Enter, fixed_vars, db_vars, Others
<1>1. Shapes'
  BY DEF IInv, Shapes
<1>2. FixedSound'
  BY DEF IInv, FixedSound, Extractors
<1>3. HeldInside'
  BY DEF IInv, Shapes, HeldInside, InsideTransaction
<1>4. OnePlace'
  BY DEF IInv, Shapes, OnePlace
<1>5. TakenHeld'
  BY DEF IInv, Shapes, TakenHeld
<1>6. PassedSoFar'
  BY DEF IInv, Shapes, FixedSound, PassedSoFar, Passed, Inside, Extractors, IdentityOf
<1>7. PassedAll'
  BY DEF IInv, Shapes, PassedAll, CommittedTaken, Passed, Extractors, IdentityOf
<1>8. CommittedTaken'
  BY DEF IInv, Shapes, CommittedTaken
<1> QED  BY <1>1, <1>2, <1>3, <1>4, <1>5, <1>6, <1>7, <1>8 DEF IInv

(* The next backend is asked, or the next extractor after one that let the  *)
(* request pass; an extractor may have taken the transaction.               *)
LEMMA Advanced ==
    ASSUME IInv, NEW r \in Requests, step' = [step EXCEPT ![r] = @ + 1],
           UNCHANGED <<fixed_vars, dir, depth, ext, conn, second, idle, committed>>,
           dir[r] = "in", ~AtLayer(r, "transaction"), Inside(r) => Passed(r, step[r]),
           UNCHANGED taken \/ (conn[r] # None /\ taken' = [taken EXCEPT ![r] = TRUE])
    PROVE  IInv'
<1> USE DEF fixed_vars
<1>1. Shapes'
  <2>1. taken' \in [Requests -> BOOLEAN]
    BY Zenon DEF IInv, Shapes
  <2>2. step' \in [Requests -> Nat]
    BY DEF IInv, Shapes
  <2> QED  BY <2>1, <2>2 DEF IInv, Shapes
<1>2. FixedSound'
  BY DEF IInv, FixedSound, Extractors
<1>3. HeldInside'
  BY DEF IInv, Shapes, HeldInside, InsideTransaction, AtLayer, Next_layer
<1>4. OnePlace'
  BY DEF IInv, Shapes, OnePlace
<1>5. TakenHeld'
  BY DEF IInv, Shapes, TakenHeld
<1>p. \A q, k : Passed(q, k)' <=> Passed(q, k)
  BY PassedSame
<1>6. PassedSoFar'
  <2>1. \A q \in Requests : Inside(q)' <=> Inside(q)
    BY DEF Inside
  <2>2. \A q \in Requests \ {r} : step'[q] = step[q]
    BY DEF IInv, Shapes
  <2>3. \A k \in DOMAIN Extractors(r) : k < step'[r] => k < step[r] \/ k = step[r]
    BY DEF IInv, Shapes, FixedSound
  <2> QED  BY <1>p, <2>1, <2>2, <2>3 DEF IInv, PassedSoFar, Extractors
<1>7. PassedAll'
  BY <1>p DEF IInv, Shapes, PassedAll, Extractors
<1>8. CommittedTaken'
  BY DEF IInv, Shapes, CommittedTaken
<1> QED  BY <1>1, <1>2, <1>3, <1>4, <1>5, <1>6, <1>7, <1>8 DEF IInv

-----------------------------------------------------------------------------
(* The steps in which a connection, a transaction or a direction changes    *)
(* hands in a way of its own.                                               *)

LEMMA AcquireStep == ASSUME IInv, NEW r \in Requests, Acquire(r) PROVE IInv'
<1> USE PipelineAssumption DEF Acquire, fixed_vars, auth_vars
<1>1. PICK c \in idle : conn' = [conn EXCEPT ![r] = c] /\ idle' = idle \ {c}
  OBVIOUS
<1>2. dir[r] = "in" /\ r \notin committed
  BY DEF AtLayer, IInv, CommittedTaken
<1>3. conn[r] = None /\ second[r] = None
  <2>1. ~InsideTransaction(r)
    BY DEF IInv, Shapes, FixedSound, InsideTransaction, AtLayer, Next_layer
  <2> QED  BY <1>2, <2>1 DEF IInv, HeldInside
<1>4. Shapes'
  BY <1>1 DEF IInv, Shapes
<1>5. FixedSound'
  BY DEF IInv, FixedSound, Extractors
<1>6. HeldInside'
  <2>1. depth[r] + 1 \in Nat /\ step'[r] = 2 /\ UNCHANGED <<stack, depth>>
    BY DEF IInv, Shapes
  <2>2. depth[r] + 1 \in DOMAIN stack[r] /\ stack[r][depth[r] + 1].kind = "transaction"
    BY DEF AtLayer, Next_layer
  <2>3. InsideTransaction(r)'
    BY <2>1, <2>2 DEF InsideTransaction
  <2>4. \A q \in Requests \ {r} : InsideTransaction(q)' <=> InsideTransaction(q)
    BY DEF IInv, Shapes, InsideTransaction
  <2> QED  BY <1>1, <1>2, <2>3, <2>4 DEF IInv, Shapes, HeldInside
<1>7. OnePlace'
  BY <1>1, <1>3 DEF IInv, Shapes, OnePlace
<1>8. TakenHeld'
  BY <1>1 DEF IInv, Shapes, TakenHeld
<1>9. PassedSoFar'
  <2>1. ~Inside(r)'
    BY DEF Inside, AtLayer
  <2>2. \A q \in Requests \ {r} : step'[q] = step[q]
    BY DEF IInv, Shapes
  <2> QED  BY <2>1, <2>2 DEF IInv, PassedSoFar, Passed, Inside, Extractors, IdentityOf
<1>10. PassedAll'
  BY DEF IInv, Shapes, PassedAll, Passed, Extractors, IdentityOf
<1>11. CommittedTaken'
  BY <1>1, <1>2 DEF IInv, Shapes, CommittedTaken
<1> QED  BY <1>4, <1>5, <1>6, <1>7, <1>8, <1>9, <1>10, <1>11 DEF IInv

LEMMA SecondStep == ASSUME IInv, NEW r \in Requests, TakeSecond(r) PROVE IInv'
<1> USE PipelineAssumption DEF TakeSecond, Running, fixed_vars, auth_vars
<1>1. PICK c \in idle : second' = [second EXCEPT ![r] = c] /\ idle' = idle \ {c}
  OBVIOUS
<1>2. Shapes' /\ FixedSound'
  BY <1>1 DEF IInv, Shapes, FixedSound, Extractors
<1>3. HeldInside'
  <2>1. \A q \in Requests : InsideTransaction(q)' <=> InsideTransaction(q)
    BY DEF InsideTransaction
  <2>2. \A q \in Requests \ {r} : second'[q] = second[q]
    BY <1>1 DEF IInv, Shapes
  <2> QED  BY <2>1, <2>2 DEF IInv, HeldInside
<1>4. OnePlace'
  BY <1>1 DEF IInv, Shapes, OnePlace
<1>5. TakenHeld' /\ CommittedTaken'
  BY DEF IInv, TakenHeld, CommittedTaken
<1>6. PassedSoFar' /\ PassedAll'
  BY DEF IInv, PassedSoFar, PassedAll, Passed, Inside, Extractors, IdentityOf
<1> QED  BY <1>2, <1>3, <1>4, <1>5, <1>6 DEF IInv

LEMMA CommitStep == ASSUME IInv, NEW r \in Requests, Commit(r) PROVE IInv'
<1> USE PipelineAssumption DEF Commit, Running, fixed_vars, auth_vars
<1>1. conn[r] \in Conns
  BY DEF IInv, Shapes, TakenHeld
<1>2. Shapes' /\ FixedSound'
  BY <1>1 DEF IInv, Shapes, FixedSound, Extractors
<1>3. HeldInside'
  BY DEF IInv, Shapes, HeldInside, InsideTransaction
<1>4. OnePlace'
  <2> USE <1>1 DEF IInv, Shapes, OnePlace
  <2>0. /\ conn'[r] = None /\ second' = second /\ idle' = idle \cup {conn[r]}
        /\ \A q \in Requests \ {r} : conn'[q] = conn[q]
    OBVIOUS
  <2>1. \A c \in Conns : c \notin idle' => \E q \in Requests : c \in {conn'[q], second'[q]}
    BY <2>0
  <2>2. ASSUME NEW p \in Requests
        PROVE  {conn'[p], second'[p]} \cap idle' = {}
    <3>1. CASE p = r
      BY <2>0, <3>1
    <3>2. CASE p # r
      <4>1. {conn[p], second[p]} \cap {conn[r], second[r]} \subseteq {None}
        BY <3>2
      <4>2. conn[r] # None
        BY <1>1, PipelineAssumption
      <4>3. conn[r] \notin {conn[p], second[p]}
        BY <4>1, <4>2
      <4> QED  BY <2>0, <3>2, <4>3
    <3> QED  BY <3>1, <3>2
  <2>3. ASSUME NEW p \in Requests
        PROVE  /\ conn'[p] # None => conn'[p] # second'[p]
               /\ \A q \in Requests \ {p} :
                    {conn'[p], second'[p]} \cap {conn'[q], second'[q]} \subseteq {None}
    BY <2>0
  <2> QED  BY <2>1, <2>2, <2>3
<1>5. TakenHeld' /\ CommittedTaken'
  BY DEF IInv, Shapes, TakenHeld, CommittedTaken
<1>6. PassedSoFar' /\ PassedAll'
  BY DEF IInv, PassedSoFar, PassedAll, Passed, Inside, Extractors, IdentityOf
<1> QED  BY <1>2, <1>3, <1>4, <1>5, <1>6 DEF IInv

LEMMA CallStep == ASSUME IInv, NEW r \in Requests, CallHandler(r) PROVE IInv'
<1> USE PipelineAssumption DEF CallHandler, fixed_vars, auth_vars
<1>1. \A i \in DOMAIN Extractors(r) : Passed(r, i)
  BY DEF IInv, Shapes, FixedSound, PassedSoFar, Inside
<1>2. dir[r] = "in" /\ dir' = [dir EXCEPT ![r] = "handler"]
  BY DEF Inside
<1>3. /\ UNCHANGED <<taken, committed>>
      /\ \A q \in Requests \ {r} : conn'[q] = conn[q] /\ second'[q] = second[q]
      /\ conn'[r] \in {conn[r], None} /\ second'[r] \in {second[r], None}
      /\ taken[r] => conn' = conn
  BY DEF IInv, Shapes, db_vars, ReturnConnections
<1>4. Shapes'
  <2>1. /\ conn' \in [Requests -> Conns \cup {None}] /\ second' \in [Requests -> Conns \cup {None}]
        /\ idle' \subseteq Conns
    <3>1. CASE taken[r]
      BY <3>1 DEF IInv, Shapes, db_vars
    <3>2. CASE ~taken[r]
      BY <3>2, ReturnedShapes
    <3> QED  BY <3>1, <3>2
  <2>2. Shapes /\ dir' \in [Requests -> {"new", "in", "handler", "out", "done", "gone"}]
    BY <1>2 DEF IInv, Shapes
  <2>3. UNCHANGED <<depth, step, ext>>
    OBVIOUS
  <2> HIDE DEF CallHandler
  <2> QED  BY <1>3, <2>1, <2>2, <2>3 DEF Shapes
<1>5. FixedSound'
  BY DEF IInv, FixedSound, Extractors
<1>6. HeldInside'
  <2>1. \A q \in Requests \ {r} : InsideTransaction(q)' <=> InsideTransaction(q)
    BY DEF InsideTransaction
  <2>2. dir'[r] = "handler" /\ \A q \in Requests \ {r} : dir'[q] = dir[q]
    BY <1>2 DEF IInv, Shapes
  <2>3. step' = step /\ taken' = taken
    BY <1>3
  <2>4. HeldInside
    BY DEF IInv
  <2> HIDE DEF CallHandler
  <2> QED  BY <1>3, <2>1, <2>2, <2>3, <2>4 DEF HeldInside
<1>7. OnePlace'
  <2>1. CASE taken[r]
    BY <2>1 DEF IInv, OnePlace, db_vars
  <2>2. CASE ~taken[r]
    BY <2>2, Returned
  <2> QED  BY <2>1, <2>2
<1>8. TakenHeld' /\ CommittedTaken'
  BY <1>2, <1>3 DEF IInv, Shapes, TakenHeld, CommittedTaken
<1>p. \A q, k : Passed(q, k)' <=> Passed(q, k)
  BY PassedSame
<1>9. PassedSoFar'
  <2>1. \A q \in Requests : Inside(q)' => q # r /\ Inside(q)
    BY <1>2 DEF IInv, Shapes, Inside
  <2> QED  BY <1>p, <2>1 DEF IInv, PassedSoFar, Extractors
<1>10. PassedAll'
  BY <1>1, <1>2, <1>3, <1>p DEF IInv, Shapes, PassedAll, Extractors
<1> QED  BY <1>4, <1>5, <1>6, <1>7, <1>8, <1>9, <1>10 DEF IInv

(* A request arrives, a response goes out through one layer or to the       *)
(* client, a bucket is refilled.                                            *)
LEMMA Unheld ==
    ASSUME IInv, NEW r \in Requests, UNCHANGED <<fixed_vars, step, ext, db_vars>>,
           NEW d \in {"in", "out", "done"}, dir' = [dir EXCEPT ![r] = d],
           d = "in" => dir[r] = "new", d # "in" => dir[r] = "out",
           depth' \in [Requests -> Nat], \A q \in Requests \ {r} : depth'[q] = depth[q]
    PROVE  IInv'
<1> USE DEF fixed_vars, db_vars
<1>1. Shapes' /\ FixedSound'
  BY DEF IInv, Shapes, FixedSound, Extractors
<1>2. HeldInside'
  BY DEF IInv, Shapes, HeldInside, InsideTransaction
<1>3. OnePlace'
  BY DEF IInv, OnePlace
<1>4. TakenHeld' /\ CommittedTaken'
  BY DEF IInv, Shapes, TakenHeld, CommittedTaken, HeldInside
<1>5. PassedSoFar' /\ PassedAll'
  BY DEF IInv, Shapes, FixedSound, HeldInside, PassedSoFar, PassedAll, Passed, Inside, Extractors,
         IdentityOf
<1> QED  BY <1>1, <1>2, <1>3, <1>4, <1>5 DEF IInv

-----------------------------------------------------------------------------
LEMMA LayerSteps == ASSUME IInv, NEW r \in Requests, LayerStep(r) PROVE IInv'
<1> USE DEF auth_vars, Others
<1>0. /\ \A k : AtLayer(r, k) => dir[r] = "in" /\ ~Inside(r)
      /\ DOMAIN ext = Requests /\ depth \in [Requests -> Nat] /\ step \in [Requests -> Nat]
  BY DEF AtLayer, Inside, IInv, Shapes
<1>a. ASSUME NEW answer, Answer(r, answer), ReturnConnections(r), UNCHANGED <<fixed_vars, ext>>
      PROVE  IInv'
  <2>1. /\ dir' = [dir EXCEPT ![r] = "out"] /\ depth' = depth /\ step' \in [Requests -> Nat]
        /\ \A q \in Requests \ {r} : step'[q] = step[q]
    BY <1>a, <1>0 DEF Answer
  <2> QED  BY <1>a, <1>0, <2>1, Released
<1>b. ASSUME Enter(r), UNCHANGED <<fixed_vars, db_vars>>, dir[r] = "in", DOMAIN ext' = Requests,
             \A q \in Requests \ {r} : ext'[q] = ext[q]
      PROVE  IInv'
  <2>1. Others(r)
    BY <1>b, <1>0 DEF Enter
  <2> QED  BY <1>b, <2>1, Entered
<1>c. ASSUME NEW identity, Admit(r, identity), UNCHANGED fixed_vars, dir[r] = "in" PROVE IInv'
  <2>1. DOMAIN ext' = Requests /\ \A q \in Requests \ {r} : ext'[q] = ext[q]
    BY <1>c, <1>0 DEF Admit
  <2> QED  BY <1>b, <1>c, <2>1 DEF Admit
<1>d. ASSUME NEW error, Refuse(r, error), UNCHANGED fixed_vars PROVE IInv'
  BY <1>a, <1>d DEF Refuse
<1>1. CASE Arrive(r)
  BY <1>1, <1>0, Unheld DEF Arrive
<1>2. CASE PassThrough(r)
  BY <1>2, <1>0, <1>b DEF PassThrough
<1>3. CASE EnterBodyLimit(r)
  BY <1>3, <1>0, <1>a, <1>b DEF EnterBodyLimit
<1>4. CASE EnterLogging(r)
  <2>1. DOMAIN ext' = Requests /\ \A q \in Requests \ {r} : ext'[q] = ext[q]
    BY <1>4, <1>0 DEF EnterLogging
  <2> QED  BY <1>4, <1>0, <1>b, <2>1 DEF EnterLogging
<1>5. CASE TryBackend(r)
  <2>1. PICK answer :
          \/ Admit(r, answer.identity)
          \/ Refuse(r, answer.error)
          \/ /\ step' = [step EXCEPT ![r] = @ + 1]
             /\ UNCHANGED <<dir, depth, response, auth_vars, db_vars>>
    BY <1>5 DEF TryBackend
  <2>2. UNCHANGED fixed_vars /\ dir[r] = "in" /\ ~Inside(r) /\ ~AtLayer(r, "transaction")
    BY <1>5, <1>0 DEF TryBackend, AtLayer
  <2>3. CASE step' = [step EXCEPT ![r] = @ + 1]
             /\ UNCHANGED <<dir, depth, response, auth_vars, db_vars>>
    BY <2>2, <2>3, Advanced DEF db_vars
  <2> QED  BY <2>1, <2>2, <2>3, <1>c, <1>d
<1>6. CASE FallBack(r)
  BY <1>6, <1>0, <1>c, <1>d DEF FallBack
<1>7. CASE EnterRateLimit(r)
  BY <1>7, <1>0, <1>a, <1>b DEF EnterRateLimit, CheckKey
<1>8. CASE Acquire(r)
  BY <1>8, AcquireStep
<1>9. CASE AcquireTimesOut(r)
  BY <1>9, <1>0, <1>a DEF AcquireTimesOut
<1>10. CASE Begin(r)
  BY <1>10, <1>0, <1>b DEF Begin
<1>11. CASE BeginFails(r)
  BY <1>11, <1>0, <1>a DEF BeginFails
<1> QED
  BY <1>1, <1>2, <1>3, <1>4, <1>5, <1>6, <1>7, <1>8, <1>9, <1>10, <1>11 DEF LayerStep

LEMMA HandlerSteps == ASSUME IInv, NEW r \in Requests, HandlerStep(r) PROVE IInv'
<1> USE DEF auth_vars
<1>0. DOMAIN ext = Requests /\ depth \in [Requests -> Nat] /\ step \in [Requests -> Nat]
  BY DEF IInv, Shapes
<1>a. ASSUME NEW answer, Answer(r, answer), ReturnConnections(r), UNCHANGED <<fixed_vars, ext>>
      PROVE  IInv'
  <2>1. /\ dir' = [dir EXCEPT ![r] = "out"] /\ depth' = depth /\ step' \in [Requests -> Nat]
        /\ \A q \in Requests \ {r} : step'[q] = step[q]
    BY <1>a, <1>0 DEF Answer
  <2> QED  BY <1>a, <1>0, <2>1, Released DEF Others
<1>b. ASSUME NEW answer, Reject(r, answer) PROVE IInv'
  BY <1>a, <1>b DEF Reject
<1>1. CASE TakeTransaction(r)
  <2>1. dir[r] = "in" /\ ~AtLayer(r, "transaction") /\ Passed(r, step[r])
    BY <1>1 DEF TakeTransaction, Asks, Inside, AtLayer, Passed
  <2>2. UNCHANGED <<fixed_vars, dir, depth, ext, conn, second, idle, committed>>
    BY <1>1 DEF TakeTransaction
  <2>3. /\ step' = [step EXCEPT ![r] = @ + 1] /\ conn[r] # None
        /\ taken' = [taken EXCEPT ![r] = TRUE]
    BY <1>1 DEF TakeTransaction
  <2> QED  BY <2>1, <2>2, <2>3, Advanced
<1>2. CASE TransactionNotAvailable(r)
  BY <1>2, <1>b DEF TransactionNotAvailable
<1>3. CASE Extract(r)
  <2> DEFINE rejection ==
        Rejection(Extractors(r)[step[r]], wire[r], IdentityOf(r), ext[r].request_id)
  <2>1. CASE rejection # None
    BY <1>3, <1>b, <2>1 DEF Extract
  <2>2. CASE rejection = None
    <3>1. dir[r] = "in" /\ ~AtLayer(r, "transaction") /\ Passed(r, step[r])
      BY <1>3, <2>2 DEF Extract, Inside, AtLayer, Passed
    <3>2. UNCHANGED <<fixed_vars, dir, depth, ext, conn, second, idle, committed, taken>>
      BY <1>3, <2>2 DEF Extract, db_vars
    <3>3. step' = [step EXCEPT ![r] = @ + 1]
      BY <1>3, <2>2 DEF Extract
    <3> QED  BY <3>1, <3>2, <3>3, Advanced
  <2> QED  BY <2>1, <2>2
<1>4. CASE CallHandler(r)
  BY <1>4, CallStep
<1>5. CASE TakeSecond(r)
  BY <1>5, SecondStep
<1>6. CASE Commit(r)
  BY <1>6, CommitStep
<1>7. CASE Succeed(r)
  BY <1>7, <1>a DEF Succeed
<1>8. CASE Fail(r)
  BY <1>8, <1>b DEF Fail
<1>9. CASE Deny(r)
  BY <1>9, <1>b DEF Deny
<1> QED  BY <1>1, <1>2, <1>3, <1>4, <1>5, <1>6, <1>7, <1>8, <1>9 DEF HandlerStep

LEMMA Inductive == IInv /\ [Next]_vars => IInv'
<1> SUFFICES ASSUME IInv, [Next]_vars PROVE IInv'
  OBVIOUS
<1>0. /\ DOMAIN ext = Requests /\ depth \in [Requests -> Nat] /\ step \in [Requests -> Nat]
      /\ dir \in [Requests -> {"new", "in", "handler", "out", "done", "gone"}]
  BY DEF IInv, Shapes
<1>1. CASE UNCHANGED <<plugins, stack, wire, dir, depth, step, ext, conn, taken, second, idle, committed>>
  BY <1>1 DEF IInv, Shapes, FixedSound, HeldInside, InsideTransaction, OnePlace, TakenHeld,
              PassedSoFar, PassedAll, Passed, CommittedTaken, Inside, Extractors, IdentityOf
<1>2. ASSUME NEW key \in LimitKeys, Refill(key) PROVE IInv'
  BY <1>1, <1>2 DEF Refill, fixed_vars, auth_vars, db_vars
<1>3. ASSUME NEW r \in Requests, Leave(r) PROVE IInv'
  <2>1. /\ dir[r] = "out" /\ dir' = [dir EXCEPT ![r] = "out"]
        /\ depth' \in [Requests -> Nat] /\ \A q \in Requests \ {r} : depth'[q] = depth[q]
        /\ UNCHANGED <<fixed_vars, step, ext, db_vars>>
    BY <1>3, <1>0 DEF Leave, auth_vars
  <2> QED  BY <2>1, Unheld
<1>4. ASSUME NEW r \in Requests, Send(r) PROVE IInv'
  BY <1>4, <1>0, Unheld DEF Send, auth_vars
<1>5. ASSUME NEW r \in Requests, TimeOut(r) PROVE IInv'
  <2>1. PICK d \in 1..depth[r] : depth' = [depth EXCEPT ![r] = d - 1]
    BY <1>5 DEF TimeOut
  <2>2. depth' \in [Requests -> Nat] /\ \A q \in Requests \ {r} : depth'[q] = depth[q]
    BY <2>1, <1>0
  <2>3. /\ dir' = [dir EXCEPT ![r] = "out"] /\ step' = [step EXCEPT ![r] = 1]
        /\ ReturnConnections(r) /\ UNCHANGED <<fixed_vars, ext>>
    BY <1>5 DEF TimeOut, auth_vars
  <2>4. step' \in [Requests -> Nat] /\ Others(r)
    BY <2>2, <2>3, <1>0 DEF Others
  <2> QED  BY <2>2, <2>3, <2>4, Released
<1>6. ASSUME NEW r \in Requests, Drop(r) PROVE IInv'
  BY <1>6, <1>0, Released DEF Drop, auth_vars, Others
<1>7. CASE UNCHANGED vars
  BY <1>1, <1>7 DEF vars
<1> QED
  BY <1>2, <1>3, <1>4, <1>5, <1>6, <1>7, LayerSteps, HandlerSteps DEF Next, Step

LEMMA Invariance == Spec => []IInv
BY InitIInv, Inductive, PTL DEF Spec

-----------------------------------------------------------------------------
(***************************************************************************)
(* Admission, limits and the account of a request.                          *)
(***************************************************************************)

(* Not answered yet; and inside a layer of some kind.                       *)
Unanswered(r) == dir[r] \in {"new", "in", "handler"}

Within(r, kind) == \E i \in DOMAIN stack[r] : stack[r][i].kind = kind /\ i <= depth[r]

Domains ==
    /\ DOMAIN summary = Requests /\ DOMAIN response = Requests
    /\ DOMAIN audit = Requests /\ DOMAIN line = Requests
    /\ charged \in [Requests -> LimitKeys \cup {None}]
    /\ \A r \in Requests : DOMAIN ext[r] = {"request_id", "subject", "auth"}
    /\ tokens \in [LimitKeys -> 0..LimitConfig.burst_size]

Placed(r) ==
    /\ depth[r] \in 0..Len(stack[r]) /\ step[r] \in Nat \ {0}
    /\ dir[r] = "new" => depth[r] = 0
    /\ dir[r] = "handler" => depth[r] = Len(stack[r])

(* The backends that were asked so far had no opinion.                      *)
Asked(r) == AtLayer(r, "auth") =>
    \A j \in DOMAIN ChainOf(r).backends :
        j < step[r] => Silent(ChainOf(r).backends[j], wire[r])

(* Inside its authentication, a request is there by its own chain; and a    *)
(* limiter sees the subject of the identity.                                *)
Vetted(r) ==
    /\ Unanswered(r) /\ Within(r, "auth") =>
        ext[r].auth.result # "none" /\ Admits(OwnChain(r), wire[r], IdentityOf(r))
    /\ IdentityOf(r) # None => ext[r].subject = RateLimitSubject(IdentityOf(r).subject)
    /\ ext[r].subject \in {None} \cup Subjects(wire[r])

(* Inside a limiter, a request has paid by the key it has there.            *)
Paid(r) ==
    /\ Unanswered(r) /\ ~Within(r, "rate_limit") => charged[r] = None
    /\ \A i \in DOMAIN stack[r] :
        Unanswered(r) /\ stack[r][i].kind = "rate_limit" /\ i <= depth[r] =>
            LET key == ExtractLimitKey(stack[r][i].key, wire[r], ext[r].subject)
            IN  charged[r] = IF Unlimited(LimitConfig, key) THEN None ELSE key

Fits(event, status) ==
    /\ event.outcome = "Error" => status = 500
    /\ event.outcome = "Denied" => IsClientError(status)

Unseen(r) == audit[r] = <<>> /\ summary[r] = None

SeenOnce(r) ==
    IF OwnChain(r).audited
    THEN audit[r] = <<audit[r][1]>> /\ audit[r][1].outcome \in {"Success", "Anonymous"}
    ELSE audit[r] = <<>>

(* What was audited is what was logged, and what is being answered.         *)
Recounted(r) ==
    /\ Unanswered(r) =>
        /\ line[r] = None
        /\ Within(r, "auth") => SeenOnce(r)
        /\ ~Within(r, "auth") => Unseen(r)
    /\ audit[r] = <<>> \/ audit[r] = <<audit[r][1]>>
    /\ audit[r] # <<>> =>
        /\ summary[r].client_ip = audit[r][1].client_ip
        /\ audit[r][1].outcome \in {"Error", "Denied"} => summary[r].auth_result = "failed"
        /\ audit[r][1].outcome = "Success" => summary[r].user_id = audit[r][1].subject
        /\ dir[r] = "out" /\ Within(r, "logging") => Fits(audit[r][1], response[r].status)
    /\ line[r] # None =>
        line[r].auth = summary[r] /\ (audit[r] # <<>> => Fits(audit[r][1], line[r].status))

(* A body that names the request does so under a header that does too.      *)
Fields == {"status", "correlation", "headers", "request_id"}

Correlated(r) ==
    /\ Unanswered(r) /\ ext[r].request_id # None => Within(r, "logging")
    /\ dir[r] \in {"out", "done"} =>
        /\ Fields \subseteq DOMAIN response[r]
        /\ response[r].correlation \notin {None, Fresh} =>
            /\ response[r].correlation = ext[r].request_id
            /\ \/ response[r].request_id = ext[r].request_id
               \/ dir[r] = "out" /\ Within(r, "logging")

Account(r) ==
    Placed(r) /\ Asked(r) /\ Vetted(r) /\ Paid(r) /\ Recounted(r) /\ Correlated(r)

AInv == Domains /\ \A r \in Requests : Account(r)

-----------------------------------------------------------------------------
LEMMA FramedStack ==
    ASSUME IInv, NEW r \in Requests
    PROVE  /\ Len(stack[r]) \in Nat /\ DOMAIN stack[r] = 1..Len(stack[r]) /\ InOrder(stack[r])
           /\ \A i \in DOMAIN stack[r] : stack[r][i].kind = "auth" =>
                Guarded(r) /\ stack[r][i].chain = GuardOf(wire[r].route)
           /\ Guarded(r) => \E i \in DOMAIN stack[r] : stack[r][i].kind = "auth"
           /\ Guarded(r) => OwnChain(r) \in Range(Chains)
           /\ Guarded(r) => /\ DOMAIN OwnChain(r).backends = 1..Len(OwnChain(r).backends)
                            /\ Len(OwnChain(r).backends) \in Nat
<1> DEFINE s == [plugins |-> plugins, wire |-> wire]
<1>1. s \in Scenarios /\ s.plugins = plugins /\ s.wire = wire /\ stack[r] = Stack(plugins, wire[r].route)
  BY DEF IInv, FixedSound
<1>2. Contributions(plugins) /\ wire[r].route.group \in Groups
  BY <1>1, ScenarioAssumption
<1>3. /\ stack[r] \in Seq(Range(stack[r])) /\ InOrder(stack[r])
      /\ \A i \in DOMAIN stack[r] : stack[r][i].kind = "auth" =>
            IsGuarded(plugins, wire[r].route) /\ stack[r][i].chain = GuardOf(wire[r].route)
      /\ IsGuarded(plugins, wire[r].route) => \E i \in DOMAIN stack[r] : stack[r][i].kind = "auth"
  <2>1. LET t == Stack(plugins, wire[r].route)
        IN  /\ t \in Seq(Range(t)) /\ InOrder(t)
            /\ \A i \in DOMAIN t : t[i].kind = "auth" =>
                IsGuarded(plugins, wire[r].route) /\ t[i].chain = GuardOf(wire[r].route)
            /\ IsGuarded(plugins, wire[r].route) => \E i \in DOMAIN t : t[i].kind = "auth"
    BY <1>2, StackInOrder
  <2> QED  BY <1>1, <2>1
<1>4. Guarded(r) => GuardOf(wire[r].route) \in DOMAIN Chains
  BY <1>1, ScenarioAssumption DEF Guarded
<1>5. Guarded(r) => OwnChain(r) \in Range(Chains)
  BY <1>4 DEF OwnChain, Range
<1>6. Guarded(r) => OwnChain(r).backends \in Seq(Range(OwnChain(r).backends))
  BY <1>5, ChainAssumption
<1> QED  BY <1>3, <1>5, <1>6 DEF Guarded

(* A layer that decides is entered once, and after those before it in order. *)
LEMMA NotYetWithin ==
    ASSUME IInv, NEW r \in Requests, NEW at \in DOMAIN Order, AtLayer(r, at),
           NEW kind \in DOMAIN Order, Order[at] <= Order[kind]
    PROVE  ~Within(r, kind)
<1> SUFFICES ASSUME NEW i \in DOMAIN stack[r], stack[r][i].kind = kind, i <= depth[r] PROVE FALSE
  BY DEF Within
<1>1. depth[r] + 1 \in DOMAIN stack[r] /\ stack[r][depth[r] + 1].kind = at
  BY DEF AtLayer, Next_layer
<1>2. DOMAIN stack[r] \subseteq Nat /\ InOrder(stack[r]) /\ depth[r] \in Nat
  BY FramedStack DEF IInv, Shapes
<1>3. i < depth[r] + 1
  BY <1>1, <1>2
<1>4. Order[kind] < Order[at]
  BY <1>1, <1>2, <1>3 DEF InOrder
<1>5. Order[kind] \in Nat /\ Order[at] \in Nat
  BY DEF Order
<1> QED  BY <1>4, <1>5

LEMMA EnteredWithin ==
    ASSUME IInv, NEW r \in Requests, Enter(r), UNCHANGED stack, NEW at, AtLayer(r, at), NEW kind
    PROVE  Within(r, kind)' <=> (Within(r, kind) \/ kind = at)
<1>1. depth[r] \in Nat /\ depth'[r] = depth[r] + 1 /\ DOMAIN stack[r] \subseteq Nat
  BY FramedStack DEF Enter, IInv, Shapes
<1>2. depth[r] + 1 \in DOMAIN stack[r] /\ stack[r][depth[r] + 1].kind = at
  BY DEF AtLayer, Next_layer
<1> QED  BY <1>1, <1>2 DEF Within

(* What backends say about a request.                                       *)
LEMMA AnswersShape ==
    ASSUME NEW b, b.kind \in {"basic-auth", "static-bearer", "api-key", "jwt"}, NEW w,
           NEW answer \in Answers(b, w)
    PROVE  /\ answer.kind = "identity" => answer = Found(answer.identity)
           /\ answer.kind = "none" => answer = NoOpinion
<1> DEFINE Shaped(a) == a = NoOpinion \/ (\E i : a = Found(i)) \/ (\E e : a = Failed(e))
<1>1. CASE b.kind = "basic-auth"
  BY <1>1 DEF Answers, BasicAnswer, Found, Failed, NoOpinion
<1>2. CASE b.kind = "static-bearer"
  BY <1>2 DEF Answers, StaticBearerAnswer, Found, Failed, NoOpinion
<1>3. CASE b.kind = "api-key"
  <2>1. answer = ApiKeyAnswer(b, w)
    BY <1>3 DEF Answers
  <2>2. answer = NoOpinion \/ answer \in Range(ApiKeys)
    BY <2>1 DEF ApiKeyAnswer, Range
  <2> QED  BY <2>2, ChainAssumption DEF Found, Failed, NoOpinion
<1>4. CASE b.kind = "jwt"
  <2>1. PICK found : answer = JwtAnswer(b, w, found)
    BY <1>4 DEF Answers
  <2> QED  BY <2>1 DEF JwtAnswer, MapClaims, Found, Failed, NoOpinion
<1> QED  BY <1>1, <1>2, <1>3, <1>4

(* An identity that a chain finds is one that its limiters are prepared for. *)
LEMMA FoundIdentity ==
    ASSUME IInv, NEW r \in Requests, Guarded(r), NEW i \in DOMAIN OwnChain(r).backends,
           NEW identity, Found(identity) \in Answers(OwnChain(r).backends[i], wire[r])
    PROVE  identity # None /\ RateLimitSubject(identity.subject) \in Subjects(wire[r])
<1> DEFINE s == [plugins |-> plugins, wire |-> wire]
           backends == UNION {Range(chain.backends) : chain \in Range(Chains)}
           answers == UNION {Answers(b, wire[r]) : b \in backends}
<1>1. OwnChain(r).backends[i] \in backends
  <2>1. OwnChain(r) \in Range(Chains)
    BY FramedStack
  <2>2. OwnChain(r).backends[i] \in Range(OwnChain(r).backends)
    BY DEF Range
  <2> QED  BY <2>1, <2>2
<1>2. Found(identity) \in answers /\ Found(identity).kind = "identity" /\ Found(identity).identity = identity
  BY <1>1 DEF Found
<1>3. identity \in Identities(wire[r])
  BY <1>2 DEF Identities
<1>4. None \notin Identities(wire[r])
  <2>1. s \in Scenarios /\ s.wire = wire
    BY DEF IInv, FixedSound
  <2> QED  BY <2>1, ScenarioAssumption
<1> QED  BY <1>3, <1>4 DEF Subjects

(* The bodies of answers: what they name the request by.                    *)
Answering(answer, current) ==
    Fields \subseteq DOMAIN answer /\ answer.correlation \in {None, Fresh, current}

LEMMA AnswerBodies ==
    ASSUME NEW current
    PROVE  /\ \A status : Answering(Plain(status), current) /\ Plain(status).status = status
           /\ \A status, code : Answering(QuickError(status, code, current), current)
           /\ \A error : /\ Answering(ErrorIntoResponse(error, current), current)
                         /\ Answering(AuthErrorIntoResponse(error, current), current)
                         /\ AuthErrorIntoResponse(error, current).status = StatusCode(error)
           /\ Answering(TooManyRequests(current), current)
<1> USE DEF Answering, Fields, Plain, QuickErrorWithDetails, QuickError, CorrelationId
<1>1. \A status : Answering(Plain(status), current) /\ Plain(status).status = status
  OBVIOUS
<1>2. \A status, code, details :
        LET a == QuickErrorWithDetails(status, code, details, current)
        IN  /\ Answering(a, current) /\ a.status = status
            /\ DOMAIN a = DOMAIN Plain(status)
  OBVIOUS
<1> HIDE DEF QuickErrorWithDetails, CorrelationId
<1>3. \A status, code :
        Answering(QuickError(status, code, current), current)
        /\ QuickError(status, code, current).status = status
  BY <1>2
<1>4. \A error : Answering(ErrorIntoResponse(error, current), current)
  BY <1>2 DEF ErrorIntoResponse
<1>5. \A error : /\ Answering(AuthErrorIntoResponse(error, current), current)
                 /\ AuthErrorIntoResponse(error, current).status = StatusCode(error)
  BY <1>2 DEF AuthErrorIntoResponse
<1>6. Answering(TooManyRequests(current), current)
  BY <1>2 DEF TooManyRequests
<1> QED  BY <1>1, <1>3, <1>4, <1>5, <1>6

LEMMA RejectionBodies ==
    ASSUME NEW x, x.kind \in ExtractorKinds \ {"DbTx"}, NEW w, NEW identity, NEW current,
           Rejection(x, w, identity, current) # None
    PROVE  Answering(Rejection(x, w, identity, current), current)
<1>1. /\ \A status, code : Answering(QuickError(status, code, current), current)
      /\ \A issues : Answering(ValidationError(issues, current), current)
  <2>1. \A issues : Answering(ValidationError(issues, current), current)
    BY DEF ValidationError, Answering, Fields, Plain, QuickErrorWithDetails, CorrelationId
  <2> QED  BY <2>1, AnswerBodies
<1> USE DEF BadRequest
<1>2. CASE x.kind \in BodyExtractors
  <2>1. Rejection(x, w, identity, current) = BodyRejection(x, w.body, current)
    BY <1>2 DEF Rejection, BodyExtractors
  <2> QED  BY <1>1, <2>1 DEF BodyRejection
<1>3. CASE x.kind \in {"QueryParams", "PathParams", "Context", "RequestContext"}
  BY <1>1, <1>3 DEF Rejection, BodyExtractors
<1>4. CASE x.kind = "Pagination"
  BY <1>1, <1>4 DEF Rejection, BodyExtractors, PaginationRejection
<1>5. CASE x.kind = "IdempotencyKey"
  BY <1>1, <1>5 DEF Rejection, BodyExtractors, IdempotencyRejection
<1>6. CASE x.kind \in {"OptionalIdentity", "Authenticated", "CurrentUser", "RequireScope",
                       "ServiceAccount", "SuperuserOnly"}
  <2>1. Rejection(x, w, identity, current) = AuthRejection(x, identity, current)
    BY <1>6 DEF Rejection, BodyExtractors
  <2> QED  BY <1>1, <1>6, <2>1 DEF AuthRejection
<1> QED  BY <1>2, <1>3, <1>4, <1>5, <1>6 DEF ExtractorKinds

-----------------------------------------------------------------------------
(* What a request's account depends on, beside what is fixed.               *)
Same(r) ==
    /\ dir'[r] = dir[r] /\ depth'[r] = depth[r] /\ step'[r] = step[r] /\ ext'[r] = ext[r]
    /\ summary'[r] = summary[r] /\ charged'[r] = charged[r] /\ response'[r] = response[r]
    /\ audit'[r] = audit[r] /\ line'[r] = line[r]

LEMMA WithinSame ==
    ASSUME UNCHANGED stack, NEW r, depth'[r] = depth[r], NEW kind
    PROVE  Within(r, kind)' <=> Within(r, kind)
BY DEF Within

LEMMA AccountSame ==
    ASSUME NEW r, Account(r), Same(r), UNCHANGED fixed_vars
    PROVE  Account(r)'
<1> USE DEF Same, fixed_vars
<1>w. \A kind : Within(r, kind)' <=> Within(r, kind)
  BY WithinSame
<1>1. Placed(r)'
  BY DEF Account, Placed
<1>2. Asked(r)'
  BY DEF Account, Asked, AtLayer, ChainOf, Next_layer
<1>3. Vetted(r)'
  BY <1>w DEF Account, Vetted, Unanswered, OwnChain, IdentityOf
<1>4. Paid(r)'
  BY <1>w DEF Account, Paid, Unanswered
<1>5. Recounted(r)'
  BY <1>w DEF Account, Recounted, SeenOnce, Unseen, Unanswered, OwnChain
<1>6. Correlated(r)'
  BY <1>w DEF Account, Correlated, Unanswered
<1> QED  BY <1>1, <1>2, <1>3, <1>4, <1>5, <1>6 DEF Account

-----------------------------------------------------------------------------
(* A request that was let in so far is answered, by no denial of its chain.  *)
LEMMA AccountAnswered ==
    ASSUME IInv, AInv, NEW r \in Requests, dir[r] \in {"in", "handler"},
           NEW answer, Answer(r, answer), Answering(answer, ext[r].request_id),
           UNCHANGED <<fixed_vars, auth_vars, charged, line>>
    PROVE  Account(r)'
<1> USE DEF fixed_vars, auth_vars
<1>1. /\ dir'[r] = "out" /\ response'[r] = answer /\ step'[r] = 1 /\ depth'[r] = depth[r]
      /\ Unanswered(r) /\ ~Unanswered(r)' /\ Account(r)
  BY DEF Answer, IInv, Shapes, AInv, Domains, Unanswered
<1>w. \A kind : Within(r, kind)' <=> Within(r, kind)
  BY <1>1, WithinSame
<1>2. Placed(r)'
  BY <1>1 DEF Account, Placed
<1>3. Asked(r)'
  BY <1>1 DEF Asked, AtLayer
<1>4. Vetted(r)'
  BY <1>1 DEF Account, Vetted, IdentityOf
<1>5. Paid(r)'
  BY <1>1 DEF Account, Paid
<1>6. Recounted(r)'
  <2>1. audit[r] # <<>> => audit[r][1].outcome \in {"Success", "Anonymous"}
    BY <1>1 DEF Account, Recounted, SeenOnce, Unseen
  <2>2. audit[r] # <<>> => Fits(audit[r][1], response'[r].status)
    BY <2>1 DEF Fits
  <2> QED  BY <1>1, <2>2 DEF Account, Recounted
<1>7. Correlated(r)'
  <2>1. /\ Fields \subseteq DOMAIN answer
        /\ answer.correlation \notin {None, Fresh} =>
            answer.correlation = ext[r].request_id /\ ext[r].request_id # None
    BY DEF Answering
  <2>2. ext[r].request_id # None => Within(r, "logging")'
    BY <1>1, <1>w DEF Account, Correlated
  <2> QED  BY <1>1, <2>1, <2>2 DEF Correlated
<1> QED  BY <1>2, <1>3, <1>4, <1>5, <1>6, <1>7 DEF Account

(* A layer that is entered starts with its first backend.                   *)
LEMMA EnteredPlace ==
    ASSUME IInv, AInv, NEW r \in Requests, Enter(r), UNCHANGED fixed_vars, NEW at, AtLayer(r, at)
    PROVE  /\ Account(r) /\ Unanswered(r) /\ Unanswered(r)' /\ UNCHANGED response
           /\ dir'[r] = "in" /\ depth[r] + 1 \in DOMAIN stack[r] /\ depth'[r] = depth[r] + 1
           /\ stack[r][depth[r] + 1].kind = at
           /\ Placed(r)' /\ Asked(r)'
<1> USE DEF fixed_vars
<1>1. /\ dir'[r] = "in" /\ step'[r] = 1 /\ depth'[r] = depth[r] + 1 /\ depth[r] \in Nat
      /\ UNCHANGED response /\ Unanswered(r) /\ Unanswered(r)' /\ Account(r)
      /\ depth[r] + 1 \in DOMAIN stack[r] /\ stack[r][depth[r] + 1].kind = at
  BY DEF Enter, AtLayer, Next_layer, IInv, Shapes, AInv, Unanswered
<1>2. Placed(r)'
  BY <1>1, FramedStack DEF Placed
<1>3. \A j \in DOMAIN ChainOf(r)'.backends : AtLayer(r, "auth")' => ~(j < 1)
  <2> SUFFICES ASSUME AtLayer(r, "auth")' PROVE \A j \in DOMAIN ChainOf(r)'.backends : ~(j < 1)
    OBVIOUS
  <2>1. depth'[r] + 1 \in DOMAIN stack[r] /\ stack[r][depth'[r] + 1].kind = "auth"
    BY DEF AtLayer, Next_layer
  <2>2. Guarded(r) /\ ChainOf(r)' = OwnChain(r)
    BY <2>1, FramedStack DEF ChainOf, OwnChain, Next_layer
  <2> QED  BY <2>2, FramedStack
<1>4. Asked(r)'
  BY <1>1, <1>3 DEF Asked, ChainOf, Next_layer
<1> QED  BY <1>1, <1>2, <1>4

(* Layers that leave the account alone.                                     *)
LEMMA AccountEntered ==
    ASSUME IInv, AInv, NEW r \in Requests, Enter(r),
           NEW at, AtLayer(r, at), at \notin {"logging", "auth", "rate_limit"},
           UNCHANGED <<fixed_vars, auth_vars, charged, line>>
    PROVE  Account(r)'
<1> USE DEF fixed_vars, auth_vars
<1>1. /\ Account(r) /\ Unanswered(r) /\ Unanswered(r)' /\ UNCHANGED response
      /\ dir'[r] = "in" /\ depth[r] + 1 \in DOMAIN stack[r] /\ depth'[r] = depth[r] + 1
      /\ stack[r][depth[r] + 1].kind = at
      /\ Placed(r)' /\ Asked(r)'
  BY EnteredPlace
<1>w. \A kind : Within(r, kind)' <=> (Within(r, kind) \/ kind = at)
  BY EnteredWithin
<1>4. Vetted(r)'
  BY <1>1, <1>w DEF Account, Vetted, IdentityOf, OwnChain
<1>5. Paid(r)'
  <2>1. \A i \in DOMAIN stack[r] :
            stack[r][i].kind = "rate_limit" /\ i <= depth[r] + 1 => i <= depth[r]
    BY <1>1, FramedStack DEF IInv, Shapes
  <2> QED  BY <1>1, <1>w, <2>1 DEF Account, Paid
<1>6. Recounted(r)'
  BY <1>1, <1>w DEF Account, Recounted, SeenOnce, Unseen, OwnChain
<1>7. Correlated(r)'
  BY <1>1, <1>w DEF Account, Correlated
<1> QED  BY <1>1, <1>4, <1>5, <1>6, <1>7 DEF Account

LEMMA AccountLogged ==
    ASSUME IInv, AInv, NEW r \in Requests, EnterLogging(r) PROVE Account(r)'
<1> USE DEF fixed_vars
<1>1. /\ Account(r) /\ Unanswered(r) /\ Unanswered(r)' /\ UNCHANGED response
      /\ dir'[r] = "in" /\ depth[r] + 1 \in DOMAIN stack[r] /\ depth'[r] = depth[r] + 1
      /\ stack[r][depth[r] + 1].kind = "logging"
      /\ Placed(r)' /\ Asked(r)'
  BY EnteredPlace DEF EnterLogging
<1>2. /\ UNCHANGED <<summary, audit, charged, line, wire, stack, plugins>>
      /\ ext'[r].auth = ext[r].auth /\ ext'[r].subject = ext[r].subject
  BY DEF EnterLogging, limit_vars, IInv, Shapes, AInv, Domains
<1>w. \A kind : Within(r, kind)' <=> (Within(r, kind) \/ kind = "logging")
  BY EnteredWithin DEF EnterLogging
<1>4. Vetted(r)'
  BY <1>1, <1>2, <1>w DEF Account, Vetted, IdentityOf, OwnChain
<1>5. Paid(r)'
  <2>1. \A i \in DOMAIN stack[r] :
            stack[r][i].kind = "rate_limit" /\ i <= depth[r] + 1 => i <= depth[r]
    BY <1>1, FramedStack DEF IInv, Shapes
  <2> QED  BY <1>1, <1>2, <1>w, <2>1 DEF Account, Paid
<1>6. Recounted(r)'
  BY <1>1, <1>2, <1>w DEF Account, Recounted, SeenOnce, Unseen, OwnChain
<1>7. Correlated(r)'
  BY <1>1, <1>w DEF Correlated, Unanswered
<1> QED  BY <1>1, <1>4, <1>5, <1>6, <1>7 DEF Account

-----------------------------------------------------------------------------
(* A limiter lets a request through, on the account of its key there.       *)
LEMMA AccountLimited ==
    ASSUME IInv, AInv, NEW r \in Requests, EnterRateLimit(r) PROVE Account(r)' /\ Domains'
<1> DEFINE key == ExtractLimitKey(Next_layer(r).key, wire[r], ext[r].subject)
<1> USE DEF fixed_vars, auth_vars
<1>0. /\ AtLayer(r, "rate_limit") /\ UNCHANGED <<fixed_vars, auth_vars, line>> /\ dir[r] = "in"
      /\ Account(r) /\ Unanswered(r) /\ DOMAIN charged = Requests /\ DOMAIN response = Requests
  BY DEF EnterRateLimit, AInv, AtLayer, Domains, Unanswered
<1>1. /\ ~Unlimited(LimitConfig, key) => key \in LimitKeys
      /\ None \notin LimitKeys
  <2> DEFINE s == [plugins |-> plugins, wire |-> wire]
  <2>1. s \in Scenarios /\ s.plugins = plugins /\ s.wire = wire /\ stack[r] = Stack(plugins, wire[r].route)
    BY DEF IInv, FixedSound
  <2>2. ext[r].subject \in {None} \cup Subjects(wire[r])
    BY <1>0 DEF Account, Vetted
  <2>3. Next_layer(r) \in Range(Stack(plugins, wire[r].route)) /\ Next_layer(r).kind = "rate_limit"
    BY <1>0, <2>1 DEF AtLayer, Next_layer, Range
  <2>4. key \in LimitKeys \cup LimitConfig.exempt_keys \cup {None}
    BY <2>1, <2>2, <2>3, ScenarioAssumption
  <2> QED  BY <2>4, PipelineAssumption DEF Unlimited
<1>2. charged[r] = None
  <2>1. ~Within(r, "rate_limit")
    BY <1>0, NotYetWithin DEF Order
  <2> QED  BY <1>0, <2>1 DEF Account, Paid
<1>4. ASSUME Enter(r), charged'[r] = IF Unlimited(LimitConfig, key) THEN None ELSE key
      PROVE  Account(r)'
  <2>1. /\ Unanswered(r)' /\ UNCHANGED response
        /\ dir'[r] = "in" /\ depth[r] + 1 \in DOMAIN stack[r] /\ depth'[r] = depth[r] + 1
        /\ stack[r][depth[r] + 1].kind = "rate_limit"
        /\ Placed(r)' /\ Asked(r)'
    BY <1>0, <1>4, EnteredPlace
  <2>w. \A kind : Within(r, kind)' <=> (Within(r, kind) \/ kind = "rate_limit")
    BY <1>0, <1>4, EnteredWithin
  <2>2. Vetted(r)'
    BY <1>0, <2>1, <2>w DEF Account, Vetted, IdentityOf, OwnChain
  <2>3. Paid(r)'
    <3>1. \A i \in DOMAIN stack[r] :
            stack[r][i].kind = "rate_limit" /\ i <= depth[r] + 1 => i = depth[r] + 1
      <4>1. ~Within(r, "rate_limit")
        BY <1>0, NotYetWithin DEF Order
      <4> QED  BY <2>1, <4>1, FramedStack DEF Within, IInv, Shapes
    <3>2. Within(r, "rate_limit")'
      BY <2>w
    <3>3. key = ExtractLimitKey(stack[r][depth[r] + 1].key, wire[r], ext[r].subject)
      BY DEF Next_layer
    <3> HIDE DEF key
    <3> QED  BY <1>0, <1>4, <2>1, <3>1, <3>2, <3>3 DEF Paid
  <2>4. Recounted(r)'
    BY <1>0, <2>1, <2>w DEF Account, Recounted, SeenOnce, Unseen, OwnChain
  <2>5. Correlated(r)'
    BY <1>0, <2>1, <2>w DEF Account, Correlated
  <2> QED  BY <2>1, <2>2, <2>3, <2>4, <2>5 DEF Account
<1>5. CASE Unlimited(LimitConfig, key)
  <2>1. Enter(r) /\ UNCHANGED <<tokens, charged>>
    BY <1>5 DEF EnterRateLimit, limit_vars
  <2>2. Account(r)'
    BY <1>2, <1>4, <1>5, <2>1
  <2> QED  BY <1>0, <2>1, <2>2 DEF Enter, AInv, Domains
<1>6. CASE ~Unlimited(LimitConfig, key)
  <2>1. CheckKey(r, key)
    BY <1>6 DEF EnterRateLimit
  <2>2. key \in LimitKeys
    BY <1>1, <1>6
  <2> HIDE DEF key
  <2>3. CASE tokens[key] > 0
    <3>1. /\ tokens' = [tokens EXCEPT ![key] = @ - 1] /\ charged' = [charged EXCEPT ![r] = key]
          /\ Enter(r)
      BY <2>1, <2>3 DEF CheckKey
    <3>2. charged'[r] = key /\ charged' \in [Requests -> LimitKeys \cup {None}]
      BY <2>2, <3>1 DEF AInv, Domains
    <3>3. Account(r)'
      BY <1>4, <1>6, <3>1, <3>2
    <3>4. tokens' \in [LimitKeys -> 0..LimitConfig.burst_size]
      BY <2>2, <2>3, <3>1, PipelineAssumption DEF AInv, Domains
    <3> QED  BY <1>0, <3>1, <3>2, <3>3, <3>4 DEF Enter, AInv, Domains
  <2>4. CASE ~(tokens[key] > 0)
    <3>1. Answer(r, TooManyRequests(ext[r].request_id)) /\ UNCHANGED <<tokens, charged>>
      BY <2>1, <2>4 DEF CheckKey, limit_vars
    <3>2. Account(r)'
      BY <1>0, <3>1, AccountAnswered, AnswerBodies
    <3> QED  BY <1>0, <3>1, <3>2 DEF Answer, AInv, Domains
  <2> QED  BY <2>3, <2>4
<1> QED  BY <1>5, <1>6

(* What holds of a request while its chain decides.                         *)
LEMMA AtAuth ==
    ASSUME IInv, AInv, NEW r \in Requests, AtLayer(r, "auth")
    PROVE  /\ Account(r) /\ Unanswered(r) /\ dir[r] = "in" /\ Guarded(r)
           /\ ChainOf(r) = OwnChain(r)
           /\ DOMAIN OwnChain(r).backends = 1..Len(OwnChain(r).backends)
           /\ Len(OwnChain(r).backends) \in Nat /\ step[r] \in Nat \ {0}
           /\ \A j \in DOMAIN OwnChain(r).backends :
                j < step[r] => Silent(OwnChain(r).backends[j], wire[r])
           /\ ~Within(r, "auth") /\ ~Within(r, "rate_limit") /\ Unseen(r)
<1>1. Account(r) /\ Unanswered(r) /\ dir[r] = "in"
  BY DEF AInv, AtLayer, Unanswered
<1>2. Guarded(r) /\ ChainOf(r) = OwnChain(r)
  BY FramedStack DEF AtLayer, Next_layer, ChainOf, OwnChain
<1>3. ~Within(r, "auth") /\ ~Within(r, "rate_limit")
  <2>1. {"auth", "rate_limit"} \subseteq DOMAIN Order
        /\ Order["auth"] <= Order["auth"] /\ Order["auth"] <= Order["rate_limit"]
    BY DEF Order
  <2> QED  BY <2>1, NotYetWithin
<1>4. Unseen(r)
  BY <1>1, <1>3 DEF Account, Recounted
<1> QED  BY <1>1, <1>2, <1>3, <1>4, FramedStack DEF Account, Placed, Asked

(* The chain lets the request in, as its first backend with an opinion says. *)
LEMMA AccountAdmitted ==
    ASSUME IInv, AInv, NEW r \in Requests, AtLayer(r, "auth"), NEW identity, Admit(r, identity),
           UNCHANGED <<fixed_vars, charged, line>>,
           Admits(OwnChain(r), wire[r], identity),
           identity # None => RateLimitSubject(identity.subject) \in Subjects(wire[r])
    PROVE  Account(r)'
<1> USE DEF fixed_vars
<1>0. /\ Account(r) /\ Unanswered(r) /\ Guarded(r) /\ ChainOf(r) = OwnChain(r)
      /\ ~Within(r, "auth") /\ ~Within(r, "rate_limit") /\ Unseen(r)
  BY AtAuth
<1>1. /\ Unanswered(r)' /\ UNCHANGED response
      /\ dir'[r] = "in" /\ depth[r] + 1 \in DOMAIN stack[r] /\ depth'[r] = depth[r] + 1
      /\ stack[r][depth[r] + 1].kind = "auth"
      /\ Placed(r)' /\ Asked(r)'
  BY EnteredPlace DEF Admit
<1>w. \A kind : Within(r, kind)' <=> (Within(r, kind) \/ kind = "auth")
  BY EnteredWithin DEF Admit
<1> DEFINE result == IF identity = None THEN "anonymous" ELSE "authenticated"
           outcome == IF identity = None THEN "Anonymous" ELSE "Success"
<1>2. /\ ext'[r].request_id = ext[r].request_id
      /\ ext'[r].subject = IF identity = None THEN ext[r].subject ELSE RateLimitSubject(identity.subject)
      /\ ext'[r].auth = [identity |-> identity, result |-> result, client_ip |-> ClientIp(wire[r])]
  BY DEF Admit, AInv, Domains, IInv, Shapes
<1>3. summary'[r] = Summary(r, result, identity)
  BY <1>0 DEF Admit, Summarize, AInv, Domains, Unseen
<1>4. audit'[r] = IF OwnChain(r).audited THEN <<Event(r, outcome, identity)>> ELSE <<>>
  <2>1. Audit(r, outcome, identity)
    BY DEF Admit
  <2> HIDE DEF outcome
  <2> QED  BY <1>0, <2>1 DEF Audit, AInv, Domains, Unseen
<1>5. Vetted(r)'
  BY <1>0, <1>2 DEF Account, Vetted, IdentityOf, OwnChain
<1>6. Paid(r)'
  <2>1. \A i \in DOMAIN stack[r] :
            stack[r][i].kind = "rate_limit" /\ i <= depth[r] + 1 => i <= depth[r]
    BY <1>1, FramedStack DEF IInv, Shapes
  <2>2. \A i \in DOMAIN stack[r] : stack[r][i].kind = "rate_limit" => ~(i <= depth[r])
    BY <1>0 DEF Within
  <2> QED  BY <1>0, <1>1, <1>w, <2>1, <2>2 DEF Account, Paid
<1>7. Recounted(r)'
  <2> DEFINE event == Event(r, outcome, identity)
  <2>1. /\ event.outcome = outcome /\ outcome \in {"Success", "Anonymous"}
        /\ event.client_ip = summary'[r].client_ip
        /\ outcome = "Success" => summary'[r].user_id = event.subject
    BY <1>3 DEF Event, Summary
  <2> HIDE DEF event, outcome
  <2>2. /\ audit'[r] = <<>> \/ audit'[r] = <<audit'[r][1]>>
        /\ audit'[r] # <<>> => audit'[r][1] = event
        /\ OwnChain(r).audited => audit'[r] = <<audit'[r][1]>> /\ audit'[r][1] = event
        /\ ~OwnChain(r).audited => audit'[r] = <<>>
    BY <1>4 DEF event
  <2>3. Within(r, "auth")' /\ line'[r] = None /\ dir'[r] # "out" /\ OwnChain(r)' = OwnChain(r)
    BY <1>0, <1>1, <1>w DEF Account, Recounted, OwnChain
  <2> QED  BY <2>1, <2>2, <2>3 DEF Recounted, SeenOnce, Fits
<1>8. Correlated(r)'
  BY <1>0, <1>1, <1>2, <1>w DEF Account, Correlated
<1> QED  BY <1>1, <1>5, <1>6, <1>7, <1>8 DEF Account

LEMMA AccountRefused ==
    ASSUME IInv, AInv, NEW r \in Requests, AtLayer(r, "auth"), NEW error, Refuse(r, error),
           UNCHANGED <<fixed_vars, charged, line>>
    PROVE  Account(r)'
<1> USE DEF fixed_vars
<1> DEFINE answer == AuthErrorIntoResponse(error, ext[r].request_id)
           outcome == IF BackendFault(error) THEN "Error" ELSE "Denied"
<1>0. /\ Account(r) /\ Unanswered(r) /\ ChainOf(r) = OwnChain(r) /\ Unseen(r)
  BY AtAuth
<1>1. /\ dir'[r] = "out" /\ response'[r] = answer /\ step'[r] = 1 /\ depth'[r] = depth[r]
      /\ ~Unanswered(r)' /\ UNCHANGED ext
  BY DEF Refuse, Answer, IInv, Shapes, AInv, Domains, Unanswered
<1>2. Answering(answer, ext[r].request_id) /\ answer.status = StatusCode(error)
  BY AnswerBodies
<1> HIDE DEF answer
<1>w. \A kind : Within(r, kind)' <=> Within(r, kind)
  BY <1>1, WithinSame
<1>3. Placed(r)' /\ Asked(r)'
  BY <1>0, <1>1 DEF Account, Placed, Asked, AtLayer
<1>4. Vetted(r)' /\ Paid(r)'
  BY <1>0, <1>1 DEF Account, Vetted, Paid, IdentityOf
<1>5. Recounted(r)'
  <2>1. summary'[r] = Summary(r, "failed", None)
    BY <1>0 DEF Refuse, Summarize, AInv, Domains, Unseen
  <2>2. audit'[r] = <<>> \/ audit'[r] = <<Event(r, outcome, None)>>
    <3>1. Audit(r, outcome, None)
      BY DEF Refuse
    <3> HIDE DEF outcome
    <3> QED  BY <1>0, <3>1 DEF Audit, AInv, Domains, Unseen
  <2> DEFINE event == Event(r, outcome, None)
  <2>3. /\ event.outcome = outcome /\ outcome \in {"Error", "Denied"}
        /\ event.client_ip = summary'[r].client_ip /\ summary'[r].auth_result = "failed"
    BY <2>1 DEF Event, Summary
  <2>4. Fits(event, StatusCode(error))
    BY <2>3 DEF Fits, StatusCode, BackendFault, IsClientError
  <2> HIDE DEF event, outcome
  <2>5. audit'[r] = <<>> \/ (audit'[r] = <<audit'[r][1]>> /\ audit'[r][1] = event)
    BY <2>2 DEF event
  <2> QED  BY <1>0, <1>1, <1>2, <2>3, <2>4, <2>5 DEF Account, Recounted
<1>6. Correlated(r)'
  <2>1. ext[r].request_id # None => Within(r, "logging")'
    BY <1>0, <1>w DEF Account, Correlated
  <2> QED  BY <1>1, <1>2, <2>1 DEF Correlated, Answering
<1> QED  BY <1>3, <1>4, <1>5, <1>6 DEF Account

(* The next backend or extractor is asked, or BEGIN is sent.                *)
LEMMA AccountStepped ==
    ASSUME IInv, AInv, NEW r \in Requests, step'[r] \in {step[r] + 1, 2},
           UNCHANGED <<fixed_vars, dir, depth, auth_vars, charged, response, line>>,
           AtLayer(r, "auth") => /\ step'[r] = step[r] + 1 /\ step[r] <= Len(OwnChain(r).backends)
                                 /\ Silent(OwnChain(r).backends[step[r]], wire[r])
    PROVE  Account(r)'
<1> USE DEF fixed_vars, auth_vars
<1>0. Account(r) /\ step[r] \in Nat \ {0}
  BY DEF AInv, Account, Placed
<1>w. \A kind : Within(r, kind)' <=> Within(r, kind)
  BY WithinSame
<1>1. Placed(r)'
  BY <1>0 DEF Account, Placed
<1>2. Asked(r)'
  <2>1. AtLayer(r, "auth")' <=> AtLayer(r, "auth")
    BY DEF AtLayer, Next_layer
  <2>2. ChainOf(r)' = ChainOf(r)
    BY DEF ChainOf, Next_layer
  <2>3. ASSUME AtLayer(r, "auth"), NEW j \in DOMAIN ChainOf(r).backends, j < step'[r]
        PROVE  Silent(ChainOf(r).backends[j], wire[r])
    <3>1. /\ ChainOf(r) = OwnChain(r) /\ DOMAIN OwnChain(r).backends = 1..Len(OwnChain(r).backends)
          /\ Len(OwnChain(r).backends) \in Nat
          /\ \A k \in DOMAIN OwnChain(r).backends :
                k < step[r] => Silent(OwnChain(r).backends[k], wire[r])
      BY <2>3, AtAuth
    <3>2. j < step[r] \/ j = step[r]
      BY <1>0, <2>3, <3>1
    <3> QED  BY <2>3, <3>1, <3>2
  <2> QED  BY <2>1, <2>2, <2>3 DEF Asked
<1>3. Vetted(r)' /\ Paid(r)'
  BY <1>0, <1>w DEF Account, Vetted, Paid, Unanswered, OwnChain, IdentityOf
<1>4. Recounted(r)' /\ Correlated(r)'
  BY <1>0, <1>w DEF Account, Recounted, Correlated, SeenOnce, Unseen, Unanswered, OwnChain
<1> QED  BY <1>1, <1>2, <1>3, <1>4 DEF Account

-----------------------------------------------------------------------------
(* The request arrives, or its handler is called, or it has ended.          *)
LEMMA AccountTurned ==
    ASSUME IInv, AInv, NEW r \in Requests,
           \/ dir[r] = "new" /\ dir'[r] = "in"
           \/ Inside(r) /\ dir'[r] = "handler"
           \/ dir[r] = "out" /\ dir'[r] = "done" /\ depth[r] = 0
           \/ dir'[r] = "gone",
           UNCHANGED <<fixed_vars, depth, step, auth_vars, charged, response, line>>,
           dir[r] = "new" => step[r] = 1
    PROVE  Account(r)'
<1> USE DEF fixed_vars, auth_vars
<1>0. Account(r) /\ (Unanswered(r)' => Unanswered(r)) /\ depth[r] \in 0..Len(stack[r])
  BY DEF AInv, Account, Placed, Unanswered, Inside
<1>w. \A kind : Within(r, kind)' <=> Within(r, kind)
  BY WithinSame
<1>1. Placed(r)'
  <2>1. Inside(r) => depth[r] = Len(stack[r])
    BY <1>0, FramedStack DEF Inside
  <2> QED  BY <1>0, <2>1 DEF Account, Placed, Inside
<1>2. Asked(r)'
  <2>1. AtLayer(r, "auth")' => dir[r] = "new" /\ step'[r] = 1
    BY DEF AtLayer, Next_layer, Inside
  <2>2. AtLayer(r, "auth")' => \A j \in DOMAIN ChainOf(r)'.backends : ~(j < 1)
    <3> SUFFICES ASSUME AtLayer(r, "auth")' PROVE \A j \in DOMAIN ChainOf(r)'.backends : ~(j < 1)
      OBVIOUS
    <3>1. Guarded(r) /\ ChainOf(r)' = OwnChain(r)
      BY FramedStack DEF AtLayer, ChainOf, OwnChain, Next_layer
    <3> QED  BY <3>1, FramedStack
  <2> QED  BY <2>1, <2>2 DEF Asked
<1>3. Vetted(r)' /\ Paid(r)'
  BY <1>0, <1>w DEF Account, Vetted, Paid, OwnChain, IdentityOf
<1>4. Recounted(r)' /\ Correlated(r)'
  <2>1. depth[r] = 0 => ~Within(r, "logging")
    BY FramedStack DEF Within
  <2> QED  BY <1>0, <1>w, <2>1 DEF Account, Recounted, Correlated, SeenOnce, Unseen, OwnChain
<1> QED  BY <1>1, <1>2, <1>3, <1>4 DEF Account

(* The response goes out through one layer.                                 *)
LEMMA AccountLeft ==
    ASSUME IInv, AInv, NEW r \in Requests, Leave(r)
    PROVE  Account(r)'
<1> USE DEF fixed_vars, auth_vars, limit_vars
<1>0. /\ Account(r) /\ dir[r] = "out" /\ dir'[r] = "out" /\ ~Unanswered(r)'
      /\ depth[r] \in 1..Len(stack[r]) /\ depth'[r] = depth[r] - 1
      /\ UNCHANGED <<fixed_vars, step, auth_vars, charged>>
  BY DEF AInv, Account, Placed, Leave, Unanswered, IInv, Shapes
<1>1. /\ Fields \subseteq DOMAIN response'[r] /\ response'[r].status = response[r].status
      /\ response'[r].correlation = response[r].correlation
      /\ response'[r].request_id =
            IF Leaving(r) = "logging" THEN ext[r].request_id ELSE response[r].request_id
  BY <1>0 DEF Leave, AInv, Domains, Account, Correlated, Fields
<1>2. line'[r] = IF Leaving(r) # "logging" THEN line[r]
                 ELSE [status |-> response[r].status, auth |-> summary[r]]
  BY DEF Leave, AInv, Domains
<1>w. \A kind : Within(r, kind) => (Within(r, kind)' \/ kind = Leaving(r))
  BY <1>0, FramedStack DEF Within, Leaving
<1>v. /\ \A kind : Within(r, kind)' => Within(r, kind)
      /\ Within(r, Leaving(r))
  <2>1. depth[r] \in DOMAIN stack[r]
    BY <1>0, FramedStack
  <2> QED  BY <1>0, <2>1, FramedStack DEF Within, Leaving
<1>3. Placed(r)' /\ Asked(r)'
  BY <1>0, FramedStack DEF Account, Placed, Asked, AtLayer
<1>4. Vetted(r)' /\ Paid(r)'
  BY <1>0 DEF Account, Vetted, Paid, IdentityOf
<1>5. Recounted(r)'
  BY <1>0, <1>1, <1>2, <1>v DEF Account, Recounted
<1>6. Correlated(r)'
  BY <1>0, <1>1, <1>w DEF Account, Correlated
<1> QED  BY <1>3, <1>4, <1>5, <1>6 DEF Account

(* The answer of a timeout starts outside the log.                          *)
LEMMA AccountTimedOut ==
    ASSUME IInv, AInv, NEW r \in Requests, TimeOut(r)
    PROVE  Account(r)'
<1> USE DEF fixed_vars, auth_vars, limit_vars
<1>0. /\ Account(r) /\ dir'[r] = "out" /\ ~Unanswered(r)' /\ step'[r] = 1
      /\ response'[r] = Plain(408) /\ UNCHANGED <<fixed_vars, auth_vars, charged, line>>
  BY DEF AInv, TimeOut, Unanswered, IInv, Shapes, Domains
<1>1. PICK d \in 1..depth[r] : stack[r][d].kind = "timeout" /\ depth' = [depth EXCEPT ![r] = d - 1]
  BY DEF TimeOut
<1>2. /\ depth'[r] = d - 1 /\ depth[r] \in 0..Len(stack[r]) /\ d \in DOMAIN stack[r]
      /\ Len(stack[r]) \in Nat
  BY <1>0, <1>1, FramedStack DEF IInv, Shapes, Account, Placed
<1>3. ~Within(r, "logging")'
  <2>1. "logging" \in DOMAIN Order
    BY DEF Order
  <2>2. \A i \in DOMAIN stack[r] : stack[r][i].kind = "logging" => d < i
    BY <1>1, <1>2, <2>1, FramedStack DEF InOrder
  <2> QED  BY <1>0, <1>2, <2>2, FramedStack DEF Within
<1>4. Placed(r)' /\ Asked(r)'
  BY <1>0, <1>2, FramedStack DEF Placed, Asked, AtLayer
<1>5. Vetted(r)' /\ Paid(r)'
  BY <1>0 DEF Account, Vetted, Paid, IdentityOf
<1>6. Recounted(r)'
  <2>1. line'[r] = line[r] /\ summary'[r] = summary[r] /\ audit'[r] = audit[r]
    BY <1>0
  <2> QED  BY <1>0, <1>3, <2>1 DEF Account, Recounted
<1>7. Correlated(r)'
  <2>1. Plain(408).correlation = None /\ Fields \subseteq DOMAIN Plain(408)
    BY DEF Plain, Fields
  <2> QED  BY <1>0, <2>1 DEF Correlated
<1> QED  BY <1>4, <1>5, <1>6, <1>7 DEF Account

-----------------------------------------------------------------------------
LEMMA InitAInv == Init => AInv
<1> SUFFICES ASSUME Init PROVE AInv
  OBVIOUS
<1>1. IInv
  BY InitIInv
<1>2. Domains
  BY PipelineAssumption DEF Init, Domains, NoExtensions
<1>3. ASSUME NEW r \in Requests PROVE Account(r)
  <2>1. /\ dir[r] = "new" /\ depth[r] = 0 /\ step[r] = 1 /\ ext[r] = NoExtensions
        /\ summary[r] = None /\ charged[r] = None /\ response[r] = None
        /\ audit[r] = <<>> /\ line[r] = None
    BY DEF Init
  <2>2. \A i \in DOMAIN stack[r] : ~(i <= depth[r])
    BY <1>1, <2>1, FramedStack
  <2>3. \A kind : ~Within(r, kind)
    BY <2>2 DEF Within
  <2>4. Placed(r) /\ Asked(r)
    BY <1>1, <2>1, FramedStack DEF Placed, Asked, AtLayer
  <2>5. Vetted(r) /\ Paid(r)
    BY <2>1, <2>2, <2>3 DEF Vetted, Paid, IdentityOf, NoExtensions
  <2>6. Recounted(r) /\ Correlated(r)
    BY <2>1, <2>3 DEF Recounted, Correlated, Unseen, NoExtensions
  <2> QED  BY <2>4, <2>5, <2>6 DEF Account
<1> QED  BY <1>2, <1>3 DEF AInv

(* A step of one request changes no other's account.                        *)
Apart(r) == \A q \in Requests \ {r} : Same(q)

LEMMA LayersAccount ==
    ASSUME IInv, AInv, NEW r \in Requests, LayerStep(r)
    PROVE  Domains' /\ Account(r)' /\ Apart(r)
<1> USE DEF fixed_vars, auth_vars, limit_vars, Apart, Same
<1>0. /\ Domains /\ Account(r) /\ DOMAIN dir = Requests /\ DOMAIN depth = Requests
      /\ DOMAIN step = Requests /\ DOMAIN ext = Requests /\ step[r] \in Nat
      /\ dir[r] = "new" => step[r] = 1
  BY DEF AInv, IInv, Shapes, HeldInside
<1>a. ASSUME NEW answer, Answer(r, answer), Answering(answer, ext[r].request_id), dir[r] = "in",
             UNCHANGED <<fixed_vars, auth_vars, limit_vars, line>>
      PROVE  Domains' /\ Account(r)' /\ Apart(r)
  <2>1. Account(r)'
    BY <1>a, AccountAnswered
  <2>2. Domains' /\ Apart(r)
    BY <1>a, <1>0 DEF Answer, Domains
  <2> QED  BY <2>1, <2>2
<1>b. ASSUME NEW at, AtLayer(r, at), at \notin {"logging", "auth", "rate_limit"}, Enter(r),
             UNCHANGED <<fixed_vars, auth_vars, limit_vars, line>>
      PROVE  Domains' /\ Account(r)' /\ Apart(r)
  <2>1. Account(r)'
    BY <1>b, AccountEntered
  <2>2. Domains' /\ Apart(r)
    BY <1>b, <1>0 DEF Enter, Domains
  <2> QED  BY <2>1, <2>2
<1>c. ASSUME NEW identity, AtLayer(r, "auth"), Admit(r, identity),
             UNCHANGED <<fixed_vars, limit_vars, line>>,
             Admits(OwnChain(r), wire[r], identity),
             identity # None => RateLimitSubject(identity.subject) \in Subjects(wire[r])
      PROVE  Domains' /\ Account(r)' /\ Apart(r)
  <2>1. Account(r)'
    BY <1>c, AccountAdmitted
  <2>2. Domains' /\ Apart(r)
    BY <1>c, <1>0 DEF Admit, Audit, Summarize, Enter, Domains
  <2> QED  BY <2>1, <2>2
<1>d. ASSUME NEW error, AtLayer(r, "auth"), Refuse(r, error),
             UNCHANGED <<fixed_vars, limit_vars, line>>
      PROVE  Domains' /\ Account(r)' /\ Apart(r)
  <2>1. Account(r)'
    BY <1>d, AccountRefused
  <2>2. Domains' /\ Apart(r)
    BY <1>d, <1>0 DEF Refuse, Audit, Summarize, Answer, Domains
  <2> QED  BY <2>1, <2>2
<1>at. \A k : AtLayer(r, k) => dir[r] = "in"
  BY DEF AtLayer
<1>1. CASE Arrive(r)
  <2>1. Account(r)'
    BY <1>1, <1>0, AccountTurned DEF Arrive
  <2> QED  BY <1>1, <1>0, <2>1 DEF Arrive, Domains
<1>2. CASE PassThrough(r)
  BY <1>2, <1>b DEF PassThrough
<1>3. CASE EnterBodyLimit(r)
  <2>1. CASE wire[r].oversized
    BY <1>3, <2>1, <1>a, <1>at, AnswerBodies DEF EnterBodyLimit
  <2>2. CASE ~wire[r].oversized
    BY <1>3, <2>2, <1>b DEF EnterBodyLimit
  <2> QED  BY <2>1, <2>2
<1>4. CASE EnterLogging(r)
  <2>1. Account(r)'
    BY <1>4, AccountLogged
  <2> QED  BY <1>4, <1>0, <2>1 DEF EnterLogging, Enter, Domains
<1>5. CASE TryBackend(r)
  <2>1. /\ AtLayer(r, "auth") /\ Guarded(r) /\ ChainOf(r) = OwnChain(r) /\ step[r] \in DOMAIN OwnChain(r).backends
        /\ \A j \in 1..(step[r] - 1) : Silent(OwnChain(r).backends[j], wire[r])
        /\ step[r] <= Len(OwnChain(r).backends) /\ UNCHANGED <<fixed_vars, limit_vars, line>>
    BY <1>5, AtAuth DEF TryBackend
  <2> DEFINE b == OwnChain(r).backends[step[r]]
  <2>2. PICK answer \in Answers(b, wire[r]) :
          \/ answer.kind = "identity" /\ Admit(r, answer.identity)
          \/ answer.kind = "error" /\ Refuse(r, answer.error)
          \/ /\ answer.kind = "none"
             /\ step' = [step EXCEPT ![r] = @ + 1]
             /\ UNCHANGED <<dir, depth, response, auth_vars, db_vars>>
    BY <1>5, <2>1 DEF TryBackend
  <2>3. /\ answer.kind = "identity" => answer = Found(answer.identity)
        /\ answer.kind = "none" => answer = NoOpinion
    <3>1. b \in Range(OwnChain(r).backends) /\ OwnChain(r) \in Range(Chains)
      BY <2>1, FramedStack DEF Range
    <3>2. b.kind \in {"basic-auth", "static-bearer", "api-key", "jwt"}
      BY <3>1, ChainAssumption
    <3> HIDE DEF b
    <3> QED  BY <3>2, AnswersShape
  <2>4. CASE answer.kind = "identity" /\ Admit(r, answer.identity)
    <3>1. Found(answer.identity) \in Answers(b, wire[r])
      BY <2>3, <2>4
    <3>2. answer.identity # None /\ RateLimitSubject(answer.identity.subject) \in Subjects(wire[r])
      BY <2>1, <3>1, FoundIdentity
    <3>3. Admits(OwnChain(r), wire[r], answer.identity)
      BY <2>1, <3>1, <3>2 DEF Admits
    <3> QED  BY <1>c, <2>1, <2>4, <3>2, <3>3
  <2>5. CASE Refuse(r, answer.error)
    BY <1>d, <2>1, <2>5
  <2>6. CASE /\ answer.kind = "none" /\ step' = [step EXCEPT ![r] = @ + 1]
             /\ UNCHANGED <<dir, depth, response, auth_vars, db_vars>>
    <3>1. Silent(b, wire[r])
      BY <2>3, <2>6 DEF Silent
    <3>2. step'[r] = step[r] + 1
      BY <1>0, <2>6
    <3>3. Account(r)'
      BY <2>1, <2>6, <3>1, <3>2, AccountStepped
    <3>4. Domains' /\ Apart(r)
      BY <1>0, <2>1, <2>6 DEF Domains
    <3> QED  BY <3>3, <3>4
  <2> QED  BY <2>2, <2>4, <2>5, <2>6
<1>6. CASE FallBack(r)
  <2>1. /\ AtLayer(r, "auth") /\ ChainOf(r) = OwnChain(r) /\ UNCHANGED <<fixed_vars, limit_vars, line>>
        /\ \A j \in DOMAIN OwnChain(r).backends : Silent(OwnChain(r).backends[j], wire[r])
    BY <1>6, AtAuth DEF FallBack
  <2>2. CASE OwnChain(r).fallback = "AllowAnonymous"
    BY <1>6, <2>1, <2>2, <1>c DEF FallBack, Admits
  <2>3. CASE OwnChain(r).fallback # "AllowAnonymous"
    BY <1>6, <2>1, <2>3, <1>d DEF FallBack
  <2> QED  BY <2>2, <2>3
<1>7. CASE EnterRateLimit(r)
  <2>1. Account(r)' /\ Domains'
    BY <1>7, AccountLimited
  <2>2. Apart(r)
    BY <1>7, <1>0 DEF EnterRateLimit, CheckKey, Enter, Answer, Domains
  <2> QED  BY <2>1, <2>2
<1>8. CASE Acquire(r)
  <2>1. step'[r] = 2 /\ ~AtLayer(r, "auth")
    BY <1>8, <1>0 DEF Acquire, AtLayer
  <2>2. Account(r)'
    BY <1>8, <2>1, AccountStepped DEF Acquire
  <2> QED  BY <1>8, <1>0, <2>2 DEF Acquire, Domains
<1>9. CASE AcquireTimesOut(r)
  BY <1>9, <1>a, <1>at, AnswerBodies DEF AcquireTimesOut, DatabaseError
<1>10. CASE Begin(r)
  BY <1>10, <1>b DEF Begin
<1>11. CASE BeginFails(r)
  BY <1>11, <1>a, <1>at, AnswerBodies DEF BeginFails, DatabaseError
<1> QED
  BY <1>1, <1>2, <1>3, <1>4, <1>5, <1>6, <1>7, <1>8, <1>9, <1>10, <1>11 DEF LayerStep

LEMMA HandlersAccount ==
    ASSUME IInv, AInv, NEW r \in Requests, HandlerStep(r)
    PROVE  Domains' /\ Account(r)' /\ Apart(r)
<1> USE DEF fixed_vars, auth_vars, limit_vars, Apart, Same
<1>0. /\ Domains /\ Account(r) /\ DOMAIN dir = Requests /\ DOMAIN depth = Requests
      /\ DOMAIN step = Requests /\ DOMAIN ext = Requests /\ step[r] \in Nat
      /\ dir[r] = "new" => step[r] = 1
  BY DEF AInv, IInv, Shapes, HeldInside
<1>a. ASSUME NEW answer, Answer(r, answer), Answering(answer, ext[r].request_id),
             dir[r] \in {"in", "handler"}, UNCHANGED <<fixed_vars, auth_vars, limit_vars, line>>
      PROVE  Domains' /\ Account(r)' /\ Apart(r)
  <2>1. Account(r)'
    BY <1>a, AccountAnswered
  <2>2. Domains' /\ Apart(r)
    BY <1>a, <1>0 DEF Answer, Domains
  <2> QED  BY <2>1, <2>2
<1>b. ASSUME step' = [step EXCEPT ![r] = @ + 1], Inside(r),
             UNCHANGED <<fixed_vars, dir, depth, auth_vars, limit_vars, response, line>>
      PROVE  Domains' /\ Account(r)' /\ Apart(r)
  <2>1. step'[r] = step[r] + 1 /\ ~AtLayer(r, "auth")
    BY <1>b, <1>0 DEF Inside, AtLayer
  <2>2. Account(r)'
    BY <1>b, <2>1, AccountStepped
  <2> QED  BY <1>b, <1>0, <2>2 DEF Domains
<1>c. ASSUME UNCHANGED <<fixed_vars, dir, depth, step, auth_vars, limit_vars, response, line>>
      PROVE  Domains' /\ Account(r)' /\ Apart(r)
  <2>1. Account(r)'
    BY <1>0, <1>c, AccountSame
  <2> QED  BY <1>c, <1>0, <2>1 DEF Domains
<1>1. CASE TakeTransaction(r)
  BY <1>1, <1>b DEF TakeTransaction, Asks
<1>2. CASE TransactionNotAvailable(r)
  <2> DEFINE answer == QuickError(500, "DATABASE_TRANSACTION_NOT_AVAILABLE", ext[r].request_id)
  <2>1. Answering(answer, ext[r].request_id)
    BY AnswerBodies
  <2>2. dir[r] = "in" /\ Reject(r, answer)
    BY <1>2 DEF TransactionNotAvailable, Asks, Inside
  <2> HIDE DEF answer
  <2> QED  BY <1>a, <2>1, <2>2 DEF Reject
<1>3. CASE Extract(r)
  <2> DEFINE x == Extractors(r)[step[r]]
             rejection == Rejection(x, wire[r], IdentityOf(r), ext[r].request_id)
  <2>1. CASE rejection # None
    <3>1. x.kind \in ExtractorKinds \ {"DbTx"}
      <4> DEFINE s == [plugins |-> plugins, wire |-> wire]
      <4>1. s \in Scenarios /\ s.wire = wire
        BY DEF IInv, FixedSound
      <4>2. step[r] \in DOMAIN Extractors(r)
        BY <1>3, <1>0 DEF Extract, IInv, FixedSound, Account, Placed
      <4>3. x \in Range(wire[r].route.extractors)
        BY <4>2 DEF Extractors, Range
      <4>4. x.kind \in ExtractorKinds
        BY <4>1, <4>3, ScenarioAssumption
      <4> QED  BY <1>3, <4>4 DEF Extract, Asks
    <3>2. Answering(rejection, ext[r].request_id)
      BY <2>1, <3>1, RejectionBodies
    <3> QED  BY <1>3, <1>a, <2>1, <3>2 DEF Extract, Reject, Inside
  <2>2. CASE rejection = None
    BY <1>3, <1>b, <2>2 DEF Extract
  <2> QED  BY <2>1, <2>2
<1>4. CASE CallHandler(r)
  <2>1. dir'[r] = "handler" /\ Inside(r)
    BY <1>4, <1>0 DEF CallHandler
  <2>2. Account(r)'
    BY <1>4, <1>0, <2>1, AccountTurned DEF CallHandler
  <2> QED  BY <1>4, <1>0, <2>2 DEF CallHandler, Domains
<1>5. CASE TakeSecond(r)
  BY <1>5, <1>c DEF TakeSecond
<1>6. CASE Commit(r)
  BY <1>6, <1>c DEF Commit
<1>7. CASE Succeed(r)
  BY <1>7, <1>a, AnswerBodies DEF Succeed, Running
<1>8. CASE Fail(r)
  BY <1>8, <1>a, AnswerBodies DEF Fail, Reject, Running
<1>9. CASE Deny(r)
  BY <1>9, <1>a, AnswerBodies DEF Deny, Reject, Running
<1> QED  BY <1>1, <1>2, <1>3, <1>4, <1>5, <1>6, <1>7, <1>8, <1>9 DEF HandlerStep

LEMMA AccountsInductive == IInv /\ AInv /\ [Next]_vars => AInv'
<1> SUFFICES ASSUME IInv, AInv, [Next]_vars PROVE AInv'
  OBVIOUS
<1> USE DEF fixed_vars, auth_vars, limit_vars
<1>0. /\ Domains /\ DOMAIN dir = Requests /\ DOMAIN depth = Requests
      /\ DOMAIN step = Requests /\ DOMAIN ext = Requests
      /\ \A r \in Requests : Account(r)
  BY DEF AInv, IInv, Shapes
<1>1. ASSUME NEW r \in Requests, Domains', Account(r)', Apart(r), UNCHANGED fixed_vars PROVE AInv'
  <2>1. ASSUME NEW q \in Requests \ {r} PROVE Account(q)'
    BY <1>0, <1>1, <2>1, AccountSame DEF Apart
  <2> QED  BY <1>1, <2>1 DEF AInv
<1>2. ASSUME NEW r \in Requests, Step(r) PROVE AInv'
  <2>1. UNCHANGED fixed_vars
    BY <1>2 DEF Step, LayerStep, HandlerStep, Arrive, PassThrough, EnterBodyLimit, EnterLogging,
        TryBackend, FallBack, EnterRateLimit, Acquire, AcquireTimesOut, Begin, BeginFails,
        TakeTransaction, TransactionNotAvailable, Extract, CallHandler, TakeSecond, Commit,
        Succeed, Fail, Deny, Reject, Leave, Send
  <2>2. CASE LayerStep(r)
    BY <1>1, <2>1, <2>2, LayersAccount
  <2>3. CASE HandlerStep(r)
    BY <1>1, <2>1, <2>3, HandlersAccount
  <2>4. CASE Leave(r)
    <3>1. Account(r)'
      BY <2>4, AccountLeft
    <3>2. Domains' /\ Apart(r)
      BY <1>0, <2>4 DEF Leave, Domains, Apart, Same
    <3> QED  BY <1>1, <2>1, <3>1, <3>2
  <2>5. CASE Send(r)
    <3>1. /\ dir[r] = "out" /\ depth[r] = 0 /\ dir'[r] = "done"
          /\ UNCHANGED <<fixed_vars, depth, step, auth_vars, charged, response, line>>
      BY <1>0, <2>5 DEF Send
    <3>2. Account(r)'
      BY <3>1, AccountTurned
    <3>3. Domains' /\ Apart(r)
      BY <1>0, <2>5 DEF Send, Domains, Apart, Same
    <3> QED  BY <1>1, <2>1, <3>2, <3>3
  <2> QED  BY <1>2, <2>2, <2>3, <2>4, <2>5 DEF Step
<1>3. ASSUME NEW r \in Requests, TimeOut(r) PROVE AInv'
  <2>1. Account(r)'
    BY <1>3, AccountTimedOut
  <2>2. Domains' /\ Apart(r) /\ UNCHANGED fixed_vars
    BY <1>0, <1>3 DEF TimeOut, Domains, Apart, Same
  <2> QED  BY <1>1, <2>1, <2>2
<1>4. ASSUME NEW r \in Requests, Drop(r) PROVE AInv'
  <2>1. /\ dir[r] # "new" /\ dir'[r] = "gone"
        /\ UNCHANGED <<fixed_vars, depth, step, auth_vars, charged, response, line>>
    BY <1>0, <1>4 DEF Drop, InProgress
  <2>2. Account(r)'
    BY <2>1, AccountTurned
  <2>3. Domains' /\ Apart(r) /\ UNCHANGED fixed_vars
    BY <1>0, <1>4 DEF Drop, Domains, Apart, Same
  <2> QED  BY <1>1, <2>2, <2>3
<1>5. ASSUME UNCHANGED <<fixed_vars, dir, depth, step, auth_vars, charged, response, line>>,
             tokens' \in [LimitKeys -> 0..LimitConfig.burst_size]
      PROVE  AInv'
  <2>1. ASSUME NEW q \in Requests PROVE Account(q)'
    BY <1>0, <1>5, AccountSame DEF Same
  <2>2. Domains'
    BY <1>0, <1>5 DEF Domains
  <2> QED  BY <2>1, <2>2 DEF AInv
<1>6. ASSUME NEW key \in LimitKeys, Refill(key) PROVE AInv'
  <2>1. tokens' \in [LimitKeys -> 0..LimitConfig.burst_size]
    BY <1>0, <1>6, PipelineAssumption DEF Refill, Domains
  <2> QED  BY <1>5, <1>6, <2>1 DEF Refill
<1>7. CASE UNCHANGED vars
  BY <1>0, <1>5, <1>7 DEF vars, Domains
<1> QED  BY <1>2, <1>3, <1>4, <1>6, <1>7 DEF Next

LEMMA AccountsInvariance == Spec => [](IInv /\ AInv)
<1>1. Init => IInv /\ AInv
  BY InitIInv, InitAInv
<1>2. IInv /\ AInv /\ [Next]_vars => (IInv /\ AInv)'
  BY Inductive, AccountsInductive
<1> QED  BY <1>1, <1>2, PTL DEF Spec

(* A request that is past its layers is within each of them.                *)
LEMMA PastIsWithin ==
    ASSUME IInv, AInv, NEW r \in Requests, PastLayers(r)
    PROVE  /\ Unanswered(r) /\ Account(r) /\ \A i \in DOMAIN stack[r] : i <= depth[r]
           /\ Guarded(r) => Within(r, "auth")
<1>1. Unanswered(r) /\ Account(r) /\ depth[r] = Len(stack[r])
  BY FramedStack DEF PastLayers, Inside, Running, Unanswered, AInv, Account, Placed
<1>2. \A i \in DOMAIN stack[r] : i <= depth[r]
  BY <1>1, FramedStack
<1> QED  BY <1>1, <1>2, FramedStack DEF Within

(* A request whose transaction is open, or waits for BEGIN, is within its   *)
(* authentication and its limiter.                                          *)
LEMMA HeldIsWithin ==
    ASSUME IInv, AInv, NEW r \in Requests, conn[r] # None \/ second[r] # None
    PROVE  /\ dir[r] \in {"in", "handler"} /\ Unanswered(r) /\ Account(r)
           /\ Guarded(r) => Within(r, "auth")
           /\ \A i \in DOMAIN stack[r] : stack[r][i].kind = "rate_limit" => i <= depth[r]
<1>1. dir[r] \in {"in", "handler"} /\ Unanswered(r) /\ Account(r)
  BY DEF IInv, HeldInside, AInv, Unanswered
<1>2. CASE dir[r] = "handler"
  BY <1>1, <1>2, PastIsWithin DEF PastLayers, Running
<1>3. CASE dir[r] = "in"
  <2>1. PICK d \in Nat : /\ d \in DOMAIN stack[r] /\ stack[r][d].kind = "transaction"
                         /\ d <= depth[r] \/ d = depth[r] + 1
    BY <1>3 DEF IInv, HeldInside, InsideTransaction
  <2>2. ASSUME NEW i \in DOMAIN stack[r], stack[r][i].kind \in {"auth", "rate_limit"}
        PROVE  i <= depth[r]
    <3>1. ~(d < i) /\ i # d
      <4>1. /\ stack[r][i].kind \in DOMAIN Order /\ stack[r][d].kind \in DOMAIN Order
            /\ ~(Order[stack[r][d].kind] < Order[stack[r][i].kind]) /\ stack[r][i].kind # stack[r][d].kind
        BY <2>1, <2>2 DEF Order
      <4> QED  BY <2>1, <4>1, FramedStack DEF InOrder
    <3>2. i \in Nat /\ depth[r] \in Nat
      BY FramedStack DEF IInv, Shapes
    <3> QED  BY <2>1, <3>1, <3>2
  <2> QED  BY <1>1, <2>2, FramedStack DEF Within
<1> QED  BY <1>1, <1>2, <1>3

-----------------------------------------------------------------------------
(***************************************************************************)
(* The theorems.                                                            *)
(***************************************************************************)

(* A transaction is committed only by a handler that took it, on a request  *)
(* whose extractors all let it pass; and every connection is in the pool or *)
(* with one request (DbTx, RequestTransaction, ReturnConnections).          *)
THEOREM CommitsOwnTransaction == Spec => []CommittedByItsHandler
<1>1. IInv => CommittedByItsHandler
  <2> SUFFICES ASSUME IInv PROVE CommittedByItsHandler
    OBVIOUS
  <2>1. ASSUME NEW r \in committed, NEW x \in Range(Extractors(r)), x.kind # "DbTx"
        PROVE  Rejection(x, wire[r], IdentityOf(r), ext[r].request_id) = None
    <3>1. r \in Requests
      BY DEF IInv, Shapes
    <3>2. PICK i \in DOMAIN Extractors(r) : x = Extractors(r)[i]
      BY DEF Range
    <3> QED  BY <2>1, <3>1, <3>2 DEF IInv, PassedAll, Passed
  <2> QED  BY <2>1 DEF IInv, CommittedTaken, OnePlace, CommittedByItsHandler
<1> QED  BY <1>1, Invariance, PTL

(* Requests stay within their stacks, limiters within their bursts, and     *)
(* every variable in its type (the layers of build_router, check_key).      *)
THEOREM TypeCorrect == Spec => []TypeOK
<1>1. IInv /\ AInv => TypeOK
  <2> SUFFICES ASSUME IInv, AInv PROVE TypeOK
    OBVIOUS
  <2>1. [plugins |-> plugins, wire |-> wire] \in Scenarios
    BY DEF IInv, FixedSound
  <2>2. /\ \A r \in Requests : depth[r] \in 0..Len(stack[r])
        /\ step \in [Requests -> Nat \ {0}]
    BY DEF IInv, Shapes, AInv, Account, Placed
  <2> QED  BY <2>1, <2>2 DEF IInv, Shapes, AInv, Domains, TypeOK
<1> QED  BY <1>1, AccountsInvariance, PTL

(* A guarded route is reached only with what the first backend of its own   *)
(* chain that has an opinion says: not by the global chain or another's,    *)
(* and not past a backend that refused (AuthChain::authenticate).           *)
THEOREM AdmitsOwnChain == Spec => []AdmittedByOwnChain
<1>1. IInv /\ AInv => AdmittedByOwnChain
  BY PastIsWithin DEF AdmittedByOwnChain, Account, Vetted
<1> QED  BY <1>1, AccountsInvariance, PTL

(* The audit event, the log line and the response of a request agree        *)
(* (auth_middleware, handle_auth_failure, logging_middleware).              *)
THEOREM OneAccount == Spec => []OneAccountOfEachRequest
<1>1. IInv /\ AInv => OneAccountOfEachRequest
  <2> SUFFICES ASSUME IInv, AInv, NEW r \in Requests
               PROVE  /\ Len(audit[r]) <= 1
                      /\ PastLayers(r) /\ Guarded(r) /\ OwnChain(r).audited =>
                          Len(audit[r]) = 1 /\ audit[r][1].outcome \in {"Success", "Anonymous"}
                      /\ audit[r] # <<>> /\ line[r] # None =>
                          /\ line[r].auth.client_ip = audit[r][1].client_ip
                          /\ audit[r][1].outcome = "Error" =>
                              line[r].status = 500 /\ line[r].auth.auth_result = "failed"
                          /\ audit[r][1].outcome = "Denied" =>
                              IsClientError(line[r].status) /\ line[r].auth.auth_result = "failed"
                          /\ audit[r][1].outcome = "Success" =>
                              line[r].auth.user_id = audit[r][1].subject
                      /\ dir[r] = "done" /\ response[r].correlation \notin {None, Fresh} =>
                          /\ response[r].correlation = ext[r].request_id
                          /\ response[r].request_id = ext[r].request_id
    BY DEF OneAccountOfEachRequest
  <2>1. Account(r)
    BY DEF AInv
  <2>2. Len(audit[r]) <= 1
    <3>1. audit[r] = <<>> \/ audit[r] = <<audit[r][1]>>
      BY <2>1 DEF Account, Recounted
    <3>2. CASE audit[r] = <<>>
      BY <3>2
    <3>3. CASE audit[r] = <<audit[r][1]>>
      <4> DEFINE e == audit[r][1]
      <4>1. audit[r] = <<e>>
        BY <3>3
      <4> HIDE DEF e
      <4> QED  BY <4>1
    <3> QED  BY <3>1, <3>2, <3>3
  <2>3. ASSUME PastLayers(r), Guarded(r), OwnChain(r).audited
        PROVE  Len(audit[r]) = 1 /\ audit[r][1].outcome \in {"Success", "Anonymous"}
    <3>1. SeenOnce(r)
      BY <2>1, <2>3, PastIsWithin DEF Account, Recounted
    <3>2. \A e : Len(<<e>>) = 1
      OBVIOUS
    <3> QED  BY <2>3, <3>1, <3>2 DEF SeenOnce
  <2>4. ASSUME audit[r] # <<>>, line[r] # None
        PROVE  /\ line[r].auth.client_ip = audit[r][1].client_ip
               /\ audit[r][1].outcome = "Error" =>
                   line[r].status = 500 /\ line[r].auth.auth_result = "failed"
               /\ audit[r][1].outcome = "Denied" =>
                   IsClientError(line[r].status) /\ line[r].auth.auth_result = "failed"
               /\ audit[r][1].outcome = "Success" => line[r].auth.user_id = audit[r][1].subject
    BY <2>1, <2>4 DEF Account, Recounted, Fits
  <2>5. dir[r] = "done" /\ response[r].correlation \notin {None, Fresh} =>
            response[r].correlation = ext[r].request_id /\ response[r].request_id = ext[r].request_id
    BY <2>1 DEF Account, Correlated
  <2> QED  BY <2>2, <2>3, <2>4, <2>5
<1> QED  BY <1>1, AccountsInvariance, PTL

(* Rejected requests hold no connection: neither those that their chain     *)
(* refuses nor those without a token of their bucket, whatever the order in *)
(* which plugins contribute their layers (build_router's sort by slot).     *)
THEOREM RejectedWithoutConnection == Spec => []RejectedHoldNoConnection
<1>1. IInv /\ AInv => RejectedHoldNoConnection
  <2> SUFFICES ASSUME IInv, AInv, NEW r \in Requests, conn[r] # None \/ second[r] # None
               PROVE  /\ dir[r] \in {"in", "handler"}
                      /\ Guarded(r) => Admits(OwnChain(r), wire[r], IdentityOf(r))
                      /\ \A key \in LimitKeysOf(r) : Unlimited(LimitConfig, key) \/ charged[r] = key
    BY DEF RejectedHoldNoConnection
  <2>1. /\ dir[r] \in {"in", "handler"} /\ Unanswered(r) /\ Account(r)
        /\ Guarded(r) => Within(r, "auth")
        /\ \A i \in DOMAIN stack[r] : stack[r][i].kind = "rate_limit" => i <= depth[r]
    BY HeldIsWithin
  <2>2. Guarded(r) => Admits(OwnChain(r), wire[r], IdentityOf(r))
    BY <2>1 DEF Account, Vetted
  <2>3. ASSUME NEW key \in LimitKeysOf(r), ~Unlimited(LimitConfig, key) PROVE charged[r] = key
    <3>1. PICK i \in DOMAIN stack[r] :
            stack[r][i].kind = "rate_limit" /\ key = ExtractLimitKey(stack[r][i].key, wire[r], ext[r].subject)
      BY DEF LimitKeysOf, Limiters, Range
    <3> QED  BY <2>1, <2>3, <3>1 DEF Account, Paid
  <2> QED  BY <2>1, <2>2, <2>3
<1> QED  BY <1>1, AccountsInvariance, PTL

(* An authenticated request passes a limiter by client id on the account of *)
(* its own subject, on every route and under either group's chain: its      *)
(* subject is there before any limiter looks for it.                        *)
THEOREM ChargesOwnSubject == Spec => []AuthenticatedAreCharged
<1>1. IInv /\ AInv => AuthenticatedAreCharged
  <2> SUFFICES ASSUME IInv, AInv, NEW r \in Requests, PastLayers(r), IdentityOf(r) # None,
                      LimitConfig.enabled, NEW l \in Limiters(r), l.key.kind = "client_id",
                      RateLimitSubject(IdentityOf(r).subject) \notin LimitConfig.exempt_keys
               PROVE  charged[r] = RateLimitSubject(IdentityOf(r).subject)
    BY DEF AuthenticatedAreCharged
  <2>1. PICK i \in DOMAIN stack[r] : stack[r][i] = l /\ l.kind = "rate_limit"
    BY DEF Limiters, Range
  <2>2. Unanswered(r) /\ Account(r) /\ i <= depth[r]
    BY PastIsWithin
  <2>3. ExtractLimitKey(l.key, wire[r], ext[r].subject) = RateLimitSubject(IdentityOf(r).subject)
    BY <2>2 DEF Account, Vetted, ExtractLimitKey
  <2> QED  BY <2>1, <2>2, <2>3 DEF Account, Paid, Unlimited
<1> QED  BY <1>1, AccountsInvariance, PTL

-----------------------------------------------------------------------------
(***************************************************************************)
(* Identities.                                                              *)
(***************************************************************************)

LEMMA ErrorsAreNotNone ==
    /\ "InvalidCredentials" # None /\ "TokenExpired" # None
    /\ "TokenValidation" # None /\ "BackendError" # None
BY PipelineAssumption DEF AuthErrors

(* What decode lets pass is of the algorithm and the key it was given.      *)
LEMMA DecodedIsSigned ==
    ASSUME NEW token, NEW key, NEW algorithm, NEW validation,
           DecodeError(token, key, algorithm, validation) = None
    PROVE  /\ token \in DOMAIN Jwts
           /\ Jwts[token].alg = algorithm /\ Jwts[token].key = key
           /\ Jwts[token].state # "refused"
           /\ Jwts[token].state = "expired" => ~validation.validate_exp
<1>1. token \in DOMAIN Jwts
  BY ErrorsAreNotNone DEF DecodeError
<1>2. Jwts[token].alg = algorithm
  BY <1>1, ErrorsAreNotNone DEF DecodeError
<1>3. Jwts[token].key = key
  BY <1>1, <1>2, ErrorsAreNotNone DEF DecodeError
<1> QED  BY <1>1, <1>2, <1>3, ErrorsAreNotNone DEF DecodeError

(* A key that find_key returns is published, usable, and the last with its  *)
(* id.                                                                      *)
LEMMA FoundIsPublished ==
    ASSUME NEW kid, NEW found \in FindKey(kid), found.kind # "error"
    PROVE  \E i \in DOMAIN Published :
              /\ Usable(Published[i]) /\ Published[i].kid = kid
              /\ Published[i].algorithm = found.algorithm /\ Published[i].key = found.key
              /\ \A j \in DOMAIN Published :
                    j > i => ~Usable(Published[j]) \/ Published[j].kid # kid
<1>1. PICK p \in PreparedKeys :
          p.kid = kid /\ found = [kind |-> "key", key |-> p.key, algorithm |-> p.algorithm]
  BY DEF FindKey, Failed
<1> DEFINE usable == {i \in DOMAIN Published :
                         /\ Published[i].kid # None /\ Published[i].algorithm # None
                         /\ Published[i].decodable}
<1>2. PICK i \in usable : /\ p = Published[i]
                          /\ \A j \in usable : Published[j].kid = Published[i].kid => j <= i
  BY <1>1 DEF PreparedKeys
<1>3. ASSUME NEW j \in DOMAIN Published, j > i, Usable(Published[j]), Published[j].kid = kid
      PROVE  FALSE
  <2>1. j \in usable
    BY <1>3 DEF Usable
  <2>2. j <= i
    BY <1>1, <1>2, <1>3, <2>1
  <2>3. j \in Nat /\ i \in Nat
    BY PipelineAssumption
  <2> QED  BY <1>3, <2>2, <2>3
<1>4. Usable(Published[i])
  BY DEF Usable
<1> QED  BY <1>1, <1>2, <1>3, <1>4

(* A JWT backend names nobody but the subject of a token that is signed by  *)
(* a key it trusts and in force.                                            *)
LEMMA TokenVouches ==
    ASSUME NEW b, b.kind = "jwt", NEW w, NEW identity, Found(identity) \in Answers(b, w)
    PROVE  Vouches(b, w, identity)
<1> DEFINE token == ExtractToken(b, w)
<1>1. PICK found \in FindKey(KidOf(token)) : Found(identity) = JwtAnswer(b, w, found)
  BY DEF Answers
<1> DEFINE resolved == IF b.resolver.kind = "jwks" THEN found ELSE b.resolver
           refused == DecodeError(token, resolved.key, resolved.algorithm, b.validation)
<1>0. /\ \A e : Found(identity) # Failed(e)
      /\ Found(identity) # NoOpinion
      /\ \A i : Found(identity) = Found(i) => identity = i
  BY DEF Found, Failed, NoOpinion
<1>2. token # None
  BY <1>0, <1>1 DEF JwtAnswer
<1>3. b.resolver.kind = "jwks" => ResolveError(b, token, found) = None
  BY <1>0, <1>1, <1>2 DEF JwtAnswer
<1>4. refused = None
  BY <1>0, <1>1, <1>2, <1>3 DEF JwtAnswer
<1>5. Found(identity) = MapClaims(b, Jwts[token].claims)
  BY <1>0, <1>1, <1>2, <1>3, <1>4 DEF JwtAnswer
<1> DEFINE t == Jwts[token]
<1>6. /\ token \in DOMAIN Jwts /\ t.alg = resolved.algorithm /\ t.key = resolved.key
      /\ InForce(b, t)
  BY <1>4, DecodedIsSigned DEF InForce
<1>7. /\ t.claims.sub # None /\ identity.subject = t.claims.sub
      /\ identity.scopes = t.claims.scopes /\ ~identity.privileged
  <2>1. t.claims.sub # None
    BY <1>0, <1>5 DEF MapClaims
  <2>2. identity = [Identity(t.claims.sub, b.auth_method) EXCEPT
            !.scopes = t.claims.scopes,
            !.client_id = IF b.client_id = "preserve" THEN t.claims.client_id ELSE None]
    BY <1>0, <1>5, <2>1 DEF MapClaims
  <2> QED  BY <2>1, <2>2 DEF Identity
<1>8. SignedByTrusted(b, t)
  <2>1. CASE b.resolver.kind # "jwks"
    BY <1>6, <2>1 DEF SignedByTrusted
  <2>2. CASE b.resolver.kind = "jwks"
    <3>1. t.kid # None /\ t.alg \in b.allowed_algorithms
      BY <1>3, <1>6, <2>2, ErrorsAreNotNone DEF ResolveError
    <3>2. found.kind # "error"
      <4>1. found.kind = "error" => found.error = None
        BY <1>3, <1>6, <2>2, <3>1, ErrorsAreNotNone DEF ResolveError
      <4>2. found.kind = "error" => found.error \in {"TokenValidation", "BackendError"}
        BY <1>1 DEF FindKey, Failed
      <4> QED  BY <4>1, <4>2, ErrorsAreNotNone
    <3>3. KidOf(token) = t.kid
      BY <1>6 DEF KidOf
    <3>4. PICK i \in DOMAIN Published :
              /\ Usable(Published[i]) /\ Published[i].kid = t.kid
              /\ Published[i].algorithm = found.algorithm /\ Published[i].key = found.key
              /\ \A j \in DOMAIN Published :
                    j > i => ~Usable(Published[j]) \/ Published[j].kid # t.kid
      BY <1>1, <3>2, <3>3, FoundIsPublished
    <3>5. t.alg = found.algorithm /\ t.key = found.key
      BY <1>6, <2>2
    <3> HIDE DEF t
    <3> QED  BY <2>2, <3>1, <3>4, <3>5 DEF SignedByTrusted
  <2> QED  BY <2>1, <2>2
<1> HIDE DEF t
<1>9. token \in DOMAIN Jwts /\ t = Jwts[token]
  BY <1>6 DEF t
<1> HIDE DEF token
<1> QED  BY <1>6, <1>7, <1>8, <1>9 DEF Vouches, token

(* So with the other backends.                                              *)
LEMMA BackendVouches ==
    ASSUME NEW b, b.kind \in {"basic-auth", "static-bearer", "api-key", "jwt"}, NEW w, NEW identity,
           Found(identity) \in Answers(b, w)
    PROVE  Vouches(b, w, identity)
<1>0. /\ \A e : Found(identity) # Failed(e)
      /\ Found(identity) # NoOpinion
      /\ \A i : Found(identity) = Found(i) => identity = i
  BY DEF Found, Failed, NoOpinion
<1>s. SecretIdentity(b).subject = b.subject
  BY DEF SecretIdentity, Identity
<1>1. CASE b.kind = "basic-auth"
  <2>1. Found(identity) = BasicAnswer(b, w)
    BY <1>1 DEF Answers
  <2>2. /\ w.authorization # None /\ w.authorization.secret = b.password
        /\ identity = SecretIdentity(b)
    BY <1>0, <2>1 DEF BasicAnswer, HasBasicCredentials
  <2> QED  BY <1>1, <1>s, <2>2 DEF Vouches
<1>2. CASE b.kind = "static-bearer"
  <2>1. Found(identity) = StaticBearerAnswer(b, w)
    BY <1>2 DEF Answers
  <2>2. /\ w.authorization # None /\ w.authorization.secret = b.token
        /\ identity = SecretIdentity(b)
    BY <1>0, <2>1 DEF StaticBearerAnswer, BearerToken
  <2> QED  BY <1>2, <1>s, <2>2 DEF Vouches
<1>3. CASE b.kind = "api-key"
  <2>1. Found(identity) = ApiKeyAnswer(b, w)
    BY <1>3 DEF Answers
  <2>2. ExtractKey(b, w) \in DOMAIN ApiKeys /\ ApiKeys[ExtractKey(b, w)] = Found(identity)
    BY <1>0, <2>1 DEF ApiKeyAnswer
  <2> QED  BY <1>3, <2>2 DEF Vouches
<1>4. CASE b.kind = "jwt"
  BY <1>4, TokenVouches
<1> QED  BY <1>1, <1>2, <1>3, <1>4

(* Whoever a guarded handler acts for was proven to a backend of the        *)
(* route's own chain: no token passes with an algorithm its key is not for, *)
(* with another's signature, under a key that was replaced, or expired      *)
(* (JwtBackend, KeyResolver, JwksKeyStore).                                 *)
THEOREM ProvenIdentities == Spec => []IdentitiesAreProven
<1>1. IInv /\ AInv => IdentitiesAreProven
  <2> SUFFICES ASSUME IInv, AInv, NEW r \in Requests, PastLayers(r), Guarded(r), IdentityOf(r) # None
               PROVE  \E b \in Range(OwnChain(r).backends) : Vouches(b, wire[r], IdentityOf(r))
    BY DEF IdentitiesAreProven
  <2>1. Admits(OwnChain(r), wire[r], IdentityOf(r))
    BY PastIsWithin DEF Account, Vetted
  <2>2. PICK i \in DOMAIN OwnChain(r).backends :
            Found(IdentityOf(r)) \in Answers(OwnChain(r).backends[i], wire[r])
    BY <2>1 DEF Admits
  <2>3. OwnChain(r).backends[i] \in Range(OwnChain(r).backends)
    BY DEF Range
  <2>4. OwnChain(r).backends[i].kind \in {"basic-auth", "static-bearer", "api-key", "jwt"}
    BY <2>3, FramedStack, ChainAssumption
  <2> QED  BY <2>2, <2>3, <2>4, BackendVouches
<1> QED  BY <1>1, AccountsInvariance, PTL

=============================================================================
