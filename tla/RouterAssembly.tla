--------------------------- MODULE RouterAssembly ---------------------------
(***************************************************************************)
(* build_router of plugin/engine.rs: from the layers that the plugins       *)
(* contribute, in plugin order, to the stack of layers that a request of    *)
(* each route group goes through.  A stack is a sequence of layers with the *)
(* outermost first; a layer is its slot and what it does.                   *)
(***************************************************************************)
EXTENDS Naturals, Sequences, FiniteSets, SequencesExt

TransportSecurity == 0
Logging == 10
Authentication == 20
RateLimit == 30
Transaction == 40
Custom == 50
Slots == {TransportSecurity, Logging, Authentication, RateLimit, Transaction, Custom}

Layer(slot, kind) == [slot |-> slot, kind |-> kind]
AuthLayer(chain) == [slot |-> Authentication, kind |-> "auth", chain |-> chain]
RateLimitLayer(key) == [slot |-> RateLimit, kind |-> "rate_limit", key |-> key]

(* What the plugins of middleware.rs contribute.                            *)
TransportPlugins ==
    [cors |-> <<Layer(TransportSecurity, "cors")>>,
     compression |-> <<Layer(TransportSecurity, "compression")>>,
     secure_headers |-> <<Layer(TransportSecurity, "secure_headers")>>,
     timeout |-> <<Layer(TransportSecurity, "timeout")>>]

(* The layers that the engine adds itself, outside the plugins' layers.     *)
Outer == <<Layer(Logging, "body_limit"), Layer(Logging, "logging")>>

-----------------------------------------------------------------------------
(* A layer by the plugin that contributes it and its place there.           *)
Contributed(plugins) == UNION {{p} \X DOMAIN plugins[p] : p \in DOMAIN plugins}

LayerAt(plugins, x) == plugins[x[1]][x[2]]

(* Mutant: layers stay in the order of the plugins.                         *)
PrecedesByPlugin(plugins, x, y) == x[1] < y[1] \/ (x[1] = y[1] /\ x[2] < y[2])

(* The sort is by slot, and stable: layers of one slot keep the order of    *)
(* their plugins.                                                           *)
Precedes(plugins, x, y) ==
    LET s == LayerAt(plugins, x).slot
        t == LayerAt(plugins, y).slot
    IN  \/ s < t
        \/ s = t /\ x[1] < y[1]
        \/ s = t /\ x[1] = y[1] /\ x[2] < y[2]

InSlots(plugins, slots) == {x \in Contributed(plugins) : LayerAt(plugins, x).slot \in slots}

(* How many of the layers come before one of them.                          *)
Rank(plugins, layers, x) == Cardinality({y \in layers : Precedes(plugins, y, x)})

(* The sorted layers, as far as they are in one of the slots.               *)
CollectLayers(plugins, slots) ==
    LET layers == InSlots(plugins, slots)
    IN  [n \in 1..Cardinality(layers) |->
            LayerAt(plugins, CHOOSE x \in layers : Rank(plugins, layers, x) + 1 = n)]

Transport(plugins) == CollectLayers(plugins, {TransportSecurity})

Protected(plugins) == CollectLayers(plugins, Slots \ {TransportSecurity})

(* Mutant: the chain of the route's own is added inside the others.         *)
NamedInnermost(plugins, name) ==
    CollectLayers(plugins, Slots \ {TransportSecurity, Authentication}) \o <<AuthLayer(name)>>

(* A chain of the route's own: the global one's layers are left out, and    *)
(* its own is added last, so outside all the others.                        *)
NamedProtected(plugins, name) ==
    <<AuthLayer(name)>> \o CollectLayers(plugins, Slots \ {TransportSecurity, Authentication})

Groups == {"bare", "public", "protected", "protected_with"}

Stack(plugins, route) ==
    CASE route.group = "bare" -> <<>>
      [] route.group = "public" -> Transport(plugins) \o Outer
      [] route.group = "protected" -> Transport(plugins) \o Outer \o Protected(plugins)
      [] route.group = "protected_with" ->
            Transport(plugins) \o Outer \o NamedProtected(plugins, route.chain)

(* apply_named_protected_routers panics for a name without a chain.         *)
Buildable(routes, named) ==
    \A route \in routes : route.group = "protected_with" => route.chain \in named

(* Whether the stack of a route has to authenticate, and by which chain.     *)
IsGuarded(plugins, route) ==
    \/ route.group = "protected_with"
    \/ /\ route.group = "protected"
       /\ \E x \in Contributed(plugins) : LayerAt(plugins, x).kind = "auth"

GuardOf(route) == IF route.group = "protected_with" THEN route.chain ELSE "global"

-----------------------------------------------------------------------------
(* What plugins contribute: layers of the library at the slots it names for *)
(* them, one authentication with the global chain, one rate limiter and one *)
(* transaction at most, and the application's own layers at any slot.       *)
SlotOf ==
    [cors |-> TransportSecurity, compression |-> TransportSecurity,
     secure_headers |-> TransportSecurity, timeout |-> TransportSecurity,
     auth |-> Authentication, rate_limit |-> RateLimit, transaction |-> Transaction]

Single == {"auth", "rate_limit", "transaction"}

Contributions(plugins) ==
    /\ plugins \in Seq(Range(plugins)) /\ \A layers \in Range(plugins) : layers \in Seq(Range(layers))
    /\ \A x \in Contributed(plugins) :
        LET l == LayerAt(plugins, x)
        IN  /\ l.slot \in Slots /\ l.kind \in DOMAIN SlotOf \cup {"custom"}
            /\ l.kind # "custom" => l.slot = SlotOf[l.kind]
            /\ l.kind = "auth" => l.chain = "global"
    /\ \A x, y \in Contributed(plugins) :
        LayerAt(plugins, x).kind \in Single /\ LayerAt(plugins, x).kind = LayerAt(plugins, y).kind
            => x = y
=============================================================================
