---------------------------- MODULE ResponseCache ----------------------------
(***************************************************************************)
(* Whole responses in an ObjectCache (cached_get and its middleware in      *)
(* cache.rs) over each of its backends: moka in the process, Redis, and     *)
(* Memcached, whose one stream per server is shared under a lock.           *)
(*                                                                         *)
(* A response is the request whose handler made it and what                 *)
(* should_store_response looks at.  Time is a clock of half seconds, so     *)
(* that a time to live may be under a second.                               *)
(***************************************************************************)
EXTENDS Naturals, Sequences

CONSTANTS
    None,
    Requests,   \* the requests of one cached route
    Wires,      \* assignments of [method, path, authorization, vary] to them
    Policies,   \* [ttl, scope, max_body_bytes, vary]
    Outcomes,   \* [status, no_store, set_cookie, size]: what the handler may answer
    Backends,   \* of "memory", "redis", "memcached"
    Servers,    \* number of Memcached servers
    KeyHash(_), \* stable_hash of a key
    StableHash, \* Authorization value -> its stable_hash
    LongPaths,  \* paths whose keys exceed 250 bytes
    MaxClock    \* bound

HalfSecondsPerSecond == 2

(* response_cache_key: an absent header varies like an empty one.           *)
ResponseCacheKey(w, p) ==
    <<w.method, w.path, IF p.scope = "public" THEN "public" ELSE StableHash[w.authorization],
      IF p.vary /\ w.vary # None THEN w.vary ELSE "">>

Cacheable(w, p) == p.scope = "public" \/ w.authorization # None

(* Two Authorization values share no hash.                                  *)
ASSUME ResponseCacheAssumption ==
    /\ Servers \in Nat \ {0} /\ MaxClock \in Nat
    /\ None \notin Requests
    /\ \A p \in Policies : p.ttl \in Nat \ {0}
    /\ \A a, b \in DOMAIN StableHash : StableHash[a] = StableHash[b] => a = b
    /\ \A ws \in Wires, r \in Requests : ws[r].authorization \in DOMAIN StableHash \cup {None}
    /\ \A ws \in Wires, p \in Policies, r \in Requests :
        Cacheable(ws[r], p) => KeyHash(ResponseCacheKey(ws[r], p)) \in Nat

VARIABLES
    backend, policy, wire,  \* chosen at the start
    clock,      \* the time
    pc,         \* where each request is
    store,      \* what the backend holds: a set of [key, response, stored, expires]
    holder,     \* the request that has a server's stream locked
    unread,     \* the replies a server has sent and nobody has read
    broken,     \* servers whose stream failed; it is never connected again
    abandoned,  \* servers whose lock was given back before the reply was read
    reply,      \* the last reply that each request read
    response,   \* what the client got, or what the handler made so far
    served      \* for a hit, the entry and when the backend looked it up

setup == <<backend, policy, wire>>
streams == <<holder, unread, broken, abandoned, reply>>
vars == <<setup, clock, pc, store, streams, response, served>>

-----------------------------------------------------------------------------
KeyOf(r) == ResponseCacheKey(wire[r], policy)

HasKey(r) == Cacheable(wire[r], policy)

IsCacheableMethod(method) == method \in {"GET", "HEAD"}

(* namespaced_key refuses it, for reading and for writing.                  *)
ValidKey(r) == wire[r].path \notin LongPaths

IsSuccess(status) == status \in 200..299

ShouldStore(outcome) ==
    /\ IsSuccess(outcome.status)
    /\ outcome.size <= policy.max_body_bytes
    /\ ~outcome.no_store
    /\ ~outcome.set_cookie

(* Redis and Memcached keep whole seconds, and at least one.                *)
Lifetime ==
    LET seconds == policy.ttl \div HalfSecondsPerSecond
    IN  IF backend = "memory" THEN policy.ttl
        ELSE HalfSecondsPerSecond * (IF seconds = 0 THEN 1 ELSE seconds)

ServerForKey(key) == (KeyHash(key) % Servers) + 1

ServerOf(r) == ServerForKey(KeyOf(r))

Fresh(entry) == entry.expires > clock

(* Mutant: an entry still counts at the instant it expires.                 *)
LookupLate(r) ==
    LET entries == {e \in store : e.key = KeyOf(r) /\ e.expires >= clock}
    IN  IF entries = {} THEN None ELSE CHOOSE e \in entries : TRUE

(* The fresh entry of the request's key, or None.                           *)
Lookup(r) ==
    LET entries == {e \in store : e.key = KeyOf(r) /\ Fresh(e)}
    IN  IF entries = {} THEN None ELSE CHOOSE e \in entries : TRUE

Entry(r) ==
    [key |-> KeyOf(r), response |-> response[r], stored |-> clock,
     expires |-> clock + Lifetime]

Stored(r) == {e \in store : e.key # KeyOf(r)} \cup {Entry(r)}

-----------------------------------------------------------------------------
Init ==
    /\ backend \in Backends /\ policy \in Policies /\ wire \in Wires
    /\ clock = 0
    /\ pc = [r \in Requests |-> "new"]
    /\ store = {}
    /\ holder = [s \in 1..Servers |-> None]
    /\ unread = [s \in 1..Servers |-> <<>>]
    /\ broken = {} /\ abandoned = {}
    /\ reply = [r \in Requests |-> None]
    /\ response = [r \in Requests |-> None]
    /\ served = [r \in Requests |-> None]

Goto(r, label) == pc' = [pc EXCEPT ![r] = label]

(* Requests without a key run the handler unseen by the cache; a key that   *)
(* the backend would refuse reads as a failure.                             *)
Begin(r) ==
    /\ pc[r] = "new"
    /\ Goto(r, IF ~IsCacheableMethod(wire[r].method) \/ ~HasKey(r) THEN "bypass"
               ELSE IF ValidKey(r) THEN "get" ELSE "handler")
    /\ UNCHANGED <<setup, clock, store, streams, response, served>>

(* cached_response *)
Hit(r, entry, at) ==
    /\ response' = [response EXCEPT ![r] = [entry.response EXCEPT !.x_cache = "HIT"]]
    /\ served' = [served EXCEPT ![r] = [at |-> at, entry |-> entry]]
    /\ Goto(r, "done")

(* A read that yields an entry answers; a miss or a failure goes on.        *)
Answer(r, entry, at) ==
    IF entry # None THEN Hit(r, entry, at)
    ELSE Goto(r, "handler") /\ UNCHANGED <<response, served>>

(* The answer of moka, or of Redis over its multiplexed connection.         *)
Get(r) ==
    /\ pc[r] = "get" /\ backend # "memcached"
    /\ Answer(r, Lookup(r), clock)
    /\ UNCHANGED <<setup, clock, store, streams>>

RedisGetFails(r) ==
    /\ pc[r] = "get" /\ backend = "redis"
    /\ Goto(r, "handler")
    /\ UNCHANGED <<setup, clock, store, streams, response, served>>

-----------------------------------------------------------------------------
(* Mutant: the lock is given back with the command sent.                    *)
SendUnlocked(r, answer) ==
    /\ ServerOf(r) \notin broken
    /\ unread' = [unread EXCEPT ![ServerOf(r)] =
            Append(@, [to |-> r, entry |-> answer, at |-> clock])]
    /\ UNCHANGED <<holder, broken, abandoned, reply>>

(* A Memcached command: the stream is locked and the command sent, and the  *)
(* server's reply follows those that are still unread.                      *)

Send(r, answer) ==
    /\ holder[ServerOf(r)] = None /\ ServerOf(r) \notin broken
    /\ holder' = [holder EXCEPT ![ServerOf(r)] = r]
    /\ unread' = [unread EXCEPT ![ServerOf(r)] =
            Append(@, [to |-> r, entry |-> answer, at |-> clock])]
    /\ UNCHANGED <<broken, abandoned, reply>>

SendGet(r) ==
    /\ pc[r] = "get" /\ backend = "memcached"
    /\ Send(r, Lookup(r))
    /\ Goto(r, "await_get")
    /\ UNCHANGED <<setup, clock, store, response, served>>

SendSet(r) ==
    /\ pc[r] = "set" /\ backend = "memcached"
    /\ Send(r, None)
    /\ store' = Stored(r)
    /\ Goto(r, "await_set")
    /\ UNCHANGED <<setup, clock, response, served>>

Unlock(r) == holder' = [holder EXCEPT ![ServerOf(r)] = None]

(* The first unread reply is taken for the command's own.                   *)
Receive(r) ==
    /\ unread[ServerOf(r)] # <<>>
    /\ reply' = [reply EXCEPT ![r] = Head(unread[ServerOf(r)])]
    /\ unread' = [unread EXCEPT ![ServerOf(r)] = Tail(@)]
    /\ Unlock(r)
    /\ UNCHANGED <<broken, abandoned>>

ReceiveValue(r) ==
    /\ pc[r] = "await_get"
    /\ Receive(r)
    /\ LET first == Head(unread[ServerOf(r)]) IN Answer(r, first.entry, first.at)
    /\ UNCHANGED <<setup, clock, store>>

(* Mutant: a failed command leaves the stream locked.                       *)
CommandFailsLocked(r) ==
    /\ pc[r] \in {"get", "await_get", "set", "await_set"} /\ backend = "memcached"
    /\ holder[ServerOf(r)] \in {None, r} /\ ServerOf(r) \in broken
    /\ Goto(r, IF pc[r] \in {"get", "await_get"} THEN "handler" ELSE "done")
    /\ holder' = [holder EXCEPT ![ServerOf(r)] = r]
    /\ UNCHANGED <<setup, clock, store, unread, broken, abandoned, reply, response, served>>

(* On a broken stream every command fails once it has the lock.             *)
CommandFails(r) ==
    /\ pc[r] \in {"get", "await_get", "set", "await_set"} /\ backend = "memcached"
    /\ holder[ServerOf(r)] \in {None, r} /\ ServerOf(r) \in broken
    /\ Goto(r, IF pc[r] \in {"get", "await_get"} THEN "handler" ELSE "done")
    /\ Unlock(r)
    /\ UNCHANGED <<setup, clock, store, unread, broken, abandoned, reply, response, served>>

Break(s) ==
    /\ backend = "memcached" /\ s \notin broken
    /\ broken' = broken \cup {s}
    /\ UNCHANGED <<setup, clock, pc, store, holder, unread, abandoned, reply, response, served>>

-----------------------------------------------------------------------------
Made(r, outcome, x_cache) ==
    [by |-> r, outcome |-> outcome, x_cache |-> x_cache]

Bypass(r) ==
    /\ pc[r] = "bypass"
    /\ \E outcome \in Outcomes :
        response' = [response EXCEPT ![r] = Made(r, outcome, "BYPASS")]
    /\ Goto(r, "done")
    /\ UNCHANGED <<setup, clock, store, streams, served>>

(* The response is stored later, and says MISS though that may fail.        *)
Handle(r) ==
    /\ pc[r] = "handler"
    /\ \E outcome \in Outcomes :
        /\ response' = [response EXCEPT
                ![r] = Made(r, outcome, IF ShouldStore(outcome) THEN "MISS" ELSE "BYPASS")]
        /\ Goto(r, IF ShouldStore(outcome) /\ ValidKey(r) THEN "set" ELSE "done")
    /\ UNCHANGED <<setup, clock, store, streams, served>>

(* A body that fails in the middle is replaced by an empty one.             *)
BodyFails(r) ==
    /\ pc[r] = "handler"
    /\ \E outcome \in Outcomes :
        response' = [response EXCEPT ![r] = Made(r, [outcome EXCEPT !.size = 0], "BYPASS")]
    /\ Goto(r, "done")
    /\ UNCHANGED <<setup, clock, store, streams, served>>

Set(r) ==
    /\ pc[r] = "set" /\ backend # "memcached"
    /\ store' = Stored(r)
    /\ Goto(r, "done")
    /\ UNCHANGED <<setup, clock, streams, response, served>>

RedisSetFails(r) ==
    /\ pc[r] = "set" /\ backend = "redis"
    /\ Goto(r, "done")
    /\ UNCHANGED <<setup, clock, store, streams, response, served>>

ReceiveStored(r) ==
    /\ pc[r] = "await_set"
    /\ Receive(r)
    /\ Goto(r, "done")
    /\ UNCHANGED <<setup, clock, store, response, served>>

(* A deadline or the client drops the request; the lock goes with it, and   *)
(* the reply to its command stays on the stream.                            *)
Drop(r) ==
    /\ pc[r] \notin {"new", "done", "gone"}
    /\ Goto(r, "gone")
    /\ IF pc[r] \in {"await_get", "await_set"}
       THEN Unlock(r) /\ abandoned' = abandoned \cup {ServerOf(r)}
       ELSE UNCHANGED <<holder, abandoned>>
    /\ UNCHANGED <<setup, clock, store, unread, broken, reply, response, served>>

(* The backend may evict an entry at any time, and drops expired ones.      *)
Evict ==
    /\ \E e \in store : store' = store \ {e}
    /\ UNCHANGED <<setup, clock, pc, streams, response, served>>

Tick ==
    /\ clock < MaxClock
    /\ clock' = clock + 1
    /\ UNCHANGED <<setup, pc, store, streams, response, served>>

-----------------------------------------------------------------------------
Progress(r) ==
    \/ Begin(r) \/ Get(r) \/ SendGet(r) \/ ReceiveValue(r) \/ CommandFails(r)
    \/ Bypass(r) \/ Handle(r) \/ Set(r) \/ SendSet(r) \/ ReceiveStored(r)

Next ==
    \/ \E r \in Requests : \/ Progress(r) \/ Drop(r)
                           \/ RedisGetFails(r) \/ RedisSetFails(r) \/ BodyFails(r)
    \/ \E s \in 1..Servers : Break(s)
    \/ Evict \/ Tick

(* tokio's Mutex hands the lock to its waiters in turn, a server answers or *)
(* its stream fails, and handlers return.                                   *)
Fairness == \A r \in Requests : SF_vars(Progress(r))

Spec == Init /\ [][Next]_vars /\ Fairness

-----------------------------------------------------------------------------
TypeOK ==
    /\ backend \in Backends /\ policy \in Policies /\ wire \in Wires
    /\ clock \in 0..MaxClock
    /\ pc \in [Requests -> {"new", "bypass", "get", "await_get", "handler", "set", "await_set",
                            "done", "gone"}]
    /\ holder \in [1..Servers -> Requests \cup {None}]
    /\ broken \subseteq 1..Servers /\ abandoned \subseteq 1..Servers

(* The headers that the policy says a response depends on.                  *)
SameAudience(r, q) ==
    /\ wire[r].method = wire[q].method /\ wire[r].path = wire[q].path
    /\ policy.scope = "per_authorization" => wire[r].authorization = wire[q].authorization
    /\ policy.vary => {wire[r].vary, wire[q].vary} \subseteq {None, ""} \/ wire[r].vary = wire[q].vary

(* A HIT shows a response that a handler made for the same method, path,    *)
(* and headers of the policy, that may be stored, and that has been stored  *)
(* for less than its time to live (rounded to seconds on a remote backend). *)
(* The exception: a server on whose stream a reply was left unread.         *)
HitsAreOwnAndFresh ==
    \A r \in Requests : served[r] # None /\ ~(backend = "memcached" /\ ServerOf(r) \in abandoned) =>
        /\ SameAudience(r, response[r].by)
        /\ ShouldStore(response[r].outcome)
        /\ served[r].at - served[r].entry.stored < Lifetime

(* The lock keeps commands and replies of a stream in order, as long as no  *)
(* request is dropped between them: nothing skips the unread reply then.    *)
OwnRepliesUnlessDropped ==
    \A r \in Requests : reply[r] # None /\ reply[r].to # r => ServerOf(r) \in abandoned

(* The cache fails open: whatever its backend does, a request is answered   *)
(* by an entry or by its handler (response_cache_middleware).               *)
AnsweredDespiteFaults ==
    \A r \in Requests : pc[r] # "new" ~> pc[r] \in {"done", "gone"}
=============================================================================
