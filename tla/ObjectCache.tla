----------------------------- MODULE ObjectCache -----------------------------
(***************************************************************************)
(* The object cache of cache.rs: typed reads and writes over a backend,    *)
(* and `get_or_load`, which coalesces concurrent misses of one key.        *)
(*                                                                         *)
(* An actor is one call of `get_or_load`, a future polled on some runtime  *)
(* thread.  The steps of a call are the pieces of its code between two     *)
(* points at which another thread can be seen: an await, a critical        *)
(* section of the `in_flight` mutex, and the reading of the clock.  A      *)
(* Notify is created by at most one call, so the call names it: `arc[c]`   *)
(* is the Notify that call c cloned, and `in_flight[k]` the one published  *)
(* for key k.                                                              *)
(*                                                                         *)
(* The value cached under a key is abstracted to the version of the        *)
(* upstream record it was computed from.                                   *)
(***************************************************************************)
EXTENDS Naturals, FiniteSets

CONSTANTS
    Calls,        \* the calls of get_or_load
    Keys,         \* the cache keys, after namespacing
    KeyOf,        \* the key each call asks for
    NoCall,       \* no Notify is published, or none is held
    MaxVersion,   \* bound: the upstream record of a key changes this often
    MayDrop       \* whether a caller may drop its future at an await

ASSUME CallAssumption ==
    /\ NoCall \notin Calls
    /\ KeyOf \in [Calls -> Keys]
    /\ MaxVersion \in Nat
    /\ MayDrop \in BOOLEAN

VARIABLES
    single_flight,  \* CacheConfig.single_flight, fixed when the cache is built
    cache,          \* what the backend stores under each key
    in_flight,      \* the map from a key to the Notify of its leader
    version,        \* upstream: the current version of each key's record
    pc,             \* where each call is
    arc,            \* the Notify a follower cloned out of in_flight
    value           \* the version a leader loaded, until it is stored

vars == <<single_flight, cache, in_flight, version, pc, arc, value>>

Entry == [state : {"absent", "fresh", "expired"},
          version : Nat,
          by : {"loader", "app"}]

Absent == [state |-> "absent", version |-> 0, by |-> "app"]

Fresh(v, who) == [state |-> "fresh", version |-> v, by |-> who]

(***************************************************************************)
(* "new"     not called yet            "get"     about to read the backend *)
(* "evict"   read an expired entry     "miss"    before in_flight.lock()   *)
(* "cloned"  holds an Arc<Notify>, has not called notified() yet           *)
(* "asleep"  registered with the Notify                                    *)
(* "load", "store", "finish"  runs the loader, writes the value, is about  *)
(*           to remove its entry       "notify"  before notify_waiters()   *)
(* "failed"  its read failed, and get_or_load returned that error          *)
(***************************************************************************)
Leading == {"load", "store", "finish"}

AtAwait == {"get", "evict", "miss", "asleep"} \cup Leading

Places == AtAwait \cup {"new", "cloned", "notify", "returned", "failed", "dropped"}

TypeOK ==
    /\ single_flight \in BOOLEAN
    /\ cache \in [Keys -> Entry]
    /\ in_flight \in [Keys -> Calls \cup {NoCall}]
    /\ version \in [Keys -> Nat]
    /\ pc \in [Calls -> Places]
    /\ arc \in [Calls -> Calls \cup {NoCall}]
    /\ value \in [Calls -> Nat]

Init ==
    /\ single_flight \in BOOLEAN
    /\ cache = [k \in Keys |-> Absent]
    /\ in_flight = [k \in Keys |-> NoCall]
    /\ version = [k \in Keys |-> 0]
    /\ pc = [c \in Calls |-> "new"]
    /\ arc = [c \in Calls |-> NoCall]
    /\ value = [c \in Calls |-> 0]

Goto(c, place) == pc' = [pc EXCEPT ![c] = place]

Return(c) == Goto(c, "returned")

-----------------------------------------------------------------------------
(* Reading: ObjectCache::get over the in-process backend                    *)

Start(c) ==
    /\ pc[c] = "new"
    /\ Goto(c, "get")
    /\ UNCHANGED <<single_flight, cache, in_flight, version, arc, value>>

(* Mutant: a hit is anything that is stored.                                *)
GetHitOfAnyAge(c) ==
    /\ pc[c] = "get"
    /\ cache[KeyOf[c]].state # "absent"
    /\ Return(c)
    /\ UNCHANGED <<single_flight, cache, in_flight, version, arc, value>>

(* A hit returns at once.  An entry that is stored but expired is noticed   *)
(* by comparing the clock with expires_at after the read.                   *)
GetHit(c) ==
    /\ pc[c] = "get"
    /\ cache[KeyOf[c]].state = "fresh"
    /\ Return(c)
    /\ UNCHANGED <<single_flight, cache, in_flight, version, arc, value>>

AfterMiss == IF single_flight THEN "miss" ELSE "load"

GetMiss(c) ==
    /\ pc[c] = "get"
    /\ cache[KeyOf[c]].state = "absent"
    /\ Goto(c, AfterMiss)
    /\ UNCHANGED <<single_flight, cache, in_flight, version, arc, value>>

GetExpired(c) ==
    /\ pc[c] = "get"
    /\ cache[KeyOf[c]].state = "expired"
    /\ Goto(c, "evict")
    /\ UNCHANGED <<single_flight, cache, in_flight, version, arc, value>>

(* invalidate(key) removes whatever is stored under the key by now.         *)
EvictExpired(c) ==
    /\ pc[c] = "evict"
    /\ cache' = [cache EXCEPT ![KeyOf[c]] = Absent]
    /\ Goto(c, AfterMiss)
    /\ UNCHANGED <<single_flight, in_flight, version, arc, value>>

(* The backend fails or the stored bytes do not decode.                     *)
GetFails(c) ==
    /\ pc[c] = "get"
    /\ Goto(c, "failed")
    /\ UNCHANGED <<single_flight, cache, in_flight, version, arc, value>>

-----------------------------------------------------------------------------
(* The in_flight map: leader or follower                                    *)

(* Mutant: the entry is published without looking whether one is there.     *)
BecomeLeaderBlindly(c) ==
    /\ pc[c] = "miss"
    /\ in_flight' = [in_flight EXCEPT ![KeyOf[c]] = c]
    /\ Goto(c, "load")
    /\ UNCHANGED <<single_flight, cache, version, arc, value>>

BecomeLeader(c) ==
    /\ pc[c] = "miss"
    /\ in_flight[KeyOf[c]] = NoCall
    /\ in_flight' = [in_flight EXCEPT ![KeyOf[c]] = c]
    /\ Goto(c, "load")
    /\ UNCHANGED <<single_flight, cache, version, arc, value>>

(* Mutant: the follower polls the backend instead of waiting.               *)
PollAsFollower(c) ==
    /\ pc[c] = "miss"
    /\ in_flight[KeyOf[c]] # NoCall
    /\ Goto(c, "get")
    /\ UNCHANGED <<single_flight, cache, in_flight, version, arc, value>>

BecomeFollower(c) ==
    /\ pc[c] = "miss"
    /\ in_flight[KeyOf[c]] # NoCall
    /\ arc' = [arc EXCEPT ![c] = in_flight[KeyOf[c]]]
    /\ Goto(c, "cloned")
    /\ UNCHANGED <<single_flight, cache, in_flight, version, value>>

(* notified() registers the follower; tokio's notify_waiters wakes only     *)
(* those registered when it is called and stores no permit for later ones.  *)
Register(c) ==
    /\ pc[c] = "cloned"
    /\ Goto(c, "asleep")
    /\ UNCHANGED <<single_flight, cache, in_flight, version, arc, value>>

(* Mutant: the leader gives its entry up before it stores the value.        *)
LoadSucceedsAndLetsIn(c) ==
    /\ pc[c] = "load"
    /\ value' = [value EXCEPT ![c] = version[KeyOf[c]]]
    /\ in_flight' = [in_flight EXCEPT ![KeyOf[c]] = NoCall]
    /\ Goto(c, "store")
    /\ UNCHANGED <<single_flight, cache, version, arc>>

LoadSucceeds(c) ==
    /\ pc[c] = "load"
    /\ value' = [value EXCEPT ![c] = version[KeyOf[c]]]
    /\ Goto(c, "store")
    /\ UNCHANGED <<single_flight, cache, in_flight, version, arc>>

(* With its result decided, good or bad, a leader goes on to remove its     *)
(* entry; without single-flight the call returns.                           *)
Conclude(c) == Goto(c, IF single_flight THEN "finish" ELSE "returned")

LoadFails(c) ==
    /\ pc[c] = "load"
    /\ Conclude(c)
    /\ UNCHANGED <<single_flight, cache, in_flight, version, arc, value>>

StoreSucceeds(c) ==
    /\ pc[c] = "store"
    /\ cache' = [cache EXCEPT ![KeyOf[c]] = Fresh(value[c], "loader")]
    /\ Conclude(c)
    /\ UNCHANGED <<single_flight, in_flight, version, arc, value>>

StoreFails(c) ==
    /\ pc[c] = "store"
    /\ Conclude(c)
    /\ UNCHANGED <<single_flight, cache, in_flight, version, arc, value>>

(* finish_in_flight: the entry goes under the lock, the waiters are woken   *)
(* after it is released.                                                    *)
RemoveInFlight(c) ==
    /\ pc[c] = "finish"
    /\ in_flight' = [in_flight EXCEPT ![KeyOf[c]] = NoCall]
    /\ Goto(c, "notify")
    /\ UNCHANGED <<single_flight, cache, version, arc, value>>

Woken(c) == {d \in Calls : pc[d] = "asleep" /\ arc[d] = c}

(* Mutant: notify_one instead of notify_waiters.                            *)
NotifyOne(c) ==
    /\ pc[c] = "notify"
    /\ \E w \in Woken(c) \cup {c} :
          /\ Woken(c) # {} => w # c
          /\ pc' = [d \in Calls |-> IF d = c THEN "returned"
                                   ELSE IF d = w THEN "get" ELSE pc[d]]
          /\ arc' = [arc EXCEPT ![w] = NoCall]
    /\ UNCHANGED <<single_flight, cache, in_flight, version, value>>

NotifyWaiters(c) ==
    /\ pc[c] = "notify"
    /\ pc' = [d \in Calls |-> IF d = c THEN "returned"
                             ELSE IF d \in Woken(c) THEN "get" ELSE pc[d]]
    /\ arc' = [d \in Calls |-> IF d \in Woken(c) THEN NoCall ELSE arc[d]]
    /\ UNCHANGED <<single_flight, cache, in_flight, version, value>>

-----------------------------------------------------------------------------
(* Around the calls                                                         *)

(* The caller goes away at an await (its connection closes, a timeout layer *)
(* fires) or the loader panics: the future is dropped where it stands.      *)
(* Nothing in it runs on drop.                                              *)
Drop(c) ==
    /\ MayDrop
    /\ pc[c] \in AtAwait
    /\ Goto(c, "dropped")
    /\ UNCHANGED <<single_flight, cache, in_flight, version, arc, value>>

(* Time passes the expires_at of an entry.                                  *)
Expire(k) ==
    /\ cache[k].state = "fresh"
    /\ cache' = [cache EXCEPT ![k].state = "expired"]
    /\ UNCHANGED <<single_flight, in_flight, version, pc, arc, value>>

(* ObjectCache::delete, an eviction for lack of room, the server's own TTL. *)
Delete(k) ==
    /\ cache[k].state # "absent"
    /\ cache' = [cache EXCEPT ![k] = Absent]
    /\ UNCHANGED <<single_flight, in_flight, version, pc, arc, value>>

(* ObjectCache::set by code that holds a version it read earlier.           *)
Set(k) ==
    /\ \E v \in 0..version[k] : cache' = [cache EXCEPT ![k] = Fresh(v, "app")]
    /\ UNCHANGED <<single_flight, in_flight, version, pc, arc, value>>

UpdateUpstream(k) ==
    /\ version[k] < MaxVersion
    /\ version' = [version EXCEPT ![k] = @ + 1]
    /\ UNCHANGED <<single_flight, cache, in_flight, pc, arc, value>>

-----------------------------------------------------------------------------
CallStep(c) ==
    \/ GetHit(c) \/ GetMiss(c) \/ GetExpired(c) \/ EvictExpired(c) \/ GetFails(c)
    \/ BecomeLeader(c) \/ BecomeFollower(c) \/ Register(c)
    \/ LoadSucceeds(c) \/ LoadFails(c) \/ StoreSucceeds(c) \/ StoreFails(c)
    \/ RemoveInFlight(c) \/ NotifyWaiters(c)

Next ==
    \/ \E c \in Calls : CallStep(c) \/ Start(c) \/ Drop(c)
    \/ \E k \in Keys : Expire(k) \/ Delete(k) \/ Set(k) \/ UpdateUpstream(k)

Spec == Init /\ [][Next]_vars

(* A polled future, a backend and a loader each answer eventually; nothing  *)
(* makes a caller arrive or go away, an entry expire or the upstream change.*)
FairSpec == Spec /\ \A c \in Calls : WF_vars(CallStep(c))

-----------------------------------------------------------------------------
(* Properties                                                               *)

(* get_or_load: with single-flight on, at most one live call runs the       *)
(* loader, stores, or still owns the entry of a key, whatever the others    *)
(* do, fail at or drop.                                                     *)
OneLeaderPerKey ==
    single_flight =>
        \A c, d \in Calls :
            /\ pc[c] \in Leading /\ pc[d] \in Leading
            /\ KeyOf[c] = KeyOf[d]
            => c = d

(* finish_in_flight: the entry in in_flight under a key is the Notify of a  *)
(* call for that key that still has to remove it, or that was dropped       *)
(* before it could.  An entry never survives a call that returned.          *)
EntryHasOwner ==
    \A k \in Keys :
        in_flight[k] # NoCall =>
            /\ KeyOf[in_flight[k]] = k
            /\ pc[in_flight[k]] \in Leading \cup {"dropped"}

(* A leader's write to the backend never replaces a value that another      *)
(* loader computed from a later version of the record: loads of a key are   *)
(* stored in the order in which they read upstream.                         *)
NoOlderLoadOverNewer ==
    [][\A k \in Keys :
          /\ single_flight
          /\ cache[k].by = "loader" /\ cache[k].state # "absent"
          /\ cache'[k].by = "loader"
          => cache'[k].version >= cache[k].version]_vars

(* notify_waiters: a follower that registered before its leader notifies is *)
(* woken, unless the leader or the follower itself is dropped.              *)
RegisteredFollowersWake ==
    \A c, d \in Calls :
        (pc[c] = "asleep" /\ arc[c] = d /\ pc[d] \in Leading \cup {"notify"})
            ~> (pc[c] # "asleep" \/ pc[d] = "dropped")

Settled(c) ==
    \/ pc[c] \in {"new", "returned", "failed", "dropped"}
    \/ pc[c] = "asleep" /\ pc[arc[c]] \in {"returned", "dropped"}

(* Every call returns, unless it is dropped or sleeps on the Notify of a    *)
(* call that is over: those two are the only ways to wait for ever.         *)
CallsSettle == \A c \in Calls : <>[]Settled(c)

(* "other callers wait and then read the populated value": no call waits on *)
(* the Notify of a leader that has returned and will not notify again.      *)
NoLostWakeup == \A c \in Calls : pc[c] = "asleep" => pc[arc[c]] # "returned"

(* "other callers wait and then read the populated value": no call waits on *)
(* the Notify of a leader that was dropped, which nobody will signal.       *)
NoWaitOnDroppedLeader ==
    \A c \in Calls : pc[c] = "asleep" => pc[arc[c]] # "dropped"

-----------------------------------------------------------------------------
(* The refinement                                                           *)

StatusAt(place) ==
    CASE place = "new" -> "idle"
      [] place \in {"get", "evict", "miss", "cloned", "asleep"} -> "asking"
      [] place = "load" -> "loading"
      [] place = "store" -> "loaded"
      [] place \in {"finish", "notify", "returned"} -> "done"
      [] place = "failed" -> "failed"
      [] place = "dropped" -> "gone"

status == [c \in Calls |-> StatusAt(pc[c])]

Promise == INSTANCE LoadingCache WITH Callers <- Calls, entry <- cache

(* get_or_load keeps its promise (LoadingCache), whatever happens to the    *)
(* map and its Notifys: a caller is answered from what is fresh or by its   *)
(* own load, and loads of a key exclude each other until they are stored.   *)
KeepsPromise == Promise!Spec

=============================================================================
