---------------------------- MODULE SecretsProvider ----------------------------
(***************************************************************************)
(* AwsSecretsProvider of aws/mod.rs: secrets cached in memory, with one    *)
(* semaphore per secret name to make concurrent misses share a fetch.  The *)
(* `inflight` map holds weak references, so a semaphore lives as long as   *)
(* some call holds it, and a map entry may name one that is dead.          *)
(*                                                                         *)
(* An actor is one call of `get_secret`.  A semaphore is created by at     *)
(* most one call and named by it.                                          *)
(***************************************************************************)
EXTENDS Naturals, FiniteSets

CONSTANTS
    Calls,      \* the calls of get_secret
    Names,      \* the secret names
    NameOf,     \* the secret each call asks for
    None,       \* no map entry, no semaphore held, no permit taken
    MayDrop     \* whether a caller may drop its future at an await

ASSUME SecretsAssumption ==
    /\ None \notin Calls
    /\ NameOf \in [Calls -> Names]
    /\ MayDrop \in BOOLEAN

VARIABLES
    cache,      \* the cached secret of each name: absent, fresh or past its TTL
    inflight,   \* the weak reference published under each name
    sem,        \* the semaphore a call holds a strong reference to
    holder,     \* who holds the permit of each semaphore
    pc          \* where each call is

vars == <<cache, inflight, sem, holder, pc>>

(* "upgrade" and "create" are get_or_create_fetch_lock under the read lock  *)
(* and under the write lock.                                                *)
TypeOK ==
    /\ cache \in [Names -> {"absent", "fresh", "stale"}]
    /\ inflight \in [Names -> Calls \cup {None}]
    /\ sem \in [Calls -> Calls \cup {None}]
    /\ holder \in [Calls -> Calls \cup {None}]
    /\ pc \in [Calls -> {"new", "read", "upgrade", "create", "acquire", "recheck",
                         "fetch", "insert", "prune", "returned", "dropped"}]

Init ==
    /\ cache = [n \in Names |-> "absent"]
    /\ inflight = [n \in Names |-> None]
    /\ sem = [c \in Calls |-> None]
    /\ holder = [c \in Calls |-> None]
    /\ pc = [c \in Calls |-> "new"]

-----------------------------------------------------------------------------
Goto(c, place) == pc' = [pc EXCEPT ![c] = place]

(* Weak::upgrade and strong_count, of the entry under a name.               *)
Alive(s) == \E d \in Calls : sem[d] = s

Live(n) == inflight[n] # None /\ Alive(inflight[n])

(* Permit and strong reference go together, in this order.                  *)
LetGo(c) ==
    /\ sem' = [sem EXCEPT ![c] = None]
    /\ holder' = [s \in Calls |-> IF holder[s] = c THEN None ELSE holder[s]]

Start(c) ==
    /\ pc[c] = "new"
    /\ Goto(c, "read")
    /\ UNCHANGED <<cache, inflight, sem, holder>>

(* Mutant: a cached secret is returned whatever its age.                    *)
ReadHitOfAnyAge(c) ==
    /\ pc[c] = "read"
    /\ cache[NameOf[c]] # "absent"
    /\ Goto(c, "returned")
    /\ UNCHANGED <<cache, inflight, sem, holder>>

ReadHit(c) ==
    /\ pc[c] = "read"
    /\ cache[NameOf[c]] = "fresh"
    /\ Goto(c, "returned")
    /\ UNCHANGED <<cache, inflight, sem, holder>>

ReadMiss(c) ==
    /\ pc[c] = "read"
    /\ cache[NameOf[c]] # "fresh"
    /\ Goto(c, "upgrade")
    /\ UNCHANGED <<cache, inflight, sem, holder>>

Upgrade(c) ==
    /\ pc[c] \in {"upgrade", "create"}
    /\ Live(NameOf[c])
    /\ sem' = [sem EXCEPT ![c] = inflight[NameOf[c]]]
    /\ Goto(c, "acquire")
    /\ UNCHANGED <<cache, inflight, holder>>

UpgradeFails(c) ==
    /\ pc[c] = "upgrade"
    /\ ~Live(NameOf[c])
    /\ Goto(c, "create")
    /\ UNCHANGED <<cache, inflight, sem, holder>>

(* Mutant: no second look under the write lock.                             *)
CreateBlindly(c) ==
    /\ pc[c] = "create"
    /\ inflight' = [inflight EXCEPT ![NameOf[c]] = c]
    /\ sem' = [sem EXCEPT ![c] = c]
    /\ Goto(c, "acquire")
    /\ UNCHANGED <<cache, holder>>

Create(c) ==
    /\ pc[c] = "create"
    /\ ~Live(NameOf[c])
    /\ inflight' = [inflight EXCEPT ![NameOf[c]] = c]
    /\ sem' = [sem EXCEPT ![c] = c]
    /\ Goto(c, "acquire")
    /\ UNCHANGED <<cache, holder>>

Acquire(c) ==
    /\ pc[c] = "acquire"
    /\ holder[sem[c]] = None
    /\ holder' = [holder EXCEPT ![sem[c]] = c]
    /\ Goto(c, "recheck")
    /\ UNCHANGED <<cache, inflight, sem>>

(* The early return lets go of the semaphore without pruning the map.       *)
RecheckHit(c) ==
    /\ pc[c] = "recheck"
    /\ cache[NameOf[c]] = "fresh"
    /\ LetGo(c)
    /\ Goto(c, "returned")
    /\ UNCHANGED <<cache, inflight>>

(* Mutant: no second look at the cache under the permit.                    *)
SkipRecheck(c) ==
    /\ pc[c] = "recheck"
    /\ Goto(c, "fetch")
    /\ UNCHANGED <<cache, inflight, sem, holder>>

RecheckMiss(c) ==
    /\ pc[c] = "recheck"
    /\ cache[NameOf[c]] # "fresh"
    /\ Goto(c, "fetch")
    /\ UNCHANGED <<cache, inflight, sem, holder>>

FetchSucceeds(c) ==
    /\ pc[c] = "fetch"
    /\ Goto(c, "insert")
    /\ UNCHANGED <<cache, inflight, sem, holder>>

(* Mutant: a failed fetch forgets the permit.                               *)
FailAndKeep(c) ==
    /\ pc[c] = "fetch"
    /\ Goto(c, "prune")
    /\ UNCHANGED <<cache, inflight, sem, holder>>

(* No such secret, no string in it, or the service fails: nothing is cached.*)
FetchYieldsNothing(c) ==
    /\ pc[c] = "fetch"
    /\ LetGo(c)
    /\ Goto(c, "prune")
    /\ UNCHANGED <<cache, inflight>>

Insert(c) ==
    /\ pc[c] = "insert"
    /\ cache' = [cache EXCEPT ![NameOf[c]] = "fresh"]
    /\ LetGo(c)
    /\ Goto(c, "prune")
    /\ UNCHANGED inflight

(* Mutant: the entry is removed although others still hold the semaphore.   *)
PruneAlways(c) ==
    /\ pc[c] = "prune"
    /\ inflight' = [inflight EXCEPT ![NameOf[c]] = None]
    /\ Goto(c, "returned")
    /\ UNCHANGED <<cache, sem, holder>>

Prune(c) ==
    /\ pc[c] = "prune"
    /\ inflight' = [inflight EXCEPT ![NameOf[c]] = IF Live(NameOf[c]) THEN @ ELSE None]
    /\ Goto(c, "returned")
    /\ UNCHANGED <<cache, sem, holder>>

-----------------------------------------------------------------------------
(* The caller goes away at an await; what it holds is released on drop.     *)
Drop(c) ==
    /\ MayDrop
    /\ pc[c] \notin {"new", "returned", "dropped"}
    /\ LetGo(c)
    /\ Goto(c, "dropped")
    /\ UNCHANGED <<cache, inflight>>

Age(n) ==
    /\ cache[n] = "fresh"
    /\ cache' = [cache EXCEPT ![n] = "stale"]
    /\ UNCHANGED <<inflight, sem, holder, pc>>

-----------------------------------------------------------------------------
CallStep(c) ==
    \/ ReadHit(c) \/ ReadMiss(c) \/ Upgrade(c) \/ UpgradeFails(c) \/ Create(c)
    \/ Acquire(c) \/ RecheckHit(c) \/ RecheckMiss(c) \/ FetchSucceeds(c)
    \/ FetchYieldsNothing(c) \/ Insert(c) \/ Prune(c)

Next ==
    \/ \E c \in Calls : Start(c) \/ CallStep(c) \/ Drop(c)
    \/ \E n \in Names : Age(n)

Spec == Init /\ [][Next]_vars

(* A polled future advances, the service answers or times out, and the      *)
(* semaphore serves its waiters in order.                                   *)
FairSpec == Spec /\ \A c \in Calls : WF_vars(CallStep(c)) /\ SF_vars(Acquire(c))

-----------------------------------------------------------------------------
(* Properties                                                               *)

Fetching == {"fetch", "insert"}

(* "exactly one request fetches from AWS while the rest wait": at no time   *)
(* do two calls fetch one secret, although semaphores of the same name come *)
(* and go.                                                                  *)
OneFetchPerSecret ==
    \A c, d \in Calls :
        pc[c] \in Fetching /\ pc[d] \in Fetching /\ NameOf[c] = NameOf[d] => c = d

(* get_or_create_fetch_lock: all calls for a secret that hold a semaphore   *)
(* hold the same one, and it is the one newcomers find in the map.          *)
OneSemaphorePerSecret ==
    \A c \in Calls : sem[c] # None => inflight[NameOf[c]] = sem[c]

(* The second look at the cache, under the permit: no secret is fetched     *)
(* while a fresh value of it is cached.                                     *)
NoFetchOfFreshSecret ==
    \A c \in Calls : pc[c] \in Fetching => cache[NameOf[c]] # "fresh"

(* get_secret: every caller returns unless it goes away itself.             *)
CallsReturn == \A c \in Calls : pc[c] = "read" ~> pc[c] \in {"returned", "dropped"}

(* What a caller sees of its own call.                                      *)
StatusAt(place) ==
    CASE place = "new" -> "idle"
      [] place \in {"read", "upgrade", "create", "acquire", "recheck"} -> "waiting"
      [] place \in Fetching -> "fetching"
      [] place \in {"prune", "returned"} -> "done"
      [] place = "dropped" -> "gone"

status == [c \in Calls |-> StatusAt(pc[c])]

Promise == INSTANCE CoalescedFetch WITH Callers <- Calls, entry <- cache

(* "exactly one request fetches from AWS while the rest wait for the        *)
(* refreshed value": get_secret with its semaphores behaves like a cache    *)
(* whose callers are served from a fresh entry or from their own fetch,     *)
(* which begins only while none of that secret is under way.                *)
KeepsPromise == Promise!Spec

=============================================================================
