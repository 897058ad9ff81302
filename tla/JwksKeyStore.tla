----------------------------- MODULE JwksKeyStore -----------------------------
(***************************************************************************)
(* The JWKS key store of auth/backends/jwt.rs: a snapshot of an identity   *)
(* provider's published keys, refreshed on demand.                         *)
(*                                                                         *)
(* An actor is one call of `find_key`.  A call that finds the snapshot     *)
(* stale queues for the single permit of `fetch_lock`, looks again, and    *)
(* spawns a task that fetches, prepares and publishes a snapshot.  The     *)
(* task belongs to the runtime: a caller that goes away gives its permit   *)
(* back and leaves its task running.  A call spawns at most one task, so   *)
(* `task[c]` is the task of call c.                                        *)
(***************************************************************************)
EXTENDS Naturals, FiniteSets

CONSTANTS
    Calls,          \* the calls of find_key
    KidOf,          \* the key id each call looks for
    Published,      \* Published[r]: the usable keys at the endpoint after r rotations
    Rotations,      \* bound: how often the endpoint changes its keys
    Nobody,         \* the permit is free
    MayDrop         \* whether a caller may drop its future at an await

ASSUME JwksAssumption ==
    /\ Nobody \notin Calls
    /\ Rotations \in Nat
    /\ DOMAIN Published = 0..Rotations
    /\ DOMAIN KidOf = Calls
    /\ MayDrop \in BOOLEAN

VARIABLES
    cached,     \* the snapshot in the ArcSwap
    permit,     \* who holds the permit of fetch_lock
    rotation,   \* the endpoint: the number of rotations so far
    pc,         \* where each call is
    task,       \* the fetch task of each call
    answer      \* what a call found

vars == <<cached, permit, rotation, pc, task, answer>>

Revisions == 0..Rotations

Snapshots == [state : {"none", "fresh", "stale"}, rev : Revisions]

Tasks == [state : {"none", "request", "publish", "done", "failed"}, rev : Revisions]

Running == {"request", "publish"}

TypeOK ==
    /\ cached \in Snapshots
    /\ permit \in Calls \cup {Nobody}
    /\ rotation \in Revisions
    /\ pc \in [Calls -> {"new", "lookup", "acquire", "recheck", "spawn", "await",
                         "returned", "dropped"}]
    /\ task \in [Calls -> Tasks]
    /\ answer \in [Calls -> {"none", "key", "not_found", "error"}]

Init ==
    /\ cached = [state |-> "none", rev |-> 0]
    /\ permit = Nobody
    /\ rotation = 0
    /\ pc = [c \in Calls |-> "new"]
    /\ task = [c \in Calls |-> [state |-> "none", rev |-> 0]]
    /\ answer = [c \in Calls |-> "none"]

-----------------------------------------------------------------------------
Goto(c, place) == pc' = [pc EXCEPT ![c] = place]

Return(c, a) ==
    /\ Goto(c, "returned")
    /\ answer' = [answer EXCEPT ![c] = a]

(* keys.get(kid) in the snapshot of a revision.                             *)
FindIn(c, r) == IF KidOf[c] \in Published[r] THEN "key" ELSE "not_found"

(* _fetch_guard goes out of scope.                                          *)
Release(c) == permit' = IF permit = c THEN Nobody ELSE permit

Start(c) ==
    /\ pc[c] = "new"
    /\ Goto(c, "lookup")
    /\ UNCHANGED <<cached, permit, rotation, task, answer>>

(* Hit and FreshButMissing both answer from a fresh snapshot.               *)
LookupFresh(c) ==
    /\ pc[c] \in {"lookup", "recheck"}
    /\ cached.state = "fresh"
    /\ Return(c, FindIn(c, cached.rev))
    /\ Release(c)
    /\ UNCHANGED <<cached, rotation, task>>

LookupStale(c) ==
    /\ pc[c] = "lookup"
    /\ cached.state # "fresh"
    /\ Goto(c, "acquire")
    /\ UNCHANGED <<cached, permit, rotation, task, answer>>

(* Mutant: fetch_lock lets everybody in.                                    *)
AcquireShared(c) ==
    /\ pc[c] = "acquire"
    /\ permit' = c
    /\ Goto(c, "recheck")
    /\ UNCHANGED <<cached, rotation, task, answer>>

Acquire(c) ==
    /\ pc[c] = "acquire"
    /\ permit = Nobody
    /\ permit' = c
    /\ Goto(c, "recheck")
    /\ UNCHANGED <<cached, rotation, task, answer>>

(* Mutant: no second look under the permit.                                 *)
SkipRecheck(c) ==
    /\ pc[c] = "recheck"
    /\ Goto(c, "spawn")
    /\ UNCHANGED <<cached, permit, rotation, task, answer>>

RecheckStale(c) ==
    /\ pc[c] = "recheck"
    /\ cached.state # "fresh"
    /\ Goto(c, "spawn")
    /\ UNCHANGED <<cached, permit, rotation, task, answer>>

(* Mutant: the permit is given back once the fetch runs.                    *)
SpawnAndRelease(c) ==
    /\ pc[c] = "spawn"
    /\ task' = [task EXCEPT ![c].state = "request"]
    /\ Goto(c, "await")
    /\ Release(c)
    /\ UNCHANGED <<cached, rotation, answer>>

Spawn(c) ==
    /\ pc[c] = "spawn"
    /\ task' = [task EXCEPT ![c].state = "request"]
    /\ Goto(c, "await")
    /\ UNCHANGED <<cached, permit, rotation, answer>>

(* Mutant: the permit is forgotten when the fetch has failed.               *)
JoinAndKeep(c) ==
    /\ pc[c] = "await"
    /\ task[c].state \in {"done", "failed"}
    /\ Return(c, IF task[c].state = "done" THEN FindIn(c, task[c].rev) ELSE "error")
    /\ IF task[c].state = "done" THEN Release(c) ELSE UNCHANGED permit
    /\ UNCHANGED <<cached, rotation, task>>

(* The JoinHandle yields.  The call answers from the snapshot its own task  *)
(* prepared, not from the one now in the cache.                             *)
Join(c) ==
    /\ pc[c] = "await"
    /\ task[c].state \in {"done", "failed"}
    /\ Return(c, IF task[c].state = "done" THEN FindIn(c, task[c].rev) ELSE "error")
    /\ Release(c)
    /\ UNCHANGED <<cached, rotation, task>>

-----------------------------------------------------------------------------
(* The spawned task                                                         *)

(* fetch_jwks returns: the endpoint answered with the keys it has now.      *)
Fetched(c) ==
    /\ task[c].state = "request"
    /\ task' = [task EXCEPT ![c] = [state |-> "publish", rev |-> rotation]]
    /\ UNCHANGED <<cached, permit, rotation, pc, answer>>

(* Transport error, timeout, status, body cap, undecodable document, panic. *)
FetchFails(c) ==
    /\ task[c].state = "request"
    /\ task' = [task EXCEPT ![c].state = "failed"]
    /\ UNCHANGED <<cached, permit, rotation, pc, answer>>

(* prepare_jwks stamps fetched_at and the snapshot replaces the cached one. *)
Publish(c) ==
    /\ task[c].state = "publish"
    /\ cached' = [state |-> "fresh", rev |-> task[c].rev]
    /\ task' = [task EXCEPT ![c].state = "done"]
    /\ UNCHANGED <<permit, rotation, pc, answer>>

-----------------------------------------------------------------------------
(* Around the calls                                                         *)

(* Mutant: the fetch is part of the caller's future and goes with it.       *)
DropWithTask(c) ==
    /\ MayDrop
    /\ pc[c] \in {"acquire", "await"}
    /\ Goto(c, "dropped")
    /\ Release(c)
    /\ task' = [task EXCEPT ![c].state = "none"]
    /\ UNCHANGED <<cached, rotation, answer>>

Drop(c) ==
    /\ MayDrop
    /\ pc[c] \in {"acquire", "await"}
    /\ Goto(c, "dropped")
    /\ Release(c)
    /\ UNCHANGED <<cached, rotation, task, answer>>

(* fetched_at.elapsed() reaches cache_ttl.                                  *)
Age ==
    /\ cached.state = "fresh"
    /\ cached' = [cached EXCEPT !.state = "stale"]
    /\ UNCHANGED <<permit, rotation, pc, task, answer>>

Rotate ==
    /\ rotation < Rotations
    /\ rotation' = rotation + 1
    /\ UNCHANGED <<cached, permit, pc, task, answer>>

-----------------------------------------------------------------------------
CallStep(c) ==
    \/ LookupFresh(c) \/ LookupStale(c) \/ Acquire(c) \/ RecheckStale(c)
    \/ Spawn(c) \/ Join(c)

TaskStep(c) == Fetched(c) \/ FetchFails(c) \/ Publish(c)

Next ==
    \/ \E c \in Calls : Start(c) \/ CallStep(c) \/ TaskStep(c) \/ Drop(c)
    \/ Age \/ Rotate

Spec == Init /\ [][Next]_vars

(* The runtime polls what is ready and the HTTP client has a timeout; the   *)
(* semaphore serves its queue, so a caller that can have the permit again   *)
(* and again gets it.                                                       *)
FairSpec ==
    /\ Spec
    /\ \A c \in Calls : WF_vars(CallStep(c)) /\ SF_vars(Acquire(c)) /\ WF_vars(TaskStep(c))

-----------------------------------------------------------------------------
(* Properties                                                               *)

(* fetch_lock: of the fetches whose caller still waits, at most one is      *)
(* running; every other running fetch was left behind by a dropped caller.  *)
OneAttendedFetch ==
    \A c, d \in Calls :
        /\ task[c].state \in Running /\ pc[c] # "dropped"
        /\ task[d].state \in Running /\ pc[d] # "dropped"
        => c = d

(* A fresh snapshot is not fetched again: while a fetch is under way, only  *)
(* a fetch left behind by a dropped caller can have made the snapshot fresh.*)
FetchOnlyIfStale ==
    (\A c \in Calls : pc[c] # "dropped") =>
        \A c \in Calls : task[c].state \in Running => cached.state # "fresh"

(* find_key answers from the keys its own task prepared, without a third    *)
(* look at the snapshot: those are the cached keys, fresh or not, when the  *)
(* caller takes them, unless a dropped caller left a fetch behind.          *)
JoinedKeysAreCached ==
    (\A d \in Calls : pc[d] = "dropped" => task[d].state = "none") =>
        \A c \in Calls : pc[c] = "await" /\ task[c].state = "done"
                            => cached.state # "none" /\ cached.rev = task[c].rev

(* ArcSwap::store in the task: the cached keys go back to an older          *)
(* revision only if some dropped caller left a fetch behind.                *)
KeysRegressOnlyAfterDrop ==
    [][\A c \in Calls :
          task[c].state = "publish" /\ task'[c].state = "done" /\ task[c].rev < cached.rev
          => \E d \in Calls : pc[d] = "dropped" /\ task[d].state # "none"]_vars

(* find_key: every caller gets its answer or goes away itself; a failed     *)
(* fetch, a dropped leader or a follower that gives up blocks nobody.       *)
CallsAnswered ==
    \A c \in Calls : pc[c] = "lookup" ~> (answer[c] # "none" \/ pc[c] = "dropped")

(* "If our caller is cancelled, the spawned task continues to completion":  *)
(* a fetch once spawned ends by itself, wherever its caller has gone.       *)
SpawnedFetchLands ==
    \A c \in Calls : task[c].state \in Running ~> task[c].state \in {"done", "failed"}

=============================================================================
