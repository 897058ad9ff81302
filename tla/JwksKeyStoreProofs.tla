-------------------------- MODULE JwksKeyStoreProofs --------------------------
(***************************************************************************)
(* Theorems about JwksKeyStore, for every set of calls, every assignment   *)
(* of key ids and every number of rotations.                               *)
(***************************************************************************)
EXTENDS JwksKeyStore, TLAPS

(* From the second look to the join a call holds the permit of fetch_lock.  *)
HolderHasPermit ==
    \A c \in Calls : pc[c] \in {"recheck", "spawn", "await"} => permit = c

(* A running fetch is awaited by its caller, unless that was dropped.       *)
RunningIsAwaited ==
    \A c \in Calls : task[c].state \in Running => pc[c] \in {"await", "dropped"}

NobodyDropped == \A c \in Calls : pc[c] # "dropped"

(* What the second look saw stays true until the fetch is published.        *)
StaleUntilPublished ==
    NobodyDropped =>
        \A c \in Calls : pc[c] = "spawn" \/ task[c].state \in Running
                            => cached.state # "fresh"

IInv == TypeOK /\ HolderHasPermit /\ RunningIsAwaited /\ StaleUntilPublished

-----------------------------------------------------------------------------
LEMMA InitIInv == Init => IInv
BY JwksAssumption
DEF Init, IInv, TypeOK, HolderHasPermit, RunningIsAwaited, StaleUntilPublished, Running,
    Snapshots, Tasks, Revisions

LEMMA TypeStep == TypeOK /\ [Next]_vars => TypeOK'
<1> SUFFICES ASSUME TypeOK, [Next]_vars PROVE TypeOK'
  OBVIOUS
<1> USE JwksAssumption DEF TypeOK, Goto, Return, Release, FindIn, Snapshots, Tasks, Revisions
<1>1. CASE UNCHANGED vars
  BY <1>1 DEF vars
<1>2. ASSUME NEW c \in Calls, Start(c) \/ CallStep(c) PROVE TypeOK'
  <2>1. CASE Start(c)  BY <2>1 DEF Start
  <2>2. CASE LookupFresh(c)  BY <2>2 DEF LookupFresh
  <2>3. CASE LookupStale(c)  BY <2>3 DEF LookupStale
  <2>4. CASE Acquire(c)  BY <2>4 DEF Acquire
  <2>5. CASE RecheckStale(c)  BY <2>5 DEF RecheckStale
  <2>6. CASE Spawn(c)  BY <2>6 DEF Spawn
  <2>7. CASE Join(c)  BY <2>7 DEF Join
  <2> QED  BY <1>2, <2>1, <2>2, <2>3, <2>4, <2>5, <2>6, <2>7 DEF CallStep
<1>3. ASSUME NEW c \in Calls, TaskStep(c) PROVE TypeOK'
  <2>1. CASE Fetched(c)  BY <2>1 DEF Fetched
  <2>2. CASE FetchFails(c)  BY <2>2 DEF FetchFails
  <2>3. CASE Publish(c)  BY <2>3 DEF Publish
  <2> QED  BY <1>3, <2>1, <2>2, <2>3 DEF TaskStep
<1>4. ASSUME NEW c \in Calls, Drop(c) PROVE TypeOK'
  BY <1>4 DEF Drop
<1>5. CASE Age
  BY <1>5 DEF Age
<1>6. CASE Rotate
  BY <1>6 DEF Rotate
<1> QED  BY <1>1, <1>2, <1>3, <1>4, <1>5, <1>6 DEF Next

(* The permit moves only to a caller at the second look, and only when it   *)
(* is free.                                                                 *)
LEMMA HolderStep ==
    TypeOK /\ HolderHasPermit /\ RunningIsAwaited /\ [Next]_vars
        => HolderHasPermit' /\ RunningIsAwaited'
<1> SUFFICES ASSUME TypeOK, HolderHasPermit, RunningIsAwaited, [Next]_vars
             PROVE  HolderHasPermit' /\ RunningIsAwaited'
  OBVIOUS
<1> USE JwksAssumption DEF TypeOK, HolderHasPermit, RunningIsAwaited, Running, Goto, Return,
        Release, Tasks
<1>1. CASE UNCHANGED vars
  BY <1>1 DEF vars
<1>2. ASSUME NEW c \in Calls, Start(c) \/ CallStep(c)
      PROVE  HolderHasPermit' /\ RunningIsAwaited'
  <2>1. CASE Start(c)  BY <2>1 DEF Start
  <2>2. CASE LookupFresh(c)  BY <2>2 DEF LookupFresh
  <2>3. CASE LookupStale(c)  BY <2>3 DEF LookupStale
  <2>4. CASE Acquire(c)  BY <2>4 DEF Acquire
  <2>5. CASE RecheckStale(c)  BY <2>5 DEF RecheckStale
  <2>6. CASE Spawn(c)  BY <2>6 DEF Spawn
  <2>7. CASE Join(c)  BY <2>7 DEF Join
  <2> QED  BY <1>2, <2>1, <2>2, <2>3, <2>4, <2>5, <2>6, <2>7 DEF CallStep
<1>3. ASSUME NEW c \in Calls, TaskStep(c)
      PROVE  HolderHasPermit' /\ RunningIsAwaited'
  <2>1. CASE Fetched(c)  BY <2>1 DEF Fetched
  <2>2. CASE FetchFails(c)  BY <2>2 DEF FetchFails
  <2>3. CASE Publish(c)  BY <2>3 DEF Publish
  <2> QED  BY <1>3, <2>1, <2>2, <2>3 DEF TaskStep
<1>4. ASSUME NEW c \in Calls, Drop(c)
      PROVE  HolderHasPermit' /\ RunningIsAwaited'
  BY <1>4 DEF Drop
<1>5. CASE Age
  BY <1>5 DEF Age
<1>6. CASE Rotate
  BY <1>6 DEF Rotate
<1> QED  BY <1>1, <1>2, <1>3, <1>4, <1>5, <1>6 DEF Next

(* Only a publish makes the snapshot fresh, and a publishing caller that    *)
(* was not dropped holds the permit, so nobody else is past the second look.*)
LEMMA StaleStep == IInv /\ [Next]_vars => StaleUntilPublished'
<1> SUFFICES ASSUME IInv, [Next]_vars, NobodyDropped', NEW d \in Calls,
                    pc'[d] = "spawn" \/ task'[d].state \in Running
             PROVE  cached'.state # "fresh"
  BY DEF StaleUntilPublished
<1> USE JwksAssumption DEF IInv, TypeOK, HolderHasPermit, RunningIsAwaited, StaleUntilPublished,
        NobodyDropped, Running, Goto, Return, Release, Tasks, Snapshots
<1>1. CASE UNCHANGED vars
  BY <1>1 DEF vars
<1>2. ASSUME NEW c \in Calls, Start(c) \/ CallStep(c) PROVE cached'.state # "fresh"
  <2>1. CASE Start(c)  BY <2>1 DEF Start
  <2>2. CASE LookupFresh(c)  BY <2>2 DEF LookupFresh
  <2>3. CASE LookupStale(c)  BY <2>3 DEF LookupStale
  <2>4. CASE Acquire(c)  BY <2>4 DEF Acquire
  <2>5. CASE RecheckStale(c)  BY <2>5 DEF RecheckStale
  <2>6. CASE Spawn(c)  BY <2>6 DEF Spawn
  <2>7. CASE Join(c)  BY <2>7 DEF Join
  <2> QED  BY <1>2, <2>1, <2>2, <2>3, <2>4, <2>5, <2>6, <2>7 DEF CallStep
<1>3. ASSUME NEW c \in Calls, TaskStep(c) PROVE cached'.state # "fresh"
  <2>1. CASE Fetched(c)  BY <2>1 DEF Fetched
  <2>2. CASE FetchFails(c)  BY <2>2 DEF FetchFails
  <2>3. CASE Publish(c)  BY <2>3 DEF Publish
  <2> QED  BY <1>3, <2>1, <2>2, <2>3 DEF TaskStep
<1>4. ASSUME NEW c \in Calls, Drop(c) PROVE cached'.state # "fresh"
  BY <1>4 DEF Drop
<1>5. CASE Age
  BY <1>5 DEF Age
<1>6. CASE Rotate
  BY <1>6 DEF Rotate
<1> QED  BY <1>1, <1>2, <1>3, <1>4, <1>5, <1>6 DEF Next

LEMMA InvariantIInv == Spec => []IInv
<1>1. IInv /\ [Next]_vars => IInv'
  BY TypeStep, HolderStep, StaleStep DEF IInv
<1> QED  BY InitIInv, <1>1, PTL DEF Spec

(* find_key and its tasks never leave the variables' types.                 *)
THEOREM TypeCorrect == Spec => []TypeOK
<1>1. IInv => TypeOK
  BY DEF IInv
<1> QED  BY InvariantIInv, <1>1, PTL

(* fetch_lock works: at most one fetch with a waiting caller runs, whatever *)
(* fails, is dropped, or ages meanwhile.                                    *)
THEOREM SingleAttendedFetch == Spec => []OneAttendedFetch
<1>1. IInv => OneAttendedFetch
  BY DEF IInv, HolderHasPermit, RunningIsAwaited, OneAttendedFetch
<1> QED  BY InvariantIInv, <1>1, PTL

(* The second look under fetch_lock works: as long as no caller goes away,  *)
(* nothing is fetched while the snapshot is fresh.                          *)
THEOREM FreshIsNotRefetched == Spec => []FetchOnlyIfStale
<1>1. IInv => FetchOnlyIfStale
  BY DEF IInv, StaleUntilPublished, NobodyDropped, FetchOnlyIfStale
<1> QED  BY InvariantIInv, <1>1, PTL

-----------------------------------------------------------------------------
(* What a call answers from                                                 *)

(* While a call waits for its join it holds the permit, so a second         *)
(* publication under it could only be a dropped caller's.                   *)
LEMMA JoinedStep == IInv /\ JoinedKeysAreCached /\ [Next]_vars => JoinedKeysAreCached'
<1> SUFFICES ASSUME IInv, JoinedKeysAreCached, [Next]_vars,
                    \A d \in Calls : pc'[d] = "dropped" => task'[d].state = "none",
                    NEW e \in Calls, pc'[e] = "await", task'[e].state = "done"
             PROVE  cached'.state # "none" /\ cached'.rev = task'[e].rev
  BY DEF JoinedKeysAreCached
<1> USE JwksAssumption DEF IInv, TypeOK, HolderHasPermit, RunningIsAwaited, Running,
        JoinedKeysAreCached, Goto, Return, Release, Tasks, Snapshots
<1>1. CASE UNCHANGED vars
  BY <1>1 DEF vars
<1>2. ASSUME NEW c \in Calls, Start(c) \/ CallStep(c)
      PROVE  cached'.state # "none" /\ cached'.rev = task'[e].rev
  <2>1. CASE Start(c)  BY <2>1 DEF Start
  <2>2. CASE LookupFresh(c)  BY <2>2 DEF LookupFresh
  <2>3. CASE LookupStale(c)  BY <2>3 DEF LookupStale
  <2>4. CASE Acquire(c)  BY <2>4 DEF Acquire
  <2>5. CASE RecheckStale(c)  BY <2>5 DEF RecheckStale
  <2>6. CASE Spawn(c)  BY <2>6 DEF Spawn
  <2>7. CASE Join(c)  BY <2>7 DEF Join
  <2> QED  BY <1>2, <2>1, <2>2, <2>3, <2>4, <2>5, <2>6, <2>7 DEF CallStep
<1>3. ASSUME NEW c \in Calls, TaskStep(c)
      PROVE  cached'.state # "none" /\ cached'.rev = task'[e].rev
  <2>1. CASE Fetched(c)  BY <2>1 DEF Fetched
  <2>2. CASE FetchFails(c)  BY <2>2 DEF FetchFails
  <2>3. CASE Publish(c)  BY <2>3 DEF Publish
  <2> QED  BY <1>3, <2>1, <2>2, <2>3 DEF TaskStep
<1>4. ASSUME NEW c \in Calls, Drop(c)
      PROVE  cached'.state # "none" /\ cached'.rev = task'[e].rev
  BY <1>4 DEF Drop
<1>5. CASE Age
  BY <1>5 DEF Age
<1>6. CASE Rotate
  BY <1>6 DEF Rotate
<1> QED  BY <1>1, <1>2, <1>3, <1>4, <1>5, <1>6 DEF Next

(* The keys a call answers from after its own fetch are the cached ones,    *)
(* unless a caller went away with a fetch under way.                        *)
THEOREM AnswersFromTheCachedKeys == Spec => []JoinedKeysAreCached
<1>1. Init => JoinedKeysAreCached
  BY DEF Init, JoinedKeysAreCached
<1>2. IInv /\ JoinedKeysAreCached /\ [Next]_vars => (IInv /\ JoinedKeysAreCached)'
  BY TypeStep, HolderStep, StaleStep, JoinedStep DEF IInv
<1> QED  BY InitIInv, <1>1, <1>2, PTL DEF Spec

-----------------------------------------------------------------------------
(* The order of publications                                                *)

Orphan(d) == pc[d] = "dropped" /\ task[d].state # "none"

(* Without an orphan, nothing newer than what a task is about to publish is *)
(* in the cache; and nobody has seen a revision still to come.              *)
RevisionsInOrder ==
    /\ cached.rev <= rotation
    /\ \A c \in Calls : task[c].rev <= rotation
    /\ (\A d \in Calls : ~Orphan(d)) =>
           \A c \in Calls : task[c].state = "publish" => cached.rev <= task[c].rev

LEMMA InitRevisions == Init => RevisionsInOrder
BY DEF Init, RevisionsInOrder

LEMMA RevisionsStep == IInv /\ RevisionsInOrder /\ [Next]_vars => RevisionsInOrder'
<1> SUFFICES ASSUME IInv, RevisionsInOrder, [Next]_vars PROVE RevisionsInOrder'
  OBVIOUS
<1> USE JwksAssumption DEF IInv, TypeOK, HolderHasPermit, RunningIsAwaited, RevisionsInOrder,
        Orphan, Running, Goto, Return, Release, Tasks, Snapshots, Revisions
<1>1. CASE UNCHANGED vars
  BY <1>1 DEF vars
<1>2. ASSUME NEW c \in Calls, Start(c) \/ CallStep(c) PROVE RevisionsInOrder'
  <2>1. CASE Start(c)  BY <2>1 DEF Start
  <2>2. CASE LookupFresh(c)  BY <2>2 DEF LookupFresh
  <2>3. CASE LookupStale(c)  BY <2>3 DEF LookupStale
  <2>4. CASE Acquire(c)  BY <2>4 DEF Acquire
  <2>5. CASE RecheckStale(c)  BY <2>5 DEF RecheckStale
  <2>6. CASE Spawn(c)  BY <2>6 DEF Spawn
  <2>7. CASE Join(c)  BY <2>7 DEF Join
  <2> QED  BY <1>2, <2>1, <2>2, <2>3, <2>4, <2>5, <2>6, <2>7 DEF CallStep
<1>3. ASSUME NEW c \in Calls, TaskStep(c) PROVE RevisionsInOrder'
  <2>1. CASE Fetched(c)  BY <2>1 DEF Fetched
  <2>2. CASE FetchFails(c)  BY <2>2 DEF FetchFails
  <2>3. CASE Publish(c)  BY <2>3 DEF Publish
  <2> QED  BY <1>3, <2>1, <2>2, <2>3 DEF TaskStep
<1>4. ASSUME NEW c \in Calls, Drop(c) PROVE RevisionsInOrder'
  BY <1>4 DEF Drop
<1>5. CASE Age
  BY <1>5 DEF Age
<1>6. CASE Rotate
  BY <1>6 DEF Rotate
<1> QED  BY <1>1, <1>2, <1>3, <1>4, <1>5, <1>6 DEF Next

(* Detached fetches are the only way back: a publication replaces a newer   *)
(* key set only if a dropped caller had started a fetch.                    *)
THEOREM KeysGoBackOnlyByOrphans == Spec => KeysRegressOnlyAfterDrop
<1> DEFINE Step ==
      \A c \in Calls :
          task[c].state = "publish" /\ task'[c].state = "done" /\ task[c].rev < cached.rev
          => \E d \in Calls : pc[d] = "dropped" /\ task[d].state # "none"
<1>1. IInv /\ RevisionsInOrder => Step
  BY DEF IInv, TypeOK, RevisionsInOrder, Orphan, Tasks, Snapshots, Revisions
<1>2. IInv /\ RevisionsInOrder /\ [Next]_vars => (IInv /\ RevisionsInOrder)'
  BY TypeStep, HolderStep, StaleStep, RevisionsStep DEF IInv
<1>3. Spec => [](IInv /\ RevisionsInOrder)
  BY InitIInv, InitRevisions, <1>2, PTL DEF Spec
<1>4. IInv /\ RevisionsInOrder => [Step]_vars
  BY <1>1
<1> QED  BY <1>3, <1>4, PTL DEF KeysRegressOnlyAfterDrop
=============================================================================
