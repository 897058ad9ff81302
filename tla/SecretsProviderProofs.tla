------------------------ MODULE SecretsProviderProofs ------------------------
(***************************************************************************)
(* Theorems about SecretsProvider, for every set of calls and of names.    *)
(***************************************************************************)
EXTENDS SecretsProvider, TLAPS

(* A call holds a semaphore exactly from get_or_create_fetch_lock to the    *)
(* end of its fetch.                                                        *)
SemaphoreHeld ==
    \A c \in Calls :
        sem[c] # None <=> pc[c] \in {"acquire", "recheck", "fetch", "insert"}

(* Past the acquire, it holds the permit of that semaphore.                 *)
PermitHeld ==
    \A c \in Calls : pc[c] \in {"recheck"} \cup Fetching => holder[sem[c]] = c

IInv == TypeOK /\ SemaphoreHeld /\ OneSemaphorePerSecret /\ PermitHeld /\ NoFetchOfFreshSecret

-----------------------------------------------------------------------------
LEMMA InitIInv == Init => IInv
BY SecretsAssumption
DEF Init, IInv, TypeOK, SemaphoreHeld, OneSemaphorePerSecret, PermitHeld,
    NoFetchOfFreshSecret, Fetching

LEMMA TypeStep == TypeOK /\ [Next]_vars => TypeOK'
<1> SUFFICES ASSUME TypeOK, [Next]_vars PROVE TypeOK'
  OBVIOUS
<1> USE SecretsAssumption DEF TypeOK, Goto, LetGo, Live, Alive
<1>1. CASE UNCHANGED vars
  BY <1>1 DEF vars
<1>2. ASSUME NEW c \in Calls, CallStep(c) PROVE TypeOK'
  <2>1. CASE ReadHit(c)  BY <2>1 DEF ReadHit
  <2>2. CASE ReadMiss(c)  BY <2>2 DEF ReadMiss
  <2>3. CASE Upgrade(c)  BY <2>3 DEF Upgrade
  <2>4. CASE UpgradeFails(c)  BY <2>4 DEF UpgradeFails
  <2>5. CASE Create(c)  BY <2>5 DEF Create
  <2>6. CASE Acquire(c)  BY <2>6 DEF Acquire
  <2>7. CASE RecheckHit(c)  BY <2>7 DEF RecheckHit
  <2>8. CASE RecheckMiss(c)  BY <2>8 DEF RecheckMiss
  <2>9. CASE FetchSucceeds(c)  BY <2>9 DEF FetchSucceeds
  <2>10. CASE FetchYieldsNothing(c)  BY <2>10 DEF FetchYieldsNothing
  <2>11. CASE Insert(c)  BY <2>11 DEF Insert
  <2>12. CASE Prune(c)  BY <2>12 DEF Prune
  <2> QED  BY <1>2, <2>1, <2>2, <2>3, <2>4, <2>5, <2>6,
              <2>7, <2>8, <2>9, <2>10, <2>11, <2>12 DEF CallStep
<1>3. ASSUME NEW c \in Calls, Start(c) PROVE TypeOK'
  BY <1>3 DEF Start
<1>4. ASSUME NEW c \in Calls, Drop(c) PROVE TypeOK'
  BY <1>4 DEF Drop
<1>5. ASSUME NEW n \in Names, Age(n) PROVE TypeOK'
  BY <1>5 DEF Age
<1> QED  BY <1>1, <1>2, <1>3, <1>4, <1>5 DEF Next

(* An entry is replaced or removed only when no call holds its semaphore:   *)
(* the calls that hold one go on finding theirs in the map.                 *)
LEMMA SemaphoreStep ==
    TypeOK /\ SemaphoreHeld /\ OneSemaphorePerSecret /\ [Next]_vars
        => SemaphoreHeld' /\ OneSemaphorePerSecret'
<1> SUFFICES ASSUME TypeOK, SemaphoreHeld, OneSemaphorePerSecret, [Next]_vars
             PROVE  SemaphoreHeld' /\ OneSemaphorePerSecret'
  OBVIOUS
<1> USE SecretsAssumption DEF TypeOK, SemaphoreHeld, OneSemaphorePerSecret, Goto, LetGo, Live,
        Alive
<1>1. CASE UNCHANGED vars
  BY <1>1 DEF vars
<1>2. ASSUME NEW c \in Calls, CallStep(c) PROVE SemaphoreHeld' /\ OneSemaphorePerSecret'
  <2>1. CASE ReadHit(c)  BY <2>1 DEF ReadHit
  <2>2. CASE ReadMiss(c)  BY <2>2 DEF ReadMiss
  <2>3. CASE Upgrade(c)  BY <2>3 DEF Upgrade
  <2>4. CASE UpgradeFails(c)  BY <2>4 DEF UpgradeFails
  <2>5. CASE Create(c)  BY <2>5 DEF Create
  <2>6. CASE Acquire(c)  BY <2>6 DEF Acquire
  <2>7. CASE RecheckHit(c)  BY <2>7 DEF RecheckHit
  <2>8. CASE RecheckMiss(c)  BY <2>8 DEF RecheckMiss
  <2>9. CASE FetchSucceeds(c)  BY <2>9 DEF FetchSucceeds
  <2>10. CASE FetchYieldsNothing(c)  BY <2>10 DEF FetchYieldsNothing
  <2>11. CASE Insert(c)  BY <2>11 DEF Insert
  <2>12. CASE Prune(c)  BY <2>12 DEF Prune
  <2> QED  BY <1>2, <2>1, <2>2, <2>3, <2>4, <2>5, <2>6,
              <2>7, <2>8, <2>9, <2>10, <2>11, <2>12 DEF CallStep
<1>3. ASSUME NEW c \in Calls, Start(c) PROVE SemaphoreHeld' /\ OneSemaphorePerSecret'
  BY <1>3 DEF Start
<1>4. ASSUME NEW c \in Calls, Drop(c) PROVE SemaphoreHeld' /\ OneSemaphorePerSecret'
  BY <1>4 DEF Drop
<1>5. ASSUME NEW n \in Names, Age(n) PROVE SemaphoreHeld' /\ OneSemaphorePerSecret'
  BY <1>5 DEF Age
<1> QED  BY <1>1, <1>2, <1>3, <1>4, <1>5 DEF Next

(* A permit changes hands only through None.                                *)
LEMMA PermitStep == TypeOK /\ SemaphoreHeld /\ PermitHeld /\ [Next]_vars => PermitHeld'
<1> SUFFICES ASSUME TypeOK, SemaphoreHeld, PermitHeld, [Next]_vars PROVE PermitHeld'
  OBVIOUS
<1> USE SecretsAssumption DEF TypeOK, SemaphoreHeld, PermitHeld, Fetching, Goto, LetGo
<1>1. CASE UNCHANGED vars
  BY <1>1 DEF vars
<1>2. ASSUME NEW c \in Calls, CallStep(c) PROVE PermitHeld'
  <2>1. CASE ReadHit(c)  BY <2>1 DEF ReadHit
  <2>2. CASE ReadMiss(c)  BY <2>2 DEF ReadMiss
  <2>3. CASE Upgrade(c)  BY <2>3 DEF Upgrade
  <2>4. CASE UpgradeFails(c)  BY <2>4 DEF UpgradeFails
  <2>5. CASE Create(c)  BY <2>5 DEF Create
  <2>6. CASE Acquire(c)  BY <2>6 DEF Acquire
  <2>7. CASE RecheckHit(c)  BY <2>7 DEF RecheckHit
  <2>8. CASE RecheckMiss(c)  BY <2>8 DEF RecheckMiss
  <2>9. CASE FetchSucceeds(c)  BY <2>9 DEF FetchSucceeds
  <2>10. CASE FetchYieldsNothing(c)  BY <2>10 DEF FetchYieldsNothing
  <2>11. CASE Insert(c)  BY <2>11 DEF Insert
  <2>12. CASE Prune(c)  BY <2>12 DEF Prune
  <2> QED  BY <1>2, <2>1, <2>2, <2>3, <2>4, <2>5, <2>6,
              <2>7, <2>8, <2>9, <2>10, <2>11, <2>12 DEF CallStep
<1>3. ASSUME NEW c \in Calls, Start(c) PROVE PermitHeld'
  BY <1>3 DEF Start
<1>4. ASSUME NEW c \in Calls, Drop(c) PROVE PermitHeld'
  BY <1>4 DEF Drop
<1>5. ASSUME NEW n \in Names, Age(n) PROVE PermitHeld'
  BY <1>5 DEF Age
<1> QED  BY <1>1, <1>2, <1>3, <1>4, <1>5 DEF Next

LEMMA Exclusive == IInv => OneFetchPerSecret
BY SecretsAssumption
DEF IInv, TypeOK, SemaphoreHeld, OneSemaphorePerSecret, PermitHeld, Fetching, OneFetchPerSecret

(* Only an insert makes a secret fresh, and the inserting call is the only  *)
(* one that was fetching it.                                                *)
LEMMA FreshStep == IInv /\ [Next]_vars => NoFetchOfFreshSecret'
<1> SUFFICES ASSUME IInv, [Next]_vars PROVE NoFetchOfFreshSecret'
  OBVIOUS
<1>0. OneFetchPerSecret
  BY Exclusive
<1> USE SecretsAssumption, <1>0
    DEF IInv, TypeOK, NoFetchOfFreshSecret, OneFetchPerSecret, Fetching, Goto, LetGo
<1>1. CASE UNCHANGED vars
  BY <1>1 DEF vars
<1>2. ASSUME NEW c \in Calls, CallStep(c) PROVE NoFetchOfFreshSecret'
  <2>1. CASE ReadHit(c)  BY <2>1 DEF ReadHit
  <2>2. CASE ReadMiss(c)  BY <2>2 DEF ReadMiss
  <2>3. CASE Upgrade(c)  BY <2>3 DEF Upgrade
  <2>4. CASE UpgradeFails(c)  BY <2>4 DEF UpgradeFails
  <2>5. CASE Create(c)  BY <2>5 DEF Create
  <2>6. CASE Acquire(c)  BY <2>6 DEF Acquire
  <2>7. CASE RecheckHit(c)  BY <2>7 DEF RecheckHit
  <2>8. CASE RecheckMiss(c)  BY <2>8 DEF RecheckMiss
  <2>9. CASE FetchSucceeds(c)  BY <2>9 DEF FetchSucceeds
  <2>10. CASE FetchYieldsNothing(c)  BY <2>10 DEF FetchYieldsNothing
  <2>11. CASE Insert(c)  BY <2>11 DEF Insert
  <2>12. CASE Prune(c)  BY <2>12 DEF Prune
  <2> QED  BY <1>2, <2>1, <2>2, <2>3, <2>4, <2>5, <2>6,
              <2>7, <2>8, <2>9, <2>10, <2>11, <2>12 DEF CallStep
<1>3. ASSUME NEW c \in Calls, Start(c) PROVE NoFetchOfFreshSecret'
  BY <1>3 DEF Start
<1>4. ASSUME NEW c \in Calls, Drop(c) PROVE NoFetchOfFreshSecret'
  BY <1>4 DEF Drop
<1>5. ASSUME NEW n \in Names, Age(n) PROVE NoFetchOfFreshSecret'
  BY <1>5 DEF Age
<1> QED  BY <1>1, <1>2, <1>3, <1>4, <1>5 DEF Next

LEMMA InvariantIInv == Spec => []IInv
<1>1. IInv /\ [Next]_vars => IInv'
  BY TypeStep, SemaphoreStep, PermitStep, FreshStep DEF IInv
<1> QED  BY InitIInv, <1>1, PTL DEF Spec

(* get_secret never leaves the variables' types.                            *)
THEOREM TypeCorrect == Spec => []TypeOK
<1>1. IInv => TypeOK
  BY DEF IInv
<1> QED  BY InvariantIInv, <1>1, PTL

(* Weak references and pruning never split the calls for one secret over    *)
(* two semaphores.                                                          *)
THEOREM SharedSemaphore == Spec => []OneSemaphorePerSecret
<1>1. IInv => OneSemaphorePerSecret
  BY DEF IInv
<1> QED  BY InvariantIInv, <1>1, PTL

(* Single-flight: never two concurrent fetches of one secret.               *)
THEOREM SingleFetch == Spec => []OneFetchPerSecret
<1> QED  BY InvariantIInv, Exclusive, PTL

(* The second look works: no secret is fetched while it is cached and fresh.*)
THEOREM FreshIsNotFetched == Spec => []NoFetchOfFreshSecret
<1>1. IInv => NoFetchOfFreshSecret
  BY DEF IInv
<1> QED  BY InvariantIInv, <1>1, PTL
-----------------------------------------------------------------------------
(* The refinement                                                           *)

LEMMA StatusTable ==
    /\ StatusAt("new") = "idle"
    /\ \A place \in {"read", "upgrade", "create", "acquire", "recheck"} :
           StatusAt(place) = "waiting"
    /\ \A place \in Fetching : StatusAt(place) = "fetching"
    /\ StatusAt("prune") = "done" /\ StatusAt("returned") = "done"
    /\ StatusAt("dropped") = "gone"
BY DEF StatusAt, Fetching

(* A call that moves to a place shows the status of that place.             *)
LEMMA StatusMoves ==
    ASSUME TypeOK, NEW c \in Calls, NEW place, Goto(c, place)
    PROVE  /\ status' = [status EXCEPT ![c] = StatusAt(place)]
           /\ status[c] = StatusAt(pc[c])
<1>1. pc' = [pc EXCEPT ![c] = place] /\ pc = [d \in Calls |-> pc[d]]
  BY DEF TypeOK, Goto
<1>2. status' = [d \in Calls |-> StatusAt(pc'[d])]
  BY DEF status
<1>3. \A d \in Calls : pc'[d] = IF d = c THEN place ELSE pc[d]
  BY <1>1
<1> QED  BY <1>2, <1>3 DEF status

LEMMA PromiseInit == Init => Promise!Init
BY StatusTable DEF Init, Promise!Init, status

(* Moving between two places of one status is a stutter.                    *)
LEMMA SilentMove ==
    ASSUME TypeOK, NEW c \in Calls, NEW place, Goto(c, place),
           StatusAt(place) = StatusAt(pc[c]), UNCHANGED cache
    PROVE  UNCHANGED <<cache, status>>
<1>1. status' = [status EXCEPT ![c] = status[c]]
  BY StatusMoves
<1>2. status = [d \in Calls |-> status[d]]
  BY DEF status
<1>3. status' = status
  BY <1>1, <1>2
<1> QED  BY <1>3

LEMMA PromiseStep == IInv /\ [Next]_vars => [Promise!Next]_<<cache, status>>
<1> DEFINE Promised == [Promise!Next]_<<cache, status>>
<1> SUFFICES ASSUME IInv, [Next]_vars PROVE Promised
  OBVIOUS
<1>0. TypeOK /\ OneFetchPerSecret /\ NoFetchOfFreshSecret
  BY Exclusive DEF IInv
<1>i. IInv'
  BY TypeStep, SemaphoreStep, PermitStep, FreshStep DEF IInv
<1>1. CASE UNCHANGED vars
  BY <1>1 DEF vars, status
<1>2. ASSUME NEW c \in Calls, CallStep(c) PROVE Promised
  <2>1. CASE ReadHit(c) \/ RecheckHit(c)
    <3>1. Promise!Serve(c)
      BY <2>1, <1>0, StatusMoves, StatusTable
      DEF ReadHit, RecheckHit, Promise!Serve, Promise!Become, Fetching
    <3> QED  BY <3>1 DEF Promise!Next
  <2>2. CASE RecheckMiss(c)
    <3>1. status[c] = "waiting" /\ status' = [status EXCEPT ![c] = "fetching"]
      BY <2>2, <1>0, StatusMoves, StatusTable DEF RecheckMiss, Fetching
    <3>2. pc'[c] \in Fetching /\ \A d \in Calls \ {c} : pc'[d] = pc[d]
      BY <2>2, <1>0 DEF RecheckMiss, Goto, TypeOK, Fetching
    <3>3. \A d \in Calls : NameOf[d] = NameOf[c] => pc[d] \notin Fetching
      <4>1. OneFetchPerSecret'
        BY <1>i, Exclusive, PTL
      <4> QED  BY <2>2, <3>2, <4>1 DEF RecheckMiss, OneFetchPerSecret, Fetching
    <3>4. \A d \in Calls : NameOf[d] = NameOf[c] => status[d] # "fetching"
      BY <3>3, <1>0, StatusTable DEF status, StatusAt, TypeOK, Fetching
    <3>5. Promise!BeginFetch(c)
      BY <2>2, <3>1, <3>4 DEF RecheckMiss, Promise!BeginFetch, Promise!Become
    <3> QED  BY <3>5 DEF Promise!Next
  <2>3. CASE Insert(c)
    <3>1. Promise!Deliver(c)
      BY <2>3, <1>0, StatusMoves, StatusTable
      DEF Insert, Promise!Deliver, Promise!Become, Fetching
    <3> QED  BY <3>1 DEF Promise!Next
  <2>4. CASE FetchYieldsNothing(c)
    <3>1. Promise!Fail(c)
      BY <2>4, <1>0, StatusMoves, StatusTable
      DEF FetchYieldsNothing, Promise!Fail, Promise!Become, Fetching
    <3> QED  BY <3>1 DEF Promise!Next
  <2>5. CASE ReadMiss(c) \/ Upgrade(c) \/ UpgradeFails(c) \/ Create(c) \/ Acquire(c)
    BY <2>5, <1>0, SilentMove, StatusTable
    DEF ReadMiss, Upgrade, UpgradeFails, Create, Acquire
  <2>6. CASE FetchSucceeds(c) \/ Prune(c)
    BY <2>6, <1>0, SilentMove, StatusTable DEF FetchSucceeds, Prune, Fetching
  <2> QED  BY <1>2, <2>1, <2>2, <2>3, <2>4, <2>5, <2>6 DEF CallStep
<1>3. ASSUME NEW c \in Calls, Start(c) PROVE Promised
  <2>1. Promise!Ask(c)
    BY <1>3, <1>0, StatusMoves, StatusTable
    DEF Start, Promise!Ask, Promise!Become
  <2> QED  BY <2>1 DEF Promise!Next
<1>4. ASSUME NEW c \in Calls, Drop(c) PROVE Promised
  <2>1. Promise!Leave(c)
    BY <1>4, <1>0, StatusMoves, StatusTable
    DEF Drop, Promise!Leave, Promise!Become, TypeOK, Fetching
  <2> QED  BY <2>1 DEF Promise!Next
<1>5. ASSUME NEW n \in Names, Age(n) PROVE Promised
  BY <1>5 DEF Age, Promise!Next, Promise!Age, status
<1> QED  BY <1>1, <1>2, <1>3, <1>4, <1>5 DEF Next

(* get_secret implements the promise its documentation makes, for any       *)
(* number of calls and secrets, whoever is dropped.                         *)
THEOREM SecretsKeepPromise == Spec => KeepsPromise
<1> QED  BY PromiseInit, PromiseStep, InvariantIInv, PTL DEF Spec, KeepsPromise, Promise!Spec

=============================================================================
