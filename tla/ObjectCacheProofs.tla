-------------------------- MODULE ObjectCacheProofs --------------------------
(***************************************************************************)
(* Theorems about ObjectCache, for every set of calls and of keys and      *)
(* every number of upstream versions, whether or not callers may be        *)
(* dropped.                                                                *)
(***************************************************************************)
EXTENDS ObjectCache, TLAPS

(* The ownership half of the inductive invariant: a call that leads is the  *)
(* one whose Notify is published.                                           *)
LeaderOwnsEntry ==
    single_flight =>
        \A c \in Calls : pc[c] \in Leading => in_flight[KeyOf[c]] = c

(* Without single-flight no call goes near the map.                         *)
MapUnused ==
    ~single_flight =>
        /\ \A k \in Keys : in_flight[k] = NoCall
        /\ \A c \in Calls : pc[c] \notin {"miss", "cloned", "asleep", "finish", "notify"}

IInv == TypeOK /\ LeaderOwnsEntry /\ EntryHasOwner /\ MapUnused

-----------------------------------------------------------------------------
LEMMA InitIInv == Init => IInv
BY CallAssumption DEF Init, IInv, TypeOK, LeaderOwnsEntry, EntryHasOwner, MapUnused,
   Entry, Absent, Places, AtAwait, Leading

LEMMA FreshIsEntry ==
    ASSUME NEW v \in Nat, NEW who \in {"loader", "app"}
    PROVE  Fresh(v, who) \in Entry /\ Absent \in Entry
BY DEF Fresh, Entry, Absent

(* Every step keeps the variables in their types.                           *)
LEMMA TypeStep == TypeOK /\ [Next]_vars => TypeOK'
<1> SUFFICES ASSUME TypeOK, [Next]_vars PROVE TypeOK'
  OBVIOUS
<1> USE CallAssumption DEF TypeOK, Places, AtAwait, Leading, Goto, Return, Conclude, AfterMiss
<1>1. CASE UNCHANGED vars
  BY <1>1 DEF vars
<1>2. ASSUME NEW c \in Calls, CallStep(c) PROVE TypeOK'
  <2>1. CASE GetHit(c)  BY <2>1 DEF GetHit
  <2>2. CASE GetMiss(c)  BY <2>2 DEF GetMiss
  <2>3. CASE GetExpired(c)  BY <2>3 DEF GetExpired
  <2>4. CASE EvictExpired(c)  BY <2>4, FreshIsEntry DEF EvictExpired
  <2>5. CASE GetFails(c)  BY <2>5 DEF GetFails
  <2>6. CASE BecomeLeader(c)  BY <2>6 DEF BecomeLeader
  <2>7. CASE BecomeFollower(c)  BY <2>7 DEF BecomeFollower
  <2>8. CASE Register(c)  BY <2>8 DEF Register
  <2>9. CASE LoadSucceeds(c)  BY <2>9 DEF LoadSucceeds
  <2>10. CASE LoadFails(c)  BY <2>10 DEF LoadFails
  <2>11. CASE StoreSucceeds(c)  BY <2>11, FreshIsEntry DEF StoreSucceeds
  <2>12. CASE StoreFails(c)  BY <2>12 DEF StoreFails
  <2>13. CASE RemoveInFlight(c)  BY <2>13 DEF RemoveInFlight
  <2>14. CASE NotifyWaiters(c)  BY <2>14 DEF NotifyWaiters
  <2> QED  BY <1>2, <2>1, <2>2, <2>3, <2>4, <2>5, <2>6, <2>7, <2>8, <2>9,
              <2>10, <2>11, <2>12, <2>13, <2>14 DEF CallStep
<1>3. ASSUME NEW c \in Calls, Start(c) PROVE TypeOK'
  BY <1>3 DEF Start
<1>4. ASSUME NEW c \in Calls, Drop(c) PROVE TypeOK'
  BY <1>4 DEF Drop
<1>5. ASSUME NEW k \in Keys, Expire(k) PROVE TypeOK'
  <2>1. [cache[k] EXCEPT !.state = "expired"] \in Entry
    BY DEF Entry
  <2> QED  BY <1>5, <2>1 DEF Expire
<1>6. ASSUME NEW k \in Keys, Delete(k) PROVE TypeOK'
  BY <1>6, FreshIsEntry DEF Delete
<1>7. ASSUME NEW k \in Keys, Set(k) PROVE TypeOK'
  <2>1. PICK v \in 0..version[k] : cache' = [cache EXCEPT ![k] = Fresh(v, "app")]
    BY <1>7 DEF Set
  <2>2. Fresh(v, "app") \in Entry
    BY FreshIsEntry
  <2> QED  BY <1>7, <2>1, <2>2 DEF Set
<1>8. ASSUME NEW k \in Keys, UpdateUpstream(k) PROVE TypeOK'
  BY <1>8 DEF UpdateUpstream
<1> QED  BY <1>1, <1>2, <1>3, <1>4, <1>5, <1>6, <1>7, <1>8 DEF Next

(* What a step does to ownership depends on pc and in_flight alone.         *)
OwnershipNext == LeaderOwnsEntry' /\ EntryHasOwner' /\ MapUnused'

LEMMA OwnerStep == IInv /\ [Next]_vars => OwnershipNext
<1> SUFFICES ASSUME IInv, [Next]_vars PROVE OwnershipNext
  OBVIOUS
<1> USE CallAssumption DEF IInv, TypeOK, OwnershipNext, LeaderOwnsEntry, EntryHasOwner, MapUnused,
        Places, AtAwait, Leading, Goto, Return, Conclude, AfterMiss
<1>1. CASE UNCHANGED <<single_flight, in_flight, pc>>
  BY <1>1
<1>2. ASSUME NEW c \in Calls, CallStep(c) PROVE OwnershipNext
  <2>1. CASE GetHit(c)  BY <2>1 DEF GetHit
  <2>2. CASE GetMiss(c)  BY <2>2 DEF GetMiss
  <2>3. CASE GetExpired(c)  BY <2>3 DEF GetExpired
  <2>4. CASE EvictExpired(c)  BY <2>4 DEF EvictExpired
  <2>5. CASE GetFails(c)  BY <2>5 DEF GetFails
  <2>6. CASE BecomeLeader(c)  BY <2>6 DEF BecomeLeader
  <2>7. CASE BecomeFollower(c)  BY <2>7 DEF BecomeFollower
  <2>8. CASE Register(c)  BY <2>8 DEF Register
  <2>9. CASE LoadSucceeds(c)  BY <2>9 DEF LoadSucceeds
  <2>10. CASE LoadFails(c)  BY <2>10 DEF LoadFails
  <2>11. CASE StoreSucceeds(c)  BY <2>11 DEF StoreSucceeds
  <2>12. CASE StoreFails(c)  BY <2>12 DEF StoreFails
  <2>13. CASE RemoveInFlight(c)  BY <2>13 DEF RemoveInFlight
  <2>14. CASE NotifyWaiters(c)  BY <2>14 DEF NotifyWaiters, Woken
  <2> QED  BY <1>2, <2>1, <2>2, <2>3, <2>4, <2>5, <2>6, <2>7, <2>8, <2>9,
              <2>10, <2>11, <2>12, <2>13, <2>14 DEF CallStep
<1>3. ASSUME NEW c \in Calls, Start(c) PROVE OwnershipNext
  BY <1>3 DEF Start
<1>4. ASSUME NEW c \in Calls, Drop(c) PROVE OwnershipNext
  BY <1>4 DEF Drop
<1> QED
  BY <1>1, <1>2, <1>3, <1>4
  DEF Next, vars, Expire, Delete, Set, UpdateUpstream

LEMMA InvariantIInv == Spec => []IInv
<1>1. IInv /\ [Next]_vars => IInv'
  BY TypeStep, OwnerStep DEF IInv, OwnershipNext
<1> QED  BY <1>1, InitIInv, PTL DEF Spec

-----------------------------------------------------------------------------
(* The state of the cache stays in its type (ObjectCache's variables).      *)
THEOREM TypeCorrect == Spec => []TypeOK
<1>1. IInv => TypeOK
  BY DEF IInv
<1> QED  BY <1>1, InvariantIInv, PTL

(* get_or_load with single-flight never has two live leaders for one key.   *)
THEOREM SingleFlight == Spec => []OneLeaderPerKey
<1>1. IInv => OneLeaderPerKey
  BY DEF IInv, LeaderOwnsEntry, OneLeaderPerKey
<1> QED  BY <1>1, InvariantIInv, PTL

(* in_flight never holds the entry of a call that has returned.             *)
THEOREM EntriesAreOwned == Spec => []EntryHasOwner
<1>1. IInv => EntryHasOwner
  BY DEF IInv
<1> QED  BY <1>1, InvariantIInv, PTL

-----------------------------------------------------------------------------
(* Versions: what is loaded is never newer than upstream, and a value       *)
(* waiting to be stored is at least as new as the one it will replace.      *)
LoadedNotAhead ==
    /\ \A k \in Keys : cache[k].by = "loader" => cache[k].version <= version[k]
    /\ \A c \in Calls : pc[c] = "store" => value[c] <= version[KeyOf[c]]

StoreIsNewest ==
    single_flight =>
        \A c \in Calls :
            pc[c] = "store" /\ cache[KeyOf[c]].by = "loader" =>
                cache[KeyOf[c]].version <= value[c]

VInv == LoadedNotAhead /\ StoreIsNewest

LEMMA InitVInv == Init => VInv
BY CallAssumption DEF Init, VInv, LoadedNotAhead, StoreIsNewest, Absent

(* A call that neither loads nor stores moves no version.                   *)
LEMMA QuietStep ==
    ASSUME IInv, VInv, UNCHANGED <<single_flight, cache, version, value>>,
           \A c \in Calls : pc'[c] = "store" => pc[c] = "store"
    PROVE  VInv'
BY DEF VInv, LoadedNotAhead, StoreIsNewest

(* A step that stores nothing from a loader at k.                           *)
LEMMA CacheStep ==
    ASSUME IInv, VInv, NEW k \in Keys, NEW e \in Entry,
           UNCHANGED <<single_flight, version, value>>,
           cache' = [cache EXCEPT ![k] = e],
           \A c \in Calls : pc'[c] = "store" => pc[c] = "store",
           e.by = "loader" => cache[k].by = "loader" /\ e.version = cache[k].version
    PROVE  VInv'
BY CallAssumption DEF VInv, IInv, TypeOK, LoadedNotAhead, StoreIsNewest

LEMMA VersionStep == IInv /\ VInv /\ [Next]_vars => VInv'
<1> SUFFICES ASSUME IInv, VInv, [Next]_vars PROVE VInv'
  OBVIOUS
<1> USE CallAssumption DEF IInv, TypeOK
<1> DEFINE Quiet == /\ UNCHANGED <<single_flight, cache, version, value>>
                    /\ \A c \in Calls : pc'[c] = "store" => pc[c] = "store"
<1>0. Quiet => VInv'
  BY QuietStep
<1> USE DEF Goto, Return, Conclude, AfterMiss
<1>1. CASE UNCHANGED vars
  BY <1>0, <1>1 DEF vars
<1>2. ASSUME NEW c \in Calls, CallStep(c) PROVE VInv'
  <2>1. CASE GetHit(c)  BY <1>0, <2>1 DEF GetHit
  <2>2. CASE GetMiss(c)  BY <1>0, <2>2 DEF GetMiss
  <2>3. CASE GetExpired(c)  BY <1>0, <2>3 DEF GetExpired
  <2>4. CASE EvictExpired(c)
    <3>1. Absent \in Entry /\ Absent.by # "loader"
      BY DEF Absent, Entry
    <3> QED  BY <2>4, <3>1, CacheStep DEF EvictExpired
  <2>5. CASE GetFails(c)  BY <1>0, <2>5 DEF GetFails
  <2>6. CASE BecomeLeader(c)  BY <1>0, <2>6 DEF BecomeLeader
  <2>7. CASE BecomeFollower(c)  BY <1>0, <2>7 DEF BecomeFollower
  <2>8. CASE Register(c)  BY <1>0, <2>8 DEF Register
  <2>9. CASE LoadSucceeds(c)
    BY <2>9 DEF LoadSucceeds, VInv, LoadedNotAhead, StoreIsNewest
  <2>10. CASE LoadFails(c)  BY <1>0, <2>10 DEF LoadFails
  <2>11. CASE StoreSucceeds(c)
    <3>1. cache' = [cache EXCEPT ![KeyOf[c]] = Fresh(value[c], "loader")]
      BY <2>11 DEF StoreSucceeds
    <3>2. LoadedNotAhead'
      BY <2>11, <3>1 DEF StoreSucceeds, VInv, LoadedNotAhead, Fresh
    <3>3. ASSUME single_flight, NEW d \in Calls, d # c, pc[d] = "store"
          PROVE  KeyOf[d] # KeyOf[c]
      BY <2>11, <3>3 DEF StoreSucceeds, LeaderOwnsEntry, Leading
    <3>4. StoreIsNewest'
      BY <2>11, <3>1, <3>3 DEF StoreSucceeds, VInv, StoreIsNewest, Fresh
    <3> QED  BY <3>2, <3>4 DEF VInv
  <2>12. CASE StoreFails(c)  BY <1>0, <2>12 DEF StoreFails
  <2>13. CASE RemoveInFlight(c)  BY <1>0, <2>13 DEF RemoveInFlight
  <2>14. CASE NotifyWaiters(c)  BY <1>0, <2>14 DEF NotifyWaiters
  <2> QED  BY <1>2, <2>1, <2>2, <2>3, <2>4, <2>5, <2>6, <2>7, <2>8, <2>9,
              <2>10, <2>11, <2>12, <2>13, <2>14 DEF CallStep
<1>3. ASSUME NEW c \in Calls, Start(c) PROVE VInv'
  BY <1>0, <1>3 DEF Start
<1>4. ASSUME NEW c \in Calls, Drop(c) PROVE VInv'
  BY <1>0, <1>4 DEF Drop
<1>5. ASSUME NEW k \in Keys, Expire(k) PROVE VInv'
  <2> DEFINE e == [cache[k] EXCEPT !.state = "expired"]
  <2>1. e \in Entry /\ e.by = cache[k].by /\ e.version = cache[k].version
    BY DEF Entry
  <2>2. /\ cache' = [cache EXCEPT ![k] = e]
        /\ UNCHANGED <<single_flight, version, value, pc>>
    BY <1>5 DEF Expire
  <2> HIDE DEF e
  <2> QED  BY <2>1, <2>2, CacheStep
<1>6. ASSUME NEW k \in Keys, Delete(k) PROVE VInv'
  <2>1. Absent \in Entry /\ Absent.by # "loader"
    BY DEF Absent, Entry
  <2> QED  BY <1>6, <2>1, CacheStep DEF Delete
<1>7. ASSUME NEW k \in Keys, Set(k) PROVE VInv'
  <2>1. PICK v \in 0..version[k] : cache' = [cache EXCEPT ![k] = Fresh(v, "app")]
    BY <1>7 DEF Set
  <2>2. Fresh(v, "app") \in Entry /\ Fresh(v, "app").by # "loader"
    BY DEF Fresh, Entry
  <2> QED  BY <1>7, <2>1, <2>2, CacheStep DEF Set
<1>8. ASSUME NEW k \in Keys, UpdateUpstream(k) PROVE VInv'
  <2>1. \A j \in Keys : /\ cache[j].version \in Nat
                        /\ version[j] \in Nat
                        /\ version'[j] \in Nat /\ version[j] <= version'[j]
    BY <1>8 DEF UpdateUpstream, Entry
  <2>2. LoadedNotAhead'
    BY <1>8, <2>1 DEF UpdateUpstream, VInv, LoadedNotAhead
  <2>3. StoreIsNewest'
    BY <1>8 DEF UpdateUpstream, VInv, StoreIsNewest
  <2> QED  BY <2>2, <2>3 DEF VInv
<1> QED  BY <1>1, <1>2, <1>3, <1>4, <1>5, <1>6, <1>7, <1>8 DEF Next

(* With single-flight a loader's value is never overwritten by an older     *)
(* loader's: StoreSucceeds is the only step that puts a loaded value under  *)
(* a key, and StoreIsNewest holds of the call that takes it.                *)
THEOREM LoadsStoredInOrder == Spec => NoOlderLoadOverNewer
<1> DEFINE InOrder == \A k \in Keys :
               /\ single_flight
               /\ cache[k].by = "loader" /\ cache[k].state # "absent"
               /\ cache'[k].by = "loader"
               => cache'[k].version >= cache[k].version
<1>1. IInv /\ VInv /\ [Next]_vars => [InOrder]_vars
  <2> SUFFICES ASSUME IInv, VInv, [Next]_vars, NEW k \in Keys, single_flight,
                      cache[k].by = "loader", cache'[k].by = "loader"
               PROVE  cache'[k].version >= cache[k].version
    BY Zenon
  <2> USE CallAssumption DEF IInv, TypeOK
  <2>0. cache[k].version \in Nat
    BY DEF Entry
  <2>1. CASE UNCHANGED cache
    BY <2>0, <2>1
  <2>2. ASSUME NEW c \in Calls, EvictExpired(c) PROVE cache'[k].version >= cache[k].version
    BY <2>0, <2>2 DEF EvictExpired, Absent
  <2>3. ASSUME NEW c \in Calls, StoreSucceeds(c) PROVE cache'[k].version >= cache[k].version
    BY <2>0, <2>3 DEF StoreSucceeds, Fresh, VInv, StoreIsNewest
  <2>4. ASSUME NEW j \in Keys, Expire(j) PROVE cache'[k].version >= cache[k].version
    BY <2>0, <2>4 DEF Expire, Entry
  <2>5. ASSUME NEW j \in Keys, Delete(j) PROVE cache'[k].version >= cache[k].version
    BY <2>0, <2>5 DEF Delete, Absent
  <2>6. ASSUME NEW j \in Keys, Set(j) PROVE cache'[k].version >= cache[k].version
    BY <2>0, <2>6 DEF Set, Fresh
  <2> QED
    BY <2>1, <2>2, <2>3, <2>4, <2>5, <2>6
    DEF Next, CallStep, vars, Start, Drop, UpdateUpstream, GetHit, GetMiss, GetExpired,
        GetFails, BecomeLeader, BecomeFollower, Register, LoadSucceeds, LoadFails,
        StoreFails, RemoveInFlight, NotifyWaiters
<1>2. IInv /\ VInv /\ [Next]_vars => VInv'
  BY VersionStep
<1> QED  BY <1>1, <1>2, InitVInv, InvariantIInv, PTL DEF Spec, NoOlderLoadOverNewer

-----------------------------------------------------------------------------
(* The refinement                                                           *)

LEMMA StatusTable ==
    /\ StatusAt("new") = "idle"
    /\ \A place \in {"get", "evict", "miss", "cloned", "asleep"} : StatusAt(place) = "asking"
    /\ StatusAt("load") = "loading" /\ StatusAt("store") = "loaded"
    /\ \A place \in {"finish", "notify", "returned"} : StatusAt(place) = "done"
    /\ StatusAt("failed") = "failed" /\ StatusAt("dropped") = "gone"
BY DEF StatusAt

(* A call that moves to a place shows the status of that place.             *)
LEMMA StatusMoves ==
    ASSUME TypeOK, NEW c \in Calls, NEW place, Goto(c, place)
    PROVE  /\ status' = [status EXCEPT ![c] = StatusAt(place)]
           /\ status[c] = StatusAt(pc[c])
<1>1. pc' = [pc EXCEPT ![c] = place] /\ pc = [d \in Calls |-> pc[d]]
  BY DEF TypeOK, Goto
<1>2. status' = [d \in Calls |-> StatusAt(pc'[d])]
  BY DEF status
<1>3. \A d \in Calls : pc'[d] = IF d = c THEN place ELSE pc[d]
  BY <1>1
<1> QED  BY <1>2, <1>3 DEF status

(* Moving between two places of one status is not seen.                     *)
LEMMA SilentMove ==
    ASSUME TypeOK, NEW c \in Calls, NEW place, Goto(c, place), StatusAt(place) = StatusAt(pc[c])
    PROVE  UNCHANGED status
<1>1. status' = [status EXCEPT ![c] = status[c]]
  BY StatusMoves
<1>2. status = [d \in Calls |-> status[d]]
  BY DEF status
<1> QED  BY <1>1, <1>2

(* Nor is it seen that sleepers go back to their reading.                   *)
LEMMA WakingIsSilent ==
    ASSUME TypeOK, NEW c \in Calls, NotifyWaiters(c)
    PROVE  UNCHANGED status
<1>1. ASSUME NEW d \in Calls PROVE StatusAt(pc'[d]) = StatusAt(pc[d])
  BY <1>1, StatusTable DEF NotifyWaiters, Woken, TypeOK
<1> QED  BY <1>1 DEF status

LEMMA PromiseInit == Init => Promise!Init
BY StatusTable DEF Init, Promise!Init, Promise!Nothing, Absent, status

(* A call that leads a key finds no other load of it under way.             *)
LEMMA NoneUnderWay ==
    ASSUME IInv, NEW c \in Calls, single_flight, in_flight[KeyOf[c]] = NoCall
    PROVE  \A d \in Calls : KeyOf[d] = KeyOf[c] => status[d] \notin {"loading", "loaded"}
<1> SUFFICES ASSUME NEW d \in Calls, KeyOf[d] = KeyOf[c]
             PROVE  status[d] \notin {"loading", "loaded"}
  OBVIOUS
<1>1. pc[d] \notin Leading
  BY CallAssumption DEF IInv, LeaderOwnsEntry
<1>2. pc[d] \in Places \ Leading
  BY <1>1 DEF IInv, TypeOK
<1> QED  BY <1>2, StatusTable DEF status, Places, AtAwait, Leading

LEMMA PromiseStep == IInv /\ [Next]_vars => [Promise!Next]_(Promise!vars)
<1> DEFINE Promised == [Promise!Next]_(Promise!vars)
<1> SUFFICES ASSUME IInv, [Next]_vars PROVE Promised
  OBVIOUS
<1>0. TypeOK
  BY DEF IInv
<1>q. UNCHANGED <<single_flight, cache, version, status, value>> => Promised
  BY DEF Promise!vars
<1>1. CASE UNCHANGED vars
  <2>1. UNCHANGED status
    BY <1>1 DEF vars, status
  <2> QED  BY <1>1, <1>q, <2>1 DEF vars
<1>2. ASSUME NEW c \in Calls, CallStep(c) PROVE Promised
  <2>1. CASE GetHit(c)
    <3>1. Promise!Serve(c)
      BY <2>1, <1>0, StatusMoves, StatusTable DEF GetHit, Return, Promise!Serve, Promise!Become
    <3> QED  BY <3>1 DEF Promise!Next
  <2>2. CASE GetFails(c)
    <3>1. Promise!ReadFails(c)
      BY <2>2, <1>0, StatusMoves, StatusTable DEF GetFails, Promise!ReadFails, Promise!Become
    <3> QED  BY <3>1 DEF Promise!Next
  <2>3. CASE (GetMiss(c) \/ GetExpired(c)) /\ single_flight
    <3>1. \E place \in {"miss", "evict"} : pc[c] = "get" /\ Goto(c, place)
      BY <2>3 DEF GetMiss, GetExpired, AfterMiss
    <3>2. UNCHANGED status
      BY <3>1, <1>0, SilentMove, StatusTable
    <3> QED  BY <2>3, <3>2, <1>q DEF GetMiss, GetExpired
  <2>4. CASE GetExpired(c) /\ ~single_flight
    <3>1. UNCHANGED status
      BY <2>4, <1>0, SilentMove, StatusTable DEF GetExpired
    <3> QED  BY <2>4, <3>1, <1>q DEF GetExpired
  <2>5. CASE (GetMiss(c) \/ EvictExpired(c)) /\ ~single_flight
    <3>1. pc[c] \in {"get", "evict"} /\ Goto(c, "load")
      BY <2>5 DEF GetMiss, EvictExpired, AfterMiss
    <3>2. status[c] = "asking" /\ status' = [status EXCEPT ![c] = "loading"]
      BY <3>1, <1>0, StatusMoves, StatusTable
    <3>3. Promise!Begin(c)
      BY <2>5, <3>2
      DEF GetMiss, EvictExpired, Absent, Promise!Begin, Promise!Become, Promise!Nothing
    <3> QED  BY <3>3 DEF Promise!Next
  <2>6. CASE EvictExpired(c) /\ single_flight
    <3>1. UNCHANGED status
      BY <2>6, <1>0, SilentMove, StatusTable DEF EvictExpired, AfterMiss
    <3>2. Promise!Remove(KeyOf[c])
      BY <2>6, <3>1 DEF EvictExpired, Absent, Promise!Remove, Promise!Nothing
    <3> QED  BY <3>2, CallAssumption DEF Promise!Next
  <2>7. CASE BecomeLeader(c)
    <3>1. status[c] = "asking" /\ status' = [status EXCEPT ![c] = "loading"]
      BY <2>7, <1>0, StatusMoves, StatusTable DEF BecomeLeader
    <3>2. single_flight =>
              \A d \in Calls : KeyOf[d] = KeyOf[c] => status[d] \notin {"loading", "loaded"}
      BY <2>7, NoneUnderWay DEF BecomeLeader
    <3>3. Promise!Begin(c)
      BY <2>7, <3>1, <3>2 DEF BecomeLeader, Promise!Begin, Promise!Become
    <3> QED  BY <3>3 DEF Promise!Next
  <2>8. CASE BecomeFollower(c) \/ Register(c)
    <3>1. \E place \in {"cloned", "asleep"} : pc[c] \in {"miss", "cloned"} /\ Goto(c, place)
      BY <2>8 DEF BecomeFollower, Register
    <3>2. UNCHANGED status
      BY <3>1, <1>0, SilentMove, StatusTable
    <3> QED  BY <2>8, <3>2, <1>q DEF BecomeFollower, Register
  <2>9. CASE LoadSucceeds(c)
    <3>1. Promise!Load(c)
      BY <2>9, <1>0, StatusMoves, StatusTable DEF LoadSucceeds, Promise!Load, Promise!Become
    <3> QED  BY <3>1 DEF Promise!Next
  <2>10. CASE LoadFails(c) \/ StoreFails(c)
    <3>1. pc[c] \in {"load", "store"} /\ \E place \in {"finish", "returned"} : Goto(c, place)
      BY <2>10 DEF LoadFails, StoreFails, Conclude
    <3>2. status[c] \in {"loading", "loaded"} /\ status' = [status EXCEPT ![c] = "done"]
      BY <3>1, <1>0, StatusMoves, StatusTable
    <3>3. Promise!Fail(c)
      BY <2>10, <3>2 DEF LoadFails, StoreFails, Promise!Fail, Promise!Become
    <3> QED  BY <3>3 DEF Promise!Next
  <2>11. CASE StoreSucceeds(c)
    <3>1. pc[c] = "store" /\ \E place \in {"finish", "returned"} : Goto(c, place)
      BY <2>11 DEF StoreSucceeds, Conclude
    <3>2. status[c] = "loaded" /\ status' = [status EXCEPT ![c] = "done"]
      BY <3>1, <1>0, StatusMoves, StatusTable
    <3>3. Promise!Deliver(c)
      BY <2>11, <3>2
      DEF StoreSucceeds, Fresh, Promise!Deliver, Promise!Become, Promise!Stored
    <3> QED  BY <3>3 DEF Promise!Next
  <2>12. CASE RemoveInFlight(c)
    <3>1. UNCHANGED status
      BY <2>12, <1>0, SilentMove, StatusTable DEF RemoveInFlight
    <3> QED  BY <2>12, <3>1, <1>q DEF RemoveInFlight
  <2>13. CASE NotifyWaiters(c)
    <3>1. UNCHANGED status
      BY <2>13, <1>0, WakingIsSilent
    <3> QED  BY <2>13, <3>1, <1>q DEF NotifyWaiters
  <2>14. single_flight \in BOOLEAN
    BY <1>0 DEF TypeOK
  <2> QED  BY <1>2, <2>1, <2>2, <2>3, <2>4, <2>5, <2>6, <2>7, <2>8, <2>9,
              <2>10, <2>11, <2>12, <2>13, <2>14 DEF CallStep
<1>3. ASSUME NEW c \in Calls, Start(c) PROVE Promised
  <2>1. Promise!Ask(c)
    BY <1>3, <1>0, StatusMoves, StatusTable DEF Start, Promise!Ask, Promise!Become
  <2> QED  BY <2>1 DEF Promise!Next
<1>4. ASSUME NEW c \in Calls, Drop(c) PROVE Promised
  <2>1. status[c] \in {"asking", "loading", "loaded", "done"}
    BY <1>4, <1>0, StatusMoves, StatusTable DEF Drop, AtAwait, Leading
  <2>2. Promise!Leave(c)
    BY <1>4, <1>0, <2>1, StatusMoves, StatusTable DEF Drop, Promise!Leave, Promise!Become
  <2> QED  BY <2>2 DEF Promise!Next
<1>5. ASSUME NEW k \in Keys, Expire(k) \/ Delete(k) \/ Set(k) \/ UpdateUpstream(k) PROVE Promised
  <2>1. UNCHANGED status
    BY <1>5 DEF Expire, Delete, Set, UpdateUpstream, status
  <2>2. Promise!Expire(k) \/ Promise!Remove(k) \/ Promise!Set(k) \/ Promise!Change(k)
    BY <1>5, <2>1
    DEF Expire, Delete, Set, UpdateUpstream, Absent, Fresh, Promise!Expire, Promise!Remove,
        Promise!Set, Promise!Change, Promise!Nothing, Promise!Stored
  <2> QED  BY <2>2 DEF Promise!Next
<1> QED  BY <1>1, <1>2, <1>3, <1>4, <1>5 DEF Next

(* get_or_load keeps the promise of LoadingCache for any number of calls    *)
(* and keys, with and without single-flight, whoever is dropped.            *)
THEOREM CacheKeepsPromise == Spec => KeepsPromise
<1> QED  BY PromiseInit, PromiseStep, InvariantIInv, PTL DEF Spec, KeepsPromise, Promise!Spec

=============================================================================
