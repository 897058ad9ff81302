------------------------- MODULE ResponseCacheProofs -------------------------
(***************************************************************************)
(* Theorems about ResponseCache, for every set of requests, policies and    *)
(* handlers, any number of Memcached servers and any time to live.          *)
(***************************************************************************)
EXTENDS ResponseCache, TLAPS

(* What the backend can hold: what a handler made for a request that has a  *)
(* key, under that key, for one time to live.                               *)
Entries ==
    {e \in [key : {KeyOf(q) : q \in Requests},
            response : {Made(q, o, "MISS") : q \in Requests, o \in Outcomes},
            stored : 0..MaxClock, expires : Nat] :
        /\ e.key = KeyOf(e.response.by) /\ HasKey(e.response.by)
        /\ ShouldStore(e.response.outcome)
        /\ e.expires = e.stored + Lifetime}

(* A server's reply: nothing, or a fresh entry of the key that was asked.   *)
Replies ==
    {m \in [to : Requests, entry : Entries \cup {None}, at : 0..MaxClock] :
        m.entry # None => m.entry.key = KeyOf(m.to) /\ m.entry.expires > m.at}

Shapes ==
    /\ store \subseteq Entries
    /\ unread \in [1..Servers -> Seq(Replies)]
    /\ DOMAIN reply = Requests /\ DOMAIN response = Requests /\ DOMAIN served = Requests

Keyed == \A r \in Requests :
    pc[r] \in {"get", "await_get", "handler", "set", "await_set"} => HasKey(r)

(* What a request is about to store.                                        *)
MadeByItself == \A r \in Requests :
    pc[r] \in {"set", "await_set"} =>
        \E o \in Outcomes : ShouldStore(o) /\ response[r] = Made(r, o, "MISS")

(* A request that waits for a reply has the lock, and the reply it waits    *)
(* for is the only one on the stream unless one was abandoned there.        *)
OneReplyAwaited == \A r \in Requests :
    pc[r] \in {"await_get", "await_set"} =>
        /\ backend = "memcached" /\ holder[ServerOf(r)] = r
        /\ ServerOf(r) \notin abandoned =>
            Len(unread[ServerOf(r)]) = 1 /\ Head(unread[ServerOf(r)]).to = r

(* A stream that nobody has locked has been read to its end.                *)
UnlockedIsRead == \A s \in 1..Servers :
    holder[s] = None /\ s \notin abandoned \cup broken => unread[s] = <<>>

HitSound(r) ==
    \/ backend = "memcached" /\ ServerOf(r) \in abandoned
    \/ /\ served[r].entry \in Entries /\ served[r].at \in 0..MaxClock
       /\ served[r].entry.key = KeyOf(r) /\ served[r].entry.expires > served[r].at
       /\ response[r].by = served[r].entry.response.by
       /\ response[r].outcome = served[r].entry.response.outcome

HitsSound == \A r \in Requests :
    served[r] # None => pc[r] = "done" /\ HasKey(r) /\ HitSound(r)

IInv ==
    /\ TypeOK /\ Shapes /\ Keyed /\ MadeByItself /\ OneReplyAwaited /\ UnlockedIsRead
    /\ OwnRepliesUnlessDropped /\ HitsSound

-----------------------------------------------------------------------------
LEMMA LifetimeNat == TypeOK => Lifetime \in Nat
BY ResponseCacheAssumption DEF TypeOK, Lifetime, HalfSecondsPerSecond

LEMMA ServerInRange ==
    ASSUME TypeOK, NEW r \in Requests, HasKey(r) PROVE ServerOf(r) \in 1..Servers
<1>1. KeyHash(KeyOf(r)) \in Nat
  BY ResponseCacheAssumption DEF TypeOK, HasKey, KeyOf
<1>2. KeyHash(KeyOf(r)) % Servers \in 0..(Servers - 1)
  BY <1>1, ResponseCacheAssumption
<1> QED  BY <1>2, ResponseCacheAssumption DEF ServerOf, ServerForKey

(* A lookup yields nothing or a fresh entry of the request's key.           *)
LEMMA LookupFresh ==
    ASSUME NEW r \in Requests, Lookup(r) # None
    PROVE  Lookup(r) \in store /\ Lookup(r).key = KeyOf(r) /\ Fresh(Lookup(r))
<1> DEFINE entries == {e \in store : e.key = KeyOf(r) /\ Fresh(e)}
<1>1. entries # {} /\ Lookup(r) = CHOOSE e \in entries : TRUE
  BY DEF Lookup
<1>2. Lookup(r) \in entries
  BY <1>1
<1> QED  BY <1>2

(* The backend, the policy and the requests stay what they are, and what is *)
(* derived from them with them.                                             *)
SetupSame ==
    /\ backend' = backend /\ policy' = policy /\ wire' = wire
    /\ Entries' = Entries /\ Replies' = Replies /\ Lifetime' = Lifetime
    /\ \A r : KeyOf(r)' = KeyOf(r) /\ HasKey(r)' = HasKey(r) /\ ServerOf(r)' = ServerOf(r)
    /\ \A o : ShouldStore(o)' = ShouldStore(o)

LEMMA SetupStays == ASSUME [Next]_vars PROVE SetupSame
<1>1. UNCHANGED setup
  BY DEF Next, vars, Progress, Begin, Get, SendGet, ReceiveValue, CommandFails, Bypass, Handle,
         Set, SendSet, ReceiveStored, Drop, RedisGetFails, RedisSetFails, BodyFails, Break,
         Evict, Tick
<1>2. backend' = backend /\ policy' = policy /\ wire' = wire
  BY <1>1 DEF setup
<1> QED
  BY <1>2 DEF Entries, Replies, Lifetime, KeyOf, HasKey, ServerOf, ShouldStore, SetupSame

-----------------------------------------------------------------------------
LEMMA InitIInv == Init => IInv
BY ResponseCacheAssumption
DEF Init, IInv, TypeOK, Shapes, Keyed, MadeByItself, OneReplyAwaited, UnlockedIsRead,
    OwnRepliesUnlessDropped, HitsSound

(* A lock and an abandoned stream belong to a server that exists.           *)
LEMMA TypeStep == IInv /\ [Next]_vars => TypeOK'
<1> SUFFICES ASSUME IInv, [Next]_vars PROVE TypeOK'
  OBVIOUS
<1>0. SetupSame
  BY SetupStays
<1>range. \A q \in Requests : HasKey(q) => ServerOf(q) \in 1..Servers
  BY ServerInRange DEF IInv
<1> USE ResponseCacheAssumption, <1>0
    DEF IInv, SetupSame, TypeOK, Goto, Answer, Hit, Receive, Send, Unlock, streams
<1>1. CASE UNCHANGED vars
  BY <1>1 DEF vars, setup, streams
<1>2. ASSUME NEW r \in Requests, Begin(r) PROVE TypeOK'
  BY <1>2 DEF Begin
<1>3. ASSUME NEW r \in Requests, Get(r) PROVE TypeOK'
  BY <1>3 DEF Get
<1>4. ASSUME NEW r \in Requests, SendGet(r) PROVE TypeOK'
  BY <1>4 DEF SendGet
<1>5. ASSUME NEW r \in Requests, ReceiveValue(r) PROVE TypeOK'
  BY <1>5 DEF ReceiveValue
<1>6. ASSUME NEW r \in Requests, CommandFails(r) PROVE TypeOK'
  BY <1>6 DEF CommandFails
<1>7. ASSUME NEW r \in Requests, Bypass(r) PROVE TypeOK'
  BY <1>7 DEF Bypass
<1>8. ASSUME NEW r \in Requests, Handle(r) PROVE TypeOK'
  BY <1>8 DEF Handle
<1>9. ASSUME NEW r \in Requests, Set(r) PROVE TypeOK'
  BY <1>9 DEF Set
<1>10. ASSUME NEW r \in Requests, SendSet(r) PROVE TypeOK'
  BY <1>10 DEF SendSet
<1>11. ASSUME NEW r \in Requests, ReceiveStored(r) PROVE TypeOK'
  BY <1>11 DEF ReceiveStored
<1>12. ASSUME NEW r \in Requests, Drop(r) PROVE TypeOK'
  <2>1. pc[r] \in {"await_get", "await_set"} => ServerOf(r) \in 1..Servers
    BY <1>range DEF Keyed
  <2> QED  BY <1>12, <2>1 DEF Drop
<1>13. ASSUME NEW r \in Requests, RedisGetFails(r) PROVE TypeOK'
  BY <1>13 DEF RedisGetFails
<1>14. ASSUME NEW r \in Requests, RedisSetFails(r) PROVE TypeOK'
  BY <1>14 DEF RedisSetFails
<1>15. ASSUME NEW r \in Requests, BodyFails(r) PROVE TypeOK'
  BY <1>15 DEF BodyFails
<1>16. ASSUME NEW s \in 1..Servers, Break(s) PROVE TypeOK'
  BY <1>16 DEF Break
<1>17. ASSUME Evict PROVE TypeOK'
  BY <1>17 DEF Evict
<1>18. ASSUME Tick PROVE TypeOK'
  BY <1>18 DEF Tick
<1> QED
  BY <1>1, <1>2, <1>3, <1>4, <1>5, <1>6, <1>7, <1>8, <1>9,
     <1>10, <1>11, <1>12, <1>13, <1>14, <1>15, <1>16, <1>17, <1>18 DEF Next, Progress

(* Only Begin sends a request to the cache, and only with a key.            *)
LEMMA KeyedStep == IInv /\ [Next]_vars => Keyed'
<1> SUFFICES ASSUME IInv, [Next]_vars PROVE Keyed'
  OBVIOUS
<1>0. SetupSame
  BY SetupStays
<1> USE ResponseCacheAssumption, <1>0 DEF IInv, SetupSame, TypeOK, Keyed, Goto, Answer, Hit
<1>1. CASE UNCHANGED vars
  BY <1>1 DEF vars, setup, streams
<1>2. ASSUME NEW r \in Requests, Begin(r) PROVE Keyed'
  BY <1>2 DEF Begin
<1>3. ASSUME NEW r \in Requests, Get(r) PROVE Keyed'
  BY <1>3 DEF Get
<1>4. ASSUME NEW r \in Requests, SendGet(r) PROVE Keyed'
  BY <1>4 DEF SendGet
<1>5. ASSUME NEW r \in Requests, ReceiveValue(r) PROVE Keyed'
  BY <1>5 DEF ReceiveValue
<1>6. ASSUME NEW r \in Requests, CommandFails(r) PROVE Keyed'
  BY <1>6 DEF CommandFails
<1>7. ASSUME NEW r \in Requests, Bypass(r) PROVE Keyed'
  BY <1>7 DEF Bypass
<1>8. ASSUME NEW r \in Requests, Handle(r) PROVE Keyed'
  BY <1>8 DEF Handle
<1>9. ASSUME NEW r \in Requests, Set(r) PROVE Keyed'
  BY <1>9 DEF Set
<1>10. ASSUME NEW r \in Requests, SendSet(r) PROVE Keyed'
  BY <1>10 DEF SendSet
<1>11. ASSUME NEW r \in Requests, ReceiveStored(r) PROVE Keyed'
  BY <1>11 DEF ReceiveStored
<1>12. ASSUME NEW r \in Requests, Drop(r) PROVE Keyed'
  BY <1>12 DEF Drop
<1>13. ASSUME NEW r \in Requests, RedisGetFails(r) PROVE Keyed'
  BY <1>13 DEF RedisGetFails
<1>14. ASSUME NEW r \in Requests, RedisSetFails(r) PROVE Keyed'
  BY <1>14 DEF RedisSetFails
<1>15. ASSUME NEW r \in Requests, BodyFails(r) PROVE Keyed'
  BY <1>15 DEF BodyFails
<1>16. ASSUME NEW s \in 1..Servers, Break(s) PROVE Keyed'
  BY <1>16 DEF Break
<1>17. ASSUME Evict PROVE Keyed'
  BY <1>17 DEF Evict
<1>18. ASSUME Tick PROVE Keyed'
  BY <1>18 DEF Tick
<1> QED
  BY <1>1, <1>2, <1>3, <1>4, <1>5, <1>6, <1>7, <1>8, <1>9,
     <1>10, <1>11, <1>12, <1>13, <1>14, <1>15, <1>16, <1>17, <1>18 DEF Next, Progress

(* A response stays as its handler made it until it has been stored.        *)
LEMMA MadeStep == IInv /\ [Next]_vars => MadeByItself'
<1> SUFFICES ASSUME IInv, [Next]_vars PROVE MadeByItself'
  OBVIOUS
<1>0. SetupSame
  BY SetupStays
<1> USE ResponseCacheAssumption, <1>0
    DEF IInv, SetupSame, TypeOK, Shapes, MadeByItself, Goto, Answer, Hit
<1>1. CASE UNCHANGED vars
  BY <1>1 DEF vars, setup, streams
<1>2. ASSUME NEW r \in Requests, Begin(r) PROVE MadeByItself'
  BY <1>2 DEF Begin
<1>3. ASSUME NEW r \in Requests, Get(r) PROVE MadeByItself'
  BY <1>3 DEF Get
<1>4. ASSUME NEW r \in Requests, SendGet(r) PROVE MadeByItself'
  BY <1>4 DEF SendGet
<1>5. ASSUME NEW r \in Requests, ReceiveValue(r) PROVE MadeByItself'
  BY <1>5 DEF ReceiveValue
<1>6. ASSUME NEW r \in Requests, CommandFails(r) PROVE MadeByItself'
  BY <1>6 DEF CommandFails
<1>7. ASSUME NEW r \in Requests, Bypass(r) PROVE MadeByItself'
  BY <1>7 DEF Bypass
<1>8. ASSUME NEW r \in Requests, Handle(r) PROVE MadeByItself'
  BY <1>8 DEF Handle
<1>9. ASSUME NEW r \in Requests, Set(r) PROVE MadeByItself'
  BY <1>9 DEF Set
<1>10. ASSUME NEW r \in Requests, SendSet(r) PROVE MadeByItself'
  BY <1>10 DEF SendSet
<1>11. ASSUME NEW r \in Requests, ReceiveStored(r) PROVE MadeByItself'
  BY <1>11 DEF ReceiveStored
<1>12. ASSUME NEW r \in Requests, Drop(r) PROVE MadeByItself'
  BY <1>12 DEF Drop
<1>13. ASSUME NEW r \in Requests, RedisGetFails(r) PROVE MadeByItself'
  BY <1>13 DEF RedisGetFails
<1>14. ASSUME NEW r \in Requests, RedisSetFails(r) PROVE MadeByItself'
  BY <1>14 DEF RedisSetFails
<1>15. ASSUME NEW r \in Requests, BodyFails(r) PROVE MadeByItself'
  BY <1>15 DEF BodyFails
<1>16. ASSUME NEW s \in 1..Servers, Break(s) PROVE MadeByItself'
  BY <1>16 DEF Break
<1>17. ASSUME Evict PROVE MadeByItself'
  BY <1>17 DEF Evict
<1>18. ASSUME Tick PROVE MadeByItself'
  BY <1>18 DEF Tick
<1> QED
  BY <1>1, <1>2, <1>3, <1>4, <1>5, <1>6, <1>7, <1>8, <1>9,
     <1>10, <1>11, <1>12, <1>13, <1>14, <1>15, <1>16, <1>17, <1>18 DEF Next, Progress

(* The lock is taken on a stream that has been read to its end; nothing     *)
(* is sent on it until the reply has been read or abandoned.                *)
LEMMA AwaitStep == IInv /\ [Next]_vars => OneReplyAwaited'
<1> SUFFICES ASSUME IInv, [Next]_vars PROVE OneReplyAwaited'
  OBVIOUS
<1>0. SetupSame
  BY SetupStays
<1>range. \A q \in Requests : HasKey(q) => ServerOf(q) \in 1..Servers
  BY ServerInRange DEF IInv
<1> USE ResponseCacheAssumption, <1>0, <1>range
    DEF IInv, SetupSame, TypeOK, Shapes, Keyed, OneReplyAwaited, UnlockedIsRead, Goto, Answer,
        Hit, Receive, Send, Unlock, streams
<1>1. CASE UNCHANGED vars
  BY <1>1 DEF vars, setup, streams
<1>2. ASSUME NEW r \in Requests, Begin(r) PROVE OneReplyAwaited'
  BY <1>2 DEF Begin
<1>3. ASSUME NEW r \in Requests, Get(r) PROVE OneReplyAwaited'
  BY <1>3 DEF Get
<1>4. ASSUME NEW r \in Requests, SendGet(r) PROVE OneReplyAwaited'
  BY <1>4 DEF SendGet
<1>5. ASSUME NEW r \in Requests, ReceiveValue(r) PROVE OneReplyAwaited'
  BY <1>5 DEF ReceiveValue
<1>6. ASSUME NEW r \in Requests, CommandFails(r) PROVE OneReplyAwaited'
  BY <1>6 DEF CommandFails
<1>7. ASSUME NEW r \in Requests, Bypass(r) PROVE OneReplyAwaited'
  BY <1>7 DEF Bypass
<1>8. ASSUME NEW r \in Requests, Handle(r) PROVE OneReplyAwaited'
  BY <1>8 DEF Handle
<1>9. ASSUME NEW r \in Requests, Set(r) PROVE OneReplyAwaited'
  BY <1>9 DEF Set
<1>10. ASSUME NEW r \in Requests, SendSet(r) PROVE OneReplyAwaited'
  BY <1>10 DEF SendSet
<1>11. ASSUME NEW r \in Requests, ReceiveStored(r) PROVE OneReplyAwaited'
  BY <1>11 DEF ReceiveStored
<1>12. ASSUME NEW r \in Requests, Drop(r) PROVE OneReplyAwaited'
  BY <1>12 DEF Drop
<1>13. ASSUME NEW r \in Requests, RedisGetFails(r) PROVE OneReplyAwaited'
  BY <1>13 DEF RedisGetFails
<1>14. ASSUME NEW r \in Requests, RedisSetFails(r) PROVE OneReplyAwaited'
  BY <1>14 DEF RedisSetFails
<1>15. ASSUME NEW r \in Requests, BodyFails(r) PROVE OneReplyAwaited'
  BY <1>15 DEF BodyFails
<1>16. ASSUME NEW s \in 1..Servers, Break(s) PROVE OneReplyAwaited'
  BY <1>16 DEF Break
<1>17. ASSUME Evict PROVE OneReplyAwaited'
  BY <1>17 DEF Evict
<1>18. ASSUME Tick PROVE OneReplyAwaited'
  BY <1>18 DEF Tick
<1> QED
  BY <1>1, <1>2, <1>3, <1>4, <1>5, <1>6, <1>7, <1>8, <1>9,
     <1>10, <1>11, <1>12, <1>13, <1>14, <1>15, <1>16, <1>17, <1>18 DEF Next, Progress

(* The lock is given back with the reply read, unless the stream is broken  *)
(* or abandoned.                                                            *)
LEMMA UnlockedStep == IInv /\ [Next]_vars => UnlockedIsRead'
<1> SUFFICES ASSUME IInv, [Next]_vars PROVE UnlockedIsRead'
  OBVIOUS
<1>0. SetupSame
  BY SetupStays
<1>range. \A q \in Requests : HasKey(q) => ServerOf(q) \in 1..Servers
  BY ServerInRange DEF IInv
<1> USE ResponseCacheAssumption, <1>0, <1>range
    DEF IInv, SetupSame, TypeOK, Shapes, Keyed, OneReplyAwaited, UnlockedIsRead, Goto, Answer,
        Hit, Receive, Send, Unlock, streams
<1>1. CASE UNCHANGED vars
  BY <1>1 DEF vars, setup, streams
<1>2. ASSUME NEW r \in Requests, Begin(r) PROVE UnlockedIsRead'
  BY <1>2 DEF Begin
<1>3. ASSUME NEW r \in Requests, Get(r) PROVE UnlockedIsRead'
  BY <1>3 DEF Get
<1>4. ASSUME NEW r \in Requests, SendGet(r) PROVE UnlockedIsRead'
  BY <1>4 DEF SendGet
<1>5. ASSUME NEW r \in Requests, ReceiveValue(r) PROVE UnlockedIsRead'
  BY <1>5 DEF ReceiveValue
<1>6. ASSUME NEW r \in Requests, CommandFails(r) PROVE UnlockedIsRead'
  BY <1>6 DEF CommandFails
<1>7. ASSUME NEW r \in Requests, Bypass(r) PROVE UnlockedIsRead'
  BY <1>7 DEF Bypass
<1>8. ASSUME NEW r \in Requests, Handle(r) PROVE UnlockedIsRead'
  BY <1>8 DEF Handle
<1>9. ASSUME NEW r \in Requests, Set(r) PROVE UnlockedIsRead'
  BY <1>9 DEF Set
<1>10. ASSUME NEW r \in Requests, SendSet(r) PROVE UnlockedIsRead'
  BY <1>10 DEF SendSet
<1>11. ASSUME NEW r \in Requests, ReceiveStored(r) PROVE UnlockedIsRead'
  BY <1>11 DEF ReceiveStored
<1>12. ASSUME NEW r \in Requests, Drop(r) PROVE UnlockedIsRead'
  BY <1>12 DEF Drop
<1>13. ASSUME NEW r \in Requests, RedisGetFails(r) PROVE UnlockedIsRead'
  BY <1>13 DEF RedisGetFails
<1>14. ASSUME NEW r \in Requests, RedisSetFails(r) PROVE UnlockedIsRead'
  BY <1>14 DEF RedisSetFails
<1>15. ASSUME NEW r \in Requests, BodyFails(r) PROVE UnlockedIsRead'
  BY <1>15 DEF BodyFails
<1>16. ASSUME NEW s \in 1..Servers, Break(s) PROVE UnlockedIsRead'
  BY <1>16 DEF Break
<1>17. ASSUME Evict PROVE UnlockedIsRead'
  BY <1>17 DEF Evict
<1>18. ASSUME Tick PROVE UnlockedIsRead'
  BY <1>18 DEF Tick
<1> QED
  BY <1>1, <1>2, <1>3, <1>4, <1>5, <1>6, <1>7, <1>8, <1>9,
     <1>10, <1>11, <1>12, <1>13, <1>14, <1>15, <1>16, <1>17, <1>18 DEF Next, Progress

(* What a request reads is the one reply on the stream, its own.            *)
LEMMA OwnStep == IInv /\ [Next]_vars => OwnRepliesUnlessDropped'
<1> SUFFICES ASSUME IInv, [Next]_vars PROVE OwnRepliesUnlessDropped'
  OBVIOUS
<1>0. SetupSame
  BY SetupStays
<1>range. \A q \in Requests : HasKey(q) => ServerOf(q) \in 1..Servers
  BY ServerInRange DEF IInv
<1> USE ResponseCacheAssumption, <1>0, <1>range
    DEF IInv, SetupSame, TypeOK, Shapes, Keyed, OneReplyAwaited, OwnRepliesUnlessDropped, Goto,
        Receive, Send, Unlock, streams, Answer, Hit
<1>1. CASE UNCHANGED vars
  BY <1>1 DEF vars, setup, streams
<1>2. ASSUME NEW r \in Requests, Begin(r) PROVE OwnRepliesUnlessDropped'
  BY <1>2 DEF Begin
<1>3. ASSUME NEW r \in Requests, Get(r) PROVE OwnRepliesUnlessDropped'
  BY <1>3 DEF Get
<1>4. ASSUME NEW r \in Requests, SendGet(r) PROVE OwnRepliesUnlessDropped'
  BY <1>4 DEF SendGet
<1>5. ASSUME NEW r \in Requests, ReceiveValue(r) PROVE OwnRepliesUnlessDropped'
  BY <1>5 DEF ReceiveValue
<1>6. ASSUME NEW r \in Requests, CommandFails(r) PROVE OwnRepliesUnlessDropped'
  BY <1>6 DEF CommandFails
<1>7. ASSUME NEW r \in Requests, Bypass(r) PROVE OwnRepliesUnlessDropped'
  BY <1>7 DEF Bypass
<1>8. ASSUME NEW r \in Requests, Handle(r) PROVE OwnRepliesUnlessDropped'
  BY <1>8 DEF Handle
<1>9. ASSUME NEW r \in Requests, Set(r) PROVE OwnRepliesUnlessDropped'
  BY <1>9 DEF Set
<1>10. ASSUME NEW r \in Requests, SendSet(r) PROVE OwnRepliesUnlessDropped'
  BY <1>10 DEF SendSet
<1>11. ASSUME NEW r \in Requests, ReceiveStored(r) PROVE OwnRepliesUnlessDropped'
  BY <1>11 DEF ReceiveStored
<1>12. ASSUME NEW r \in Requests, Drop(r) PROVE OwnRepliesUnlessDropped'
  BY <1>12 DEF Drop
<1>13. ASSUME NEW r \in Requests, RedisGetFails(r) PROVE OwnRepliesUnlessDropped'
  BY <1>13 DEF RedisGetFails
<1>14. ASSUME NEW r \in Requests, RedisSetFails(r) PROVE OwnRepliesUnlessDropped'
  BY <1>14 DEF RedisSetFails
<1>15. ASSUME NEW r \in Requests, BodyFails(r) PROVE OwnRepliesUnlessDropped'
  BY <1>15 DEF BodyFails
<1>16. ASSUME NEW s \in 1..Servers, Break(s) PROVE OwnRepliesUnlessDropped'
  BY <1>16 DEF Break
<1>17. ASSUME Evict PROVE OwnRepliesUnlessDropped'
  BY <1>17 DEF Evict
<1>18. ASSUME Tick PROVE OwnRepliesUnlessDropped'
  BY <1>18 DEF Tick
<1> QED
  BY <1>1, <1>2, <1>3, <1>4, <1>5, <1>6, <1>7, <1>8, <1>9,
     <1>10, <1>11, <1>12, <1>13, <1>14, <1>15, <1>16, <1>17, <1>18 DEF Next, Progress

(* What a request stores is an entry.                                       *)
LEMMA EntrySound == ASSUME IInv, NEW r \in Requests, pc[r] = "set" PROVE Entry(r) \in Entries
<1>1. PICK o \in Outcomes : ShouldStore(o) /\ response[r] = Made(r, o, "MISS")
  BY DEF IInv, MadeByItself
<1>2. HasKey(r) /\ clock \in 0..MaxClock
  BY DEF IInv, Keyed, TypeOK
<1>3. Lifetime \in Nat
  BY LifetimeNat DEF IInv
<1>4. clock + Lifetime \in Nat
  BY <1>2, <1>3, ResponseCacheAssumption
<1>5. Entry(r).response.by = r /\ Entry(r).response.outcome = o
  BY <1>1 DEF Entry, Made
<1>6. Entry(r) \in [key : {KeyOf(q) : q \in Requests},
            response : {Made(q, oo, "MISS") : q \in Requests, oo \in Outcomes},
            stored : 0..MaxClock, expires : Nat]
  BY <1>1, <1>2, <1>4 DEF Entry
<1> QED  BY <1>1, <1>2, <1>5, <1>6 DEF Entries, Entry

LEMMA HitKeeps ==
    ASSUME NEW e \in Entries
    PROVE  LET hit == [e.response EXCEPT !.x_cache = "HIT"]
           IN  hit.by = e.response.by /\ hit.outcome = e.response.outcome
<1>1. PICK q \in Requests, o \in Outcomes : e.response = Made(q, o, "MISS")
  BY DEF Entries
<1> QED  BY <1>1 DEF Made

(* What a server answers to it is a reply, and None is an answer too.       *)
LEMMA LookupSound ==
    ASSUME IInv, NEW r \in Requests
    PROVE  [to |-> r, entry |-> Lookup(r), at |-> clock] \in Replies
<1>1. clock \in 0..MaxClock /\ store \subseteq Entries
  BY DEF IInv, TypeOK, Shapes
<1>2. Lookup(r) \in Entries \cup {None}
  BY <1>1, LookupFresh
<1>3. Lookup(r) # None => Lookup(r).key = KeyOf(r) /\ Lookup(r).expires > clock
  BY LookupFresh DEF Fresh
<1> QED  BY <1>1, <1>2, <1>3 DEF Replies

LEMMA NoneSound ==
    ASSUME IInv, NEW r \in Requests PROVE [to |-> r, entry |-> None, at |-> clock] \in Replies
BY DEF IInv, TypeOK, Replies

(* Stores and replies carry entries only.                                   *)
LEMMA ShapesStep == IInv /\ [Next]_vars => Shapes'
<1> SUFFICES ASSUME IInv, [Next]_vars PROVE Shapes'
  OBVIOUS
<1>0. SetupSame
  BY SetupStays
<1>range. \A q \in Requests : HasKey(q) => ServerOf(q) \in 1..Servers
  BY ServerInRange DEF IInv
<1> USE ResponseCacheAssumption, <1>0
    DEF IInv, SetupSame, Shapes, Goto, Answer, Hit, Receive, Unlock, streams
<1>1. CASE UNCHANGED vars
  BY <1>1 DEF vars, setup, streams
<1>2. ASSUME NEW r \in Requests, Begin(r) PROVE Shapes'
  BY <1>2 DEF Begin
<1>3. ASSUME NEW r \in Requests, Get(r) PROVE Shapes'
  BY <1>3 DEF Get
<1>4. ASSUME NEW r \in Requests, SendGet(r) PROVE Shapes'
  <2>1. [to |-> r, entry |-> Lookup(r), at |-> clock] \in Replies
    BY LookupSound
  <2>2. ServerOf(r) \in 1..Servers
    BY <1>4, <1>range DEF SendGet, IInv, Keyed
  <2>3. unread' \in [1..Servers -> Seq(Replies)]
    BY <1>4, <2>1, <2>2 DEF SendGet, Send
  <2> QED  BY <1>4, <2>3 DEF SendGet, Send
<1>5. ASSUME NEW r \in Requests, ReceiveValue(r) PROVE Shapes'
  <2>1. ServerOf(r) \in 1..Servers
    BY <1>5, <1>range DEF ReceiveValue, IInv, Keyed
  <2>2. unread' \in [1..Servers -> Seq(Replies)]
    BY <1>5, <2>1 DEF ReceiveValue
  <2> QED  BY <1>5, <2>2 DEF ReceiveValue
<1>6. ASSUME NEW r \in Requests, CommandFails(r) PROVE Shapes'
  BY <1>6 DEF CommandFails
<1>7. ASSUME NEW r \in Requests, Bypass(r) PROVE Shapes'
  BY <1>7 DEF Bypass
<1>8. ASSUME NEW r \in Requests, Handle(r) PROVE Shapes'
  BY <1>8 DEF Handle
<1>9. ASSUME NEW r \in Requests, Set(r) PROVE Shapes'
  <2>1. Entry(r) \in Entries
    BY <1>9, EntrySound DEF Set
  <2> QED  BY <1>9, <2>1 DEF Set, Stored
<1>10. ASSUME NEW r \in Requests, SendSet(r) PROVE Shapes'
  <2>1. Entry(r) \in Entries /\ [to |-> r, entry |-> None, at |-> clock] \in Replies
    BY <1>10, EntrySound, NoneSound DEF SendSet
  <2>2. ServerOf(r) \in 1..Servers
    BY <1>10, <1>range DEF SendSet, IInv, Keyed
  <2>3. unread' \in [1..Servers -> Seq(Replies)]
    BY <1>10, <2>1, <2>2 DEF SendSet, Send
  <2> QED  BY <1>10, <2>1, <2>3 DEF SendSet, Stored, Send
<1>11. ASSUME NEW r \in Requests, ReceiveStored(r) PROVE Shapes'
  <2>1. ServerOf(r) \in 1..Servers
    BY <1>11, <1>range DEF ReceiveStored, IInv, Keyed
  <2>2. unread' \in [1..Servers -> Seq(Replies)]
    BY <1>11, <2>1 DEF ReceiveStored
  <2> QED  BY <1>11, <2>2 DEF ReceiveStored
<1>12. ASSUME NEW r \in Requests, Drop(r) PROVE Shapes'
  BY <1>12 DEF Drop
<1>13. ASSUME NEW r \in Requests, RedisGetFails(r) PROVE Shapes'
  BY <1>13 DEF RedisGetFails
<1>14. ASSUME NEW r \in Requests, RedisSetFails(r) PROVE Shapes'
  BY <1>14 DEF RedisSetFails
<1>15. ASSUME NEW r \in Requests, BodyFails(r) PROVE Shapes'
  BY <1>15 DEF BodyFails
<1>16. ASSUME NEW s \in 1..Servers, Break(s) PROVE Shapes'
  BY <1>16 DEF Break
<1>17. ASSUME Evict PROVE Shapes'
  BY <1>17 DEF Evict
<1>18. ASSUME Tick PROVE Shapes'
  BY <1>18 DEF Tick
<1> QED
  BY <1>1, <1>2, <1>3, <1>4, <1>5, <1>6, <1>7, <1>8, <1>9,
     <1>10, <1>11, <1>12, <1>13, <1>14, <1>15, <1>16, <1>17, <1>18 DEF Next, Progress

(* A hit is a fresh entry of the request's own key: the lookup of its own   *)
(* command, unless the stream had been abandoned.                           *)
LEMMA HitsStep == IInv /\ [Next]_vars => HitsSound'
<1> SUFFICES ASSUME IInv, [Next]_vars PROVE HitsSound'
  OBVIOUS
<1>0. SetupSame
  BY SetupStays
<1>range. \A q \in Requests : HasKey(q) => ServerOf(q) \in 1..Servers
  BY ServerInRange DEF IInv
<1> USE ResponseCacheAssumption, <1>0, <1>range
    DEF IInv, SetupSame, TypeOK, Shapes, Keyed, OneReplyAwaited, HitsSound, HitSound, Goto,
        Answer, Hit, Receive, Send, Unlock, streams
<1>1. CASE UNCHANGED vars
  BY <1>1 DEF vars, setup, streams
<1>2. ASSUME NEW r \in Requests, Begin(r) PROVE HitsSound'
  BY <1>2 DEF Begin
<1>3. ASSUME NEW r \in Requests, Get(r) PROVE HitsSound'
  <2>1. Lookup(r) # None =>
            Lookup(r) \in Entries /\ Lookup(r).key = KeyOf(r) /\ Lookup(r).expires > clock
    BY LookupFresh DEF Fresh
  <2>2. CASE Lookup(r) = None
    BY <1>3, <2>2 DEF Get
  <2>3. CASE Lookup(r) # None
    <3> DEFINE e == Lookup(r)
               hit == [e.response EXCEPT !.x_cache = "HIT"]
    <3>1. hit.by = e.response.by /\ hit.outcome = e.response.outcome
      BY <2>1, <2>3, HitKeeps
    <3>2. response' = [response EXCEPT ![r] = hit] /\ served'[r] = [at |-> clock, entry |-> e]
      BY <1>3, <2>3 DEF Get
    <3>3. HasKey(r)
      BY <1>3 DEF Get
    <3>4. HitSound(r)'
      <4> HIDE DEF e, hit
      <4> QED  BY <2>1, <2>3, <3>1, <3>2 DEF e
    <3>5. pc' = [pc EXCEPT ![r] = "done"] /\ abandoned' = abandoned
      BY <1>3, <2>3 DEF Get
    <3>6. \A q \in Requests \ {r} : response'[q] = response[q] /\ served'[q] = served[q]
      BY <1>3, <2>3 DEF Get
    <3>7. \A q \in Requests \ {r} : HitSound(q)' <=> HitSound(q)
      <4> HIDE DEF e, hit
      <4> QED  BY <3>5, <3>6
    <3>8. \A q \in Requests \ {r} : pc'[q] = pc[q] /\ HasKey(q)' = HasKey(q)
      BY <3>5
    <3>9. pc'[r] = "done"
      BY <3>5
    <3> HIDE DEF e, hit, HitSound
    <3> QED  BY <3>3, <3>4, <3>6, <3>7, <3>8, <3>9
  <2> QED  BY <2>2, <2>3
<1>4. ASSUME NEW r \in Requests, SendGet(r) PROVE HitsSound'
  BY <1>4 DEF SendGet
<1>5. ASSUME NEW r \in Requests, ReceiveValue(r) PROVE HitsSound'
  <2> DEFINE first == Head(unread[ServerOf(r)])
  <2>1. HasKey(r) /\ ServerOf(r) \in 1..Servers /\ unread[ServerOf(r)] # <<>>
    BY <1>5, <1>range DEF ReceiveValue
  <2>2. first \in Replies
    BY <2>1
  <2>3. first.at \in 0..MaxClock /\ first.entry \in Entries \cup {None}
    BY <2>2 DEF Replies
  <2>4. first.entry # None => first.entry.key = KeyOf(first.to) /\ first.entry.expires > first.at
    BY <2>2 DEF Replies
  <2>5. backend = "memcached" /\ (ServerOf(r) \notin abandoned => first.to = r)
    BY <1>5 DEF ReceiveValue
  <2>6. Answer(r, first.entry, first.at) /\ UNCHANGED <<store, abandoned>>
    BY <1>5 DEF ReceiveValue
  <2>7. CASE first.entry = None
    <3>1. pc' = [pc EXCEPT ![r] = "handler"] /\ UNCHANGED <<response, served>>
      BY <2>6, <2>7
    <3>2. served[r] = None
      BY <1>5 DEF ReceiveValue
    <3>3. \A q \in Requests : HitSound(q)' <=> HitSound(q)
      <4> HIDE DEF first
      <4> QED  BY <2>6, <3>1
    <3> HIDE DEF first, HitSound
    <3> QED  BY <3>1, <3>2, <3>3
  <2>8. CASE first.entry # None
    <3> DEFINE e == first.entry
               hit == [e.response EXCEPT !.x_cache = "HIT"]
    <3>1. hit.by = e.response.by /\ hit.outcome = e.response.outcome
      BY <2>3, <2>8, HitKeeps
    <3>2. response' = [response EXCEPT ![r] = hit] /\ served'[r] = [at |-> first.at, entry |-> e]
      BY <2>6, <2>8
    <3>3. pc' = [pc EXCEPT ![r] = "done"] /\ abandoned' = abandoned
      BY <2>6, <2>8
    <3>4. \A q \in Requests \ {r} : response'[q] = response[q] /\ served'[q] = served[q]
      BY <2>6, <2>8
    <3>5. HitSound(r)'
      <4>1. CASE ServerOf(r) \in abandoned
        BY <2>5, <3>3, <4>1
      <4>2. CASE ServerOf(r) \notin abandoned
        <5>1. e \in Entries /\ e.key = KeyOf(r) /\ e.expires > first.at
          BY <2>3, <2>4, <2>5, <2>8, <4>2
        <5> HIDE DEF e, hit, first
        <5> QED  BY <2>3, <3>1, <3>2, <5>1
      <4> QED  BY <4>1, <4>2
    <3>6. \A q \in Requests \ {r} : HitSound(q)' <=> HitSound(q)
      <4> HIDE DEF e, hit, first
      <4> QED  BY <3>3, <3>4
    <3>7. \A q \in Requests \ {r} : pc'[q] = pc[q] /\ HasKey(q)' = HasKey(q)
      BY <3>3
    <3>8. pc'[r] = "done"
      BY <3>3
    <3> HIDE DEF e, hit, first, HitSound
    <3> QED  BY <2>1, <3>5, <3>4, <3>6, <3>7, <3>8
  <2> QED  BY <2>7, <2>8
<1>6. ASSUME NEW r \in Requests, CommandFails(r) PROVE HitsSound'
  BY <1>6 DEF CommandFails
<1>7. ASSUME NEW r \in Requests, Bypass(r) PROVE HitsSound'
  BY <1>7 DEF Bypass
<1>8. ASSUME NEW r \in Requests, Handle(r) PROVE HitsSound'
  BY <1>8 DEF Handle
<1>9. ASSUME NEW r \in Requests, Set(r) PROVE HitsSound'
  BY <1>9 DEF Set
<1>10. ASSUME NEW r \in Requests, SendSet(r) PROVE HitsSound'
  BY <1>10 DEF SendSet
<1>11. ASSUME NEW r \in Requests, ReceiveStored(r) PROVE HitsSound'
  BY <1>11 DEF ReceiveStored
<1>12. ASSUME NEW r \in Requests, Drop(r) PROVE HitsSound'
  <2>1. served[r] = None /\ served' = served /\ pc' = [pc EXCEPT ![r] = "gone"]
    BY <1>12 DEF Drop
  <2>2. response' = response /\ abandoned \subseteq abandoned'
    BY <1>12 DEF Drop
  <2>3. \A q \in Requests : HitSound(q) => HitSound(q)'
    BY <2>1, <2>2
  <2> HIDE DEF HitSound
  <2> QED  BY <2>1, <2>3
<1>13. ASSUME NEW r \in Requests, RedisGetFails(r) PROVE HitsSound'
  BY <1>13 DEF RedisGetFails
<1>14. ASSUME NEW r \in Requests, RedisSetFails(r) PROVE HitsSound'
  BY <1>14 DEF RedisSetFails
<1>15. ASSUME NEW r \in Requests, BodyFails(r) PROVE HitsSound'
  BY <1>15 DEF BodyFails
<1>16. ASSUME NEW s \in 1..Servers, Break(s) PROVE HitsSound'
  BY <1>16 DEF Break
<1>17. ASSUME Evict PROVE HitsSound'
  BY <1>17 DEF Evict
<1>18. ASSUME Tick PROVE HitsSound'
  BY <1>18 DEF Tick
<1> QED
  BY <1>1, <1>2, <1>3, <1>4, <1>5, <1>6, <1>7, <1>8, <1>9,
     <1>10, <1>11, <1>12, <1>13, <1>14, <1>15, <1>16, <1>17, <1>18 DEF Next, Progress

-----------------------------------------------------------------------------
LEMMA Invariance == Spec => []IInv
<1>1. IInv /\ [Next]_vars => IInv'
  BY TypeStep, ShapesStep, KeyedStep, MadeStep, AwaitStep, UnlockedStep, OwnStep, HitsStep
  DEF IInv
<1> QED  BY <1>1, InitIInv, PTL DEF Spec

(* Entries under one key were made for the same audience.                   *)
LEMMA KeySeparates ==
    ASSUME IInv, NEW r \in Requests, NEW q \in Requests, HasKey(r), HasKey(q), KeyOf(r) = KeyOf(q)
    PROVE  SameAudience(r, q)
<1>1. wire[r].method = wire[q].method /\ wire[r].path = wire[q].path
  BY DEF KeyOf, ResponseCacheKey
<1>2. policy.scope = "per_authorization" => wire[r].authorization = wire[q].authorization
  <2> SUFFICES ASSUME policy.scope = "per_authorization"
               PROVE  wire[r].authorization = wire[q].authorization
    OBVIOUS
  <2>1. StableHash[wire[r].authorization] = StableHash[wire[q].authorization]
    BY DEF KeyOf, ResponseCacheKey
  <2>2. {wire[r].authorization, wire[q].authorization} \subseteq DOMAIN StableHash
    BY ResponseCacheAssumption DEF IInv, TypeOK, HasKey, Cacheable
  <2> QED  BY <2>1, <2>2, ResponseCacheAssumption
<1>3. policy.vary =>
        {wire[r].vary, wire[q].vary} \subseteq {None, ""} \/ wire[r].vary = wire[q].vary
  BY DEF KeyOf, ResponseCacheKey
<1> QED  BY <1>1, <1>2, <1>3 DEF SameAudience

LEMMA HitsFollow == IInv => HitsAreOwnAndFresh
<1> SUFFICES ASSUME IInv, NEW r \in Requests, served[r] # None,
                    ~(backend = "memcached" /\ ServerOf(r) \in abandoned)
             PROVE  /\ SameAudience(r, response[r].by)
                    /\ ShouldStore(response[r].outcome)
                    /\ served[r].at - served[r].entry.stored < Lifetime
  BY DEF HitsAreOwnAndFresh
<1> DEFINE e == served[r].entry
<1>1. /\ HasKey(r) /\ e \in Entries /\ served[r].at \in 0..MaxClock
      /\ e.key = KeyOf(r) /\ e.expires > served[r].at
      /\ response[r].by = e.response.by /\ response[r].outcome = e.response.outcome
  BY DEF IInv, HitsSound, HitSound
<1>2. PICK q \in Requests, o \in Outcomes : e.response = Made(q, o, "MISS")
  BY <1>1 DEF Entries
<1>3. e.response.by = q
  BY <1>2 DEF Made
<1>4. /\ e.key = KeyOf(q) /\ HasKey(q) /\ ShouldStore(e.response.outcome)
      /\ e.stored \in 0..MaxClock /\ e.expires = e.stored + Lifetime
  BY <1>1, <1>3 DEF Entries
<1>5. SameAudience(r, q)
  BY <1>1, <1>4, KeySeparates
<1>6. Lifetime \in Nat
  BY LifetimeNat DEF IInv
<1>7. served[r].at - e.stored < Lifetime
  BY <1>1, <1>4, <1>6, ResponseCacheAssumption
<1> QED  BY <1>1, <1>3, <1>4, <1>5, <1>7

(* A HIT shows a response of the same audience that may be stored and has   *)
(* not outlived its time to live, unless a reply was abandoned.             *)
THEOREM HitsOwnAndFresh == Spec => []HitsAreOwnAndFresh
BY Invariance, HitsFollow, PTL

(* A request reads the reply to its own command, unless one was abandoned   *)
(* on that server's stream (the lock around each command).                  *)
THEOREM RepliesOwn == Spec => []OwnRepliesUnlessDropped
<1>1. IInv => OwnRepliesUnlessDropped
  BY DEF IInv
<1> QED  BY <1>1, Invariance, PTL

(* TypeOK holds of every reachable state.                                   *)
THEOREM TypeCorrect == Spec => []TypeOK
<1>1. IInv => TypeOK
  BY DEF IInv
<1> QED  BY <1>1, Invariance, PTL
=============================================================================
