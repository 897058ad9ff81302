---------------------------- MODULE ServicesProofs ----------------------------
(***************************************************************************)
(* Theorems about Services: the log and the health probes inside it behave  *)
(* as ShardedSink and HealthProbe do alone, main undoes what it did, and an  *)
(* override has the last word; for every scenario, all settings and lines,  *)
(* and every number of contributors.                                        *)
(***************************************************************************)
EXTENDS Services, SequenceTheorems, TLAPS

-----------------------------------------------------------------------------
(***************************************************************************)
(* The sink.                                                                *)
(***************************************************************************)

Unspawned == sink = "none" => rings = <<>> /\ settings = None

Spawned == sink # "none" => settings \in {ToSinkConfig(c) : c \in Settings}

(* How many lines of a shard have left its ring and its batch.              *)
Gone(s) == Len(accepted[s]) - Len(batch[s]) - Len(rings[s])

(* What a ring took is what is gone, then the batch, then the ring.         *)
Queued(s) ==
    /\ Gone(s) >= 0
    /\ \A i \in DOMAIN batch[s] : batch[s][i] = accepted[s][Gone(s) + i]
    /\ \A i \in DOMAIN rings[s] : rings[s][i] = accepted[s][Gone(s) + Len(batch[s]) + i]

Settled(x) == x \in Range(written) \cup lost

Passed(s) == \A i \in DOMAIN accepted[s] : Settled(accepted[s][i]) <=> i <= Gone(s)

(* No line is taken twice.                                                  *)
Apart == \A s, t \in DOMAIN rings : \A i \in DOMAIN accepted[s], j \in DOMAIN accepted[t] :
    accepted[s][i] = accepted[t][j] => s = t /\ i = j

Once == \A m, n \in DOMAIN written : written[m] = written[n] => m = n

InOrder(s) == \A i, j \in DOMAIN accepted[s], m, n \in DOMAIN written :
    i < j /\ written[m] = accepted[s][i] /\ written[n] = accepted[s][j] => m < n

FlushedAll == sink = "flushed" => \A s \in DOMAIN rings : rings[s] = <<>> /\ batch[s] = <<>>

LostWereTaken == \A x \in lost : \E s \in DOMAIN rings : x \in Range(accepted[s])

OInv ==
    /\ Apart /\ Once /\ FlushedAll /\ LostWereTaken
    /\ \A s \in DOMAIN rings : Queued(s) /\ Passed(s) /\ InOrder(s)

TInv == SinkTypeOK /\ Unspawned /\ Spawned

-----------------------------------------------------------------------------
(* Settings are at least one after to_sink_config.                          *)
LEMMA Clamped ==
    ASSUME NEW c \in Settings
    PROVE  LET d == ToSinkConfig(c)
           IN  /\ d \in SinkConfigs /\ d # None
               /\ d.shards \in Nat \ {0} /\ d.ring_capacity \in Nat \ {0}
               /\ d.drain_batch \in Nat \ {0}
<1>1. c \in SinkConfigs
  BY SinkAssumption
<1>2. \A n \in Nat : AtLeastOne(n) \in Nat \ {0}
  BY DEF AtLeastOne
<1> QED
  BY <1>1, <1>2, SinkAssumption DEF ToSinkConfig, SinkConfigs

LEMMA InitInv == SinkInit => TInv /\ OInv
<1>1. SinkInit => TInv
  <2> SUFFICES ASSUME SinkInit PROVE SinkTypeOK
    BY DEF SinkInit, TInv, Unspawned, Spawned
  <2>1. \A s \in DOMAIN rings : FALSE
    BY DEF SinkInit
  <2>2. /\ settings \in {ToSinkConfig(c) : c \in Settings} \cup {None}
        /\ sink = "none" /\ lock = 0 /\ dead = {} /\ shed = {} /\ lost = {}
    BY DEF SinkInit
  <2>3. /\ rings \in Seq(Seq(Lines)) /\ batch \in Seq(Seq(Lines)) /\ accepted \in Seq(Seq(Lines))
        /\ Len(batch) = Len(rings) /\ Len(accepted) = Len(rings) /\ written \in Seq(Lines)
    BY DEF SinkInit
  <2> QED
    BY <2>1, <2>2, <2>3 DEF SinkTypeOK
<1>2. SinkInit => OInv
  BY DEF SinkInit, OInv, Apart, Once, FlushedAll, LostWereTaken
<1> QED
  BY <1>1, <1>2

(* The rings of a sink that is spawned are empty.                           *)
LEMMA SpawnStep ==
    ASSUME TInv, NEW cfg \in Settings, Spawn(cfg)
    PROVE  TInv' /\ (OInv => OInv')
<1> DEFINE N == IF cfg.enabled THEN settings'.shards ELSE 0
           empty == [s \in 1..N |-> <<>>]
<1>1. /\ settings' = ToSinkConfig(cfg) /\ sink' = "open"
      /\ rings' = empty /\ batch' = empty /\ accepted' = empty
      /\ UNCHANGED <<shed, lock, dead, written, lost>>
  BY DEF Spawn, writer
<1>2. /\ settings'.shards \in Nat \ {0} /\ settings'.ring_capacity \in Nat \ {0}
      /\ settings'.drain_batch \in Nat \ {0}
  BY <1>1, Clamped
<1>3. N \in Nat /\ N <= settings'.shards
  BY <1>2
<1>4. lock = 0 /\ dead = {} /\ written \in Seq(Lines) /\ rings = <<>>
  BY DEF TInv, SinkTypeOK, Unspawned, Spawn
<1>5. empty \in Seq(Seq(Lines)) /\ Len(empty) = N /\ DOMAIN empty = 1..N
      /\ \A s \in 1..N : empty[s] = <<>>
  <2>1. <<>> \in Seq(Lines)
    OBVIOUS
  <2>2. \A n \in Nat : LET e == [s \in 1..n |-> <<>>]
                        IN  e \in Seq(Seq(Lines)) /\ Len(e) = n
    BY <2>1
  <2> QED
    BY <1>3, <2>2
<1> HIDE DEF N, empty
<1>6. TInv'
  <2>1. /\ settings' \in {ToSinkConfig(c) : c \in Settings} /\ sink' = "open"
        /\ shed' \subseteq Lines /\ lost' \subseteq Lines
    BY <1>1 DEF TInv, SinkTypeOK
  <2>2. lock' = 0 /\ dead' = {} /\ written' \in Seq(Lines)
    BY <1>1, <1>4
  <2>3. /\ rings' \in Seq(Seq(Lines)) /\ batch' \in Seq(Seq(Lines)) /\ accepted' \in Seq(Seq(Lines))
        /\ Len(batch') = Len(rings') /\ Len(accepted') = Len(rings')
    BY <1>1, <1>5
  <2>4. \A s \in DOMAIN rings' :
            /\ settings'.shards >= s
            /\ Len(rings'[s]) <= settings'.ring_capacity /\ settings'.ring_capacity > 0
            /\ Len(batch'[s]) <= settings'.drain_batch /\ settings'.drain_batch > 0
    BY <1>1, <1>2, <1>3, <1>5
  <2> QED
    BY <2>1, <2>2, <2>3, <2>4 DEF TInv, SinkTypeOK, Unspawned, Spawned
<1>7. OInv => OInv'
  BY <1>1, <1>4, <1>5 DEF OInv, Apart, Once, FlushedAll, LostWereTaken, Queued, Passed, InOrder, Gone
<1> QED
  BY <1>6, <1>7

-----------------------------------------------------------------------------
(* The types of the queues, and a change to one of them.                    *)
LEMMA Shapes ==
    ASSUME TInv
    PROVE  /\ DOMAIN batch = DOMAIN rings /\ DOMAIN accepted = DOMAIN rings
           /\ \A s \in DOMAIN rings :
                /\ s \in Shards /\ sink # "none"
                /\ rings[s] \in Seq(Lines) /\ batch[s] \in Seq(Lines) /\ accepted[s] \in Seq(Lines)
           /\ DOMAIN rings \subseteq Nat \ {0}
<1>1. /\ rings \in Seq(Seq(Lines)) /\ batch \in Seq(Seq(Lines)) /\ accepted \in Seq(Seq(Lines))
      /\ Len(batch) = Len(rings) /\ Len(accepted) = Len(rings)
  BY DEF TInv, SinkTypeOK
<1>2. DOMAIN rings = 1..Len(rings) /\ DOMAIN batch = 1..Len(batch) /\ DOMAIN accepted = 1..Len(accepted)
  BY <1>1, LenProperties
<1>3. ASSUME NEW s \in DOMAIN rings PROVE s \in Shards /\ sink # "none"
  <2>1. sink # "none"
    BY <1>3 DEF TInv, Unspawned
  <2>2. PICK c \in Settings : settings = ToSinkConfig(c)
    BY <2>1 DEF TInv, Spawned
  <2>3. settings.shards = AtLeastOne(c.shards)
    BY <2>2, SinkAssumption DEF ToSinkConfig, SinkConfigs
  <2>4. AtLeastOne(c.shards) \in Nat /\ s \in Nat \ {0} /\ s <= AtLeastOne(c.shards)
    BY <1>1, <1>2, <1>3, <2>2, <2>3, Clamped DEF TInv, SinkTypeOK
  <2> QED
    BY <2>1, <2>4 DEF Shards
<1> QED
  BY <1>1, <1>2, <1>3, ElementOfSeq

LEMMA Updated ==
    ASSUME NEW q \in Seq(Seq(Lines)), NEW s \in DOMAIN q, NEW e \in Seq(Lines)
    PROVE  /\ [q EXCEPT ![s] = e] \in Seq(Seq(Lines)) /\ Len([q EXCEPT ![s] = e]) = Len(q)
           /\ DOMAIN [q EXCEPT ![s] = e] = DOMAIN q
           /\ \A t \in DOMAIN q : [q EXCEPT ![s] = e][t] = IF t = s THEN e ELSE q[t]
<1>1. DOMAIN q = 1..Len(q)
  BY LenProperties
<1> QED
  BY <1>1, ExceptSeq

(* The settings stay, and the queues keep to them.                          *)
LEMMA TypeKept ==
    ASSUME TInv, UNCHANGED <<settings, sink>>,
           rings' \in Seq(Seq(Lines)), batch' \in Seq(Seq(Lines)), accepted' \in Seq(Seq(Lines)),
           Len(rings') = Len(rings), Len(batch') = Len(batch), Len(accepted') = Len(accepted),
           \A t \in DOMAIN rings :
                Len(rings'[t]) <= settings.ring_capacity /\ Len(batch'[t]) <= settings.drain_batch,
           lock' \in {0} \cup DOMAIN rings, dead' \subseteq DOMAIN rings,
           written' \in Seq(Lines), shed' \subseteq Lines, lost' \subseteq Lines
    PROVE  TInv'
<1>1. DOMAIN rings' = DOMAIN rings
  BY LenProperties DEF TInv, SinkTypeOK
<1>2. sink' = "none" => rings' = <<>> /\ settings' = None
  <2> SUFFICES ASSUME sink = "none" PROVE rings' = <<>>
    BY DEF TInv, Unspawned
  <2>1. Len(rings') = 0
    BY DEF TInv, Unspawned
  <2> QED
    BY <2>1, EmptySeq
<1> QED
  BY <1>1, <1>2 DEF TInv, SinkTypeOK, Unspawned, Spawned

LEMMA Limits ==
    ASSUME TInv, NEW s \in DOMAIN rings
    PROVE  /\ settings.ring_capacity \in Nat /\ settings.drain_batch \in Nat
           /\ Len(rings[s]) \in Nat /\ Len(rings[s]) <= settings.ring_capacity
           /\ Len(batch[s]) \in Nat /\ Len(batch[s]) <= settings.drain_batch
<1>1. settings \in {ToSinkConfig(c) : c \in Settings}
  BY Shapes DEF TInv, Spawned
<1>2. settings.ring_capacity \in Nat /\ settings.drain_batch \in Nat
  BY <1>1, Clamped
<1>3. Len(rings[s]) \in Nat /\ Len(batch[s]) \in Nat
  BY Shapes, LenProperties
<1> QED
  BY <1>2, <1>3 DEF TInv, SinkTypeOK

LEMMA TypeStep == ASSUME TInv, [SinkNext]_sinkVars PROVE TInv'
<1> USE Shapes
<1>1. ASSUME NEW x \in Lines, WriteInline(x) PROVE TInv'
  BY <1>1, AppendProperties DEF WriteInline, queues, TInv, SinkTypeOK, Unspawned, Spawned
<1>2. ASSUME NEW x \in Lines, NEW s \in Shards, Push(x, s) PROVE TInv'
  <2>1. /\ Append(rings[s], x) \in Seq(Lines) /\ Append(accepted[s], x) \in Seq(Lines)
        /\ Len(Append(rings[s], x)) = Len(rings[s]) + 1 /\ Len(rings[s]) \in Nat
    BY <1>2, AppendProperties, LenProperties DEF Push
  <2>3. /\ rings' \in Seq(Seq(Lines)) /\ Len(rings') = Len(rings) /\ DOMAIN rings' = DOMAIN rings
        /\ \A t \in DOMAIN rings : rings'[t] = IF t = s THEN Append(rings[s], x) ELSE rings[t]
        /\ accepted' \in Seq(Seq(Lines)) /\ Len(accepted') = Len(accepted)
    BY <1>2, <2>1, Updated DEF Push, TInv, SinkTypeOK
  <2>4. \A t \in DOMAIN rings :
            Len(rings'[t]) <= settings.ring_capacity /\ Len(batch'[t]) <= settings.drain_batch
    BY <1>2, <2>1, <2>3, Limits DEF Push
  <2> QED
    BY <1>2, <2>3, <2>4, TypeKept DEF Push, writer, TInv, SinkTypeOK
<1>3. ASSUME NEW x \in Lines, NEW s \in Shards, Shed(x, s) PROVE TInv'
  BY <1>3 DEF Shed, writer, TInv, SinkTypeOK, Unspawned, Spawned
<1>4. ASSUME NEW s \in Shards, PopBatch(s) PROVE TInv'
  <2>1. PICK n \in 1..Len(rings[s]) :
            /\ n <= settings.drain_batch
            /\ batch' = [batch EXCEPT ![s] = SubSeq(rings[s], 1, n)]
            /\ rings' = [rings EXCEPT ![s] = SubSeq(@, n + 1, Len(@))]
    BY <1>4 DEF PopBatch
  <2> DEFINE b == SubSeq(rings[s], 1, n)
             q == SubSeq(rings[s], n + 1, Len(rings[s]))
  <2>2. s \in DOMAIN rings /\ rings[s] \in Seq(Lines) /\ Len(rings[s]) \in Nat
    BY <1>4 DEF PopBatch, Working
  <2>3. /\ b \in Seq(Lines) /\ Len(b) = n /\ q \in Seq(Lines) /\ Len(q) = Len(rings[s]) - n
    BY <2>2, SubSeqProperties
  <2> HIDE DEF b, q
  <2>4. /\ rings' \in Seq(Seq(Lines)) /\ Len(rings') = Len(rings) /\ DOMAIN rings' = DOMAIN rings
        /\ \A t \in DOMAIN rings : rings'[t] = IF t = s THEN q ELSE rings[t]
    BY <2>1, <2>2, <2>3, Updated DEF q, TInv, SinkTypeOK
  <2>5. /\ batch' \in Seq(Seq(Lines)) /\ Len(batch') = Len(batch)
        /\ \A t \in DOMAIN rings : batch'[t] = IF t = s THEN b ELSE batch[t]
    <3>1. batch \in Seq(Seq(Lines)) /\ s \in DOMAIN batch /\ batch' = [batch EXCEPT ![s] = b]
      BY <2>1, <2>2 DEF b, TInv, SinkTypeOK
    <3> QED
      BY <2>3, <3>1, Updated
  <2>6. \A t \in DOMAIN rings :
            /\ Len(rings'[t]) <= settings.ring_capacity
            /\ Len(batch'[t]) <= settings.drain_batch
    <3>1. ASSUME NEW t \in DOMAIN rings, t # s
          PROVE  rings'[t] = rings[t] /\ batch'[t] = batch[t]
      BY <2>4, <2>5, <3>1
    <3>2. Len(q) <= settings.ring_capacity /\ Len(b) <= settings.drain_batch
      <4> HIDE Shapes
      <4>1. n \in Nat /\ n > 0 /\ n <= settings.drain_batch
        BY <2>1, <2>2
      <4> QED
        BY <2>2, <2>3, <4>1, Limits
    <3> QED
      BY <2>2, <2>4, <2>5, <3>1, <3>2, Limits
  <2> QED
    BY <1>4, <2>4, <2>5, <2>6, TypeKept DEF PopBatch, writer, TInv, SinkTypeOK
<1>5. ASSUME NEW s \in Shards, s \in DOMAIN batch, batch[s] # <<>>,
             batch' = [batch EXCEPT ![s] = Tail(@)],
             UNCHANGED <<settings, rings, accepted, shed, lock, dead, sink>>,
             written' \in Seq(Lines), lost' \subseteq Lines
      PROVE  TInv'
  <2>1. batch[s] \in Seq(Lines) /\ Tail(batch[s]) \in Seq(Lines)
        /\ Len(Tail(batch[s])) = Len(batch[s]) - 1 /\ Len(batch[s]) \in Nat
    BY <1>5, HeadTailProperties, LenProperties
  <2>2. /\ batch' \in Seq(Seq(Lines)) /\ Len(batch') = Len(batch)
        /\ \A t \in DOMAIN rings : batch'[t] = IF t = s THEN Tail(batch[s]) ELSE batch[t]
    BY <1>5, <2>1, Updated DEF TInv, SinkTypeOK
  <2>3. \A t \in DOMAIN rings :
            Len(rings'[t]) <= settings.ring_capacity /\ Len(batch'[t]) <= settings.drain_batch
    BY <1>5, <2>1, <2>2, Limits
  <2> QED
    BY <1>5, <2>2, <2>3, TypeKept DEF TInv, SinkTypeOK
<1>6. ASSUME NEW s \in Shards, s \in DOMAIN batch, batch[s] # <<>>
      PROVE  Head(batch[s]) \in Lines
  BY <1>6, HeadTailProperties
<1>7. ASSUME NEW s \in Shards, Worker(s) PROVE TInv'
  <2>1. CASE PopBatch(s)
    BY <1>4, <2>1
  <2>2. CASE LockWriter(s)
    BY <2>2 DEF LockWriter, Working, queues, TInv, SinkTypeOK, Unspawned, Spawned
  <2>3. CASE WriteLine(s)
    BY <1>5, <1>6, <2>3, AppendProperties DEF WriteLine, TInv, SinkTypeOK
  <2>4. CASE LineFails(s)
    BY <1>5, <1>6, <2>4 DEF LineFails, TInv, SinkTypeOK
  <2>5. CASE Unlock(s)
    BY <2>5 DEF Unlock, queues, TInv, SinkTypeOK, Unspawned, Spawned
  <2> QED
    BY <1>7, <2>1, <2>2, <2>3, <2>4, <2>5 DEF Worker
<1>8. ASSUME NEW s \in Shards, WriterPanics(s) PROVE TInv'
  BY <1>8 DEF WriterPanics, queues, TInv, SinkTypeOK, Unspawned, Spawned
<1>9. CASE Guard
  BY <1>9 DEF Guard, ShutDown, Flushed, ShutDownFails, TimesOut, DropGuard, End, queues, writer,
              TInv, SinkTypeOK, Unspawned, Spawned
<1>10. CASE UNCHANGED sinkVars
  BY <1>10 DEF sinkVars, queues, writer, TInv, SinkTypeOK, Unspawned, Spawned
<1> QED
  BY <1>1, <1>2, <1>3, <1>7, <1>8, <1>9, <1>10, SpawnStep DEF SinkNext, LogLine

-----------------------------------------------------------------------------
(* The order of the lines.                                                  *)

(* The queues and the log stay.                                             *)
LEMMA Unmoved ==
    ASSUME OInv, UNCHANGED <<rings, batch, accepted, written, lost>>, FlushedAll'
    PROVE  OInv'
<1>1. Apart' /\ Once' /\ LostWereTaken'
  BY DEF OInv, Apart, Once, LostWereTaken
<1>2. ASSUME NEW s \in DOMAIN rings PROVE Queued(s)' /\ Passed(s)' /\ InOrder(s)'
  <2>1. Queued(s) /\ Passed(s) /\ InOrder(s)
    BY DEF OInv
  <2> QED
    BY <2>1 DEF Queued, Passed, InOrder, Gone, Settled
<1> QED
  BY <1>1, <1>2 DEF OInv

(* A line that comes is new.                                                *)
LEMMA NewLine ==
    ASSUME TInv, OInv, NEW x, CanLog(x)
    PROVE  /\ x \notin Range(written) /\ ~Settled(x)
           /\ \A s \in DOMAIN rings : \A i \in DOMAIN accepted[s] : accepted[s][i] # x
<1>1. \A s \in DOMAIN rings : x \notin Range(accepted[s])
  BY Shapes DEF CanLog, Logged
<1>2. x \notin Range(written)
  BY DEF CanLog, Logged
<1>3. x \notin lost
  BY <1>1 DEF OInv, LostWereTaken
<1> QED
  BY <1>1, <1>2, <1>3 DEF Settled, Range

LEMMA InlineStep ==
    ASSUME TInv, OInv, NEW x \in Lines, WriteInline(x)
    PROVE  OInv'
<1>1. /\ written' = Append(written, x) /\ UNCHANGED <<rings, batch, accepted, lost, sink>>
      /\ x \notin Range(written)
      /\ \A s \in DOMAIN rings : \A i \in DOMAIN accepted[s] : accepted[s][i] # x
  BY NewLine DEF WriteInline, queues
<1>2. /\ Len(written) \in Nat /\ DOMAIN written = 1..Len(written) /\ DOMAIN written' = 1..(Len(written) + 1)
      /\ \A n \in DOMAIN written : written'[n] = written[n]
      /\ written'[Len(written) + 1] = x
  BY <1>1, AppendProperties, LenProperties DEF TInv, SinkTypeOK
<1>3. Range(written') = Range(written) \cup {x}
  BY <1>2 DEF Range
<1>4. Once'
  BY <1>1, <1>2 DEF OInv, Once, Range
<1>5. ASSUME NEW s \in DOMAIN rings PROVE Queued(s)' /\ Passed(s)' /\ InOrder(s)'
  <2>1. Queued(s) /\ Passed(s) /\ InOrder(s) /\ \A i \in DOMAIN accepted[s] : accepted[s][i] # x
    BY <1>1 DEF OInv
  <2>2. Queued(s)'
    BY <1>1, <2>1 DEF Queued, Gone
  <2>3. Passed(s)'
    BY <1>1, <1>3, <2>1 DEF Passed, Settled, Gone
  <2>4. InOrder(s)'
    BY <1>1, <1>2, <2>1 DEF InOrder
  <2> QED
    BY <2>2, <2>3, <2>4
<1> QED
  BY <1>1, <1>4, <1>5 DEF OInv, Apart, FlushedAll, LostWereTaken

LEMMA PushStep ==
    ASSUME TInv, OInv, NEW x \in Lines, NEW s \in DOMAIN rings, Push(x, s)
    PROVE  OInv'
<1>1. /\ UNCHANGED <<batch, written, lost, sink>>
      /\ rings' = [rings EXCEPT ![s] = Append(@, x)] /\ accepted' = [accepted EXCEPT ![s] = Append(@, x)]
      /\ x \notin Range(written) /\ sink # "flushed"
  BY NewLine DEF Push, CanLog, writer
<1>2. /\ DOMAIN rings' = DOMAIN rings /\ DOMAIN accepted' = DOMAIN rings
      /\ \A t \in DOMAIN rings : t # s => rings'[t] = rings[t] /\ accepted'[t] = accepted[t]
      /\ rings'[s] = Append(rings[s], x) /\ accepted'[s] = Append(accepted[s], x)
  BY <1>1, Shapes
<1> DEFINE R == Len(rings[s])
           B == Len(batch[s])
           A == Len(accepted[s])
<1>3. /\ R \in Nat /\ A \in Nat /\ B \in Nat
      /\ DOMAIN rings[s] = 1..R /\ DOMAIN accepted[s] = 1..A /\ DOMAIN batch[s] = 1..B
      /\ Len(rings'[s]) = R + 1 /\ DOMAIN rings'[s] = 1..(R + 1)
      /\ Len(accepted'[s]) = A + 1 /\ DOMAIN accepted'[s] = 1..(A + 1)
      /\ \A i \in 1..R : rings'[s][i] = rings[s][i]
      /\ rings'[s][R + 1] = x
      /\ \A i \in 1..A : accepted'[s][i] = accepted[s][i]
      /\ accepted'[s][A + 1] = x
  BY <1>2, Shapes, AppendProperties, LenProperties
<1> HIDE DEF R, A, B
<1>4. \A t \in DOMAIN rings : \A i \in DOMAIN accepted[t] : accepted[t][i] # x
  BY NewLine DEF Push
<1>5. ~Settled(x)
  BY NewLine DEF Push
<1>6. Apart'
  <2> SUFFICES ASSUME NEW t \in DOMAIN rings, NEW u \in DOMAIN rings,
                      NEW i \in DOMAIN accepted'[t], NEW j \in DOMAIN accepted'[u],
                      accepted'[t][i] = accepted'[u][j]
               PROVE  t = u /\ i = j
    BY <1>2 DEF Apart
  <2>1. \A v \in DOMAIN rings : \A k \in DOMAIN accepted'[v] :
            \/ k \in DOMAIN accepted[v] /\ accepted'[v][k] = accepted[v][k]
            \/ v = s /\ k = A + 1 /\ accepted'[v][k] = x
    <3>1. \A k \in 1..(A + 1) : k \in 1..A \/ k = A + 1
      BY <1>3
    <3>2. \A k \in DOMAIN accepted'[s] :
            \/ k \in DOMAIN accepted[s] /\ accepted'[s][k] = accepted[s][k]
            \/ k = A + 1 /\ accepted'[s][k] = x
      BY <1>3, <3>1
    <3> QED
      BY <1>2, <3>2
  <2>2. CASE accepted'[t][i] = x
    <3>1. t = s /\ i = A + 1
      BY <1>4, <2>1, <2>2
    <3>2. u = s /\ j = A + 1
      BY <1>4, <2>1, <2>2
    <3> QED
      BY <3>1, <3>2
  <2>3. CASE accepted'[t][i] # x
    <3>1. i \in DOMAIN accepted[t] /\ j \in DOMAIN accepted[u] /\ accepted[t][i] = accepted[u][j]
      BY <2>1, <2>3
    <3> QED
      BY <3>1 DEF OInv, Apart
  <2> QED
    BY <2>2, <2>3
<1>7. LostWereTaken'
  <2>1. \A t \in DOMAIN rings : Range(accepted[t]) \subseteq Range(accepted'[t])
    <3> SUFFICES ASSUME NEW t \in DOMAIN rings, NEW i \in DOMAIN accepted[t]
                 PROVE  i \in DOMAIN accepted'[t] /\ accepted'[t][i] = accepted[t][i]
      BY DEF Range
    <3> QED
      BY <1>2, <1>3
  <2> QED
    BY <1>1, <1>2, <2>1 DEF OInv, LostWereTaken
<1>8. ASSUME NEW t \in DOMAIN rings PROVE Queued(t)' /\ Passed(t)' /\ InOrder(t)'
  <2>1. Queued(t) /\ Passed(t) /\ InOrder(t)
    BY DEF OInv
  <2>2. CASE t # s
    BY <1>1, <1>2, <2>1, <2>2 DEF Queued, Passed, InOrder, Gone, Settled
  <2>3. CASE t = s
    <3>1. Gone(s) = A - B - R /\ Gone(s)' = A - B - R /\ A - B - R >= 0
      <4>1. Gone(s) = A - B - R /\ Gone(s) >= 0
        BY <2>1, <2>3 DEF Gone, Queued, R, A, B
      <4>2. Gone(s)' = (A + 1) - B - (R + 1)
        BY <1>1, <1>3 DEF Gone, B
      <4> QED
        BY <1>3, <4>1, <4>2
    <3>2. Queued(s)'
      <4>1. \A i \in 1..B : batch'[s][i] = accepted'[s][Gone(s)' + i]
        BY <1>1, <1>3, <2>1, <2>3, <3>1 DEF Queued
      <4>2. \A i \in 1..(R + 1) : rings'[s][i] = accepted'[s][Gone(s)' + B + i]
        <5>1. \A i \in 1..R : rings[s][i] = accepted[s][Gone(s) + B + i]
          BY <1>3, <2>1, <2>3 DEF Queued, B
        <5>2. A - B - R + B + (R + 1) = A + 1
          BY <1>3
        <5>3. ASSUME NEW i \in 1..R
              PROVE  /\ Gone(s)' + B + i \in 1..A /\ rings'[s][i] = rings[s][i]
                     /\ rings[s][i] = accepted[s][Gone(s)' + B + i]
          BY <1>3, <3>1, <5>1
        <5>4. \A i \in 1..(R + 1) : i \in 1..R \/ i = R + 1
          BY <1>3
        <5> QED
          BY <1>3, <3>1, <5>2, <5>3, <5>4
      <4> QED
        BY <1>1, <1>3, <3>1, <4>1, <4>2 DEF Queued, B
    <3>3. Passed(s)'
      BY <1>1, <1>3, <1>5, <2>1, <2>3, <3>1 DEF Passed, Settled
    <3>4. InOrder(s)'
      BY <1>1, <1>3, <2>1, <2>3 DEF InOrder, Range
    <3> QED
      BY <2>3, <3>2, <3>3, <3>4
  <2> QED
    BY <2>2, <2>3
<1> QED
  BY <1>1, <1>2, <1>6, <1>7, <1>8 DEF OInv, Once, FlushedAll

LEMMA PopStep ==
    ASSUME TInv, OInv, NEW s \in DOMAIN rings, PopBatch(s)
    PROVE  OInv'
<1>1. PICK n \in 1..Len(rings[s]) :
          /\ batch' = [batch EXCEPT ![s] = SubSeq(rings[s], 1, n)]
          /\ rings' = [rings EXCEPT ![s] = SubSeq(@, n + 1, Len(@))]
  BY DEF PopBatch
<1>2. batch[s] = <<>> /\ rings[s] # <<>> /\ UNCHANGED <<accepted, written, lost, sink>>
  BY DEF PopBatch, writer
<1> DEFINE R == Len(rings[s])
           b == SubSeq(rings[s], 1, n)
           q == SubSeq(rings[s], n + 1, R)
<1>3. rings[s] \in Seq(Lines) /\ R \in Nat /\ DOMAIN rings[s] = 1..R /\ n \in 1..R /\ n \in Nat
  BY Shapes, LenProperties
<1>4. /\ b \in Seq(Lines) /\ Len(b) = n /\ DOMAIN b = 1..n
      /\ q \in Seq(Lines) /\ Len(q) = R - n /\ DOMAIN q = 1..(R - n)
      /\ \A i \in 1..n : b[i] = rings[s][i]
      /\ \A i \in 1..(R - n) : q[i] = rings[s][n + i]
  <2>1. b \in Seq(Lines) /\ Len(b) = n /\ \A i \in 1..n : b[i] = rings[s][i]
    <3>1. 1 \in 1..(R + 1) /\ n \in 0..R
      BY <1>3
    <3> HIDE DEF R
    <3>2. /\ b \in Seq(Lines) /\ Len(b) = IF 1 <= n THEN n - 1 + 1 ELSE 0
          /\ \A i \in 1..(n - 1 + 1) : b[i] = rings[s][1 + i - 1]
      BY <1>3, <3>1, SubSeqProperties DEF R
    <3> HIDE DEF b
    <3>3. Len(b) = n
      BY <1>3, <3>2
    <3>4. ASSUME NEW i \in 1..n PROVE b[i] = rings[s][i]
      <4>1. i \in 1..(n - 1 + 1) /\ 1 + i - 1 = i
        BY <1>3
      <4> QED
        BY <3>2, <4>1
    <3> QED
      BY <3>2, <3>3, <3>4
  <2>2. q \in Seq(Lines) /\ Len(q) = R - n /\ \A i \in 1..(R - n) : q[i] = rings[s][n + i]
    <3>1. n + 1 \in 1..(R + 1) /\ R \in 0..R /\ R - (n + 1) + 1 = R - n
      BY <1>3
    <3>2. /\ q \in Seq(Lines) /\ Len(q) = IF n + 1 <= R THEN R - (n + 1) + 1 ELSE 0
          /\ \A i \in 1..(R - (n + 1) + 1) : q[i] = rings[s][n + 1 + i - 1]
      BY <1>3, <3>1, SubSeqProperties
    <3> HIDE DEF q
    <3>3. Len(q) = R - n
      <4> HIDE DEF R
      <4>1. n + 1 <= R \/ R - n = 0
        BY <1>3
      <4> QED
        BY <3>1, <3>2, <4>1
    <3>4. ASSUME NEW i \in 1..(R - n) PROVE q[i] = rings[s][n + i]
      <4>1. i \in 1..(R - (n + 1) + 1) /\ n + 1 + i - 1 = n + i
        BY <1>3
      <4> QED
        BY <3>2, <4>1
    <3> QED
      BY <3>2, <3>3, <3>4
  <2> HIDE DEF b, q, R
  <2> QED
    BY <1>3, <2>1, <2>2, LenProperties
<1>5. /\ DOMAIN rings' = DOMAIN rings /\ rings'[s] = q /\ batch'[s] = b
      /\ \A t \in DOMAIN rings : t # s => rings'[t] = rings[t] /\ batch'[t] = batch[t]
  BY <1>1, Shapes
<1> HIDE DEF b, q, R
<1>6. ASSUME NEW t \in DOMAIN rings PROVE Queued(t)' /\ Passed(t)' /\ InOrder(t)'
  <2>1. Queued(t) /\ Passed(t) /\ InOrder(t)
    BY DEF OInv
  <2>2. CASE t # s
    BY <1>2, <1>5, <2>1, <2>2 DEF Queued, Passed, InOrder, Gone, Settled
  <2>3. CASE t = s
    <3> DEFINE A == Len(accepted[s])
    <3>1. A \in Nat
      BY Shapes, LenProperties
    <3>2. /\ Gone(s) = A - R /\ A - R >= 0
          /\ \A i \in 1..R : rings[s][i] = accepted[s][A - R + i]
      <4>1. Len(batch[s]) = 0
        BY <1>2
      <4>2. Gone(s) = A - 0 - R
        BY <4>1 DEF Gone, R
      <4>3. /\ Gone(s) >= 0
            /\ \A i \in 1..R : rings[s][i] = accepted[s][Gone(s) + 0 + i]
        BY <1>3, <2>1, <2>3, <4>1 DEF Queued
      <4> QED
        BY <1>3, <3>1, <4>2, <4>3
    <3>3. Gone(s)' = A - R
      <4>1. Gone(s)' = A - n - (R - n)
        BY <1>2, <1>4, <1>5 DEF Gone
      <4> QED
        BY <1>3, <3>1, <4>1
    <3> HIDE DEF A
    <3>4. Queued(s)'
      <4>1. \A i \in 1..n : b[i] = accepted[s][A - R + i]
        BY <1>3, <1>4, <3>2
      <4>2. \A i \in 1..(R - n) : n + i \in 1..R /\ q[i] = rings[s][n + i]
        BY <1>3, <1>4
      <4>3. \A i \in 1..(R - n) : q[i] = accepted[s][A - R + n + i]
        BY <1>3, <3>1, <3>2, <4>2
      <4> QED
        BY <1>2, <1>4, <1>5, <3>2, <3>3, <4>1, <4>3 DEF Queued
    <3> QED
      BY <1>2, <2>1, <2>3, <3>2, <3>3, <3>4 DEF Passed, InOrder, Settled
  <2> QED
    BY <2>2, <2>3
<1>7. sink # "flushed"
  BY <1>2 DEF OInv, FlushedAll
<1> QED
  BY <1>2, <1>5, <1>6, <1>7 DEF OInv, Apart, Once, FlushedAll, LostWereTaken

(* The next line of a batch is written, or fails.                           *)
LEMMA SettleStep ==
    ASSUME TInv, OInv, NEW s \in DOMAIN rings, batch[s] # <<>>,
           batch' = [batch EXCEPT ![s] = Tail(@)], UNCHANGED <<rings, accepted, sink>>,
           \/ written' = Append(written, Head(batch[s])) /\ UNCHANGED lost
           \/ lost' = lost \cup {Head(batch[s])} /\ UNCHANGED written
    PROVE  OInv'
<1> DEFINE x == Head(batch[s])
           B == Len(batch[s])
           A == Len(accepted[s])
           R == Len(rings[s])
           g == Gone(s)
           W == Len(written)
<1>1. /\ B \in Nat \ {0} /\ A \in Nat /\ R \in Nat /\ W \in Nat
      /\ DOMAIN batch[s] = 1..B /\ DOMAIN accepted[s] = 1..A /\ DOMAIN rings[s] = 1..R
      /\ x = batch[s][1] /\ x \in Lines
      /\ Len(Tail(batch[s])) = B - 1 /\ DOMAIN Tail(batch[s]) = 1..(B - 1)
      /\ \A i \in 1..(B - 1) : Tail(batch[s])[i] = batch[s][i + 1]
  <2>1. batch[s] \in Seq(Lines) /\ accepted[s] \in Seq(Lines) /\ rings[s] \in Seq(Lines)
        /\ written \in Seq(Lines)
    BY Shapes DEF TInv, SinkTypeOK
  <2>2. /\ B \in Nat /\ A \in Nat /\ R \in Nat /\ W \in Nat
        /\ DOMAIN batch[s] = 1..B /\ DOMAIN accepted[s] = 1..A /\ DOMAIN rings[s] = 1..R
    BY <2>1, LenProperties
  <2>3. B # 0
    BY <2>1, EmptySeq
  <2>4. /\ x = batch[s][1] /\ x \in Lines
        /\ Tail(batch[s]) \in Seq(Lines) /\ Len(Tail(batch[s])) = B - 1
        /\ \A i \in 1..(B - 1) : Tail(batch[s])[i] = batch[s][i + 1]
    BY <2>1, <2>2, HeadTailProperties
  <2> QED
    BY <2>2, <2>3, <2>4, LenProperties
<1>2. /\ batch'[s] = Tail(batch[s]) /\ \A t \in DOMAIN rings : t # s => batch'[t] = batch[t]
  BY Shapes
<1> HIDE DEF x, B, A, R, W
<1>3. g = A - B - R /\ g \in Nat /\ g + 1 \in 1..A /\ accepted[s][g + 1] = x
  <2>1. Queued(s) /\ g = A - B - R
    BY DEF OInv, Gone, A, B, R
  <2>2. 1 \in 1..B /\ g \in Nat /\ g + 1 \in 1..A
    BY <1>1, <2>1 DEF Queued
  <2> QED
    BY <1>1, <2>1, <2>2 DEF Queued
<1>4. \A t \in DOMAIN rings : \A i \in DOMAIN accepted[t] : accepted[t][i] = x => t = s /\ i = g + 1
  BY <1>1, <1>3 DEF OInv, Apart
<1>5. ~Settled(x)
  BY <1>1, <1>3 DEF OInv, Passed
<1>6. \/ /\ DOMAIN written = 1..W /\ DOMAIN written' = 1..(W + 1) /\ written'[W + 1] = x
         /\ \A m \in 1..W : written'[m] = written[m]
         /\ UNCHANGED lost
      \/ UNCHANGED written /\ lost' = lost \cup {x}
  <2>1. written \in Seq(Lines) /\ x \in Lines /\ W \in Nat
    BY <1>1 DEF TInv, SinkTypeOK
  <2>2. CASE written' = Append(written, x) /\ UNCHANGED lost
    <3>1. /\ written' \in Seq(Lines) /\ Len(written') = W + 1 /\ written'[W + 1] = x
          /\ \A m \in 1..W : written'[m] = written[m]
      BY <2>1, <2>2, AppendProperties DEF W
    <3> QED
      BY <2>1, <2>2, <3>1, LenProperties DEF W
  <2> QED
    BY <2>2 DEF x
<1>7. \A y : Settled(y)' <=> Settled(y) \/ y = x
  <2>1. CASE UNCHANGED written /\ lost' = lost \cup {x}
    BY <2>1 DEF Settled
  <2>2. CASE ~(UNCHANGED written /\ lost' = lost \cup {x})
    <3>1. Range(written') = Range(written) \cup {x}
      <4>1. /\ DOMAIN written = 1..W /\ DOMAIN written' = 1..(W + 1) /\ written'[W + 1] = x
            /\ \A m \in 1..W : written'[m] = written[m]
        BY <1>6, <2>2
      <4>2. /\ \A m \in 1..(W + 1) : m \in 1..W \/ m = W + 1
            /\ 1..W \subseteq 1..(W + 1) /\ W + 1 \in 1..(W + 1)
        BY <1>1
      <4> QED
        BY <4>1, <4>2 DEF Range
    <3> QED
      BY <1>6, <2>2, <3>1 DEF Settled
  <2> QED
    BY <2>1, <2>2
<1>8. \A m \in DOMAIN written' :
          \/ m \in DOMAIN written /\ written'[m] = written[m] /\ written[m] # x
          \/ m = W + 1 /\ m \notin DOMAIN written /\ written'[m] = x
  <2>1. \A m \in DOMAIN written : written[m] # x
    BY <1>5 DEF Settled, Range
  <2>2. \A m \in 1..(W + 1) : m \in 1..W \/ (m = W + 1 /\ m \notin 1..W)
    BY <1>1
  <2> QED
    BY <1>6, <2>1, <2>2
<1>9. \A m \in DOMAIN written : m \in Nat /\ m < W + 1
  <2>1. written \in Seq(Lines)
    BY DEF TInv, SinkTypeOK
  <2>2. DOMAIN written = 1..W
    BY <2>1, LenProperties DEF W
  <2> QED
    BY <1>1, <2>2
<1>10. Once'
  BY <1>8 DEF OInv, Once
<1>11. LostWereTaken'
  <2>1. x \in Range(accepted[s])
    BY <1>1, <1>3 DEF Range
  <2> QED
    BY <1>6, <2>1 DEF OInv, LostWereTaken
<1>12. ASSUME NEW t \in DOMAIN rings PROVE Queued(t)' /\ Passed(t)'
  <2>1. Queued(t) /\ Passed(t)
    BY DEF OInv
  <2>2. CASE t # s
    <3>1. \A i \in DOMAIN accepted[t] : accepted[t][i] # x
      BY <1>4, <2>2
    <3>2. Gone(t)' = Gone(t) /\ batch'[t] = batch[t]
      BY <1>2, <2>2 DEF Gone
    <3>3. Queued(t)'
      BY <2>1, <3>2 DEF Queued
    <3>4. Passed(t)'
      BY <1>7, <2>1, <3>1, <3>2 DEF Passed
    <3> QED
      BY <3>3, <3>4
  <2>3. CASE t = s
    <3>1. Gone(s)' = g + 1
      <4>1. Gone(s)' = A - (B - 1) - R
        BY <1>1, <1>2 DEF Gone, A, R
      <4> QED
        BY <1>1, <1>3, <4>1
    <3>2. Queued(s)'
      <4>1. \A i \in 1..(B - 1) : batch'[s][i] = accepted[s][g + 1 + i]
        <5>1. \A i \in 1..B : batch[s][i] = accepted[s][g + i]
          BY <1>1, <2>1, <2>3 DEF Queued
        <5>2. \A i \in 1..(B - 1) : i + 1 \in 1..B /\ g + (i + 1) = g + 1 + i
          BY <1>1, <1>3
        <5> SUFFICES ASSUME NEW i \in 1..(B - 1)
                     PROVE  batch'[s][i] = accepted[s][g + 1 + i]
          OBVIOUS
        <5>3. batch'[s][i] = batch[s][i + 1]
          BY <1>1, <1>2
        <5>4. batch[s][i + 1] = accepted[s][g + (i + 1)]
          BY <5>1, <5>2
        <5> QED
          BY <5>2, <5>3, <5>4
      <4>2. \A i \in 1..R : rings[s][i] = accepted[s][g + B + i]
        BY <1>1, <2>1, <2>3 DEF Queued, B
      <4>3. g + 1 + (B - 1) = g + B /\ g + 1 >= 0
        BY <1>1, <1>3
      <4>4. \A i \in 1..R : rings[s][i] = accepted[s][g + 1 + (B - 1) + i]
        BY <4>2, <4>3
      <4> QED
        BY <1>1, <1>2, <3>1, <4>1, <4>3, <4>4 DEF Queued
    <3>3. Passed(s)'
      <4> SUFFICES ASSUME NEW i \in 1..A PROVE Settled(accepted[s][i])' <=> i <= g + 1
        BY <1>1, <3>1 DEF Passed
      <4>1. Settled(accepted[s][i]) <=> i <= g
        BY <1>1, <2>1, <2>3 DEF Passed
      <4>2. accepted[s][i] = x <=> i = g + 1
        BY <1>1, <1>3, <1>4
      <4>3. Settled(accepted[s][i])' <=> Settled(accepted[s][i]) \/ accepted[s][i] = x
        BY <1>7
      <4>4. i <= g + 1 <=> i <= g \/ i = g + 1
        BY <1>1, <1>3
      <4> QED
        BY <4>1, <4>2, <4>3, <4>4
    <3> QED
      BY <2>3, <3>2, <3>3
  <2> QED
    BY <2>2, <2>3
<1>13. ASSUME NEW t \in DOMAIN rings PROVE InOrder(t)'
  <2> SUFFICES ASSUME NEW i \in DOMAIN accepted[t], NEW j \in DOMAIN accepted[t],
                      NEW m \in DOMAIN written', NEW n \in DOMAIN written',
                      i < j, written'[m] = accepted[t][i], written'[n] = accepted[t][j]
               PROVE  m < n
    BY DEF InOrder
  <2>1. i \in Nat /\ j \in Nat /\ i # j
    <3>1. accepted[t] \in Seq(Lines)
      BY Shapes
    <3>2. DOMAIN accepted[t] = 1..Len(accepted[t]) /\ Len(accepted[t]) \in Nat
      BY <3>1, LenProperties
    <3> QED
      BY <3>2
  <2>2. CASE m \in DOMAIN written /\ n \in DOMAIN written
    BY <1>8, <2>2 DEF OInv, InOrder
  <2>3. CASE n \notin DOMAIN written
    <3>1. n = W + 1 /\ accepted[t][j] = x
      BY <1>8, <2>3
    <3>2. accepted[t][i] # x
      BY <1>4, <2>1, <3>1
    <3> QED
      BY <1>8, <1>9, <3>1, <3>2
  <2>4. CASE n \in DOMAIN written /\ m \notin DOMAIN written
    <3>1. accepted[t][i] = x /\ t = s /\ i = g + 1
      BY <1>4, <1>8, <2>4
    <3>2. Settled(accepted[t][j])
      BY <1>8, <2>4 DEF Settled, Range
    <3>3. j <= g
      BY <3>1, <3>2 DEF OInv, Passed
    <3> QED
      BY <1>3, <2>1, <3>1, <3>3
  <2> QED
    BY <2>2, <2>3, <2>4
<1>14. sink # "flushed"
  BY DEF OInv, FlushedAll
<1> QED
  BY <1>10, <1>11, <1>12, <1>13, <1>14 DEF OInv, Apart, FlushedAll

LEMMA OInductive == ASSUME TInv, OInv, [SinkNext]_sinkVars PROVE OInv'
<1> USE Shapes
<1>1. ASSUME NEW x \in Lines, NEW s \in Shards, Push(x, s) \/ Shed(x, s) PROVE OInv'
  <2>1. CASE Push(x, s)
    BY <2>1, PushStep DEF Push
  <2>2. CASE Shed(x, s)
    BY <2>2, Unmoved DEF Shed, writer, OInv, FlushedAll
  <2> QED
    BY <1>1, <2>1, <2>2
<1>2. ASSUME NEW s \in Shards, Worker(s) \/ WriterPanics(s) PROVE OInv'
  <2>1. CASE PopBatch(s)
    BY <2>1, PopStep DEF PopBatch, Working
  <2>2. CASE LockWriter(s) \/ Unlock(s) \/ WriterPanics(s)
    BY <2>2, Unmoved DEF LockWriter, Unlock, WriterPanics, queues, OInv, FlushedAll
  <2>3. CASE WriteLine(s) \/ LineFails(s)
    BY <2>3, SettleStep DEF WriteLine, LineFails
  <2> QED
    BY <1>2, <2>1, <2>2, <2>3 DEF Worker
<1>3. CASE Guard
  <2>1. CASE Flushed
    BY <2>1, Unmoved DEF Flushed, End, queues, writer, FlushedAll
  <2>2. CASE ~Flushed
    BY <1>3, <2>2, Unmoved DEF Guard, ShutDown, ShutDownFails, TimesOut, DropGuard, End, queues, writer,
                               OInv, FlushedAll
  <2> QED
    BY <2>1, <2>2
<1>4. CASE UNCHANGED sinkVars
  BY <1>4, Unmoved DEF sinkVars, queues, writer, OInv, FlushedAll
<1> QED
  BY <1>1, <1>2, <1>3, <1>4, SpawnStep, InlineStep DEF SinkNext, LogLine

LEMMA SinkInductive == SinkInit /\ [][SinkNext]_sinkVars => [](TInv /\ OInv)
<1>1. SinkInit => TInv /\ OInv
  BY InitInv
<1>2. TInv /\ OInv /\ [SinkNext]_sinkVars => TInv' /\ OInv'
  BY TypeStep, OInductive
<1> QED
  BY <1>1, <1>2, PTL

(* Rings and batches keep to the settings, which are at least one           *)
(* (to_sink_config), whatever the operator's settings and however many      *)
(* lines there are.                                                         *)
THEOREM SinkTypeCorrect == SinkSpec => []SinkTypeOK
<1>1. TInv => SinkTypeOK
  BY DEF TInv
<1> QED
  BY <1>1, SinkInductive, PTL DEF SinkSpec

(* What a ring accepted is written at most once, in order within its shard; *)
(* and a shutdown that reports success has left nothing but the lines that  *)
(* the writer itself failed (WriteDrain::drain, ShardedLogGuard::shutdown). *)
THEOREM AcceptedWritten == SinkSpec => []AcceptedAreWritten
<1>1. ASSUME TInv, OInv PROVE AcceptedAreWritten
  <2>1. \A m, n \in DOMAIN written : written[m] = written[n] => m = n
    BY <1>1 DEF OInv, Once
  <2>2. DOMAIN accepted = DOMAIN rings
    BY <1>1, Shapes
  <2>3. \A s \in DOMAIN accepted : InOrder(s)
    BY <1>1, <2>2 DEF OInv
  <2>4. ASSUME sink = "flushed", NEW s \in DOMAIN accepted
        PROVE  Range(accepted[s]) \subseteq Range(written) \cup lost
    <3>1. rings[s] = <<>> /\ batch[s] = <<>> /\ Passed(s) /\ accepted[s] \in Seq(Lines)
      BY <1>1, <2>2, <2>4, Shapes DEF OInv, FlushedAll
    <3>2. Len(accepted[s]) \in Nat /\ DOMAIN accepted[s] = 1..Len(accepted[s])
      BY <3>1, LenProperties
    <3>3. Gone(s) = Len(accepted[s])
      BY <3>1, <3>2 DEF Gone
    <3>4. \A i \in DOMAIN accepted[s] : Settled(accepted[s][i])
      BY <3>1, <3>2, <3>3 DEF Passed
    <3> QED
      BY <3>4 DEF Settled, Range
  <2> QED
    BY <2>1, <2>3, <2>4 DEF AcceptedAreWritten, InOrder
<1> QED
  BY <1>1, SinkInductive, PTL DEF SinkSpec

-----------------------------------------------------------------------------
(***************************************************************************)
(* The health probe.                                                        *)
(***************************************************************************)

Said(status) == \E c \in 1..folded : check[c] = status

(* What is folded is the worst of the first answers; folding begins when    *)
(* all have answered.                                                       *)
FoldedWorst ==
    overall = IF Said("Error") THEN "Error" ELSE IF Said("Degraded") THEN "Degraded" ELSE "Healthy"

HInv ==
    /\ folded \in 0..ContributorCount
    /\ check \in [Contributors -> Statuses \cup {"pending"}]
    /\ folded > 0 => \A c \in Contributors : check[c] # "pending"
    /\ FoldedWorst
    /\ HealthIsWorst

LEMMA HInit == ASSUME ProbeInit PROVE HInv
<1> USE ContributorsAssumption
<1>1. \A c \in 1..folded : FALSE
  BY DEF ProbeInit
<1> QED
  BY <1>1 DEF ProbeInit, HInv, FoldedWorst, Said, HealthIsWorst

LEMMA HStep == ASSUME HInv, [ProbeNext]_probeVars PROVE HInv'
<1> USE ContributorsAssumption
<1>1. CASE Probe
  <2>1. \A c \in 1..folded' : FALSE
    BY <1>1 DEF Probe
  <2> QED
    BY <1>1, <2>1 DEF Probe, HInv, FoldedWorst, Said, HealthIsWorst
<1>2. ASSUME NEW c \in Contributors, Contribute(c) \/ CheckTimesOut(c)
      PROVE  HInv'
  <2>1. check[c] = "pending" /\ UNCHANGED <<probe, folded, overall, health>>
    BY <1>2 DEF Contribute, CheckTimesOut
  <2>2. PICK status \in Statuses : check' = [check EXCEPT ![c] = status]
    BY <1>2 DEF Contribute, CheckTimesOut, Statuses
  <2>3. check' \in [Contributors -> Statuses \cup {"pending"}]
    BY <2>2 DEF HInv
  <2>4. folded = 0
    BY <2>1 DEF HInv
  <2>5. \A d \in 1..folded : FALSE
    BY <2>4
  <2>6. FoldedWorst' /\ HealthIsWorst'
    BY <2>1, <2>5 DEF HInv, FoldedWorst, Said, HealthIsWorst
  <2> QED
    BY <2>1, <2>3, <2>4, <2>6 DEF HInv
<1>3. CASE FoldNext
  <2>1. /\ folded' = folded + 1 /\ folded \in Nat /\ folded' \in 1..ContributorCount
        /\ \A d \in Contributors : check[d] # "pending"
        /\ overall' = Worse(check[folded + 1]) /\ UNCHANGED <<check, health>>
    BY <1>3 DEF FoldNext, Joined, HInv
  <2>2. check[folded + 1] \in Statuses
    BY <2>1 DEF HInv, Contributors
  <2>3. \A status : Said(status)' <=> Said(status) \/ check[folded + 1] = status
    <3>1. \A d : d \in 1..folded' <=> d \in 1..folded \/ d = folded + 1
      BY <2>1
    <3> QED
      BY <2>1, <3>1 DEF Said
  <2>4. FoldedWorst'
    <3> DEFINE last == check[folded + 1]
               E == Said("Error")
               D == Said("Degraded")
    <3>1. /\ overall = IF E THEN "Error" ELSE IF D THEN "Degraded" ELSE "Healthy"
          /\ overall' = Worse(last) /\ last \in {"Healthy", "Degraded", "Error"}
      BY <2>1, <2>2 DEF HInv, FoldedWorst, Statuses
    <3>2. (Said("Error")' <=> E \/ last = "Error") /\ (Said("Degraded")' <=> D \/ last = "Degraded")
      BY <2>3
    <3> HIDE DEF last, E, D
    <3> QED
      BY <3>1, <3>2 DEF FoldedWorst, Worse
  <2> QED
    BY <2>1, <2>4 DEF HInv, HealthIsWorst
<1>4. CASE AnswerProbe
  <2>1. /\ folded = ContributorCount /\ UNCHANGED <<check, folded, overall>>
        /\ health' = [components |-> check, status |-> overall,
                      http |-> IF overall = "Error" THEN 503 ELSE 200]
    BY <1>4 DEF AnswerProbe
  <2>2. \A status : (\E c \in Contributors : health'.components[c] = status) <=> Said(status)
    BY <2>1 DEF Said, Contributors
  <2>3. /\ health'.status = IF Said("Error") THEN "Error"
                            ELSE IF Said("Degraded") THEN "Degraded" ELSE "Healthy"
        /\ health'.http = IF Said("Error") THEN 503 ELSE 200
    BY <2>1 DEF HInv, FoldedWorst
  <2>4. HealthIsWorst'
    BY <2>2, <2>3 DEF HealthIsWorst
  <2>5. FoldedWorst'
    BY <2>1 DEF HInv, FoldedWorst, Said
  <2> QED
    BY <2>1, <2>4, <2>5 DEF HInv
<1>5. CASE UNCHANGED probeVars
  BY <1>5 DEF probeVars, HInv, FoldedWorst, Said, HealthIsWorst
<1> QED
  BY <1>1, <1>2, <1>3, <1>4, <1>5 DEF ProbeNext, Answering

(* However many contributors there are and in whatever order they answer,   *)
(* fail to, or are folded, the response to a probe carries the worst of     *)
(* them, and 503 exactly if that is an error                                *)
(* (healthcheck_with_contributors).                                         *)
THEOREM HealthWorst == ProbeSpec => []HealthIsWorst
<1>1. ProbeInit => HInv
  BY HInit
<1>2. HInv /\ [ProbeNext]_probeVars => HInv'
  BY HStep
<1>3. HInv => HealthIsWorst
  BY DEF HInv
<1> QED
  BY <1>1, <1>2, <1>3, PTL DEF ProbeSpec

-----------------------------------------------------------------------------
(***************************************************************************)
(* The application.                                                         *)
(***************************************************************************)

Early == {"start", "configuring", "preparing", "serving", "draining"}

(* Main, its plugins and what they started.                                 *)
InOrderOf(plugin) == \E i \in 1..prepared : scenario.order[i] = plugin

MainInv ==
    /\ scenario \in Scenarios /\ prepared \in Nat
    /\ phase \in Early \cup {"stopping", "flushing_log", "flushing_otel", "dropping_otel", "ended", "exited"}
    /\ phase \notin {"preparing", "serving", "draining", "stopping"} => prepared = 0
    /\ pool \in {"none", "open", "closing", "closed"}
    /\ pool \in {"open", "closing"} => InOrderOf("database")
    /\ holds => pool \in {"open", "closing"}
    /\ JobIsThere /\ ~aborting => InOrderOf("scheduler")
    /\ phase = "start" => sink = "none"
    /\ phase \in Early \cup {"stopping"} => sink \in {"none", "open"}
    /\ phase = "flushing_log" => sink = "draining"
    /\ phase \in {"flushing_otel", "dropping_otel", "ended", "exited"} => sink \notin {"open", "draining"}
    /\ phase \in {"flushing_otel", "dropping_otel"} => sink # "none"

(* OpenTelemetry is on from its start until the phase that flushes it.      *)
OtelInv ==
    /\ otel \in {"off", "on", "flushing", "dropping", "flushed", "abandoned", "landed"}
    /\ phase = "start" => otel = "off"
    /\ otel = "on" => ~Returned /\ phase # "dropping_otel"
    /\ otel = "flushing" => phase = "flushing_otel"
    /\ otel = "dropping" => phase = "dropping_otel"
    /\ otel \in {"flushed", "abandoned", "landed"} => Returned /\ sink # "none"
    /\ otel = "off" /\ sink # "none" => ~OtlpEndpointIsConfigured(Env.otlp)

LEMMA MainInit == Init => MainInv /\ OtelInv
BY DEF Init, MainInv, OtelInv, Early, Returned, JobIsThere, SinkInit

(* The steps of the log end nothing.                                        *)
LEMMA LogStepKeeps == ASSUME MainInv, LogStep PROVE UNCHANGED sink
BY DEF LogStep, LogLine, WriteInline, Push, Shed, Worker, PopBatch, LockWriter, WriteLine, LineFails,
       Unlock, WriterPanics

LEMMA MainStepKeeps == ASSUME MainInv, OtelInv, [Next]_vars PROVE MainInv'
<1> USE DEF MainInv, Early, InOrderOf, JobIsThere, setup, db, jobs
<1>1. CASE Start
  BY <1>1 DEF Start, Refuse, Spawn, log, sinkVars
<1>2. CASE Configure
  BY <1>2 DEF Configure, log, sinkVars
<1>3. CASE BeginPrepare
  BY <1>3 DEF BeginPrepare, log, sinkVars
<1>4. CASE PrepareDatabase
  <2>1. UNCHANGED <<scenario, holds, job, aborting, sink, otel>> /\ scenario.order[prepared + 1] = "database"
    BY <1>4 DEF PrepareDatabase, NextPlugin, log, sinkVars
  <2>2. CASE pool' = "open" /\ prepared' = prepared + 1 /\ phase' = phase
    <3>1. prepared + 1 \in 1..prepared' /\ \A i \in 1..prepared : i \in 1..prepared'
      BY <2>2
    <3> QED
      BY <1>4, <2>1, <2>2, <3>1 DEF PrepareDatabase
  <2>3. CASE phase' = "stopping" /\ UNCHANGED db
    BY <1>4, <2>1, <2>3 DEF PrepareDatabase
  <2> QED
    BY <1>4, <2>2, <2>3 DEF PrepareDatabase
<1>5. CASE PrepareScheduler
  <2>1. /\ UNCHANGED <<scenario, phase, pool, aborting, holds, sink, otel>> /\ prepared' = prepared + 1
        /\ scenario.order[prepared + 1] = "scheduler" /\ phase = "preparing" /\ job' = "waiting"
    BY <1>5 DEF PrepareScheduler, NextPlugin, log, sinkVars
  <2>2. prepared + 1 \in 1..prepared' /\ \A i \in 1..prepared : i \in 1..prepared'
    BY <2>1
  <2> QED
    BY <2>1, <2>2
<1>6. CASE Serve
  BY <1>6 DEF Serve, log, sinkVars
<1>7. CASE CloseDatabase
  BY <1>7 DEF CloseDatabase, ShuttingDown, log, sinkVars
<1>8. CASE DatabaseClosed
  <2>1. /\ UNCHANGED <<scenario, phase, holds, job, aborting, sink, otel>> /\ prepared' = prepared - 1
        /\ prepared > 0 /\ scenario.order[prepared] = "database" /\ phase = "stopping"
        /\ pool' = "closed" /\ ~holds
    BY <1>8 DEF DatabaseClosed, ShuttingDown, log, sinkVars
  <2>2. \A i \in 1..prepared : scenario.order[i] = "scheduler" => i \in 1..prepared'
    BY <2>1
  <2> QED
    BY <2>1, <2>2
<1>9. CASE AbortJobs
  <2>1. /\ UNCHANGED <<scenario, phase, pool, job, holds, sink, otel>> /\ prepared' = prepared - 1
        /\ prepared > 0 /\ scenario.order[prepared] = "scheduler" /\ phase = "stopping"
        /\ aborting' = TRUE
    BY <1>9 DEF AbortJobs, ShuttingDown, log, sinkVars
  <2>2. \A i \in 1..prepared : scenario.order[i] = "database" => i \in 1..prepared'
    BY <2>1
  <2> QED
    BY <2>1, <2>2
<1>10. CASE Stopped
  BY <1>10 DEF Stopped, DropOtelGuard, DropGuard, ShutDown, End
<1>11. CASE LogFlushed \/ LogFlushFails
  BY <1>11 DEF LogFlushed, LogFlushFails, DropOtelGuard, Flushed, ShutDownFails, End
<1>12. CASE LogFlushTimesOut
  BY <1>12 DEF LogFlushTimesOut, DropOtelGuard, TimesOut, End
<1>13. CASE FlushOtel \/ OtelFlushed \/ OtelTimesOut \/ FlushLands \/ Exit
  BY <1>13 DEF FlushOtel, OtelFlushed, OtelTimesOut, FlushLands, Exit, OtelInv, log, sinkVars
<1>14. CASE Stop \/ Drained
  BY <1>14 DEF Stop, Drained, log, sinkVars
<1>15. CASE JobStep \/ RunPanics \/ RunHangs
  <2>1. CASE BeginRun
    <3>1. holds' = FALSE \/ holds' = (pool = "open")
      BY <2>1, Zenon DEF BeginRun
    <3>2. holds' => pool = "open"
      BY <3>1, Zenon
    <3>3. /\ UNCHANGED <<scenario, phase, prepared, pool, aborting, sink, otel>>
          /\ job = "waiting" /\ job' = "running"
      BY <2>1 DEF BeginRun, log, sinkVars
    <3> QED
      BY <3>2, <3>3
  <2>2. CASE RunEnds \/ JobDropped \/ RunPanics \/ RunHangs
    BY <2>2 DEF RunEnds, JobDropped, RunPanics, RunHangs, log, sinkVars
  <2> QED
    BY <1>15, <2>1, <2>2 DEF JobStep
<1>16. CASE Tick
  BY <1>16 DEF Tick, log, sinkVars
<1>17. CASE ProbeComes \/ ContributorAnswers \/ ProbeGoesOn
  BY <1>17 DEF ProbeComes, ContributorAnswers, ProbeGoesOn, log, sinkVars
<1>18. CASE LogStep
  BY <1>18, LogStepKeeps DEF LogStep
<1>19. CASE UNCHANGED vars
  BY <1>19 DEF vars, log, sinkVars
<1> QED
  BY <1>1, <1>2, <1>3, <1>4, <1>5, <1>6, <1>7, <1>8, <1>9, <1>10, <1>11, <1>12, <1>13, <1>14, <1>15,
     <1>16, <1>17, <1>18, <1>19 DEF Next, MainStep

LEMMA OtelStepKeeps == ASSUME MainInv, OtelInv, [Next]_vars PROVE OtelInv'
<1> USE DEF OtelInv, Returned, Env
<1>1. CASE Start
  BY <1>1 DEF Start, Refuse, MainInv, log, sinkVars
<1>2. CASE Stopped \/ LogFlushed \/ LogFlushFails \/ LogFlushTimesOut
  BY <1>2 DEF Stopped, LogFlushed, LogFlushFails, LogFlushTimesOut, DropOtelGuard, DropGuard, ShutDown,
              Flushed, ShutDownFails, TimesOut, End, setup, MainInv
<1>3. CASE FlushOtel \/ OtelFlushed \/ OtelTimesOut \/ FlushLands \/ Exit
  BY <1>3 DEF FlushOtel, OtelFlushed, OtelTimesOut, FlushLands, Exit, setup, log, sinkVars, MainInv
<1>4. CASE LogStep
  BY <1>4, LogStepKeeps DEF LogStep, setup
<1>5. CASE UNCHANGED vars
  BY <1>5 DEF vars, setup, log, sinkVars
<1>6. ASSUME Next, ~Start, ~Stopped, ~LogFlushed, ~LogFlushFails, ~LogFlushTimesOut, ~FlushOtel,
             ~OtelFlushed, ~OtelTimesOut, ~FlushLands, ~Exit, ~LogStep
      PROVE  /\ UNCHANGED <<scenario, otel, sink>>
             /\ phase' = phase \/ (phase \notin {"flushing_otel", "dropping_otel", "ended", "exited"}
                                    /\ phase' \notin {"start", "dropping_otel", "ended", "exited"})
  BY <1>6 DEF Next, MainStep, JobStep, Configure, BeginPrepare, PrepareDatabase, PrepareScheduler, Serve,
              Drained, CloseDatabase, DatabaseClosed, AbortJobs, ShuttingDown, Stop, BeginRun, RunEnds,
              JobDropped, Tick, RunPanics, RunHangs, ProbeComes, ContributorAnswers, ProbeGoesOn, setup,
              log, sinkVars
<1> QED
  BY <1>1, <1>2, <1>3, <1>4, <1>5, <1>6

LEMMA MainInductive == Spec => [](MainInv /\ OtelInv)
<1>1. MainInv /\ OtelInv /\ [Next]_vars => (MainInv /\ OtelInv)'
  BY MainStepKeeps, OtelStepKeeps
<1> QED
  BY MainInit, <1>1, PTL DEF Spec

(* When main has returned its plugins are shut down, no connection is out,  *)
(* what is there of the job was told to end, and the log was ended after    *)
(* the plugins (GasketApp::shutdown, ShardedLogGuard).                      *)
THEOREM MainLeavesNothing == Spec => []NothingOutlivesMain
<1>1. MainInv => NothingOutlivesMain
  <2> SUFFICES ASSUME MainInv PROVE NothingOutlivesMain
    OBVIOUS
  <2>1. prepared = 0 => ~InOrderOf("database") /\ ~InOrderOf("scheduler")
    BY DEF InOrderOf
  <2> QED
    BY <2>1 DEF MainInv, Early, Returned, NothingOutlivesMain
<1> QED
  BY <1>1, MainInductive, PTL

(* However main returns, it has flushed OpenTelemetry if that was on, after *)
(* the plugins and the log (OtelGuard::shutdown, OtelGuard::drop).          *)
THEOREM TelemetryIsFlushedLast == Spec => []TelemetryFlushedLast
<1>1. MainInv /\ OtelInv => TelemetryFlushedLast
  BY DEF MainInv, OtelInv, Early, Returned, TelemetryFlushedLast
<1> QED
  BY <1>1, MainInductive, PTL

-----------------------------------------------------------------------------
(* The application uses its log and its probe as ShardedSink and            *)
(* HealthProbe allow, so what they promise holds in it.                     *)
LEMMA SinkSteps == ASSUME MainInv, [Next]_vars PROVE [SinkNext]_sinkVars
<1>1. CASE Start
  <2>1. CASE SinkFor(scenario) # None /\ Spawn(SinkFor(scenario))
    <3>1. SinkFor(scenario) \in Settings
      BY <2>1, ServicesAssumption DEF MainInv
    <3> QED
      BY <2>1, <3>1 DEF SinkNext
  <2> QED
    BY <1>1, <2>1 DEF Start, log
<1>2. CASE LogStep
  <2>1. CASE \E x \in scenario.lines : LogLine(x)
    <3>1. scenario.lines \subseteq Lines
      BY ServicesAssumption DEF MainInv
    <3> QED
      BY <2>1, <3>1 DEF SinkNext
  <2> QED
    BY <1>2, <2>1 DEF LogStep, SinkNext
<1>3. CASE Stopped
  BY <1>3 DEF Stopped, SinkNext, Guard
<1>4. CASE LogFlushed \/ LogFlushFails \/ LogFlushTimesOut
  BY <1>4 DEF LogFlushed, LogFlushFails, LogFlushTimesOut, SinkNext, Guard
<1>5. CASE UNCHANGED vars
  BY <1>5 DEF vars, log
<1>6. ASSUME Next, ~Start, ~LogStep, ~Stopped, ~LogFlushed, ~LogFlushFails, ~LogFlushTimesOut
      PROVE  UNCHANGED log
  BY <1>6 DEF Next, MainStep, JobStep, Configure, BeginPrepare, PrepareDatabase, PrepareScheduler, Serve,
              CloseDatabase, DatabaseClosed, AbortJobs, FlushOtel, OtelTimesOut, Drained, Exit, Stop,
              OtelFlushed, FlushLands, BeginRun, RunEnds, JobDropped, Tick, RunPanics,
              RunHangs, ProbeComes, ContributorAnswers, ProbeGoesOn
<1> QED
  BY <1>1, <1>2, <1>3, <1>4, <1>5, <1>6 DEF log

LEMMA ProbeSteps == ASSUME [Next]_vars PROVE [ProbeNext]_probeVars
<1>1. CASE ProbeComes \/ ContributorAnswers \/ ProbeGoesOn
  BY <1>1 DEF ProbeComes, ContributorAnswers, ProbeGoesOn, ProbeNext
<1>2. CASE UNCHANGED vars
  BY <1>2 DEF vars, checks
<1>3. ASSUME Next, ~(ProbeComes \/ ContributorAnswers \/ ProbeGoesOn)
      PROVE  UNCHANGED checks
  BY <1>3 DEF Next, MainStep, JobStep, Start, Configure, BeginPrepare, PrepareDatabase, PrepareScheduler, Serve,
              CloseDatabase, DatabaseClosed, AbortJobs, Stopped, LogFlushTimesOut, LogFlushFails,
              LogFlushed, FlushOtel, Drained, Exit, DropOtelGuard, OtelTimesOut, Stop,
              OtelFlushed, FlushLands, BeginRun, RunEnds, JobDropped, Tick, RunPanics,
              RunHangs, LogStep
<1> QED
  BY <1>1, <1>2, <1>3 DEF checks

(* Whatever main, the jobs and the probes do, they use the log as its sink  *)
(* allows: it is spawned with settings of a configuration, gets lines, and  *)
(* is ended once.                                                           *)
THEOREM ServicesLog == Spec => SinkSpec
<1>1. Init => SinkInit
  BY DEF Init
<1> QED
  BY <1>1, SinkSteps, MainInductive, PTL DEF Spec, SinkSpec

(* So do they the probe.                                                    *)
THEOREM ServicesProbe == Spec => ProbeSpec
<1>1. Init => ProbeInit
  BY DEF Init
<1> QED
  BY <1>1, ProbeSteps, PTL DEF Spec, ProbeSpec

(* In the whole application: what a ring of the log accepted is written at  *)
(* most once and in order, and a flush that succeeds has left nothing but   *)
(* the lines that the writer failed.                                        *)
THEOREM LogKeepsLines == Spec => []AcceptedAreWritten
BY ServicesLog, AcceptedWritten, PTL

(* In the whole application: a probe is answered with the worst status.     *)
THEOREM ProbesTellTheWorst == Spec => []HealthIsWorst
BY ServicesProbe, HealthWorst, PTL

-----------------------------------------------------------------------------
(***************************************************************************)
(* The configuration.  Paths have at most three names, so three calls of    *)
(* deep_merge_json are looked into, each by MergeAssumption.                *)
(***************************************************************************)

Value(v) == v \in Json \cup {None}

(* What a merge leaves where the base has b and the overrides have o.       *)
Leaves(b, o, m) ==
    /\ o = None => m = b
    /\ o # None /\ b = None => m = o
    /\ o # None /\ b # None => m = DeepMerge(b, o)

Below(v, name) == Get(FieldsOf(v), name)

LEMMA Values ==
    /\ None \notin Json
    /\ \A v \in Json : (IsObject(v) \/ IsLeaf(v)) /\ ~(IsObject(v) /\ IsLeaf(v))
    /\ \A v \in Json : \A name \in DOMAIN FieldsOf(v) : FieldsOf(v)[name] \in Json
    /\ \A v, name : Value(v) => Value(Below(v, name))
    /\ ~IsLeaf(None) /\ ~IsObject(None)
    /\ DOMAIN NoFields = {}
<1>1. DOMAIN NoFields = {} /\ ~IsLeaf(None) /\ ~IsObject(None)
  BY DEF NoFields, IsLeaf, IsObject
<1>2. None \notin Json
  BY <1>1, JsonAssumption
<1>3. \A v \in Json : (IsObject(v) \/ IsLeaf(v)) /\ ~(IsObject(v) /\ IsLeaf(v))
  BY JsonAssumption DEF IsObject, IsLeaf, LeafKinds
<1>4. \A v \in Json : \A name \in DOMAIN FieldsOf(v) : FieldsOf(v)[name] \in Json
  BY <1>1, JsonAssumption DEF FieldsOf
<1>5. \A name : Below(None, name) = None
  BY <1>1 DEF Below, Get, FieldsOf
<1> QED
  BY <1>1, <1>2, <1>3, <1>4, <1>5 DEF Value, Below, Get

(* One call of deep_merge_json.                                             *)
LEMMA OneMerge ==
    ASSUME NEW b \in Json, NEW o \in Json
    PROVE  LET m == DeepMerge(b, o)
           IN  /\ ~IsObject(b) \/ ~IsObject(o) => m = o
               /\ IsObject(b) /\ IsObject(o) =>
                    /\ IsObject(m) /\ ~IsLeaf(m)
                    /\ DOMAIN FieldsOf(m) = DOMAIN FieldsOf(b) \cup DOMAIN FieldsOf(o)
                    /\ \A name \in DOMAIN FieldsOf(m) : FieldsOf(m)[name] =
                            IF name \notin DOMAIN FieldsOf(o) THEN FieldsOf(b)[name]
                            ELSE IF name \notin DOMAIN FieldsOf(b) THEN FieldsOf(o)[name]
                            ELSE DeepMerge(FieldsOf(b)[name], FieldsOf(o)[name])
<1> DEFINE m == DeepMerge(b, o)
<1>1. m = Merged(b, o, DeepMerge) /\ m # None
  BY MergeAssumption
<1>2. ~IsObject(b) \/ ~IsObject(o) => m = o
  BY <1>1 DEF Merged
<1>3. ASSUME IsObject(b), IsObject(o)
      PROVE  /\ IsObject(m) /\ ~IsLeaf(m)
             /\ DOMAIN FieldsOf(m) = DOMAIN FieldsOf(b) \cup DOMAIN FieldsOf(o)
             /\ \A name \in DOMAIN FieldsOf(m) : FieldsOf(m)[name] =
                            IF name \notin DOMAIN FieldsOf(o) THEN FieldsOf(b)[name]
                            ELSE IF name \notin DOMAIN FieldsOf(b) THEN FieldsOf(o)[name]
                            ELSE DeepMerge(FieldsOf(b)[name], FieldsOf(o)[name])
  <2> DEFINE B == Content(b)
             O == Content(o)
             F == [name \in DOMAIN B \cup DOMAIN O |->
                     IF name \notin DOMAIN O THEN B[name]
                     ELSE IF name \notin DOMAIN B THEN O[name]
                     ELSE DeepMerge(B[name], O[name])]
  <2>1. m = <<"object", F>>
    BY <1>1, <1>3 DEF Merged, Object
  <2>2. FieldsOf(b) = B /\ FieldsOf(o) = O
    BY <1>3 DEF FieldsOf
  <2> HIDE DEF F
  <2>3. IsObject(m) /\ ~IsLeaf(m) /\ FieldsOf(m) = F
    BY <1>1, <2>1 DEF IsObject, IsLeaf, LeafKinds, FieldsOf, Kind, Content
  <2> QED
    BY <2>2, <2>3 DEF F
<1> QED
  BY <1>2, <1>3

(* One name further down; under a leaf of the overrides nothing is left.    *)
LEMMA Descend ==
    ASSUME NEW b, NEW o, NEW m, Value(b), Value(o), Leaves(b, o, m), NEW name
    PROVE  /\ ~IsLeaf(o) => Leaves(Below(b, name), Below(o, name), Below(m, name))
           /\ IsLeaf(o) => Below(o, name) = None /\ Below(m, name) = None
<1>0. \A v : ~IsObject(v) => Below(v, name) = None
  BY Values DEF Below, Get, FieldsOf
<1>1. CASE o = None
  BY <1>0, <1>1, Values DEF Leaves
<1>2. CASE IsLeaf(o)
  <2>1. m = o /\ ~IsObject(o)
    BY <1>2, Values, OneMerge DEF Leaves, Value
  <2> QED
    BY <1>0, <1>2, <2>1
<1>3. CASE IsObject(o) /\ ~IsObject(b)
  <2>1. m = o /\ ~IsLeaf(o)
    BY <1>3, Values, OneMerge DEF Leaves, Value
  <2> QED
    BY <1>0, <2>1, <1>3 DEF Leaves
<1>4. CASE IsObject(o) /\ IsObject(b)
  <2>1. b \in Json /\ o \in Json /\ m = DeepMerge(b, o)
    BY <1>4, Values DEF Leaves, Value
  <2>2. /\ DOMAIN FieldsOf(m) = DOMAIN FieldsOf(b) \cup DOMAIN FieldsOf(o)
        /\ \A n \in DOMAIN FieldsOf(m) : FieldsOf(m)[n] =
                IF n \notin DOMAIN FieldsOf(o) THEN FieldsOf(b)[n]
                ELSE IF n \notin DOMAIN FieldsOf(b) THEN FieldsOf(o)[n]
                ELSE DeepMerge(FieldsOf(b)[n], FieldsOf(o)[n])
    BY <1>4, <2>1, OneMerge
  <2>3. /\ name \in DOMAIN FieldsOf(b) => FieldsOf(b)[name] # None
        /\ name \in DOMAIN FieldsOf(o) => FieldsOf(o)[name] # None
    BY <2>1, Values
  <2>4. ~IsLeaf(o)
    BY <2>1, <1>4, Values
  <2> QED
    BY <2>2, <2>3, <2>4 DEF Leaves, Below, Get
<1> QED
  BY <1>1, <1>2, <1>3, <1>4, Values DEF Value

(* At the end of a path a leaf is the overrides', or else the base's.       *)
LEMMA Ends ==
    ASSUME NEW b, NEW o, NEW m, Value(b), Value(o), Leaves(b, o, m)
    PROVE  LET expected == IF o # None THEN o ELSE b
           IN  IsLeaf(expected) \/ IsLeaf(m) => m = expected
<1>1. CASE o # None /\ b # None
  <2>1. b \in Json /\ o \in Json /\ m = DeepMerge(b, o)
    BY <1>1 DEF Leaves, Value
  <2>2. CASE IsObject(b) /\ IsObject(o)
    <3>1. ~IsLeaf(m) /\ ~IsLeaf(o)
      BY <2>1, <2>2, OneMerge, Values
    <3> QED
      BY <1>1, <3>1
  <2>3. CASE ~IsObject(b) \/ ~IsObject(o)
    <3>1. m = o
      BY <2>1, <2>3, OneMerge
    <3> QED
      BY <1>1, <3>1
  <2> QED
    BY <2>2, <2>3
<1> QED
  BY <1>1 DEF Leaves

(* The same of what OverridesWin expects there.                             *)
LEMMA Expectation ==
    ASSUME NEW b, NEW o, NEW m, NEW cut, Value(b), Value(o),
           cut => o = None /\ m = None, ~cut => Leaves(b, o, m),
           NEW expected, IsLeaf(expected) \/ IsLeaf(m),
           expected = CASE o # None -> o [] cut -> None [] OTHER -> b
    PROVE  m = expected
<1>1. CASE cut
  BY <1>1
<1>2. CASE ~cut
  <2>1. expected = IF o # None THEN o ELSE b
    BY <1>2
  <2> QED
    BY <1>2, <2>1, Ends
<1> QED
  BY <1>1, <1>2

DefinitionOf(s) == Definition(s.file, s.env)
BaseOf(s) == DefinitionOf(s).extra
OverOf(s) == FieldsOf(Overrides(DefinitionOf(s), EnvText(DefinitionOf(s), s.env)))

(* resolve merges section by section.                                       *)
LEMMA Sections ==
    ASSUME NEW s \in Scenarios, Resolved(s) # None
    PROVE  /\ "sections" \in DOMAIN Resolved(s)
           /\ \A key :
                LET b == Get(BaseOf(s), key)
                    o == Get(OverOf(s), key)
                    m == Get(Resolved(s).sections, key)
                IN  Value(b) /\ Value(o) /\ Leaves(b, o, m)
           /\ \A key : key \in DOMAIN Resolved(s).sections => Resolved(s).sections[key] # None
<1> DEFINE definition == DefinitionOf(s)
           text == EnvText(definition, s.env)
           overrides == Overrides(definition, text)
           base == BaseOf(s)
           over == OverOf(s)
           merged == Resolved(s).sections
<1>1. \A key \in DOMAIN base : base[key] \in Json
  BY ServicesAssumption DEF BaseOf, DefinitionOf
<1>2. overrides \in Json \cup {None}
  BY ServicesAssumption DEF DefinitionOf, Overrides
<1>3. \A key \in DOMAIN over : over[key] \in Json
  BY <1>2, Values DEF OverOf, FieldsOf
<1>4. /\ "sections" \in DOMAIN Resolved(s)
      /\ merged = IF ~IsObject(overrides) THEN base
                  ELSE [key \in DOMAIN base \cup DOMAIN Content(overrides) |->
                        IF key \notin DOMAIN Content(overrides) THEN base[key]
                        ELSE IF key \notin DOMAIN base THEN Content(overrides)[key]
                        ELSE DeepMerge(base[key], Content(overrides)[key])]
  BY DEF Resolved, Resolve, DefinitionOf, BaseOf
<1>5. /\ over = IF IsObject(overrides) THEN Content(overrides) ELSE NoFields
      /\ DOMAIN NoFields = {}
  BY Values DEF OverOf, FieldsOf
<1> HIDE DEF overrides, base, over, merged
<1>6. \A key \in DOMAIN base \cup DOMAIN over :
        /\ key \in DOMAIN merged
        /\ merged[key] = IF key \notin DOMAIN over THEN base[key]
                         ELSE IF key \notin DOMAIN base THEN over[key]
                         ELSE DeepMerge(base[key], over[key])
  BY <1>4, <1>5
<1>7. \A key \in DOMAIN merged : key \in DOMAIN base \cup DOMAIN over
  BY <1>4, <1>5
<1>8. \A key : /\ Value(Get(base, key)) /\ Value(Get(over, key))
               /\ Leaves(Get(base, key), Get(over, key), Get(merged, key))
  BY <1>1, <1>3, <1>6, <1>7, Values DEF Get, Value, Leaves
<1>9. \A key \in DOMAIN merged : merged[key] # None
  BY <1>1, <1>3, <1>6, <1>7, Values, MergeAssumption
<1> QED
  BY <1>4, <1>8, <1>9 DEF base, over, merged

(* The hooks of the plugins leave alone what they do not set.               *)
ConfigInv ==
    /\ scenario \in Scenarios /\ configured \in Nat
    /\ phase = "start" \/ Resolved(scenario) = None => config = None
    /\ phase = "configuring" => Resolved(scenario) # None
    /\ phase # "start" /\ Resolved(scenario) # None =>
        /\ "sections" \in DOMAIN config
        /\ \A key : key \notin ConfiguredKeys(scenario) =>
                Get(config.sections, key) = Get(Resolved(scenario).sections, key)

LEMMA ConfigInit == Init => ConfigInv
BY DEF Init, ConfigInv

LEMMA ConfigStep == ASSUME ConfigInv, [Next]_vars PROVE ConfigInv'
<1>1. CASE Start
  <2>1. /\ config' = Resolved(scenario) /\ UNCHANGED <<scenario, configured>>
        /\ phase' = "ended" \/ (phase' = "configuring" /\ SinkFor(scenario) # None)
    BY <1>1 DEF Start, Refuse
  <2>2. phase' = "configuring" => Resolved(scenario) # None
    BY <2>1 DEF SinkFor
  <2>3. Resolved(scenario) # None => "sections" \in DOMAIN config'
    BY <2>1, Sections DEF ConfigInv
  <2> QED
    BY <2>1, <2>2, <2>3 DEF ConfigInv
<1>2. CASE Configure
  <2> DEFINE setting == scenario.configures[configured + 1]
  <2>1. /\ config' = SetSection(config, setting) /\ configured' = configured + 1
        /\ configured + 1 \in DOMAIN scenario.configures
        /\ UNCHANGED <<scenario, phase>> /\ phase = "configuring" /\ Resolved(scenario) # None
    <3>1. configured + 1 \in DOMAIN scenario.configures
      BY <1>2, ServicesAssumption, LenProperties DEF Configure, ConfigInv
    <3> QED
      BY <1>2, <3>1 DEF Configure, ConfigInv
  <2>2. setting.key \in ConfiguredKeys(scenario)
    BY <2>1 DEF ConfiguredKeys
  <2> HIDE DEF setting
  <2>3. /\ "sections" \in DOMAIN config'
        /\ config'.sections = [key \in DOMAIN config.sections \cup {setting.key} |->
                IF key = setting.key THEN setting.value ELSE config.sections[key]]
    BY <2>1 DEF SetSection, ConfigInv
  <2>4. \A key : key # setting.key => Get(config'.sections, key) = Get(config.sections, key)
    BY <2>3 DEF Get
  <2>5. \A key : key \notin ConfiguredKeys(scenario) =>
            Get(config'.sections, key) = Get(Resolved(scenario).sections, key)
    BY <2>1, <2>2, <2>4 DEF ConfigInv
  <2>6. Resolved(scenario) # None /\ configured' \in Nat
    BY <2>1 DEF ConfigInv
  <2> QED
    BY <2>1, <2>3, <2>5, <2>6 DEF ConfigInv
<1>3. CASE UNCHANGED vars
  BY <1>3 DEF vars, setup, ConfigInv
<1>4. ASSUME Next, ~Start, ~Configure
      PROVE  /\ UNCHANGED <<scenario, config, configured>> /\ (phase' = "start" <=> phase = "start")
             /\ phase' = "configuring" => phase = "configuring"
  BY <1>4 DEF Next, MainStep, JobStep, BeginPrepare, PrepareDatabase, PrepareScheduler, Serve,
              CloseDatabase, DatabaseClosed, AbortJobs, Stopped, LogFlushTimesOut, LogFlushFails,
              LogFlushed, FlushOtel, Drained, Exit, DropOtelGuard, OtelTimesOut, Stop,
              OtelFlushed, FlushLands, BeginRun, RunEnds, JobDropped, Tick, RunPanics,
              RunHangs, ProbeComes, ContributorAnswers, ProbeGoesOn, LogStep, setup
<1> QED
  BY <1>1, <1>2, <1>3, <1>4 DEF ConfigInv

LEMMA ConfigInductive == Spec => []ConfigInv
BY ConfigInit, ConfigStep, PTL DEF Spec

LEMMA AtTable ==
    ASSUME NEW fields, NEW path
    PROVE  /\ At(fields, path, 1) = Get(fields, path[1])
           /\ At(fields, path, 2) = Below(Get(fields, path[1]), path[2])
           /\ At(fields, path, 3) = Below(Below(Get(fields, path[1]), path[2]), path[3])
BY DEF At, Below

LEMMA PathLengths == ASSUME NEW fields, NEW path \in Paths(fields) PROVE Len(path) \in {1, 2, 3}
BY DEF Paths

(* A setting has the value of the environment's overrides if they say       *)
(* anything there, and otherwise the base's, whatever the file and the      *)
(* environment are and however many sections the plugins set (resolve,      *)
(* deep_merge_json, configure).                                             *)
THEOREM OverridesHaveTheLastWord == Spec => []OverridesWin
<1>1. ConfigInv => OverridesWin
  <2> SUFFICES ASSUME ConfigInv, config # None PROVE OverridesWin
    BY DEF OverridesWin
  <2>0. phase # "start" /\ Resolved(scenario) # None
    BY DEF ConfigInv
  <2> DEFINE base == BaseOf(scenario)
             over == OverOf(scenario)
             merged == config.sections
             Expected(path) ==
                CASE At(over, path, Len(path)) # None -> At(over, path, Len(path))
                  [] \E n \in 1..(Len(path) - 1) : IsLeaf(At(over, path, n)) -> None
                  [] OTHER -> At(base, path, Len(path))
  <2>1. ASSUME NEW path, Len(path) \in {1, 2, 3}, path[1] \notin ConfiguredKeys(scenario),
               IsLeaf(Expected(path)) \/ IsLeaf(At(merged, path, Len(path)))
        PROVE  At(merged, path, Len(path)) = Expected(path)
    <3> DEFINE B(n) == At(base, path, n)
               O(n) == At(over, path, n)
               M(n) == At(merged, path, n)
               Cut(n) == \E k \in 1..(n - 1) : IsLeaf(O(k))
    <3>1. Value(B(1)) /\ Value(O(1)) /\ Leaves(B(1), O(1), M(1))
      <4>1. Get(merged, path[1]) = Get(Resolved(scenario).sections, path[1])
        BY <2>0, <2>1 DEF ConfigInv
      <4> QED
        BY <2>0, <4>1, Sections, AtTable DEF ConfigInv
    <3>2. \A n \in {1, 2} : /\ B(n + 1) = Below(B(n), path[n + 1])
                            /\ O(n + 1) = Below(O(n), path[n + 1])
                            /\ M(n + 1) = Below(M(n), path[n + 1])
      BY AtTable
    <3>3. ~IsLeaf(None) /\ ~IsObject(None) /\ \A name : Below(None, name) = None
      BY Values DEF Below, Get, FieldsOf
    <3> DEFINE Known(n) ==
                   /\ Value(B(n)) /\ Value(O(n))
                   /\ Cut(n) => O(n) = None /\ M(n) = None
                   /\ ~Cut(n) => Leaves(B(n), O(n), M(n))
    <3>4. Known(1)
      BY <3>1
    <3>5. ASSUME NEW n \in {1, 2}, Known(n) PROVE Known(n + 1)
      <4>1. Cut(n + 1) <=> Cut(n) \/ IsLeaf(O(n))
        <5>1. \A k : k \in 1..(n + 1 - 1) <=> k \in 1..(n - 1) \/ k = n
          OBVIOUS
        <5> QED
          BY <5>1
      <4>2. Value(B(n + 1)) /\ Value(O(n + 1))
        BY <3>2, <3>5, Values
      <4> HIDE DEF B, O, M, Cut
      <4>3. CASE Cut(n)
        BY <3>2, <3>3, <3>5, <4>1, <4>2, <4>3
      <4>4. CASE ~Cut(n)
        BY <3>2, <3>5, <4>1, <4>2, <4>4, Descend
      <4> QED
        BY <4>3, <4>4
    <3>6. Known(Len(path))
      <4>1. Known(2)
        BY <3>4, <3>5
      <4>2. Known(3)
        BY <3>5, <4>1
      <4> QED
        BY <2>1, <3>4, <4>1, <4>2
    <3> DEFINE last == Len(path)
               expected == Expected(path)
    <3>7. expected = CASE O(last) # None -> O(last)
                       [] Cut(last) -> None
                       [] OTHER -> B(last)
      BY Zenon
    <3>8. IsLeaf(expected) \/ IsLeaf(M(last))
      BY <2>1, Zenon
    <3>m. At(merged, path, Len(path)) = M(last)
      BY Zenon
    <3> HIDE DEF expected, B, O, M, Cut, last, Known
    <3>k. /\ Value(B(last)) /\ Value(O(last))
          /\ Cut(last) => O(last) = None /\ M(last) = None
          /\ ~Cut(last) => Leaves(B(last), O(last), M(last))
      BY <3>6 DEF Known, last
    <3>11. M(last) = expected
      BY <3>7, <3>8, <3>k, Expectation
    <3> QED
      BY <3>11, <3>m DEF expected
  <2>2. \A path \in Paths(base) \cup Paths(over) \cup Paths(merged) : Len(path) \in {1, 2, 3}
    BY PathLengths
  <2> QED
    BY <2>1, <2>2 DEF OverridesWin, DefinitionOf, BaseOf, OverOf, Env
<1> QED
  BY <1>1, ConfigInductive, PTL

=============================================================================
