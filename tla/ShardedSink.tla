----------------------------- MODULE ShardedSink -----------------------------
(***************************************************************************)
(* observability/sharded.rs: log lines (or audit events) go to the rings of *)
(* a sharded sink, off the request path, and the worker of each ring writes *)
(* them in batches under one lock.  Rings and workers are the library's,    *)
(* and so is what becomes of a line that comes after the last flush.        *)
(*                                                                         *)
(* The audit sink of ShardedAuditLogger drains without a lock, and nobody   *)
(* can shut it down: it is left out.                                        *)
(***************************************************************************)
EXTENDS Options, Naturals, Sequences, Functions

CONSTANTS
    Lines,      \* what is logged, each once
    Settings    \* the ShardedSinkConfigs that the sink may be spawned with

SinkConfigs ==
    [enabled : BOOLEAN, shards : Nat, ring_capacity : Nat, drain_batch : Nat,
     shutdown_timeout_secs : Nat \cup {None}]

ASSUME SinkAssumption == Settings \subseteq SinkConfigs /\ None \notin SinkConfigs

VARIABLES
    settings,   \* what the sink was spawned with, None before
    rings,      \* the lines queued on each shard
    batch,      \* the lines that a shard's worker has popped
    lock,       \* the shard whose worker holds the writer, 0 for none
    dead,       \* the shards whose worker has panicked
    accepted,   \* the lines that each shard took
    shed,       \* the lines that were not taken
    written,    \* the lines in the log
    lost,       \* the lines whose writing failed
    sink        \* "none", "open", "draining", "flushed", "failed", "timed_out", "dropped"

queues == <<rings, batch, accepted, shed>>
writer == <<lock, dead, written, lost>>
sinkVars == <<settings, queues, writer, sink>>

-----------------------------------------------------------------------------
AtLeastOne(n) == IF n = 0 THEN 1 ELSE n

ToSinkConfig(cfg) ==
    [cfg EXCEPT !.shards = AtLeastOne(@), !.ring_capacity = AtLeastOne(@),
                !.drain_batch = AtLeastOne(@)]

SinkInit ==
    /\ settings = None /\ sink = "none"
    /\ rings = <<>> /\ batch = <<>> /\ accepted = <<>> /\ shed = {}
    /\ lock = 0 /\ dead = {} /\ written = <<>> /\ lost = {}

(* A sink that is not enabled has no rings: lines are written inline.       *)
Spawn(cfg) ==
    /\ sink = "none"
    /\ settings' = ToSinkConfig(cfg) /\ sink' = "open"
    /\ LET empty == [s \in 1..(IF cfg.enabled THEN settings'.shards ELSE 0) |-> <<>>]
       IN  rings' = empty /\ batch' = empty /\ accepted' = empty
    /\ UNCHANGED <<shed, writer>>

-----------------------------------------------------------------------------
(* Lines come: ShardedLineWriter::drop, log_auth_event.                     *)

Logged == (UNION {Range(accepted[s]) : s \in DOMAIN accepted}) \cup shed \cup Range(written)

CanLog(x) == sink \notin {"none", "flushed"} /\ x \notin Logged

WriteInline(x) ==
    /\ CanLog(x) /\ ~settings.enabled
    /\ written' = Append(written, x)
    /\ UNCHANGED <<settings, queues, lock, dead, lost, sink>>

Push(x, s) ==
    /\ CanLog(x) /\ s \in DOMAIN rings /\ Len(rings[s]) < settings.ring_capacity
    /\ rings' = [rings EXCEPT ![s] = Append(@, x)]
    /\ accepted' = [accepted EXCEPT ![s] = Append(@, x)]
    /\ UNCHANGED <<settings, batch, shed, writer, sink>>

(* The line finds its ring full, or a sink that is ending.                  *)
Shed(x, s) ==
    /\ CanLog(x) /\ s \in DOMAIN rings
    /\ Len(rings[s]) = settings.ring_capacity \/ sink # "open"
    /\ shed' = shed \cup {x}
    /\ UNCHANGED <<settings, rings, batch, accepted, writer, sink>>

-----------------------------------------------------------------------------
(* The workers: WriteDrain::drain.                                          *)

Working(s) == s \in DOMAIN rings \ dead

PopBatch(s) ==
    /\ Working(s) /\ batch[s] = <<>> /\ lock # s /\ rings[s] # <<>>
    /\ \E n \in 1..Len(rings[s]) :
        /\ n <= settings.drain_batch
        /\ batch' = [batch EXCEPT ![s] = SubSeq(rings[s], 1, n)]
        /\ rings' = [rings EXCEPT ![s] = SubSeq(@, n + 1, Len(@))]
    /\ UNCHANGED <<settings, accepted, shed, writer, sink>>

(* Poisoned or not: a worker that has panicked leaves the lock to others.   *)
LockWriter(s) ==
    /\ Working(s) /\ batch[s] # <<>> /\ lock = 0
    /\ lock' = s
    /\ UNCHANGED <<settings, queues, dead, written, lost, sink>>

WriteLine(s) ==
    /\ s \in DOMAIN batch /\ lock = s /\ batch[s] # <<>>
    /\ written' = Append(written, Head(batch[s]))
    /\ batch' = [batch EXCEPT ![s] = Tail(@)]
    /\ UNCHANGED <<settings, rings, accepted, shed, lock, dead, lost, sink>>

(* Mutant: an error ends the drain, and with it the batch.                  *)
BatchFails(s) ==
    /\ s \in DOMAIN batch /\ lock = s /\ batch[s] # <<>>
    /\ lost' = lost \cup {Head(batch[s])}
    /\ batch' = [batch EXCEPT ![s] = <<>>]
    /\ UNCHANGED <<settings, rings, accepted, shed, lock, dead, written, sink>>

(* An error of the writer is ignored: the next line is written.             *)
LineFails(s) ==
    /\ s \in DOMAIN batch /\ lock = s /\ batch[s] # <<>>
    /\ lost' = lost \cup {Head(batch[s])}
    /\ batch' = [batch EXCEPT ![s] = Tail(@)]
    /\ UNCHANGED <<settings, rings, accepted, shed, lock, dead, written, sink>>

Unlock(s) ==
    /\ s \in DOMAIN batch /\ lock = s /\ batch[s] = <<>>
    /\ lock' = 0
    /\ UNCHANGED <<settings, queues, dead, written, lost, sink>>

(* The writer panics under the lock, and the worker ends with its batch.    *)
WriterPanics(s) ==
    /\ s \in DOMAIN batch /\ lock = s
    /\ lock' = 0 /\ dead' = dead \cup {s}
    /\ UNCHANGED <<settings, queues, written, lost, sink>>

-----------------------------------------------------------------------------
(* The guard: ShardedLogGuard::shutdown waits for the workers; without a    *)
(* sink it returns at once.                                                 *)

End(from, to) == sink = from /\ sink' = to /\ UNCHANGED <<settings, queues, writer>>

ShutDown == End("open", "draining")

Flushed ==
    /\ End("draining", "flushed")
    /\ lock = 0 /\ dead = {}
    /\ \A s \in DOMAIN rings : rings[s] = <<>> /\ batch[s] = <<>>

(* A worker has panicked.                                                   *)
ShutDownFails == End("draining", "failed") /\ dead # {}

TimesOut ==
    /\ End("draining", "timed_out")
    /\ settings.enabled /\ settings.shutdown_timeout_secs # None

(* The guard is dropped instead: the workers are told to end, some time.    *)
DropGuard == End("open", "dropped")

-----------------------------------------------------------------------------
Shards == UNION {1..AtLeastOne(c.shards) : c \in Settings}

LogLine(x) == WriteInline(x) \/ \E s \in Shards : Push(x, s) \/ Shed(x, s)

Worker(s) == PopBatch(s) \/ LockWriter(s) \/ WriteLine(s) \/ LineFails(s) \/ Unlock(s)

Guard == ShutDown \/ Flushed \/ ShutDownFails \/ TimesOut \/ DropGuard

SinkNext ==
    \/ \E cfg \in Settings : Spawn(cfg)
    \/ \E x \in Lines : LogLine(x)
    \/ \E s \in Shards : Worker(s) \/ WriterPanics(s)
    \/ Guard

SinkSpec == SinkInit /\ [][SinkNext]_sinkVars

-----------------------------------------------------------------------------
(* Properties.                                                              *)

(* Rings and batches keep to the settings, which are at least one           *)
(* (to_sink_config).                                                        *)
SinkTypeOK ==
    /\ settings \in {ToSinkConfig(c) : c \in Settings} \cup {None}
    /\ sink \in {"none", "open", "draining", "flushed", "failed", "timed_out", "dropped"}
    /\ rings \in Seq(Seq(Lines)) /\ batch \in Seq(Seq(Lines)) /\ accepted \in Seq(Seq(Lines))
    /\ Len(batch) = Len(rings) /\ Len(accepted) = Len(rings)
    /\ \A s \in DOMAIN rings :
        /\ settings.shards >= s
        /\ Len(rings[s]) <= settings.ring_capacity /\ settings.ring_capacity > 0
        /\ Len(batch[s]) <= settings.drain_batch /\ settings.drain_batch > 0
    /\ lock \in {0} \cup DOMAIN rings /\ dead \subseteq DOMAIN rings
    /\ written \in Seq(Lines) /\ shed \subseteq Lines /\ lost \subseteq Lines

(* What a ring accepted is written at most once, and in order within its    *)
(* shard; and when the guard's shutdown reports success all of it is, but   *)
(* for the lines that the writer itself failed (WriteDrain::drain,          *)
(* ShardedLogGuard::shutdown).                                              *)
AcceptedAreWritten ==
    /\ \A m, n \in DOMAIN written : written[m] = written[n] => m = n
    /\ \A s \in DOMAIN accepted : \A i, j \in DOMAIN accepted[s], m, n \in DOMAIN written :
        i < j /\ written[m] = accepted[s][i] /\ written[n] = accepted[s][j] => m < n
    /\ sink = "flushed" =>
        \A s \in DOMAIN accepted : Range(accepted[s]) \subseteq Range(written) \cup lost
=============================================================================
