----------------------------- MODULE LoadingCache -----------------------------
(***************************************************************************)
(* What `get_or_load` promises its callers, without map, mutex or Notify:  *)
(* a call is answered from a fresh entry, or by a load of its own that     *)
(* reads the upstream record as it is at one moment; nothing but the load  *)
(* of a call that is still there stores a loaded value, and it stores      *)
(* nothing else; and with single-flight no load of a key begins until the  *)
(* one before it has been stored, has failed or was given up.              *)
(***************************************************************************)
EXTENDS Naturals

CONSTANTS
    Callers,    \* the calls
    Keys,       \* what they ask for
    KeyOf       \* the key each call asks for

VARIABLES
    single_flight,  \* whether loads of a key exclude each other
    entry,          \* what is stored under each key
    version,        \* the current version of each key's record
    status,         \* "idle", "asking", "loading", "loaded", "done", "failed" or "gone"
    value           \* the version a call loaded

vars == <<single_flight, entry, version, status, value>>

Nothing == [state |-> "absent", version |-> 0, by |-> "app"]

Stored(v, who) == [state |-> "fresh", version |-> v, by |-> who]

Init ==
    /\ single_flight \in BOOLEAN
    /\ entry = [k \in Keys |-> Nothing]
    /\ version = [k \in Keys |-> 0]
    /\ status = [c \in Callers |-> "idle"]
    /\ value = [c \in Callers |-> 0]

Become(c, s) == status' = [status EXCEPT ![c] = s]

Ask(c) ==
    /\ status[c] = "idle"
    /\ Become(c, "asking")
    /\ UNCHANGED <<single_flight, entry, version, value>>

Serve(c) ==
    /\ status[c] = "asking"
    /\ entry[KeyOf[c]].state = "fresh"
    /\ Become(c, "done")
    /\ UNCHANGED <<single_flight, entry, version, value>>

(* Its own miss is all a call knows: something fresh may be stored by now.  *)
Begin(c) ==
    /\ status[c] = "asking"
    /\ single_flight =>
          \A d \in Callers : KeyOf[d] = KeyOf[c] => status[d] \notin {"loading", "loaded"}
    /\ Become(c, "loading")
    /\ \/ UNCHANGED entry
       \/ entry' = [entry EXCEPT ![KeyOf[c]] = Nothing]
    /\ UNCHANGED <<single_flight, version, value>>

Load(c) ==
    /\ status[c] = "loading"
    /\ value' = [value EXCEPT ![c] = version[KeyOf[c]]]
    /\ Become(c, "loaded")
    /\ UNCHANGED <<single_flight, entry, version>>

Deliver(c) ==
    /\ status[c] = "loaded"
    /\ entry' = [entry EXCEPT ![KeyOf[c]] = Stored(value[c], "loader")]
    /\ Become(c, "done")
    /\ UNCHANGED <<single_flight, version, value>>

Fail(c) ==
    /\ status[c] \in {"loading", "loaded"}
    /\ Become(c, "done")
    /\ UNCHANGED <<single_flight, entry, version, value>>

ReadFails(c) ==
    /\ status[c] = "asking"
    /\ Become(c, "failed")
    /\ UNCHANGED <<single_flight, entry, version, value>>

(* A caller goes away, at the latest just before it gets its answer.        *)
Leave(c) ==
    /\ status[c] \in {"asking", "loading", "loaded", "done"}
    /\ Become(c, "gone")
    /\ UNCHANGED <<single_flight, entry, version, value>>

-----------------------------------------------------------------------------
(* Around the calls                                                         *)

Expire(k) ==
    /\ entry[k].state = "fresh"
    /\ entry' = [entry EXCEPT ![k].state = "expired"]
    /\ UNCHANGED <<single_flight, version, status, value>>

Remove(k) ==
    /\ entry' = [entry EXCEPT ![k] = Nothing]
    /\ UNCHANGED <<single_flight, version, status, value>>

Set(k) ==
    /\ \E v \in 0..version[k] : entry' = [entry EXCEPT ![k] = Stored(v, "app")]
    /\ UNCHANGED <<single_flight, version, status, value>>

Change(k) ==
    /\ version' = [version EXCEPT ![k] = @ + 1]
    /\ UNCHANGED <<single_flight, entry, status, value>>

Next ==
    \/ \E c \in Callers :
          \/ Ask(c) \/ Serve(c) \/ Begin(c) \/ Load(c) \/ Deliver(c)
          \/ Fail(c) \/ ReadFails(c) \/ Leave(c)
    \/ \E k \in Keys : Expire(k) \/ Remove(k) \/ Set(k) \/ Change(k)

Spec == Init /\ [][Next]_vars

=============================================================================
