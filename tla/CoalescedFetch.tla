---------------------------- MODULE CoalescedFetch ----------------------------
(***************************************************************************)
(* What a cache with coalesced fetches promises its callers, without       *)
(* locks, semaphores or maps: a caller is answered from a fresh entry or   *)
(* from its own fetch, a fetch begins only while no other fetch of that    *)
(* name is under way and nothing fresh is stored, and only a fetch makes   *)
(* an entry fresh.                                                         *)
(***************************************************************************)
CONSTANTS
    Callers,    \* the calls
    Names,      \* what they ask for
    NameOf      \* the name each call asks for

VARIABLES
    entry,      \* what is stored under each name
    status      \* "idle", "waiting", "fetching", "done" or "gone"

Init ==
    /\ entry = [n \in Names |-> "absent"]
    /\ status = [c \in Callers |-> "idle"]

Become(c, s) == status' = [status EXCEPT ![c] = s]

Ask(c) ==
    /\ status[c] = "idle"
    /\ Become(c, "waiting")
    /\ UNCHANGED entry

Serve(c) ==
    /\ status[c] = "waiting"
    /\ entry[NameOf[c]] = "fresh"
    /\ Become(c, "done")
    /\ UNCHANGED entry

BeginFetch(c) ==
    /\ status[c] = "waiting"
    /\ entry[NameOf[c]] # "fresh"
    /\ \A d \in Callers : NameOf[d] = NameOf[c] => status[d] # "fetching"
    /\ Become(c, "fetching")
    /\ UNCHANGED entry

Deliver(c) ==
    /\ status[c] = "fetching"
    /\ entry' = [entry EXCEPT ![NameOf[c]] = "fresh"]
    /\ Become(c, "done")

Fail(c) ==
    /\ status[c] = "fetching"
    /\ Become(c, "done")
    /\ UNCHANGED entry

(* A caller goes away, at the latest just before it gets its answer.        *)
Leave(c) ==
    /\ status[c] \notin {"idle", "gone"}
    /\ Become(c, "gone")
    /\ UNCHANGED entry

Age(n) ==
    /\ entry[n] = "fresh"
    /\ entry' = [entry EXCEPT ![n] = "stale"]
    /\ UNCHANGED status

Next ==
    \/ \E c \in Callers :
          Ask(c) \/ Serve(c) \/ BeginFetch(c) \/ Deliver(c) \/ Fail(c) \/ Leave(c)
    \/ \E n \in Names : Age(n)

Spec == Init /\ [][Next]_<<entry, status>>

=============================================================================
