------------------------------ MODULE Lifecycle ------------------------------
(***************************************************************************)
(* The life of an application: GasketAppBuilder::build of plugin/engine.rs *)
(* and run of server.rs, with the hooks they call, the requests the server *)
(* handles meanwhile, and the signals the operating system sends.          *)
(*                                                                         *)
(* Plugins are numbered in their sorted order (see PluginOrdering).  The   *)
(* main task is one sequence of awaits, whose place is `phase` and, inside *)
(* a loop over the plugins, `next`.  Requests run in tasks of their own.   *)
(***************************************************************************)
EXTENDS Integers, FiniteSets

CONSTANTS
    N,          \* the number of plugins
    Requests,   \* the requests clients may send
    Signals,    \* the shutdown signals: Ctrl+C and SIGTERM
    MayStop     \* whether the main future may be dropped, or a hook panic

ASSUME LifecycleAssumption ==
    /\ N \in Nat
    /\ MayStop \in BOOLEAN

VARIABLES
    tls,        \* ServerConfig.tls is set
    phase,      \* what the main task is doing
    next,       \* the plugin whose hook is called next
    prepared,   \* what became of each plugin's prepare
    readied,    \* what became of each plugin's ready
    shut,       \* how often each plugin's shutdown was called
    request,    \* where each request is
    handled,    \* the signals that have a handler installed
    signalled,  \* a handler received its signal
    outcome     \* how the main task ended

vars == <<tls, phase, next, prepared, readied, shut, request, handled, signalled, outcome>>

Plugins == 1..N

Phases == {"validate", "configure", "prepare", "rollback", "bind", "ready", "tls",
           "serve", "drain", "shutdown", "stopped"}

(* The phases that await a hook of plugin `next`.                           *)
Calling == {"prepare", "rollback", "ready", "shutdown"}

Outcomes == {"none", "ok", "error", "abandoned", "killed"}

TypeOK ==
    /\ tls \in BOOLEAN
    /\ phase \in Phases
    /\ next \in 0..(N + 1)
    /\ phase \in {"rollback", "shutdown"} => next \in 0..N
    /\ phase \in {"prepare", "ready"} => next \in 1..(N + 1)
    /\ prepared \in [Plugins -> {"no", "ok", "failed"}]
    /\ readied \in [Plugins -> {"no", "ok", "failed"}]
    /\ shut \in [Plugins -> Nat]
    /\ request \in [Requests -> {"unsent", "running", "done", "cut"}]
    /\ handled \subseteq Signals
    /\ signalled \in BOOLEAN
    /\ outcome \in Outcomes

Init ==
    /\ tls \in BOOLEAN
    /\ phase = "validate"
    /\ next = 0
    /\ prepared = [p \in Plugins |-> "no"]
    /\ readied = [p \in Plugins |-> "no"]
    /\ shut = [p \in Plugins |-> 0]
    /\ request = [r \in Requests |-> "unsent"]
    /\ handled = {}
    /\ signalled = FALSE
    /\ outcome = "none"

Running == {r \in Requests : request[r] = "running"}

(* The process or the task that called the library lets go of the app: the  *)
(* requests still running are cut.                                          *)
End(how) ==
    /\ phase' = "stopped"
    /\ outcome' = how
    /\ next' = 0
    /\ request' = [r \in Requests |-> IF r \in Running THEN "cut" ELSE request[r]]

Enter(place, first) ==
    /\ phase' = place
    /\ next' = first
    /\ UNCHANGED outcome

hooks == <<prepared, readied, shut>>

-----------------------------------------------------------------------------
(* build                                                                    *)

(* Duplicate names, missing dependencies, a failed sort; or the config does *)
(* not resolve, after init ran on every plugin.                             *)
BuildFails ==
    /\ phase \in {"validate", "configure"}
    /\ End("error")
    /\ UNCHANGED <<tls, hooks, handled, signalled>>

InitPlugins ==
    /\ phase = "validate"
    /\ Enter("configure", 0)
    /\ UNCHANGED <<tls, hooks, request, handled, signalled>>

Configure ==
    /\ phase = "configure"
    /\ Enter("prepare", 1)
    /\ UNCHANGED <<tls, hooks, request, handled, signalled>>

PrepareSucceeds ==
    /\ phase = "prepare" /\ next <= N
    /\ prepared' = [prepared EXCEPT ![next] = "ok"]
    /\ Enter("prepare", next + 1)
    /\ UNCHANGED <<tls, readied, shut, request, handled, signalled>>

(* Mutant: the error propagates without a rollback.                         *)
PrepareFailsAtOnce ==
    /\ phase = "prepare" /\ next <= N
    /\ prepared' = [prepared EXCEPT ![next] = "failed"]
    /\ End("error")
    /\ UNCHANGED <<tls, readied, shut, handled, signalled>>

PrepareFails ==
    /\ phase = "prepare" /\ next <= N
    /\ prepared' = [prepared EXCEPT ![next] = "failed"]
    /\ Enter("rollback", next - 1)
    /\ UNCHANGED <<tls, readied, shut, request, handled, signalled>>

(* Mutant: the loop forgets rev().                                          *)
ShutdownForward(loop) ==
    /\ phase = loop /\ next >= 1
    /\ shut' = [shut EXCEPT ![N + 1 - next] = @ + 1]
    /\ Enter(loop, next - 1)
    /\ UNCHANGED <<tls, prepared, readied, request, handled, signalled>>

(* shutdown returns, with an error or without: both loops log it and go on. *)
ShutdownPlugin(loop) ==
    /\ phase = loop /\ next >= 1
    /\ shut' = [shut EXCEPT ![next] = @ + 1]
    /\ Enter(loop, next - 1)
    /\ UNCHANGED <<tls, prepared, readied, request, handled, signalled>>

RollBack == ShutdownPlugin("rollback")

RolledBack ==
    /\ phase = "rollback" /\ next = 0
    /\ End("error")
    /\ UNCHANGED <<tls, hooks, handled, signalled>>

Built ==
    /\ phase = "prepare" /\ next > N
    /\ Enter("bind", 0)
    /\ UNCHANGED <<tls, hooks, request, handled, signalled>>

-----------------------------------------------------------------------------
(* run                                                                      *)

(* The host does not parse, the router cannot be assembled, the port is     *)
(* taken, the listener has no address.                                      *)
BindFails ==
    /\ phase = "bind"
    /\ End("error")
    /\ UNCHANGED <<tls, hooks, handled, signalled>>

Bind ==
    /\ phase = "bind"
    /\ Enter("ready", 1)
    /\ UNCHANGED <<tls, hooks, request, handled, signalled>>

ReadySucceeds ==
    /\ phase = "ready" /\ next <= N
    /\ readied' = [readied EXCEPT ![next] = "ok"]
    /\ Enter("ready", next + 1)
    /\ UNCHANGED <<tls, prepared, shut, request, handled, signalled>>

(* Mutant: the error is logged and the loop goes on.                        *)
ReadyFailsAndGoesOn ==
    /\ phase = "ready" /\ next <= N
    /\ readied' = [readied EXCEPT ![next] = "failed"]
    /\ Enter("ready", next + 1)
    /\ UNCHANGED <<tls, prepared, shut, request, handled, signalled>>

(* The `?` on ready leaves the loop, and run.                               *)
ReadyFails ==
    /\ phase = "ready" /\ next <= N
    /\ readied' = [readied EXCEPT ![next] = "failed"]
    /\ End("error")
    /\ UNCHANGED <<tls, prepared, shut, handled, signalled>>

AllReady ==
    /\ phase = "ready" /\ next > N
    /\ Enter(IF tls THEN "tls" ELSE "serve", 0)
    /\ UNCHANGED <<tls, hooks, request, handled, signalled>>

(* serve_tls reads the certificates, builds the server config and converts  *)
(* the listener.                                                            *)
TlsReady ==
    /\ phase = "tls"
    /\ Enter("serve", 0)
    /\ UNCHANGED <<tls, hooks, request, handled, signalled>>

TlsFails ==
    /\ phase = "tls"
    /\ End("error")
    /\ UNCHANGED <<tls, hooks, handled, signalled>>

ServeFails ==
    /\ phase \in {"serve", "drain"}
    /\ End("error")
    /\ UNCHANGED <<tls, hooks, handled, signalled>>

(* shutdown_signal completes: the server stops accepting.                   *)
Drain ==
    /\ phase = "serve" /\ signalled
    /\ Enter("drain", 0)
    /\ UNCHANGED <<tls, hooks, request, handled, signalled>>

Drained ==
    /\ phase = "drain" /\ Running = {}
    /\ Enter("shutdown", N)
    /\ UNCHANGED <<tls, hooks, request, handled, signalled>>

(* Mutant: graceful_shutdown(None) waits for every request.                 *)
GraceNeverExpires ==
    /\ phase = "drain" /\ tls /\ Running = {}
    /\ Enter("shutdown", N)
    /\ UNCHANGED <<tls, hooks, request, handled, signalled>>

(* Only the TLS server bounds the wait; the connections still open are told *)
(* to close, and end in their own time.                                     *)
GraceExpires ==
    /\ phase = "drain" /\ tls
    /\ Enter("shutdown", N)
    /\ UNCHANGED <<tls, hooks, request, handled, signalled>>

ShutDown == ShutdownPlugin("shutdown")

ShutdownComplete ==
    /\ phase = "shutdown" /\ next = 0
    /\ End("ok")
    /\ UNCHANGED <<tls, hooks, handled, signalled>>

-----------------------------------------------------------------------------
(* Around the main task                                                     *)

Accept(r) ==
    /\ phase = "serve"
    /\ request[r] = "unsent"
    /\ request' = [request EXCEPT ![r] = "running"]
    /\ UNCHANGED <<tls, phase, next, hooks, handled, signalled, outcome>>

Finish(r) ==
    /\ request[r] = "running"
    /\ request' = [request EXCEPT ![r] = "done"]
    /\ UNCHANGED <<tls, phase, next, hooks, handled, signalled, outcome>>

(* The connection of r is dropped: its client left, or the grace expired.   *)
Cut(r) ==
    /\ request[r] = "running"
    /\ request' = [request EXCEPT ![r] = "cut"]
    /\ UNCHANGED <<tls, phase, next, hooks, handled, signalled, outcome>>

(* The task that watches for signals starts once the server runs.           *)
Install(s) ==
    /\ phase = "serve"
    /\ s \notin handled
    /\ handled' = handled \cup {s}
    /\ UNCHANGED <<tls, phase, next, hooks, request, signalled, outcome>>

(* A signal without a handler has its default effect on the process.        *)
Signal(s) ==
    /\ phase # "stopped"
    /\ IF s \in handled
       THEN /\ signalled' = TRUE
            /\ UNCHANGED <<phase, next, request, outcome>>
       ELSE /\ End("killed")
            /\ UNCHANGED signalled
    /\ UNCHANGED <<tls, hooks, handled>>

(* The future of build or run is dropped at an await, or a hook panics.     *)
Abandon ==
    /\ MayStop
    /\ phase \in Calling \cup {"bind", "tls", "serve", "drain"}
    /\ End("abandoned")
    /\ UNCHANGED <<tls, hooks, handled, signalled>>

-----------------------------------------------------------------------------
(* What the main task does once it is polled and what it awaits is there.   *)
MainStep ==
    \/ BuildFails \/ InitPlugins \/ Configure \/ PrepareSucceeds \/ PrepareFails
    \/ RollBack \/ RolledBack \/ Built
    \/ BindFails \/ Bind \/ ReadySucceeds \/ ReadyFails \/ AllReady
    \/ TlsReady \/ TlsFails \/ Drain \/ Drained \/ GraceExpires
    \/ ShutDown \/ ShutdownComplete

Next ==
    \/ MainStep \/ ServeFails \/ Abandon
    \/ \E r \in Requests : Accept(r) \/ Finish(r) \/ Cut(r)
    \/ \E s \in Signals : Install(s) \/ Signal(s)

Spec == Init /\ [][Next]_vars

(* Hooks return and the TLS grace period passes.  A server may serve for    *)
(* ever, no signal has to come, and nothing makes a request end.            *)
FairSpec == Spec /\ WF_vars(MainStep)

-----------------------------------------------------------------------------
(* Properties                                                               *)

(* GasketApp::shutdown and the rollback of build: a plugin is shut down     *)
(* only after every prepared plugin that comes later in the order.          *)
ShutdownInReverse ==
    \A p, q \in Plugins :
        p < q /\ shut[p] > 0 /\ prepared[q] = "ok" => shut[q] > 0

(* build and run between them shut a plugin down at most once, and only one *)
(* whose prepare succeeded: never the plugin that made the build fail.      *)
OnlyPreparedShutDown ==
    \A p \in Plugins : shut[p] > 0 => shut[p] = 1 /\ prepared[p] = "ok"

(* After a failed prepare, and after a server that served until its signal, *)
(* no plugin is left prepared, whatever the other shutdown hooks returned.  *)
NothingLeftPrepared ==
    \/ outcome = "ok"
    \/ outcome = "error" /\ \E p \in Plugins : prepared[p] = "failed"
    => \A p \in Plugins : prepared[p] = "ok" => shut[p] = 1

(* run: a request is handled only by an app whose plugins are all ready;    *)
(* without TLS none is still running when the first plugin is shut down.    *)
ServesOnlyReadyPlugins ==
    Running # {} =>
        \A p \in Plugins : readied[p] = "ok" /\ (tls \/ shut[p] = 0)

(* run ends, or serves without having been told to stop, or (without TLS)   *)
(* waits for a request that does not end.  Nothing else holds it up.        *)
StopsUnlessARequestHangs ==
    <>[]( \/ phase = "stopped"
          \/ phase = "serve" /\ ~signalled
          \/ phase = "drain" /\ ~tls /\ Running # {} )

=============================================================================
