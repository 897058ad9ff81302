--------------------------- MODULE LifecycleProofs ---------------------------
(***************************************************************************)
(* Theorems about Lifecycle, for every number of plugins, every set of     *)
(* requests and of signals.                                                *)
(***************************************************************************)
EXTENDS Lifecycle, TLAPS

(* What each phase knows about prepare and shutdown.  The loops have called *)
(* the hooks on one side of `next` and not on the other.                    *)
BeforePrepare ==
    phase \in {"validate", "configure"} =>
        \A p \in Plugins : prepared[p] = "no" /\ shut[p] = 0

WhilePreparing ==
    phase = "prepare" =>
        \A p \in Plugins : prepared[p] = (IF p < next THEN "ok" ELSE "no") /\ shut[p] = 0

WhileRollingBack ==
    phase = "rollback" =>
        \A p \in Plugins :
            /\ p <= next => prepared[p] = "ok"
            /\ shut[p] = IF prepared[p] = "ok" /\ p > next THEN 1 ELSE 0

WhileUp ==
    phase \in {"bind", "ready", "tls", "serve", "drain"} =>
        \A p \in Plugins : prepared[p] = "ok" /\ shut[p] = 0

WhileShuttingDown ==
    phase = "shutdown" =>
        \A p \in Plugins : prepared[p] = "ok" /\ shut[p] = IF p > next THEN 1 ELSE 0

OutcomeAtEnd == outcome # "none" <=> phase = "stopped"

HookInv ==
    /\ BeforePrepare /\ WhilePreparing /\ WhileRollingBack /\ WhileUp /\ WhileShuttingDown
    /\ OutcomeAtEnd
    /\ ShutdownInReverse /\ OnlyPreparedShutDown /\ NothingLeftPrepared

(* What each phase knows about ready and about the requests.                *)
ReadyInv ==
    /\ phase \in {"validate", "configure", "prepare", "rollback", "bind"} =>
           \A p \in Plugins : readied[p] = "no"
    /\ phase = "ready" =>
           \A p \in Plugins : readied[p] = IF p < next THEN "ok" ELSE "no"
    /\ phase \in {"tls", "serve", "drain", "shutdown"} =>
           \A p \in Plugins : readied[p] = "ok"

RunningWhile ==
    Running # {} => phase \in {"serve", "drain"} \/ (tls /\ phase = "shutdown")

IInv == TypeOK /\ HookInv /\ ReadyInv /\ RunningWhile

-----------------------------------------------------------------------------
LEMMA InitIInv == Init => IInv
<1> SUFFICES ASSUME Init PROVE IInv
  OBVIOUS
<1> USE LifecycleAssumption DEF Init, Plugins
<1>1. TypeOK
  <2>1. tls \in BOOLEAN /\ signalled \in BOOLEAN /\ handled \subseteq Signals
    OBVIOUS
  <2>2. next \in 0..(N + 1)
    OBVIOUS
  <2>3. prepared \in [Plugins -> {"no", "ok", "failed"}]
        /\ readied \in [Plugins -> {"no", "ok", "failed"}]
        /\ shut \in [Plugins -> Nat]
    OBVIOUS
  <2> QED  BY <2>1, <2>2, <2>3 DEF TypeOK, Phases, Outcomes
<1>2. HookInv
  BY DEF HookInv, BeforePrepare, WhilePreparing, WhileRollingBack, WhileUp, WhileShuttingDown,
         OutcomeAtEnd, ShutdownInReverse, OnlyPreparedShutDown, NothingLeftPrepared
<1>3. ReadyInv /\ RunningWhile
  BY DEF ReadyInv, RunningWhile, Running
<1> QED  BY <1>1, <1>2, <1>3 DEF IInv

LEMMA TypeStep == TypeOK /\ [Next]_vars => TypeOK'
<1> SUFFICES ASSUME TypeOK, [Next]_vars PROVE TypeOK'
  OBVIOUS
<1> USE LifecycleAssumption DEF TypeOK, Plugins, Phases, Outcomes, Enter, End, hooks
<1>1. CASE UNCHANGED vars
  BY <1>1 DEF vars
<1>2. CASE MainStep
  <2>1. CASE BuildFails  BY <2>1 DEF BuildFails
  <2>2. CASE InitPlugins  BY <2>2 DEF InitPlugins
  <2>3. CASE Configure  BY <2>3 DEF Configure
  <2>4. CASE PrepareSucceeds  BY <2>4 DEF PrepareSucceeds
  <2>5. CASE PrepareFails  BY <2>5 DEF PrepareFails
  <2>6. CASE RollBack  BY <2>6 DEF RollBack, ShutdownPlugin
  <2>7. CASE RolledBack  BY <2>7 DEF RolledBack
  <2>8. CASE Built  BY <2>8 DEF Built
  <2>9. CASE BindFails  BY <2>9 DEF BindFails
  <2>10. CASE Bind  BY <2>10 DEF Bind
  <2>11. CASE ReadySucceeds  BY <2>11 DEF ReadySucceeds
  <2>12. CASE ReadyFails  BY <2>12 DEF ReadyFails
  <2>13. CASE AllReady  BY <2>13 DEF AllReady
  <2>14. CASE TlsReady  BY <2>14 DEF TlsReady
  <2>15. CASE TlsFails  BY <2>15 DEF TlsFails
  <2>16. CASE Drain  BY <2>16 DEF Drain
  <2>17. CASE Drained  BY <2>17 DEF Drained
  <2>18. CASE GraceExpires  BY <2>18 DEF GraceExpires
  <2>19. CASE ShutDown  BY <2>19 DEF ShutDown, ShutdownPlugin
  <2>20. CASE ShutdownComplete  BY <2>20 DEF ShutdownComplete
  <2> QED  BY <1>2, <2>1, <2>2, <2>3, <2>4, <2>5, <2>6, <2>7, <2>8, <2>9, <2>10,
              <2>11, <2>12, <2>13, <2>14, <2>15, <2>16, <2>17, <2>18, <2>19, <2>20 DEF MainStep
<1>3. CASE ServeFails
  BY <1>3 DEF ServeFails
<1>4. CASE Abandon
  BY <1>4 DEF Abandon, Calling
<1>5. ASSUME NEW r \in Requests, Accept(r) \/ Finish(r) \/ Cut(r) PROVE TypeOK'
  <2>1. CASE Accept(r)  BY <2>1 DEF Accept
  <2>2. CASE Finish(r)  BY <2>2 DEF Finish
  <2>3. CASE Cut(r)  BY <2>3 DEF Cut
  <2> QED  BY <1>5, <2>1, <2>2, <2>3
<1>6. ASSUME NEW s \in Signals, Install(s) \/ Signal(s) PROVE TypeOK'
  <2>1. CASE Install(s)  BY <2>1 DEF Install
  <2>2. CASE Signal(s)
    <3>1. CASE s \in handled  BY <2>2, <3>1 DEF Signal
    <3>2. CASE s \notin handled  BY <2>2, <3>2 DEF Signal
    <3> QED  BY <3>1, <3>2
  <2> QED  BY <1>6, <2>1, <2>2
<1> QED  BY <1>1, <1>2, <1>3, <1>4, <1>5, <1>6 DEF Next

(* Each loop stays on its side of `next`.  A step that ends the main task   *)
(* leaves what the properties ask for: nothing is left prepared when a      *)
(* loop has come to 0, and no other step can end with the outcomes they     *)
(* speak of.                                                                *)
LEMMA HookStep == TypeOK /\ HookInv /\ [Next]_vars => HookInv'
<1> SUFFICES ASSUME TypeOK, HookInv, [Next]_vars PROVE HookInv'
  OBVIOUS
<1> USE LifecycleAssumption
    DEF TypeOK, HookInv, BeforePrepare, WhilePreparing, WhileRollingBack, WhileUp,
        WhileShuttingDown, OutcomeAtEnd, ShutdownInReverse, OnlyPreparedShutDown,
        NothingLeftPrepared, Plugins, Enter, End, hooks
<1>1. CASE UNCHANGED vars
  BY <1>1 DEF vars
<1>2. CASE MainStep
  <2>1. CASE BuildFails  BY <2>1 DEF BuildFails
  <2>2. CASE InitPlugins  BY <2>2 DEF InitPlugins
  <2>3. CASE Configure  BY <2>3 DEF Configure
  <2>4. CASE PrepareSucceeds  BY <2>4 DEF PrepareSucceeds
  <2>5. CASE PrepareFails  BY <2>5 DEF PrepareFails
  <2>6. CASE RollBack  BY <2>6 DEF RollBack, ShutdownPlugin
  <2>7. CASE RolledBack  BY <2>7 DEF RolledBack
  <2>8. CASE Built  BY <2>8 DEF Built
  <2>9. CASE BindFails  BY <2>9 DEF BindFails
  <2>10. CASE Bind  BY <2>10 DEF Bind
  <2>11. CASE ReadySucceeds  BY <2>11 DEF ReadySucceeds
  <2>12. CASE ReadyFails  BY <2>12 DEF ReadyFails
  <2>13. CASE AllReady  BY <2>13 DEF AllReady
  <2>14. CASE TlsReady  BY <2>14 DEF TlsReady
  <2>15. CASE TlsFails  BY <2>15 DEF TlsFails
  <2>16. CASE Drain  BY <2>16 DEF Drain
  <2>17. CASE Drained  BY <2>17 DEF Drained
  <2>18. CASE GraceExpires  BY <2>18 DEF GraceExpires
  <2>19. CASE ShutDown  BY <2>19 DEF ShutDown, ShutdownPlugin
  <2>20. CASE ShutdownComplete  BY <2>20 DEF ShutdownComplete
  <2> QED  BY <1>2, <2>1, <2>2, <2>3, <2>4, <2>5, <2>6, <2>7, <2>8, <2>9, <2>10,
              <2>11, <2>12, <2>13, <2>14, <2>15, <2>16, <2>17, <2>18, <2>19, <2>20 DEF MainStep
<1>3. CASE ServeFails
  BY <1>3 DEF ServeFails
<1>4. CASE Abandon
  BY <1>4 DEF Abandon, Calling
<1>5. ASSUME NEW r \in Requests, Accept(r) \/ Finish(r) \/ Cut(r) PROVE HookInv'
  <2>1. CASE Accept(r)  BY <2>1 DEF Accept
  <2>2. CASE Finish(r)  BY <2>2 DEF Finish
  <2>3. CASE Cut(r)  BY <2>3 DEF Cut
  <2> QED  BY <1>5, <2>1, <2>2, <2>3
<1>6. ASSUME NEW s \in Signals, Install(s) \/ Signal(s) PROVE HookInv'
  <2>1. CASE Install(s)  BY <2>1 DEF Install
  <2>2. CASE Signal(s)  BY <2>2 DEF Signal
  <2> QED  BY <1>6, <2>1, <2>2
<1> QED  BY <1>1, <1>2, <1>3, <1>4, <1>5, <1>6 DEF Next

LEMMA ReadyStep ==
    TypeOK /\ ReadyInv /\ RunningWhile /\ [Next]_vars => ReadyInv' /\ RunningWhile'
<1> SUFFICES ASSUME TypeOK, ReadyInv, RunningWhile, [Next]_vars
             PROVE  ReadyInv' /\ RunningWhile'
  OBVIOUS
<1> USE LifecycleAssumption
    DEF TypeOK, ReadyInv, RunningWhile, Running, Plugins, Enter, End, hooks
<1>1. CASE UNCHANGED vars
  BY <1>1 DEF vars
<1>2. CASE MainStep
  <2>1. CASE BuildFails  BY <2>1 DEF BuildFails
  <2>2. CASE InitPlugins  BY <2>2 DEF InitPlugins
  <2>3. CASE Configure  BY <2>3 DEF Configure
  <2>4. CASE PrepareSucceeds  BY <2>4 DEF PrepareSucceeds
  <2>5. CASE PrepareFails  BY <2>5 DEF PrepareFails
  <2>6. CASE RollBack  BY <2>6 DEF RollBack, ShutdownPlugin
  <2>7. CASE RolledBack  BY <2>7 DEF RolledBack
  <2>8. CASE Built  BY <2>8 DEF Built
  <2>9. CASE BindFails  BY <2>9 DEF BindFails
  <2>10. CASE Bind  BY <2>10 DEF Bind
  <2>11. CASE ReadySucceeds  BY <2>11 DEF ReadySucceeds
  <2>12. CASE ReadyFails  BY <2>12 DEF ReadyFails
  <2>13. CASE AllReady  BY <2>13 DEF AllReady
  <2>14. CASE TlsReady  BY <2>14 DEF TlsReady
  <2>15. CASE TlsFails  BY <2>15 DEF TlsFails
  <2>16. CASE Drain  BY <2>16 DEF Drain
  <2>17. CASE Drained  BY <2>17 DEF Drained
  <2>18. CASE GraceExpires  BY <2>18 DEF GraceExpires
  <2>19. CASE ShutDown  BY <2>19 DEF ShutDown, ShutdownPlugin
  <2>20. CASE ShutdownComplete  BY <2>20 DEF ShutdownComplete
  <2> QED  BY <1>2, <2>1, <2>2, <2>3, <2>4, <2>5, <2>6, <2>7, <2>8, <2>9, <2>10,
              <2>11, <2>12, <2>13, <2>14, <2>15, <2>16, <2>17, <2>18, <2>19, <2>20 DEF MainStep
<1>3. CASE ServeFails
  BY <1>3 DEF ServeFails
<1>4. CASE Abandon
  BY <1>4 DEF Abandon, Calling
<1>5. ASSUME NEW r \in Requests, Accept(r) \/ Finish(r) \/ Cut(r) PROVE ReadyInv' /\ RunningWhile'
  <2>1. CASE Accept(r)  BY <2>1 DEF Accept
  <2>2. CASE Finish(r)  BY <2>2 DEF Finish
  <2>3. CASE Cut(r)  BY <2>3 DEF Cut
  <2> QED  BY <1>5, <2>1, <2>2, <2>3
<1>6. ASSUME NEW s \in Signals, Install(s) \/ Signal(s) PROVE ReadyInv' /\ RunningWhile'
  <2>1. CASE Install(s)  BY <2>1 DEF Install
  <2>2. CASE Signal(s)  BY <2>2 DEF Signal
  <2> QED  BY <1>6, <2>1, <2>2
<1> QED  BY <1>1, <1>2, <1>3, <1>4, <1>5, <1>6 DEF Next

LEMMA InvariantIInv == Spec => []IInv
<1>1. IInv /\ [Next]_vars => IInv'
  BY TypeStep, HookStep, ReadyStep DEF IInv
<1> QED  BY InitIInv, <1>1, PTL DEF Spec

(* build and run never leave the variables' types: the cursor of each loop  *)
(* stays within the plugins.                                                *)
THEOREM TypeCorrect == Spec => []TypeOK
<1>1. IInv => TypeOK
  BY DEF IInv
<1> QED  BY InvariantIInv, <1>1, PTL

(* Plugins are shut down in the reverse of the order they were prepared in, *)
(* in the rollback and in the regular shutdown.                             *)
THEOREM ReverseShutdown == Spec => []ShutdownInReverse
<1>1. IInv => ShutdownInReverse
  BY DEF IInv, HookInv
<1> QED  BY InvariantIInv, <1>1, PTL

(* No plugin is shut down twice, or without having been prepared.           *)
THEOREM ShutdownIsPaired == Spec => []OnlyPreparedShutDown
<1>1. IInv => OnlyPreparedShutDown
  BY DEF IInv, HookInv
<1> QED  BY InvariantIInv, <1>1, PTL

(* A rolled back build and a completed run leave nothing prepared.          *)
THEOREM CleanEnd == Spec => []NothingLeftPrepared
<1>1. IInv => NothingLeftPrepared
  BY DEF IInv, HookInv
<1> QED  BY InvariantIInv, <1>1, PTL

(* Requests meet an app that is ready and, without TLS, not shutting down.  *)
THEOREM RequestsMeetReadyPlugins == Spec => []ServesOnlyReadyPlugins
<1>1. IInv => ServesOnlyReadyPlugins
  BY DEF IInv, HookInv, WhileUp, ReadyInv, RunningWhile, ServesOnlyReadyPlugins
<1> QED  BY InvariantIInv, <1>1, PTL
=============================================================================
