--------------------------- MODULE SessionOpenProofs ---------------------------
(***************************************************************************)
(* Proofs about SessionOpen, for every number of signals.  The invariants  *)
(* the runs check are not inductive: that the watchdog's token is alive    *)
(* rests on where the command thread can be while the watchdog exists, and *)
(* that it never fires late on who holds its mutex.                        *)
(***************************************************************************)
EXTENDS SessionOpen, TLAPS

\* The watchdog exists only between StartWatchdog and Join, and has a token,
\* which is alive from the session's construction on.
WatchdogScope ==
  /\ pc \in {"start", "construct", "watch"} => worker = "none"
  /\ worker \in Active =>
       pc \in {"load", "cfg", "inventory", "stop", "notify", "join"}
  /\ worker # "none" => sessionToken # "null"
  /\ pc = "watch" /\ sessionToken # "null" => life[sessionToken] = "live"
  /\ WorkerTokenAlive

\* The worker owns the mutex exactly while it is about to request, and it is
\* not about to request once finished_ is set.
LockOwner ==
  /\ lock = "worker" <=> worker = "expired"
  /\ finished => worker # "expired"

\* The global pointer is null or points to a live token, but for one window, and
\* so did the handlers find it that have yet to request.
GuardScope ==
  /\ pc = "start" => ~ globalPtr
  /\ globalPtr /\ pc # "nulling" => life["global"] = "live"
  /\ pc \in {"restoring", "done"} => ~ globalPtr
  /\ inFlight > 0 =>
       life["global"] = "live" \/ pc \in {"nulling", "restoring", "done"}
  /\ inFlight <= signals

\* The Boolean part of the types.
Flags ==
  /\ finished \in BOOLEAN /\ deadline \in BOOLEAN /\ buildIr \in BOOLEAN
  /\ globalPtr \in BOOLEAN /\ handler \in BOOLEAN
  /\ loaded \in BOOLEAN /\ complete \in BOOLEAN

IInv == TypeOK /\ WatchdogScope /\ LockOwner /\ GuardScope

-----------------------------------------------------------------------------
\* The invariant holds initially.
LEMMA InitIInv == Init => IInv
<1> SUFFICES ASSUME Init PROVE IInv
  OBVIOUS
<1> USE DEF Init
<1>1. TypeOK
  <2>1. Flags
    BY Zenon DEF Flags
  <2> QED
    BY <2>1, MaxSignalsAssumption
    DEF MaxSignalsAssumption, TypeOK, Flags, PCs, WorkerStates, Tokens, Parts
<1>2. WatchdogScope
  BY DEF WatchdogScope, WorkerTokenAlive, Active
<1>3. LockOwner /\ GuardScope
  BY DEF LockOwner, GuardScope
<1> QED
  BY <1>1, <1>2, <1>3 DEF IInv

\* Every step of the command thread, of the watchdog and of a signal keeps the
\* types.
LEMMA StepTypeOK == IInv /\ [Next]_vars => TypeOK'
<1> SUFFICES ASSUME IInv, [Next]_vars PROVE TypeOK'
  OBVIOUS
<1> USE MaxSignalsAssumption
    DEF MaxSignalsAssumption, IInv, TypeOK, WatchdogScope, PCs, WorkerStates,
        Tokens, Parts, Go, mainVars, workerVars, inputs, signalVars
<1>1. CASE CreateGuard
  <2>1. Flags'
    BY <1>1, Zenon DEF CreateGuard, Flags
  <2>2. live' \subseteq Parts
    BY <1>1 DEF CreateGuard
  <2> QED
    BY <1>1, <2>1, <2>2 DEF CreateGuard, Flags
<1>2. CASE ConstructSession
  BY <1>2 DEF ConstructSession, CallerToken
<1>3. CASE StartWatchdog
  BY <1>3 DEF StartWatchdog
<1>4. CASE LoadBinary
  <2>1. Flags'
    BY <1>4, Zenon DEF LoadBinary, Flags
  <2>2. live' \subseteq Parts
    BY <1>4 DEF LoadBinary
  <2> QED
    BY <1>4, <2>1, <2>2 DEF LoadBinary, Flags
<1>5. CASE BuildCfg
  <2>1. Flags'
    BY <1>5, Zenon DEF BuildCfg, Flags
  <2>2. live' \subseteq Parts
    BY <1>5 DEF BuildCfg
  <2>3. pc' \in {"inventory", "stop"} /\ result' \in {"partial", result}
    BY <1>5, Zenon DEF BuildCfg
  <2>4. UNCHANGED <<workerVars, life, requested, sessionToken, exit, answer, signalVars>>
    BY <1>5, Zenon DEF BuildCfg
  <2> QED
    BY <2>1, <2>2, <2>3, <2>4 DEF Flags
<1>6. CASE BuildInventory
  <2>1. Flags'
    BY <1>6, Zenon DEF BuildInventory, Flags
  <2>2. live' \subseteq Parts
    BY <1>6 DEF BuildInventory
  <2> QED
    BY <1>6, <2>1, <2>2 DEF BuildInventory, Flags
<1>7. CASE SetFinished
  BY <1>7 DEF SetFinished
<1>8. CASE Notify
  BY <1>8 DEF Notify
<1>9. CASE Join
  BY <1>9 DEF Join, Joined
<1>10. CASE UseSession
  <2>1. Flags'
    BY <1>10, Zenon DEF UseSession, Flags
  <2>2. live' \subseteq Parts
    BY <1>10, Zenon DEF UseSession, ShowSession, ShowView, Query, Refuse
  <2>3. /\ answer' \in {"whole", "short", "canceled", "refused"}
        /\ exit' \in {"failure", "complete", "partial"}
    BY <1>10, Zenon DEF UseSession, ShowSession, ShowView, Query, Refuse
  <2>4. /\ pc' = "close"
        /\ UNCHANGED <<workerVars, life, requested, sessionToken, result, signalVars>>
    BY <1>10, Zenon DEF UseSession
  <2> QED
    BY <2>1, <2>2, <2>3, <2>4 DEF Flags
<1>11. CASE ReleasePart
  <2>1. Flags'
    BY <1>11, Zenon DEF ReleasePart, Flags
  <2>2. live' \subseteq Parts
    BY <1>11 DEF ReleasePart
  <2> QED
    BY <1>11, <2>1, <2>2 DEF ReleasePart, Flags
<1>12. CASE FinishRelease
  BY <1>12 DEF FinishRelease
<1>13. CASE DestroyGlobal
  BY <1>13 DEF DestroyGlobal
<1>14. CASE NullGlobal
  <2>1. Flags'
    BY <1>14, Zenon DEF NullGlobal, Flags
  <2>2. live' \subseteq Parts
    BY <1>14 DEF NullGlobal
  <2> QED
    BY <1>14, <2>1, <2>2 DEF NullGlobal, Flags
<1>15. CASE RestoreHandler
  <2>1. Flags'
    BY <1>15, Zenon DEF RestoreHandler, Flags
  <2>2. live' \subseteq Parts
    BY <1>15 DEF RestoreHandler
  <2> QED
    BY <1>15, <2>1, <2>2 DEF RestoreHandler, Flags
<1>16. CASE WorkerBegin
  BY <1>16 DEF WorkerBegin
<1>17. CASE WorkerWake
  BY <1>17 DEF WorkerWake
<1>18. CASE WorkerTimeout
  BY <1>18 DEF WorkerTimeout
<1>19. CASE WorkerRecheck
  BY <1>19 DEF WorkerRecheck
<1>20. CASE WorkerRequest
  BY <1>20 DEF WorkerRequest
<1>21. CASE Signal
  <2>1. CASE SignalTest
    BY <2>1 DEF SignalTest, GuardScope
  <2>2. CASE SignalRequest
    <3>1. inFlight' \in 0 .. MaxSignals
      BY <2>2 DEF SignalRequest
    <3>2. requested' \subseteq Tokens /\ misuse' \subseteq {"worker", "signal"}
      BY <2>2, Zenon DEF SignalRequest
    <3>3. UNCHANGED <<mainVars, workerVars, inputs, finished, signals>>
      BY <2>2, Zenon DEF SignalRequest
    <3> QED
      BY <3>1, <3>2, <3>3
  <2> QED
    BY <1>21, <2>1, <2>2 DEF Signal
<1>22. CASE AnswerDirectly
  BY <1>22 DEF AnswerDirectly
<1>23. CASE UNCHANGED vars
  BY <1>23 DEF vars
<1> QED
  BY <1>1, <1>2, <1>3, <1>4, <1>5, <1>6, <1>7, <1>8, <1>9, <1>10, <1>11, <1>12,
     <1>13, <1>14, <1>15, <1>16, <1>17, <1>18, <1>19, <1>20, <1>21, <1>22, <1>23
  DEF Next, Main, Worker, Opening, Stopping, Releasing, GuardExit, Terminated

\* And the scopes of the watchdog, its mutex and the pointer.
LEMMA StepScopes == IInv /\ [Next]_vars => (WatchdogScope /\ LockOwner /\ GuardScope)'
<1> SUFFICES ASSUME IInv, [Next]_vars PROVE (WatchdogScope /\ LockOwner /\ GuardScope)'
  OBVIOUS
<1> USE DEF IInv, TypeOK, WatchdogScope, WorkerTokenAlive, LockOwner, GuardScope,
            WorkerStates, Active, Tokens, Go, mainVars, workerVars, inputs, signalVars
<1>1. CASE CreateGuard
  BY <1>1 DEF CreateGuard
<1>2. CASE ConstructSession
  BY <1>2 DEF ConstructSession, CallerToken
<1>3. CASE StartWatchdog
  BY <1>3 DEF StartWatchdog
<1>4. CASE LoadBinary
  BY <1>4 DEF LoadBinary
<1>5. CASE BuildCfg
  BY <1>5 DEF BuildCfg
<1>6. CASE BuildInventory
  BY <1>6 DEF BuildInventory
<1>7. CASE SetFinished
  BY <1>7 DEF SetFinished
<1>8. CASE Notify
  BY <1>8 DEF Notify
<1>9. CASE Join
  BY <1>9 DEF Join, Joined
<1>10. CASE UseSession
  BY <1>10 DEF UseSession
<1>11. CASE ReleasePart
  BY <1>11 DEF ReleasePart
<1>12. CASE FinishRelease
  BY <1>12 DEF FinishRelease
<1>13. CASE DestroyGlobal
  BY <1>13 DEF DestroyGlobal
<1>14. CASE NullGlobal
  BY <1>14 DEF NullGlobal
<1>15. CASE RestoreHandler
  BY <1>15 DEF RestoreHandler
<1>16. CASE WorkerBegin
  BY <1>16 DEF WorkerBegin
<1>17. CASE WorkerWake
  BY <1>17 DEF WorkerWake
<1>18. CASE WorkerTimeout
  BY <1>18 DEF WorkerTimeout
<1>19. CASE WorkerRecheck
  BY <1>19 DEF WorkerRecheck
<1>20. CASE WorkerRequest
  BY <1>20 DEF WorkerRequest
<1>21. CASE Signal
  BY <1>21 DEF Signal, SignalTest, SignalRequest
<1>22. CASE AnswerDirectly
  BY <1>22 DEF AnswerDirectly
<1>23. CASE UNCHANGED vars
  BY <1>23 DEF vars
<1> QED
  BY <1>1, <1>2, <1>3, <1>4, <1>5, <1>6, <1>7, <1>8, <1>9, <1>10, <1>11, <1>12,
     <1>13, <1>14, <1>15, <1>16, <1>17, <1>18, <1>19, <1>20, <1>21, <1>22, <1>23
  DEF Next, Main, Worker, Opening, Stopping, Releasing, GuardExit, Terminated

\* Together: a step keeps the invariant.
LEMMA StepIInv == IInv /\ [Next]_vars => IInv'
  BY StepTypeOK, StepScopes DEF IInv

\* Every reachable state satisfies it.
LEMMA Invariance == Spec => []IInv
  BY InitIInv, StepIInv, PTL DEF Spec

-----------------------------------------------------------------------------
\* The types hold of every reachable state.
THEOREM TypeCorrect == Spec => []TypeOK
  BY Invariance, PTL DEF IInv

\* The watchdog never outlives the token it requests: it is joined before the
\* session that may own the token is destroyed.
THEOREM WatchdogTokenAlive == Spec => []WorkerTokenAlive
  BY Invariance, PTL DEF IInv, WatchdogScope

\* After ~DeadlineWatchdog has set finished_, only the handler of a SIGINT
\* requests cancellation.
THEOREM NeverLate == Spec => NoLateCancel
<1>1. IInv /\ [Next]_vars => [finished => requested' = requested \/ inFlight' < inFlight]_vars
  <2> SUFFICES ASSUME IInv, Next, finished
               PROVE  requested' = requested \/ inFlight' < inFlight
    BY DEF vars
  <2>1. CASE Main
    BY <2>1 DEF Main, Opening, Stopping, Releasing, GuardExit, CreateGuard,
       AnswerDirectly, ConstructSession, StartWatchdog, LoadBinary, BuildCfg, BuildInventory,
       SetFinished, Notify, Join, UseSession, ReleasePart, FinishRelease,
       DestroyGlobal, NullGlobal, RestoreHandler, signalVars
  <2>2. CASE Worker
    BY <2>2 DEF Worker, WorkerBegin, WorkerWake, WorkerTimeout, WorkerRecheck,
       WorkerRequest, IInv, LockOwner
  <2>3. CASE Signal
    <3>1. inFlight \in Nat
      BY MaxSignalsAssumption DEF IInv, TypeOK, MaxSignalsAssumption
    <3>2. CASE SignalTest
      BY <3>2 DEF SignalTest
    <3>3. CASE SignalRequest
      BY <3>1, <3>3 DEF SignalRequest
    <3> QED
      BY <2>3, <3>2, <3>3 DEF Signal
  <2>4. CASE Terminated
    BY <2>4 DEF Terminated, vars
  <2> QED
    BY <2>1, <2>2, <2>3, <2>4 DEF Next
<1> QED
  BY <1>1, Invariance, PTL DEF Spec, NoLateCancel

\* A destroyed token is requested only by a handler that tested the pointer before
\* ~CancelTokenGuard cleared it, and none gets past its test after that.
THEOREM OneWindow == Spec => DestroyedTokenWindow
<1> DEFINE Window ==
      /\ misuse' # misuse =>
           pc \in {"nulling", "restoring", "done"} /\ inFlight' < inFlight
      /\ pc \in {"restoring", "done"} => inFlight' <= inFlight
<1>1. IInv /\ [Next]_vars => [Window]_vars
  <2> SUFFICES ASSUME IInv, Next PROVE Window
    BY DEF vars
  <2>a. inFlight \in Nat /\ pc \in PCs
    BY MaxSignalsAssumption DEF IInv, TypeOK, MaxSignalsAssumption
  <2>1. CASE Main
    <3>1. UNCHANGED <<inFlight, misuse>>
      BY <2>1 DEF Main, Opening, Stopping, Releasing, GuardExit, CreateGuard,
         AnswerDirectly, ConstructSession, StartWatchdog, LoadBinary, BuildCfg,
         BuildInventory, SetFinished, Notify, Join, UseSession, ReleasePart,
         FinishRelease, DestroyGlobal, NullGlobal, RestoreHandler, signalVars
    <3> QED
      BY <3>1, <2>a
  <2>2. CASE Worker
    <3>1. UNCHANGED <<inFlight, misuse>>
      BY <2>2 DEF Worker, WorkerBegin, WorkerWake, WorkerTimeout, WorkerRecheck,
         WorkerRequest, IInv, WatchdogScope, WorkerTokenAlive, Active, signalVars
    <3> QED
      BY <3>1, <2>a
  <2>3. CASE SignalTest
    BY <2>3, <2>a DEF SignalTest, IInv, GuardScope
  <2>4. CASE SignalRequest
    BY <2>4, <2>a DEF SignalRequest, IInv, GuardScope
  <2>5. CASE Terminated
    BY <2>5, <2>a DEF Terminated, vars
  <2> QED
    BY <2>1, <2>2, <2>3, <2>4, <2>5 DEF Next, Signal
<1> QED
  BY <1>1, Invariance, PTL DEF Spec, DestroyedTokenWindow

-----------------------------------------------------------------------------
(* What a session holds.  Parts are built so that what they need is there,  *)
(* and the destructor releases first what nothing that is left needs.      *)

\* NextRelease is held, nothing held needs it, and it is "none" only when all
\* parts of the destructor's body are released.
LEMMA NextReleaseFirst ==
  ASSUME live \subseteq Parts
  PROVE  /\ NextRelease = "none" => live \subseteq {"decode"}
         /\ NextRelease # "none" =>
              /\ NextRelease \in live \ {"decode"}
              /\ \A part \in live \ {"decode"} : NextRelease \notin Needs[part]
              /\ NextRelease = "binary" => live \subseteq {"binary", "decode"}
<1> DEFINE held == {i \in 1 .. 6 : ReleaseOrder[i] \in live}
<1>1. CASE held = {}
  <2>1. /\ "symbolic" \notin live /\ "compact" \notin live /\ "variable" \notin live
        /\ "expression" \notin live /\ "cfg" \notin live /\ "binary" \notin live
    BY <1>1 DEF ReleaseOrder
  <2>2. NextRelease = "none"
    BY <1>1 DEF NextRelease
  <2> QED
    BY <2>1, <2>2 DEF Parts
<1>2. CASE held # {}
  <2>1. PICK i \in held : \A j \in held : i <= j
    BY <1>2
  <2>2. (CHOOSE k \in held : \A j \in held : k <= j) = i
    BY <2>1
  <2>3. NextRelease = ReleaseOrder[i]
    BY <1>2, <2>2 DEF NextRelease
  <2>4. \A j \in 1 .. 6 : j < i => ReleaseOrder[j] \notin live
    BY <2>1
  <2>5. i \in 1 .. 6 /\ ReleaseOrder[i] \in live
    BY <2>1
  <2>6. ReleaseOrder[i] # "none"
    BY <2>5 DEF ReleaseOrder
  <2>7. \A part \in live \ {"decode"} : ReleaseOrder[i] \notin Needs[part]
    BY <2>4, <2>5 DEF ReleaseOrder, Needs, Parts
  <2>8. ReleaseOrder[i] # "decode"
    BY <2>5 DEF ReleaseOrder
  <2>9. ReleaseOrder[i] = "binary" => live \subseteq {"binary", "decode"}
    <3> SUFFICES ASSUME ReleaseOrder[i] = "binary"
                 PROVE  live \subseteq {"binary", "decode"}
      OBVIOUS
    <3>1. i = 6
      BY <2>5 DEF ReleaseOrder
    <3>2. /\ ReleaseOrder[1] \notin live /\ ReleaseOrder[2] \notin live
          /\ ReleaseOrder[3] \notin live /\ ReleaseOrder[4] \notin live
          /\ ReleaseOrder[5] \notin live
      BY <3>1, <2>4
    <3> QED
      BY <3>2 DEF ReleaseOrder, Parts
  <2> QED
    BY <2>3, <2>5, <2>6, <2>7, <2>8, <2>9
<1> QED
  BY <1>1, <1>2

\* Each phase of open() finds what the part it builds needs.
BuiltInOrder ==
  /\ pc = "cfg" => "binary" \in live
  /\ pc = "inventory" => {"binary", "cfg"} \subseteq live
  /\ pc \in {"drop", "close"} \/ ("decode" \in live => "binary" \in live)
  /\ DependenciesHeld

\* Before the session's constructor and from the guard's destructor on nothing
\* is held, and a live global token is always reachable by its pointer.
Released ==
  /\ pc \in {"start", "construct", "guard", "nulling", "restoring", "done"} =>
       live = {} /\ life["owned"] # "live"
  /\ ~ globalPtr \/ pc = "nulling" => life["global"] # "live"

\* The session's parts at the start.
LEMMA InitOwnership == Init => BuiltInOrder /\ Released
  BY DEF Init, BuiltInOrder, Released, DependenciesHeld, Tokens

\* Every step keeps each part's needs and leaves nothing behind.
LEMMA StepOwnership ==
  IInv /\ BuiltInOrder /\ Released /\ [Next]_vars => BuiltInOrder' /\ Released'
<1> SUFFICES ASSUME IInv, BuiltInOrder, Released, [Next]_vars
             PROVE  BuiltInOrder' /\ Released'
  OBVIOUS
<1>a. /\ live \subseteq Parts /\ pc \in PCs
      /\ globalPtr \in BOOLEAN /\ life \in [Tokens -> {"none", "live", "destroyed"}]
  BY DEF IInv, TypeOK
<1>b. \A part \in Parts : Needs[part] \subseteq {"binary", "cfg"}
  BY DEF Needs
<1>c. /\ Needs["binary"] = {} /\ Needs["decode"] = {"binary"}
      /\ Needs["symbolic"] = {} /\ Needs["cfg"] = {"binary"}
  BY DEF Needs, Parts
<1> USE <1>a DEF BuiltInOrder, Released, DependenciesHeld, PCs, Tokens, Go,
                 mainVars, workerVars, inputs, signalVars
<1>1. CASE CreateGuard
  BY <1>1 DEF CreateGuard
<1>2. CASE ConstructSession
  BY <1>2 DEF ConstructSession, CallerToken
<1>3. CASE StartWatchdog
  BY <1>3 DEF StartWatchdog
<1>4. CASE LoadBinary
  BY <1>4, <1>b, <1>c DEF LoadBinary, Parts
<1>5. CASE BuildCfg
  BY <1>5, <1>b, <1>c DEF BuildCfg, Parts
<1>6. CASE BuildInventory
  BY <1>6, <1>b DEF BuildInventory, Parts
<1>7. CASE SetFinished
  BY <1>7 DEF SetFinished
<1>8. CASE Notify
  BY <1>8 DEF Notify
<1>9. CASE Join
  BY <1>9 DEF Join, Joined
<1>10. CASE UseSession
  <2>1. live' \in {live, live \cup {"symbolic"}}
    BY <1>10, Zenon DEF UseSession, ShowSession, ShowView, Query, Refuse
  <2>2. pc = "use" /\ pc' = "close" /\ UNCHANGED <<life, globalPtr>>
    BY <1>10, Zenon DEF UseSession
  <2> QED
    BY <2>1, <2>2, <1>b, <1>c DEF Parts
<1>11. CASE ReleasePart
  <2>1. /\ pc \in {"drop", "close"} /\ UNCHANGED <<pc, life, globalPtr>>
        /\ NextRelease # "none" /\ live' = live \ {NextRelease}
    BY <1>11, Zenon DEF ReleasePart
  <2>2. /\ NextRelease \in live \ {"decode"}
        /\ \A part \in live \ {"decode"} : NextRelease \notin Needs[part]
        /\ NextRelease = "binary" => live \subseteq {"binary", "decode"}
    BY <2>1, NextReleaseFirst
  <2>3. \A part \in live' \ {"decode"} : Needs[part] \subseteq live'
    BY <2>1, <2>2
  <2>4. CASE NextRelease = "binary"
    <3>1. live' \subseteq {"decode"}
      BY <2>1, <2>2, <2>4
    <3> QED
      BY <2>1, <2>3, <3>1
  <2>5. CASE NextRelease # "binary"
    <3>1. "decode" \in live' => Needs["decode"] \subseteq live'
      BY <2>1, <2>2, <2>5, <1>c
    <3> QED
      BY <2>1, <2>3, <3>1
  <2> QED
    BY <2>4, <2>5
<1>12. CASE FinishRelease
  BY <1>12, NextReleaseFirst DEF FinishRelease
<1>13. CASE DestroyGlobal
  BY <1>13 DEF DestroyGlobal
<1>14. CASE NullGlobal
  BY <1>14 DEF NullGlobal
<1>15. CASE RestoreHandler
  BY <1>15 DEF RestoreHandler
<1>16. CASE WorkerBegin
  BY <1>16 DEF WorkerBegin
<1>17. CASE WorkerWake
  BY <1>17 DEF WorkerWake
<1>18. CASE WorkerTimeout
  BY <1>18 DEF WorkerTimeout
<1>19. CASE WorkerRecheck
  BY <1>19 DEF WorkerRecheck
<1>20. CASE WorkerRequest
  BY <1>20 DEF WorkerRequest
<1>21. CASE Signal
  BY <1>21 DEF Signal, SignalTest, SignalRequest
<1>22. CASE AnswerDirectly
  BY <1>22 DEF AnswerDirectly
<1>23. CASE UNCHANGED vars
  BY <1>23 DEF vars
<1> QED
  BY <1>1, <1>2, <1>3, <1>4, <1>5, <1>6, <1>7, <1>8, <1>9, <1>10, <1>11, <1>12,
     <1>13, <1>14, <1>15, <1>16, <1>17, <1>18, <1>19, <1>20, <1>21, <1>22, <1>23
  DEF Next, Main, Worker, Opening, Stopping, Releasing, GuardExit, Terminated

\* In every reachable state a part's needs are held with it, but for the decode cache
\* at the end of the destructor: no view is left without the CFG and no CFG without
\* the binary, in any order of construction, failure and destruction.
THEOREM NeedsHeld == Spec => []DependenciesHeld
<1>1. Spec => [](BuiltInOrder /\ Released)
  BY Invariance, InitOwnership, StepOwnership, PTL DEF Spec
<1> QED
  BY <1>1, PTL DEF BuiltInOrder

\* A command that has ended holds no part and no token, however it failed.
THEOREM LeavesNothing == Spec => []NothingLeaked
<1>1. Spec => [](BuiltInOrder /\ Released)
  BY Invariance, InitOwnership, StepOwnership, PTL DEF Spec
<1>2. IInv /\ Released => NothingLeaked
  BY DEF IInv, GuardScope, Released, NothingLeaked, Tokens
<1> QED
  BY <1>1, <1>2, Invariance, PTL

-----------------------------------------------------------------------------
(* Why an answer is not complete.                                          *)

\* A deadline that can cancel a query of a complete session.
Spent == firedAt \in {"inventory", "stop"} /\ sessionToken = "global"

\* The watchdog fires before it is told to stop, and then the session's token is
\* requested; nothing is complete before the CFG is, and then only if the watchdog
\* has not fired; the guard's token is requested by a signal or by the watchdog of
\* a session that was given it.
Causes ==
  /\ pc \in {"start", "construct", "watch"} => firedAt = "never"
  /\ pc \in {"start", "construct", "watch", "load", "cfg"} => exit = "none" /\ ~ complete
  /\ pc \in {"notify", "join"} => finished
  /\ firedAt \in {"never", "load", "cfg", "inventory", "stop"}
  /\ firedAt # "never" => sessionToken \in requested
  /\ "global" \in requested =>
       signals > 0 \/ (firedAt # "never" /\ sessionToken = "global")
  /\ firedAt \in {"load", "cfg"} => ~ complete
  /\ exit = "partial" /\ complete /\ answer # "short" => signals > 0 \/ Spent

\* Nothing has happened at the start.
LEMMA InitCauses == Init => Causes
  BY DEF Init, Causes

\* Every step keeps the reasons of what it makes incomplete.
LEMMA StepCauses == IInv /\ Causes /\ [Next]_vars => Causes'
<1> SUFFICES ASSUME IInv, Causes, [Next]_vars PROVE Causes'
  OBVIOUS
<1>a. pc \in PCs /\ requested \subseteq Tokens /\ signals \in Nat
  BY MaxSignalsAssumption DEF IInv, TypeOK, MaxSignalsAssumption
<1>b. WatchdogScope /\ LockOwner
  BY DEF IInv
<1>c. inFlight \in Nat /\ inFlight <= signals
  BY MaxSignalsAssumption DEF IInv, TypeOK, MaxSignalsAssumption, GuardScope
<1> USE <1>a DEF Causes, Spent, PCs, Tokens, Go, mainVars, workerVars, inputs, signalVars
<1>1. CASE CreateGuard
  BY <1>1 DEF CreateGuard
<1>2. CASE ConstructSession
  <2>1. /\ pc = "construct" /\ pc' = "watch"
        /\ UNCHANGED <<workerVars, finished, requested, complete, exit, answer, signalVars>>
    BY <1>2, Zenon DEF ConstructSession
  <2>2. firedAt = "never" /\ exit = "none" /\ ~ complete
    BY <2>1
  <2>3. "global" \in requested' => signals' > 0
    BY <2>1, <2>2
  <2>4. pc' = "watch" /\ firedAt' = "never" /\ exit' = "none" /\ ~ complete'
    BY <2>1, <2>2, Zenon
  <2>5. exit' # "partial" /\ firedAt' \in {"never", "load", "cfg", "inventory", "stop"}
    BY <2>4
  <2>6. pc' \notin {"notify", "join"} /\ firedAt' \notin {"load", "cfg"}
    BY <2>4
  <2> QED
    BY <2>3, <2>4, <2>5, <2>6, Zenon
<1>3. CASE StartWatchdog
  BY <1>3 DEF StartWatchdog
<1>4. CASE LoadBinary
  BY <1>4 DEF LoadBinary
<1>5. CASE BuildCfg
  <2>1. complete' => BuildToken \notin requested
    BY <1>5, Zenon DEF BuildCfg
  <2>2. /\ pc = "cfg" /\ pc' \in {"inventory", "stop"}
        /\ UNCHANGED <<workerVars, finished, requested, sessionToken, exit, signals>>
    BY <1>5, Zenon DEF BuildCfg
  <2> QED
    BY <2>1, <2>2 DEF BuildToken
<1>6. CASE BuildInventory
  BY <1>6 DEF BuildInventory
<1>7. CASE SetFinished
  BY <1>7 DEF SetFinished
<1>8. CASE Notify
  BY <1>8 DEF Notify
<1>9. CASE Join
  BY <1>9 DEF Join, Joined
<1>10. CASE UseSession
  <2>1. exit' = "partial" /\ complete /\ answer' # "short" => CallerToken \in requested
    BY <1>10 DEF UseSession, ShowSession, ShowView, Query, Refuse, QueryToken
  <2>2. complete /\ CallerToken \in requested => signals > 0 \/ Spent
    BY <2>1 DEF CallerToken
  <2>3. /\ pc = "use" /\ pc' = "close"
        /\ UNCHANGED <<workerVars, finished, requested, sessionToken, complete,
                       signalVars>>
    BY <1>10 DEF UseSession
  <2> QED
    BY <2>1, <2>2, <2>3
<1>11. CASE ReleasePart
  BY <1>11 DEF ReleasePart
<1>12. CASE FinishRelease
  BY <1>12 DEF FinishRelease
<1>13. CASE DestroyGlobal
  BY <1>13 DEF DestroyGlobal
<1>14. CASE NullGlobal
  BY <1>14 DEF NullGlobal
<1>15. CASE RestoreHandler
  BY <1>15 DEF RestoreHandler
<1>16. CASE WorkerBegin
  BY <1>16 DEF WorkerBegin
<1>17. CASE WorkerWake
  BY <1>17 DEF WorkerWake
<1>18. CASE WorkerTimeout
  BY <1>18 DEF WorkerTimeout
<1>19. CASE WorkerRecheck
  BY <1>19 DEF WorkerRecheck
<1>20. CASE WorkerRequest
  <2>1. pc \in {"load", "cfg", "inventory", "stop"} /\ sessionToken # "null"
    BY <1>20, <1>b DEF WorkerRequest, WatchdogScope, LockOwner, Active
  <2> QED
    BY <1>20, <2>1 DEF WorkerRequest
<1>21. CASE Signal
  <2>1. UNCHANGED <<mainVars, workerVars, finished>>
    BY <1>21, Zenon DEF Signal, SignalTest, SignalRequest
  <2>2. signals' \in Nat /\ signals' >= signals
    BY <1>21 DEF Signal, SignalTest, SignalRequest
  <2>3. "global" \in requested' => "global" \in requested \/ signals' > 0
    BY <1>21, <1>c, <2>2 DEF Signal, SignalTest, SignalRequest
  <2>4. requested \subseteq requested'
    BY <1>21, Zenon DEF Signal, SignalTest, SignalRequest
  <2>5. signals > 0 => signals' > 0
    BY <2>2
  <2>6. (signals > 0 \/ Spent) => (signals' > 0 \/ Spent')
    BY <2>1, <2>5
  <2>7. "global" \in requested' =>
          signals' > 0 \/ (firedAt' # "never" /\ sessionToken' = "global")
    <3>1. "global" \in requested =>
            signals > 0 \/ (firedAt # "never" /\ sessionToken = "global")
      BY Zenon
    <3>2. firedAt' = firedAt /\ sessionToken' = sessionToken
      BY <2>1, Zenon
    <3> QED
      BY <2>3, <2>5, <3>1, <3>2
  <2>8. firedAt' # "never" => sessionToken' \in requested'
    BY <2>1, <2>4
  <2>9. exit' = "partial" /\ complete' /\ answer' # "short" => signals' > 0 \/ Spent'
    <3>1. exit' = exit /\ complete' = complete /\ answer' = answer
      BY <2>1, Zenon
    <3>2. exit = "partial" /\ complete /\ answer # "short" => signals > 0 \/ Spent
      BY Zenon
    <3> HIDE DEF Spent
    <3> QED
      BY <3>1, <3>2, <2>6, Zenon
  <2> HIDE DEF Spent
  <2> QED
    BY <2>1, <2>7, <2>8, <2>9
<1>22. CASE AnswerDirectly
  BY <1>22 DEF AnswerDirectly
<1>23. CASE UNCHANGED vars
  BY <1>23 DEF vars
<1> QED
  BY <1>1, <1>2, <1>3, <1>4, <1>5, <1>6, <1>7, <1>8, <1>9, <1>10, <1>11, <1>12,
     <1>13, <1>14, <1>15, <1>16, <1>17, <1>18, <1>19, <1>20, <1>21, <1>22, <1>23
  DEF Next, Main, Worker, Opening, Stopping, Releasing, GuardExit, Terminated

\* A session that is called complete was not reached by the deadline before its CFG
\* was, and a complete session's answer that did not fall short by itself is partial
\* only after a signal, or a deadline that passed between its CFG and the end of the
\* watchdog and cancelled the guard's token.
THEOREM PartialHasACause == Spec => []CompletenessExplained
<1>1. Spec => []Causes
  BY Invariance, InitCauses, StepCauses, PTL DEF Spec
<1>2. Causes => CompletenessExplained
  BY DEF Causes, Spent, CompletenessExplained
<1> QED
  BY <1>1, <1>2, PTL
=============================================================================
