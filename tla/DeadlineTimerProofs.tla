------------------------- MODULE DeadlineTimerProofs -------------------------
(***************************************************************************)
(* Proofs about DeadlineTimer: its safety, for every set of limits, every  *)
(* length of a second, any number of uses and every delay of Start.        *)
(***************************************************************************)
EXTENDS DeadlineTimer, TLAPS

(* A limit goes through struct timeval unchanged. *)
LEMMA DurationOfTimeval ==
    ASSUME NEW ms \in Nat
    PROVE  Duration(Timeval(ms)) = ms
<1>1. Second \in Nat \ {0}
  BY SecondAssumption
<1>2. ms = (ms \div Second) * Second + (ms % Second)
  BY <1>1
<1> QED
  BY <1>2 DEF Duration, Timeval

(* A timer that is armed expires when the limit is over, not before. *)
LEMMA ArmedForTheLimit ==
    TimerTypeOK /\ timeout > 0 /\ ArmTimer => expiry' = clock + timeout /\ expiry' >= timeout
<1> SUFFICES ASSUME TimerTypeOK, timeout > 0, ArmTimer
             PROVE  expiry' = clock + timeout /\ expiry' >= timeout
  OBVIOUS
<1>1. timeout \in Nat \ {0} /\ clock \in Nat
  BY TimerAssumption DEF TimerTypeOK
<1>2. Duration(Timeval(timeout)) = timeout
  BY <1>1, DurationOfTimeval
<1>3. expiry' = clock + timeout
  BY <1>1, <1>2 DEF ArmTimer
<1> QED
  BY <1>1, <1>3

(* The invariant holds before the first use.                               *)
LEMMA InitTimerInv == Init => TimerInv
<1> SUFFICES ASSUME Init PROVE TimerInv
  OBVIOUS
<1>1. TimerTypeOK
  <2>1. clock \in 0 .. MaxClock /\ uses \in 0 .. MaxUses /\ expiry \in Nat
    BY TimerAssumption DEF Init, Off
  <2> QED
    BY <2>1 DEF Init, TimerTypeOK, Actions
<1>2. HandlerInv
  BY DEF Init, HandlerInv
<1>3. SignalInv
  BY DEF Init, SignalInv
<1> QED
  BY <1>1, <1>2, <1>3 DEF TimerInv

(* Every variable keeps its type: the counters stay within their bounds. *)
LEMMA TimerTypeKept == TimerInv /\ [Next]_vars => TimerTypeOK'
<1> SUFFICES ASSUME TimerTypeOK, HandlerInv, [Next]_vars PROVE TimerTypeOK'
  BY DEF TimerInv
<1> USE DEF TimerTypeOK, Starting, Stopping, Actions, timerVars, kernelVars
<1>1. CASE Use
  BY <1>1, TimerAssumption DEF Use, At
<1>2. CASE ClearFlag
  BY <1>2 DEF ClearFlag
<1>3. CASE InstallHandler \/ InstallFails
  BY <1>3 DEF InstallHandler, InstallFails
<1>4. CASE ArmTimer
  <2>1. timeout > 0
    BY <1>4 DEF HandlerInv, ArmTimer, At
  <2>2. expiry' \in Nat
    BY <1>4, <2>1, ArmedForTheLimit, TimerAssumption
  <2> QED
    BY <1>4, <2>2 DEF ArmTimer
<1>5. CASE ArmFails
  <2>1. handler' = "previous"
    BY <1>5 DEF ArmFails, At, HandlerInv
  <2>2. pc' = "idle" /\ previousAction' = previousAction
    BY <1>5 DEF ArmFails
  <2>3. UNCHANGED <<timeout, uses, flag, active, clock, expiry, pending, killed>>
    BY <1>5 DEF ArmFails
  <2> QED
    BY <2>1, <2>2, <2>3
<1>6. CASE LoopEnds \/ DisarmTimer \/ ResetFlag
  <2>1. CASE LoopEnds
    BY <2>1 DEF LoopEnds
  <2>2. CASE DisarmTimer
    BY <2>2 DEF DisarmTimer, Off
  <2>3. CASE ResetFlag
    BY <2>3 DEF ResetFlag
  <2> QED
    BY <1>6, <2>1, <2>2, <2>3
<1>7. CASE RestoreHandler
  <2>1. handler' = "previous"
    BY <1>7 DEF RestoreHandler, At, HandlerInv, Handled
  <2>2. pc' = "reset" /\ previousAction' = previousAction
    BY <1>7 DEF RestoreHandler
  <2>3. UNCHANGED <<timeout, uses, flag, active, clock, expiry, pending, killed>>
    BY <1>7 DEF RestoreHandler
  <2> QED
    BY <2>1, <2>2, <2>3
<1>8. CASE Expire \/ DeliverSignal
  <2>1. CASE Expire
    BY <2>1 DEF Expire, Off
  <2>2. CASE DeliverSignal
    <3>1. flag' \in {0, 1} /\ killed' \in BOOLEAN /\ pending' = FALSE
      BY <2>2 DEF DeliverSignal
    <3>2. UNCHANGED <<pc, timeout, uses, active, handler, previousAction, clock, expiry>>
      BY <2>2 DEF DeliverSignal
    <3> QED
      BY <3>1, <3>2
  <2> QED
    BY <1>8, <2>1, <2>2
<1>9. CASE Tick
  <2>1. clock < MaxClock /\ clock' = clock + 1
    BY <1>9, TimerAssumption DEF Tick
  <2>2. clock' \in 0 .. MaxClock
    BY <2>1, TimerAssumption
  <2> QED
    BY <1>9, <2>2 DEF Tick
<1>10. CASE UNCHANGED vars
  BY <1>10 DEF vars
<1> QED
  BY <1>1, <1>2, <1>3, <1>4, <1>5, <1>6, <1>7, <1>8, <1>9, <1>10 DEF Next, StartStep, StopStep

(* The handler of the library is in place wherever the timer may run, and  *)
(* the previous action elsewhere.                                          *)
LEMMA HandlerKept == TimerInv /\ [Next]_vars => HandlerInv'
<1> SUFFICES ASSUME TimerTypeOK, HandlerInv, [Next]_vars PROVE HandlerInv'
  BY DEF TimerInv
<1> USE DEF HandlerInv, Handled, At, timerVars, kernelVars
<1>1. CASE Use
  BY <1>1 DEF Use
<1>2. CASE ClearFlag
  <2>1. timeout \in Int
    BY TimerAssumption DEF TimerTypeOK
  <2> QED
    BY <1>2, <2>1 DEF ClearFlag
<1>3. CASE InstallHandler \/ InstallFails
  BY <1>3 DEF InstallHandler, InstallFails
<1>4. CASE ArmTimer
  BY <1>4 DEF ArmTimer
<1>5. CASE ArmFails
  BY <1>5 DEF ArmFails
<1>6. CASE LoopEnds
  BY <1>6 DEF LoopEnds
<1>7. CASE DisarmTimer \/ RestoreHandler \/ ResetFlag
  BY <1>7 DEF DisarmTimer, RestoreHandler, ResetFlag
<1>8. CASE Expire \/ DeliverSignal \/ Tick \/ UNCHANGED vars
  <2>1. UNCHANGED <<pc, timeout, active, handler, previousAction>>
    BY <1>8 DEF Expire, DeliverSignal, Tick, vars
  <2> QED
    BY <2>1
<1> QED
  BY <1>1, <1>2, <1>3, <1>4, <1>5, <1>6, <1>7, <1>8 DEF Next, StartStep, StopStep

(* A timer that runs, a signal on its way and a flag that is set belong to *)
(* the use under way and to its limit.                                     *)
LEMMA SignalKept == TimerInv /\ [Next]_vars => SignalInv'
<1> SUFFICES ASSUME TimerTypeOK, HandlerInv, SignalInv, [Next]_vars PROVE SignalInv'
  BY DEF TimerInv
<1>0. /\ timeout \in Int /\ clock \in Nat /\ expiry \in Nat
      /\ flag \in {0, 1} /\ pending \in BOOLEAN /\ killed \in BOOLEAN
  BY TimerAssumption DEF TimerTypeOK
<1> USE DEF SignalInv, Handled, Stopping
<1>1. CASE Use \/ ClearFlag \/ InstallHandler \/ InstallFails \/ ArmFails
  <2>1. /\ pc \in {"idle", "clear", "install", "arm"} /\ expiry = Off /\ ~pending /\ flag = 0
    BY <1>0, <1>1 DEF Use, ClearFlag, InstallHandler, InstallFails, ArmFails, At
  <2>2. expiry' = Off /\ ~pending' /\ flag' = 0 /\ ~killed'
    BY <1>1, <2>1 DEF Use, ClearFlag, InstallHandler, InstallFails, ArmFails, timerVars, kernelVars
  <2> QED
    BY <2>2
<1>2. CASE ArmTimer
  <2>1. timeout > 0 /\ handler = "ours" /\ previousAction = "previous" /\ flag = 0 /\ ~pending
    BY <1>0, <1>2 DEF ArmTimer, At, HandlerInv
  <2>2. expiry' >= timeout
    BY <1>2, <2>1, ArmedForTheLimit
  <2>3. pc' = "on" /\ active' /\ UNCHANGED <<timeout, flag, handler, previousAction, pending, killed>>
    BY <1>2 DEF ArmTimer
  <2> QED
    BY <2>1, <2>2, <2>3
<1>3. CASE LoopEnds
  <2>1. /\ pc = "on" /\ ~pending /\ pc' = (IF active THEN "disarm" ELSE "idle")
        /\ UNCHANGED <<timeout, clock, flag, active, handler, previousAction, expiry, pending, killed>>
    BY <1>3 DEF LoopEnds, At, timerVars, kernelVars
  <2> QED
    BY <2>1
<1>4. CASE DisarmTimer
  BY <1>4 DEF DisarmTimer, At, timerVars
<1>5. CASE RestoreHandler
  BY <1>5 DEF RestoreHandler, At, kernelVars
<1>6. CASE ResetFlag
  BY <1>6 DEF ResetFlag, At, kernelVars
<1>7. CASE Expire
  <2>1. expiry \in Int /\ expiry <= clock /\ expiry >= timeout
    BY <1>0, <1>7 DEF Expire
  <2>2. clock >= timeout
    BY <1>0, <2>1
  <2> QED
    BY <1>7, <2>2 DEF Expire, timerVars
<1>8. CASE DeliverSignal
  BY <1>8 DEF DeliverSignal
<1>9. CASE Tick
  <2>1. clock' = clock + 1 /\ UNCHANGED <<pc, timeout, timerVars, expiry, pending, killed>>
    BY <1>9 DEF Tick
  <2>2. clock >= timeout => clock' >= timeout
    BY <1>0, <2>1
  <2> QED
    BY <2>1, <2>2 DEF timerVars
<1>10. CASE UNCHANGED vars
  BY <1>10 DEF vars, timerVars, kernelVars
<1> QED
  BY <1>1, <1>2, <1>3, <1>4, <1>5, <1>6, <1>7, <1>8, <1>9, <1>10 DEF Next, StartStep, StopStep

(* The invariant of the timer, for every constant. *)
THEOREM TimerInvHolds == Spec => []TimerInv
<1>1. TimerInv /\ [Next]_vars => TimerInv'
  BY TimerTypeKept, HandlerKept, SignalKept DEF TimerInv
<1> QED
  BY InitTimerInv, <1>1, PTL DEF Spec

(* The variables of the timer keep their types. *)
THEOREM TimerTypeCorrect == Spec => []TimerTypeOK
<1>1. TimerInv => TimerTypeOK
  BY DEF TimerInv
<1> QED
  BY <1>1, TimerInvHolds, PTL

(* SIGALRM never meets the action that kills the process. *)
THEOREM ProcessSurvives == Spec => []NeverKilled
<1>1. TimerInv => NeverKilled
  BY DEF TimerInv, SignalInv, NeverKilled
<1> QED
  BY <1>1, TimerInvHolds, PTL

(* After DeadlineTimerStop, or a DeadlineTimerStart that failed, the       *)
(* process is as it was before.                                            *)
THEOREM NoTraceIsLeft == Spec => []UseLeavesNoTrace
<1>1. TimerInv => UseLeavesNoTrace
  <2> SUFFICES ASSUME TimerInv, pc = "idle"
               PROVE  handler = "previous" /\ expiry = Off /\ ~pending /\ flag = 0
    BY DEF UseLeavesNoTrace
  <2>1. handler = "previous"
    BY DEF TimerInv, HandlerInv
  <2>2. expiry = Off /\ ~pending /\ flag # 1
    BY DEF TimerInv, SignalInv, Stopping
  <2>3. flag \in {0, 1}
    BY DEF TimerInv, TimerTypeOK
  <2> QED
    BY <2>1, <2>2, <2>3
<1> QED
  BY <1>1, TimerInvHolds, PTL

(* No use sees a deadline that is not its own. *)
THEOREM DeadlinesAreDue == Spec => []DeadlineIsDue
<1>1. TimerInv => DeadlineIsDue
  <2> SUFFICES ASSUME TimerInv, DeadlineExceeded
               PROVE  timeout > 0 /\ clock >= timeout
    BY DEF DeadlineIsDue
  <2>1. timeout \in Int /\ clock \in Int
    BY TimerAssumption DEF TimerInv, TimerTypeOK
  <2> QED
    BY <2>1 DEF TimerInv, SignalInv, DeadlineExceeded
<1> QED
  BY <1>1, TimerInvHolds, PTL
=============================================================================
