--------------------------- MODULE DeadlineTimer ---------------------------
(***************************************************************************)
(* src/deadline_timer.c: DeadlineTimerStart and DeadlineTimerStop around   *)
(* the loops of MasterRun and WorkerRun, call by call, and the kernel's    *)
(* timer with its signal.  A process uses the timer again and again.       *)
(*                                                                         *)
(* The main thread does not block SIGALRM (BlockDeadlineSignalForMethod is *)
(* for the threads that compute), so a signal that is pending is delivered *)
(* before the main thread goes on.                                         *)
(***************************************************************************)
EXTENDS ClusterTime

CONSTANTS Timeouts,   \* the limits callers ask for, in milliseconds
          MaxUses,    \* bound on the uses of one process
          MaxDelay,   \* bound on the time DeadlineTimerStart takes
          MaxClock,   \* bound on the time of one use
          Faults      \* failing system calls: "sigaction", "setitimer"

ASSUME TimerAssumption ==
    /\ Timeouts \subseteq Int
    /\ MaxUses \in Nat /\ MaxClock \in Nat /\ MaxDelay \in 0 .. MaxClock

VARIABLES pc,              \* the next statement of the user
          timeout,         \* timeoutMs of this use
          clock,           \* milliseconds since this use began
          flag,            \* deadlineExpired
          active,          \* timer->active
          handler,         \* what SIGALRM does: "previous" or "ours"
          previousAction,  \* timer->previousAction
          expiry,          \* when the kernel's timer expires
          pending,         \* SIGALRM is generated and not delivered
          killed,          \* SIGALRM met the previous action
          uses

Off == 0   \* no timer armed: an armed one expires later

timerVars == <<flag, active, handler, previousAction>>
kernelVars == <<clock, expiry, pending, killed>>
vars == <<pc, timeout, uses, timerVars, kernelVars>>

Starting == {"clear", "install", "arm"}
Stopping == {"disarm", "restore", "reset"}
Actions  == {"previous", "ours"}

TimerTypeOK ==
    /\ pc \in {"idle", "on"} \cup Starting \cup Stopping
    /\ timeout \in Timeouts \cup {0} /\ clock \in 0 .. MaxClock /\ uses \in 0 .. MaxUses
    /\ flag \in {0, 1} /\ active \in BOOLEAN
    /\ handler \in Actions /\ previousAction \in Actions \cup {"none"}
    /\ expiry \in Nat
    /\ pending \in BOOLEAN /\ killed \in BOOLEAN

Init ==
    /\ pc = "idle" /\ timeout = 0 /\ clock = 0 /\ uses = 0
    /\ flag = 0 /\ active = FALSE /\ handler = "previous" /\ previousAction = "none"
    /\ expiry = Off /\ pending = FALSE /\ killed = FALSE

(* The main thread runs: no unblocked signal is pending for it. *)
At(place) == pc = place /\ ~pending /\ ~killed
-----------------------------------------------------------------------------
(***************************************************************************)
(* DeadlineTimerStart.                                                     *)
(***************************************************************************)
Use ==
    /\ At("idle") /\ uses < MaxUses
    /\ uses' = uses + 1
    /\ timeout' \in Timeouts
    /\ clock' = 0
    /\ pc' = "clear"
    /\ UNCHANGED <<timerVars, expiry, pending, killed>>

ClearFlag ==
    /\ At("clear")
    /\ active' = FALSE /\ previousAction' = "none"
    /\ flag' = 0
    /\ pc' = IF timeout <= 0 THEN "on" ELSE "install"
    /\ UNCHANGED <<timeout, uses, handler, kernelVars>>

InstallHandler ==
    /\ At("install")
    /\ previousAction' = handler
    /\ handler' = "ours"
    /\ pc' = "arm"
    /\ UNCHANGED <<timeout, uses, flag, active, kernelVars>>

InstallFails ==
    /\ At("install") /\ "sigaction" \in Faults
    /\ pc' = "idle"
    /\ UNCHANGED <<timeout, uses, timerVars, kernelVars>>

(* setitimer() with a value of zero would disarm the timer. *)
ArmTimer ==
    /\ At("arm")
    /\ LET wait == Duration(Timeval(timeout))
       IN  expiry' = IF wait = 0 THEN Off ELSE clock + wait
    /\ active' = TRUE
    /\ pc' = "on"
    /\ UNCHANGED <<timeout, uses, flag, handler, previousAction, clock, pending, killed>>

ArmFailsOnly ==  \* mistake
    /\ At("arm") /\ "setitimer" \in Faults
    /\ pc' = "idle"
    /\ UNCHANGED <<timeout, uses, timerVars, kernelVars>>

ArmFails ==
    /\ At("arm") /\ "setitimer" \in Faults
    /\ handler' = previousAction
    /\ pc' = "idle"
    /\ UNCHANGED <<timeout, uses, flag, active, previousAction, kernelVars>>
-----------------------------------------------------------------------------
(***************************************************************************)
(* The user's loop ends at some time, and calls DeadlineTimerStop.         *)
(***************************************************************************)
DeadlineExceeded == flag = 1 \/ (timeout > 0 /\ clock > timeout)

LoopEnds ==
    /\ At("on")
    /\ pc' = IF active THEN "disarm" ELSE "idle"
    /\ UNCHANGED <<timeout, uses, timerVars, kernelVars>>

DisarmForgotten ==  \* mistake
    /\ At("disarm")
    /\ pc' = "restore"
    /\ UNCHANGED <<timeout, uses, timerVars, kernelVars>>

DisarmTimer ==
    /\ At("disarm")
    /\ expiry' = Off
    /\ pc' = "restore"
    /\ UNCHANGED <<timeout, uses, timerVars, clock, pending, killed>>

RestoreHandler ==
    /\ At("restore")
    /\ handler' = previousAction
    /\ pc' = "reset"
    /\ UNCHANGED <<timeout, uses, flag, active, previousAction, kernelVars>>

ResetFlag ==
    /\ At("reset")
    /\ active' = FALSE /\ flag' = 0
    /\ pc' = "idle"
    /\ UNCHANGED <<timeout, uses, handler, previousAction, kernelVars>>
-----------------------------------------------------------------------------
(***************************************************************************)
(* The kernel.  Time passes at any point, and the timer expires at its     *)
(* time or later.                                                          *)
(***************************************************************************)
Expire ==
    /\ expiry # Off /\ expiry <= clock
    /\ expiry' = Off
    /\ pending' = TRUE
    /\ UNCHANGED <<pc, timeout, uses, timerVars, clock, killed>>

(* DeadlineSignalHandler; the default action would end the process. *)
DeliverSignal ==
    /\ pending
    /\ pending' = FALSE
    /\ IF handler = "ours"
       THEN flag' = 1 /\ UNCHANGED killed
       ELSE killed' = TRUE /\ UNCHANGED flag
    /\ UNCHANGED <<pc, timeout, uses, active, handler, previousAction, clock, expiry>>

Tick ==
    /\ pc # "idle"
    /\ clock < IF pc \in Starting THEN MaxDelay ELSE MaxClock
    /\ clock' = clock + 1
    /\ UNCHANGED <<pc, timeout, uses, timerVars, expiry, pending, killed>>
-----------------------------------------------------------------------------
StartStep == ClearFlag \/ InstallHandler \/ InstallFails \/ ArmTimer \/ ArmFails
StopStep  == DisarmTimer \/ RestoreHandler \/ ResetFlag

Next == Use \/ StartStep \/ LoopEnds \/ StopStep \/ Expire \/ DeliverSignal \/ Tick

(* Calls return and the kernel's clock and timer run; nothing makes the    *)
(* user's loop end.                                                        *)
Fairness == /\ WF_vars(StartStep) /\ WF_vars(StopStep)
            /\ WF_vars(Expire) /\ WF_vars(DeliverSignal) /\ WF_vars(Tick)

Spec == Init /\ [][Next]_vars
LiveSpec == Spec /\ Fairness
-----------------------------------------------------------------------------
(***************************************************************************)
(* Properties.                                                             *)
(***************************************************************************)
(* Whenever SIGALRM comes, it meets the handler of the library and not the *)
(* previous action, which by default kills the process: the timer is armed *)
(* after the handler is installed and disarmed before it is removed.       *)
NeverKilled == ~killed

(* Between two uses the process is as it was: the previous action is back, *)
(* no timer runs, no signal of it is on its way and the flag is clear,     *)
(* also after a Start that failed half-way.                                *)
UseLeavesNoTrace ==
    pc = "idle" => handler = "previous" /\ expiry = Off /\ ~pending /\ flag = 0

(* A use sees a deadline only when its own limit is over: an alarm of an   *)
(* earlier use never ends a later one.                                     *)
DeadlineIsDue == pc = "on" /\ DeadlineExceeded => timeout > 0 /\ clock >= timeout

(* A loop that waits with no limit of its own is interrupted when the      *)
(* limit is over: the handler runs while the loop is on.                   *)
LimitInterrupts == pc = "on" /\ timeout > 0 ~> pc # "on" \/ flag = 1
-----------------------------------------------------------------------------
(***************************************************************************)
(* The inductive invariant behind these properties.                        *)
(***************************************************************************)
Handled == active /\ handler = "ours" /\ previousAction = "previous" /\ timeout > 0

HandlerInv ==
    /\ pc \in {"idle", "clear", "install", "reset"} => handler = "previous"
    /\ pc \in {"install", "arm"} => timeout > 0 /\ ~active
    /\ pc = "arm" => handler = "ours" /\ previousAction = "previous"
    /\ pc = "on" => Handled \/ (~active /\ handler = "previous")
    /\ pc \in {"disarm", "restore"} => Handled

SignalInv ==
    /\ ~killed
    /\ expiry # Off => pc \in {"on", "disarm"} /\ Handled /\ expiry >= timeout
    /\ pending => pc \in {"on", "disarm"} /\ Handled /\ clock >= timeout
    /\ flag = 1 => pc \in {"on"} \cup Stopping /\ active /\ timeout > 0 /\ clock >= timeout

TimerInv == TimerTypeOK /\ HandlerInv /\ SignalInv
=============================================================================
