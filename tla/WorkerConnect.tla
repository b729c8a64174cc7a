--------------------------- MODULE WorkerConnect ---------------------------
(***************************************************************************)
(* The beginning of WorkerInit in src/worker.c, in time: ConnectToMaster   *)
(* tries to connect, and sleeps and tries again while the connection is    *)
(* refused; then the worker waits for the first bytes of its task.         *)
(*                                                                         *)
(* Time is a variable.  Each statement of the worker, each wake-up and     *)
(* each answer of the network takes at most Latency: the clock waits for   *)
(* the step that is due.                                                   *)
(***************************************************************************)
EXTENDS ClusterTime

CONSTANTS RetryMs,     \* the longest sleep between attempts, 500 in the code
          MaxTimes,    \* the values of config->max_time
          SynTimeout,  \* how long connect() tries while nobody answers
          Latency,
          Faults       \* "sys": a system call fails

(* WorkerInit refuses a max_time that is not positive. *)
ASSUME ConnectAssumption ==
    /\ RetryMs \in Nat \ {0} /\ MaxTimes \subseteq Nat \ {0}
    /\ SynTimeout \in Nat /\ Latency \in Nat

VARIABLES pc,         \* the next statement of the worker
          maxTimeMs,
          clock,      \* milliseconds since ConnectToMaster began
          since,      \* when the statement or the wait under way began
          began,      \* when the last attempt began
          sleepMs,
          master,     \* whether the master listens, and has room for workers
          reason      \* why the worker gave up

vars == <<pc, maxTimeMs, clock, since, began, sleepMs, master, reason>>

Failed  == "failed"
Running == {"try", "check", "plan", "nap", "configure"}
Waiting == {"connecting", "unanswered", "sleeping", "reading"}
Pcs     == Running \cup Waiting \cup {"ready", Failed}

MasterStates == {"absent", "listening", "full", "closed"}
Refusing == {"absent", "closed"}
Reasons  == {"none", "limit", "noTask", "noAnswer", "sys"}

ConnectTypeOK ==
    /\ pc \in Pcs /\ maxTimeMs \in MaxTimes
    /\ clock \in Nat /\ since \in 0 .. clock /\ began \in 0 .. clock
    /\ sleepMs \in (IF pc \in {"nap", "sleeping"} THEN 1 ELSE 0) .. RetryMs
    /\ master \in MasterStates /\ reason \in Reasons

Init ==
    /\ pc = "try" /\ maxTimeMs \in MaxTimes
    /\ clock = 0 /\ since = 0 /\ began = 0 /\ sleepMs = 0
    /\ master = "absent" /\ reason = "none"

Goto(place) == pc' = place /\ since' = clock /\ UNCHANGED <<clock, maxTimeMs, master>>
Step(place) == Goto(place) /\ UNCHANGED <<began, sleepMs, reason>>
GiveUp(why) == Goto(Failed) /\ reason' = why /\ UNCHANGED <<began, sleepMs>>
-----------------------------------------------------------------------------
(***************************************************************************)
(* TryConnectToMaster.  The socket has no timeouts of its own yet.  While  *)
(* the accept queue is full, the kernel of the master drops the request;   *)
(* that of the worker repeats it, until it is answered by a master that    *)
(* has room again or is gone, or SynTimeout is over.                       *)
(***************************************************************************)
Attempt ==
    /\ pc = "try"
    /\ began' = clock
    /\ Goto("connecting")
    /\ UNCHANGED <<sleepMs, reason>>

Connected ==
    pc \in {"connecting", "unanswered"} /\ master = "listening" /\ Step("configure")

Refused ==
    pc \in {"connecting", "unanswered"} /\ master \in Refusing /\ Step("check")

Dropped == pc = "connecting" /\ master = "full" /\ Step("unanswered")

NoAnswer ==
    /\ pc = "unanswered" /\ clock - began >= SynTimeout
    /\ GiveUp("noAnswer")

CallFails ==
    /\ pc \in {"try", "connecting", "unanswered", "configure", "reading"}
    /\ "sys" \in Faults
    /\ GiveUp("sys")

(***************************************************************************)
(* ConnectToMaster reads the clock twice, before and after the decision to *)
(* go on; in between the limit may pass.                                   *)
(***************************************************************************)
LimitAfterSleep == clock + RetryMs >= maxTimeMs  \* mistake

LimitReached == clock >= maxTimeMs

CheckLimit ==
    /\ pc = "check"
    /\ IF LimitReached THEN GiveUp("limit") ELSE Step("plan")

Remaining == maxTimeMs - clock

AlwaysFull(remaining) == RetryMs  \* mistake

NextSleep(remaining) == IF remaining < RetryMs THEN remaining ELSE RetryMs

PlanAnySleep ==  \* mistake
    pc = "plan" /\ sleepMs' = NextSleep(Remaining) /\ Goto("nap") /\ UNCHANGED <<began, reason>>

PlanSleep ==
    /\ pc = "plan"
    /\ IF Remaining <= 0
       THEN GiveUp("limit")
       ELSE sleepMs' = NextSleep(Remaining) /\ Goto("nap") /\ UNCHANGED <<began, reason>>

(* SleepMs goes on with the rest when a signal interrupts it. *)
Sleep == pc = "nap" /\ Step("sleeping")

SleepTime == Duration(Timeval(sleepMs))

Wake == pc = "sleeping" /\ clock - since >= SleepTime /\ Step("try")
-----------------------------------------------------------------------------
(***************************************************************************)
(* ConfigureSocketTimeouts, and the first recv() of ReadPacket.            *)
(***************************************************************************)
ReadTimeout == Duration(Timeval(SocketTimeoutMs(maxTimeMs)))

Configure == pc = "configure" /\ Step("reading")

TaskArrives == pc = "reading" /\ master # "closed" /\ Step("ready")

(* A value of zero would be no timeout at all. *)
NoTask ==
    /\ pc = "reading"
    /\ (ReadTimeout > 0 /\ clock - since >= ReadTimeout) \/ master = "closed"
    /\ GiveUp("noTask")
-----------------------------------------------------------------------------
(* The master starts to listen; its accept queue fills up with other       *)
(* workers and has room again when MasterAcceptWorker takes one; it        *)
(* closes.                                                                 *)
MasterMoves ==
    /\ pc \notin {"ready", Failed}
    /\ \/ master = "absent" /\ master' = "listening"
       \/ master = "listening" /\ master' \in {"full", "closed"}
       \/ master = "full" /\ master' \in {"listening", "closed"}
    /\ UNCHANGED <<pc, maxTimeMs, clock, since, began, sleepMs, reason>>

(* How long the step under way may take. *)
Patience ==
    CASE pc = "sleeping" -> SleepTime + Latency
      [] pc = "unanswered" -> SynTimeout + Latency
      [] pc = "reading" -> ReadTimeout + Latency
      [] OTHER -> Latency

Tick ==
    /\ pc \notin {"ready", Failed}
    /\ clock - since < Patience
    /\ clock' = clock + 1
    /\ UNCHANGED <<pc, maxTimeMs, since, began, sleepMs, master, reason>>

WorkerStep ==
    \/ Attempt \/ Connected \/ Refused \/ Dropped \/ NoAnswer
    \/ CheckLimit \/ PlanSleep \/ Sleep \/ Wake
    \/ Configure \/ NoTask

Next == WorkerStep \/ CallFails \/ TaskArrives \/ MasterMoves \/ Tick

Spec == Init /\ [][Next]_vars

(* Nothing is assumed of the master: no task may ever come. *)
LiveSpec == Spec /\ WF_vars(WorkerStep) /\ WF_vars(Tick)
-----------------------------------------------------------------------------
(***************************************************************************)
(* Properties.                                                             *)
(***************************************************************************)
(* A worker gives up for its limit only when the limit is reached, and     *)
(* after an attempt close to it, however the sleeps fall: a master that    *)
(* listened from that time on would have been found.                       *)
NoBlindSpot ==
    reason = "limit" =>
        /\ clock >= maxTimeMs
        /\ master # "closed" => began + 3 * Latency >= maxTimeMs

(* No attempt begins later than the limit, but for the latency of waking   *)
(* up: sleeps never add up beyond it.                                      *)
AttemptsInTime == began <= maxTimeMs + 3 * Latency

(* WorkerInit has its first bytes or has given up at a known time, whether *)
(* nobody listens, nobody answers or no task comes: a connect() that is    *)
(* answered as late as can be may still be followed by a whole read        *)
(* timeout.                                                                *)
EndsInTime == clock <= maxTimeMs + SynTimeout + Second + 7 * Latency

(* It ends at all: no wait of it is without a timeout, also when max_time  *)
(* is less than a second.                                                  *)
ConnectEnds == <>(pc \in {"ready", Failed})
-----------------------------------------------------------------------------
(***************************************************************************)
(* The inductive invariant behind these properties: the clock waits for    *)
(* the step under way, which began a known time after the attempt, or      *)
(* before the limit.                                                       *)
(***************************************************************************)
ClockInv ==
    /\ pc \in Running \cup {"connecting"} => clock <= since + Latency
    /\ pc = "unanswered" => clock <= since + SynTimeout + Latency
    /\ pc = "sleeping" => clock <= since + sleepMs + Latency
    /\ pc = "reading" => clock <= since + Second + Latency

SinceInv ==
    /\ pc = "try" => since <= maxTimeMs + 2 * Latency
    /\ pc = "plan" => since <= maxTimeMs
    /\ pc = "nap" => since + sleepMs <= maxTimeMs
    /\ pc = "sleeping" => since + sleepMs <= maxTimeMs + Latency
    /\ reason = "limit" => pc = Failed

AnswerInv ==
    /\ pc = "connecting" => since = began
    /\ pc = "unanswered" => since <= began + Latency /\ master # "absent"
    /\ pc \in {"check", "configure"} => since <= began + SynTimeout + 2 * Latency
    /\ pc = "reading" => since <= began + SynTimeout + 3 * Latency
    /\ master # "closed" =>
          /\ pc = "check" => since <= began + Latency
          /\ pc = "plan" => since <= began + 2 * Latency

TimeInv ==
    /\ ConnectTypeOK /\ ClockInv /\ SinceInv /\ AnswerInv
    /\ AttemptsInTime /\ EndsInTime /\ NoBlindSpot
=============================================================================
