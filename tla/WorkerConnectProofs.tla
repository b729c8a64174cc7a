------------------------- MODULE WorkerConnectProofs -------------------------
(***************************************************************************)
(* Proofs about WorkerConnect: how long a worker tries to connect and      *)
(* waits for its task, for every limit, sleep, latency and network.        *)
(***************************************************************************)
EXTENDS WorkerConnect, TLAPS

(* Milliseconds go through struct timespec and struct timeval unchanged.   *)
LEMMA DurationOfTimeval ==
    ASSUME NEW ms \in Nat
    PROVE  Duration(Timeval(ms)) = ms
<1>1. Second \in Nat \ {0}
  BY SecondAssumption
<1>2. ms = (ms \div Second) * Second + (ms % Second)
  BY <1>1
<1> QED
  BY <1>2 DEF Duration, Timeval

(* The constants and the times are numbers. *)
NumbersOK ==
    /\ Second \in Nat /\ RetryMs \in Nat \ {0} /\ SynTimeout \in Nat /\ Latency \in Nat
    /\ maxTimeMs \in Nat \ {0} /\ sleepMs \in Nat /\ sleepMs <= RetryMs
    /\ clock \in Nat /\ since \in Nat /\ began \in Nat
    /\ since <= clock /\ began <= clock

(* Times and waits are numbers.                                            *)
LEMMA Numbers == ConnectTypeOK => NumbersOK
<1> SUFFICES ASSUME ConnectTypeOK PROVE NumbersOK
  OBVIOUS
<1>1. Second \in Nat /\ RetryMs \in Nat \ {0} /\ SynTimeout \in Nat /\ Latency \in Nat
  BY SecondAssumption, ConnectAssumption
<1>2. maxTimeMs \in Nat \ {0}
  BY ConnectAssumption DEF ConnectTypeOK
<1>3. clock \in Nat /\ since \in 0 .. clock /\ began \in 0 .. clock
  BY DEF ConnectTypeOK
<1>4. sleepMs \in 0 .. RetryMs
  BY <1>1 DEF ConnectTypeOK
<1> QED
  BY <1>1, <1>2, <1>3, <1>4 DEF NumbersOK

(* The waits that the code chooses: its sleep, and at most a second for a  *)
(* task, never none.                                                       *)
LEMMA Waits == ConnectTypeOK => SleepTime = sleepMs /\ ReadTimeout \in 1 .. Second
<1> SUFFICES ASSUME ConnectTypeOK PROVE SleepTime = sleepMs /\ ReadTimeout \in 1 .. Second
  OBVIOUS
<1>1. SleepTime = sleepMs
  BY Numbers, DurationOfTimeval DEF SleepTime, NumbersOK
<1>2. SocketTimeoutMs(maxTimeMs) \in 1 .. Second
  BY Numbers, SecondAssumption DEF SocketTimeoutMs, NumbersOK
<1>3. ReadTimeout = SocketTimeoutMs(maxTimeMs)
  BY <1>2, DurationOfTimeval, SecondAssumption DEF ReadTimeout
<1> QED
  BY <1>1, <1>2, <1>3

(* The clock waits for the step under way. *)
LEMMA PatienceIsBounded ==
    ConnectTypeOK =>
        /\ pc \in Running \cup {"connecting"} => Patience = Latency
        /\ pc = "unanswered" => Patience = SynTimeout + Latency
        /\ pc = "sleeping" => Patience = sleepMs + Latency
        /\ pc = "reading" => Patience <= Second + Latency
  BY Numbers, Waits DEF Patience, Running, NumbersOK

(* The invariant holds when ConnectToMaster begins.                        *)
LEMMA InitTimeInv == Init => TimeInv
<1> SUFFICES ASSUME Init PROVE TimeInv
  OBVIOUS
<1>1. ConnectTypeOK
  BY ConnectAssumption DEF Init, ConnectTypeOK, Pcs, Running, Waiting, MasterStates, Reasons
<1>2. NumbersOK
  BY <1>1, Numbers
<1>3. ClockInv /\ SinceInv /\ AnswerInv
  BY <1>2 DEF Init, ClockInv, SinceInv, AnswerInv, NumbersOK
<1>4. AttemptsInTime /\ EndsInTime /\ NoBlindSpot
  BY <1>2 DEF Init, AttemptsInTime, EndsInTime, NoBlindSpot, NumbersOK
<1> QED
  BY <1>1, <1>3, <1>4 DEF TimeInv

(* The variables keep their types: in particular a sleep is planned of at
   least one millisecond. *)
LEMMA ConnectTypeOKKept == TimeInv /\ [Next]_vars => ConnectTypeOK'
<1> SUFFICES ASSUME TimeInv, [Next]_vars PROVE ConnectTypeOK'
  OBVIOUS
<1>0. NumbersOK
  BY Numbers DEF TimeInv
<1>1. CASE Attempt
  BY <1>0, <1>1 DEF TimeInv, ConnectTypeOK, Pcs, Waiting, MasterStates, Reasons, Attempt, Goto
<1>2. CASE Connected
  BY <1>0, <1>2 DEF TimeInv, ConnectTypeOK, Pcs, Waiting, Running, MasterStates, Reasons, Connected,
      Step, Goto
<1>3. CASE Refused
  BY <1>0, <1>3 DEF TimeInv, ConnectTypeOK, Pcs, Waiting, Running, MasterStates, Reasons, Refused,
      Step, Goto
<1>4. CASE Dropped
  BY <1>0, <1>4 DEF TimeInv, ConnectTypeOK, Pcs, Waiting, MasterStates, Reasons, Dropped,
      Step, Goto
<1>5. CASE NoAnswer
  BY <1>0, <1>5 DEF TimeInv, ConnectTypeOK, Pcs, Waiting, Failed, MasterStates, Reasons, NoAnswer,
      GiveUp, Goto
<1>6. CASE CheckLimit
  BY <1>0, <1>6 DEF TimeInv, ConnectTypeOK, Pcs, Waiting, Running, Failed, MasterStates, Reasons,
      CheckLimit, GiveUp, Step, Goto
<1>7. CASE PlanSleep
  BY <1>0, <1>7 DEF NumbersOK, TimeInv, ConnectTypeOK, Pcs, Waiting, Running, Failed, MasterStates,
      Reasons, PlanSleep, GiveUp, Goto, Remaining, NextSleep
<1>8. CASE Sleep
  BY <1>0, <1>8 DEF TimeInv, ConnectTypeOK, Pcs, Waiting, MasterStates, Reasons, Sleep, Step, Goto
<1>9. CASE Wake
  BY <1>0, <1>9 DEF TimeInv, ConnectTypeOK, Pcs, Waiting, Running, MasterStates, Reasons, Wake,
      Step, Goto
<1>10. CASE Configure
  BY <1>0, <1>10 DEF TimeInv, ConnectTypeOK, Pcs, Waiting, MasterStates, Reasons, Configure, Step,
      Goto
<1>11. CASE NoTask
  BY <1>0, <1>11 DEF TimeInv, ConnectTypeOK, Pcs, Waiting, Failed, MasterStates, Reasons, NoTask,
      GiveUp, Goto
<1>12. CASE CallFails
  BY <1>0, <1>12 DEF TimeInv, ConnectTypeOK, Pcs, Waiting, Failed, MasterStates, Reasons, CallFails,
      GiveUp, Goto
<1>13. CASE TaskArrives
  BY <1>0, <1>13 DEF TimeInv, ConnectTypeOK, Pcs, Waiting, MasterStates, Reasons, TaskArrives, Step,
      Goto
<1>14. CASE MasterMoves
  BY <1>0, <1>14 DEF TimeInv, ConnectTypeOK, Pcs, Waiting, MasterStates, Reasons, MasterMoves
<1>15. CASE Tick
  BY <1>0, <1>15 DEF TimeInv, ConnectTypeOK, Pcs, Waiting, MasterStates, Reasons, Tick
<1>16. CASE UNCHANGED vars
  BY <1>16 DEF vars, TimeInv, ConnectTypeOK, Pcs, Waiting, MasterStates, Reasons
<1> QED
  BY <1>1, <1>2, <1>3, <1>4, <1>5, <1>6, <1>7, <1>8, <1>9, <1>10, <1>11, <1>12, <1>13,
      <1>14, <1>15, <1>16 DEF Next, WorkerStep

(* No step takes longer than it may. *)
LEMMA ClockInvKept == TimeInv /\ [Next]_vars => ClockInv'
<1> SUFFICES ASSUME TimeInv, [Next]_vars PROVE ClockInv'
  OBVIOUS
<1>0. NumbersOK
  BY Numbers DEF TimeInv
<1>1. CASE Attempt
  BY <1>0, <1>1 DEF NumbersOK, ClockInv, Running, Attempt, Goto
<1>2. CASE Connected
  BY <1>0, <1>2 DEF NumbersOK, ClockInv, Connected, Step, Goto
<1>3. CASE Refused
  BY <1>0, <1>3 DEF NumbersOK, ClockInv, Refused, Step, Goto
<1>4. CASE Dropped
  BY <1>0, <1>4 DEF NumbersOK, ClockInv, Running, Dropped, Step, Goto
<1>5. CASE NoAnswer
  BY <1>0, <1>5 DEF NumbersOK, ClockInv, NoAnswer, GiveUp, Goto
<1>6. CASE CheckLimit
  BY <1>0, <1>6 DEF NumbersOK, ClockInv, CheckLimit, GiveUp, Step, Goto
<1>7. CASE PlanSleep
  BY <1>0, <1>7 DEF NumbersOK, ClockInv, PlanSleep, GiveUp, Goto
<1>8. CASE Sleep
  BY <1>0, <1>8 DEF NumbersOK, ClockInv, Sleep, Step, Goto
<1>9. CASE Wake
  BY <1>0, <1>9 DEF NumbersOK, ClockInv, Wake, Step, Goto
<1>10. CASE Configure
  BY <1>0, <1>10 DEF NumbersOK, ClockInv, Configure, Step, Goto
<1>11. CASE NoTask
  BY <1>0, <1>11 DEF NumbersOK, ClockInv, NoTask, GiveUp, Goto
<1>12. CASE CallFails
  BY <1>0, <1>12 DEF NumbersOK, ClockInv, CallFails, GiveUp, Goto
<1>13. CASE TaskArrives
  BY <1>0, <1>13 DEF NumbersOK, ClockInv, TaskArrives, Step, Goto
<1>14. CASE MasterMoves
  BY <1>0, <1>14 DEF NumbersOK, TimeInv, ClockInv, MasterMoves
<1>15. CASE Tick
  <2>1. clock < since + Patience /\ clock' = clock + 1 /\ UNCHANGED <<pc, since, sleepMs, master>>
    <3>1. clock - since < Patience
      BY <1>15 DEF Tick
    <3>2. Patience \in Nat
      BY <1>15, PatienceIsBounded, Waits, <1>0 DEF Tick, Patience, NumbersOK, TimeInv
    <3> QED
      BY <1>0, <1>15, <3>1, <3>2 DEF Tick, NumbersOK
  <2>2. Patience \in Nat
    BY PatienceIsBounded, Waits, <1>0 DEF Patience, NumbersOK, TimeInv
  <2>3. clock' <= since + Patience
    BY <1>0, <2>1, <2>2 DEF NumbersOK
  <2>4. CASE pc \in Running
    BY <1>0, <2>1, <2>3, <2>4, PatienceIsBounded DEF ClockInv, NumbersOK, TimeInv
  <2>5. CASE pc \in {"connecting", "unanswered"}
    BY <1>0, <2>1, <2>3, <2>5, PatienceIsBounded DEF ClockInv, NumbersOK, Running, TimeInv
  <2>6. CASE pc = "sleeping"
    BY <1>0, <2>1, <2>3, <2>6, PatienceIsBounded DEF ClockInv, NumbersOK, TimeInv
  <2>7. CASE pc = "reading"
    BY <1>0, <2>1, <2>2, <2>3, <2>7, PatienceIsBounded DEF ClockInv, NumbersOK, TimeInv
  <2> QED
    BY <2>1, <2>4, <2>5, <2>6, <2>7 DEF ClockInv
<1>16. CASE UNCHANGED vars
  BY <1>16 DEF vars, TimeInv, ClockInv
<1> QED
  BY <1>1, <1>2, <1>3, <1>4, <1>5, <1>6, <1>7, <1>8, <1>9, <1>10, <1>11, <1>12, <1>13,
      <1>14, <1>15, <1>16 DEF Next, WorkerStep

(* Sleeps end before the limit, but for latencies. *)
LEMMA SinceInvKept == TimeInv /\ [Next]_vars => SinceInv'
<1> SUFFICES ASSUME TimeInv, [Next]_vars PROVE SinceInv'
  OBVIOUS
<1>0. NumbersOK
  BY Numbers DEF TimeInv
<1>1. CASE Attempt
  BY <1>0, <1>1 DEF TimeInv, SinceInv, Failed, Attempt, Goto
<1>2. CASE Connected
  BY <1>0, <1>2 DEF TimeInv, SinceInv, Failed, Connected, Step, Goto
<1>3. CASE Refused
  BY <1>0, <1>3 DEF TimeInv, SinceInv, Failed, Refused, Step, Goto
<1>4. CASE Dropped
  BY <1>0, <1>4 DEF TimeInv, SinceInv, Failed, Dropped, Step, Goto
<1>5. CASE NoAnswer
  BY <1>0, <1>5 DEF SinceInv, Failed, NoAnswer, GiveUp, Goto
<1>6. CASE CheckLimit
  BY <1>0, <1>6 DEF NumbersOK, TimeInv, SinceInv, Failed, CheckLimit, GiveUp, Step, Goto,
      LimitReached
<1>7. CASE PlanSleep
  BY <1>0, <1>7 DEF NumbersOK, TimeInv, SinceInv, Failed, PlanSleep, GiveUp, Goto,
      Remaining, NextSleep
<1>8. CASE Sleep
  <2>1. clock <= since + Latency /\ since + sleepMs <= maxTimeMs
    BY <1>8 DEF Sleep, TimeInv, ClockInv, SinceInv, Running
  <2>2. clock + sleepMs <= maxTimeMs + Latency
    BY <1>0, <2>1 DEF NumbersOK
  <2>3. pc' = "sleeping" /\ since' = clock /\ UNCHANGED <<maxTimeMs, sleepMs, began, reason>>
    BY <1>8 DEF Sleep, Step, Goto
  <2>4. reason # "limit"
    BY <1>8 DEF Sleep, TimeInv, SinceInv, Failed
  <2> QED
    BY <2>2, <2>3, <2>4 DEF SinceInv
<1>9. CASE Wake
  BY <1>0, <1>9 DEF NumbersOK, TimeInv, ClockInv, SinceInv, Failed, Wake, Step, Goto
<1>10. CASE Configure
  BY <1>0, <1>10 DEF TimeInv, SinceInv, Failed, Configure, Step, Goto
<1>11. CASE NoTask
  BY <1>0, <1>11 DEF SinceInv, Failed, NoTask, GiveUp, Goto
<1>12. CASE CallFails
  BY <1>0, <1>12 DEF SinceInv, Failed, CallFails, GiveUp, Goto
<1>13. CASE TaskArrives
  BY <1>0, <1>13 DEF TimeInv, SinceInv, Failed, TaskArrives, Step, Goto
<1>14. CASE MasterMoves
  BY <1>0, <1>14 DEF TimeInv, SinceInv, MasterMoves
<1>15. CASE Tick
  BY <1>0, <1>15 DEF TimeInv, SinceInv, Tick
<1>16. CASE UNCHANGED vars
  BY <1>16 DEF vars, TimeInv, SinceInv
<1> QED
  BY <1>1, <1>2, <1>3, <1>4, <1>5, <1>6, <1>7, <1>8, <1>9, <1>10, <1>11, <1>12, <1>13,
      <1>14, <1>15, <1>16 DEF Next, WorkerStep

(* An answer of a master that has not closed is not late. *)
LEMMA AnswerInvKept == TimeInv /\ [Next]_vars => AnswerInv'
<1> SUFFICES ASSUME TimeInv, [Next]_vars PROVE AnswerInv'
  OBVIOUS
<1>0. NumbersOK
  BY Numbers DEF TimeInv
<1>1. CASE Attempt
  BY <1>0, <1>1 DEF NumbersOK, AnswerInv, Attempt, Goto
<1>2. CASE Connected
  BY <1>0, <1>2 DEF NumbersOK, TimeInv, ClockInv, AnswerInv, Running, Connected, Step, Goto
<1>3. CASE Refused
  BY <1>0, <1>3 DEF NumbersOK, TimeInv, ClockInv, AnswerInv, Running, Refused, Refusing, Step, Goto
<1>4. CASE Dropped
  BY <1>0, <1>4 DEF NumbersOK, TimeInv, ClockInv, AnswerInv, Running, Dropped, Step, Goto
<1>5. CASE NoAnswer
  BY <1>5 DEF NoAnswer, GiveUp, Goto, AnswerInv, Failed
<1>6. CASE CheckLimit
  <2>1. clock <= since + Latency /\ (master # "closed" => since <= began + Latency)
    BY <1>6 DEF CheckLimit, TimeInv, ClockInv, AnswerInv, Running
  <2>2. master # "closed" => clock <= began + 2 * Latency
    BY <1>0, <2>1 DEF NumbersOK
  <2>3. pc' \in {"plan", Failed} /\ since' = clock /\ UNCHANGED <<master, began>>
    BY <1>6 DEF CheckLimit, GiveUp, Step, Goto
  <2> QED
    BY <2>2, <2>3 DEF AnswerInv, Failed
<1>7. CASE PlanSleep
  BY <1>7 DEF PlanSleep, GiveUp, Goto, AnswerInv, Failed
<1>8. CASE Sleep
  BY <1>0, <1>8 DEF AnswerInv, Sleep, Step, Goto
<1>9. CASE Wake
  BY <1>0, <1>9 DEF AnswerInv, Wake, Step, Goto
<1>10. CASE Configure
  <2>1. clock <= since + Latency /\ since <= began + SynTimeout + 2 * Latency
    BY <1>10 DEF Configure, TimeInv, ClockInv, AnswerInv, Running
  <2>2. clock <= began + SynTimeout + 3 * Latency
    BY <1>0, <2>1 DEF NumbersOK
  <2>3. pc' = "reading" /\ since' = clock /\ UNCHANGED <<master, began>>
    BY <1>10 DEF Configure, Step, Goto
  <2> QED
    BY <2>2, <2>3 DEF AnswerInv
<1>11. CASE NoTask
  BY <1>11 DEF NoTask, GiveUp, Goto, AnswerInv, Failed
<1>12. CASE CallFails
  BY <1>12 DEF CallFails, GiveUp, Goto, AnswerInv, Failed
<1>13. CASE TaskArrives
  BY <1>0, <1>13 DEF AnswerInv, TaskArrives, Step, Goto
<1>14. CASE MasterMoves
  BY <1>0, <1>14 DEF NumbersOK, TimeInv, ClockInv, AnswerInv, MasterMoves
<1>15. CASE Tick
  BY <1>0, <1>15 DEF TimeInv, AnswerInv, Tick
<1>16. CASE UNCHANGED vars
  BY <1>16 DEF vars, TimeInv, AnswerInv
<1> QED
  BY <1>1, <1>2, <1>3, <1>4, <1>5, <1>6, <1>7, <1>8, <1>9, <1>10, <1>11, <1>12, <1>13,
      <1>14, <1>15, <1>16 DEF Next, WorkerStep

(* An attempt begins in time. *)
LEMMA AttemptsInTimeKept == TimeInv /\ [Next]_vars => AttemptsInTime'
<1> SUFFICES ASSUME TimeInv, [Next]_vars PROVE AttemptsInTime'
  OBVIOUS
<1>0. NumbersOK
  BY Numbers DEF TimeInv
<1>1. CASE Attempt
  <2>1. clock <= since + Latency /\ since <= maxTimeMs + 2 * Latency
    BY <1>1 DEF Attempt, TimeInv, ClockInv, SinceInv, Running
  <2>2. clock <= maxTimeMs + 3 * Latency
    BY <1>0, <2>1 DEF NumbersOK
  <2>3. began' = clock /\ maxTimeMs' = maxTimeMs
    BY <1>1 DEF Attempt, Goto
  <2> QED
    BY <2>2, <2>3 DEF AttemptsInTime
<1>2. CASE Connected \/ Refused \/ Dropped \/ NoAnswer \/ CheckLimit \/ PlanSleep \/ Sleep \/ Wake \/ Configure \/ NoTask \/ CallFails \/ TaskArrives \/ MasterMoves \/ Tick \/ UNCHANGED vars
  <2>1. UNCHANGED <<began, maxTimeMs>>
    BY <1>2 DEF Connected, Step, Goto, Refused, Dropped, NoAnswer, GiveUp, CheckLimit, PlanSleep,
        Sleep, Wake, Configure, NoTask, CallFails, TaskArrives, MasterMoves, Tick, vars
  <2> QED
    BY <2>1 DEF TimeInv, AttemptsInTime
<1> QED
  BY <1>1, <1>2 DEF Next, WorkerStep

(* The clock stays below the bound. *)
LEMMA EndsInTimeKept == TimeInv /\ [Next]_vars => EndsInTime'
<1> SUFFICES ASSUME TimeInv, [Next]_vars PROVE EndsInTime'
  OBVIOUS
<1>0. NumbersOK
  BY Numbers DEF TimeInv
<1>1. CASE Tick
  <2>0. began <= maxTimeMs + 3 * Latency
    BY DEF TimeInv, AttemptsInTime
  <2>1. clock' = clock + 1 /\ UNCHANGED <<maxTimeMs, pc, since, sleepMs, master, began>>
        /\ pc \in Pcs /\ pc \notin {"ready", Failed}
    BY <1>1 DEF Tick, TimeInv, ConnectTypeOK
  <2>2. ClockInv' /\ SinceInv /\ AnswerInv
    BY ClockInvKept DEF TimeInv
  <2>3. SUFFICES clock' <= maxTimeMs + SynTimeout + Second + 7 * Latency
    BY <2>1 DEF EndsInTime
  <2>4. CASE pc = "try"
    BY <1>0, <2>1, <2>2, <2>4 DEF NumbersOK, ClockInv, SinceInv, Running
  <2>5. CASE pc = "connecting"
    BY <1>0, <2>0, <2>1, <2>2, <2>5 DEF NumbersOK, ClockInv, AnswerInv
  <2>6. CASE pc = "unanswered"
    BY <1>0, <2>0, <2>1, <2>2, <2>6 DEF NumbersOK, ClockInv, AnswerInv
  <2>7. CASE pc \in {"check", "configure"}
    BY <1>0, <2>0, <2>1, <2>2, <2>7 DEF NumbersOK, ClockInv, AnswerInv, Running
  <2>8. CASE pc \in {"plan", "nap"}
    BY <1>0, <2>1, <2>2, <2>8 DEF NumbersOK, ClockInv, SinceInv, Running
  <2>9. CASE pc = "sleeping"
    BY <1>0, <2>1, <2>2, <2>9 DEF NumbersOK, ClockInv, SinceInv
  <2>10. CASE pc = "reading"
    BY <1>0, <2>0, <2>1, <2>2, <2>10 DEF NumbersOK, ClockInv, AnswerInv
  <2> QED
    BY <2>1, <2>4, <2>5, <2>6, <2>7, <2>8, <2>9, <2>10 DEF Pcs, Running, Waiting
<1>2. CASE Attempt \/ Connected \/ Refused \/ Dropped \/ NoAnswer \/ CheckLimit \/ PlanSleep \/ Sleep \/ Wake \/ Configure \/ NoTask \/ CallFails \/ TaskArrives \/ MasterMoves \/ UNCHANGED vars
  <2>1. UNCHANGED <<clock, maxTimeMs>>
    BY <1>2 DEF Attempt, Goto, Connected, Step, Refused, Dropped, NoAnswer, GiveUp, CheckLimit,
        PlanSleep, Sleep, Wake, Configure, NoTask, CallFails, TaskArrives, MasterMoves,
        vars
  <2> QED
    BY <2>1 DEF TimeInv, EndsInTime
<1> QED
  BY <1>1, <1>2 DEF Next, WorkerStep

(* A worker gives up for the limit close after an attempt. *)
LEMMA NoBlindSpotKept == TimeInv /\ [Next]_vars => NoBlindSpot'
<1> SUFFICES ASSUME TimeInv, [Next]_vars PROVE NoBlindSpot'
  OBVIOUS
<1>0. NumbersOK
  BY Numbers DEF TimeInv
<1>1. CASE Attempt
  BY <1>0, <1>1 DEF NumbersOK, TimeInv, NoBlindSpot, Attempt, Goto
<1>2. CASE NoAnswer
  BY <1>0, <1>2 DEF NoBlindSpot, NoAnswer, GiveUp
<1>3. CASE CheckLimit
  <2>1. clock <= since + Latency /\ (master # "closed" => since <= began + Latency)
    BY <1>3 DEF CheckLimit, TimeInv, ClockInv, AnswerInv, Running
  <2>2. reason' = "limit" => clock >= maxTimeMs
    BY <1>3 DEF CheckLimit, Step, LimitReached, TimeInv, SinceInv, Failed
  <2>3. clock >= maxTimeMs /\ master # "closed" => began + 3 * Latency >= maxTimeMs
    BY <1>0, <2>1 DEF NumbersOK
  <2>4. UNCHANGED <<clock, maxTimeMs, master, began>>
    BY <1>3 DEF CheckLimit, GiveUp, Step, Goto
  <2> QED
    BY <2>2, <2>3, <2>4 DEF NoBlindSpot
<1>4. CASE PlanSleep
  <2>1. clock <= since + Latency /\ (master # "closed" => since <= began + 2 * Latency)
    BY <1>4 DEF PlanSleep, TimeInv, ClockInv, AnswerInv, Running
  <2>2. reason' = "limit" => Remaining <= 0
    BY <1>4 DEF PlanSleep, TimeInv, SinceInv, Failed
  <2>3. Remaining <= 0 => clock >= maxTimeMs
    BY <1>0 DEF Remaining, NumbersOK
  <2>4. clock >= maxTimeMs /\ master # "closed" => began + 3 * Latency >= maxTimeMs
    BY <1>0, <2>1 DEF NumbersOK
  <2>5. UNCHANGED <<clock, maxTimeMs, master, began>>
    BY <1>4 DEF PlanSleep, GiveUp, Goto
  <2> QED
    BY <2>2, <2>3, <2>4, <2>5 DEF NoBlindSpot
<1>5. CASE NoTask
  BY <1>0, <1>5 DEF NoBlindSpot, NoTask, GiveUp
<1>6. CASE CallFails
  BY <1>0, <1>6 DEF NoBlindSpot, CallFails, GiveUp
<1>7. CASE MasterMoves
  BY <1>0, <1>7 DEF TimeInv, NoBlindSpot, MasterMoves
<1>8. CASE Tick
  BY <1>0, <1>8 DEF NumbersOK, TimeInv, NoBlindSpot, Tick
<1>9. CASE Connected \/ Refused \/ Dropped \/ Sleep \/ Wake \/ Configure \/ TaskArrives \/ UNCHANGED vars
  <2>1. UNCHANGED <<reason, clock, maxTimeMs, master, began>>
    BY <1>9 DEF Connected, Step, Goto, Refused, Dropped, Sleep, Wake, Configure, TaskArrives, vars
  <2> QED
    BY <2>1 DEF TimeInv, NoBlindSpot
<1> QED
  BY <1>1, <1>2, <1>3, <1>4, <1>5, <1>6, <1>7, <1>8, <1>9 DEF Next, WorkerStep

(* The invariant of the connection phase, for every constant. *)
THEOREM TimeInvHolds == Spec => []TimeInv
<1>1. TimeInv /\ [Next]_vars => TimeInv'
  BY ConnectTypeOKKept, ClockInvKept, SinceInvKept, AnswerInvKept, AttemptsInTimeKept,
     EndsInTimeKept, NoBlindSpotKept DEF TimeInv
<1> QED
  BY InitTimeInv, <1>1, PTL DEF Spec

(* The variables of the connection phase keep their types.                 *)
THEOREM ConnectTypeCorrect == Spec => []ConnectTypeOK
<1>1. TimeInv => ConnectTypeOK
  BY DEF TimeInv
<1> QED
  BY <1>1, TimeInvHolds, PTL

(* However sleeps and refusals fall, no attempt begins past the limit.     *)
THEOREM AttemptsAreInTime == Spec => []AttemptsInTime
<1>1. TimeInv => AttemptsInTime
  BY DEF TimeInv
<1> QED
  BY <1>1, TimeInvHolds, PTL

(* The worker is done with connecting and with its first read by a time    *)
(* that max_time and the timeouts of the sockets bound.                    *)
THEOREM PhaseIsBounded == Spec => []EndsInTime
<1>1. TimeInv => EndsInTime
  BY DEF TimeInv
<1> QED
  BY <1>1, TimeInvHolds, PTL

(* A worker that gives up for its limit has tried close before it.         *)
THEOREM NoMasterIsMissed == Spec => []NoBlindSpot
<1>1. TimeInv => NoBlindSpot
  BY DEF TimeInv
<1> QED
  BY <1>1, TimeInvHolds, PTL
=============================================================================
