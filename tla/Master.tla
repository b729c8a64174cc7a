------------------------------- MODULE Master -------------------------------
(***************************************************************************)
(* The master of the cluster, src/master.c: MasterInit, MasterRun with its *)
(* poll() loop and the four-phase transfer of every worker slot, and       *)
(* MasterDestroy.                                                          *)
(*                                                                         *)
(* One pass of the loop is cut where another process, the clock or SIGALRM *)
(* can get in between: the loop head, the return of poll() with a snapshot *)
(* of the events, accept(), the service of each slot in index order from   *)
(* that snapshot, and the time check that ends the pass.  What a worker    *)
(* does between the snapshot and the service of its slot is therefore seen *)
(* by recv() and send() and not by the events.                             *)
(***************************************************************************)
EXTENDS ClusterNet, FiniteSets

CONSTANTS Capacity,  \* required_workers, master->workersCapacity
          MaxTime,   \* max_time_ms, in ticks; 0 or less arms no deadline
          MaxClock,  \* bound: ticks counted after the start of a MasterRun
          MaxRuns,   \* bound: calls of MasterRun on one Master
          Data       \* the caller's buffer, a sequence of bytes

ASSUME MasterAssumption ==
    /\ Capacity \in Nat \ {0}
    /\ MaxTime \in Int
    /\ MaxClock \in Nat
    /\ MaxRuns \in Nat
    /\ Data \in Seq(Byte)
    /\ Len(Data) \in Sizes

VARIABLES mpc,           \* where the master is
          runs,          \* calls of MasterRun so far
          workersCount,  \* master->workersCount
          workers,       \* master->workers
          results,       \* the caller's array of result packets
          revents,       \* pollFds[1 + i].revents not yet looked at
          listenIn,      \* POLLIN in pollFds[0].revents, not yet looked at
          doneWorkers, status, deadlineExpired,
          elapsed,       \* NowMs() - startTime
          servedBy,      \* history: the process accepted into each slot
          slotsAtStart   \* history: workersCount when MasterRun was called

masterVars == <<mpc, runs, workersCount, workers, results, revents, listenIn,
                doneWorkers, status, deadlineExpired, elapsed, servedBy,
                slotsAtStart>>

Slots   == 0 .. Capacity - 1
Sending == {"SendTaskSize", "SendTaskData"}
Reading == {"ReadResultSize", "ReadResultData"}
SlotStates == Sending \cup Reading \cup {"MasterWorkerEmpty", "Done", "Failed"}

(* POLLHUP is folded into RDHUP and ERR, POLLNVAL into ERR. *)
Events  == {"IN", "OUT", "RDHUP", "ERR"}
InLoop  == {"loop", "poll", "accept", "serve"}
MasterPcs == InLoop \cup {"down", "ready", "finish", "returned", "destroyed", "crashed"}

MasterWorker == [socketFd : Procs \cup {NoFd}, state : SlotStates,
                 transferOffset : Nat, taskOffset : Nat, taskSize : Int,
                 resultSize : Sizes, sizeBuffer : [1 .. HeaderSize -> Byte]]
ResultPacket == [data : Seq(Byte \cup {Uninit}), size : Sizes]

MasterTypeOK ==
    /\ mpc \in MasterPcs
    /\ runs \in 0 .. MaxRuns
    /\ workersCount \in 0 .. Capacity
    /\ workers \in [Slots -> MasterWorker]
    /\ results \in [Slots -> ResultPacket]
    /\ revents \in [Slots -> SUBSET Events]
    /\ listenIn \in BOOLEAN
    /\ doneWorkers \in Nat
    /\ status \in {0, 1}
    /\ deadlineExpired \in BOOLEAN
    /\ elapsed \in 0 .. MaxClock
    /\ servedBy \in [Slots -> Procs \cup {NoFd}]
    /\ slotsAtStart \in 0 .. Capacity

EmptyPacket == [data |-> <<>>, size |-> 0]
NoResults   == [i \in Slots |-> EmptyPacket]
NoEvents    == [i \in Slots |-> {}]

MasterWorkerPrepareEmpty ==
    [socketFd |-> NoFd, state |-> "MasterWorkerEmpty", transferOffset |-> 0,
     taskOffset |-> 0, taskSize |-> 0, resultSize |-> 0,
     sizeBuffer |-> [k \in 1 .. HeaderSize |-> 0]]

MasterStateInit ==
    /\ mpc = "down"
    /\ runs = 0
    /\ workersCount = 0
    /\ workers = [i \in Slots |-> MasterWorkerPrepareEmpty]
    /\ results = NoResults
    /\ revents = NoEvents
    /\ listenIn = FALSE
    /\ doneWorkers = 0
    /\ status = 0
    /\ deadlineExpired = FALSE
    /\ elapsed = 0
    /\ servedBy = [i \in Slots |-> NoFd]
    /\ slotsAtStart = 0

(* The descriptors the master holds open; the mistake forgets some. *)
UnfinishedFds == {workers[i].socketFd : i \in {j \in Slots : workers[j].state # "Done"}} \ {NoFd}
OpenFds == {workers[i].socketFd : i \in Slots} \ {NoFd}
-----------------------------------------------------------------------------
(***************************************************************************)
(* MasterInit: the worker table is built and the socket starts listening.  *)
(* When a call fails nothing stays open.                                   *)
(***************************************************************************)
MasterInit ==
    /\ mpc = "down"
    /\ mpc' = "ready"
    /\ listening' = TRUE
    /\ UNCHANGED <<runs, workersCount, workers, results, revents, listenIn,
                   doneWorkers, status, deadlineExpired, elapsed, servedBy,
                   slotsAtStart, acceptQueue, down, up, masterFin, workerFin,
                   broken>>

MasterInitFails ==
    /\ mpc = "down"
    /\ "sys" \in Faults
    /\ mpc' = "destroyed"
    /\ UNCHANGED <<runs, workersCount, workers, results, revents, listenIn,
                   doneWorkers, status, deadlineExpired, elapsed, servedBy,
                   slotsAtStart, netVars>>

(***************************************************************************)
(* MasterRun up to its loop.  Nothing of the worker table is reset: a      *)
(* second call finds the slots as the first one left them.  When calloc or *)
(* the timer fails it returns before the loop and its clean-up.            *)
(***************************************************************************)
(* Mistakes: a count kept from call to call, or started from the old slots. *)
CountIsKept == doneWorkers
CountOfOldSlots == Cardinality({i \in Slots : workers[i].state = "Done"})

NothingDone == 0

MasterRunBegins ==
    /\ mpc \in {"ready", "returned"}
    /\ runs < MaxRuns
    /\ runs' = runs + 1
    /\ results' = NoResults
    /\ doneWorkers' = NothingDone
    /\ deadlineExpired' = FALSE
    /\ elapsed' = 0
    /\ slotsAtStart' = workersCount
    /\ \/ mpc' = "loop" /\ status' = 0
       \/ Faults \cap {"alloc", "sys"} # {} /\ mpc' = "returned" /\ status' = 1
    /\ UNCHANGED <<workersCount, workers, revents, listenIn, servedBy, netVars>>

(***************************************************************************)
(* The head of the loop.  PollTimeoutMs gives poll() an infinite timeout   *)
(* when there is no limit, and ends the run when no time remains.          *)
(***************************************************************************)
AllAcceptedDone == doneWorkers >= workersCount  \* mistake
AllDone == doneWorkers >= Capacity

(* Mistakes: the deadline comes a tick early, or never. *)
OutOfTimeEarly == MaxTime > 0 /\ elapsed + 1 >= MaxTime
NeverOutOfTime == FALSE
OutOfTime == MaxTime > 0 /\ elapsed >= MaxTime

Stop(code) == mpc' = "finish" /\ status' = code

LoopHead ==
    /\ mpc = "loop"
    /\ \/ AllDone /\ Stop(status)
       \/ ~AllDone /\ (deadlineExpired \/ OutOfTime) /\ Stop(1)
       \/ ~AllDone /\ ~deadlineExpired /\ ~OutOfTime /\ mpc' = "poll" /\ UNCHANGED status
    /\ UNCHANGED <<runs, workersCount, workers, results, revents, listenIn,
                   doneWorkers, deadlineExpired, elapsed, servedBy,
                   slotsAtStart, netVars>>

(***************************************************************************)
(* PreparePollFds registers a slot's socket only while its transfer is     *)
(* under way, for the direction of its phase and for POLLRDHUP, and the    *)
(* listening socket only while slots are free.                             *)
(***************************************************************************)
Watched(i) ==
    /\ i < workersCount
    /\ workers[i].socketFd # NoFd
    /\ workers[i].state \in Sending \cup Reading

(* What poll() reports: a reset hides everything else the code looks at. *)
Reported(p, phase) ==
    IF broken[p] THEN {"ERR"}
    ELSE {e \in Events : \/ e = "OUT" /\ phase \in Sending /\ Room(down[p]) > 0
                         \/ e = "IN" /\ phase \in Reading /\ (up[p] # <<>> \/ workerFin[p])
                         \/ e = "RDHUP" /\ workerFin[p]}

Ready(i) ==
    IF Watched(i) THEN Reported(workers[i].socketFd, workers[i].state) ELSE {}

OneSlotTooMany == workersCount <= Capacity  \* mistake
FreeSlot    == workersCount < Capacity
ListenReady == FreeSlot /\ acceptQueue # <<>>
AnyReady    == ListenReady \/ \E i \in Slots : Ready(i) # {}

PollReady ==
    /\ mpc = "poll"
    /\ AnyReady
    /\ revents' = [i \in Slots |-> Ready(i)]
    /\ listenIn' = ListenReady
    /\ mpc' = "accept"
    /\ UNCHANGED <<runs, workersCount, workers, results, doneWorkers, status,
                   deadlineExpired, elapsed, servedBy, slotsAtStart, netVars>>

(* poll() returns 0, or -1 with EINTR, or -1 with another error. *)
PollTimesOut == mpc = "poll" /\ OutOfTime /\ ~AnyReady /\ Stop(1)

PollInterrupted ==
    /\ mpc = "poll"
    /\ \/ deadlineExpired /\ Stop(1)
       \/ ~deadlineExpired /\ "signal" \in Faults /\ mpc' = "loop" /\ UNCHANGED status

PollFails == mpc = "poll" /\ "sys" \in Faults /\ Stop(1)

PollReturnsNothing ==
    /\ PollTimesOut \/ PollInterrupted \/ PollFails
    /\ UNCHANGED <<runs, workersCount, workers, results, revents, listenIn,
                   doneWorkers, deadlineExpired, elapsed, servedBy,
                   slotsAtStart, netVars>>
-----------------------------------------------------------------------------
(***************************************************************************)
(* MasterAcceptWorker: the oldest queued connection gets the next slot and *)
(* that slot's share of the data.  The new slot has no events yet.         *)
(***************************************************************************)
TaskBegin(i) == SplitPoint(Len(Data), i, Capacity)
TaskLength(i) == TaskBegin(i + 1) - TaskBegin(i)

Assigned(i, p) ==
    [socketFd |-> p, state |-> "SendTaskSize", transferOffset |-> 0,
     taskOffset |-> TaskBegin(i), taskSize |-> TaskLength(i), resultSize |-> 0,
     sizeBuffer |-> ClusterEncodeSize(TaskLength(i))]

AcceptWorker ==
    /\ mpc = "accept"
    /\ listenIn
    /\ acceptQueue # <<>>
    /\ workers' = [workers EXCEPT ![workersCount] = Assigned(workersCount, Head(acceptQueue))]
    /\ servedBy' = [servedBy EXCEPT ![workersCount] = Head(acceptQueue)]
    /\ workersCount' = workersCount + 1
    /\ acceptQueue' = Tail(acceptQueue)
    /\ listenIn' = FALSE
    /\ mpc' = "serve"
    /\ UNCHANGED <<runs, results, revents, doneWorkers, status, deadlineExpired,
                   elapsed, slotsAtStart, listening, down, up, masterFin,
                   workerFin, broken>>

(* No POLLIN on the listening socket, or accept() interrupted. *)
AcceptNothing ==
    /\ mpc = "accept"
    /\ ~listenIn \/ "signal" \in Faults
    /\ listenIn' = FALSE
    /\ mpc' = "serve"
    /\ UNCHANGED <<runs, workersCount, workers, results, revents, doneWorkers,
                   status, deadlineExpired, elapsed, servedBy, slotsAtStart,
                   netVars>>

(* The listening socket or accept() fails, or the new socket cannot be set *)
(* up and is closed again.                                                 *)
AcceptFails ==
    /\ mpc = "accept"
    /\ "sys" \in Faults
    /\ Stop(1)
    /\ listenIn' = FALSE
    /\ \/ UNCHANGED netVars
       \/ /\ listenIn
          /\ acceptQueue # <<>>
          /\ acceptQueue' = Tail(acceptQueue)
          /\ MasterCloses({Head(acceptQueue)})
          /\ UNCHANGED <<listening, down, up, workerFin>>
    /\ UNCHANGED <<runs, workersCount, workers, results, revents, doneWorkers,
                   deadlineExpired, elapsed, servedBy, slotsAtStart>>
-----------------------------------------------------------------------------
(***************************************************************************)
(* The service of one slot.  Slots without events are skipped; the others  *)
(* are taken in index order, and a slot with POLLERR fails at once.        *)
(***************************************************************************)
NextSlot(i) == revents[i] # {} /\ \A j \in Slots : revents[j] # {} => i <= j

Serving(i, phases) ==
    /\ mpc = "serve"
    /\ NextSlot(i)
    /\ "ERR" \notin revents[i]
    /\ workers[i].state \in phases

Served(i) == revents' = [revents EXCEPT ![i] = {}]

(* The slot fails, and with it the whole run: the loops are left, and the  *)
(* offset and the header buffer of the slot are never looked at again.     *)
FailSlot(i) ==
    /\ workers' = [workers EXCEPT ![i].state = "Failed"]
    /\ Stop(1)
    /\ UNCHANGED <<runs, workersCount, revents, listenIn, doneWorkers,
                   deadlineExpired, elapsed, servedBy, slotsAtStart, listening,
                   acceptQueue, down, masterFin, workerFin, broken>>

SlotHasError(i) ==
    /\ mpc = "serve"
    /\ NextSlot(i)
    /\ "ERR" \in revents[i]
    /\ FailSlot(i)
    /\ UNCHANGED <<results, up>>

(***************************************************************************)
(* Sending: WritePart pushes what is left of the header or of the task     *)
(* into the socket until it is empty (TransferComplete), the socket is     *)
(* full (TransferPending) or send() fails.                                 *)
(***************************************************************************)
Outgoing(i) ==
    IF workers[i].state = "SendTaskSize"
    THEN workers[i].sizeBuffer
    ELSE SubSeq(Data, workers[i].taskOffset + 1, workers[i].taskOffset + workers[i].taskSize)

Unsent(i) == Len(Outgoing(i)) - workers[i].transferOffset

(* Mistake: a send that was cut short starts over again. *)
PushAgain(i, n) ==
    down' = [down EXCEPT ![workers[i].socketFd] = @ \o SubSeq(Outgoing(i), 1, n)]

Push(i, n) ==
    LET off == workers[i].transferOffset
    IN  down' = [down EXCEPT ![workers[i].socketFd] =
                     @ \o SubSeq(Outgoing(i), off + 1, off + n)]

AfterSending(phase) == IF phase = "SendTaskSize" THEN "SendTaskData" ELSE "ReadResultSize"

(* The phase ends: a peer that has closed meanwhile is noticed later. *)
SendCompletes(i) ==
    /\ Serving(i, Sending)
    /\ "OUT" \in revents[i]
    /\ Unsent(i) = 0 \/ ~broken[workers[i].socketFd]
    /\ Unsent(i) <= Room(down[workers[i].socketFd])
    /\ Push(i, Unsent(i))
    /\ workers' = [workers EXCEPT ![i].transferOffset = 0, ![i].state = AfterSending(@)]
    /\ Served(i)
    /\ UNCHANGED <<mpc, runs, workersCount, results, listenIn, doneWorkers,
                   status, deadlineExpired, elapsed, servedBy, slotsAtStart,
                   listening, acceptQueue, up, masterFin, workerFin, broken>>

SendStalls(i) ==
    /\ Serving(i, Sending)
    /\ "OUT" \in revents[i]
    /\ "RDHUP" \notin revents[i]
    /\ ~broken[workers[i].socketFd]
    /\ \E n \in 1 .. Least(Unsent(i) - 1, Room(down[workers[i].socketFd])) :
          /\ Push(i, n)
          /\ workers' = [workers EXCEPT ![i].transferOffset = @ + n]
    /\ Served(i)
    /\ UNCHANGED <<mpc, runs, workersCount, results, listenIn, doneWorkers,
                   status, deadlineExpired, elapsed, servedBy, slotsAtStart,
                   listening, acceptQueue, up, masterFin, workerFin, broken>>

(* send() fails, as it does on a reset connection; or the peer has closed  *)
(* and the phase is not over (what such a send wrote reaches nobody).      *)
SendFails(i) ==
    /\ Serving(i, Sending)
    /\ \/ /\ "OUT" \in revents[i] /\ Unsent(i) > 0
          /\ broken[workers[i].socketFd] \/ "sys" \in Faults
       \/ "RDHUP" \in revents[i] /\ ("OUT" \notin revents[i] \/ Unsent(i) > 1)
    /\ FailSlot(i)
    /\ UNCHANGED <<results, up>>
-----------------------------------------------------------------------------
(***************************************************************************)
(* Receiving: ReadPart takes what has arrived, up to the end of the header *)
(* or of the result.                                                       *)
(***************************************************************************)
Incoming(i) ==
    IF workers[i].state = "ReadResultSize" THEN workers[i].sizeBuffer ELSE results[i].data

Arrived(i) ==
    Least(Len(up[workers[i].socketFd]), Len(Incoming(i)) - workers[i].transferOffset)

(* Mistake: all bytes go to the start of the buffer. *)
FilledFromStart(i) ==
    [k \in 1 .. Len(Incoming(i)) |->
        IF k \in 1 .. Arrived(i) THEN up[workers[i].socketFd][k] ELSE Incoming(i)[k]]

Filled(i) ==
    LET off == workers[i].transferOffset
    IN  [k \in 1 .. Len(Incoming(i)) |->
            IF k \in off + 1 .. off + Arrived(i)
            THEN up[workers[i].socketFd][k - off] ELSE Incoming(i)[k]]

Completes(i) == workers[i].transferOffset + Arrived(i) = Len(Incoming(i))

Pull(i) == up' = [up EXCEPT ![workers[i].socketFd] = RestBytes(@, Arrived(i))]

Receiving(i, phase) == Serving(i, {phase}) /\ "IN" \in revents[i]

DecodedSize(i) == ClusterDecodeSize(Filled(i))

HeaderCounts(size) == doneWorkers + 1  \* mistake
AfterHeader(size) == IF size = 0 THEN "Done" ELSE "ReadResultData"
CountedAfterHeader(size) == IF size = 0 THEN doneWorkers + 1 ELSE doneWorkers

(* The header is complete: an empty packet ends the slot, another one gets *)
(* a buffer of its size.                                                   *)
ReadHeader(i) ==
    /\ Receiving(i, "ReadResultSize")
    /\ Completes(i)
    /\ DecodedSize(i) \in Sizes
    /\ Pull(i)
    /\ results' = [results EXCEPT ![i] =
                      [data |-> [k \in 1 .. DecodedSize(i) |-> Uninit], size |-> DecodedSize(i)]]
    /\ workers' = [workers EXCEPT
                      ![i].sizeBuffer = Filled(i), ![i].resultSize = DecodedSize(i),
                      ![i].transferOffset = 0,
                      ![i].state = AfterHeader(DecodedSize(i))]
    /\ doneWorkers' = CountedAfterHeader(DecodedSize(i))
    /\ Served(i)
    /\ UNCHANGED <<mpc, runs, workersCount, listenIn, status, deadlineExpired,
                   elapsed, servedBy, slotsAtStart, listening, acceptQueue,
                   down, masterFin, workerFin, broken>>

ReadData(i) ==
    /\ Receiving(i, "ReadResultData")
    /\ Completes(i)
    /\ Pull(i)
    /\ results' = [results EXCEPT ![i].data = Filled(i)]
    /\ workers' = [workers EXCEPT ![i].transferOffset = 0, ![i].state = "Done"]
    /\ doneWorkers' = doneWorkers + 1
    /\ Served(i)
    /\ UNCHANGED <<mpc, runs, workersCount, listenIn, status, deadlineExpired,
                   elapsed, servedBy, slotsAtStart, listening, acceptQueue,
                   down, masterFin, workerFin, broken>>

(* TransferPending: the bytes are kept and the slot waits for more. *)
ReadStalls(i) ==
    /\ \E phase \in Reading : Receiving(i, phase)
    /\ ~Completes(i)
    /\ ~workerFin[workers[i].socketFd]
    /\ ~broken[workers[i].socketFd]
    /\ "RDHUP" \notin revents[i]
    /\ Pull(i)
    /\ IF workers[i].state = "ReadResultSize"
       THEN /\ workers' = [workers EXCEPT ![i].sizeBuffer = Filled(i),
                                          ![i].transferOffset = @ + Arrived(i)]
            /\ UNCHANGED results
       ELSE /\ workers' = [workers EXCEPT ![i].transferOffset = @ + Arrived(i)]
            /\ results' = [results EXCEPT ![i].data = Filled(i)]
    /\ Served(i)
    /\ UNCHANGED <<mpc, runs, workersCount, listenIn, doneWorkers, status,
                   deadlineExpired, elapsed, servedBy, slotsAtStart, listening,
                   acceptQueue, down, masterFin, workerFin, broken>>

(* Mistake: a hang-up is a failure even if everything had arrived. *)
HangUpFails(i) ==
    /\ Serving(i, Reading)
    /\ \/ "IN" \notin revents[i] \/ broken[workers[i].socketFd]
       \/ workerFin[workers[i].socketFd] \/ "RDHUP" \in revents[i]
    /\ FailSlot(i)
    /\ UNCHANGED <<results, up>>

(* End of input or an error before the phase is over, or POLLRDHUP alone.  *)
(* Some bytes may have been taken before; after a reset the kernel may or  *)
(* may not hand out what had arrived.                                      *)
ReadFails(i) ==
    /\ Serving(i, Reading)
    /\ \/ "IN" \notin revents[i]
       \/ broken[workers[i].socketFd] \/ "sys" \in Faults
       \/ ~Completes(i) /\ (workerFin[workers[i].socketFd] \/ "RDHUP" \in revents[i])
    /\ Pull(i) \/ UNCHANGED up
    /\ FailSlot(i)
    /\ UNCHANGED results

(* The header announces more than a size_t, or malloc fails. *)
HeaderFails(i) ==
    /\ Receiving(i, "ReadResultSize")
    /\ Completes(i)
    /\ Pull(i)
    /\ \/ DecodedSize(i) \notin Sizes /\ UNCHANGED results
       \/ /\ DecodedSize(i) \in Sizes \ {0}
          /\ "alloc" \in Faults
          /\ results' = [results EXCEPT ![i] = [data |-> <<>>, size |-> DecodedSize(i)]]
    /\ FailSlot(i)

ServeSlot ==
    \E i \in Slots :
        \/ SlotHasError(i)
        \/ SendCompletes(i) \/ SendStalls(i) \/ SendFails(i)
        \/ ReadHeader(i) \/ HeaderFails(i) \/ ReadData(i) \/ ReadStalls(i) \/ ReadFails(i)
-----------------------------------------------------------------------------
(***************************************************************************)
(* The check at the end of a pass compares with max_time_ms even when no   *)
(* limit is set.                                                           *)
(***************************************************************************)
NeverTooLate == FALSE                 \* mistake
TooLateByTwo == elapsed > MaxTime + 1  \* mistake
PassTooLate == elapsed > MaxTime

PassEnds ==
    /\ mpc = "serve"
    /\ revents = NoEvents
    /\ IF PassTooLate THEN Stop(1) ELSE mpc' = "loop" /\ UNCHANGED status
    /\ UNCHANGED <<runs, workersCount, workers, results, revents, listenIn,
                   doneWorkers, deadlineExpired, elapsed, servedBy,
                   slotsAtStart, netVars>>

(***************************************************************************)
(* MasterRun after its loop.  The timer is stopped; a failed run closes    *)
(* the sockets of all accepted workers and frees every result.             *)
(***************************************************************************)
CloseAllWorkers ==
    workers' = [i \in Slots |->
                   IF i < workersCount
                   THEN [workers[i] EXCEPT !.socketFd = NoFd,
                                           !.state = IF @ = "Done" THEN "Done" ELSE "Failed"]
                   ELSE workers[i]]

FreeResults == results' = [i \in Slots |-> EmptyPacket]

MasterRunReturns ==
    /\ mpc = "finish"
    /\ mpc' = "returned"
    /\ deadlineExpired' = IF MaxTime > 0 THEN FALSE ELSE deadlineExpired
    /\ elapsed' = 0
    /\ revents' = NoEvents
    /\ IF status = 0
       THEN UNCHANGED <<workers, results, masterFin, broken>>
       ELSE CloseAllWorkers /\ FreeResults /\ MasterCloses(OpenFds)
    /\ UNCHANGED <<runs, workersCount, listenIn, doneWorkers, status, servedBy,
                   slotsAtStart, listening, acceptQueue, down, up, workerFin>>

(***************************************************************************)
(* MasterDestroy closes what is still open and the listening socket; the   *)
(* program calls it after MasterRun, or when it cannot allocate the        *)
(* arguments of MasterRun.  The freed worker table keeps its last contents *)
(* here, its descriptors apart.                                            *)
(***************************************************************************)
MasterDestroy ==
    /\ mpc = "returned" \/ (mpc = "ready" /\ "alloc" \in Faults)
    /\ mpc' = "destroyed"
    /\ workers' = [i \in Slots |-> [workers[i] EXCEPT !.socketFd = NoFd]]
    /\ MasterClosesAll(OpenFds)
    /\ UNCHANGED <<runs, workersCount, results, revents, listenIn, doneWorkers,
                   status, deadlineExpired, elapsed, servedBy, slotsAtStart,
                   down, up, workerFin>>

(* The process dies before MasterRun returns: the kernel closes its sockets *)
(* (later on that is what MasterDestroy does to them, too).                 *)
MasterCrash ==
    /\ "masterCrash" \in Faults
    /\ mpc \in InLoop \cup {"ready", "finish"}
    /\ mpc' = "crashed"
    /\ MasterClosesAll(OpenFds)
    /\ UNCHANGED <<runs, workersCount, workers, results, revents, listenIn,
                   doneWorkers, status, deadlineExpired, elapsed, servedBy,
                   slotsAtStart, down, up, workerFin>>

(***************************************************************************)
(* Time: the clock, and the SIGALRM that DeadlineTimerStart asked for.     *)
(***************************************************************************)
Tick ==
    /\ mpc \in InLoop
    /\ elapsed < MaxClock
    /\ elapsed' = elapsed + 1
    /\ UNCHANGED <<mpc, runs, workersCount, workers, results, revents, listenIn,
                   doneWorkers, status, deadlineExpired, servedBy, slotsAtStart,
                   netVars>>

Alarm ==
    /\ mpc \in InLoop
    /\ OutOfTime
    /\ ~deadlineExpired
    /\ deadlineExpired' = TRUE
    /\ UNCHANGED <<mpc, runs, workersCount, workers, results, revents, listenIn,
                   doneWorkers, status, elapsed, servedBy, slotsAtStart, netVars>>

MasterStep ==
    \/ MasterInit \/ MasterRunBegins \/ LoopHead
    \/ PollReady \/ PollReturnsNothing
    \/ AcceptWorker \/ AcceptNothing
    \/ ServeSlot \/ PassEnds
    \/ MasterRunReturns \/ MasterDestroy

MasterFault == MasterInitFails \/ AcceptFails \/ MasterCrash

MasterNext == MasterStep \/ MasterFault \/ Tick \/ Alarm
=============================================================================
