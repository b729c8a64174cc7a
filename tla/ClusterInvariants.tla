------------------------- MODULE ClusterInvariants -------------------------
(***************************************************************************)
(* The inductive invariant of Cluster: what, besides its type, the state   *)
(* of the master and the workers must satisfy for every step to keep it.   *)
(***************************************************************************)
EXTENDS Cluster

Transfers == Sending \cup Reading
Running == InLoop \cup {"finish"}

(* Slots are used in index order; the unused ones are empty. *)
SlotsInOrder ==
    /\ slotsAtStart <= workersCount
    /\ \A i \in Slots :
          i >= workersCount => workers[i] = MasterWorkerPrepareEmpty /\ servedBy[i] = NoFd

(* An accepted slot keeps the share that MasterAcceptWorker cut for it. *)
SlotHoldsItsShare ==
    \A i \in Slots :
        i < workersCount => /\ workers[i].taskOffset = TaskBegin(i)
                            /\ workers[i].taskSize = TaskLength(i)

(* What has been read fits into what is being filled. *)
OffsetsInBounds ==
    \A i \in Slots :
        workers[i].state \in Reading => workers[i].transferOffset <= Len(Incoming(i))

(* During a run its slots hold the sockets of their workers. *)
OpenWhileRunning ==
    mpc \in Running =>
        \A i \in Slots :
            i >= slotsAtStart /\ i < workersCount =>
                workers[i].socketFd = servedBy[i] /\ servedBy[i] \in Procs

(* Nothing is transferred in slots of an earlier run, or between runs. *)
OthersAreIdle ==
    \A i \in Slots :
        (mpc \in {"down", "ready", "returned"} \/ i < slotsAtStart) =>
            workers[i].state \notin Transfers

(* Events wait only for slots whose transfer is under way. *)
EventsAreWatched ==
    mpc \in {"accept", "serve"} => \A i \in Slots : revents[i] # {} => Watched(i)

(* The listening socket is only reported while a slot is free. *)
RoomToAccept == mpc = "accept" /\ listenIn => FreeSlot

(* The loop goes on only while nothing has failed, and ends with success   *)
(* only when enough slots are done.                                        *)
StatusFits ==
    /\ mpc \in InLoop => status = 0
    /\ mpc = "finish" /\ status = 0 => AllDone

(* What a return value of 0 rests on. *)
SuccessMeansAllDone ==
    Succeeded => slotsAtStart = 0 /\ \A i \in Slots : workers[i].state = "Done"

MasterInv ==
    /\ SlotsInOrder /\ SlotHoldsItsShare /\ OffsetsInBounds /\ OpenWhileRunning
    /\ OthersAreIdle /\ EventsAreWatched /\ RoomToAccept /\ StatusFits
    /\ DoneIsCounted /\ SuccessMeansAllDone /\ FailureReleasesAll

(* The part of a packet that is being received never outgrows that part. *)
WorkerInv ==
    \A p \in Procs : /\ wpc[p] = "connect" => buffer[p] = <<>>
                     /\ wpc[p] \in ReadingTask => Len(buffer[p]) <= PartSize(p)

(***************************************************************************)
(* The conjunction that every step preserves: slots, sockets, offsets,     *)
(* counters and outcomes of the master fit together in every state, also   *)
(* across calls of MasterRun on one Master.                                *)
(***************************************************************************)
IInv == TypeOK /\ MasterInv /\ WorkerInv
-----------------------------------------------------------------------------
(***************************************************************************)
(* The invariant of the two byte streams between a slot and its worker.  A *)
(* packet travels as its header followed by its data; whatever has been    *)
(* pushed, is in flight, or has been taken is one stretch of these bytes.  *)
(***************************************************************************)
WireSize(packet) == HeaderSize + Len(packet)

OnWire(packet, k) ==
    IF k <= HeaderSize THEN ClusterEncodeSize(Len(packet))[k] ELSE packet[k - HeaderSize]

(* These bytes of the packet follow its first `at' bytes. *)
Carries(bytes, packet, at) ==
    /\ at + Len(bytes) <= WireSize(packet)
    /\ \A k \in 1 .. Len(bytes) : bytes[k] = OnWire(packet, at + k)

(* Bytes of the task that the master has sent, and the worker has read. *)
Pushed(i) ==
    workers[i].transferOffset + (IF workers[i].state = "SendTaskSize" THEN 0 ELSE HeaderSize)

Taken(p) ==
    IF wpc[p] = "readSize" THEN Len(buffer[p])
    ELSE HeaderSize + (IF wpc[p] = "readData" THEN Len(buffer[p]) ELSE Len(task[p]))

(* Bytes of the result that the worker has sent, and the master has read. *)
Written(p) ==
    IF wpc[p] \in {"sent", "done"} THEN WireSize(result[p])
    ELSE sent[p] + (IF wpc[p] = "writeData" THEN HeaderSize ELSE 0)

Got(i) ==
    IF workers[i].state = "ReadResultSize" THEN workers[i].transferOffset
    ELSE IF workers[i].state = "ReadResultData" THEN HeaderSize + workers[i].transferOffset
    ELSE IF workers[i].state = "Done" THEN HeaderSize + workers[i].resultSize ELSE 0

Emitted(i, p) == Got(i) + Len(up[p])

HasResult == {"check", "sent", "done"} \cup WritingResult
AtWork    == ReadingTask \cup HasTask

(* The task on its way to the worker. *)
Downlink(i, p) ==
    /\ workers[i].state = "SendTaskSize" =>
          /\ workers[i].sizeBuffer = ClusterEncodeSize(TaskLength(i))
          /\ workers[i].transferOffset <= HeaderSize
    /\ workers[i].state = "SendTaskData" => workers[i].transferOffset <= TaskLength(i)
    /\ wpc[p] \in AtWork =>
          /\ Carries(down[p], Share(i), Taken(p))
          /\ workers[i].state \in Sending => Taken(p) + Len(down[p]) = Pushed(i)

(* What the worker has of its task. *)
TaskRead(i, p) ==
    /\ wpc[p] = "readSize" => Carries(buffer[p], Share(i), 0)
    /\ wpc[p] = "readData" => want[p] = TaskLength(i) /\ Carries(buffer[p], Share(i), HeaderSize)
    /\ wpc[p] \in HasTask => task[p] = Share(i)

(* The result on its way to the master: it is the answer to this share,    *)
(* and a worker that gave up has not sent all of it.                       *)
Uplink(i, p) ==
    workers[i].state \in Transfers \cup {"Done"} =>
        /\ Carries(up[p], result[p], Got(i))
        /\ Emitted(i, p) > 0 => task[p] = Share(i) /\ result[p] \in MethodResults(Share(i))
        /\ wpc[p] \in AtWork => Emitted(i, p) = Written(p)
        /\ wpc[p] = "failed" => Emitted(i, p) < WireSize(result[p])

(* What the master has of it. *)
ResultRead(i, p) ==
    /\ workers[i].state = "ReadResultSize" =>
          \A k \in 1 .. workers[i].transferOffset :
              workers[i].sizeBuffer[k] = OnWire(result[p], k)
    /\ workers[i].state \in {"ReadResultData", "Done"} =>
          /\ workers[i].resultSize = Len(result[p])
          /\ status = 0 /\ i >= slotsAtStart =>
                /\ results[i].size = Len(result[p])
                /\ Len(results[i].data) = Len(result[p])
                /\ \A k \in 1 .. Len(result[p]) :
                      workers[i].state = "Done" \/ k <= workers[i].transferOffset =>
                          results[i].data[k] = result[p][k]

Link(i, p) == Downlink(i, p) /\ TaskRead(i, p) /\ Uplink(i, p) /\ ResultRead(i, p)

LinksFit == \A i \in Slots : servedBy[i] \in Procs => Link(i, servedBy[i])

(* Every worker is in one place: not yet connected, queued, or in a slot.  *)
Unserved(p) == \A i \in Slots : servedBy[i] # p

ConnectionsFit ==
    /\ \A i, j \in Slots : servedBy[i] = servedBy[j] /\ servedBy[i] \in Procs => i = j
    /\ \A i \in Slots : i < workersCount => servedBy[i] \in Procs
    /\ \A k, l \in 1 .. Len(acceptQueue) : acceptQueue[k] = acceptQueue[l] => k = l
    /\ \A k \in 1 .. Len(acceptQueue) :
          wpc[acceptQueue[k]] # "connect" /\ \A i \in Slots : servedBy[i] # acceptQueue[k]
    /\ \A p \in Procs : wpc[p] = "connect" => Unserved(p)

(* What a worker has before it is served and before it has a task.         *)
WorkerFits(p) ==
    /\ Unserved(p) => /\ down[p] = <<>> /\ up[p] = <<>> /\ buffer[p] = <<>>
                      /\ wpc[p] \in {"connect", "readSize", "failed", "crashed"}
    /\ wpc[p] \in {"connect"} \cup ReadingTask => task[p] = <<>>
    /\ wpc[p] \in {"connect", "run", "check"} \cup ReadingTask => sent[p] = 0
    /\ wpc[p] \in WritingResult => sent[p] < Len(Reply(p))
    /\ wpc[p] \in HasResult => result[p] \in MethodResults(task[p])

StreamInv == ConnectionsFit /\ LinksFit /\ \A p \in Procs : WorkerFits(p)
-----------------------------------------------------------------------------
(* In every run, the first or a later one, a slot that became Done holds   *)
(* the answer of its worker.                                               *)
DoneHoldsAnswer ==
    \A i \in Slots :
        workers[i].state = "Done" /\ status = 0 /\ i >= slotsAtStart =>
            /\ results[i].data = result[servedBy[i]]
            /\ results[i].data \in MethodResults(Share(i))
            /\ results[i].size = Len(results[i].data)

(* Calls of MasterRun are counted, and nobody is accepted before the first. *)
RunsCounted ==
    /\ mpc \in {"down", "ready"} => runs = 0 /\ workersCount = 0
    /\ mpc \in Running \cup {"returned"} => runs > 0

(* A run that can no longer succeed: it is late with results outstanding   *)
(* when it waits, or late when it serves, or it has been stopped.          *)
Doomed ==
    \/ mpc \in InLoop /\ elapsed > MaxTime /\ (mpc # "serve" => doneWorkers < Capacity)
    \/ mpc \in {"finish", "returned"} /\ status = 1
    \/ mpc \in {"destroyed", "crashed"}
(***************************************************************************)
(* A cluster in which nothing should go wrong: no fault, and not more      *)
(* workers than slots.  Its job is in time as long as the limit, if there  *)
(* is one, has not come and the check at the end of a pass finds no delay. *)
(***************************************************************************)
Healthy == Faults = {} /\ IsFiniteSet(Procs) /\ Cardinality(Procs) <= Capacity
InTime  == ~OutOfTime /\ ~PassTooLate

(* Events that fail no slot: a hang-up is that of a worker that is done,   *)
(* and it never comes alone.                                               *)
CalmEvents(i) ==
    /\ "ERR" \notin revents[i]
    /\ "RDHUP" \in revents[i] => workerFin[servedBy[i]]
    /\ revents[i] # {} => \/ workers[i].state \in Sending /\ "OUT" \in revents[i]
                          \/ workers[i].state \in Reading /\ "IN" \in revents[i]

(* In a healthy cluster workers close only when they are done, and the     *)
(* master only when all of them have sent their results.                   *)
CalmInv ==
    /\ status = 0 /\ ~deadlineExpired /\ mpc # "crashed"
    /\ \A p \in Procs :
          /\ wpc[p] \notin {"failed", "crashed"}
          /\ workerFin[p] => wpc[p] = "done"
          /\ IF mpc = "destroyed" THEN wpc[p] \in {"sent", "done"}
                                  ELSE ~broken[p] /\ ~masterFin[p]
    /\ mpc \in {"accept", "serve"} => \A i \in Slots : CalmEvents(i)

=============================================================================
