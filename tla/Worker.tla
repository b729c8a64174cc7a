------------------------------- MODULE Worker -------------------------------
(***************************************************************************)
(* A worker process, src/worker.c as examples/integral_worker.c drives it: *)
(* WorkerInit (connect and read the task packet), WorkerRun, then          *)
(* WorkerSendResult and WorkerDestroy.  Its socket blocks, with the        *)
(* timeouts of ConfigureSocketTimeouts.  The threads of WorkerRun are one  *)
(* step here: it turns a task into a result or fails.                      *)
(***************************************************************************)
EXTENDS ClusterNet

CONSTANTS Backlog,           \* argument of listen(): required_workers
          MethodResults(_)   \* the packets WorkerRun may produce for a task

(* A method answers every task with packets. *)
ASSUME MethodAssumption == \A t \in Packets : MethodResults(t) \subseteq Packets

VARIABLES wpc,     \* where each worker is
          buffer,  \* what the ReadPacket under way has received of a packet part
          want,    \* packet->size, once its header is decoded
          task,    \* worker->task.data
          result,  \* worker->result.data
          sent     \* offset of the WriteAll under way

workerVars == <<wpc, buffer, want, task, result, sent>>

ReadingTask   == {"readSize", "readData"}
WritingResult == {"writeSize", "writeData"}
Ended == {"done", "failed", "crashed"}
WorkerPcs == {"connect", "run", "check", "sent"} \cup ReadingTask \cup WritingResult \cup Ended

WorkerTypeOK ==
    /\ wpc \in [Procs -> WorkerPcs]
    /\ buffer \in [Procs -> Seq(Byte)]
    /\ want \in [Procs -> Sizes]
    /\ task \in [Procs -> Packets]
    /\ result \in [Procs -> Packets]
    /\ sent \in [Procs -> Nat]

WorkerStateInit ==
    /\ wpc = [p \in Procs |-> "connect"]
    /\ buffer = [p \in Procs |-> <<>>]
    /\ want = [p \in Procs |-> 0]
    /\ task = [p \in Procs |-> <<>>]
    /\ result = [p \in Procs |-> <<>>]
    /\ sent = [p \in Procs |-> 0]

Goto(p, place) == wpc' = [wpc EXCEPT ![p] = place]

(* A call fails: main runs WorkerDestroy and exits with status 1. *)
GiveUp(p) ==
    /\ Goto(p, "failed")
    /\ WorkerCloses(p, down[p])
    /\ UNCHANGED <<buffer, want, task, result, sent, listening, acceptQueue,
                   down, up, masterFin>>
-----------------------------------------------------------------------------
(***************************************************************************)
(* ConnectToMaster retries while the connection is refused.  The kernel    *)
(* completes a connection as soon as there is room in the accept queue,    *)
(* which holds one connection more than the backlog.                       *)
(***************************************************************************)
CanConnect == listening /\ Len(acceptQueue) <= Backlog

Connect(p) ==
    /\ wpc[p] = "connect"
    /\ CanConnect
    /\ acceptQueue' = Append(acceptQueue, p)
    /\ Goto(p, "readSize")
    /\ UNCHANGED <<buffer, want, task, result, sent, listening, down, up,
                   masterFin, workerFin, broken>>

(* Refused until max_time is over, or a call fails for another reason. *)
ConnectGivesUp(p) ==
    /\ wpc[p] = "connect"
    /\ ("connectTimeout" \in Faults /\ ~CanConnect) \/ "sys" \in Faults
    /\ Goto(p, "failed")
    /\ UNCHANGED <<buffer, want, task, result, sent, netVars>>

(***************************************************************************)
(* ReadPacket: ReadAll the header, then ReadAll as many bytes as it says.  *)
(* One step is one recv().                                                 *)
(***************************************************************************)
PartSize(p) == IF wpc[p] = "readSize" THEN HeaderSize ELSE want[p]
Received(p) == Least(Len(down[p]), PartSize(p) - Len(buffer[p]))
Gathered(p) == buffer[p] \o FirstBytes(down[p], Received(p))
PartComplete(p) == Len(Gathered(p)) = PartSize(p)

Recv(p) ==
    /\ wpc[p] \in ReadingTask
    /\ down[p] # <<>>
    /\ down' = [down EXCEPT ![p] = RestBytes(@, Received(p))]

RecvPart(p) ==
    /\ Recv(p)
    /\ ~PartComplete(p)
    /\ buffer' = [buffer EXCEPT ![p] = Gathered(p)]
    /\ UNCHANGED <<wpc, want, task, result, sent, listening, acceptQueue, up,
                   masterFin, workerFin, broken>>

(* A packet of size zero has no data part. *)
RecvHeader(p) ==
    /\ Recv(p)
    /\ wpc[p] = "readSize"
    /\ PartComplete(p)
    /\ LET size == ClusterDecodeSize(Gathered(p))
       IN  /\ size \in Sizes
           /\ want' = [want EXCEPT ![p] = size]
           /\ Goto(p, IF size = 0 THEN "run" ELSE "readData")
    /\ buffer' = [buffer EXCEPT ![p] = <<>>]
    /\ UNCHANGED <<task, result, sent, listening, acceptQueue, up, masterFin,
                   workerFin, broken>>

RecvTask(p) ==
    /\ Recv(p)
    /\ wpc[p] = "readData"
    /\ PartComplete(p)
    /\ task' = [task EXCEPT ![p] = Gathered(p)]
    /\ buffer' = [buffer EXCEPT ![p] = <<>>]
    /\ Goto(p, "run")
    /\ UNCHANGED <<want, result, sent, listening, acceptQueue, up, masterFin,
                   workerFin, broken>>

(* End of input, SO_RCVTIMEO or a reset in recv(), or a failing call here   *)
(* or in the set-up of the socket before.                                  *)
RecvFails(p) ==
    /\ wpc[p] \in ReadingTask
    /\ \/ broken[p] \/ "sys" \in Faults
       \/ down[p] = <<>> /\ (masterFin[p] \/ "recvTimeout" \in Faults)
    /\ GiveUp(p)

(* The header is complete, but the size exceeds size_t or malloc fails. *)
TaskRefused(p) ==
    /\ Recv(p)
    /\ wpc[p] = "readSize"
    /\ PartComplete(p)
    /\ LET size == ClusterDecodeSize(Gathered(p))
       IN  size \notin Sizes \/ (size # 0 /\ "alloc" \in Faults)
    /\ Goto(p, "failed")
    /\ WorkerCloses(p, RestBytes(down[p], Received(p)))
    /\ UNCHANGED <<buffer, want, task, result, sent, listening, acceptQueue, up,
                   masterFin>>
-----------------------------------------------------------------------------
(***************************************************************************)
(* WorkerRun, in one step.  WorkerCheckMasterAlive, which it calls while   *)
(* threads run, fails it when the master has closed or the connection is   *)
(* reset; whether it looks in time is open.                                *)
(***************************************************************************)
MasterAlive(p) == ~masterFin[p] /\ ~broken[p]

WorkerRun(p) ==
    /\ wpc[p] = "run"
    /\ \E packet \in MethodResults(task[p]) : result' = [result EXCEPT ![p] = packet]
    /\ Goto(p, "check")
    /\ UNCHANGED <<buffer, want, task, sent, netVars>>

WorkerRunFails(p) ==
    /\ wpc[p] = "run"
    /\ "run" \in Faults \/ ~MasterAlive(p)
    /\ GiveUp(p)

(***************************************************************************)
(* WorkerSendResult: one look at the master, then WritePacket.  One step   *)
(* is one send(); it blocks while the socket is full.                      *)
(***************************************************************************)
CheckMaster(p) ==
    /\ wpc[p] = "check"
    /\ MasterAlive(p)
    /\ Goto(p, "writeSize")
    /\ UNCHANGED <<buffer, want, task, result, sent, netVars>>

MasterUnavailable(p) ==
    /\ wpc[p] = "check"
    /\ ~MasterAlive(p) \/ "sys" \in Faults
    /\ GiveUp(p)

Reply(p) == IF wpc[p] = "writeSize" THEN ClusterEncodeSize(Len(result[p])) ELSE result[p]
Unwritten(p) == Len(Reply(p)) - sent[p]

AfterWriting(p) ==
    IF wpc[p] = "writeSize" /\ Len(result[p]) > 0 THEN "writeData" ELSE "sent"

Send(p) ==
    /\ wpc[p] \in WritingResult
    /\ ~broken[p]
    /\ \E n \in 1 .. Least(Unwritten(p), Room(up[p])) :
          /\ up' = [up EXCEPT ![p] = @ \o SubSeq(Reply(p), sent[p] + 1, sent[p] + n)]
          /\ IF n = Unwritten(p)
             THEN Goto(p, AfterWriting(p)) /\ sent' = [sent EXCEPT ![p] = 0]
             ELSE sent' = [sent EXCEPT ![p] = @ + n] /\ UNCHANGED wpc
    /\ UNCHANGED <<buffer, want, task, result, listening, acceptQueue, down,
                   masterFin, workerFin, broken>>

(* A reset, SO_SNDTIMEO or another error in send(). *)
SendFailsAtWorker(p) ==
    /\ wpc[p] \in WritingResult
    /\ \/ broken[p] \/ "sys" \in Faults
       \/ "sendTimeout" \in Faults /\ Room(up[p]) <= 0
    /\ GiveUp(p)

(* Every call succeeded: WorkerDestroy closes the socket, exit status 0. *)
WorkerDestroy(p) ==
    /\ wpc[p] = "sent"
    /\ Goto(p, "done")
    /\ WorkerCloses(p, down[p])
    /\ UNCHANGED <<buffer, want, task, result, sent, listening, acceptQueue,
                   down, up, masterFin>>

(* The process dies; the kernel closes its socket if it has one. *)
WorkerCrash(p) ==
    /\ "crash" \in Faults
    /\ wpc[p] \notin Ended
    /\ Goto(p, "crashed")
    /\ IF wpc[p] = "connect" THEN UNCHANGED <<workerFin, broken>> ELSE WorkerCloses(p, down[p])
    /\ UNCHANGED <<buffer, want, task, result, sent, listening, acceptQueue,
                   down, up, masterFin>>

WorkerStep(p) ==
    \/ Connect(p) \/ ConnectGivesUp(p)
    \/ RecvPart(p) \/ RecvHeader(p) \/ RecvTask(p) \/ RecvFails(p) \/ TaskRefused(p)
    \/ WorkerRun(p) \/ WorkerRunFails(p)
    \/ CheckMaster(p) \/ MasterUnavailable(p)
    \/ Send(p) \/ SendFailsAtWorker(p) \/ WorkerDestroy(p)
=============================================================================
