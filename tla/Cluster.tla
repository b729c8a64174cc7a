------------------------------ MODULE Cluster ------------------------------
(***************************************************************************)
(* The whole system: one master process and the worker processes of Procs, *)
(* interleaved, over the connections of ClusterNet.                        *)
(***************************************************************************)
EXTENDS Master, Worker, SequencesExt

vars == <<masterVars, workerVars, netVars>>

Init == NetInit /\ MasterStateInit /\ WorkerStateInit

(* Keep-alive probes or TCP_USER_TIMEOUT declare a connection dead. *)
LinkReset(p) ==
    /\ "linkReset" \in Faults
    /\ wpc[p] # "connect"
    /\ ~broken[p]
    /\ ~(masterFin[p] /\ workerFin[p])
    /\ broken' = [broken EXCEPT ![p] = TRUE]
    /\ UNCHANGED <<listening, acceptQueue, down, up, masterFin, workerFin>>

Net == \E p \in Procs : PeerReset(p) \/ LinkReset(p)

MasterEnded == mpc \in {"destroyed", "crashed"}
AllEnded == MasterEnded /\ \A p \in Procs : wpc[p] \in Ended

(* Everybody has ended: the only state in which nothing may happen. *)
Terminated == AllEnded /\ UNCHANGED vars

Next ==
    \/ MasterNext /\ UNCHANGED workerVars
    \/ \E p \in Procs : (WorkerStep(p) \/ WorkerCrash(p)) /\ UNCHANGED masterVars
    \/ Net /\ UNCHANGED <<masterVars, workerVars>>
    \/ Terminated

(***************************************************************************)
(* Processes are scheduled, time passes, socket timeouts expire and a      *)
(* closed end answers what it gets; no fault is obliged to happen.         *)
(***************************************************************************)
Fairness ==
    /\ WF_vars(MasterStep /\ UNCHANGED workerVars)
    /\ WF_vars(Tick /\ UNCHANGED workerVars)
    /\ \A p \in Procs : /\ WF_vars(WorkerStep(p) /\ UNCHANGED masterVars)
                         /\ WF_vars(PeerReset(p) /\ UNCHANGED <<masterVars, workerVars>>)

Spec     == Init /\ [][Next]_vars
FairSpec == Spec /\ Fairness
-----------------------------------------------------------------------------
(* A type invariant: every variable keeps its kind of value. *)
TypeOK == NetTypeOK /\ MasterTypeOK /\ WorkerTypeOK

Share(i) == SubSeq(Data, TaskBegin(i) + 1, TaskBegin(i + 1))
HasTask == {"run", "check", "sent", "done"} \cup WritingResult
Serves(p, i) == servedBy[i] = p
Succeeded == mpc = "returned" /\ status = 0
FailedRun == mpc = "returned" /\ status = 1

(***************************************************************************)
(* The task a worker computes on is byte for byte the share of the slot it *)
(* was accepted into: header and data of the packet stay in step however   *)
(* the transfer is cut up (WritePart, transferOffset, ReadPacket).         *)
(***************************************************************************)
TaskIsItsShare ==
    \A p \in Procs : wpc[p] \in HasTask => \E i \in Slots : Serves(p, i) /\ task[p] = Share(i)

(***************************************************************************)
(* A slot that is Done, in a run that has not failed, holds exactly the    *)
(* packet that its worker computed from its share: no byte is missing,     *)
(* displaced or left uninitialized, whichever slots were served between.   *)
(***************************************************************************)
ResultIsComputed ==
    \A i \in Slots :
        workers[i].state = "Done" /\ status = 0 /\ slotsAtStart = 0 =>
            /\ results[i].data = result[servedBy[i]]
            /\ results[i].data \in MethodResults(Share(i))
            /\ results[i].size = Len(results[i].data)

(***************************************************************************)
(* MasterRun returns 0 only when every slot is Done, distinct workers      *)
(* served them, and the tasks they computed on, put together in slot       *)
(* order, are the caller's data: nothing is left out or computed twice.    *)
(***************************************************************************)
SuccessCoversData ==
    Succeeded =>
        /\ \A i \in Slots : workers[i].state = "Done"
        /\ \A i, j \in Slots : i # j => servedBy[i] # servedBy[j]
        /\ FlattenSeq([k \in 1 .. Capacity |-> task[servedBy[k - 1]]]) = Data

(***************************************************************************)
(* When MasterRun returns 0, every worker it used has got rid of its whole *)
(* result: WorkerSendResult of none of them can fail any more, so master   *)
(* and workers agree on the outcome unless a worker is killed on its way   *)
(* out.                                                                    *)
(***************************************************************************)
SuccessIsAgreed ==
    Succeeded => \A i \in Slots :
                     /\ servedBy[i] \in Procs
                     /\ wpc[servedBy[i]] \in {"sent", "done", "crashed"}

(***************************************************************************)
(* When MasterRun returns 1 the caller holds no result packet, and every   *)
(* worker that was accepted has been hung up on, so that it stops waiting. *)
(***************************************************************************)
FailureReleasesAll ==
    FailedRun =>
        /\ results = NoResults
        /\ \A i \in Slots :
              i >= slotsAtStart /\ servedBy[i] # NoFd => masterFin[servedBy[i]]

(***************************************************************************)
(* doneWorkers, the loop's exit condition, counts the slots that became    *)
(* Done in this run: none is counted twice, and none from an earlier run.  *)
(***************************************************************************)
DoneIsCounted ==
    mpc \in InLoop \cup {"finish"} =>
        doneWorkers = Cardinality({i \in Slots : i >= slotsAtStart /\ workers[i].state = "Done"})

(***************************************************************************)
(* A run that is past its limit with results outstanding never succeeds,   *)
(* though results that arrive in time for the last poll() are still read.  *)
(***************************************************************************)
Late == mpc \in InLoop /\ elapsed > MaxTime /\ doneWorkers < Capacity
LateRunFails(run) == [](Late /\ runs = run => [](~(Succeeded /\ runs = run)))
LateRunNeverSucceeds == \A run \in 1 .. MaxRuns : LateRunFails(run)

(***************************************************************************)
(* With one live worker per slot and no fault, nobody fails: neither the   *)
(* hang-up of a worker that has sent its result and left, nor a transfer   *)
(* cut in pieces, is taken for a failure.                                  *)
(***************************************************************************)
NobodyFails == status = 0 /\ \A p \in Procs : wpc[p] # "failed"

(* ... and the job is done: the master returns 0 and all processes end.    *)
JobSucceeds == <>(Succeeded) /\ <>(AllEnded)

(***************************************************************************)
(* Whatever fails, everybody ends: the deadline frees the master, and      *)
(* hang-ups and socket timeouts free the workers.                          *)
(***************************************************************************)
EverybodyEnds == <>AllEnded

(***************************************************************************)
(* MasterRun is good for one job: the slots of an earlier run are neither  *)
(* served nor counted again, so a later run on the same Master, with       *)
(* slots in use, never returns 0.                                          *)
(***************************************************************************)
UsedMasterNeverSucceeds == slotsAtStart > 0 => ~Succeeded

(***************************************************************************)
(* The refinement: a run of the cluster is a run of ClusterJob.            *)
(***************************************************************************)
Outcome ==
    IF mpc \in {"returned", "destroyed"} /\ runs > 0
    THEN IF status = 0 THEN "success" ELSE "failure" ELSE "open"

Collected ==
    [i \in Slots |->
        IF i >= slotsAtStart /\ workers[i].state = "Done" /\ Outcome # "failure"
        THEN {results[i].data} ELSE {}]

ShareResults(i) == MethodResults(Share(i))

Job == INSTANCE ClusterJob WITH Tasks <- Slots, Results <- ShareResults,
                                outcome <- Outcome, collected <- Collected

JobSpec == Job!Spec
=============================================================================
