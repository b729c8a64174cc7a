----------------------------- MODULE WorkerCall -----------------------------
(***************************************************************************)
(* What WorkerRun promises its caller: it returns once, either 0 with the  *)
(* packets of all threads in worker->result, thread by thread, or 1 with   *)
(* worker->result as it was.                                               *)
(***************************************************************************)
CONSTANTS Index,      \* the thread indices
          Good(_),    \* the packets a thread may answer with
          Before      \* worker->result before the call

VARIABLES outcome, packet

CallInit == outcome = "running" /\ packet = Before

Succeeds ==
    /\ outcome = "running"
    /\ outcome' = "succeeded"
    /\ packet' \in [Index -> UNION {Good(t) : t \in Index}]
    /\ \A t \in Index : packet'[t] \in Good(t)

Fails ==
    /\ outcome = "running"
    /\ outcome' = "failed"
    /\ UNCHANGED packet

CallSpec == CallInit /\ [][Succeeds \/ Fails]_<<outcome, packet>>
=============================================================================
