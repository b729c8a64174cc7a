-------------------------- MODULE MCWorkerConnect --------------------------
(***************************************************************************)
(* Limits below, around and above a second (4 ms here) and a sleep between *)
(* attempts (3 ms); the last leaves a rest to sleep that is shorter.       *)
(***************************************************************************)
EXTENDS WorkerConnect

SomeTimes == {2, 4, 11}
AllFaults == {"sys"}
=============================================================================
