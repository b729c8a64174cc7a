-------------------------- MODULE MCWorkerThreads --------------------------
(***************************************************************************)
(* Small instances of WorkerThreads.                                       *)
(***************************************************************************)
EXTENDS WorkerThreads

CONSTANT a

OnePacket == {a}

(* Three threads on two cores of four. *)
TwoCores == {[cores |-> 2, firstCore |-> 1]}

(* Ranges inside the set, one core too far, and sums beyond IntMax (5):    *)
(* of those, <<5, 2>> has harts inside the set for its first two threads,  *)
(* and <<2, 4>> has no valid hart.                                         *)
AnyCores == {[cores |-> 2, firstCore |-> 1], [cores |-> 2, firstCore |-> 3],
             [cores |-> 5, firstCore |-> 2], [cores |-> 2, firstCore |-> 4]}

NoFaults     == {}
AllFaults    == FaultKinds
=============================================================================
