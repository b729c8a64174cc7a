----------------------------- MODULE MCCluster -----------------------------
(***************************************************************************)
(* Small instances of Cluster.  The shares of the slots differ in length   *)
(* and content, so a byte or a result in the wrong place is seen.          *)
(***************************************************************************)
EXTENDS ClusterInvariants, TLC

CONSTANTS p1, p2

TwoProcs == {p1, p2}

(* Fault sets. *)
NoFaults   == {}
AllFaults  == FaultKinds
Timeouts   == {"connectTimeout", "recvTimeout", "sendTimeout"}
Departures == {"crash", "connectTimeout", "signal"}
Killed     == {"crash"}

(* Two slots cut <<3, 1, 2>> into one byte and two; one slot takes all. *)
ThreeBytes == <<3, 1, 2>>
TwoBytes   == <<3, 1>>

(* A worker answers with a changed copy of its task, or with the empty     *)
(* packet that WorkerInit left in result (a program may send it without    *)
(* calling WorkerRun; MasterRun has a branch of its own for it).           *)
Answer(share) == {<<>>, [k \in DOMAIN share |-> (share[k] + 1) % ByteBase]}

(* A method that always answers with its whole task, changed. *)
FullAnswer(share) == {[k \in DOMAIN share |-> (share[k] + 1) % ByteBase]}

Symmetry == Permutations(Procs)
=============================================================================
