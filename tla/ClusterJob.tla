----------------------------- MODULE ClusterJob -----------------------------
(***************************************************************************)
(* What a call of MasterRun promises its caller: the data is cut into one  *)
(* task per slot, each slot is given at most once a packet that the method *)
(* may produce for that task, the call succeeds only with all of them, and *)
(* when it fails it leaves none behind.  A further call starts afresh.     *)
(***************************************************************************)
CONSTANTS Tasks,      \* the slots
          Results(_)  \* the packets the method may produce for a slot's task

VARIABLES outcome,    \* "open", then "success" or "failure"
          collected   \* per slot, the set of packets it has been given

jobVars == <<outcome, collected>>

Init ==
    /\ outcome = "open"
    /\ collected = [i \in Tasks |-> {}]

Collect(i) ==
    /\ outcome = "open"
    /\ collected[i] = {}
    /\ \E packet \in Results(i) : collected' = [collected EXCEPT ![i] = {packet}]
    /\ UNCHANGED outcome

Succeed ==
    /\ outcome = "open"
    /\ \A i \in Tasks : collected[i] # {}
    /\ outcome' = "success"
    /\ UNCHANGED collected

Fail ==
    /\ outcome = "open"
    /\ outcome' = "failure"
    /\ collected' = [i \in Tasks |-> {}]

Again ==
    /\ outcome # "open"
    /\ outcome' \in {"open", "failure"}
    /\ collected' = [i \in Tasks |-> {}]

Next == (\E i \in Tasks : Collect(i)) \/ Succeed \/ Fail \/ Again

Spec == Init /\ [][Next]_jobVars
=============================================================================
