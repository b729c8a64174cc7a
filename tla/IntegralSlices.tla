--------------------------- MODULE IntegralSlices ---------------------------
(***************************************************************************)
(* The example job: the master cuts an interval into one slice for each    *)
(* worker, RunIntegralTask cuts that again into one for each thread, and   *)
(* LongMethod, which --method chooses, sums a function over the whole      *)
(* numbers of a thread's slice.                                            *)
(*                                                                         *)
(* The bounds of the slices are doubles, and each operation on them        *)
(* rounds.  The interval begins at 0.0, as in the program, and ends at a   *)
(* whole number (1.0 and 2200000000.0 there).                              *)
(***************************************************************************)
EXTENDS Doubles

CONSTANTS Ends,         \* task.end, as a whole number
          Workers,      \* config.required_workers
          ThreadCounts  \* the numbers of threads a worker may have

(* The bounds under which rounding does no harm: with 2200000000 they      *)
(* allow 600000 workers, and 4000000 threads for each.                     *)
ASSUME SlicesAssumption ==
    /\ Workers \in Nat \ {0} /\ ThreadCounts \subseteq Nat \ {0}
    /\ Ends \subseteq Nat \ {0}
    /\ \A e \in Ends : 6 * e * Workers < Full /\ \A n \in ThreadCounts : e * n <= Full

VARIABLES end,       \* task.end of the whole job
          tasks,     \* the slices of the workers
          threads,   \* the number of threads of each worker
          worker,    \* the packet the master is at, and the result in it
          thread,
          summed,    \* how often each number of the interval went into the result
          strays     \* what else did

vars == <<end, tasks, threads, worker, thread, summed, strays>>

WorkerIds == 0 .. Workers - 1
Numbers == 0 .. end - 1
-----------------------------------------------------------------------------
(* begin + length * k / n, from left to right, each operation rounded.     *)
DivisionFirst(begin, length, k, n) ==  \* mistake
    Rounded(begin + Rounded(Rounded(length, n) * k, 1), 1)

Cut(begin, length, k, n) == Rounded(begin + Rounded(Rounded(length * k, 1), n), 1)

(* begin and end of tasks[w] in the master's main.                         *)
Length == Rounded(end * One, 1)
TaskOf(w) == [begin |-> Cut(0, Length, w, Workers), end |-> Cut(0, Length, w + 1, Workers)]

(* begin and end of RunIntegralTask.                                       *)
LengthOf(task) == Rounded(task.end - task.begin, 1)
ThreadBegin(w, t) == Cut(tasks[w].begin, LengthOf(tasks[w]), t, threads[w])
ThreadEnd(w, t) == Cut(tasks[w].begin, LengthOf(tasks[w]), t + 1, threads[w])

(* (long)x *)
Whole(x) == x \div One

(* (long)a .. (long)b - 1 *)
LongMethod(w, t) == Whole(ThreadBegin(w, t)) .. Whole(ThreadEnd(w, t)) - 1

Init ==
    /\ end \in Ends
    /\ tasks = [w \in WorkerIds |-> TaskOf(w)]
    /\ threads \in [WorkerIds -> ThreadCounts]
    /\ worker = 0 /\ thread = 0
    /\ summed = [x \in Numbers |-> 0]
    /\ strays = {}

(* The result of one thread goes into the sum: packet after packet, and in *)
(* each thread after thread, as PackThreadResults put them there.          *)
AddPackedResults ==
    /\ worker < Workers
    /\ LET found == LongMethod(worker, thread)
       IN  /\ summed' = [x \in Numbers |-> summed[x] + IF x \in found THEN 1 ELSE 0]
           /\ strays' = strays \cup (found \ Numbers)
    /\ IF thread + 1 < threads[worker]
       THEN thread' = thread + 1 /\ worker' = worker
       ELSE thread' = 0 /\ worker' = worker + 1
    /\ UNCHANGED <<end, tasks, threads>>

Next == AddPackedResults

Spec == Init /\ [][Next]_vars
-----------------------------------------------------------------------------
(* Whatever numbers of threads the workers have, no number of the interval *)
(* goes into the sum twice and no other goes in, and in the end each has   *)
(* gone in once.  The last thread of a worker and the first one of the     *)
(* next compute their common bound in different ways and may get different *)
(* doubles, but never on two sides of a whole number; slices may be empty. *)
EachNumberOnce ==
    /\ \A x \in Numbers : summed[x] <= 1
    /\ worker = Workers => \A x \in Numbers : summed[x] = 1
    /\ strays = {}
-----------------------------------------------------------------------------
(* The inductive invariant: what went into the sum are the slices of the   *)
(* threads up to here.                                                     *)
Added(w, t) == w < worker \/ (w = worker /\ t < thread)

SlicesInv ==
    /\ end \in Ends /\ tasks = [w \in WorkerIds |-> TaskOf(w)]
    /\ threads \in [WorkerIds -> ThreadCounts]
    /\ worker \in 0 .. Workers /\ thread \in Nat
    /\ worker < Workers => thread < threads[worker]
    /\ worker = Workers => thread = 0
    /\ summed = [x \in Numbers |->
                    IF \E w \in WorkerIds : \E t \in 0 .. threads[w] - 1 :
                          Added(w, t) /\ x \in LongMethod(w, t)
                    THEN 1 ELSE 0]
    /\ strays = {}
=============================================================================
