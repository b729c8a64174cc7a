--------------------------- MODULE WorkerThreads ---------------------------
(***************************************************************************)
(* WorkerRun of src/worker.c: the main thread creates one thread per share *)
(* of the task, joins them, cancels them at the deadline, and packs their  *)
(* results.  The main thread and its threads interleave step by step.      *)
(*                                                                         *)
(* The deadline and the departure of the master are seen only by the main  *)
(* thread, and last once they are there; looks at them that follow each    *)
(* other without an effect in between are one step.                        *)
(***************************************************************************)
EXTENDS Integers, Sequences, FiniteSets

CONSTANTS Threads,      \* worker->resources.threads
          Resources,    \* the values of cores and firstCore callers ask for
          CpuSetSize,   \* CPU_SETSIZE
          IntMax,       \* INT_MAX
          Packets,      \* valid packets a method returns
          Invalid,      \* what PackThreadResults refuses: data NULL, size > 0
          NULL,
          Faults        \* the kinds of failing calls

FaultKinds == {"create", "setup", "join", "alloc", "poll", "method"}

VARIABLES mpc,              \* where the main thread is
          resources,        \* worker->resources
          created,          \* createdThreads, and the i of the create loop
          joined,           \* the threads with args[i].joined
          joinedThreads,    \* their number, as the code counts it
          scan,             \* the i of JoinReadyThreads
          lost,             \* the threads whose join failed (a history variable)
          cancelRequested,
          status,
          th,               \* where each thread is
          cancel,           \* threads that pthread_cancel was called for
          result,           \* args[i].result
          hart,             \* the core each thread is pinned to
          heap,             \* the thread that holds the lock of the allocator
          freed,            \* whether args is freed
          packed,           \* worker->result, a packet for each thread
          late,             \* the limit is over
          masterGone        \* the master has closed or is dead

joins      == <<joined, joinedThreads, scan, lost>>
flags      == <<cancelRequested, status>>
memory     == <<freed, packed>>
mainVars   == <<mpc, created, joins, flags, memory>>
threadVars == <<th, cancel, result, hart, heap>>
given      == <<resources, late, masterGone>>   \* what WorkerRun does not change
vars == <<mainVars, threadVars, given>>

Index == 0 .. Threads - 1
NoThread == Threads        \* nobody holds the lock
Unpacked == <<>>           \* the empty packet of WorkerPrepareEmpty

(* A packet made for thread t: what is in it and whose share it answers. *)
Answer(t, p) == [of |-> t, packet |-> p]
Answers == [of : Index, packet : Packets \cup {Invalid}]

ASSUME ThreadsAssumption ==
    /\ Threads \in Nat \ {0}
    /\ CpuSetSize \in Nat \ {0} /\ IntMax \in Nat
    /\ Resources \subseteq [cores : 1 .. IntMax, firstCore : 0 .. IntMax]
    /\ NULL \notin Packets /\ Invalid \notin Packets /\ Invalid # NULL
    /\ NULL \notin Answers
    /\ Faults \subseteq FaultKinds

Live == {"starting", "running", "inMalloc", "stored"}
Ends == {"exited", "cancelled"}
MainPcs == {"called", "create", "look", "join", "pack", "free", "returned"}

ThreadsTypeOK ==
    /\ mpc \in MainPcs /\ resources \in Resources
    /\ created \in 0 .. Threads /\ joinedThreads \in 0 .. Threads /\ scan \in 0 .. Threads
    /\ joined \subseteq Index /\ lost \subseteq Index /\ cancel \subseteq Index
    /\ cancelRequested \in BOOLEAN /\ status \in {0, 1}
    /\ th \in [Index -> Live \cup Ends \cup {"none"}]
    /\ result \in [Index -> Answers \cup {NULL}]
    /\ hart \in [Index -> 0 .. CpuSetSize]
    /\ heap \in Index \cup {NoThread}
    /\ freed \in BOOLEAN /\ late \in BOOLEAN /\ masterGone \in BOOLEAN
    /\ packed \in {Unpacked} \cup [Index -> Answers]

Init ==
    /\ mpc = "called" /\ resources \in Resources
    /\ created = 0 /\ joined = {} /\ joinedThreads = 0 /\ scan = 0 /\ lost = {}
    /\ cancelRequested = FALSE /\ status = 0
    /\ th = [t \in Index |-> "none"]
    /\ cancel = {}
    /\ result = [t \in Index |-> NULL]
    /\ hart = [t \in Index |-> CpuSetSize]
    /\ heap = NoThread
    /\ freed = FALSE
    /\ packed = Unpacked
    /\ late = FALSE /\ masterGone = FALSE
-----------------------------------------------------------------------------
(***************************************************************************)
(* The argument check and the set-up.  firstCore + cores is an addition of *)
(* int: beyond IntMax it is undefined, and both outcomes of the comparison *)
(* are possible.                                                           *)
(***************************************************************************)
Sum == resources.firstCore + resources.cores
MayAccept == Sum <= CpuSetSize \/ Sum > IntMax
MayRefuse == Sum > CpuSetSize

RunRefused ==
    /\ mpc = "called"
    /\ MayRefuse \/ "alloc" \in Faults
    /\ mpc' = "returned"
    /\ status' = 1
    /\ UNCHANGED <<created, cancelRequested, joins, memory, threadVars, given>>

RunBegins ==
    /\ mpc = "called"
    /\ MayAccept
    /\ mpc' = "create"
    /\ UNCHANGED <<created, joins, flags, memory, threadVars, given>>

(***************************************************************************)
(* The create loop.  CPU_SET ignores a core outside the set, and           *)
(* pthread_create fails for the empty set.                                 *)
(***************************************************************************)
HartAroundSet(i) ==  \* mistake
    (resources.firstCore + (i % resources.cores)) % CpuSetSize

Hart(i) == resources.firstCore + (i % resources.cores)

UnjoinedAndNext == {t \in 0 .. created : t \notin joined}  \* mistake

UnjoinedThreads == {t \in 0 .. created - 1 : t \notin joined}

CancelUnjoinedThreads ==
    /\ cancelRequested' = TRUE
    /\ status' = 1
    /\ cancel' = cancel \cup UnjoinedThreads

CreateThread ==
    /\ mpc = "create" /\ created < Threads
    /\ ~late /\ ~masterGone
    /\ Hart(created) < CpuSetSize
    /\ th' = [th EXCEPT ![created] = "starting"]
    /\ hart' = [hart EXCEPT ![created] = Hart(created)]
    /\ created' = created + 1
    /\ mpc' = "look"
    /\ UNCHANGED <<cancel, result, heap, joins, flags, memory, given>>

(* The limit is over before a thread is created, or right after. *)
CreateTooLate ==
    /\ mpc = "look" \/ (mpc = "create" /\ created < Threads)
    /\ late
    /\ CancelUnjoinedThreads
    /\ mpc' = "join"
    /\ UNCHANGED <<created, th, result, hart, heap, joins, memory, given>>

CreateInTime ==
    /\ mpc = "look"
    /\ ~late
    /\ mpc' = "create"
    /\ UNCHANGED <<created, joins, flags, memory, threadVars, given>>

(* No master or no thread: the threads that run are not cancelled. *)
CreateAborts ==
    /\ mpc = "create" /\ created < Threads
    /\ ~late
    /\ masterGone \/ {"poll", "create"} \cap Faults # {} \/ Hart(created) >= CpuSetSize
    /\ status' = 1
    /\ mpc' = "join"
    /\ UNCHANGED <<created, cancelRequested, joins, memory, threadVars, given>>

CreateEnds ==
    /\ mpc = "create" /\ created = Threads
    /\ mpc' = "join"
    /\ UNCHANGED <<created, joins, flags, memory, threadVars, given>>
-----------------------------------------------------------------------------
(***************************************************************************)
(* The join loop: a pass of JoinReadyThreads over the threads, then a look *)
(* at the deadline and the master, then a sleep.                           *)
(***************************************************************************)
Scanning == mpc = "join" /\ scan < created

Joinable(t) == t \notin joined /\ th[t] \in Ends

JoinUncounted ==  \* mistake
    /\ Scanning
    /\ Joinable(scan)
    /\ joined' = joined \cup {scan}
    /\ scan' = scan + 1
    /\ UNCHANGED <<mpc, created, joinedThreads, lost, flags, memory, threadVars, given>>

JoinThread ==
    /\ Scanning
    /\ Joinable(scan)
    /\ joined' = joined \cup {scan}
    /\ joinedThreads' = joinedThreads + 1
    /\ status' = IF th[scan] = "cancelled" THEN 1 ELSE status
    /\ scan' = scan + 1
    /\ UNCHANGED <<mpc, created, cancelRequested, lost, memory, threadVars, given>>

BusyIsAnError ==  \* mistake
    /\ Scanning
    /\ ~Joinable(scan)
    /\ scan' = scan + 1
    /\ status' = 1
    /\ UNCHANGED <<mpc, created, joined, joinedThreads, lost, cancelRequested,
                   memory, threadVars, given>>

(* Joined before, or EBUSY. *)
SkipThread ==
    /\ Scanning
    /\ ~Joinable(scan)
    /\ scan' = scan + 1
    /\ UNCHANGED <<mpc, created, joined, joinedThreads, lost, flags,
                   memory, threadVars, given>>

JoinErrorIgnored ==  \* mistake
    /\ Scanning
    /\ "join" \in Faults
    /\ scan \notin joined
    /\ joined' = joined \cup {scan}
    /\ joinedThreads' = joinedThreads + 1
    /\ lost' = lost \cup {scan}
    /\ scan' = scan + 1
    /\ UNCHANGED <<mpc, created, flags, memory, threadVars, given>>

(* Another error of pthread_tryjoin_np: the thread counts as joined. *)
JoinFails ==
    /\ Scanning
    /\ "join" \in Faults
    /\ scan \notin joined
    /\ joined' = joined \cup {scan}
    /\ joinedThreads' = joinedThreads + 1
    /\ status' = 1
    /\ lost' = lost \cup {scan}
    /\ scan' = scan + 1
    /\ UNCHANGED <<mpc, created, cancelRequested, memory, threadVars, given>>

PassEnds == mpc = "join" /\ scan = created /\ joinedThreads < created /\ scan' = 0

LatePassCancelsNothing ==  \* mistake
    /\ PassEnds
    /\ late /\ ~cancelRequested
    /\ cancelRequested' = TRUE
    /\ status' = 1
    /\ UNCHANGED <<mpc, created, joined, joinedThreads, lost, memory, threadVars, given>>

PassIsLate ==
    /\ PassEnds
    /\ late /\ ~cancelRequested
    /\ CancelUnjoinedThreads
    /\ UNCHANGED <<mpc, created, joined, joinedThreads, lost, th, result,
                   hart, heap, memory, given>>

MissingMasterCancels ==  \* mistake
    /\ PassEnds
    /\ ~late \/ cancelRequested
    /\ IF masterGone /\ ~cancelRequested THEN CancelUnjoinedThreads
       ELSE UNCHANGED <<flags, cancel>>
    /\ UNCHANGED <<mpc, created, joined, joinedThreads, lost, memory, th, result,
                   hart, heap, given>>

(* A missing master fails the run, but nothing is cancelled. *)
PassInTime ==
    /\ PassEnds
    /\ ~late \/ cancelRequested
    /\ \/ status' = status /\ (cancelRequested \/ ~masterGone)
       \/ status' = 1 /\ ~cancelRequested /\ (masterGone \/ "poll" \in Faults)
    /\ UNCHANGED <<mpc, created, joined, joinedThreads, lost, cancelRequested,
                   memory, threadVars, given>>

(* The last look at the deadline, and DeadlineTimerStop. *)
JoinedOrCancelled == joinedThreads >= created \/ cancelRequested  \* mistake

AllJoined == joinedThreads >= created

JoinEnds ==
    /\ mpc = "join" /\ scan = created /\ AllJoined
    /\ status' = IF late THEN 1 ELSE status
    /\ mpc' = IF late \/ status = 1 THEN "free" ELSE "pack"
    /\ UNCHANGED <<created, cancelRequested, joins, memory, threadVars, given>>
-----------------------------------------------------------------------------
(***************************************************************************)
(* PackThreadResults and the clean-up; malloc and free take the lock.      *)
(***************************************************************************)
AnyResult(t) == result[t] # NULL  \* mistake

ValidResult(t) == result[t] # NULL /\ result[t].packet \in Packets

PackThreadResults ==
    /\ mpc = "pack" /\ heap = NoThread
    /\ \A t \in Index : ValidResult(t)
    /\ packed' = result
    /\ mpc' = "free"
    /\ UNCHANGED <<created, freed, joins, flags, threadVars, given>>

PackFails ==
    /\ mpc = "pack" /\ heap = NoThread
    /\ "alloc" \in Faults \/ \E t \in Index : ~ValidResult(t)
    /\ status' = 1
    /\ mpc' = "free"
    /\ UNCHANGED <<created, cancelRequested, joins, memory, threadVars, given>>

DestroyThreadResults ==
    /\ mpc = "free" /\ heap = NoThread
    /\ result' = [t \in Index |-> NULL]
    /\ freed' = TRUE
    /\ mpc' = "returned"
    /\ UNCHANGED <<created, packed, th, cancel, hart, heap, joins, flags, given>>
-----------------------------------------------------------------------------
(***************************************************************************)
(* WorkerThreadFunc.  A cancellation waits until the thread has made       *)
(* itself asynchronously cancellable; from then on it can hit anywhere.    *)
(***************************************************************************)
ThreadGoes(t, place) == th' = [th EXCEPT ![t] = place]

SetUp(t) ==
    /\ th[t] = "starting"
    /\ ThreadGoes(t, IF t \in cancel THEN "cancelled" ELSE "running")
    /\ UNCHANGED <<cancel, result, hart, heap, mainVars, given>>

SetUpFails(t) ==
    /\ th[t] = "starting"
    /\ "setup" \in Faults
    /\ ThreadGoes(t, "exited")
    /\ UNCHANGED <<cancel, result, hart, heap, mainVars, given>>

(* The method is done computing and allocates its packet. *)
MethodAllocates(t) ==
    /\ th[t] = "running"
    /\ heap = NoThread
    /\ heap' = t
    /\ ThreadGoes(t, "inMalloc")
    /\ UNCHANGED <<cancel, result, hart, mainVars, given>>

MethodReturns(t) ==
    /\ th[t] = "inMalloc"
    /\ heap' = NoThread
    /\ \E p \in Packets \cup (IF "method" \in Faults THEN {Invalid, NULL} ELSE {}) :
          result' = [result EXCEPT ![t] = IF p = NULL THEN NULL ELSE Answer(t, p)]
    /\ ThreadGoes(t, "stored")
    /\ UNCHANGED <<cancel, hart, mainVars, given>>

ThreadExits(t) ==
    /\ th[t] = "stored"
    /\ ThreadGoes(t, "exited")
    /\ UNCHANGED <<cancel, result, hart, heap, mainVars, given>>

(* The lock of the allocator stays taken when its holder is cancelled. *)
ThreadCancelled(t) ==
    /\ t \in cancel
    /\ th[t] \in Live \ {"starting"}
    /\ ThreadGoes(t, "cancelled")
    /\ UNCHANGED <<cancel, result, hart, heap, mainVars, given>>

TimeIsOver ==
    /\ ~late /\ late' = TRUE
    /\ UNCHANGED <<resources, masterGone, mainVars, threadVars>>

MasterLeaves ==
    /\ ~masterGone /\ masterGone' = TRUE
    /\ UNCHANGED <<resources, late, mainVars, threadVars>>
-----------------------------------------------------------------------------
MainStep ==
    \/ RunRefused \/ RunBegins
    \/ CreateThread \/ CreateTooLate \/ CreateInTime \/ CreateAborts \/ CreateEnds
    \/ JoinThread \/ SkipThread \/ JoinFails \/ PassIsLate \/ PassInTime \/ JoinEnds
    \/ PackThreadResults \/ PackFails \/ DestroyThreadResults

MethodRuns(t)  == MethodAllocates(t)
ThreadRuns(t)  == SetUp(t) \/ SetUpFails(t) \/ MethodReturns(t) \/ ThreadExits(t)

Next ==
    \/ MainStep
    \/ \E t \in Index : MethodRuns(t) \/ ThreadRuns(t) \/ ThreadCancelled(t)
    \/ TimeIsOver \/ MasterLeaves

(* No fairness for the computation itself: a method may run for ever. *)
Fairness ==
    /\ WF_vars(MainStep) /\ WF_vars(TimeIsOver)
    /\ \A t \in Index : WF_vars(ThreadRuns(t)) /\ WF_vars(ThreadCancelled(t))

Spec == Init /\ [][Next]_vars
LiveSpec == Spec /\ Fairness
-----------------------------------------------------------------------------
(***************************************************************************)
(* Properties.                                                             *)
(***************************************************************************)
(* A WorkerRun that returns 0 has created and joined every thread, none of *)
(* them was cancelled or had its join fail, and worker->result holds the   *)
(* packet of thread t at place t, although the threads end in any order.   *)
SuccessIsWhole ==
    mpc = "returned" /\ status = 0 =>
        /\ joined = Index
        /\ \A t \in Index : th[t] = "exited" /\ packed[t] \in [of : {t}, packet : Packets]

(* While a thread may still write to its arguments, WorkerRun has not      *)
(* freed them: a cancelled thread is waited for as well.  Only a thread    *)
(* whose join failed may be left behind.                                   *)
ArgsOutliveThreads == freed => \A t \in Index \ lost : th[t] \notin Live

(* When no call fails, and the cores fit, a run fails only because of the  *)
(* limit or of the master: no interleaving of creating, ending and joining *)
(* threads is taken for a failure.                                         *)
FailureHasCause ==
    Faults = {} /\ status = 1 => late \/ masterGone \/ MayRefuse

(* The width of int: a range whose sum overflows may pass the check of the *)
(* arguments.  When it lacks cores for the threads, the run still fails as *)
(* a whole, although it finds out only at the first thread without a core, *)
(* while earlier threads run and deliver their results.                    *)
PinnedCores == IF Threads < resources.cores THEN Threads ELSE resources.cores
UnfitRangesFail ==
    mpc = "returned" /\ resources.firstCore + PinnedCores > CpuSetSize => status = 1

(* The lock of the allocator is lost only to a cancellation, and           *)
(* cancellations only happen past the limit: a master that leaves cannot   *)
(* make the clean-up of WorkerRun block.                                   *)
HeapLost == heap \in Index /\ th[heap] \in Ends
LockIsLostOnlyPastLimit == HeapLost => late /\ cancelRequested /\ status = 1

(* WorkerRun returns, unless a thread was cancelled inside malloc: then    *)
(* its clean-up waits for the lock for ever.                               *)
RunEnds == <>(mpc = "returned" \/ HeapLost)

(* Past the limit no thread of the run stays alive, whatever the method    *)
(* computes, also when the master is gone and nothing was cancelled then;  *)
(* but for those that a failing join left behind.                          *)
LimitEndsThreads == late ~> \A t \in Index \ lost : th[t] \notin Live

(* What WorkerRun promises its caller, with every kind of failing call:    *)
(* worker->result changes only in a run that returns 0, and then to the    *)
(* packets of all threads.                                                 *)
GoodAnswers(t) == [of : {t}, packet : Packets]

Call == INSTANCE WorkerCall WITH
    Good <- GoodAnswers,
    Before <- Unpacked,
    outcome <- IF mpc = "returned" /\ status = 1 THEN "failed"
               ELSE IF packed # Unpacked THEN "succeeded" ELSE "running",
    packet <- packed
CallSpec == Call!CallSpec
-----------------------------------------------------------------------------
(***************************************************************************)
(* The inductive invariant behind these properties.                        *)
(***************************************************************************)
CreatedInv ==
    /\ \A t \in Index : th[t] = "none" <=> t >= created
    /\ joined \subseteq 0 .. created - 1 /\ scan <= created
    /\ joinedThreads = Cardinality(joined)

CancelInv ==
    /\ cancel # {} => cancelRequested
    /\ cancelRequested => late /\ status = 1
    /\ \A t \in Index : th[t] = "cancelled" => t \in cancel

JoinedInv ==
    /\ status = 0 => \A t \in joined : th[t] = "exited"
    /\ \A t \in joined \ lost : th[t] \in Ends

HartInv == \A t \in Index : th[t] # "none" => hart[t] = Hart(t) /\ hart[t] < CpuSetSize

LockInv ==
    /\ heap \in Index => th[heap] \in {"inMalloc", "cancelled"}
    /\ \A t \in Index : th[t] = "inMalloc" => heap = t

PhaseInv ==
    /\ mpc = "called" => created = 0 /\ joined = {}
    /\ mpc \in {"called", "create", "look", "pack"} => status = 0
    /\ status = 0 /\ mpc \in {"join", "pack", "free", "returned"} => created = Threads
    /\ mpc \in {"pack", "free", "returned"} => joined = 0 .. created - 1
    /\ freed => mpc = "returned"

ResultInv ==
    /\ \A t \in Index : result[t] # NULL => result[t] \in [of : {t}, packet : Packets \cup {Invalid}]
    /\ \A t \in Index : Faults = {} /\ mpc # "returned" /\ th[t] \in {"stored", "exited"} => ValidResult(t)

PackedInv ==
    /\ mpc \in {"free", "returned"} /\ status = 0 <=> packed # Unpacked
    /\ packed # Unpacked => \A t \in Index : packed[t] \in GoodAnswers(t)

ThreadsInv ==
    /\ ThreadsTypeOK /\ CreatedInv /\ CancelInv /\ JoinedInv /\ LockInv
    /\ PhaseInv /\ ResultInv /\ PackedInv /\ HartInv /\ FailureHasCause
=============================================================================
