# Verification of the computing-cluster library

TLA+ models of the master/worker library in `src/` and `include/`: a master
cuts a buffer into one task per worker, sends the tasks over TCP, and collects
one result packet per worker before a deadline; workers connect, compute with
threads, answer and leave. The modules are checked with TLC on small instances
(`MC*.cfg`) and part of what they say is proved with TLAPS for every value of
the constants (`*Proofs.tla`).

## Inventory of the system

| Component | State it keeps | Operations | What makes it correct |
|---|---|---|---|
| Partitioning and headers (`common.h`) | none | `SplitPoint`, `ClusterEncodeSize`, `ClusterDecodeSize` | the parts tile the buffer; decoding inverts encoding |
| Master (`master.c`, `master.h`, `MasterInitListenSocket`) | worker table: socket, phase, offset, share, header buffer; `doneWorkers`, `status`, results | `MasterInit`, `MasterRun` (poll loop, accept, four transfer phases, clean-up), `MasterDestroy` | success means every share answered once; failure leaves nothing behind; late runs fail; it ends |
| Worker protocol (`worker.c`) | socket, task, result | `WorkerInit` (connect, `ReadPacket`), `WorkerCheckMasterAlive`, `WorkerSendResult` (`WritePacket`), `WorkerDestroy` | the task read is the share sent; the result sent is the one computed; it ends |
| Worker threads (`WorkerRun`) | thread table with `joined` and `result`, `cancelRequested`, `status` | create, cancel, join, pack | every created thread is joined once; all packets or none; nothing is freed under a thread |
| Deadline timer (`deadline_timer.c`) | process-wide flag, SIGALRM handler, interval timer | `DeadlineTimerStart`, `DeadlineTimerStop`, the handler | the flag of one use never reaches the next; the old handler returns |
| Connection retry (`ConnectToMaster`) | start time | attempt, sleep | no attempt after the limit, no negative sleep |
| Result packing (`PackThreadResults`, `AddPackedResults`) | one packet | pack, unpack | unpacking accepts exactly what packing makes; no access outside the packet |
| Integration example (`examples/`) | interval, function | `main` of both programs, `RunIntegralTask` | calls the library in order; the pieces cover the interval |
| Makefiles, benchmark and coverage scripts | none | | not modelled |

The components interact in three ways. Master and workers share nothing but
their TCP connections: a header of eight bytes and the task go down, a header
and the result come up, and a close or a reset in either direction is the only
other signal. Inside the master, SIGALRM sets a flag that the loop reads. Inside
a worker, threads write their result and the main thread joins or cancels them.

What is hard: the master serves all slots from one snapshot of `poll()` while
the workers move on; transfers stop and resume at any byte; a worker that has
sent its result leaves, and its hang-up arrives together with the last bytes;
the limit is watched in four places (SIGALRM flag, poll timeout, `EINTR`, end of
a pass); any failure of one worker fails the run and has to release all others;
nothing is reset between two calls of `MasterRun`. The full list, with the
lines, is under `hazards` in `PROJECT.json`.

## Modules

```
ClusterCommon      SplitPoint, size headers, packets          (common.h)
  ClusterNet       TCP as the socket calls see it             (external)
    Master         MasterInit, MasterRun, MasterDestroy       (master.c, master.h)
    Worker         WorkerInit .. WorkerDestroy                (worker.c, integral_worker.c)
      Cluster      both together, Next, fairness, properties
        ClusterInvariants   the inductive invariant
          MCCluster         small instances for TLC
          ClusterProofs     theorems about Cluster: counting, clean-up, limits
            ClusterStreamProofs   the byte streams, what MasterRun promises
ClusterJob         what MasterRun promises its caller (abstract)
ClusterCommonProofs  theorems about ClusterCommon

WorkerThreads      WorkerRun and its threads                  (worker.c)
  MCWorkerThreads, WorkerThreadsProofs
WorkerCall         what WorkerRun promises its caller (abstract)

ClusterTime        milliseconds in struct timeval             (common_multiplexing.c)
  DeadlineTimer    DeadlineTimerStart, Stop, SIGALRM          (deadline_timer.c)
    MCDeadlineTimer, DeadlineTimerProofs
  WorkerConnect    ConnectToMaster in time                    (worker.c)
    MCWorkerConnect, WorkerConnectProofs

PacketCodec        PackThreadResults, AddPackedResults        (worker.c, integral_master.c)
  MCPacketCodec, PacketCodecProofs                            extends ClusterCommon
Doubles            IEEE 754 doubles, rounded to nearest       (external)
  IntegralSlices   the interval, worker by worker and thread by thread   (examples/)
    MCIntegralSlices, IntegralSlicesProofs
```

The cluster model takes four things as single steps or as data that the other
modules have in detail: `Worker!WorkerRun` and `WorkerRunFails` are `Succeeds`
and `Fails` of `WorkerCall`, which `WorkerThreads` implements; `Master!Alarm` is
`DeadlineTimer`; `Worker!Connect` and `ConnectGivesUp` are `WorkerConnect`; and
the packets a method returns are those of `PacketCodec`. They are modules of
their own because the states they add (threads, milliseconds, bytes) do not
interact with those of the poll loop beyond these steps.

**ClusterCommon.** A byte is a number below `ByteBase` and a header has
`HeaderSize` of them (256 and 8 in the code), so that small instances have
headers that travel in pieces. `CodecAssumption` says that a `size_t` fits into
a header: shifted right once per byte of the header nothing is left of it. TLC
evaluates it on every instance; that decoding inverts encoding is proved.
Values are natural numbers: wrap-around in `SplitPoint` (a buffer whose size
times the number of workers exceeds `SIZE_MAX`) is not modelled.

**ClusterNet** (external). A connection is named by its worker process. Each
direction is a sequence of at most `SocketBuffer` bytes, delivered in order.
Both ends can be closed; closing with unread input, or writing to a closed end,
resets the connection (`broken`); a reset hits both ends at once.

**Master.** `mpc` is the place in `MasterRun`; the rest is the code's own state
(`workers` with the fields of `MasterWorker`, `workersCount`, `results`,
`doneWorkers`, `status`, the SIGALRM flag). One pass of the loop is cut at the
points where something else can get in between:

| `mpc` | Code | Actions |
|---|---|---|
| `down`, `ready` | before and after `MasterInit` | `MasterInit`, `MasterInitFails`, `MasterRunBegins` |
| `loop` | 271-285 | `LoopHead` |
| `poll` | 287-305 | `PollReady` (takes the snapshot), `PollReturnsNothing` |
| `accept` | 307-319 | `AcceptWorker`, `AcceptNothing`, `AcceptFails` |
| `serve` | 321-481, one action per slot in index order | `SendCompletes`, `SendStalls`, `SendFails`, `ReadHeader`, `ReadData`, `ReadStalls`, `ReadFails`, `HeaderFails`, `SlotHasError` |
| `serve`, no events left | 483-491 | `PassEnds` |
| `finish` | 494-503 | `MasterRunReturns` |
| `returned`, `destroyed` | after `MasterRun`, after `MasterDestroy` | `MasterRunBegins` again, `MasterDestroy` |

`revents` holds the snapshot; a slot acts on its events from the snapshot and
on the socket as it is at that moment. `servedBy` and `slotsAtStart` are history
variables the code does not have. `Tick` and `Alarm` are the clock and SIGALRM.

**Worker.** `wpc` is the place in the program: `connect`, `readSize`, `readData`
(`WorkerInit`), `run` (`WorkerRun` as one step), `check`, `writeSize`,
`writeData` (`WorkerSendResult`), `sent`, and the three ways to end. One step is
one `recv()` or `send()`.

**Cluster** interleaves one master, the workers of `Procs`, and the network.
**ClusterJob** is the promise of one `MasterRun`: each slot gets at most once a
packet the method may compute from its share, the run succeeds only with all of
them, a failed run leaves none, and a further run (`Again`) starts afresh or
fails at once. `Cluster!JobSpec` is the refinement.

**WorkerThreads.** `mpc` is the place of the main thread in `WorkerRun`:

| `mpc` | Code | Actions |
|---|---|---|
| `called` | 448-480 | `RunBegins`, `RunRefused` |
| `create` | 482-533 | `CreateThread`, `CreateTooLate`, `CreateAborts`, `CreateEnds` |
| `look` | 534-539, the second look at the deadline | `CreateInTime`, `CreateTooLate` |
| `join` | 542-566, `scan` being the index in `JoinReadyThreads` | `JoinThread`, `SkipThread`, `JoinFails`, `PassIsLate`, `PassInTime`, `JoinEnds` |
| `pack` | 570-572 | `PackThreadResults`, `PackFails` |
| `free` | 574-578 | `DestroyThreadResults` |

`th[t]` is the place of thread `t` in `WorkerThreadFunc`: set-up, the method
computing, the method inside `malloc`, the result stored, and its two ends. A
pending cancellation (`cancel`) waits for the set-up and can strike anywhere
after it. `heap` is the lock of the allocator: a thread cancelled inside
`malloc` keeps it, and the main thread's own `malloc` and `free` then wait for
ever. `lost` is a history variable: the threads whose join failed, which the code
takes for joined. The allocator is taken to have one lock; one with several arenas has fewer
ways to block, not other ones. `firstCore + cores` is an addition of `int`: where
it exceeds `IntMax` the comparison with `CPU_SETSIZE` may come out either way.
`CPU_SET` ignores a core outside the set and `pthread_create` fails for an empty
one; that is what `Hart(created) < CpuSetSize` stands for.

**WorkerCall** is what a caller of `WorkerRun` relies on: it returns once, 0 with
the packets of all threads or 1 with `worker->result` as it was.

**DeadlineTimer.** `pc` is the next statement of `DeadlineTimerStart` (`clear`,
`install`, `arm`), the user's loop (`on`) or `DeadlineTimerStop` (`disarm`,
`restore`, `reset`); `Expire` and `DeliverSignal` are the kernel and the
handler, at any point. The thread that uses the timer does not block SIGALRM,
so it takes no step while a signal is pending (`At`); in a worker,
`BlockDeadlineSignalForMethod` keeps the computing threads from taking it. A
use that fails half-way returns the way the code does, and the next one finds
what it left.

**WorkerConnect.** Time is the variable `clock`; `since` is when the statement or
wait under way began and `began` when the last attempt did. The clock waits for
the step that is due: statements, wake-ups and answers take at most `Latency`,
`connect()` to a master with a full accept queue at most `SynTimeout`. The
properties state their bounds in these terms. `master` comes, its accept queue
fills up and has room again when `MasterAcceptWorker` takes a worker out of it,
and it closes, at any time. A `connect()` whose SYN was dropped for a full queue
(`Dropped`) is repeated by the kernel until the queue has room, the master is
gone, or `SynTimeout` is over; so a connection can come about as late as
`SynTimeout` and be followed by a whole read timeout, which is why `EndsInTime`
adds both.

**PacketCodec.** One action per turn of a loop; sizes are numbers modulo
`SizeMax + 1`, a packet is a function from positions to bytes or `Uninit`. The
behaviour begins either with the results of a worker's threads or with any
packet of another worker (`Foreign`), because `AddPackedResults` does not know
who packed what it gets. A double is worth its first byte; only which items are
added, and how often, matters. A read behind the end of the packet returns
anything (`HeadersAt`, `ValuesAt`), and `readEnd`, a history variable, is where
the last read ended, also of a packet that is then rejected (`RejectItem`).

**Doubles** (external) are the multiples of the smallest one; `Rounded(n, d)` is
the one nearest to `n / d`, at a tie the one with an even significand. `Full`
(2^53 in the program) is where significands end, `One` is 1.0, and `Spacings`
are the distances of neighbours, one for each binade. Only doubles that are not
negative, and not infinite, are needed.

**IntegralSlices.** The interval begins at 0.0 and ends at a whole number, as
in the program (1.0 by default, 2200000000.0 with `--end`).
`tasks` are the slices that the master's `main` computes, `ThreadBegin` and
`ThreadEnd` the bounds that `RunIntegralTask` computes from them; both are `Cut`,
the expression `begin + length * k / n` with each of its operations rounded
(expressions are evaluated in double, as on x86-64 and AArch64 without
contraction to fused operations). `LongMethod` is the set of whole numbers
between two bounds, and `AddPackedResults` adds the results in the code's order:
packet after packet, in each thread after thread. `summed` counts how often each
number went into the sum. The ends of a worker's last thread and the begin of
the next worker's first thread are computed differently and are different doubles
in some instances of the run; what must hold is that no whole number lies
between them.

Definitions marked as *mistakes* in the modules are plausible slips in the code;
the specifications do not use them. `PROJECT.json` (`mutants`) pairs each with
the definition it replaces and the property that then fails.

## Faults

`Faults` selects what the environment may do, at any time it is possible:
`crash` and `masterCrash` (a process is killed), `linkReset` (keep-alive or
`TCP_USER_TIMEOUT`), `connectTimeout`, `recvTimeout`, `sendTimeout` (a worker
runs out of time), `run` (`WorkerRun` fails), `alloc`, `sys` (a call returns an
error) and `signal` (`EINTR` from a signal other than SIGALRM).

In `WorkerThreads` they are `create` (attributes, affinity, `pthread_create`),
`setup` (a thread cannot become cancellable), `join`, `alloc` (also
`DeadlineTimerStart`), `poll` (`WorkerCheckMasterAlive` fails with the master
there) and `method` (NULL or an invalid packet); the end of the limit and the
departure of the master are no faults and always possible. In `DeadlineTimer`
they are the failing `sigaction` and `setitimer`, in `WorkerConnect` any failing
socket call, in `PacketCodec` a failing `malloc`.

## Runs

The first five are instances of `MCCluster`, with bytes in base 4, sizes up to
3 and socket buffers of 2 bytes: smaller than a packet, so every transfer can
stall.

| Run | Instance | Checks | Shows |
|---|---|---|---|
| `MCHealthy` | 2 slots, 2 workers, 3 bytes, 2-byte headers, no fault, fair | `TaskIsItsShare`, `ResultIsComputed`, `SuccessCoversData`, `NobodyFails`, `JobSucceeds` | in every cut of headers and data, every share reaches one worker intact and its answer the caller; leaving after the answer is no failure; the job is done |
| `MCFaults` | 2 slots, 2 workers, 2 bytes, all faults, 2 ticks | `SuccessIsAgreed`, `FailureReleasesAll`, `JobSpec` | all or nothing, whatever fails |
| `MCSpare` | 1 slot, 2 workers, 2-byte headers, crashes, giving up, signals, limit 1, clock to 2, fair | `IInv`, `StreamInv`, `EverybodyEnds` | no slot too many; streams stay whole although workers die inside of a header; the spare worker and the master end |
| `MCSecondRun` | 2 slots, 2 workers, crashes, 2 calls of `MasterRun` | `DoneIsCounted`, `UsedMasterNeverSucceeds`, `JobSpec` | what a second call finds and counts, and that its caller is told the truth |
| `MCNoLimit` | limit 0, clock to 1, socket timeouts, 2 calls of `MasterRun` | `LateRunNeverSucceeds` | the end-of-pass check applies although no timer is armed |
| `MCThreads` | 3 threads on 2 of 4 cores, no failing call | `FailureHasCause` | no order of creating, ending, cancelling and joining is taken for a failure |
| `MCThreadsLive` | 2 threads on 2 of 4 cores, all faults, fair | `RunEnds`, `LimitEndsThreads` | the call ends or blocks for the lost lock; the limit ends every thread but those a failing join left behind |
| `MCThreadFaults` | 3 threads, all faults, core ranges up to overflow | `ThreadsTypeOK`, `SuccessIsWhole`, `ArgsOutliveThreads`, `UnfitRangesFail`, `LockIsLostOnlyPastLimit`, `CallSpec` | all packets or none, in every order of creating, ending, cancelling, joining and failing; arguments outlive threads; a run whose threads need a core outside of the set fails as a whole, although the overflowed check let it begin |
| `MCTimer` | 3 uses, a second of 3 ms, limits -1, 0, 2, 4, fair | `NeverKilled`, `UseLeavesNoTrace`, `DeadlineIsDue`, `LimitInterrupts` | SIGALRM between any two calls does no harm, in this use or the next; a loop that waits for ever is interrupted |
| `MCConnect` | a second of 4 ms, sleeps up to 3, limits 2, 4, 11, fair | `ConnectTypeOK`, `NoBlindSpot`, `AttemptsInTime`, `EndsInTime`, `ConnectEnds` | attempts reach to the limit and not beyond; the time is bounded, also when a full accept queue gets room again late; it ends although the master never answers |
| `MCCodec` | 3 results of 10 kinds, sizes up to 15; packets from elsewhere of at most 6 bytes over 3 values | `WritesStayInside`, `PacketIsFull`, `RefusalHasCause`, `UnpackInvertsPack`, `ReadsStayInside`, `OnlyItemsAreAdded` | packing refuses exactly what is invalid or too long; unpacking inverts it, and reads nothing outside whatever comes in |
| `MCSlices` | 5 workers of 1, 3 or 7 threads, doubles of 12 bits, intervals of 1, 5, 9, 17, 18 and 23 numbers | `EachNumberOnce` | no number is lost or counted twice where bounds are rounded, none is added |

Bounds: two slots are the least with which slots can be confused, served in the
wrong order or counted wrongly, and with shares of one and two bytes they differ
in length and content. The clock (`MaxClock`) need only pass the limit; in
`MCHealthy` it is 0, which says that the job is faster than the limit (with the
clock running, `MCFaults` and `MCSpare` let the limit pass at every point).
`MaxRuns` is 1 but in `MCSecondRun` and `MCNoLimit`. In `MCNoLimit` a master may wait for ever
for a worker that gave up, so deadlock is not checked there. Worker processes
are interchangeable: `MCFaults` and `MCSecondRun` use their symmetry.

Three threads are the least with one created, one running and one ended at a
time, and with more threads than cores; which thread is which matters (results
are packed by place), so there is no symmetry. Liveness needs only
two: one that computes for ever while the other ends, fails or loses the lock. `IntMax` 5 and `CpuSetSize` 4 make
sums that fit, that are refused, and that overflow with harts inside and outside
of the set. A second of 3 or 4 ms lets limits fall below, on and above it;
`MaxClock` of `MCTimer` exceeds the longest limit by more than a second, and
three uses let one that fails stand between two that do not. `SizeMax` 15 is
exceeded by two or three of the longer results. Six bytes are a count and one
whole item; a count of two with one item, a short item and a byte too many all
occur. With 12 bits `6 * 23 * 5` is below `Full` (4096) and so is `23 * 7`, the
bounds under which rounding does no harm (below); with the intervals of 9 and 18
numbers a last thread ends below the next worker's begin, with 17 and 23 above
it, and the interval of one number is shorter than the number of workers.
`CHECK_DEADLOCK FALSE` in these runs: each models one call or a bounded
number of them, which ends.

Some cases are outside of these instances and are covered by the theorems alone,
which hold for every instance: empty shares (fewer bytes than workers), crashes
with `ResultIsComputed`, and SIGALRM in a run that `LateRunNeverSucceeds` is
checked of (`MCNoLimit` arms no timer). `EverybodyEnds` is checked without
receive timeouts.

In `MCNoLimit` the code's behaviour is worth knowing: `max_time_ms <= 0` disarms
the timer and makes `poll()` wait without end (`master.c:67`,
`deadline_timer.c:24`), but line 487 compares with `max_time_ms` all the same,
so such a run fails at the end of the first pass that finds the clock moved.
No document promises otherwise, so this is recorded as a hazard, not as a
disagreement.

## Fairness

`FairSpec` assumes that the master and each worker keep running when they can
(processes are scheduled), that time passes, and that a closed end answers with
a reset (the kernel does). Giving up on a connection and socket timeouts count
as steps of the worker, because `WorkerInit` insists on a limit and
`ConfigureSocketTimeouts` sets one on every socket. No fault is ever obliged to
happen: crashes, signals, resets of the link and failing calls have no fairness.
A worker's `run` step is assumed to end: `WorkerRun` cancels its threads at the
deadline (`RunEnds` says when that fails: a thread cancelled inside `malloc`).

`WorkerThreads` is fair to the main thread, to the time, to the delivery of
cancellations and to what a thread does around its method; not to the method,
which may compute for ever. `DeadlineTimer` is fair to the calls of Start and
Stop and to the kernel, not to the user's loop. `WorkerConnect` is fair to the
worker and to time, and assumes nothing of the master.

## Proofs

`ClusterCommonProofs` proves `SplitPointTiles`: for every size and every number
of parts, `SplitPoint` starts at 0, ends at the size and never steps back, so
the shares of `MasterAcceptWorker` tile the data. The argument is that
`(extra * i) \div parts` grows with `i` and reaches `extra`; the lemmas about
quotients carry it. `HeaderRoundTrip` says that `ClusterDecodeSize` finds what
`ClusterEncodeSize` put into a header, for every base and width: the shifts
drop one digit each, so decoding `i` bytes gives the value shifted by the bytes
that are left (`DecodeIs`), which is the value itself when none are. The rest
of the module says what kind of value headers, packets and pieces of sequences
are.

Statements about every step of a loop or every place of a sequence are proved
with `InductionOverNat`, induction in the form "a set of numbers with 0 and all
successors is `Nat`", and that a recursive function satisfies its equation with
`RecursionExists`, which takes the step of the recursion as a function.

`ClusterProofs` proves `Spec => []IInv` and, from it:

| Theorem | States, for every instance |
|---|---|
| `TypeCorrect` | `TypeOK` |
| `DoneWorkersCountsDoneSlots` | `DoneIsCounted` |
| `FailedRunReleasesAll` | `FailureReleasesAll` |
| `UsedMasterFails` | `UsedMasterNeverSucceeds` |
| `SuccessIsComplete` | `SuccessMeansAllDone`: a return value of 0 has a finished worker in every slot |
| `LateRunsFail` | `LateRunNeverSucceeds`, in each of the calls |

`IInv` is needed because none of these is inductive. That the count is right
rests on events waiting only for slots whose transfer is under way
(`EventsAreWatched`), so that no slot is finished twice, and on slots of an
earlier run being idle (`OthersAreIdle`). That a failed run hangs up on everybody
rests on slots holding the sockets of their workers while a run lasts
(`OpenWhileRunning`). That no offset leaves its buffer needs `OffsetsInBounds`
and `SlotHoldsItsShare` with `SplitPointTiles`; that the worker table is not
overrun needs `RoomToAccept` and `SlotsInOrder`; that 0 is only returned with the
exit condition true needs `StatusFits`. The proof has a lemma for each group of
steps, and one (`SlotStepKeeps`) for what any service of a slot does. For a
late run the point is that it stays `Doomed`: past the limit with results
outstanding it can finish its slots only inside of a pass, and the end of that
pass looks at the clock before the loop looks at the count.

`ClusterStreamProofs` proves `Spec => []StreamInv` and, from it and `IInv`:

| Theorem | States, for every instance |
|---|---|
| `StreamsFit` | `StreamInv` |
| `TasksAreShares` | `TaskIsItsShare` |
| `ResultsAreComputed` | `ResultIsComputed` |
| `OutcomesAgree` | `SuccessIsAgreed` |
| `SuccessCovers` | `SuccessCoversData` |
| `ClusterDoesItsJob` | `JobSpec`: the cluster implements `ClusterJob` |
| `HealthyNobodyFails` | `NobodyFails`, for `Healthy` clusters as long as they are `InTime` |

A packet travels as its header followed by its data; `OnWire` is the byte at a
place of this stream and `Carries(bytes, packet, at)` says that some bytes are
the stretch of it behind the first `at`. `StreamInv` is that what has been pushed
by one side, is in flight, and has been taken by the other are consecutive
stretches of one packet: the share of the slot downwards (`Downlink`,
`TaskRead`), the worker's result upwards (`Uplink`, `ResultRead`). It needs to
know where every worker is (`ConnectionsFit`: in no slot, in the accept queue
once, or in one slot), what it has before it is served (`WorkerFits`), and that
a worker that gave up has not sent everything, which is what `OutcomesAgree`
rests on. Every transfer step, of any length, moves a boundary between two
stretches (`CarriesMore`, `CarriesLess`). The shares put together are the data
by `SplitPointTiles` and an induction over the slots (`FlattenIs`,
`SharesCoverData`). In the refinement the step in which a slot becomes `Done` is
`Collect`, the return of `MasterRun` is `Succeed` or `Fail`, a further call is
`Again`, and all others stutter.

`HealthyNobodyFails` has hypotheses because without them it is false:
`Healthy` excludes faults and spare workers (one that is never served fails when
`MasterDestroy` closes the listening socket), `InTime` is that the limit has not
come and the check at the end of a pass finds no delay. `CalmInv` is the
invariant: workers hang up only when they are done, and then the rest of their
result has arrived and nothing is left unread, so that POLLRDHUP never comes
alone (`CalmEvents`), no phase is cut short by it (`NothingUnsent`,
`ResultHasArrived`) and no reset follows; the master closes only after a
success, which with as many slots as workers means that all have answered
(`AllHaveSent`, by counting). The numbers of runs and ticks are arbitrary.

Assumptions: `CodecAssumption`, `NetAssumption`, `MasterAssumption`
(`Capacity` positive, as `MasterInit` demands; the data is a byte sequence whose
length is a `size_t`) and `MethodAssumption` (a method answers a packet with
packets). The fault set is arbitrary, and so is the number of worker processes:
but for `HealthyNobodyFails`, `Procs` need not be finite.

`WorkerThreadsProofs` proves `Spec => []ThreadsInv` for any number of threads,
any core ranges and any faults, and from it `ThreadsTypeCorrect`,
`SuccessWhole`, `FailureCaused`, `UnfitRangesNeverSucceed`, `LockLostPastLimit`,
and `ArgsOutlive`. The last excepts the threads in `lost`: if
`pthread_tryjoin_np` fails for another reason than `EBUSY`, the code takes the
thread for joined and frees its arguments, although it may still run. `ThreadsInv` is needed because success is
decided by a counter: `CreatedInv` ties `joinedThreads` to the set of joined
threads and `created` to the threads there are, `JoinedInv` says that a thread
joined while `status` is 0 has exited, `PhaseInv` that a run without failure has
created all threads when it comes to join, and `ResultInv` that a result belongs
to its thread. `ThreadsImplementCall` is the refinement `Spec => CallSpec`: the
step that packs is `Succeeds`, a return with status 1 is `Fails`, every other
step stutters; `PackedInv` makes the outcome well defined.

`DeadlineTimerProofs` proves `TimerInv` and from it the three safety properties of
`MCTimer` and the type invariant `TimerTypeOK`, for all limits, lengths of a second, delays and numbers of
uses. `HandlerInv` says where the library's handler is installed, `SignalInv`
that a running timer or a pending signal exists only there and only past or for
this use's limit; the latter needs that `struct timeval` loses no millisecond
(`DurationOfTimeval`).

`WorkerConnectProofs` proves `TimeInv` and from it `ConnectTypeCorrect`,
`NoMasterIsMissed`, `AttemptsAreInTime` and `PhaseIsBounded`, for all limits,
latencies, sleeps and lengths of a second, and whatever the accept queue does.
`ClockInv` bounds the clock by the wait under way, `SinceInv` and `AnswerInv` bound when that wait began after the
attempt, depending on what the master did meanwhile.

`PacketCodecProofs` has three layers, for every number of results, every size
and every width of `size_t`. `PackInv` is about `PackThreadResults`: the first
loop has added the true sizes of the results so far, without a wrap; the second
has written the results so far, each where the spaces of those before it end
(`EndOf`). From it: `WritesAreInside`, `PacketsAreFull`, `RefusalsHaveCause`.
`WalkInv` is about `AddPackedResults` with any packet: a turn begins behind
whole items, what has been added are their values, and the last read ended at
`offset`, which is inside. From it:
`ReadsAreInside` and `AcceptedPacketsAreExact`. `ReadInv` is about a packet that
`PackThreadResults` made: the walk is at the end of one of its results and has
added those before. From it: `UnpackingInvertsPacking`.

`IntegralSlicesProofs` proves `NumbersAreSummedOnce` for doubles of any width,
every interval, number of workers and numbers of threads, different ones
included, as long as `6 * end * Workers < Full` and `end * threads <= Full`
(`SlicesAssumption`). For 2^53 and 2200000000 that allows more than 600000
workers with 4000000 threads each; beyond it nothing is claimed.
The argument: `Rounded` is the nearest double (`Nearest`), leaves doubles as
they are (`Exact`) and keeps the order (`RoundingRises`), so the bounds of
workers rise, and so do those of a worker's threads. The end of a worker's last
thread and the next worker's begin stand for the same exact bound, a multiple of
`1 / Workers`, and are off it by less than `6 * end / Full` (`ErrorIsSmall`,
`LastIsClose`), which is less than `1 / Workers`. If the exact bound is not a whole
number, neither of them can therefore reach the next one or fall below the last
one. If it is, they must not fall below it at all: the next worker's begin is
exact, and for the last thread the length of the slice is exact, so that its end
errs by at most half a spacing below a double with an even significand, and
rounds to it (`LastIsReached`). So both round down alike (`SameWhole`,
`LastMeetsFirst`). So the slices join
(`WorkersJoin`, `ThreadsJoin`), and a number lies in exactly one. `SlicesInv` says that
what has been summed is the union of the slices done.

Only model-checked: all liveness (`JobSucceeds`, `EverybodyEnds`, `RunEnds`,
`LimitEndsThreads`, `LimitInterrupts`, `ConnectEnds`), which is out of reach of
the provers used here. Every invariant that a run checks is stated by a
theorem, and so is every refinement and every action property. What a theorem
says of a model is no more than the model: `MethodResults`, the kernel and the
clock are as described above.

## Not modelled, and next

Left out:

- NULL arguments and other argument checks that the programs never fail,
  printing, address resolution, parsing of command lines.
- The values of the quadrature: the function, floating-point sums and the steps of
  `LongMethod2`. `IntegralSlices` is about the whole numbers `LongMethod` sums.
- Intervals that do not begin at 0.0 or do not end at a whole number, and overflow of
  doubles.
- The clean-up of the example master's `main`: a sequence of `free` calls.
- Other users of SIGALRM in the same process: `DeadlineTimer` assumes that
  the previous action changes only by its own calls.
- A worker that sends a header announcing more bytes than a `size_t`: the guard is
  in `HeaderFails` and `TaskRefused`, but no worker of this library sends one.
- Makefiles and scripts: they keep no state of the system.

What is left to prove: that a cluster step `Worker!WorkerRun` together with
`WorkerCall`, and `PacketCodec` as the data of the streams, compose (each is
proved on its own); and, with a prover for liveness, `JobSucceeds` from `CalmInv`
and `FairSpec`.

## How to run

```
tlc -config MCFaults.cfg MCCluster
tlc -config MCThreads.cfg MCWorkerThreads
tlapm ClusterStreamProofs.tla
```
