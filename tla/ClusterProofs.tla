---------------------------- MODULE ClusterProofs ----------------------------
(***************************************************************************)
(* Cluster keeps IInv, for every number of workers, every limit, every     *)
(* size of buffer and every set of faults; and what follows from it.       *)
(***************************************************************************)
EXTENDS ClusterInvariants, ClusterCommonProofs, FiniteSetTheorems

(* A share lies within the data and its length is a size_t. *)
LEMMA ShareFacts ==
    ASSUME NEW i \in Slots
    PROVE  /\ TaskBegin(i) \in Nat /\ TaskLength(i) \in Sizes
           /\ TaskBegin(i) + TaskLength(i) <= Len(Data)
<1>1. Capacity \in Nat \ {0} /\ Len(Data) \in Nat /\ Len(Data) <= SizeMax /\ SizeMax \in Nat
  BY MasterAssumption, CodecAssumption, LenProperties DEF Sizes
<1>2. i \in 0 .. Capacity /\ i + 1 \in 0 .. Capacity /\ i < Capacity
  BY <1>1 DEF Slots
<1>3. /\ TaskBegin(i) \in 0 .. Len(Data) /\ TaskBegin(i + 1) \in 0 .. Len(Data)
      /\ TaskBegin(i) <= TaskBegin(i + 1)
  BY <1>1, <1>2, SplitPointTiles DEF TaskBegin
<1>. QED BY <1>1, <1>3 DEF TaskLength, Sizes

(***************************************************************************)
(* Frame lemmas: what a step leaves alone keeps its part of the invariant. *)
(***************************************************************************)
LEMMA WorkerKept ==
    ASSUME IInv, UNCHANGED workerVars
    PROVE  WorkerTypeOK' /\ WorkerInv'
BY DEF IInv, TypeOK, WorkerTypeOK, WorkerInv, workerVars, PartSize

(* What only workers or the network do keeps the master's part.            *)
LEMMA MasterKept ==
    ASSUME IInv, UNCHANGED masterVars, \A p \in Procs : masterFin[p] => masterFin'[p]
    PROVE  MasterTypeOK' /\ MasterInv'
<1>. USE DEF masterVars
<1>1. MasterTypeOK'
  BY DEF IInv, TypeOK, MasterTypeOK
<1>2. SlotsInOrder' /\ SlotHoldsItsShare' /\ OthersAreIdle' /\ OpenWhileRunning'
  BY DEF IInv, MasterInv, SlotsInOrder, SlotHoldsItsShare, OthersAreIdle, OpenWhileRunning
<1>3. OffsetsInBounds'
  BY DEF IInv, MasterInv, OffsetsInBounds, Incoming
<1>4. EventsAreWatched' /\ RoomToAccept' /\ StatusFits' /\ DoneIsCounted' /\ SuccessMeansAllDone'
  BY DEF IInv, MasterInv, EventsAreWatched, Watched, RoomToAccept, FreeSlot, StatusFits, AllDone, DoneIsCounted,
         SuccessMeansAllDone, Succeeded
<1>5. FailureReleasesAll'
  BY DEF IInv, MasterInv, FailureReleasesAll, FailedRun, TypeOK, MasterTypeOK
<1>. QED BY <1>1, <1>2, <1>3, <1>4, <1>5 DEF MasterInv
-----------------------------------------------------------------------------
(***************************************************************************)
(* The steps of a worker.                                                  *)
(***************************************************************************)
LEMMA GatheredFacts ==
    ASSUME IInv, NEW p \in Procs, wpc[p] \in ReadingTask
    PROVE  /\ RestBytes(down[p], Received(p)) \in Seq(Byte)
           /\ Gathered(p) \in Seq(Byte)
           /\ Len(Gathered(p)) <= PartSize(p)
<1>1. /\ down[p] \in Seq(Byte) /\ buffer[p] \in Seq(Byte)
      /\ Len(down[p]) \in Nat /\ Len(buffer[p]) \in Nat
  BY DEF IInv, TypeOK, NetTypeOK, WorkerTypeOK
<1>2. PartSize(p) \in Nat /\ Len(buffer[p]) <= PartSize(p)
  BY CodecAssumption DEF IInv, TypeOK, WorkerTypeOK, WorkerInv, PartSize, Sizes
<1>3. Received(p) \in 0 .. Len(down[p]) /\ Len(buffer[p]) + Received(p) <= PartSize(p)
  BY <1>1, <1>2 DEF Received, Least
<1>4. /\ FirstBytes(down[p], Received(p)) \in Seq(Byte)
      /\ Len(FirstBytes(down[p], Received(p))) = Received(p)
  BY <1>1, <1>3, PartOfSeq DEF FirstBytes
<1>5. RestBytes(down[p], Received(p)) \in Seq(Byte)
  BY <1>1, <1>3, PartOfSeq DEF RestBytes
<1>6. /\ Gathered(p) \in Seq(Byte)
      /\ Len(Gathered(p)) = Len(buffer[p]) + Received(p)
  BY <1>1, <1>4, ConcatOfSeqs DEF Gathered
<1>. QED BY <1>3, <1>5, <1>6

(* A worker that gives up closes its socket and keeps the invariant.       *)
LEMMA GiveUpKeeps ==
    ASSUME IInv, NEW p \in Procs, GiveUp(p)
    PROVE  NetTypeOK' /\ WorkerTypeOK' /\ WorkerInv'
<1>. USE DEF GiveUp, Goto, WorkerCloses
<1>1. NetTypeOK' /\ WorkerTypeOK'
  BY DEF IInv, TypeOK, NetTypeOK, WorkerTypeOK, WorkerPcs, Ended
<1>2. WorkerInv'
  BY DEF IInv, TypeOK, WorkerTypeOK, WorkerInv, PartSize, ReadingTask
<1>. QED BY <1>1, <1>2

(* No step of a worker breaks the invariant or hangs up for the master.    *)
LEMMA WorkerStepKeeps ==
    ASSUME IInv, NEW p \in Procs, WorkerStep(p) \/ WorkerCrash(p)
    PROVE  NetTypeOK' /\ WorkerTypeOK' /\ WorkerInv' /\ UNCHANGED masterFin
<1>. USE DEF Goto
<1>1. /\ NetTypeOK /\ WorkerTypeOK /\ WorkerInv
      /\ ReadingTask \subseteq WorkerPcs /\ WritingResult \subseteq WorkerPcs
      /\ Ended \subseteq WorkerPcs
  BY DEF IInv, TypeOK, WorkerPcs, ReadingTask, WritingResult, Ended
<1>2. HeaderSize \in Nat
  BY CodecAssumption
<1>3. CASE Connect(p)
  <2>1. NetTypeOK'
    BY <1>1, <1>3, AppendProperties DEF Connect, NetTypeOK
  <2>2. WorkerTypeOK'
    BY <1>1, <1>3 DEF Connect, WorkerTypeOK, WorkerPcs, ReadingTask
  <2>3. WorkerInv'
    BY <1>1, <1>2, <1>3 DEF Connect, WorkerInv, PartSize, ReadingTask, WorkerTypeOK
  <2>. QED BY <1>3, <2>1, <2>2, <2>3 DEF Connect
<1>4. CASE ConnectGivesUp(p)
  <2>1. NetTypeOK'
    BY <1>1, <1>4 DEF ConnectGivesUp, NetTypeOK, netVars
  <2>2. WorkerTypeOK'
    BY <1>1, <1>4 DEF ConnectGivesUp, WorkerTypeOK, WorkerPcs, Ended
  <2>3. WorkerInv'
    BY <1>1, <1>4 DEF ConnectGivesUp, WorkerInv, PartSize, ReadingTask, WorkerTypeOK
  <2>. QED BY <1>4, <2>1, <2>2, <2>3 DEF ConnectGivesUp, netVars
<1>5. CASE RecvPart(p)
  <2>1. wpc[p] \in ReadingTask
    BY <1>5 DEF RecvPart, Recv
  <2>2. NetTypeOK'
    BY <1>1, <1>5, <2>1, GatheredFacts DEF RecvPart, Recv, NetTypeOK
  <2>3. WorkerTypeOK'
    BY <1>1, <1>5, <2>1, GatheredFacts DEF RecvPart, WorkerTypeOK
  <2>4. WorkerInv'
    BY <1>1, <1>5, <2>1, GatheredFacts DEF RecvPart, WorkerInv, PartSize, ReadingTask, WorkerTypeOK
  <2>. QED BY <1>5, <2>2, <2>3, <2>4 DEF RecvPart
<1>6. CASE RecvHeader(p)
  <2>1. wpc[p] \in ReadingTask
    BY <1>6 DEF RecvHeader, Recv
  <2>2. NetTypeOK'
    BY <1>1, <1>6, <2>1, GatheredFacts DEF RecvHeader, Recv, NetTypeOK
  <2>3. WorkerTypeOK'
    BY <1>1, <1>6 DEF RecvHeader, WorkerTypeOK, WorkerPcs, ReadingTask
  <2>4. WorkerInv'
    BY <1>1, <1>2, <1>6, CodecAssumption
       DEF RecvHeader, WorkerInv, PartSize, ReadingTask, WorkerTypeOK, Sizes
  <2>. QED BY <1>6, <2>2, <2>3, <2>4 DEF RecvHeader
<1>7. CASE RecvTask(p)
  <2>1. wpc[p] \in ReadingTask
    BY <1>7 DEF RecvTask, Recv
  <2>2. NetTypeOK'
    BY <1>1, <1>7, <2>1, GatheredFacts DEF RecvTask, Recv, NetTypeOK
  <2>3. Gathered(p) \in Packets
    BY <1>1, <1>7, <2>1, GatheredFacts, PacketIsSeq
       DEF RecvTask, PartComplete, PartSize, WorkerTypeOK
  <2>4. WorkerTypeOK'
    BY <1>1, <1>7, <2>3 DEF RecvTask, WorkerTypeOK, WorkerPcs
  <2>5. WorkerInv'
    BY <1>1, <1>7 DEF RecvTask, WorkerInv, PartSize, ReadingTask, WorkerTypeOK
  <2>. QED BY <1>7, <2>2, <2>4, <2>5 DEF RecvTask
<1>7a. CASE TaskRefused(p)
  <2>1. wpc[p] \in ReadingTask
    BY <1>7a DEF TaskRefused, Recv
  <2>2. NetTypeOK' /\ UNCHANGED masterFin
    BY <1>1, <1>7a, <2>1, GatheredFacts DEF TaskRefused, Recv, WorkerCloses, NetTypeOK
  <2>3. WorkerTypeOK'
    BY <1>1, <1>7a DEF TaskRefused, WorkerTypeOK, Ended
  <2>4. WorkerInv'
    BY <1>1, <1>7a DEF TaskRefused, WorkerInv, PartSize, ReadingTask, WorkerTypeOK
  <2>. QED BY <2>2, <2>3, <2>4
<1>8. CASE RecvFails(p) \/ WorkerRunFails(p) \/ MasterUnavailable(p) \/ SendFailsAtWorker(p)
  <2>1. GiveUp(p)
    BY <1>8 DEF RecvFails, WorkerRunFails, MasterUnavailable, SendFailsAtWorker
  <2>. QED BY <2>1, GiveUpKeeps DEF GiveUp
<1>9. CASE WorkerRun(p)
  <2>1. PICK packet \in MethodResults(task[p]) : result' = [result EXCEPT ![p] = packet]
    BY <1>9 DEF WorkerRun
  <2>2. packet \in Packets
    BY <1>1, <2>1, MethodAssumption DEF WorkerTypeOK
  <2>3. WorkerTypeOK'
    BY <1>1, <1>9, <2>1, <2>2 DEF WorkerRun, WorkerTypeOK, WorkerPcs
  <2>4. NetTypeOK' /\ UNCHANGED masterFin
    BY <1>1, <1>9 DEF WorkerRun, NetTypeOK, netVars
  <2>5. WorkerInv'
    BY <1>1, <1>9 DEF WorkerRun, WorkerInv, PartSize, ReadingTask, WorkerTypeOK
  <2>. QED BY <2>3, <2>4, <2>5
<1>10. CASE CheckMaster(p)
  <2>1. NetTypeOK' /\ UNCHANGED masterFin
    BY <1>1, <1>10 DEF CheckMaster, NetTypeOK, netVars
  <2>2. WorkerTypeOK'
    BY <1>1, <1>10 DEF CheckMaster, WorkerTypeOK, WritingResult
  <2>3. WorkerInv'
    BY <1>1, <1>10 DEF CheckMaster, WorkerInv, PartSize, ReadingTask, WorkerTypeOK
  <2>. QED BY <2>1, <2>2, <2>3
<1>11. CASE Send(p)
  <2>1. Reply(p) \in Seq(Byte) /\ Len(Reply(p)) \in Nat
    <3>1. result[p] \in Seq(Byte) /\ Len(result[p]) \in Sizes
      BY <1>1, PacketIsSeq DEF WorkerTypeOK
    <3>2. ClusterEncodeSize(Len(result[p])) \in [1 .. HeaderSize -> Byte]
      BY <3>1, HeaderRoundTrip
    <3>3. ClusterEncodeSize(Len(result[p])) \in Seq(Byte)
      BY <3>2, HeaderIsSeq
    <3>4. Reply(p) \in Seq(Byte)
      BY <3>1, <3>3 DEF Reply
    <3>. QED BY <3>4, LenProperties
  <2>2. PICK n \in 1 .. Least(Unwritten(p), Room(up[p])) :
          /\ up' = [up EXCEPT ![p] = @ \o SubSeq(Reply(p), sent[p] + 1, sent[p] + n)]
          /\ \/ wpc' = [wpc EXCEPT ![p] = AfterWriting(p)] /\ sent' = [sent EXCEPT ![p] = 0]
             \/ wpc' = wpc /\ sent' = [sent EXCEPT ![p] = @ + n]
    BY <1>11 DEF Send
  <2>3. up[p] \in Seq(Byte) /\ Len(up[p]) \in Nat /\ sent[p] \in Nat /\ SocketBuffer \in Nat
    BY <1>1, NetAssumption DEF NetTypeOK, WorkerTypeOK
  <2>4. n \in Nat /\ n <= Unwritten(p) /\ sent[p] + n <= Len(Reply(p))
    <3>1. Unwritten(p) \in Int /\ Room(up[p]) \in Int
      BY <2>1, <2>3 DEF Unwritten, Room
    <3>2. n \in Nat /\ n <= Unwritten(p)
      BY <3>1 DEF Least
    <3>. QED BY <2>1, <2>3, <3>1, <3>2 DEF Unwritten
  <2>5. SubSeq(Reply(p), sent[p] + 1, sent[p] + n) \in Seq(Byte)
    BY <2>1, <2>3, <2>4, PartOfSeq
  <2>6. up[p] \o SubSeq(Reply(p), sent[p] + 1, sent[p] + n) \in Seq(Byte)
    BY <2>3, <2>5, ConcatOfSeqs
  <2>7. NetTypeOK' /\ UNCHANGED masterFin
    <3>1. up' \in [Procs -> Seq(Byte)]
      BY <1>1, <2>2, <2>6 DEF NetTypeOK
    <3>. QED BY <1>1, <1>11, <3>1 DEF Send, NetTypeOK
  <2>8. WorkerTypeOK'
    <3>1. wpc' \in [Procs -> WorkerPcs] /\ sent' \in [Procs -> Nat]
      <4>1. AfterWriting(p) \in WorkerPcs
        BY DEF AfterWriting, WritingResult, WorkerPcs
      <4>2. sent[p] + n \in Nat
        BY <2>3, <2>4
      <4>3. wpc' \in [Procs -> WorkerPcs]
        BY <1>1, <2>2, <4>1 DEF WorkerTypeOK
      <4>4. sent \in [Procs -> Nat]
        BY <1>1 DEF WorkerTypeOK
      <4>5. sent' \in [Procs -> Nat]
        BY <2>2, <4>2, <4>4
      <4>. QED BY <4>3, <4>5
    <3>. QED BY <1>1, <1>11, <3>1 DEF Send, WorkerTypeOK
  <2>9. WorkerInv'
    BY <1>1, <1>11, <2>2
       DEF Send, WorkerInv, WorkerTypeOK, PartSize, ReadingTask, WritingResult, AfterWriting
  <2>. QED BY <2>7, <2>8, <2>9
<1>12. CASE WorkerDestroy(p) \/ WorkerCrash(p)
  <2>. USE DEF WorkerDestroy, WorkerCrash, WorkerCloses
  <2>1. NetTypeOK' /\ UNCHANGED masterFin
    BY <1>1, <1>12 DEF NetTypeOK
  <2>2. WorkerTypeOK'
    BY <1>1, <1>12 DEF WorkerTypeOK, Ended
  <2>3. WorkerInv'
    BY <1>1, <1>12 DEF WorkerTypeOK, WorkerInv, PartSize, ReadingTask
  <2>. QED BY <2>1, <2>2, <2>3
<1>. QED BY <1>3, <1>4, <1>5, <1>6, <1>7, <1>7a, <1>8, <1>9, <1>10, <1>11, <1>12 DEF WorkerStep

(* Neither a worker nor the network changes what the master relies on. *)
LEMMA NetKeeps ==
    ASSUME IInv, Net
    PROVE  NetTypeOK' /\ UNCHANGED masterFin
BY DEF IInv, TypeOK, NetTypeOK, Net, PeerReset, LinkReset
-----------------------------------------------------------------------------
(***************************************************************************)
(* Counting the slots that are done.                                       *)
(***************************************************************************)
DoneSlots == {i \in Slots : i >= slotsAtStart /\ workers[i].state = "Done"}

(* The worker table is finite: required_workers entries.                   *)
LEMMA SlotsFinite == IsFiniteSet(Slots) /\ Cardinality(Slots) = Capacity
<1>1. Capacity \in Nat \ {0}
  BY MasterAssumption
<1>2. 0 \in Int /\ Capacity - 1 \in Int
  BY <1>1
<1>. QED BY <1>1, <1>2, FS_Interval DEF Slots

(* So the slots that are done in this run can be counted.                  *)
LEMMA DoneSlotsFinite == IsFiniteSet(DoneSlots) /\ Cardinality(DoneSlots) \in Nat
<1>1. DoneSlots \subseteq Slots
  BY DEF DoneSlots
<1>. QED BY <1>1, SlotsFinite, FS_Subset, FS_CardinalityType

(* A step that finishes no slot leaves the set of them alone.              *)
LEMMA SameDone ==
    ASSUME UNCHANGED slotsAtStart,
           \A i \in Slots : workers'[i].state = "Done" <=> workers[i].state = "Done"
    PROVE  DoneSlots' = DoneSlots
BY DEF DoneSlots

(* Finishing a slot that was not done counts one more.                     *)
LEMMA OneMoreDone ==
    ASSUME UNCHANGED slotsAtStart, NEW i \in Slots, i >= slotsAtStart,
           workers[i].state # "Done", workers'[i].state = "Done",
           \A j \in Slots \ {i} : workers'[j].state = "Done" <=> workers[j].state = "Done"
    PROVE  Cardinality(DoneSlots') = Cardinality(DoneSlots) + 1
<1>1. DoneSlots' = DoneSlots \cup {i} /\ i \notin DoneSlots
  BY DEF DoneSlots
<1>. QED BY <1>1, DoneSlotsFinite, FS_AddElement

(* The loop's exit condition: required_workers done slots are all slots,   *)
(* with none left from an earlier run.                                     *)
LEMMA EnoughMeansAll ==
    ASSUME slotsAtStart \in 0 .. Capacity, Cardinality(DoneSlots) >= Capacity
    PROVE  slotsAtStart = 0 /\ \A i \in Slots : workers[i].state = "Done"
<1>1. DoneSlots \subseteq Slots
  BY DEF DoneSlots
<1>2. Cardinality(DoneSlots) <= Capacity /\ (Cardinality(DoneSlots) = Capacity => DoneSlots = Slots)
  BY <1>1, SlotsFinite, FS_Subset
<1>3. DoneSlots = Slots
  BY <1>2, DoneSlotsFinite, MasterAssumption
<1>4. 0 \in Slots
  BY MasterAssumption DEF Slots
<1>. QED BY <1>3, <1>4 DEF DoneSlots
-----------------------------------------------------------------------------
(***************************************************************************)
(* The steps of the master that leave its table of workers alone.          *)
(***************************************************************************)
LEMMA TableKept ==
    ASSUME IInv, UNCHANGED <<workersCount, workers, results, servedBy, slotsAtStart>>
    PROVE  /\ SlotsInOrder' /\ SlotHoldsItsShare' /\ OffsetsInBounds'
           /\ mpc' \in Running /\ mpc \in Running => OpenWhileRunning'
           /\ mpc' \notin {"down", "ready", "returned"} => OthersAreIdle'
           /\ UNCHANGED doneWorkers /\ (mpc' \in Running => mpc \in Running) => DoneIsCounted'
           /\ mpc' # "returned" => SuccessMeansAllDone' /\ FailureReleasesAll'
<1>1. SlotsInOrder' /\ SlotHoldsItsShare'
  BY DEF IInv, MasterInv, SlotsInOrder, SlotHoldsItsShare
<1>2. OffsetsInBounds'
  BY DEF IInv, MasterInv, OffsetsInBounds, Incoming
<1>3. mpc' \in Running /\ mpc \in Running => OpenWhileRunning'
  BY DEF IInv, MasterInv, OpenWhileRunning
<1>4. mpc' \notin {"down", "ready", "returned"} => OthersAreIdle'
  BY DEF IInv, MasterInv, OthersAreIdle
<1>5. UNCHANGED doneWorkers /\ (mpc' \in Running => mpc \in Running) => DoneIsCounted'
  BY DEF IInv, MasterInv, DoneIsCounted, Running
<1>6. mpc' # "returned" => SuccessMeansAllDone' /\ FailureReleasesAll'
  BY DEF SuccessMeansAllDone, FailureReleasesAll, Succeeded, FailedRun
<1>. QED BY <1>1, <1>2, <1>3, <1>4, <1>5, <1>6

(* MasterInit, whether it succeeds or fails.                               *)
LEMMA SetUpKeeps ==
    ASSUME IInv, MasterInit \/ MasterInitFails
    PROVE  NetTypeOK' /\ MasterTypeOK' /\ MasterInv'
<1>. USE DEF MasterInit, MasterInitFails, netVars
<1>1. NetTypeOK' /\ MasterTypeOK'
  BY DEF IInv, TypeOK, NetTypeOK, MasterTypeOK, MasterPcs
<1>2. mpc' \in {"ready", "destroyed"}
  OBVIOUS
<1>3. OthersAreIdle'
  BY DEF IInv, MasterInv, OthersAreIdle
<1>4. OpenWhileRunning' /\ EventsAreWatched' /\ RoomToAccept' /\ StatusFits'
  BY <1>2 DEF OpenWhileRunning, EventsAreWatched, RoomToAccept, StatusFits, Running, InLoop
<1>5. DoneIsCounted'
  BY <1>2 DEF DoneIsCounted, InLoop
<1>6. SlotsInOrder' /\ SlotHoldsItsShare' /\ OffsetsInBounds' /\ SuccessMeansAllDone'
      /\ FailureReleasesAll'
  BY <1>2, TableKept
<1>. QED BY <1>1, <1>3, <1>4, <1>5, <1>6 DEF MasterInv

(* The poll() loop without accept() and without serving a slot.            *)
LEMMA LoopKeeps ==
    ASSUME IInv,
           LoopHead \/ PollReady \/ PollReturnsNothing \/ AcceptNothing \/ PassEnds \/ Tick \/ Alarm
    PROVE  NetTypeOK' /\ MasterTypeOK' /\ MasterInv'
<1>. USE DEF Stop
<1>0. /\ mpc \in InLoop /\ mpc' \in Running
      /\ UNCHANGED <<workersCount, workers, results, servedBy, slotsAtStart, doneWorkers, netVars>>
  BY DEF LoopHead, PollReady, PollReturnsNothing, PollTimesOut, PollInterrupted, PollFails,
         AcceptNothing, PassEnds, Tick, Alarm, InLoop, Running
<1>1. NetTypeOK'
  BY <1>0 DEF IInv, TypeOK, NetTypeOK, netVars
<1>2. MasterTypeOK'
  <2>. USE DEF LoopHead, PollReady, PollReturnsNothing, PollTimesOut, PollInterrupted, PollFails,
           AcceptNothing, PassEnds, Tick, Alarm
  <2>1. status' \in {0, 1} /\ UNCHANGED runs
    BY DEF IInv, TypeOK, MasterTypeOK
  <2>2. deadlineExpired' \in BOOLEAN /\ listenIn' \in BOOLEAN
    BY DEF IInv, TypeOK, MasterTypeOK, ListenReady, FreeSlot
  <2>3. elapsed' \in 0 .. MaxClock
    <3>1. elapsed \in 0 .. MaxClock /\ MaxClock \in Nat
      BY MasterAssumption DEF IInv, TypeOK, MasterTypeOK
    <3>2. UNCHANGED elapsed \/ (elapsed < MaxClock /\ elapsed' = elapsed + 1)
      OBVIOUS
    <3>. QED BY <3>1, <3>2
  <2>4. revents' \in [Slots -> SUBSET Events]
    <3>1. \A i \in Slots : Ready(i) \in SUBSET Events
      BY DEF Ready, Reported, Events
    <3>. QED BY <3>1 DEF IInv, TypeOK, MasterTypeOK
  <2>. QED BY <1>0, <2>1, <2>2, <2>3, <2>4 DEF IInv, TypeOK, MasterTypeOK, Running, MasterPcs
<1>3. mpc \in Running /\ mpc' \notin {"down", "ready", "returned"}
  BY <1>0 DEF Running, InLoop
<1>4. /\ SlotsInOrder' /\ SlotHoldsItsShare' /\ OffsetsInBounds' /\ OpenWhileRunning'
      /\ OthersAreIdle' /\ DoneIsCounted' /\ SuccessMeansAllDone' /\ FailureReleasesAll'
  BY <1>0, <1>3, TableKept
<1>5. EventsAreWatched'
  <2>1. CASE PollReady
    BY <2>1 DEF PollReady, EventsAreWatched, Ready, Watched
  <2>2. CASE ~PollReady
    BY <1>0, <2>2 DEF EventsAreWatched, Watched, IInv, MasterInv, LoopHead, PollReturnsNothing,
       PollTimesOut, PollInterrupted, PollFails, AcceptNothing, PassEnds, Tick, Alarm
  <2>. QED BY <2>1, <2>2
<1>6. RoomToAccept'
  BY <1>0 DEF RoomToAccept, FreeSlot, ListenReady, IInv, MasterInv, LoopHead, PollReady,
     PollReturnsNothing, PollTimesOut, PollInterrupted, PollFails, AcceptNothing, PassEnds, Tick,
     Alarm
<1>7. StatusFits'
  BY <1>0 DEF StatusFits, AllDone, IInv, MasterInv, LoopHead, PollReady, PollReturnsNothing,
     PollTimesOut, PollInterrupted, PollFails, AcceptNothing, PassEnds, Tick, Alarm, InLoop
<1>. QED BY <1>1, <1>2, <1>4, <1>5, <1>6, <1>7 DEF MasterInv

(* The death of the master process.                                        *)
LEMMA CrashKeeps ==
    ASSUME IInv, MasterCrash
    PROVE  NetTypeOK' /\ MasterTypeOK' /\ MasterInv'
<1>. USE DEF MasterCrash, MasterClosesAll
<1>1. NetTypeOK' /\ MasterTypeOK'
  BY EmptySeq DEF IInv, TypeOK, NetTypeOK, MasterTypeOK, MasterPcs
<1>2. mpc' = "crashed"
  OBVIOUS
<1>3. /\ SlotsInOrder' /\ SlotHoldsItsShare' /\ OffsetsInBounds' /\ OthersAreIdle'
      /\ SuccessMeansAllDone' /\ FailureReleasesAll'
  BY <1>2, TableKept
<1>4. /\ OpenWhileRunning' /\ EventsAreWatched' /\ RoomToAccept' /\ StatusFits'
      /\ DoneIsCounted'
  BY <1>2 DEF OpenWhileRunning, EventsAreWatched, RoomToAccept, StatusFits, DoneIsCounted,
     Running, InLoop
<1>. QED BY <1>1, <1>3, <1>4 DEF MasterInv
-----------------------------------------------------------------------------
(***************************************************************************)
(* The begin and the end of a run, and the end of the master.              *)
(***************************************************************************)
LEMMA RunBeginsKeeps ==
    ASSUME IInv, MasterRunBegins
    PROVE  NetTypeOK' /\ MasterTypeOK' /\ MasterInv'
<1>. USE DEF MasterRunBegins, NothingDone, NoResults, EmptyPacket
<1>1. NetTypeOK'
  BY DEF IInv, TypeOK, NetTypeOK, netVars
<1>2. MasterTypeOK'
  <2>1. NoResults \in [Slots -> ResultPacket]
    BY CodecAssumption, EmptySeq DEF Sizes, ResultPacket
  <2>2. runs' \in 0 .. MaxRuns /\ elapsed' \in 0 .. MaxClock
    BY MasterAssumption DEF IInv, TypeOK, MasterTypeOK
  <2>. QED BY <2>1, <2>2 DEF IInv, TypeOK, MasterTypeOK, MasterPcs, InLoop
<1>3. \A i \in Slots : workers[i].state \notin Transfers
  BY DEF IInv, MasterInv, OthersAreIdle
<1>4. workersCount \in Nat
  BY DEF IInv, TypeOK, MasterTypeOK
<1>5. SlotsInOrder' /\ SlotHoldsItsShare' /\ OffsetsInBounds' /\ OthersAreIdle'
  BY <1>3, <1>4 DEF IInv, MasterInv, SlotsInOrder, SlotHoldsItsShare, OffsetsInBounds,
     OthersAreIdle, Transfers
<1>6. OpenWhileRunning'
  BY <1>4, MasterAssumption DEF OpenWhileRunning, Slots
<1>7. EventsAreWatched' /\ RoomToAccept' /\ StatusFits' /\ SuccessMeansAllDone'
  BY DEF EventsAreWatched, RoomToAccept, StatusFits, SuccessMeansAllDone, Succeeded, InLoop
<1>8. DoneIsCounted'
  <2>1. {i \in Slots : i >= workersCount /\ workers[i].state = "Done"} = {}
    BY DEF IInv, MasterInv, SlotsInOrder, MasterWorkerPrepareEmpty
  <2>. QED BY <2>1, FS_EmptySet DEF DoneIsCounted
<1>9. FailureReleasesAll'
  BY DEF IInv, MasterInv, SlotsInOrder, FailureReleasesAll, FailedRun
<1>. QED BY <1>1, <1>2, <1>5, <1>6, <1>7, <1>8, <1>9 DEF MasterInv

(* What CloseAllWorkers makes of a slot is a slot with the same share.     *)
LEMMA ClosedSlot ==
    ASSUME NEW w \in MasterWorker, NEW st \in {"Done", "Failed"},
           NEW v, v = [w EXCEPT !.socketFd = NoFd, !.state = st]
    PROVE  /\ v \in MasterWorker /\ v.socketFd = NoFd /\ v.state = st
           /\ v.taskOffset = w.taskOffset /\ v.taskSize = w.taskSize
<1>1. st \in SlotStates
  BY DEF SlotStates
<1>. QED BY <1>1 DEF MasterWorker

(* The end of MasterRun, with and without the clean-up of a failure.       *)
LEMMA RunReturnsKeeps ==
    ASSUME IInv, MasterRunReturns
    PROVE  NetTypeOK' /\ MasterTypeOK' /\ MasterInv'
<1>. USE DEF MasterRunReturns
<1>1. /\ mpc = "finish" /\ mpc' = "returned" /\ status \in {0, 1}
      /\ UNCHANGED <<workersCount, slotsAtStart, servedBy, status, doneWorkers>>
  BY DEF IInv, TypeOK, MasterTypeOK
<1>a. /\ revents' \in [Slots -> SUBSET Events] /\ elapsed' \in 0 .. MaxClock
      /\ deadlineExpired' \in BOOLEAN
  <2>1. revents' \in [Slots -> SUBSET Events]
    BY DEF NoEvents
  <2>2. elapsed' \in 0 .. MaxClock
    BY MasterAssumption
  <2>3. deadlineExpired' \in BOOLEAN
    <3>1. deadlineExpired \in BOOLEAN
      BY DEF IInv, TypeOK, MasterTypeOK
    <3>. QED BY <3>1
  <2>. QED BY <2>1, <2>2, <2>3
<1>2. CASE status = 0
  <2>1. /\ UNCHANGED <<workers, results, masterFin, broken>>
    BY <1>2
  <2>2. slotsAtStart = 0 /\ \A i \in Slots : workers[i].state = "Done"
    <3>1. doneWorkers >= Capacity /\ doneWorkers = Cardinality(DoneSlots)
      BY <1>1, <1>2 DEF IInv, MasterInv, StatusFits, AllDone, DoneIsCounted, DoneSlots
    <3>. QED BY <3>1, EnoughMeansAll DEF IInv, TypeOK, MasterTypeOK
  <2>3. NetTypeOK'
    BY <2>1 DEF IInv, TypeOK, NetTypeOK
  <2>4. MasterTypeOK'
    BY <1>1, <1>a, <2>1 DEF IInv, TypeOK, MasterTypeOK, MasterPcs
  <2>5. SlotsInOrder' /\ SlotHoldsItsShare' /\ OffsetsInBounds'
    BY <1>1, <2>1, TableKept
  <2>6. OthersAreIdle' /\ SuccessMeansAllDone' /\ FailureReleasesAll'
    BY <1>1, <1>2, <2>1, <2>2 DEF OthersAreIdle, Transfers, Sending, Reading,
       SuccessMeansAllDone, FailureReleasesAll, FailedRun
  <2>. QED BY <1>1, <2>3, <2>4, <2>5, <2>6 DEF MasterInv, OpenWhileRunning, EventsAreWatched,
       RoomToAccept, StatusFits, DoneIsCounted, Running, InLoop
<1>3. CASE status = 1
  <2>1. CloseAllWorkers /\ FreeResults /\ MasterCloses(OpenFds)
    BY <1>3
  <2>2. NetTypeOK'
    BY <2>1 DEF MasterCloses, IInv, TypeOK, NetTypeOK
  <2>3. ASSUME NEW i \in Slots
        PROVE  /\ workers'[i] \in MasterWorker
               /\ i >= workersCount => workers'[i] = workers[i]
               /\ i < workersCount => /\ workers'[i].socketFd = NoFd
                                      /\ workers'[i].state \in {"Done", "Failed"}
                                      /\ workers'[i].taskOffset = workers[i].taskOffset
                                      /\ workers'[i].taskSize = workers[i].taskSize
    <3>1. workers[i] \in MasterWorker /\ i \in Int /\ workersCount \in Int
      BY MasterAssumption DEF IInv, TypeOK, MasterTypeOK, Slots
    <3>2. workers'[i] = IF i < workersCount
                        THEN [workers[i] EXCEPT !.socketFd = NoFd,
                                                !.state = IF @ = "Done" THEN "Done" ELSE "Failed"]
                        ELSE workers[i]
      BY <2>1 DEF CloseAllWorkers
    <3>3. CASE i < workersCount /\ workers[i].state = "Done"
      <4>1. workers'[i] = [workers[i] EXCEPT !.socketFd = NoFd, !.state = "Done"]
        BY <3>2, <3>3
      <4>2. /\ workers'[i] \in MasterWorker /\ workers'[i].socketFd = NoFd
            /\ workers'[i].state = "Done"
            /\ workers'[i].taskOffset = workers[i].taskOffset
            /\ workers'[i].taskSize = workers[i].taskSize
        BY <3>1, <4>1, ClosedSlot
      <4>. QED BY <3>1, <3>3, <4>2
    <3>4. CASE i < workersCount /\ workers[i].state # "Done"
      <4>1. workers'[i] = [workers[i] EXCEPT !.socketFd = NoFd, !.state = "Failed"]
        BY <3>2, <3>4
      <4>2. /\ workers'[i] \in MasterWorker /\ workers'[i].socketFd = NoFd
            /\ workers'[i].state = "Failed"
            /\ workers'[i].taskOffset = workers[i].taskOffset
            /\ workers'[i].taskSize = workers[i].taskSize
        BY <3>1, <4>1, ClosedSlot
      <4>. QED BY <3>1, <3>4, <4>2
    <3>5. CASE ~(i < workersCount)
      BY <3>1, <3>2, <3>5
    <3>. QED BY <3>1, <3>3, <3>4, <3>5
  <2>4. MasterTypeOK'
    <3>1. workers' \in [Slots -> MasterWorker]
      BY <2>1, <2>3 DEF CloseAllWorkers
    <3>2. results' \in [Slots -> ResultPacket]
      BY <2>1, CodecAssumption, EmptySeq DEF FreeResults, EmptyPacket, Sizes, ResultPacket
    <3>. QED BY <1>1, <1>a, <3>1, <3>2 DEF IInv, TypeOK, MasterTypeOK, MasterPcs
  <2>5. \A i \in Slots : workers'[i].state \notin Transfers
    BY <2>3 DEF IInv, TypeOK, MasterTypeOK, MasterInv, SlotsInOrder, MasterWorkerPrepareEmpty,
       Transfers, Sending, Reading, Slots
  <2>6. SlotsInOrder' /\ SlotHoldsItsShare' /\ OffsetsInBounds' /\ OthersAreIdle'
    BY <1>1, <2>3, <2>5 DEF IInv, MasterInv, SlotsInOrder, SlotHoldsItsShare, OffsetsInBounds,
       OthersAreIdle, Transfers, Incoming
  <2>7. FailureReleasesAll'
    <3>1. results' = NoResults
      BY <2>1 DEF FreeResults, NoResults
    <3>2. ASSUME NEW i \in Slots, i >= slotsAtStart, servedBy[i] # NoFd
          PROVE  masterFin'[servedBy[i]]
      <4>1. i < workersCount
        BY <3>2 DEF IInv, TypeOK, MasterTypeOK, MasterInv, SlotsInOrder, Slots
      <4>2. servedBy[i] \in Procs /\ servedBy[i] \in OpenFds
        BY <1>1, <3>2, <4>1 DEF IInv, MasterInv, OpenWhileRunning, Running, OpenFds
      <4>. QED BY <2>1, <4>2 DEF MasterCloses
    <3>. QED BY <1>1, <3>1, <3>2 DEF FailureReleasesAll, NoResults
  <2>. QED BY <1>1, <1>3, <2>2, <2>4, <2>6, <2>7 DEF MasterInv, OpenWhileRunning, EventsAreWatched,
       RoomToAccept, StatusFits, DoneIsCounted, SuccessMeansAllDone, Succeeded, Running, InLoop
<1>. QED BY <1>1, <1>2, <1>3

(* MasterDestroy closes every descriptor that is still open.               *)
LEMMA DestroyKeeps ==
    ASSUME IInv, MasterDestroy
    PROVE  NetTypeOK' /\ MasterTypeOK' /\ MasterInv'
<1>. USE DEF MasterDestroy
<1>1. NetTypeOK'
  BY EmptySeq DEF MasterClosesAll, IInv, TypeOK, NetTypeOK
<1>2. ASSUME NEW i \in Slots
      PROVE  /\ workers'[i] \in MasterWorker /\ workers'[i].state = workers[i].state
             /\ workers'[i].transferOffset = workers[i].transferOffset
             /\ workers'[i].taskOffset = workers[i].taskOffset
             /\ workers'[i].taskSize = workers[i].taskSize
             /\ workers'[i].sizeBuffer = workers[i].sizeBuffer
             /\ workers[i] = MasterWorkerPrepareEmpty => workers'[i] = workers[i]
  <2>1. workers[i] \in MasterWorker /\ workers'[i] = [workers[i] EXCEPT !.socketFd = NoFd]
    BY DEF IInv, TypeOK, MasterTypeOK
  <2>2. workers[i] = MasterWorkerPrepareEmpty => workers'[i] = workers[i]
    BY <2>1 DEF MasterWorkerPrepareEmpty
  <2>. QED BY <2>1, <2>2 DEF MasterWorker
<1>3. MasterTypeOK'
  BY <1>2 DEF IInv, TypeOK, MasterTypeOK, MasterPcs
<1>4. SlotsInOrder' /\ SlotHoldsItsShare' /\ OthersAreIdle'
  BY <1>2 DEF IInv, MasterInv, SlotsInOrder, SlotHoldsItsShare, OthersAreIdle
<1>5. OffsetsInBounds'
  BY <1>2 DEF IInv, MasterInv, OffsetsInBounds, Incoming
<1>6. /\ OpenWhileRunning' /\ EventsAreWatched' /\ RoomToAccept' /\ StatusFits'
      /\ DoneIsCounted' /\ SuccessMeansAllDone' /\ FailureReleasesAll'
  BY DEF OpenWhileRunning, EventsAreWatched, RoomToAccept, StatusFits, DoneIsCounted,
     SuccessMeansAllDone, FailureReleasesAll, Succeeded, FailedRun, Running, InLoop
<1>. QED BY <1>1, <1>3, <1>4, <1>5, <1>6 DEF MasterInv
-----------------------------------------------------------------------------
(***************************************************************************)
(* A new slot.                                                             *)
(***************************************************************************)
LEMMA AcceptFailsKeeps ==
    ASSUME IInv, AcceptFails
    PROVE  NetTypeOK' /\ MasterTypeOK' /\ MasterInv'
<1>. USE DEF AcceptFails, Stop
<1>1. mpc = "accept" /\ mpc' = "finish" /\ status' = 1
  OBVIOUS
<1>2. NetTypeOK'
  <2>1. CASE UNCHANGED netVars
    BY <2>1 DEF netVars, IInv, TypeOK, NetTypeOK
  <2>2. CASE acceptQueue # <<>> /\ acceptQueue' = Tail(acceptQueue)
             /\ MasterCloses({Head(acceptQueue)}) /\ UNCHANGED <<listening, down, up, workerFin>>
    <3>1. acceptQueue' \in Seq(Procs)
      BY <2>2, HeadTailProperties DEF IInv, TypeOK, NetTypeOK
    <3>. QED BY <2>2, <3>1 DEF MasterCloses, IInv, TypeOK, NetTypeOK
  <2>. QED BY <2>1, <2>2
<1>3. MasterTypeOK'
  BY DEF IInv, TypeOK, MasterTypeOK, MasterPcs
<1>4. mpc \in Running /\ mpc' \in Running
  BY <1>1 DEF Running, InLoop
<1>5. /\ SlotsInOrder' /\ SlotHoldsItsShare' /\ OffsetsInBounds' /\ OpenWhileRunning'
      /\ OthersAreIdle' /\ DoneIsCounted' /\ SuccessMeansAllDone' /\ FailureReleasesAll'
  BY <1>1, <1>4, TableKept
<1>6. EventsAreWatched' /\ RoomToAccept' /\ StatusFits'
  BY <1>1 DEF EventsAreWatched, RoomToAccept, StatusFits, InLoop
<1>. QED BY <1>2, <1>3, <1>5, <1>6 DEF MasterInv

(* MasterAcceptWorker fills the first unused slot and no other.            *)
LEMMA AcceptWorkerKeeps ==
    ASSUME IInv, AcceptWorker
    PROVE  NetTypeOK' /\ MasterTypeOK' /\ MasterInv'
<1>. USE DEF AcceptWorker
<1>. DEFINE n == workersCount
            p == Head(acceptQueue)
<1>1. /\ mpc = "accept" /\ mpc' = "serve" /\ n \in Slots /\ n \in Nat /\ workersCount' = n + 1
      /\ Capacity \in Nat /\ slotsAtStart \in 0 .. Capacity /\ slotsAtStart <= n
  BY MasterAssumption DEF IInv, TypeOK, MasterTypeOK, MasterInv, RoomToAccept, FreeSlot,
     SlotsInOrder, Slots
<1>2. p \in Procs /\ acceptQueue' \in Seq(Procs)
  BY HeadTailProperties DEF IInv, TypeOK, NetTypeOK
<1>3. NetTypeOK'
  BY <1>2 DEF IInv, TypeOK, NetTypeOK
<1>4. Assigned(n, p) \in MasterWorker
  <2>1. TaskBegin(n) \in Nat /\ TaskLength(n) \in Sizes /\ TaskLength(n) \in Int
    BY <1>1, ShareFacts, CodecAssumption DEF Sizes
  <2>2. ClusterEncodeSize(TaskLength(n)) \in [1 .. HeaderSize -> Byte]
    BY <2>1, HeaderRoundTrip
  <2>3. 0 \in Sizes /\ "SendTaskSize" \in SlotStates
    BY CodecAssumption DEF Sizes, SlotStates, Sending
  <2>. QED BY <1>2, <2>1, <2>2, <2>3 DEF Assigned, MasterWorker
<1>5. /\ workers' = [workers EXCEPT ![n] = Assigned(n, p)]
      /\ servedBy' = [servedBy EXCEPT ![n] = p]
  OBVIOUS
<1>6. MasterTypeOK'
  <2>1. workers' \in [Slots -> MasterWorker] /\ servedBy' \in [Slots -> Procs \cup {NoFd}]
    BY <1>2, <1>4, <1>5 DEF IInv, TypeOK, MasterTypeOK
  <2>2. workersCount' \in 0 .. Capacity
    BY <1>1 DEF Slots
  <2>. QED BY <2>1, <2>2 DEF IInv, TypeOK, MasterTypeOK, MasterPcs, InLoop
<1>7. /\ workers'[n] = Assigned(n, p) /\ servedBy'[n] = p
      /\ \A i \in Slots \ {n} : workers'[i] = workers[i] /\ servedBy'[i] = servedBy[i]
  BY <1>1, <1>5 DEF IInv, TypeOK, MasterTypeOK
<1>8. workers[n].state = "MasterWorkerEmpty"
  BY <1>1 DEF IInv, MasterInv, SlotsInOrder, MasterWorkerPrepareEmpty
<1>9. \A i \in Slots : i < n + 1 /\ i # n => i < n
  BY <1>1 DEF Slots
<1>. HIDE DEF n, p
<1>10. SlotsInOrder'
  BY <1>1, <1>7 DEF IInv, MasterInv, SlotsInOrder, Slots, n
<1>11. SlotHoldsItsShare'
  <2>. SUFFICES ASSUME NEW i \in Slots, i < n + 1
                PROVE  /\ workers'[i].taskOffset = TaskBegin(i)
                       /\ workers'[i].taskSize = TaskLength(i)
    BY <1>1 DEF SlotHoldsItsShare
  <2>1. CASE i = n
    BY <1>7, <2>1 DEF Assigned
  <2>2. CASE i # n
    BY <1>7, <1>9, <2>2 DEF IInv, MasterInv, SlotHoldsItsShare, n
  <2>. QED BY <2>1, <2>2
<1>12. OffsetsInBounds'
  BY <1>7 DEF IInv, MasterInv, OffsetsInBounds, Incoming, Assigned, Reading
<1>13. OpenWhileRunning'
  BY <1>1, <1>2, <1>7, <1>9 DEF IInv, MasterInv, OpenWhileRunning, Running, InLoop, Assigned, n
<1>14. OthersAreIdle'
  BY <1>1, <1>7 DEF IInv, MasterInv, OthersAreIdle, Slots
<1>15. EventsAreWatched'
  BY <1>1, <1>7, <1>8 DEF IInv, MasterInv, EventsAreWatched, Watched, Sending, Reading, Slots, n
<1>16. RoomToAccept' /\ StatusFits' /\ SuccessMeansAllDone' /\ FailureReleasesAll'
  BY <1>1 DEF IInv, MasterInv, RoomToAccept, StatusFits, InLoop, SuccessMeansAllDone,
     FailureReleasesAll, Succeeded, FailedRun
<1>17. DoneIsCounted'
  <2>1. DoneSlots' = DoneSlots
    BY <1>7, <1>8, SameDone DEF Assigned
  <2>. QED BY <1>1, <2>1 DEF IInv, MasterInv, DoneIsCounted, DoneSlots, InLoop
<1>. QED BY <1>3, <1>6, <1>10, <1>11, <1>12, <1>13, <1>14, <1>15, <1>16, <1>17 DEF MasterInv
-----------------------------------------------------------------------------
(***************************************************************************)
(* The service of a slot.  The slot that is served is one of this run, its *)
(* transfer is under way and its socket is open.                           *)
(***************************************************************************)
LEMMA ServedSlot ==
    ASSUME IInv, mpc = "serve", NEW i \in Slots, NextSlot(i)
    PROVE  /\ workers[i] \in MasterWorker /\ results[i] \in ResultPacket
           /\ workers[i].state \in Transfers /\ workers[i].state # "Done"
           /\ i < workersCount /\ i >= slotsAtStart
           /\ workers[i].socketFd \in Procs
<1>1. workers[i] \in MasterWorker /\ results[i] \in ResultPacket
  BY DEF IInv, TypeOK, MasterTypeOK
<1>2. i < workersCount /\ workers[i].state \in Transfers
  BY DEF IInv, MasterInv, EventsAreWatched, Watched, NextSlot, Transfers
<1>3. i >= slotsAtStart
  BY <1>2, MasterAssumption DEF IInv, TypeOK, MasterTypeOK, MasterInv, OthersAreIdle, Slots
<1>4. workers[i].socketFd \in Procs
  BY <1>2, <1>3 DEF IInv, MasterInv, OpenWhileRunning, Running, InLoop
<1>. QED BY <1>1, <1>2, <1>3, <1>4 DEF Transfers, Sending, Reading

(***************************************************************************)
(* What a step that serves slot i must satisfy: it keeps the slot's socket *)
(* and share, stays within what is being filled, and counts the slot when, *)
(* and only when, it becomes Done.                                         *)
(***************************************************************************)
LEMMA SlotStepKeeps ==
    ASSUME IInv, mpc = "serve", NEW i \in Slots, NextSlot(i),
           NEW w \in MasterWorker, workers' = [workers EXCEPT ![i] = w],
           NEW r \in ResultPacket, results' = [results EXCEPT ![i] = r],
           w.socketFd = workers[i].socketFd,
           w.taskOffset = workers[i].taskOffset, w.taskSize = workers[i].taskSize,
           w.state = "ReadResultSize" => w.transferOffset <= Len(w.sizeBuffer),
           w.state = "ReadResultData" => w.transferOffset <= Len(r.data),
           doneWorkers' = IF w.state = "Done" THEN doneWorkers + 1 ELSE doneWorkers,
           UNCHANGED <<runs, workersCount, listenIn, deadlineExpired, elapsed, servedBy,
                       slotsAtStart>>,
           \/ mpc' = "finish" /\ status' = 1 /\ UNCHANGED revents
           \/ UNCHANGED <<mpc, status>> /\ revents' = [revents EXCEPT ![i] = {}]
    PROVE  MasterTypeOK' /\ MasterInv'
<1>1. /\ workers'[i] = w /\ results'[i] = r
      /\ \A j \in Slots \ {i} : workers'[j] = workers[j] /\ results'[j] = results[j]
  BY DEF IInv, TypeOK, MasterTypeOK
<1>2. /\ workers[i].state # "Done" /\ workers[i].state \in Transfers
      /\ i < workersCount /\ i >= slotsAtStart
  BY ServedSlot
<1>3. MasterTypeOK'
  <2>1. workers' \in [Slots -> MasterWorker] /\ results' \in [Slots -> ResultPacket]
    BY DEF IInv, TypeOK, MasterTypeOK
  <2>2. doneWorkers' \in Nat
    BY DEF IInv, TypeOK, MasterTypeOK
  <2>3. revents' \in [Slots -> SUBSET Events]
    BY DEF IInv, TypeOK, MasterTypeOK
  <2>4. mpc' \in MasterPcs /\ status' \in {0, 1}
    BY DEF IInv, TypeOK, MasterTypeOK, MasterPcs
  <2>. QED BY <2>1, <2>2, <2>3, <2>4 DEF IInv, TypeOK, MasterTypeOK
<1>4. SlotsInOrder' /\ SlotHoldsItsShare'
  BY <1>1, <1>2, MasterAssumption DEF IInv, TypeOK, MasterTypeOK, MasterInv, SlotsInOrder,
     SlotHoldsItsShare, Slots
<1>5. OffsetsInBounds'
  BY <1>1 DEF IInv, MasterInv, OffsetsInBounds, Incoming, Reading
<1>6. OpenWhileRunning'
  BY <1>1 DEF IInv, MasterInv, OpenWhileRunning, Running, InLoop
<1>7. OthersAreIdle'
  BY <1>1, <1>2, MasterAssumption DEF IInv, TypeOK, MasterTypeOK, MasterInv, OthersAreIdle, Slots
<1>8. EventsAreWatched'
  BY <1>1 DEF IInv, TypeOK, MasterTypeOK, MasterInv, EventsAreWatched, Watched
<1>9. RoomToAccept' /\ StatusFits' /\ SuccessMeansAllDone' /\ FailureReleasesAll'
  BY DEF IInv, MasterInv, RoomToAccept, StatusFits, InLoop, SuccessMeansAllDone,
     FailureReleasesAll, Succeeded, FailedRun
<1>10. DoneIsCounted'
  <2>1. doneWorkers = Cardinality(DoneSlots)
    BY DEF IInv, MasterInv, DoneIsCounted, DoneSlots, InLoop
  <2>2. CASE w.state = "Done"
    <3>1. Cardinality(DoneSlots') = Cardinality(DoneSlots) + 1
      BY <1>1, <1>2, <2>2, OneMoreDone
    <3>. QED BY <2>1, <2>2, <3>1 DEF DoneIsCounted, DoneSlots
  <2>3. CASE w.state # "Done"
    <3>1. DoneSlots' = DoneSlots
      BY <1>1, <1>2, <2>3, SameDone
    <3>. QED BY <2>1, <2>3, <3>1 DEF DoneIsCounted, DoneSlots
  <2>. QED BY <2>2, <2>3
<1>. QED BY <1>3, <1>4, <1>5, <1>6, <1>7, <1>8, <1>9, <1>10 DEF MasterInv

(* A failing slot ends the loop with status 1.                             *)
LEMMA FailSlotKeeps ==
    ASSUME IInv, mpc = "serve", NEW i \in Slots, NextSlot(i), FailSlot(i),
           NEW r \in ResultPacket, results' = [results EXCEPT ![i] = r],
           up' \in [Procs -> Seq(Byte)]
    PROVE  NetTypeOK' /\ MasterTypeOK' /\ MasterInv'
<1>. DEFINE w == [workers[i] EXCEPT !.state = "Failed"]
<1>1. workers[i] \in MasterWorker /\ "Failed" \in SlotStates
  BY ServedSlot DEF SlotStates
<1>2. /\ w \in MasterWorker /\ w.state = "Failed" /\ w.socketFd = workers[i].socketFd
      /\ w.taskOffset = workers[i].taskOffset /\ w.taskSize = workers[i].taskSize
  BY <1>1 DEF MasterWorker
<1>3. workers' = [workers EXCEPT ![i] = w]
  BY DEF FailSlot, IInv, TypeOK, MasterTypeOK
<1>4. NetTypeOK'
  BY DEF FailSlot, IInv, TypeOK, NetTypeOK
<1>. HIDE DEF w
<1>5. MasterTypeOK' /\ MasterInv'
  BY <1>2, <1>3, SlotStepKeeps DEF FailSlot, Stop
<1>. QED BY <1>4, <1>5

(* What WritePart still has to send is a part of the header or of the data. *)
LEMMA OutgoingFacts ==
    ASSUME IInv, mpc = "serve", NEW i \in Slots, NextSlot(i), workers[i].state \in Sending
    PROVE  Outgoing(i) \in Seq(Byte) /\ Len(Outgoing(i)) \in Nat
<1>1. workers[i] \in MasterWorker /\ i < workersCount
  BY ServedSlot
<1>2. CASE workers[i].state = "SendTaskSize"
  <2>1. workers[i].sizeBuffer \in [1 .. HeaderSize -> Byte]
    BY <1>1 DEF MasterWorker
  <2>2. workers[i].sizeBuffer \in Seq(Byte)
    BY <2>1, HeaderIsSeq
  <2>. QED BY <1>2, <2>2, LenProperties DEF Outgoing
<1>3. CASE workers[i].state # "SendTaskSize"
  <2>1. /\ workers[i].taskOffset = TaskBegin(i) /\ workers[i].taskSize = TaskLength(i)
    BY <1>1 DEF IInv, MasterInv, SlotHoldsItsShare
  <2>2. /\ workers[i].taskOffset + 1 \in Nat \ {0}
        /\ workers[i].taskOffset + workers[i].taskSize \in Int
        /\ workers[i].taskOffset + workers[i].taskSize <= Len(Data)
    BY <2>1, ShareFacts, CodecAssumption DEF Sizes
  <2>3. Data \in Seq(Byte)
    BY MasterAssumption
  <2>4. Outgoing(i) \in Seq(Byte)
    BY <1>3, <2>2, <2>3, PartOfSeq DEF Outgoing
  <2>. QED BY <2>4, LenProperties
<1>. QED BY <1>2, <1>3

(* Pushing a part of it into the socket leaves a sequence of bytes there.  *)
LEMMA PushKeeps ==
    ASSUME IInv, mpc = "serve", NEW i \in Slots, NextSlot(i), workers[i].state \in Sending,
           NEW n \in Int, n <= Unsent(i), Push(i, n)
    PROVE  down' \in [Procs -> Seq(Byte)]
<1>. DEFINE off == workers[i].transferOffset
            fd == workers[i].socketFd
            part == SubSeq(Outgoing(i), off + 1, off + n)
<1>1. /\ off \in Nat /\ fd \in Procs
      /\ Outgoing(i) \in Seq(Byte) /\ Len(Outgoing(i)) \in Nat
  BY ServedSlot, OutgoingFacts DEF MasterWorker
<1>2. down \in [Procs -> Seq(Byte)] /\ down[fd] \in Seq(Byte)
  BY <1>1 DEF IInv, TypeOK, NetTypeOK
<1>3. off + n <= Len(Outgoing(i))
  BY <1>1 DEF Unsent
<1>4. part \in Seq(Byte)
  BY <1>1, <1>3, PartOfSeq
<1>5. down' = [down EXCEPT ![fd] = @ \o part]
  BY DEF Push
<1>. HIDE DEF part, fd, off
<1>6. down[fd] \o part \in Seq(Byte)
  BY <1>2, <1>4, ConcatOfSeqs
<1>. QED BY <1>2, <1>5, <1>6

(* SendTaskSize and SendTaskData, whether the phase ends or stalls.        *)
LEMMA SendKeeps ==
    ASSUME IInv, NEW i \in Slots, SendCompletes(i) \/ SendStalls(i)
    PROVE  NetTypeOK' /\ MasterTypeOK' /\ MasterInv'
<1>1. mpc = "serve" /\ NextSlot(i) /\ workers[i].state \in Sending
  BY DEF SendCompletes, SendStalls, Serving
<1>2. workers[i] \in MasterWorker /\ results[i] \in ResultPacket
      /\ Len(Outgoing(i)) \in Nat /\ Unsent(i) \in Int
  BY <1>1, ServedSlot, OutgoingFacts DEF Unsent, MasterWorker
<1>3. results' = [results EXCEPT ![i] = results[i]]
  BY DEF SendCompletes, SendStalls, IInv, TypeOK, MasterTypeOK
<1>4. CASE SendCompletes(i)
  <2>. DEFINE w == [workers[i] EXCEPT !.transferOffset = 0, !.state = AfterSending(@)]
  <2>1. /\ AfterSending(workers[i].state) \in SlotStates \ {"Done"}
        /\ AfterSending(workers[i].state) # "ReadResultData"
    BY DEF AfterSending, SlotStates, Sending, Reading
  <2>2. /\ w \in MasterWorker /\ w.state = AfterSending(workers[i].state)
        /\ w.socketFd = workers[i].socketFd /\ w.transferOffset = 0
        /\ w.taskOffset = workers[i].taskOffset /\ w.taskSize = workers[i].taskSize
        /\ w.sizeBuffer \in [1 .. HeaderSize -> Byte]
    BY <1>2, <2>1 DEF MasterWorker
  <2>3. workers' = [workers EXCEPT ![i] = w]
    BY <1>4 DEF SendCompletes, IInv, TypeOK, MasterTypeOK
  <2>4. NetTypeOK'
    <3>1. Push(i, Unsent(i)) /\ Unsent(i) <= Unsent(i)
      BY <1>2, <1>4 DEF SendCompletes
    <3>2. down' \in [Procs -> Seq(Byte)]
      BY <1>1, <1>2, <3>1, PushKeeps
    <3>. QED BY <1>4, <3>2 DEF SendCompletes, IInv, TypeOK, NetTypeOK
  <2>5. Len(w.sizeBuffer) >= 0
    BY <2>2, CodecAssumption
  <2>6. /\ doneWorkers' = IF w.state = "Done" THEN doneWorkers + 1 ELSE doneWorkers
        /\ w.state = "ReadResultSize" => w.transferOffset <= Len(w.sizeBuffer)
        /\ w.state # "ReadResultData"
    BY <1>4, <2>1, <2>2, <2>5 DEF SendCompletes
  <2>7. /\ UNCHANGED <<runs, workersCount, listenIn, deadlineExpired, elapsed, servedBy,
                       slotsAtStart, mpc, status>>
        /\ revents' = [revents EXCEPT ![i] = {}]
    BY <1>4 DEF SendCompletes, Served
  <2>. HIDE DEF w
  <2>8. MasterTypeOK' /\ MasterInv'
    BY <1>1, <1>2, <1>3, <2>2, <2>3, <2>6, <2>7, SlotStepKeeps
  <2>. QED BY <2>4, <2>8
<1>5. CASE SendStalls(i)
  <2>1. PICK n \in 1 .. Least(Unsent(i) - 1, Room(down[workers[i].socketFd])) :
          /\ Push(i, n)
          /\ workers' = [workers EXCEPT ![i].transferOffset = @ + n]
    BY <1>5 DEF SendStalls
  <2>2. n \in Nat /\ n <= Unsent(i)
    <3>1. Len(down[workers[i].socketFd]) \in Nat /\ SocketBuffer \in Nat
      BY <1>1, ServedSlot, NetAssumption, LenProperties DEF IInv, TypeOK, NetTypeOK
    <3>2. Room(down[workers[i].socketFd]) \in Int
      BY <3>1 DEF Room
    <3>. QED BY <1>2, <3>2 DEF Least
  <2>. DEFINE w == [workers[i] EXCEPT !.transferOffset = @ + n]
  <2>3. /\ w \in MasterWorker /\ w.state = workers[i].state
        /\ w.socketFd = workers[i].socketFd
        /\ w.taskOffset = workers[i].taskOffset /\ w.taskSize = workers[i].taskSize
    BY <1>2, <2>2 DEF MasterWorker
  <2>4. workers' = [workers EXCEPT ![i] = w]
    BY <2>1 DEF IInv, TypeOK, MasterTypeOK
  <2>5. down' \in [Procs -> Seq(Byte)]
    BY <1>1, <2>1, <2>2, PushKeeps
  <2>6. NetTypeOK'
    BY <1>5, <2>5 DEF SendStalls, IInv, TypeOK, NetTypeOK
  <2>7. w.state \notin {"Done", "ReadResultSize", "ReadResultData"}
    BY <1>1, <2>3 DEF Sending
  <2>8. /\ UNCHANGED <<runs, workersCount, listenIn, deadlineExpired, elapsed, servedBy,
                       slotsAtStart, mpc, status, doneWorkers>>
        /\ revents' = [revents EXCEPT ![i] = {}]
    BY <1>5 DEF SendStalls, Served
  <2>. HIDE DEF w
  <2>9. MasterTypeOK' /\ MasterInv'
    BY <1>1, <1>2, <1>3, <2>3, <2>4, <2>7, <2>8, SlotStepKeeps
  <2>. QED BY <2>6, <2>9
<1>. QED BY <1>4, <1>5

(* What ReadPart takes stays within the header or the result packet.       *)
LEMMA IncomingFacts ==
    ASSUME IInv, mpc = "serve", NEW i \in Slots, NextSlot(i), workers[i].state \in Reading
    PROVE  /\ workers[i].transferOffset + Arrived(i) \in Nat
           /\ workers[i].transferOffset + Arrived(i) <= Len(Incoming(i))
           /\ Filled(i) \in Seq(Byte \cup {Uninit}) /\ Len(Filled(i)) = Len(Incoming(i))
           /\ workers[i].state = "ReadResultSize" => Filled(i) \in [1 .. HeaderSize -> Byte]
           /\ RestBytes(up[workers[i].socketFd], Arrived(i)) \in Seq(Byte)
<1>. DEFINE off == workers[i].transferOffset
            s == up[workers[i].socketFd]
            B == Byte \cup {Uninit}
<1>1. /\ off \in Nat /\ s \in Seq(Byte) /\ Len(s) \in Nat
      /\ \A k \in 1 .. Len(s) : s[k] \in Byte
  BY ServedSlot DEF MasterWorker, IInv, TypeOK, NetTypeOK
<1>2. workers[i].state = "ReadResultSize" =>
          Incoming(i) \in [1 .. HeaderSize -> Byte] /\ Len(Incoming(i)) = HeaderSize
  BY ServedSlot, HeaderIsSeq DEF MasterWorker, Incoming
<1>3. Incoming(i) \in Seq(B) /\ Len(Incoming(i)) \in Nat
  <2>1. CASE workers[i].state = "ReadResultSize"
    <3>1. Incoming(i) \in Seq(Byte)
      BY <1>2, <2>1, HeaderIsSeq
    <3>. QED BY <3>1
  <2>2. CASE workers[i].state # "ReadResultSize"
    BY <2>2, ServedSlot DEF ResultPacket, Incoming
  <2>. QED BY <2>1, <2>2
<1>4. off <= Len(Incoming(i))
  BY DEF IInv, MasterInv, OffsetsInBounds
<1>5. Arrived(i) \in 0 .. Len(s) /\ off + Arrived(i) <= Len(Incoming(i))
  BY <1>1, <1>3, <1>4 DEF Arrived, Least
<1>6. RestBytes(s, Arrived(i)) \in Seq(Byte)
  BY <1>1, <1>5, PartOfSeq DEF RestBytes
<1>7. Filled(i) = [k \in 1 .. Len(Incoming(i)) |->
                      IF k \in off + 1 .. off + Arrived(i) THEN s[k - off] ELSE Incoming(i)[k]]
  BY DEF Filled
<1>8. ASSUME NEW k \in 1 .. Len(Incoming(i)), k \in off + 1 .. off + Arrived(i)
      PROVE  s[k - off] \in Byte
  <2>. HIDE DEF off, s
  <2>1. k \in Int /\ off + 1 <= k /\ k <= off + Arrived(i)
    BY <1>1, <1>5, <1>8
  <2>2. k - off \in 1 .. Len(s)
    BY <1>1, <1>5, <2>1
  <2>. QED BY <1>1, <2>2
<1>9. Filled(i) \in [1 .. Len(Incoming(i)) -> B]
  <2>1. \A k \in 1 .. Len(Incoming(i)) : Incoming(i)[k] \in B
    BY <1>3
  <2>. QED BY <1>7, <1>8, <2>1
<1>10. Filled(i) \in Seq(B) /\ Len(Filled(i)) = Len(Incoming(i))
  BY <1>3, <1>9
<1>11. workers[i].state = "ReadResultSize" => Filled(i) \in [1 .. HeaderSize -> Byte]
  BY <1>2, <1>7, <1>8
<1>. QED BY <1>1, <1>5, <1>6, <1>10, <1>11

(* What the three successful ways of reading a slot have in common.        *)
LEMMA ReceiveFrame ==
    ASSUME IInv, NEW i \in Slots, ReadHeader(i) \/ ReadData(i) \/ ReadStalls(i)
    PROVE  /\ mpc = "serve" /\ NextSlot(i) /\ workers[i].state \in Reading
           /\ workers[i] \in MasterWorker /\ results[i] \in ResultPacket
           /\ NetTypeOK'
           /\ UNCHANGED <<runs, workersCount, listenIn, deadlineExpired, elapsed, servedBy,
                          slotsAtStart, mpc, status>>
           /\ revents' = [revents EXCEPT ![i] = {}]
<1>1. /\ mpc = "serve" /\ NextSlot(i) /\ workers[i].state \in Reading
  BY DEF ReadHeader, ReadData, ReadStalls, Receiving, Serving, Reading
<1>2. workers[i] \in MasterWorker /\ results[i] \in ResultPacket
  BY <1>1, ServedSlot
<1>3. Pull(i) /\ UNCHANGED <<listening, acceptQueue, down, masterFin, workerFin, broken>>
  BY DEF ReadHeader, ReadData, ReadStalls
<1>4. NetTypeOK'
  BY <1>1, <1>3, IncomingFacts DEF Pull, IInv, TypeOK, NetTypeOK
<1>5. /\ UNCHANGED <<runs, workersCount, listenIn, deadlineExpired, elapsed, servedBy,
                     slotsAtStart, mpc, status>>
      /\ revents' = [revents EXCEPT ![i] = {}]
  BY DEF ReadHeader, ReadData, ReadStalls, Served
<1>. QED BY <1>1, <1>2, <1>4, <1>5

(* A complete result header sizes the packet, or ends an empty slot.       *)
LEMMA ReadHeaderKeeps ==
    ASSUME IInv, NEW i \in Slots, ReadHeader(i)
    PROVE  NetTypeOK' /\ MasterTypeOK' /\ MasterInv'
<1>. DEFINE size == DecodedSize(i)
            w == [workers[i] EXCEPT !.sizeBuffer = Filled(i), !.resultSize = size,
                                    !.transferOffset = 0, !.state = AfterHeader(size)]
            r == [data |-> [k \in 1 .. size |-> Uninit], size |-> size]
<1>1. /\ mpc = "serve" /\ NextSlot(i) /\ workers[i].state = "ReadResultSize" /\ size \in Sizes
  BY DEF ReadHeader, Receiving, Serving
<1>2. Filled(i) \in [1 .. HeaderSize -> Byte]
  BY <1>1, IncomingFacts DEF Reading
<1>3. Len(Filled(i)) = HeaderSize /\ HeaderSize \in Nat
  BY <1>2, HeaderIsSeq, CodecAssumption
<1>4. workers' = [workers EXCEPT ![i] = w] /\ results' = [results EXCEPT ![i] = r]
  BY DEF ReadHeader, IInv, TypeOK, MasterTypeOK
<1>5. doneWorkers' = CountedAfterHeader(size)
  BY DEF ReadHeader
<1>. HIDE DEF size
<1>6. AfterHeader(size) \in SlotStates /\ (AfterHeader(size) = "Done" <=> size = 0)
      /\ AfterHeader(size) # "ReadResultSize"
  BY DEF AfterHeader, SlotStates, Reading
<1>7. /\ w \in MasterWorker /\ w.state = AfterHeader(size) /\ w.transferOffset = 0
      /\ w.socketFd = workers[i].socketFd /\ w.taskOffset = workers[i].taskOffset
      /\ w.taskSize = workers[i].taskSize
  BY <1>1, <1>2, <1>6, ReceiveFrame DEF MasterWorker
<1>8. r \in ResultPacket /\ Len(r.data) >= 0
  <2>1. size \in Nat
    BY <1>1, CodecAssumption DEF Sizes
  <2>2. [k \in 1 .. size |-> Uninit] \in Seq(Byte \cup {Uninit})
    BY <2>1
  <2>. QED BY <1>1, <2>1, <2>2 DEF ResultPacket
<1>9. doneWorkers' = IF w.state = "Done" THEN doneWorkers + 1 ELSE doneWorkers
  BY <1>5, <1>6, <1>7 DEF CountedAfterHeader
<1>. HIDE DEF w, r
<1>10. /\ w.state # "ReadResultSize"
       /\ w.state = "ReadResultData" => w.transferOffset <= Len(r.data)
  BY <1>6, <1>7, <1>8
<1>11. MasterTypeOK' /\ MasterInv'
  BY <1>1, <1>4, <1>7, <1>8, <1>9, <1>10, ReceiveFrame, SlotStepKeeps
<1>. QED BY <1>11, ReceiveFrame

(* ReadData ends a slot: its packet is complete and it is counted. *)
LEMMA ReadDataKeeps ==
    ASSUME IInv, NEW i \in Slots, ReadData(i)
    PROVE  NetTypeOK' /\ MasterTypeOK' /\ MasterInv'
<1>. DEFINE w == [workers[i] EXCEPT !.transferOffset = 0, !.state = "Done"]
            r == [results[i] EXCEPT !.data = Filled(i)]
<1>1. mpc = "serve" /\ NextSlot(i) /\ workers[i].state \in Reading
  BY ReceiveFrame
<1>2. Filled(i) \in Seq(Byte \cup {Uninit})
  BY <1>1, IncomingFacts
<1>3. workers' = [workers EXCEPT ![i] = w] /\ results' = [results EXCEPT ![i] = r]
  BY DEF ReadData, IInv, TypeOK, MasterTypeOK
<1>4. doneWorkers' = doneWorkers + 1
  BY DEF ReadData
<1>5. "Done" \in SlotStates
  BY DEF SlotStates
<1>6. /\ w \in MasterWorker /\ w.state = "Done" /\ w.socketFd = workers[i].socketFd
      /\ w.taskOffset = workers[i].taskOffset /\ w.taskSize = workers[i].taskSize
  BY <1>5, ReceiveFrame DEF MasterWorker
<1>7. r \in ResultPacket
  BY <1>2, ReceiveFrame DEF ResultPacket
<1>. HIDE DEF w, r
<1>8. MasterTypeOK' /\ MasterInv'
  BY <1>1, <1>3, <1>4, <1>6, <1>7, ReceiveFrame, SlotStepKeeps
<1>. QED BY <1>8, ReceiveFrame

(* ReadStalls keeps what arrived and moves the offset, not past the end. *)
LEMMA ReadStallsKeeps ==
    ASSUME IInv, NEW i \in Slots, ReadStalls(i)
    PROVE  NetTypeOK' /\ MasterTypeOK' /\ MasterInv'
<1>. DEFINE n == workers[i].transferOffset + Arrived(i)
<1>1. mpc = "serve" /\ NextSlot(i) /\ workers[i].state \in Reading
  BY ReceiveFrame
<1>2. /\ n \in Nat /\ n <= Len(Filled(i)) /\ Filled(i) \in Seq(Byte \cup {Uninit})
      /\ workers[i].state = "ReadResultSize" => Filled(i) \in [1 .. HeaderSize -> Byte]
  BY <1>1, IncomingFacts
<1>3. UNCHANGED doneWorkers
  BY DEF ReadStalls
<1>4. CASE workers[i].state = "ReadResultSize"
  <2>. DEFINE w == [workers[i] EXCEPT !.sizeBuffer = Filled(i), !.transferOffset = n]
              r == results[i]
  <2>1. workers' = [workers EXCEPT ![i] = w] /\ results' = [results EXCEPT ![i] = r]
    BY <1>4 DEF ReadStalls, IInv, TypeOK, MasterTypeOK
  <2>. HIDE DEF n
  <2>2. /\ w \in MasterWorker /\ w.state = "ReadResultSize" /\ w.socketFd = workers[i].socketFd
        /\ w.taskOffset = workers[i].taskOffset /\ w.taskSize = workers[i].taskSize
        /\ w.transferOffset <= Len(w.sizeBuffer)
    BY <1>2, <1>4, ReceiveFrame DEF MasterWorker
  <2>3. r \in ResultPacket
    BY ReceiveFrame
  <2>. HIDE DEF w, r
  <2>4. MasterTypeOK' /\ MasterInv'
    BY <1>1, <1>3, <2>1, <2>2, <2>3, ReceiveFrame, SlotStepKeeps
  <2>. QED BY <2>4, ReceiveFrame
<1>5. CASE workers[i].state = "ReadResultData"
  <2>. DEFINE w == [workers[i] EXCEPT !.transferOffset = n]
              r == [results[i] EXCEPT !.data = Filled(i)]
  <2>1. workers' = [workers EXCEPT ![i] = w] /\ results' = [results EXCEPT ![i] = r]
    BY <1>5 DEF ReadStalls, IInv, TypeOK, MasterTypeOK
  <2>. HIDE DEF n
  <2>2. /\ w \in MasterWorker /\ w.state = "ReadResultData" /\ w.socketFd = workers[i].socketFd
        /\ w.taskOffset = workers[i].taskOffset /\ w.taskSize = workers[i].taskSize
        /\ w.transferOffset = n
    BY <1>2, <1>5, ReceiveFrame DEF MasterWorker
  <2>3. r \in ResultPacket /\ r.data = Filled(i)
    BY <1>2, ReceiveFrame DEF ResultPacket
  <2>4. w.transferOffset <= Len(r.data)
    BY <1>2, <2>2, <2>3
  <2>. HIDE DEF w, r
  <2>5. MasterTypeOK' /\ MasterInv'
    BY <1>1, <1>3, <2>1, <2>2, <2>3, <2>4, ReceiveFrame, SlotStepKeeps
  <2>. QED BY <2>5, ReceiveFrame
<1>. QED BY <1>1, <1>4, <1>5 DEF Reading

(* The steps in which a slot fails, whatever becomes of its packet. *)
LEMMA FailuresKeep ==
    ASSUME IInv, NEW i \in Slots,
           SlotHasError(i) \/ SendFails(i) \/ ReadFails(i) \/ HeaderFails(i)
    PROVE  NetTypeOK' /\ MasterTypeOK' /\ MasterInv'
<1>1. mpc = "serve" /\ NextSlot(i) /\ FailSlot(i)
  BY DEF SlotHasError, SendFails, ReadFails, HeaderFails, Receiving, Serving
<1>2. results \in [Slots -> ResultPacket]
  BY DEF IInv, TypeOK, MasterTypeOK
<1>2a. up' \in [Procs -> Seq(Byte)]
  <2>1. up \in [Procs -> Seq(Byte)]
    BY DEF IInv, TypeOK, NetTypeOK
  <2>2. UNCHANGED up \/ (Pull(i) /\ workers[i].state \in Reading)
    BY DEF SlotHasError, SendFails, ReadFails, HeaderFails, Receiving, Serving, Reading
  <2>3. CASE Pull(i) /\ workers[i].state \in Reading
    <3>1. RestBytes(up[workers[i].socketFd], Arrived(i)) \in Seq(Byte)
      BY <1>1, <2>3, IncomingFacts
    <3>. QED BY <2>1, <2>3, <3>1 DEF Pull
  <2>. QED BY <2>1, <2>2, <2>3
<1>3. CASE UNCHANGED results
  <2>1. results' = [results EXCEPT ![i] = results[i]] /\ results[i] \in ResultPacket
    BY <1>2, <1>3
  <2>. QED BY <1>1, <1>2a, <2>1, FailSlotKeeps
<1>4. CASE results' # results
  <2>. DEFINE r == [data |-> <<>>, size |-> DecodedSize(i)]
  <2>1. DecodedSize(i) \in Sizes /\ results' = [results EXCEPT ![i] = r]
    BY <1>4 DEF SlotHasError, SendFails, ReadFails, HeaderFails
  <2>2. <<>> \in Seq(Byte \cup {Uninit})
    BY EmptySeq
  <2>3. r \in ResultPacket
    BY <2>1, <2>2 DEF ResultPacket
  <2>. HIDE DEF r
  <2>. QED BY <1>1, <1>2a, <2>1, <2>3, FailSlotKeeps
<1>. QED BY <1>3, <1>4
-----------------------------------------------------------------------------
(***************************************************************************)
(* All the steps together.                                                 *)
(***************************************************************************)
LEMMA ServeKeeps ==
    ASSUME IInv, ServeSlot
    PROVE  NetTypeOK' /\ MasterTypeOK' /\ MasterInv'
<1>1. PICK i \in Slots :
          \/ SlotHasError(i)
          \/ SendCompletes(i) \/ SendStalls(i) \/ SendFails(i)
          \/ ReadHeader(i) \/ HeaderFails(i) \/ ReadData(i) \/ ReadStalls(i) \/ ReadFails(i)
  BY DEF ServeSlot
<1>2. CASE SlotHasError(i) \/ SendFails(i) \/ ReadFails(i) \/ HeaderFails(i)
  BY <1>2, FailuresKeep
<1>3. CASE SendCompletes(i) \/ SendStalls(i)
  BY <1>3, SendKeeps
<1>4. CASE ReadHeader(i)
  BY <1>4, ReadHeaderKeeps
<1>5. CASE ReadData(i)
  BY <1>5, ReadDataKeeps
<1>6. CASE ReadStalls(i)
  BY <1>6, ReadStallsKeeps
<1>. QED BY <1>1, <1>2, <1>3, <1>4, <1>5, <1>6

(* Every step of the master.                                               *)
LEMMA MasterNextKeeps ==
    ASSUME IInv, MasterNext
    PROVE  NetTypeOK' /\ MasterTypeOK' /\ MasterInv'
<1>1. CASE MasterInit \/ MasterInitFails
  BY <1>1, SetUpKeeps
<1>2. CASE LoopHead \/ PollReady \/ PollReturnsNothing \/ AcceptNothing \/ PassEnds \/ Tick \/ Alarm
  BY <1>2, LoopKeeps
<1>3. CASE MasterRunBegins
  BY <1>3, RunBeginsKeeps
<1>4. CASE MasterRunReturns
  BY <1>4, RunReturnsKeeps
<1>5. CASE MasterDestroy
  BY <1>5, DestroyKeeps
<1>6. CASE MasterCrash
  BY <1>6, CrashKeeps
<1>7. CASE AcceptFails
  BY <1>7, AcceptFailsKeeps
<1>8. CASE AcceptWorker
  BY <1>8, AcceptWorkerKeeps
<1>9. CASE ServeSlot
  BY <1>9, ServeKeeps
<1>. QED BY <1>1, <1>2, <1>3, <1>4, <1>5, <1>6, <1>7, <1>8, <1>9
         DEF MasterNext, MasterStep, MasterFault

(* MasterWorkerPrepareEmpty makes a slot of the right type.                *)
LEMMA EmptySlot == MasterWorkerPrepareEmpty \in MasterWorker
<1>. DEFINE header == [k \in 1 .. HeaderSize |-> 0]
<1>1. 0 \in Sizes /\ 0 \in Byte
  BY CodecAssumption DEF Sizes, Byte
<1>2. header \in [1 .. HeaderSize -> Byte]
  BY <1>1
<1>3. "MasterWorkerEmpty" \in SlotStates
  BY DEF SlotStates
<1>. HIDE DEF header
<1>4. [socketFd |-> NoFd, state |-> "MasterWorkerEmpty", transferOffset |-> 0,
       taskOffset |-> 0, taskSize |-> 0, resultSize |-> 0, sizeBuffer |-> header]
          \in MasterWorker
  BY <1>1, <1>2, <1>3 DEF MasterWorker
<1>. QED BY <1>4 DEF MasterWorkerPrepareEmpty, header

(* The initial state satisfies the invariant.                              *)
LEMMA InitHolds == Init => IInv
<1>. SUFFICES ASSUME Init PROVE IInv
  OBVIOUS
<1>. USE DEF Init, NetInit, MasterStateInit, WorkerStateInit
<1>1. NetTypeOK
  BY EmptySeq DEF NetTypeOK
<1>2. <<>> \in Packets /\ 0 \in Sizes /\ HeaderSize \in Nat /\ 0 \in Byte
  <2>1. 0 \in Sizes /\ HeaderSize \in Nat /\ 0 \in Byte
    BY CodecAssumption DEF Sizes, Byte
  <2>2. <<>> \in Seq(Byte) /\ Len(<<>>) = 0
    BY EmptySeq
  <2>. QED BY <2>1, <2>2, PacketIsSeq
<1>3. MasterTypeOK
  <2>1. MasterWorkerPrepareEmpty \in MasterWorker
    BY EmptySlot
  <2>2. NoResults \in [Slots -> ResultPacket]
    BY <1>2, EmptySeq DEF NoResults, EmptyPacket, ResultPacket
  <2>3. /\ NoEvents \in [Slots -> SUBSET Events]
        /\ [i \in Slots |-> NoFd] \in [Slots -> Procs \cup {NoFd}]
    BY DEF NoEvents
  <2>4. 0 \in 0 .. MaxRuns /\ 0 \in 0 .. Capacity /\ 0 \in 0 .. MaxClock
    BY MasterAssumption
  <2>5. "down" \in MasterPcs
    BY DEF MasterPcs
  <2>. QED BY <2>1, <2>2, <2>3, <2>4, <2>5 DEF MasterTypeOK
<1>4. WorkerTypeOK
  BY <1>2, EmptySeq DEF WorkerTypeOK, WorkerPcs
<1>5. \A i \in Slots : workers[i] = MasterWorkerPrepareEmpty /\ servedBy[i] = NoFd
  OBVIOUS
<1>6. SlotsInOrder
  BY <1>5 DEF SlotsInOrder
<1>7. SlotHoldsItsShare
  <2>1. \A i \in Slots : ~(i < 0)
    BY MasterAssumption DEF Slots
  <2>. QED BY <2>1 DEF SlotHoldsItsShare
<1>8. OffsetsInBounds /\ OthersAreIdle
  BY <1>5 DEF OffsetsInBounds, OthersAreIdle, MasterWorkerPrepareEmpty, Transfers, Sending, Reading
<1>9. /\ OpenWhileRunning /\ EventsAreWatched /\ RoomToAccept /\ StatusFits /\ DoneIsCounted
      /\ SuccessMeansAllDone /\ FailureReleasesAll
  BY DEF OpenWhileRunning, EventsAreWatched, RoomToAccept, StatusFits, DoneIsCounted,
     SuccessMeansAllDone, Succeeded, FailureReleasesAll, FailedRun, Running, InLoop
<1>10. WorkerInv
  BY DEF WorkerInv, ReadingTask
<1>. QED BY <1>1, <1>3, <1>4, <1>6, <1>7, <1>8, <1>9, <1>10 DEF IInv, TypeOK, MasterInv

(* Every step of the cluster preserves it.                                 *)
LEMMA StepKeeps == IInv /\ [Next]_vars => IInv'
<1>. SUFFICES ASSUME IInv, [Next]_vars PROVE IInv'
  OBVIOUS
<1>1. CASE MasterNext /\ UNCHANGED workerVars
  BY <1>1, MasterNextKeeps, WorkerKept DEF IInv, TypeOK
<1>2. ASSUME NEW p \in Procs, WorkerStep(p) \/ WorkerCrash(p), UNCHANGED masterVars
      PROVE  IInv'
  <2>1. NetTypeOK' /\ WorkerTypeOK' /\ WorkerInv' /\ UNCHANGED masterFin
    BY <1>2, WorkerStepKeeps
  <2>. QED BY <1>2, <2>1, MasterKept DEF IInv, TypeOK
<1>3. CASE Net /\ UNCHANGED <<masterVars, workerVars>>
  <2>1. NetTypeOK' /\ UNCHANGED masterFin
    BY <1>3, NetKeeps
  <2>. QED BY <1>3, <2>1, MasterKept, WorkerKept DEF IInv, TypeOK
<1>4. CASE UNCHANGED vars
  <2>1. UNCHANGED masterVars /\ UNCHANGED workerVars /\ UNCHANGED netVars
    BY <1>4 DEF vars
  <2>2. NetTypeOK' /\ UNCHANGED masterFin
    BY <2>1 DEF IInv, TypeOK, NetTypeOK, netVars
  <2>. QED BY <2>1, <2>2, MasterKept, WorkerKept DEF IInv, TypeOK
<1>. QED BY <1>1, <1>2, <1>3, <1>4 DEF Next, Terminated
-----------------------------------------------------------------------------
(***************************************************************************)
(* The inductive invariant: slots, sockets, offsets, the count of finished *)
(* workers and the outcome of MasterRun fit together in every state.       *)
(***************************************************************************)
THEOREM InvariantHolds == Spec => []IInv
<1>. QED BY InitHolds, StepKeeps, PTL DEF Spec

(***************************************************************************)
(* Type correctness: in particular no more than Capacity workers are ever  *)
(* accepted, and a task and a result packet always fit a size_t.           *)
(***************************************************************************)
THEOREM TypeCorrect == Spec => []TypeOK
<1>1. IInv => TypeOK
  BY DEF IInv
<1>. QED BY <1>1, InvariantHolds, PTL

(***************************************************************************)
(* The exit condition of the loop of MasterRun: doneWorkers is the number  *)
(* of slots that became Done in the present run, whatever the order of the *)
(* events and however often MasterRun was called before.                   *)
(***************************************************************************)
THEOREM DoneWorkersCountsDoneSlots == Spec => []DoneIsCounted
<1>1. IInv => DoneIsCounted
  BY DEF IInv, MasterInv
<1>. QED BY <1>1, InvariantHolds, PTL

(***************************************************************************)
(* The clean-up of MasterRun: a run that returns 1 leaves its caller no    *)
(* result packet, and every worker it accepted has been hung up on.        *)
(***************************************************************************)
THEOREM FailedRunReleasesAll == Spec => []FailureReleasesAll
<1>1. IInv => FailureReleasesAll
  BY DEF IInv, MasterInv
<1>. QED BY <1>1, InvariantHolds, PTL

(***************************************************************************)
(* A Master whose slots were used by an earlier MasterRun never returns 0  *)
(* again: the old slots are neither served nor counted.                    *)
(***************************************************************************)
THEOREM UsedMasterFails == Spec => []UsedMasterNeverSucceeds
<1>1. IInv => UsedMasterNeverSucceeds
  <2>. SUFFICES ASSUME IInv, slotsAtStart > 0 PROVE ~Succeeded
    BY DEF UsedMasterNeverSucceeds
  <2>1. slotsAtStart # 0
    BY MasterAssumption DEF IInv, TypeOK, MasterTypeOK
  <2>. QED BY <2>1 DEF IInv, MasterInv, SuccessMeansAllDone
<1>. QED BY <1>1, InvariantHolds, PTL

(***************************************************************************)
(* A MasterRun that returns 0 has a finished worker in every slot: the     *)
(* loop is never left with status 0 for any other reason.                  *)
(***************************************************************************)
THEOREM SuccessIsComplete == Spec => []SuccessMeansAllDone
<1>1. IInv => SuccessMeansAllDone
  BY DEF IInv, MasterInv
<1>. QED BY <1>1, InvariantHolds, PTL
-----------------------------------------------------------------------------
(***************************************************************************)
(* Late runs.                                                              *)
(***************************************************************************)
(* A run that can no longer succeed stays that way until it has returned ... *)
LEMMA DoomedInRun ==
    ASSUME IInv, MasterNext, runs' = runs, Doomed
    PROVE  Doomed'
<1>. USE DEF InLoop
<1>1. /\ mpc \in MasterPcs /\ elapsed \in Nat /\ MaxTime \in Int /\ status \in {0, 1}
      /\ Capacity \in Nat \ {0} /\ doneWorkers \in Nat /\ runs \in Nat
  BY MasterAssumption DEF IInv, TypeOK, MasterTypeOK
<1>2. CASE mpc = "destroyed" \/ mpc = "crashed"
  BY <1>2 DEF Doomed, MasterNext, MasterStep, MasterFault, MasterInit, MasterInitFails,
     MasterRunBegins, LoopHead, PollReady, PollReturnsNothing, PollTimesOut, PollInterrupted,
     PollFails, AcceptWorker, AcceptNothing, AcceptFails, ServeSlot, SlotHasError, Serving,
     SendCompletes, SendStalls, SendFails, ReadHeader, HeaderFails, ReadData, ReadStalls,
     ReadFails, Receiving, PassEnds, MasterRunReturns, MasterDestroy, MasterCrash, Tick, Alarm
<1>3. CASE mpc \in {"finish", "returned"} /\ status = 1
  <2>1. MasterRunReturns \/ MasterCrash \/ MasterRunBegins \/ MasterDestroy
    BY <1>3 DEF MasterNext, MasterStep, MasterFault, MasterInit, MasterInitFails, LoopHead,
       PollReady, PollReturnsNothing, PollTimesOut, PollInterrupted, PollFails, AcceptWorker,
       AcceptNothing, AcceptFails, ServeSlot, SlotHasError, Serving, SendCompletes, SendStalls,
       SendFails, ReadHeader, HeaderFails, ReadData, ReadStalls, ReadFails, Receiving, PassEnds,
       Tick, Alarm
  <2>2. CASE MasterRunReturns
    BY <1>3, <2>2 DEF MasterRunReturns, Doomed
  <2>3. CASE MasterCrash \/ MasterDestroy
    BY <2>3 DEF MasterCrash, MasterDestroy, Doomed
  <2>4. CASE MasterRunBegins
    BY <1>1, <2>4 DEF MasterRunBegins
  <2>. QED BY <2>1, <2>2, <2>3, <2>4
<1>4. CASE mpc \in InLoop /\ elapsed > MaxTime /\ (mpc # "serve" => doneWorkers < Capacity)
  <2>1. CASE LoopHead
    BY <1>1, <1>4, <2>1 DEF LoopHead, AllDone, Stop, Doomed
  <2>2. CASE PollReady \/ PollReturnsNothing
    BY <1>1, <1>4, <2>2 DEF PollReady, PollReturnsNothing, PollTimesOut, PollInterrupted,
       PollFails, Stop, Doomed
  <2>3. CASE AcceptWorker \/ AcceptNothing \/ AcceptFails
    BY <1>1, <1>4, <2>3 DEF AcceptWorker, AcceptNothing, AcceptFails, Stop, Doomed
  <2>4. CASE ServeSlot
    BY <1>1, <1>4, <2>4 DEF ServeSlot, SlotHasError, Serving, SendCompletes, SendStalls, SendFails,
       ReadHeader, HeaderFails, ReadData, ReadStalls, ReadFails, Receiving, FailSlot, Stop, Doomed
  <2>5. CASE PassEnds
    BY <1>1, <1>4, <2>5 DEF PassEnds, PassTooLate, Stop, Doomed
  <2>6. CASE Tick \/ Alarm
    BY <1>1, <1>4, <2>6 DEF Tick, Alarm, Doomed
  <2>7. CASE MasterCrash
    BY <2>7 DEF MasterCrash, Doomed
  <2>. QED BY <1>4, <2>1, <2>2, <2>3, <2>4, <2>5, <2>6, <2>7
           DEF MasterNext, MasterStep, MasterFault, MasterInit, MasterInitFails, MasterRunBegins,
               MasterRunReturns, MasterDestroy
<1>. QED BY <1>2, <1>3, <1>4 DEF Doomed

(* ... nor does a later call change what is true of this one.             *)
LEMMA DoomedKept ==
    ASSUME IInv, IInv', [Next]_vars, NEW run \in Nat, runs >= run /\ (runs = run => Doomed)
    PROVE  runs' >= run /\ (runs' = run => Doomed')
<1>1. runs \in Nat /\ runs' \in Nat
  BY MasterAssumption DEF IInv, TypeOK, MasterTypeOK
<1>2. CASE MasterNext
  <2>1. runs' = runs \/ runs' = runs + 1
    BY <1>2 DEF MasterNext, MasterStep, MasterFault, MasterInit, MasterInitFails,
     MasterRunBegins, LoopHead, PollReady, PollReturnsNothing, 
     AcceptWorker, AcceptNothing, AcceptFails, ServeSlot, SlotHasError, FailSlot,
     SendCompletes, SendStalls, SendFails, ReadHeader, HeaderFails, ReadData, ReadStalls,
     ReadFails, PassEnds, MasterRunReturns, MasterDestroy, MasterCrash, Tick, Alarm
  <2>. QED BY <1>1, <1>2, <2>1, DoomedInRun
<1>3. CASE UNCHANGED masterVars
  BY <1>1, <1>3 DEF masterVars, Doomed
<1>. QED BY <1>2, <1>3 DEF Next, Terminated, vars

(***************************************************************************)
(* A call of MasterRun that is past its limit with results outstanding     *)
(* does not return 0, however the last results arrive.                     *)
(***************************************************************************)
THEOREM LateRunsFail == Spec => LateRunNeverSucceeds
<1>1. ASSUME NEW run \in 1 .. MaxRuns PROVE Spec => LateRunFails(run)
  <2>. DEFINE Lost == runs >= run /\ (runs = run => Doomed)
  <2>1. run \in Nat /\ (IInv => runs \in Nat)
    BY MasterAssumption DEF IInv, TypeOK, MasterTypeOK
  <2>2. IInv /\ Late /\ runs = run => Lost
    BY <2>1 DEF Late, Doomed
  <2>3. IInv /\ IInv' /\ Lost /\ [Next]_vars => Lost'
    BY <2>1, DoomedKept
  <2>4. Lost => ~(Succeeded /\ runs = run)
    BY DEF Doomed, Succeeded, InLoop
  <2>. HIDE DEF Lost
  <2>. QED BY <2>2, <2>3, <2>4, InvariantHolds, PTL DEF Spec, LateRunFails
<1>. QED BY <1>1 DEF LateRunNeverSucceeds
=============================================================================
