------------------------- MODULE ClusterStreamProofs -------------------------
(***************************************************************************)
(* The byte streams of Cluster: however the transfers are cut up, a worker *)
(* computes on exactly its share and the master ends up with exactly what  *)
(* the worker computed.  Proved for every packet, every number of workers, *)
(* every socket buffer and every set of faults.                            *)
(***************************************************************************)
EXTENDS ClusterProofs

(***************************************************************************)
(* Stretches of a packet on the wire.                                      *)
(***************************************************************************)
LEMMA WireFacts ==
    ASSUME NEW packet \in Packets
    PROVE  /\ packet \in Seq(Byte) /\ Len(packet) \in Nat /\ Len(packet) \in Sizes
           /\ HeaderSize \in Nat /\ HeaderSize > 0 /\ WireSize(packet) \in Nat
           /\ ClusterEncodeSize(Len(packet)) \in Seq(Byte)
           /\ ClusterEncodeSize(Len(packet)) \in [1 .. HeaderSize -> Byte]
           /\ Len(ClusterEncodeSize(Len(packet))) = HeaderSize
           /\ ClusterDecodeSize(ClusterEncodeSize(Len(packet))) = Len(packet)
<1>1. packet \in Seq(Byte) /\ Len(packet) \in Nat /\ Len(packet) \in Sizes
  BY PacketIsSeq, LenProperties
<1>2. HeaderSize \in Nat /\ HeaderSize > 0
  BY CodecAssumption
<1>3. /\ ClusterEncodeSize(Len(packet)) \in [1 .. HeaderSize -> Byte]
      /\ ClusterDecodeSize(ClusterEncodeSize(Len(packet))) = Len(packet)
  BY <1>1, HeaderRoundTrip
<1>4. ClusterEncodeSize(Len(packet)) \in Seq(Byte) /\ Len(ClusterEncodeSize(Len(packet))) = HeaderSize
  BY <1>3, HeaderIsSeq
<1>. QED BY <1>1, <1>2, <1>3, <1>4 DEF WireSize

(* Nothing is a stretch of every packet, wherever it begins.               *)
LEMMA CarriesNothing ==
    ASSUME NEW packet \in Packets, NEW at \in Nat, at <= WireSize(packet)
    PROVE  Carries(<<>>, packet, at)
BY DEF Carries

(* Two adjacent stretches make one.                                        *)
LEMMA CarriesMore ==
    ASSUME NEW packet \in Packets, NEW at \in Nat, NEW bytes \in Seq(Byte), NEW part \in Seq(Byte),
           Carries(bytes, packet, at), Carries(part, packet, at + Len(bytes))
    PROVE  Carries(bytes \o part, packet, at) /\ Len(bytes \o part) = Len(bytes) + Len(part)
<1>. DEFINE both == bytes \o part
<1>1. /\ Len(bytes) \in Nat /\ Len(part) \in Nat /\ Len(both) = Len(bytes) + Len(part)
      /\ \A k \in 1 .. Len(bytes) + Len(part) :
            both[k] = IF k <= Len(bytes) THEN bytes[k] ELSE part[k - Len(bytes)]
  BY ConcatProperties, LenProperties, Zenon
<1>. HIDE DEF both
<1>2. at + Len(both) <= WireSize(packet)
  <2>1. at + Len(both) = at + Len(bytes) + Len(part)
    BY <1>1
  <2>. QED BY <2>1 DEF Carries
<1>3. ASSUME NEW k \in 1 .. Len(both) PROVE both[k] = OnWire(packet, at + k)
  <2>1. CASE k <= Len(bytes)
    BY <1>1, <2>1 DEF Carries
  <2>2. CASE k > Len(bytes)
    <3>1. PICK j \in 1 .. Len(part) : j = k - Len(bytes)
      BY <1>1, <2>2
    <3>2. both[k] = part[j]
      BY <1>1, <2>2, <3>1
    <3>3. part[j] = OnWire(packet, at + Len(bytes) + j)
      BY <3>1 DEF Carries
    <3>4. at + Len(bytes) + j = at + k
      BY <1>1, <3>1
    <3>. QED BY <3>2, <3>3, <3>4
  <2>. QED BY <1>1, <2>1, <2>2
<1>. QED BY <1>1, <1>2, <1>3 DEF Carries, both

(* A stretch can be cut in two.                                            *)
LEMMA CarriesLess ==
    ASSUME NEW packet \in Packets, NEW at \in Nat, NEW bytes \in Seq(Byte), NEW n \in 0 .. Len(bytes),
           Carries(bytes, packet, at)
    PROVE  /\ FirstBytes(bytes, n) \in Seq(Byte) /\ Len(FirstBytes(bytes, n)) = n
           /\ Carries(FirstBytes(bytes, n), packet, at)
           /\ RestBytes(bytes, n) \in Seq(Byte) /\ Len(RestBytes(bytes, n)) = Len(bytes) - n
           /\ Carries(RestBytes(bytes, n), packet, at + n)
<1>1. Len(bytes) \in Nat /\ n \in Nat /\ n <= Len(bytes)
  BY LenProperties
<1>3. /\ FirstBytes(bytes, n) \in Seq(Byte) /\ Len(FirstBytes(bytes, n)) = n
      /\ \A k \in 1 .. n : FirstBytes(bytes, n)[k] = bytes[k]
  <2>1. 0 + n <= Len(bytes) /\ 0 + 1 = 1 /\ 0 + n = n /\ \A k \in 1 .. n : 0 + k = k
    BY <1>1
  <2>2. /\ SubSeq(bytes, 1, n) \in Seq(Byte) /\ Len(SubSeq(bytes, 1, n)) = n
        /\ \A k \in 1 .. n : SubSeq(bytes, 1, n)[k] = bytes[0 + k]
    BY <1>1, <2>1, PartElements
  <2>. QED BY <2>1, <2>2 DEF FirstBytes
<1>4. /\ RestBytes(bytes, n) \in Seq(Byte) /\ Len(RestBytes(bytes, n)) = Len(bytes) - n
      /\ \A k \in 1 .. Len(bytes) - n : RestBytes(bytes, n)[k] = bytes[n + k]
  <2>. DEFINE m == Len(bytes) - n
  <2>1. m \in Nat /\ n + m = Len(bytes)
    BY <1>1
  <2>. HIDE DEF m
  <2>2. /\ SubSeq(bytes, n + 1, n + m) \in Seq(Byte) /\ Len(SubSeq(bytes, n + 1, n + m)) = m
        /\ \A k \in 1 .. m : SubSeq(bytes, n + 1, n + m)[k] = bytes[n + k]
    BY <1>1, <2>1, PartElements
  <2>. QED BY <2>1, <2>2 DEF RestBytes, m
<1>5. at + Len(bytes) <= WireSize(packet) /\ WireSize(packet) \in Int
  BY WireFacts DEF Carries
<1>6. Carries(FirstBytes(bytes, n), packet, at)
  BY <1>1, <1>3, <1>5 DEF Carries
<1>7. Carries(RestBytes(bytes, n), packet, at + n)
  <2>1. ASSUME NEW k \in 1 .. Len(bytes) - n
        PROVE  RestBytes(bytes, n)[k] = OnWire(packet, at + n + k)
    <3>1. n + k \in 1 .. Len(bytes) /\ at + (n + k) = at + n + k
      BY <1>1
    <3>. QED BY <1>4, <3>1 DEF Carries
  <2>2. at + n + (Len(bytes) - n) = at + Len(bytes)
    BY <1>1
  <2>. QED BY <1>4, <1>5, <2>1, <2>2 DEF Carries
<1>. QED BY <1>3, <1>4, <1>6, <1>7

(* A stretch from the beginning that is as long as the header is it.       *)
LEMMA CarriesHeader ==
    ASSUME NEW packet \in Packets, NEW bytes \in Seq(Byte), Carries(bytes, packet, 0),
           Len(bytes) = HeaderSize
    PROVE  bytes = ClusterEncodeSize(Len(packet))
<1>. DEFINE header == ClusterEncodeSize(Len(packet))
<1>1. header \in Seq(Byte) /\ Len(header) = HeaderSize /\ HeaderSize \in Nat
  BY WireFacts
<1>2. \A k \in 1 .. HeaderSize : bytes[k] = header[k]
  BY <1>1 DEF Carries, OnWire
<1>. HIDE DEF header
<1>3. bytes = header
  BY <1>1, <1>2, SeqEqual
<1>. QED BY <1>3 DEF header

(* The byte of the data that is on the wire behind the header.             *)
LEMMA DataOnWire ==
    ASSUME NEW packet \in Packets, NEW k \in Nat \ {0}
    PROVE  OnWire(packet, HeaderSize + k) = packet[k]
<1>. DEFINE j == HeaderSize + k
<1>1. j \in Int /\ ~(j <= HeaderSize) /\ j - HeaderSize = k
  BY WireFacts
<1>. HIDE DEF j
<1>2. OnWire(packet, j) = packet[k]
  BY <1>1 DEF OnWire
<1>. QED BY <1>2 DEF j

(* A stretch behind the header that is as long as the data is the data.    *)
LEMMA CarriesData ==
    ASSUME NEW packet \in Packets, NEW bytes \in Seq(Byte), Carries(bytes, packet, HeaderSize),
           Len(bytes) = Len(packet)
    PROVE  bytes = packet
<1>1. packet \in Seq(Byte) /\ Len(packet) \in Nat /\ HeaderSize \in Nat
  BY WireFacts
<1>2. ASSUME NEW k \in 1 .. Len(bytes) PROVE bytes[k] = packet[k]
  <2>1. bytes[k] = OnWire(packet, HeaderSize + k)
    BY DEF Carries
  <2>. QED BY <1>1, <2>1, DataOnWire
<1>. QED BY <1>1, <1>2, SeqEqual

(* A part of the header is a stretch of the packet ...                     *)
LEMMA PartOfHeader ==
    ASSUME NEW packet \in Packets, NEW off \in Nat, NEW n \in Nat, off + n <= HeaderSize
    PROVE  LET part == SubSeq(ClusterEncodeSize(Len(packet)), off + 1, off + n)
           IN  part \in Seq(Byte) /\ Len(part) = n /\ Carries(part, packet, off)
<1>. DEFINE header == ClusterEncodeSize(Len(packet))
            part == SubSeq(header, off + 1, off + n)
<1>1. header \in Seq(Byte) /\ Len(header) = HeaderSize /\ HeaderSize \in Nat
      /\ Len(packet) \in Nat
  BY WireFacts
<1>. HIDE DEF header
<1>3. /\ part \in Seq(Byte) /\ Len(part) = n
      /\ \A k \in 1 .. n : part[k] = header[off + k]
  BY <1>1, PartElements
<1>. HIDE DEF part
<1>4. \A k \in 1 .. n : off + k <= HeaderSize
  BY <1>1
<1>5. Carries(part, packet, off)
  BY <1>1, <1>3, <1>4 DEF Carries, OnWire, WireSize, header
<1>. QED BY <1>3, <1>5 DEF part, header

(* ... and so is a part of the data.                                       *)
LEMMA PartOfData ==
    ASSUME NEW packet \in Packets, NEW off \in Nat, NEW n \in Nat, off + n <= Len(packet)
    PROVE  LET part == SubSeq(packet, off + 1, off + n)
           IN  part \in Seq(Byte) /\ Len(part) = n /\ Carries(part, packet, HeaderSize + off)
<1>. DEFINE part == SubSeq(packet, off + 1, off + n)
<1>1. packet \in Seq(Byte) /\ Len(packet) \in Nat /\ HeaderSize \in Nat
  BY WireFacts
<1>3. /\ part \in Seq(Byte) /\ Len(part) = n
      /\ \A k \in 1 .. n : part[k] = packet[off + k]
  BY <1>1, PartElements
<1>. HIDE DEF part
<1>4. ASSUME NEW k \in 1 .. n PROVE part[k] = OnWire(packet, HeaderSize + off + k)
  <2>. DEFINE j == HeaderSize + off + k
  <2>1. j \in Int /\ ~(j <= HeaderSize) /\ j - HeaderSize = off + k
    BY <1>1
  <2>. HIDE DEF j
  <2>2. OnWire(packet, j) = packet[off + k]
    BY <2>1 DEF OnWire
  <2>. QED BY <1>3, <2>2 DEF j
<1>5. Carries(part, packet, HeaderSize + off)
  BY <1>1, <1>3, <1>4 DEF Carries, WireSize
<1>. QED BY <1>3, <1>5 DEF part
-----------------------------------------------------------------------------
(***************************************************************************)
(* What the packets and the channels of a state are.                       *)
(***************************************************************************)
(* The share of a slot ends where the next one begins.                     *)
LEMMA ShareEnds ==
    ASSUME NEW i \in Slots
    PROVE  TaskBegin(i) + TaskLength(i) = TaskBegin(i + 1) /\ TaskBegin(i + 1) \in Nat
<1>1. TaskBegin(i) \in Nat
  BY ShareFacts
<1>2. i + 1 \in 0 .. Capacity /\ Capacity \in Nat \ {0} /\ Len(Data) \in Nat
  BY MasterAssumption, LenProperties DEF Slots
<1>3. TaskBegin(i + 1) \in Nat
  BY <1>2, SplitPointTiles DEF TaskBegin
<1>. QED BY <1>1, <1>3 DEF TaskLength

(* It is a packet that a worker may get, and be asked to answer.           *)
LEMMA ShareIsPacket ==
    ASSUME NEW i \in Slots
    PROVE  /\ Share(i) \in Packets /\ Len(Share(i)) = TaskLength(i)
           /\ MethodResults(Share(i)) \subseteq Packets
<1>1. /\ TaskBegin(i) \in Nat /\ TaskLength(i) \in Sizes /\ TaskLength(i) \in Nat
      /\ TaskBegin(i) + TaskLength(i) <= Len(Data)
  BY ShareFacts, CodecAssumption DEF Sizes
<1>2. Data \in Seq(Byte)
  BY MasterAssumption
<1>3. TaskBegin(i) + TaskLength(i) = TaskBegin(i + 1)
  BY ShareEnds
<1>4. Share(i) \in Seq(Byte) /\ Len(Share(i)) = TaskLength(i)
  <2>. DEFINE part == SubSeq(Data, TaskBegin(i) + 1, TaskBegin(i) + TaskLength(i))
  <2>1. part \in Seq(Byte) /\ Len(part) = TaskLength(i)
    BY <1>1, <1>2, PartElements
  <2>2. Share(i) = part
    BY <1>3 DEF Share
  <2>. QED BY <2>1, <2>2
<1>. QED BY <1>1, <1>4, PacketIsSeq, MethodAssumption

(* The types of what a worker and its connection hold.                     *)
LEMMA StreamTypes ==
    ASSUME IInv, NEW p \in Procs
    PROVE  /\ down[p] \in Seq(Byte) /\ Len(down[p]) \in Nat
           /\ up[p] \in Seq(Byte) /\ Len(up[p]) \in Nat
           /\ buffer[p] \in Seq(Byte) /\ Len(buffer[p]) \in Nat
           /\ task[p] \in Packets /\ result[p] \in Packets
           /\ sent[p] \in Nat /\ wpc[p] \in WorkerPcs
           /\ HeaderSize \in Nat /\ HeaderSize > 0
<1>1. down[p] \in Seq(Byte) /\ up[p] \in Seq(Byte) /\ buffer[p] \in Seq(Byte)
  BY DEF IInv, TypeOK, NetTypeOK, WorkerTypeOK
<1>2. /\ task[p] \in Packets /\ result[p] \in Packets /\ sent[p] \in Nat
      /\ wpc[p] \in WorkerPcs
  BY DEF IInv, TypeOK, WorkerTypeOK
<1>. QED BY <1>1, <1>2, LenProperties, CodecAssumption

(* What a worker has taken is a number of bytes.                           *)
LEMMA TakenIsNat ==
    ASSUME IInv, NEW p \in Procs
    PROVE  Taken(p) \in Nat
<1>1. Len(buffer[p]) \in Nat /\ HeaderSize \in Nat
  BY StreamTypes
<1>2. Len(task[p]) \in Nat
  BY StreamTypes, WireFacts
<1>3. CASE wpc[p] = "readSize"
  BY <1>1, <1>3 DEF Taken
<1>4. CASE wpc[p] = "readData"
  BY <1>1, <1>4 DEF Taken
<1>5. CASE wpc[p] \notin {"readSize", "readData"}
  BY <1>1, <1>2, <1>5 DEF Taken
<1>. QED BY <1>3, <1>4, <1>5

(* The types of what a slot holds.                                         *)
LEMMA SlotTypes ==
    ASSUME IInv, NEW i \in Slots
    PROVE  /\ workers[i] \in MasterWorker
           /\ workers[i].transferOffset \in Nat /\ workers[i].resultSize \in Nat
           /\ workers[i].state \in SlotStates
           /\ results[i] \in ResultPacket
           /\ Got(i) \in Nat /\ Pushed(i) \in Nat /\ HeaderSize \in Nat
<1>1. workers[i] \in MasterWorker /\ results[i] \in ResultPacket /\ HeaderSize \in Nat
  BY CodecAssumption DEF IInv, TypeOK, MasterTypeOK
<1>2. /\ workers[i].transferOffset \in Nat /\ workers[i].resultSize \in Nat
      /\ workers[i].state \in SlotStates
  BY <1>1, CodecAssumption DEF MasterWorker, Sizes
<1>. QED BY <1>1, <1>2 DEF Got, Pushed

(***************************************************************************)
(* Frame lemmas: a link that a step does not touch still fits.             *)
(***************************************************************************)
LEMMA LinkKept ==
    ASSUME NEW i \in Slots, NEW p \in Procs, Link(i, p),
           UNCHANGED <<workers[i].state, workers[i].transferOffset, workers[i].sizeBuffer,
                       workers[i].resultSize>>,
           UNCHANGED <<wpc[p], down[p], up[p], buffer[p], want[p], task[p], result[p], sent[p]>>,
           status' = 0 /\ i >= slotsAtStart' =>
               status = 0 /\ i >= slotsAtStart /\ results'[i] = results[i]
    PROVE  Link(i, p)'
<1>1. /\ Taken(p)' = Taken(p) /\ Written(p)' = Written(p) /\ Pushed(i)' = Pushed(i)
      /\ Got(i)' = Got(i) /\ Emitted(i, p)' = Emitted(i, p)
  BY DEF Taken, Written, Pushed, Got, Emitted
<1>2. Downlink(i, p)'
  BY <1>1 DEF Link, Downlink
<1>3. TaskRead(i, p)'
  BY DEF Link, TaskRead
<1>4. Uplink(i, p)'
  BY <1>1 DEF Link, Uplink
<1>5. ResultRead(i, p)'
  BY DEF Link, ResultRead
<1>. QED BY <1>2, <1>3, <1>4, <1>5 DEF Link

(* What a step of one worker must satisfy.                                 *)
LEMMA WorkerFrame ==
    ASSUME StreamInv, NEW p \in Procs, UNCHANGED masterVars,
           \A q \in Procs \ {p} :
               UNCHANGED <<wpc[q], down[q], up[q], buffer[q], want[q], task[q], result[q], sent[q]>>,
           ConnectionsFit', WorkerFits(p)',
           \A i \in Slots : servedBy[i] = p => Link(i, p)'
    PROVE  StreamInv'
<1>. USE DEF masterVars
<1>1. ASSUME NEW q \in Procs PROVE WorkerFits(q)'
  BY DEF StreamInv, WorkerFits, Unserved, Reply
<1>2. ASSUME NEW i \in Slots, servedBy[i] \in Procs PROVE Link(i, servedBy[i])'
  <2>1. CASE servedBy[i] = p
    BY <2>1
  <2>2. CASE servedBy[i] # p
    <3>. DEFINE q == servedBy[i]
    <3>1. Link(i, q) /\ q \in Procs \ {p} /\ q' = q
      BY <1>2, <2>2 DEF StreamInv, LinksFit
    <3>. HIDE DEF q
    <3>2. Link(i, q)'
      BY <3>1, LinkKept
    <3>. QED BY <3>1, <3>2 DEF q
  <2>. QED BY <2>1, <2>2
<1>3. LinksFit'
  BY <1>2 DEF LinksFit
<1>. QED BY <1>1, <1>3 DEF StreamInv

(* What a step of the master that serves one slot must satisfy.            *)
LEMMA SlotFrame ==
    ASSUME StreamInv, NEW i \in Slots, NEW p \in Procs, servedBy[i] = p, Link(i, p)',
           UNCHANGED <<workerVars, servedBy, workersCount, acceptQueue, slotsAtStart>>,
           \A j \in Slots \ {i} : UNCHANGED <<workers[j], results[j]>>,
           \A q \in Procs \ {p} : UNCHANGED <<down[q], up[q]>>,
           status' = 0 => status = 0
    PROVE  StreamInv'
<1>. USE DEF workerVars
<1>1. ASSUME NEW q \in Procs PROVE WorkerFits(q)'
  BY DEF StreamInv, WorkerFits, Unserved, Reply
<1>2. ConnectionsFit'
  BY DEF StreamInv, ConnectionsFit, Unserved
<1>3. ASSUME NEW j \in Slots, servedBy[j] \in Procs PROVE Link(j, servedBy[j])'
  <2>1. CASE j = i
    BY <2>1
  <2>2. CASE j # i
    <3>. DEFINE q == servedBy[j]
    <3>1. Link(j, q) /\ q \in Procs \ {p} /\ q' = q
      BY <1>3, <2>2 DEF StreamInv, LinksFit, ConnectionsFit
    <3>. HIDE DEF q
    <3>2. Link(j, q)'
      BY <2>2, <3>1, LinkKept
    <3>. QED BY <3>1, <3>2 DEF q
  <2>. QED BY <2>1, <2>2
<1>4. LinksFit'
  BY <1>3 DEF LinksFit
<1>. QED BY <1>1, <1>2, <1>4 DEF StreamInv
-----------------------------------------------------------------------------
(***************************************************************************)
(* The steps of a worker.                                                  *)
(***************************************************************************)
(* No step of a worker but Connect touches the queue, and none returns to  *)
(* "connect".                                                              *)
LEMMA ConnectionsKept ==
    ASSUME ConnectionsFit, UNCHANGED masterVars, UNCHANGED acceptQueue,
           acceptQueue \in Seq(Procs),
           \A q \in Procs : wpc'[q] = "connect" => wpc[q] = "connect"
    PROVE  ConnectionsFit'
<1>1. \A k \in 1 .. Len(acceptQueue) : acceptQueue[k] \in Procs
  OBVIOUS
<1>. QED BY <1>1 DEF ConnectionsFit, Unserved, masterVars

(* A worker that is still reading, computing or writing has not sent all.  *)
LEMMA WrittenShort ==
    ASSUME IInv, NEW p \in Procs, WorkerFits(p),
           wpc[p] \in {"run", "check"} \cup ReadingTask \cup WritingResult
    PROVE  /\ Written(p) \in Nat /\ Written(p) < WireSize(result[p])
           /\ wpc[p] \notin WritingResult => Written(p) = 0
<1>1. /\ sent[p] \in Nat /\ HeaderSize \in Nat /\ HeaderSize > 0
      /\ Len(result[p]) \in Nat /\ Len(ClusterEncodeSize(Len(result[p]))) = HeaderSize
  BY StreamTypes, WireFacts
<1>2. CASE wpc[p] \in {"run", "check"} \cup ReadingTask
  BY <1>1, <1>2 DEF WorkerFits, Written, WireSize, ReadingTask, WritingResult
<1>3. CASE wpc[p] = "writeSize"
  BY <1>1, <1>3 DEF WorkerFits, Written, WireSize, WritingResult, Reply
<1>4. CASE wpc[p] = "writeData"
  BY <1>1, <1>4 DEF WorkerFits, Written, WireSize, WritingResult, Reply
<1>. QED BY <1>2, <1>3, <1>4 DEF WritingResult

(* A worker that gives up or is killed: its streams end where they are.    *)
LEMMA WorkerStops ==
    ASSUME IInv, StreamInv, NEW p \in Procs, UNCHANGED masterVars, UNCHANGED acceptQueue,
           wpc[p] \notin Ended,
           \/ wpc' = [wpc EXCEPT ![p] = "crashed"]
           \/ wpc' = [wpc EXCEPT ![p] = "failed"] /\ wpc[p] # "sent",
           UNCHANGED <<buffer, want, task, result, sent, up>>,
           \A q \in Procs \ {p} : down'[q] = down[q],
           down' = down \/ down[p] # <<>>
    PROVE  StreamInv'
<1>1. wpc \in [Procs -> WorkerPcs] /\ acceptQueue \in Seq(Procs)
  BY DEF IInv, TypeOK, WorkerTypeOK, NetTypeOK
<1>2. /\ wpc'[p] \in {"crashed", "failed"} /\ (wpc'[p] = "failed" => wpc[p] # "sent")
      /\ \A q \in Procs \ {p} : wpc'[q] = wpc[q]
  BY <1>1
<1>3. ConnectionsFit'
  BY <1>1, <1>2, ConnectionsKept DEF StreamInv
<1>4. WorkerFits(p)'
  BY <1>2 DEF StreamInv, WorkerFits, Unserved, masterVars, ReadingTask, WritingResult, HasResult
<1>5. ASSUME NEW i \in Slots, servedBy[i] = p PROVE Link(i, p)'
  <2>. USE DEF masterVars
  <2>1. Link(i, p) /\ WorkerFits(p) /\ wpc[p] # "connect"
    BY <1>5 DEF StreamInv, LinksFit, ConnectionsFit, Unserved
  <2>2. /\ Got(i)' = Got(i) /\ Emitted(i, p)' = Emitted(i, p)
        /\ wpc'[p] \notin AtWork /\ wpc'[p] \notin HasTask /\ wpc'[p] \notin ReadingTask
    BY <1>2 DEF Got, Emitted, AtWork, HasTask, ReadingTask, WritingResult
  <2>3. Downlink(i, p)' /\ TaskRead(i, p)' /\ ResultRead(i, p)'
    BY <2>1, <2>2 DEF Link, Downlink, TaskRead, ResultRead, ReadingTask
  <2>4. Uplink(i, p)'
    <3>1. CASE wpc'[p] = "crashed"
      BY <2>1, <2>2, <3>1 DEF Link, Uplink
    <3>2. CASE wpc'[p] = "failed"
      <4>1. wpc[p] \in {"run", "check"} \cup ReadingTask \cup WritingResult
        BY <1>2, <2>1, <3>2, StreamTypes DEF WorkerPcs, Ended
      <4>2. Written(p) < WireSize(result[p]) /\ wpc[p] \in AtWork
        BY <2>1, <4>1, WrittenShort DEF AtWork, HasTask
      <4>. QED BY <2>1, <2>2, <3>2, <4>2 DEF Link, Uplink
    <3>. QED BY <1>2, <3>1, <3>2
  <2>. QED BY <2>3, <2>4 DEF Link
<1>. QED BY <1>2, <1>3, <1>4, <1>5, WorkerFrame

(***************************************************************************)
(* ReadPacket at the worker: what has been gathered is one stretch of the  *)
(* share, and the channel holds the next one.                              *)
(***************************************************************************)
LEMMA Gathering ==
    ASSUME IInv, NEW i \in Slots, NEW p \in Procs, Link(i, p), wpc[p] \in ReadingTask, Recv(p)
    PROVE  LET base == IF wpc[p] = "readSize" THEN 0 ELSE HeaderSize
               taken == base + Len(Gathered(p))
           IN  /\ Gathered(p) \in Seq(Byte) /\ Len(Gathered(p)) \in Nat
               /\ Carries(Gathered(p), Share(i), base)
               /\ Carries(down'[p], Share(i), taken)
               /\ taken + Len(down'[p]) = Taken(p) + Len(down[p])
<1>. DEFINE base == IF wpc[p] = "readSize" THEN 0 ELSE HeaderSize
            n == Received(p)
            head == FirstBytes(down[p], n)
<1>1. /\ down[p] \in Seq(Byte) /\ Len(down[p]) \in Nat /\ down \in [Procs -> Seq(Byte)]
      /\ buffer[p] \in Seq(Byte) /\ Len(buffer[p]) \in Nat /\ base \in Nat
  BY StreamTypes DEF IInv, TypeOK, NetTypeOK
<1>2. Share(i) \in Packets
  BY ShareIsPacket
<1>3. /\ Carries(buffer[p], Share(i), base) /\ Taken(p) = base + Len(buffer[p])
      /\ Carries(down[p], Share(i), base + Len(buffer[p]))
  BY <1>1 DEF Link, TaskRead, Downlink, Taken, ReadingTask, AtWork
<1>4. n \in 0 .. Len(down[p])
  <2>1. PartSize(p) \in Nat /\ Len(buffer[p]) <= PartSize(p)
    BY CodecAssumption DEF IInv, TypeOK, WorkerTypeOK, WorkerInv, PartSize, Sizes
  <2>. QED BY <1>1, <2>1 DEF Received, Least
<1>5. down'[p] = RestBytes(down[p], n)
  BY <1>1 DEF Recv
<1>6. Gathered(p) = buffer[p] \o head
  BY DEF Gathered
<1>. HIDE DEF base, n
<1>6a. base + Len(buffer[p]) \in Nat
  BY <1>1
<1>7. /\ head \in Seq(Byte) /\ Len(head) = n /\ Carries(head, Share(i), base + Len(buffer[p]))
      /\ RestBytes(down[p], n) \in Seq(Byte) /\ Len(RestBytes(down[p], n)) = Len(down[p]) - n
      /\ Carries(RestBytes(down[p], n), Share(i), base + Len(buffer[p]) + n)
  BY <1>1, <1>2, <1>3, <1>4, <1>6a, CarriesLess
<1>. HIDE DEF head
<1>8. /\ buffer[p] \o head \in Seq(Byte) /\ Len(buffer[p] \o head) = Len(buffer[p]) + n
      /\ Carries(buffer[p] \o head, Share(i), base)
  <2>1. buffer[p] \o head \in Seq(Byte)
    BY <1>1, <1>7, ConcatOfSeqs
  <2>. QED BY <1>1, <1>2, <1>3, <1>7, <2>1, CarriesMore
<1>9. base + (Len(buffer[p]) + n) = base + Len(buffer[p]) + n /\ n \in Nat
  BY <1>1, <1>4
<1>10. /\ Gathered(p) \in Seq(Byte) /\ Len(Gathered(p)) = Len(buffer[p]) + n
       /\ Carries(Gathered(p), Share(i), base)
  BY <1>6, <1>8
<1>11. base + Len(Gathered(p)) = base + Len(buffer[p]) + n /\ Len(Gathered(p)) \in Nat
  BY <1>1, <1>9, <1>10
<1>12. Carries(down'[p], Share(i), base + Len(Gathered(p)))
  BY <1>5, <1>7, <1>11
<1>13. base + Len(Gathered(p)) + Len(down'[p]) = Taken(p) + Len(down[p])
  <2>1. Len(down'[p]) = Len(down[p]) - n
    BY <1>5, <1>7
  <2>2. base + Len(Gathered(p)) = Taken(p) + n
    BY <1>3, <1>11
  <2>3. Taken(p) \in Nat
    BY <1>3, <1>6a
  <2>. QED BY <1>1, <1>9, <2>1, <2>2, <2>3
<1>. QED BY <1>10, <1>11, <1>12, <1>13 DEF base

(* A complete header from the master announces the size of the share.      *)
LEMMA HeaderIsGathered ==
    ASSUME IInv, NEW i \in Slots, NEW p \in Procs, Link(i, p), Recv(p),
           wpc[p] = "readSize", PartComplete(p)
    PROVE  /\ ClusterDecodeSize(Gathered(p)) = Len(Share(i))
           /\ Share(i) \in Packets /\ Len(Share(i)) \in Sizes
<1>1. Gathered(p) \in Seq(Byte) /\ Carries(Gathered(p), Share(i), 0)
  BY Gathering DEF ReadingTask
<1>2. Len(Gathered(p)) = HeaderSize
  BY DEF PartComplete, PartSize
<1>3. Share(i) \in Packets
  BY ShareIsPacket
<1>4. Gathered(p) = ClusterEncodeSize(Len(Share(i)))
  BY <1>1, <1>2, <1>3, CarriesHeader
<1>. QED BY <1>3, <1>4, WireFacts

(* What reading does not touch: the result and its way back.               *)
LEMMA ReadingFrame ==
    ASSUME IInv, StreamInv, NEW p \in Procs, wpc[p] \in ReadingTask, Recv(p),
           UNCHANGED masterVars, UNCHANGED <<acceptQueue, up, result, sent>>,
           NEW place \in ReadingTask \cup {"run"}, wpc' = [wpc EXCEPT ![p] = place],
           place = "run" \/ UNCHANGED task,
           \A q \in Procs \ {p} : UNCHANGED <<buffer[q], want[q], task[q]>>,
           \A i \in Slots : servedBy[i] = p /\ Link(i, p) =>
               /\ TaskRead(i, p)' /\ Carries(down'[p], Share(i), Taken(p)')
               /\ Taken(p)' + Len(down'[p]) = Taken(p) + Len(down[p])
    PROVE  StreamInv'
<1>1. /\ wpc \in [Procs -> WorkerPcs] /\ acceptQueue \in Seq(Procs) /\ down[p] # <<>>
      /\ \A q \in Procs \ {p} : down'[q] = down[q]
  BY DEF IInv, TypeOK, WorkerTypeOK, NetTypeOK, Recv
<1>2. wpc'[p] = place /\ \A q \in Procs \ {p} : wpc'[q] = wpc[q]
  BY <1>1
<1>3. ConnectionsFit'
  BY <1>1, <1>2, ConnectionsKept DEF StreamInv, ReadingTask
<1>4. WorkerFits(p)'
  BY <1>1, <1>2
     DEF StreamInv, WorkerFits, Unserved, masterVars, ReadingTask, WritingResult, HasResult
<1>5. ASSUME NEW i \in Slots, servedBy[i] = p PROVE Link(i, p)'
  <2>. USE DEF masterVars
  <2>1. Link(i, p) /\ wpc[p] \in AtWork
    BY <1>5 DEF StreamInv, LinksFit, AtWork
  <2>2. /\ Got(i)' = Got(i) /\ Emitted(i, p)' = Emitted(i, p) /\ Pushed(i)' = Pushed(i)
        /\ Written(p)' = Written(p) /\ wpc'[p] # "failed"
    BY <1>2 DEF Got, Emitted, Pushed, Written, ReadingTask
  <2>3. /\ TaskRead(i, p)' /\ Carries(down'[p], Share(i), Taken(p)')
        /\ Taken(p)' + Len(down'[p]) = Taken(p) + Len(down[p])
    BY <1>5, <2>1
  <2>4. Downlink(i, p)'
    BY <2>1, <2>2, <2>3 DEF Link, Downlink
  <2>5. Uplink(i, p)'
    <3>1. Written(p) = 0 /\ WorkerFits(p)
      BY WrittenShort DEF StreamInv, ReadingTask, WritingResult
    <3>2. CASE workers[i].state \in Transfers \cup {"Done"}
      <4>1. Carries(up[p], result[p], Got(i)) /\ Emitted(i, p) = Written(p)
        BY <2>1, <3>2 DEF Link, Uplink
      <4>. QED BY <2>2, <3>1, <4>1 DEF Uplink
    <3>3. CASE workers[i].state \notin Transfers \cup {"Done"}
      BY <3>3 DEF Uplink
    <3>. QED BY <3>2, <3>3
  <2>6. ResultRead(i, p)'
    BY <2>1 DEF Link, ResultRead
  <2>. QED BY <2>3, <2>4, <2>5, <2>6 DEF Link
<1>. QED BY <1>1, <1>2, <1>3, <1>4, <1>5, WorkerFrame

(* The three ways ReadPacket goes on. *)
LEMMA RecvPartStream ==
    ASSUME IInv, StreamInv, NEW p \in Procs, RecvPart(p), UNCHANGED masterVars
    PROVE  StreamInv'
<1>1. /\ Recv(p) /\ wpc[p] \in ReadingTask /\ wpc \in [Procs -> WorkerPcs]
      /\ buffer' = [buffer EXCEPT ![p] = Gathered(p)] /\ buffer \in [Procs -> Seq(Byte)]
      /\ UNCHANGED <<wpc, want, task, result, sent, acceptQueue, up>>
  BY DEF RecvPart, Recv, IInv, TypeOK, WorkerTypeOK
<1>2. /\ wpc' = [wpc EXCEPT ![p] = wpc[p]] /\ buffer'[p] = Gathered(p)
      /\ \A q \in Procs \ {p} : buffer'[q] = buffer[q]
  BY <1>1
<1>3. ASSUME NEW i \in Slots, servedBy[i] = p, Link(i, p)
      PROVE  /\ TaskRead(i, p)' /\ Carries(down'[p], Share(i), Taken(p)')
             /\ Taken(p)' + Len(down'[p]) = Taken(p) + Len(down[p])
  <2>. DEFINE base == IF wpc[p] = "readSize" THEN 0 ELSE HeaderSize
  <2>1. /\ Carries(Gathered(p), Share(i), base)
        /\ Carries(down'[p], Share(i), base + Len(Gathered(p)))
        /\ base + Len(Gathered(p)) + Len(down'[p]) = Taken(p) + Len(down[p])
        /\ Len(Gathered(p)) \in Nat
    BY <1>1, <1>3, Gathering
  <2>2. Taken(p)' = base + Len(Gathered(p))
    BY <1>1, <1>2, <2>1 DEF Taken, ReadingTask
  <2>3. TaskRead(i, p)'
    BY <1>1, <1>2, <1>3, <2>1 DEF Link, TaskRead, ReadingTask, HasTask, WritingResult
  <2>. QED BY <2>1, <2>2, <2>3
<1>. QED BY <1>1, <1>2, <1>3, ReadingFrame

(* A complete header is the share's, so it announces the share's length.   *)
LEMMA RecvHeaderStream ==
    ASSUME IInv, StreamInv, NEW p \in Procs, RecvHeader(p), UNCHANGED masterVars
    PROVE  StreamInv'
<1>. DEFINE size == ClusterDecodeSize(Gathered(p))
            place == IF size = 0 THEN "run" ELSE "readData"
<1>1. /\ Recv(p) /\ wpc[p] = "readSize" /\ wpc \in [Procs -> WorkerPcs]
      /\ PartComplete(p) /\ size \in Sizes
      /\ wpc' = [wpc EXCEPT ![p] = place]
      /\ want' = [want EXCEPT ![p] = size] /\ want \in [Procs -> Sizes]
      /\ buffer' = [buffer EXCEPT ![p] = <<>>] /\ buffer \in [Procs -> Seq(Byte)]
      /\ UNCHANGED <<task, result, sent, acceptQueue, up>>
  BY DEF RecvHeader, Goto, IInv, TypeOK, WorkerTypeOK
<1>2. /\ wpc'[p] = place /\ want'[p] = size /\ buffer'[p] = <<>>
      /\ \A q \in Procs \ {p} : buffer'[q] = buffer[q] /\ want'[q] = want[q]
      /\ wpc[p] \in ReadingTask /\ place \in ReadingTask \cup {"run"}
  BY <1>1 DEF ReadingTask
<1>3. ASSUME NEW i \in Slots, servedBy[i] = p, Link(i, p)
      PROVE  /\ TaskRead(i, p)' /\ Carries(down'[p], Share(i), Taken(p)')
             /\ Taken(p)' + Len(down'[p]) = Taken(p) + Len(down[p])
  <2>1. /\ Gathered(p) \in Seq(Byte) /\ Carries(Gathered(p), Share(i), 0)
        /\ Carries(down'[p], Share(i), 0 + Len(Gathered(p)))
        /\ 0 + Len(Gathered(p)) + Len(down'[p]) = Taken(p) + Len(down[p])
    BY <1>1, <1>2, <1>3, Gathering
  <2>2. Len(Gathered(p)) = HeaderSize /\ HeaderSize \in Nat /\ 0 + HeaderSize = HeaderSize
    BY <1>1, StreamTypes DEF PartComplete, PartSize
  <2>3. Share(i) \in Packets /\ Len(Share(i)) = TaskLength(i)
    BY ShareIsPacket
  <2>5. size = Len(Share(i)) /\ Len(Share(i)) \in Nat
    BY <1>1, <1>3, <2>3, HeaderIsGathered, WireFacts
  <2>6. /\ Carries(down'[p], Share(i), HeaderSize)
        /\ HeaderSize + Len(down'[p]) = Taken(p) + Len(down[p])
    BY <2>1, <2>2
  <2>7. CASE size = 0
    <3>1. /\ task[p] = <<>> /\ Share(i) = <<>> /\ task'[p] = task[p] /\ wpc'[p] = "run"
      <4>1. task[p] = <<>>
        BY <1>2 DEF StreamInv, WorkerFits
      <4>2. Share(i) \in Seq(Byte)
        BY <2>3, WireFacts
      <4>. QED BY <1>1, <1>2, <2>5, <2>7, <4>1, <4>2, EmptySeq
    <3>2. Taken(p)' = HeaderSize
      BY <2>2, <3>1 DEF Taken
    <3>3. TaskRead(i, p)'
      BY <3>1 DEF TaskRead
    <3>. QED BY <2>6, <3>2, <3>3
  <2>8. CASE size # 0
    <3>1. wpc'[p] = "readData" /\ want'[p] = TaskLength(i) /\ buffer'[p] = <<>>
      BY <1>2, <2>3, <2>5, <2>8
    <3>2. Taken(p)' = HeaderSize
      BY <2>2, <3>1 DEF Taken
    <3>3. Carries(<<>>, Share(i), HeaderSize)
      BY <2>2, <2>3, <2>5, CarriesNothing DEF WireSize
    <3>4. TaskRead(i, p)'
      BY <3>1, <3>3 DEF TaskRead, HasTask, WritingResult
    <3>. QED BY <2>6, <3>2, <3>4
  <2>. QED BY <2>7, <2>8
<1>. HIDE DEF place
<1>. QED BY <1>1, <1>2, <1>3, ReadingFrame

(* A complete data part is the share.                                      *)
LEMMA RecvTaskStream ==
    ASSUME IInv, StreamInv, NEW p \in Procs, RecvTask(p), UNCHANGED masterVars
    PROVE  StreamInv'
<1>1. /\ Recv(p) /\ wpc[p] = "readData" /\ wpc \in [Procs -> WorkerPcs] /\ PartComplete(p)
      /\ wpc' = [wpc EXCEPT ![p] = "run"]
      /\ task' = [task EXCEPT ![p] = Gathered(p)] /\ task \in [Procs -> Packets]
      /\ buffer' = [buffer EXCEPT ![p] = <<>>] /\ buffer \in [Procs -> Seq(Byte)]
      /\ UNCHANGED <<want, result, sent, acceptQueue, up>>
  BY DEF RecvTask, Goto, IInv, TypeOK, WorkerTypeOK
<1>2. /\ wpc'[p] = "run" /\ task'[p] = Gathered(p)
      /\ \A q \in Procs \ {p} : buffer'[q] = buffer[q] /\ task'[q] = task[q]
      /\ wpc[p] \in ReadingTask
  BY <1>1 DEF ReadingTask
<1>3. ASSUME NEW i \in Slots, servedBy[i] = p, Link(i, p)
      PROVE  /\ TaskRead(i, p)' /\ Carries(down'[p], Share(i), Taken(p)')
             /\ Taken(p)' + Len(down'[p]) = Taken(p) + Len(down[p])
  <2>1. /\ Gathered(p) \in Seq(Byte) /\ Carries(Gathered(p), Share(i), HeaderSize)
        /\ Carries(down'[p], Share(i), HeaderSize + Len(Gathered(p)))
        /\ HeaderSize + Len(Gathered(p)) + Len(down'[p]) = Taken(p) + Len(down[p])
    BY <1>1, <1>2, <1>3, Gathering
  <2>2. Share(i) \in Packets /\ Len(Share(i)) = TaskLength(i)
    BY ShareIsPacket
  <2>3. Len(Gathered(p)) = Len(Share(i))
    BY <1>1, <1>3, <2>2 DEF PartComplete, PartSize, Link, TaskRead
  <2>4. Gathered(p) = Share(i)
    BY <2>1, <2>2, <2>3, CarriesData
  <2>5. Taken(p)' = HeaderSize + Len(Gathered(p))
    BY <1>2 DEF Taken
  <2>6. TaskRead(i, p)'
    BY <1>2, <2>4 DEF TaskRead
  <2>. QED BY <2>1, <2>5, <2>6
<1>. QED BY <1>1, <1>2, <1>3, ReadingFrame

(* What a worker that has its task does not touch any more. *)
LEMMA WorkingFrame ==
    ASSUME IInv, StreamInv, NEW p \in Procs, wpc[p] \in HasTask, UNCHANGED masterVars,
           NEW place \in HasTask, wpc' = [wpc EXCEPT ![p] = place],
           UNCHANGED <<acceptQueue, down, buffer, want, task>>,
           \A q \in Procs \ {p} : UNCHANGED <<up[q], result[q], sent[q]>>,
           place \in {"run", "check"} => sent'[p] = 0,
           place \in WritingResult => sent'[p] < Len(Reply(p)'),
           place \in HasResult => result'[p] \in MethodResults(task[p]),
           \A i \in Slots :
               servedBy[i] = p /\ Link(i, p) => Uplink(i, p)' /\ ResultRead(i, p)'
    PROVE  StreamInv'
<1>1. /\ wpc \in [Procs -> WorkerPcs] /\ acceptQueue \in Seq(Procs)
      /\ wpc'[p] = place /\ \A q \in Procs \ {p} : wpc'[q] = wpc[q]
      /\ place # "connect" /\ place \notin ReadingTask /\ wpc[p] \notin ReadingTask
  BY DEF IInv, TypeOK, WorkerTypeOK, NetTypeOK, HasTask, WritingResult, ReadingTask
<1>2. ConnectionsFit'
  BY <1>1, ConnectionsKept DEF StreamInv
<1>3. WorkerFits(p)'
  BY <1>1 DEF StreamInv, WorkerFits, Unserved, masterVars, HasTask, WritingResult, ReadingTask
<1>4. ASSUME NEW i \in Slots, servedBy[i] = p PROVE Link(i, p)'
  <2>. USE DEF masterVars
  <2>1. Link(i, p) /\ Uplink(i, p)' /\ ResultRead(i, p)'
    BY <1>4 DEF StreamInv, LinksFit
  <2>2. Taken(p)' = Taken(p) /\ Pushed(i)' = Pushed(i)
    BY <1>1 DEF Taken, Pushed, ReadingTask
  <2>3. Downlink(i, p)'
    BY <2>1, <2>2 DEF Link, Downlink, AtWork
  <2>4. TaskRead(i, p)'
    BY <1>1, <2>1 DEF Link, TaskRead, ReadingTask
  <2>. QED BY <2>1, <2>3, <2>4 DEF Link
<1>. QED BY <1>1, <1>2, <1>3, <1>4, WorkerFrame

(* WorkerRun: nothing of a result is under way before there is one.        *)
LEMMA RunStream ==
    ASSUME IInv, StreamInv, NEW p \in Procs, WorkerRun(p), UNCHANGED masterVars
    PROVE  StreamInv'
<1>1. PICK packet \in MethodResults(task[p]) : result' = [result EXCEPT ![p] = packet]
  BY DEF WorkerRun
<1>2. /\ wpc[p] = "run" /\ wpc' = [wpc EXCEPT ![p] = "check"] /\ wpc \in [Procs -> WorkerPcs]
      /\ UNCHANGED <<acceptQueue, down, up, buffer, want, task, sent>>
      /\ result \in [Procs -> Packets]
  BY DEF WorkerRun, Goto, netVars, IInv, TypeOK, WorkerTypeOK
<1>3. /\ wpc'[p] = "check" /\ result'[p] = packet
      /\ \A q \in Procs \ {p} : result'[q] = result[q]
      /\ wpc[p] \in HasTask /\ "check" \in HasTask /\ "check" \notin WritingResult
  BY <1>1, <1>2 DEF HasTask, WritingResult
<1>4. sent[p] = 0 /\ WorkerFits(p) /\ up[p] \in Seq(Byte) /\ Len(up[p]) \in Nat
  BY <1>2, StreamTypes DEF StreamInv, WorkerFits
<1>5. packet \in Packets
  BY <1>1, MethodAssumption, StreamTypes
<1>6. ASSUME NEW i \in Slots, servedBy[i] = p, Link(i, p)
      PROVE  Uplink(i, p)' /\ ResultRead(i, p)'
  <2>. USE DEF masterVars
  <2>1. Got(i) \in Nat /\ Got(i)' = Got(i) /\ Emitted(i, p)' = Emitted(i, p)
    BY <1>2, SlotTypes DEF Got, Emitted
  <2>2. CASE workers[i].state \in Transfers \cup {"Done"}
    <3>1. Written(p) = 0 /\ Written(p)' = 0
      BY <1>2, <1>3, <1>4 DEF Written
    <3>2. Emitted(i, p) = 0
      BY <1>2, <1>6, <2>2, <3>1 DEF Link, Uplink, AtWork, HasTask
    <3>3. Got(i) = 0 /\ Len(up[p]) = 0
      BY <1>4, <2>1, <3>2 DEF Emitted
    <3>4. up[p] = <<>>
      BY <1>4, <3>3, EmptySeq
    <3>5. Carries(<<>>, packet, 0)
      BY <1>5, WireFacts, CarriesNothing
    <3>6. Uplink(i, p)'
      <4>1. Carries(up'[p], result'[p], Got(i)')
        BY <1>2, <1>3, <2>1, <3>3, <3>4, <3>5
      <4>2. Emitted(i, p)' = 0 /\ Written(p)' = 0 /\ wpc'[p] # "failed"
        BY <1>3, <2>1, <3>1, <3>2
      <4>. QED BY <4>1, <4>2 DEF Uplink
    <3>7. workers[i].state \in Sending \/ (workers[i].state = "ReadResultSize"
                                           /\ workers[i].transferOffset = 0)
      <4>1. /\ workers[i].transferOffset \in Nat /\ workers[i].resultSize \in Nat
            /\ HeaderSize \in Nat /\ HeaderSize > 0
        BY SlotTypes, StreamTypes
      <4>. QED BY <2>1, <2>2, <3>3, <4>1 DEF Got, Transfers, Reading
    <3>8. ResultRead(i, p)'
      BY <3>7 DEF ResultRead, Sending
    <3>. QED BY <3>6, <3>8
  <2>3. CASE workers[i].state \notin Transfers \cup {"Done"}
    BY <2>3 DEF Uplink, ResultRead, Transfers, Reading
  <2>. QED BY <2>2, <2>3
<1>. QED BY <1>1, <1>2, <1>3, <1>4, <1>6, WorkingFrame

(* The look at the master, and the end of a worker that has sent all.      *)
LEMMA CheckStream ==
    ASSUME IInv, StreamInv, NEW p \in Procs, CheckMaster(p) \/ WorkerDestroy(p),
           UNCHANGED masterVars
    PROVE  StreamInv'
<1>. DEFINE place == IF wpc[p] = "check" THEN "writeSize" ELSE "done"
<1>1. /\ wpc[p] \in {"check", "sent"} /\ wpc' = [wpc EXCEPT ![p] = place]
      /\ wpc \in [Procs -> WorkerPcs]
      /\ UNCHANGED <<acceptQueue, down, up, buffer, want, task, result, sent>>
  BY DEF CheckMaster, WorkerDestroy, Goto, netVars, IInv, TypeOK, WorkerTypeOK
<1>2. /\ wpc'[p] = place /\ place \in HasTask /\ wpc[p] \in HasTask
      /\ place \notin {"run", "check"}
  BY <1>1 DEF HasTask, WritingResult
<1>3. place \in WritingResult => sent'[p] < Len(Reply(p)')
  <2>1. Len(ClusterEncodeSize(Len(result[p]))) > 0
    BY StreamTypes, WireFacts
  <2>. QED BY <1>1, <1>2, <2>1 DEF StreamInv, WorkerFits, WritingResult, Reply
<1>4. result'[p] \in MethodResults(task[p])
  BY <1>1 DEF StreamInv, WorkerFits, HasResult
<1>5. ASSUME NEW i \in Slots, servedBy[i] = p, Link(i, p)
      PROVE  Uplink(i, p)' /\ ResultRead(i, p)'
  <2>. USE DEF masterVars
  <2>1. Got(i)' = Got(i) /\ Emitted(i, p)' = Emitted(i, p)
    BY <1>1 DEF Got, Emitted
  <2>2. Written(p)' = Written(p)
    BY <1>1, <1>2 DEF Written
  <2>3. Uplink(i, p)'
    BY <1>1, <1>2, <1>5, <2>1, <2>2 DEF Link, Uplink, AtWork
  <2>4. ResultRead(i, p)'
    BY <1>1, <1>5 DEF Link, ResultRead
  <2>. QED BY <2>3, <2>4
<1>. HIDE DEF place
<1>. QED BY <1>1, <1>2, <1>3, <1>4, <1>5, WorkingFrame

(* WritePacket at the worker: what is sent is the next stretch of the      *)
(* result, also where the header ends and the data begins.                 *)
LEMMA Sent ==
    ASSUME IInv, StreamInv, NEW p \in Procs, Send(p)
    PROVE  \E n \in Nat, part \in Seq(Byte), place \in WritingResult \cup {"sent"} :
              /\ Len(part) = n /\ n > 0 /\ Carries(part, result[p], Written(p))
              /\ up' = [up EXCEPT ![p] = @ \o part]
              /\ wpc' = [wpc EXCEPT ![p] = place]
              /\ \A q \in Procs \ {p} : sent'[q] = sent[q]
              /\ place \in WritingResult => sent'[p] < Len(Reply(p)')
              /\ Written(p)' = Written(p) + n
<1>1. PICK n \in 1 .. Least(Unwritten(p), Room(up[p])) :
          /\ up' = [up EXCEPT ![p] = @ \o SubSeq(Reply(p), sent[p] + 1, sent[p] + n)]
          /\ IF n = Unwritten(p)
             THEN Goto(p, AfterWriting(p)) /\ sent' = [sent EXCEPT ![p] = 0]
             ELSE sent' = [sent EXCEPT ![p] = @ + n] /\ UNCHANGED wpc
  BY DEF Send
<1>. DEFINE off == sent[p]
            part == SubSeq(Reply(p), off + 1, off + n)
<1>2. /\ wpc[p] \in WritingResult /\ UNCHANGED result /\ wpc \in [Procs -> WorkerPcs]
      /\ sent \in [Procs -> Nat] /\ off \in Nat /\ result[p] \in Packets
  BY StreamTypes DEF Send, IInv, TypeOK, WorkerTypeOK
<1>3. /\ Len(result[p]) \in Nat /\ HeaderSize \in Nat /\ HeaderSize > 0
      /\ Len(ClusterEncodeSize(Len(result[p]))) = HeaderSize
      /\ Len(up[p]) \in Nat /\ SocketBuffer \in Nat
  BY <1>2, WireFacts, StreamTypes, NetAssumption
<1>4. Len(Reply(p)) \in Nat
  BY <1>3 DEF Reply
<1>5. n \in Nat /\ n > 0 /\ off + n <= Len(Reply(p)) /\ (n = Unwritten(p) <=> off + n = Len(Reply(p)))
  <2>1. Unwritten(p) \in Int /\ Room(up[p]) \in Int /\ Unwritten(p) = Len(Reply(p)) - off
    BY <1>2, <1>3, <1>4 DEF Unwritten, Room
  <2>2. n \in Nat /\ n > 0 /\ n <= Unwritten(p)
    BY <2>1 DEF Least
  <2>. QED BY <1>2, <1>4, <2>1, <2>2
<1>6. part \in Seq(Byte) /\ Len(part) = n /\ Carries(part, result[p], Written(p))
  <2>1. CASE wpc[p] = "writeSize"
    <3>1. Reply(p) = ClusterEncodeSize(Len(result[p])) /\ Written(p) = off
      BY <1>2, <2>1 DEF Reply, Written
    <3>2. off + n <= HeaderSize
      BY <1>3, <1>5, <3>1
    <3>. QED BY <1>2, <1>5, <3>1, <3>2, PartOfHeader
  <2>2. CASE wpc[p] = "writeData"
    <3>1. Reply(p) = result[p] /\ Written(p) = HeaderSize + off
      BY <1>2, <1>3, <2>2 DEF Reply, Written
    <3>2. off + n <= Len(result[p])
      BY <1>5, <3>1
    <3>. QED BY <1>2, <1>5, <3>1, <3>2, PartOfData
  <2>. QED BY <1>2, <2>1, <2>2 DEF WritingResult
<1>7. up' = [up EXCEPT ![p] = @ \o part]
  BY <1>1
<1>. HIDE DEF part
<1>8. CASE n = Unwritten(p)
  <2>. DEFINE place == AfterWriting(p)
  <2>1. /\ wpc' = [wpc EXCEPT ![p] = place] /\ sent'[p] = 0 /\ wpc'[p] = place
        /\ \A q \in Procs \ {p} : sent'[q] = sent[q]
    BY <1>1, <1>2, <1>8 DEF Goto
  <2>2. /\ place \in WritingResult \cup {"sent"}
        /\ place = "writeData" => wpc[p] = "writeSize" /\ Len(result[p]) > 0
        /\ place = "sent" => wpc[p] = "writeData" \/ Len(result[p]) = 0
        /\ place # "writeSize"
    BY <1>2, <1>3 DEF AfterWriting, WritingResult
  <2>3. off + n = Len(Reply(p))
    BY <1>5, <1>8
  <2>. HIDE DEF place
  <2>4. Written(p)' = Written(p) + n
    <3>1. CASE place = "writeData"
      <4>1. Len(Reply(p)) = HeaderSize /\ Written(p) = off
        BY <1>2, <1>3, <2>2, <3>1 DEF Reply, Written
      <4>2. Written(p)' = HeaderSize
        BY <1>3, <2>1, <3>1 DEF Written
      <4>. QED BY <2>3, <4>1, <4>2
    <3>2. CASE place = "sent"
      <4>1. Written(p)' = WireSize(result[p])
        BY <1>2, <2>1, <3>2 DEF Written
      <4>2. CASE wpc[p] = "writeData"
        <5>1. Reply(p) = result[p] /\ Written(p) = off + HeaderSize
          BY <4>2 DEF Reply, Written
        <5>. QED BY <1>2, <1>3, <1>5, <2>3, <4>1, <5>1 DEF WireSize
      <4>3. CASE wpc[p] # "writeData"
        <5>1. wpc[p] = "writeSize" /\ Len(result[p]) = 0
          BY <1>2, <2>2, <3>2, <4>3 DEF WritingResult
        <5>2. Len(Reply(p)) = HeaderSize /\ Written(p) = off
          BY <1>2, <1>3, <5>1 DEF Reply, Written
        <5>. QED BY <1>3, <2>3, <4>1, <5>1, <5>2 DEF WireSize
      <4>. QED BY <4>2, <4>3
    <3>. QED BY <2>2, <3>1, <3>2 DEF WritingResult
  <2>5. place \in WritingResult => sent'[p] < Len(Reply(p)')
    BY <1>2, <2>1, <2>2 DEF Reply, WritingResult
  <2>. QED BY <1>5, <1>6, <1>7, <2>1, <2>2, <2>4, <2>5
<1>9. CASE n # Unwritten(p)
  <2>1. /\ wpc' = [wpc EXCEPT ![p] = wpc[p]] /\ sent'[p] = off + n /\ UNCHANGED wpc
        /\ \A q \in Procs \ {p} : sent'[q] = sent[q]
    BY <1>1, <1>2, <1>9
  <2>2. Reply(p)' = Reply(p) /\ off + n < Len(Reply(p))
    BY <1>2, <1>4, <1>5, <1>9, <2>1 DEF Reply
  <2>3. Written(p)' = Written(p) + n
    BY <1>2, <1>3, <1>5, <2>1 DEF Written, WritingResult
  <2>. QED BY <1>2, <1>5, <1>6, <1>7, <2>1, <2>2, <2>3
<1>. QED BY <1>8, <1>9

(* send() of the worker: the stretch joins those in flight.                *)
LEMMA SendStream ==
    ASSUME IInv, StreamInv, NEW p \in Procs, Send(p), UNCHANGED masterVars
    PROVE  StreamInv'
<1>1. PICK n \in Nat, part \in Seq(Byte), place \in WritingResult \cup {"sent"} :
         /\ Len(part) = n /\ n > 0 /\ Carries(part, result[p], Written(p))
         /\ up' = [up EXCEPT ![p] = @ \o part]
         /\ wpc' = [wpc EXCEPT ![p] = place]
         /\ \A q \in Procs \ {p} : sent'[q] = sent[q]
         /\ place \in WritingResult => sent'[p] < Len(Reply(p)')
         /\ Written(p)' = Written(p) + n
  BY Sent
<1>2. /\ wpc[p] \in WritingResult /\ wpc \in [Procs -> WorkerPcs] /\ up \in [Procs -> Seq(Byte)]
      /\ UNCHANGED <<acceptQueue, down, buffer, want, task, result>>
  BY DEF Send, IInv, TypeOK, WorkerTypeOK, NetTypeOK
<1>3. /\ up'[p] = up[p] \o part /\ \A q \in Procs \ {p} : up'[q] = up[q]
      /\ wpc'[p] = place /\ place \in HasTask /\ wpc[p] \in HasTask
      /\ place \notin {"run", "check", "failed"}
  BY <1>1, <1>2 DEF HasTask, WritingResult
<1>4. result[p] \in MethodResults(task[p]) /\ result[p] \in Packets
      /\ up[p] \in Seq(Byte) /\ Len(up[p]) \in Nat
  BY <1>2, StreamTypes DEF StreamInv, WorkerFits, HasResult
<1>5. ASSUME NEW i \in Slots, servedBy[i] = p, Link(i, p)
      PROVE  Uplink(i, p)' /\ ResultRead(i, p)'
  <2>. USE DEF masterVars
  <2>1. Got(i)' = Got(i) /\ Got(i) \in Nat
    BY SlotTypes DEF Got
  <2>2. CASE workers[i].state \in Transfers \cup {"Done"}
    <3>1. /\ Carries(up[p], result[p], Got(i)) /\ Got(i) + Len(up[p]) = Written(p)
      BY <1>3, <1>5, <2>2 DEF Link, Uplink, AtWork, Emitted
    <3>2. Carries(up'[p], result[p], Got(i)) /\ Len(up'[p]) = Len(up[p]) + n
      <4>1. Carries(part, result[p], Got(i) + Len(up[p])) /\ part \in Seq(Byte) /\ Len(part) = n
        BY <1>1, <3>1
      <4>2. Carries(up[p] \o part, result[p], Got(i)) /\ Len(up[p] \o part) = Len(up[p]) + Len(part)
        BY <1>4, <2>1, <3>1, <4>1, CarriesMore
      <4>. QED BY <1>3, <4>1, <4>2
    <3>3. Emitted(i, p)' = Written(p)'
      BY <1>1, <1>4, <2>1, <3>1, <3>2 DEF Emitted
    <3>4. task[p] = Share(i) /\ result[p] \in MethodResults(Share(i))
      BY <1>3, <1>4, <1>5 DEF Link, TaskRead
    <3>5. Uplink(i, p)'
      <4>1. /\ Carries(up'[p], result'[p], Got(i)')
            /\ task'[p] = Share(i) /\ result'[p] \in MethodResults(Share(i))
        BY <1>2, <2>1, <3>2, <3>4
      <4>. QED BY <1>3, <3>3, <4>1 DEF Uplink
    <3>6. ResultRead(i, p)'
      BY <1>2, <1>5 DEF Link, ResultRead
    <3>. QED BY <3>5, <3>6
  <2>3. CASE workers[i].state \notin Transfers \cup {"Done"}
    BY <2>3 DEF Uplink, ResultRead, Transfers, Reading
  <2>. QED BY <2>2, <2>3
<1>6. \A q \in Procs \ {p} : UNCHANGED <<up[q], result[q], sent[q]>>
  BY <1>1, <1>2, <1>3
<1>. QED BY <1>1, <1>2, <1>3, <1>4, <1>5, <1>6, WorkingFrame

(* Connect: a worker that nobody serves yet joins the queue.               *)
LEMMA ConnectStream ==
    ASSUME IInv, StreamInv, NEW p \in Procs, Connect(p), UNCHANGED masterVars
    PROVE  StreamInv'
<1>1. /\ wpc[p] = "connect" /\ wpc \in [Procs -> WorkerPcs] /\ acceptQueue \in Seq(Procs)
      /\ acceptQueue' = Append(acceptQueue, p) /\ wpc' = [wpc EXCEPT ![p] = "readSize"]
      /\ UNCHANGED <<down, up, buffer, want, task, result, sent>>
  BY DEF Connect, Goto, IInv, TypeOK, WorkerTypeOK, NetTypeOK
<1>2. wpc'[p] = "readSize" /\ \A q \in Procs \ {p} : wpc'[q] = wpc[q]
  BY <1>1
<1>3. Unserved(p) /\ \A k \in 1 .. Len(acceptQueue) : acceptQueue[k] # p /\ acceptQueue[k] \in Procs
  BY <1>1 DEF StreamInv, ConnectionsFit
<1>4. ConnectionsFit'
  <2>1. PICK m \in Nat : m = Len(acceptQueue)
    BY <1>1
  <2>2. /\ Len(acceptQueue') = m + 1 /\ acceptQueue'[m + 1] = p
        /\ \A k \in 1 .. m : acceptQueue'[k] = acceptQueue[k]
        /\ \A k \in 1 .. Len(acceptQueue') : k \in 1 .. m \/ k = m + 1
    BY <1>1, <2>1
  <2>3. ASSUME NEW k \in 1 .. Len(acceptQueue'), NEW l \in 1 .. Len(acceptQueue'),
               acceptQueue'[k] = acceptQueue'[l]
        PROVE  k = l
    <3>1. CASE k \in 1 .. m /\ l \in 1 .. m
      <4>1. acceptQueue[k] = acceptQueue[l]
        BY <2>2, <2>3, <3>1
      <4>. QED BY <2>1, <3>1, <4>1 DEF StreamInv, ConnectionsFit
    <3>2. CASE k = m + 1 /\ l \in 1 .. m
      BY <1>3, <2>1, <2>2, <2>3, <3>2
    <3>3. CASE k \in 1 .. m /\ l = m + 1
      BY <1>3, <2>1, <2>2, <2>3, <3>3
    <3>. QED BY <2>2, <3>1, <3>2, <3>3
  <2>4. ASSUME NEW k \in 1 .. Len(acceptQueue')
        PROVE  wpc'[acceptQueue'[k]] # "connect" /\ \A i \in Slots : servedBy'[i] # acceptQueue'[k]
    <3>1. CASE k = m + 1
      <4>1. acceptQueue'[k] = p
        BY <2>2, <3>1
      <4>. QED BY <1>2, <1>3, <4>1 DEF Unserved, masterVars
    <3>2. CASE k \in 1 .. m
      <4>1. acceptQueue'[k] = acceptQueue[k] /\ acceptQueue[k] \in Procs \ {p}
        BY <1>3, <2>1, <2>2, <3>2
      <4>2. wpc[acceptQueue[k]] # "connect" /\ \A i \in Slots : servedBy[i] # acceptQueue[k]
        BY <2>1, <3>2 DEF StreamInv, ConnectionsFit
      <4>. QED BY <1>2, <4>1, <4>2 DEF Unserved, masterVars
    <3>. QED BY <2>2, <3>1, <3>2
  <2>5. \A q \in Procs : wpc'[q] = "connect" => Unserved(q)'
    BY <1>2 DEF StreamInv, ConnectionsFit, Unserved, masterVars
  <2>. QED BY <2>3, <2>4, <2>5 DEF StreamInv, ConnectionsFit, masterVars
<1>5. WorkerFits(p)'
  BY <1>1, <1>2, <1>3
     DEF StreamInv, WorkerFits, Unserved, masterVars, ReadingTask, WritingResult, HasResult
<1>6. \A i \in Slots : servedBy[i] # p
  BY <1>3 DEF Unserved
<1>. QED BY <1>1, <1>2, <1>4, <1>5, <1>6, WorkerFrame

(* Every step of a worker.                                                 *)
LEMMA WorkerStream ==
    ASSUME IInv, StreamInv, NEW p \in Procs, WorkerStep(p) \/ WorkerCrash(p),
           UNCHANGED masterVars
    PROVE  StreamInv'
<1>0. down \in [Procs -> Seq(Byte)] /\ wpc[p] \in WorkerPcs
  BY DEF IInv, TypeOK, NetTypeOK, WorkerTypeOK
<1>1. CASE RecvFails(p) \/ WorkerRunFails(p) \/ MasterUnavailable(p) \/ SendFailsAtWorker(p)
  <2>1. GiveUp(p) /\ wpc[p] \in {"run", "check"} \cup ReadingTask \cup WritingResult
    BY <1>1 DEF RecvFails, WorkerRunFails, MasterUnavailable, SendFailsAtWorker
  <2>2. /\ wpc[p] \notin Ended /\ wpc[p] # "sent" /\ wpc' = [wpc EXCEPT ![p] = "failed"]
        /\ UNCHANGED <<acceptQueue, down, up, buffer, want, task, result, sent>>
    BY <2>1 DEF GiveUp, Goto, Ended, ReadingTask, WritingResult
  <2>. QED BY <2>2, WorkerStops
<1>2. CASE ConnectGivesUp(p)
  <2>1. /\ wpc[p] \notin Ended /\ wpc[p] # "sent" /\ wpc' = [wpc EXCEPT ![p] = "failed"]
        /\ UNCHANGED <<acceptQueue, down, up, buffer, want, task, result, sent>>
    BY <1>2 DEF ConnectGivesUp, Goto, Ended, netVars
  <2>. QED BY <2>1, WorkerStops
<1>3. CASE TaskRefused(p)
  <2>1. /\ wpc[p] \notin Ended /\ wpc[p] # "sent" /\ wpc' = [wpc EXCEPT ![p] = "failed"]
        /\ UNCHANGED <<acceptQueue, up, buffer, want, task, result, sent>>
        /\ down[p] # <<>> /\ down' = [down EXCEPT ![p] = RestBytes(@, Received(p))]
    BY <1>3 DEF TaskRefused, Recv, Goto, Ended
  <2>2. \A q \in Procs \ {p} : down'[q] = down[q]
    BY <1>0, <2>1
  <2>. QED BY <2>1, <2>2, WorkerStops
<1>4. CASE WorkerCrash(p)
  <2>1. /\ wpc[p] \notin Ended /\ wpc' = [wpc EXCEPT ![p] = "crashed"]
        /\ UNCHANGED <<acceptQueue, down, up, buffer, want, task, result, sent>>
    BY <1>4 DEF WorkerCrash, Goto
  <2>. QED BY <2>1, WorkerStops
<1>5. CASE Connect(p)
  BY <1>5, ConnectStream
<1>6. CASE RecvPart(p) \/ RecvHeader(p) \/ RecvTask(p)
  BY <1>6, RecvPartStream, RecvHeaderStream, RecvTaskStream
<1>7. CASE WorkerRun(p) \/ CheckMaster(p) \/ WorkerDestroy(p)
  BY <1>7, RunStream, CheckStream
<1>8. CASE Send(p)
  BY <1>8, SendStream
<1>. QED BY <1>1, <1>2, <1>3, <1>4, <1>5, <1>6, <1>7, <1>8 DEF WorkerStep
-----------------------------------------------------------------------------
(***************************************************************************)
(* The steps of the master that transfer nothing.                          *)
(***************************************************************************)
(* The queue is left alone, loses its head or is closed.                   *)
LEMMA QueueKept ==
    ASSUME ConnectionsFit, acceptQueue \in Seq(Procs),
           \/ UNCHANGED acceptQueue
           \/ acceptQueue # <<>> /\ acceptQueue' = Tail(acceptQueue)
           \/ acceptQueue' = <<>>,
           UNCHANGED <<wpc, servedBy, workersCount>>
    PROVE  ConnectionsFit'
<1>1. /\ \A i, j \in Slots : servedBy'[i] = servedBy'[j] /\ servedBy'[i] \in Procs => i = j
      /\ \A i \in Slots : i < workersCount' => servedBy'[i] \in Procs
      /\ \A p \in Procs : wpc'[p] = "connect" => \A i \in Slots : servedBy'[i] # p
  BY DEF ConnectionsFit, Unserved
<1>2. \A k \in 1 .. Len(acceptQueue') : \E l \in 1 .. Len(acceptQueue) :
          /\ acceptQueue'[k] = acceptQueue[l]
          /\ l = IF UNCHANGED acceptQueue THEN k ELSE k + 1
  <2>1. CASE UNCHANGED acceptQueue
    BY <2>1
  <2>2. CASE acceptQueue # <<>> /\ acceptQueue' = Tail(acceptQueue) /\ acceptQueue' # acceptQueue
    <3>1. /\ Len(acceptQueue') = Len(acceptQueue) - 1 /\ Len(acceptQueue) \in Nat
          /\ \A k \in 1 .. Len(acceptQueue') : acceptQueue'[k] = acceptQueue[k + 1]
      BY <2>2
    <3>2. ASSUME NEW k \in 1 .. Len(acceptQueue')
          PROVE  k + 1 \in 1 .. Len(acceptQueue) /\ acceptQueue'[k] = acceptQueue[k + 1]
      BY <3>1
    <3>. QED BY <2>2, <3>2
  <2>3. CASE acceptQueue' = <<>>
    BY <2>3
  <2>. QED BY <2>1, <2>2, <2>3
<1>3. ASSUME NEW k \in 1 .. Len(acceptQueue'), NEW l \in 1 .. Len(acceptQueue'),
             acceptQueue'[k] = acceptQueue'[l]
      PROVE  k = l
  <2>1. PICK a \in 1 .. Len(acceptQueue) : acceptQueue'[k] = acceptQueue[a]
                                           /\ a = IF UNCHANGED acceptQueue THEN k ELSE k + 1
    BY <1>2
  <2>2. PICK b \in 1 .. Len(acceptQueue) : acceptQueue'[l] = acceptQueue[b]
                                           /\ b = IF UNCHANGED acceptQueue THEN l ELSE l + 1
    BY <1>2
  <2>3. a = b
    BY <1>3, <2>1, <2>2 DEF ConnectionsFit
  <2>. QED BY <2>1, <2>2, <2>3
<1>4. ASSUME NEW k \in 1 .. Len(acceptQueue')
      PROVE  wpc'[acceptQueue'[k]] # "connect" /\ \A i \in Slots : servedBy'[i] # acceptQueue'[k]
  <2>1. PICK a \in 1 .. Len(acceptQueue) : acceptQueue'[k] = acceptQueue[a]
    BY <1>2
  <2>. QED BY <2>1 DEF ConnectionsFit
<1>. QED BY <1>1, <1>3, <1>4 DEF ConnectionsFit, Unserved

(* What a step must satisfy that moves no bytes.                           *)
LEMMA TableFrame ==
    ASSUME IInv, StreamInv, UNCHANGED <<workerVars, down, up, servedBy, workersCount>>,
           \/ UNCHANGED acceptQueue
           \/ acceptQueue # <<>> /\ acceptQueue' = Tail(acceptQueue)
           \/ acceptQueue' = <<>>,
           \A i \in Slots : \A p \in Procs : servedBy[i] = p /\ Link(i, p) => Link(i, p)'
    PROVE  StreamInv'
<1>. USE DEF workerVars
<1>1. ConnectionsFit'
  BY QueueKept DEF StreamInv, IInv, TypeOK, NetTypeOK
<1>2. \A p \in Procs : WorkerFits(p)'
  BY DEF StreamInv, WorkerFits, Unserved, Reply
<1>3. ASSUME NEW i \in Slots, servedBy[i] \in Procs PROVE Link(i, servedBy[i])'
  <2>. DEFINE q == servedBy[i]
  <2>1. Link(i, q) /\ q \in Procs /\ q' = q /\ servedBy[i] = q
    BY <1>3 DEF StreamInv, LinksFit
  <2>. HIDE DEF q
  <2>2. Link(i, q)'
    BY <2>1
  <2>. QED BY <2>1, <2>2 DEF q
<1>4. LinksFit'
  BY <1>3 DEF LinksFit
<1>. QED BY <1>1, <1>2, <1>4 DEF StreamInv

(* A slot that fails: nobody looks at its transfer or its result again.    *)
LEMMA LinkFailed ==
    ASSUME NEW i \in Slots, NEW p \in Procs, Link(i, p), workers'[i].state = "Failed",
           UNCHANGED <<wpc[p], down[p], buffer[p], want[p], task[p]>>
    PROVE  Link(i, p)'
<1>1. Taken(p)' = Taken(p)
  BY DEF Taken
<1>2. workers'[i].state \notin Transfers \cup {"Done", "SendTaskSize", "SendTaskData"}
  BY DEF Transfers, Sending, Reading
<1>3. Downlink(i, p)'
  BY <1>1, <1>2 DEF Link, Downlink, Transfers
<1>4. TaskRead(i, p)'
  BY DEF Link, TaskRead
<1>5. Uplink(i, p)' /\ ResultRead(i, p)'
  BY <1>2 DEF Uplink, ResultRead, Transfers, Reading
<1>. QED BY <1>3, <1>4, <1>5 DEF Link

(* Set-up, the loop, the clock, the end of the process, and accept() when  *)
(* it yields no slot.                                                      *)
LEMMA QuietStream ==
    ASSUME IInv, StreamInv, UNCHANGED workerVars,
           \/ MasterInit \/ MasterInitFails \/ MasterDestroy \/ MasterCrash \/ AcceptFails
           \/ LoopHead \/ PollReady \/ PollReturnsNothing \/ AcceptNothing \/ PassEnds
           \/ Tick \/ Alarm
    PROVE  StreamInv'
<1>1. /\ UNCHANGED <<down, up, servedBy, workersCount, slotsAtStart, results>>
      /\ \/ UNCHANGED acceptQueue
         \/ acceptQueue # <<>> /\ acceptQueue' = Tail(acceptQueue)
         \/ acceptQueue' = <<>>
      /\ status' \in {status, 1}
      /\ workers' = workers \/ MasterDestroy
  BY DEF MasterInit, MasterInitFails, MasterDestroy, MasterCrash, AcceptFails, LoopHead,
         PollReady, PollReturnsNothing, PollTimesOut, PollInterrupted, PollFails, AcceptNothing,
         PassEnds, Tick, Alarm, Stop, MasterClosesAll, netVars
<1>2. \A i \in Slots : UNCHANGED <<workers[i].state, workers[i].transferOffset,
                                   workers[i].sizeBuffer, workers[i].resultSize>>
  <2>1. CASE workers' = workers
    BY <2>1
  <2>2. CASE MasterDestroy
    <3>1. \A i \in Slots : workers[i] \in MasterWorker
      BY DEF IInv, TypeOK, MasterTypeOK
    <3>2. \A i \in Slots : workers'[i] = [workers[i] EXCEPT !.socketFd = NoFd]
      BY <2>2 DEF MasterDestroy
    <3>. QED BY <3>1, <3>2 DEF MasterWorker
  <2>. QED BY <1>1, <2>1, <2>2
<1>3. ASSUME NEW i \in Slots, NEW p \in Procs, Link(i, p) PROVE Link(i, p)'
  <2>1. UNCHANGED <<wpc[p], down[p], up[p], buffer[p], want[p], task[p], result[p], sent[p]>>
    BY <1>1 DEF workerVars
  <2>2. status' = 0 => status = 0
    BY <1>1
  <2>. QED BY <1>1, <1>2, <1>3, <2>1, <2>2, LinkKept
<1>. QED BY <1>1, <1>3, TableFrame

(* A new run forgets the results of an earlier one, and serves none of its *)
(* slots.                                                                  *)
LEMMA RunBeginsStream ==
    ASSUME IInv, StreamInv, UNCHANGED workerVars, MasterRunBegins
    PROVE  StreamInv'
<1>1. /\ UNCHANGED <<down, up, servedBy, workersCount, workers, acceptQueue>>
      /\ slotsAtStart' = workersCount
  BY DEF MasterRunBegins, netVars
<1>2. ASSUME NEW i \in Slots, NEW p \in Procs, servedBy[i] = p, Link(i, p) PROVE Link(i, p)'
  <2>1. UNCHANGED <<wpc[p], down[p], up[p], buffer[p], want[p], task[p], result[p], sent[p]>>
    BY <1>1 DEF workerVars
  <2>2. ~(i >= workersCount)
    BY <1>2, NetAssumption DEF IInv, MasterInv, SlotsInOrder
  <2>. QED BY <1>1, <1>2, <2>1, <2>2, LinkKept
<1>. QED BY <1>1, <1>2, TableFrame

(* The end of a run: after a failure every slot that is not done fails.    *)
LEMMA RunReturnsStream ==
    ASSUME IInv, StreamInv, UNCHANGED workerVars, MasterRunReturns
    PROVE  StreamInv'
<1>1. UNCHANGED <<down, up, servedBy, workersCount, slotsAtStart, acceptQueue, status>>
  BY DEF MasterRunReturns
<1>2. CASE status = 0
  <2>1. UNCHANGED <<workers, results>>
    BY <1>2 DEF MasterRunReturns
  <2>2. ASSUME NEW i \in Slots, NEW p \in Procs, Link(i, p) PROVE Link(i, p)'
    <3>1. UNCHANGED <<wpc[p], down[p], up[p], buffer[p], want[p], task[p], result[p], sent[p]>>
      BY <1>1 DEF workerVars
    <3>. QED BY <1>1, <2>1, <2>2, <3>1, LinkKept
  <2>. QED BY <1>1, <2>2, TableFrame
<1>3. CASE status # 0
  <2>1. CloseAllWorkers
    BY <1>3 DEF MasterRunReturns
  <2>2. ASSUME NEW i \in Slots, NEW p \in Procs, servedBy[i] = p, Link(i, p) PROVE Link(i, p)'
    <3>1. UNCHANGED <<wpc[p], down[p], up[p], buffer[p], want[p], task[p], result[p], sent[p]>>
      BY <1>1 DEF workerVars
    <3>2. i < workersCount /\ workers[i] \in MasterWorker
      <4>1. workersCount \in Nat /\ i \in Int /\ ~(i >= workersCount)
        BY <2>2, NetAssumption, MasterAssumption
           DEF IInv, MasterInv, SlotsInOrder, TypeOK, MasterTypeOK, Slots
      <4>. QED BY <4>1 DEF IInv, TypeOK, MasterTypeOK
    <3>3. workers'[i] = [workers[i] EXCEPT !.socketFd = NoFd,
                                           !.state = IF @ = "Done" THEN "Done" ELSE "Failed"]
      BY <2>1, <3>2 DEF CloseAllWorkers
    <3>4. CASE workers[i].state = "Done"
      <4>1. UNCHANGED <<workers[i].state, workers[i].transferOffset, workers[i].sizeBuffer,
                        workers[i].resultSize>>
        BY <3>2, <3>3, <3>4 DEF MasterWorker
      <4>. QED BY <1>1, <1>3, <2>2, <3>1, <4>1, LinkKept
    <3>5. CASE workers[i].state # "Done"
      <4>1. workers'[i].state = "Failed"
        BY <3>2, <3>3, <3>5 DEF MasterWorker
      <4>. QED BY <2>2, <3>1, <4>1, LinkFailed
    <3>. QED BY <3>4, <3>5
  <2>. QED BY <1>1, <2>2, TableFrame
<1>. QED BY <1>2, <1>3

(***************************************************************************)
(* MasterAcceptWorker: the worker at the head of the queue has received    *)
(* and sent nothing yet, and its slot starts from nothing as well.         *)
(***************************************************************************)
LEMMA AcceptStream ==
    ASSUME IInv, StreamInv, UNCHANGED workerVars, AcceptWorker
    PROVE  StreamInv'
<1>0. /\ acceptQueue \in Seq(Procs) /\ acceptQueue # <<>> /\ workersCount \in 0 .. Capacity
      /\ workersCount < Capacity
  BY DEF AcceptWorker, IInv, TypeOK, MasterTypeOK, NetTypeOK, MasterInv, RoomToAccept, FreeSlot
<1>a. PICK n \in Slots : n = workersCount
  BY <1>0, MasterAssumption DEF Slots
<1>b. PICK p \in Procs : p = Head(acceptQueue) /\ p = acceptQueue[1]
  BY <1>0
<1>1. /\ acceptQueue \in Seq(Procs) /\ acceptQueue # <<>> /\ n \in Nat
      /\ workers \in [Slots -> MasterWorker] /\ servedBy \in [Slots -> Procs \cup {NoFd}]
      /\ p = acceptQueue[1] /\ 1 \in 1 .. Len(acceptQueue)
  BY <1>0, <1>a, <1>b DEF IInv, TypeOK, MasterTypeOK
<1>2. /\ workers' = [workers EXCEPT ![n] = Assigned(n, p)]
      /\ servedBy' = [servedBy EXCEPT ![n] = p]
      /\ workersCount' = n + 1 /\ acceptQueue' = Tail(acceptQueue)
      /\ UNCHANGED <<results, status, slotsAtStart, down, up>>
  BY <1>a, <1>b DEF AcceptWorker
<1>3. servedBy[n] = NoFd /\ NoFd \notin Procs
  BY <1>1, <1>a, NetAssumption DEF IInv, MasterInv, SlotsInOrder
<1>4. wpc[p] # "connect" /\ \A i \in Slots : servedBy[i] # p
  <2>1. ASSUME NEW k \in 1 .. Len(acceptQueue), acceptQueue[k] = p
        PROVE  wpc[p] # "connect" /\ \A i \in Slots : servedBy[i] # p
    BY <2>1 DEF StreamInv, ConnectionsFit
  <2>. QED BY <1>1, <2>1
<1>5. /\ workers'[n] = Assigned(n, p) /\ servedBy'[n] = p
      /\ \A i \in Slots \ {n} : workers'[i] = workers[i] /\ servedBy'[i] = servedBy[i]
  BY <1>1, <1>2
<1>6. ASSUME NEW i \in Slots, NEW q \in Procs, i # n, servedBy[i] = q
      PROVE  Link(i, q)'
  <2>1. Link(i, q)
    BY <1>6 DEF StreamInv, LinksFit
  <2>2. UNCHANGED <<wpc[q], down[q], up[q], buffer[q], want[q], task[q], result[q], sent[q]>>
    BY <1>2 DEF workerVars
  <2>. QED BY <1>2, <1>5, <1>6, <2>1, <2>2, LinkKept
<1>7. Link(n, p)'
  <2>1. /\ down[p] = <<>> /\ up[p] = <<>> /\ buffer[p] = <<>>
        /\ wpc[p] \in {"readSize", "failed", "crashed"}
        /\ wpc[p] = "readSize" => sent[p] = 0
    BY <1>1, <1>4 DEF StreamInv, WorkerFits, Unserved, ReadingTask
  <2>2. /\ workers'[n].state = "SendTaskSize" /\ workers'[n].transferOffset = 0
        /\ workers'[n].sizeBuffer = ClusterEncodeSize(TaskLength(n))
    BY <1>5 DEF Assigned
  <2>3. /\ Share(n) \in Packets /\ result[p] \in Packets
        /\ HeaderSize \in Nat /\ HeaderSize > 0
        /\ WireSize(Share(n)) \in Nat /\ WireSize(result[p]) \in Nat
        /\ WireSize(result[p]) > 0
    <3>1. Share(n) \in Packets /\ result[p] \in Packets
      BY <1>1, ShareIsPacket, StreamTypes
    <3>. QED BY <3>1, WireFacts DEF WireSize
  <2>4. Carries(<<>>, Share(n), 0) /\ Carries(<<>>, result[p], 0)
    BY <2>3, CarriesNothing
  <2>5. /\ Got(n)' = 0 /\ Emitted(n, p)' = 0 /\ Pushed(n)' = 0
        /\ wpc[p] = "readSize" => Taken(p)' = 0 /\ Written(p)' = 0
    <3>1. Got(n)' = 0 /\ Pushed(n)' = 0
      BY <2>2 DEF Got, Pushed
    <3>2. Emitted(n, p)' = 0
      BY <1>2, <2>1, <3>1 DEF Emitted
    <3>3. wpc[p] = "readSize" => Taken(p)' = 0 /\ Written(p)' = 0
      BY <2>1 DEF Taken, Written, workerVars
    <3>. QED BY <3>1, <3>2, <3>3
  <2>6. Downlink(n, p)'
    BY <1>2, <2>1, <2>2, <2>3, <2>4, <2>5
       DEF Downlink, AtWork, ReadingTask, HasTask, WritingResult, workerVars, Share, TaskLength
  <2>7. TaskRead(n, p)'
    BY <2>1, <2>4 DEF TaskRead, HasTask, WritingResult, workerVars, Share
  <2>8. Uplink(n, p)'
    BY <1>2, <2>1, <2>3, <2>4, <2>5
       DEF Uplink, AtWork, ReadingTask, HasTask, WritingResult, workerVars
  <2>9. ResultRead(n, p)'
    BY <2>2 DEF ResultRead
  <2>. QED BY <2>6, <2>7, <2>8, <2>9 DEF Link
<1>8. LinksFit'
  <2>1. ASSUME NEW i \in Slots, servedBy'[i] \in Procs PROVE Link(i, servedBy[i])'
    <3>1. CASE i = n
      BY <1>5, <1>7, <3>1
    <3>2. CASE i # n
      <4>. DEFINE q == servedBy[i]
      <4>1. q \in Procs /\ q' = q
        BY <1>5, <2>1, <3>2
      <4>. HIDE DEF q
      <4>2. servedBy[i] = q
        BY DEF q
      <4>3. Link(i, q)'
        BY <1>6, <3>2, <4>1, <4>2
      <4>. QED BY <4>1, <4>3 DEF q
    <3>. QED BY <3>1, <3>2
  <2>. QED BY <2>1 DEF LinksFit
<1>9. ASSUME NEW q \in Procs PROVE WorkerFits(q)'
  <2>1. Unserved(q)' => Unserved(q)
    BY <1>1, <1>3, <1>5 DEF Unserved
  <2>2. WorkerFits(q) /\ Reply(q)' = Reply(q)
    BY DEF StreamInv, Reply, workerVars
  <2>. QED BY <1>2, <2>1, <2>2 DEF WorkerFits, workerVars
<1>10. ConnectionsFit'
  <2>1. \A i, j \in Slots : servedBy'[i] = servedBy'[j] /\ servedBy'[i] \in Procs => i = j
    BY <1>4, <1>5 DEF StreamInv, ConnectionsFit
  <2>2. ASSUME NEW i \in Slots, i < workersCount' PROVE servedBy'[i] \in Procs
    <3>1. i = n \/ i < n
      BY <1>1, <1>2, <2>2 DEF Slots
    <3>. QED BY <1>5, <1>a, <3>1 DEF StreamInv, ConnectionsFit
  <2>3. /\ Len(acceptQueue) \in Nat /\ Len(acceptQueue') = Len(acceptQueue) - 1
        /\ \A k \in 1 .. Len(acceptQueue') :
              k + 1 \in 1 .. Len(acceptQueue) /\ acceptQueue'[k] = acceptQueue[k + 1]
    <3>1. /\ Len(acceptQueue') = Len(acceptQueue) - 1 /\ Len(acceptQueue) \in Nat
          /\ \A k \in 1 .. Len(acceptQueue') : acceptQueue'[k] = acceptQueue[k + 1]
      BY <1>1, <1>2
    <3>2. ASSUME NEW k \in 1 .. Len(acceptQueue')
          PROVE  k + 1 \in 1 .. Len(acceptQueue) /\ acceptQueue'[k] = acceptQueue[k + 1]
      BY <3>1
    <3>. QED BY <3>1, <3>2
  <2>4. ASSUME NEW k \in 1 .. Len(acceptQueue'), NEW l \in 1 .. Len(acceptQueue'),
               acceptQueue'[k] = acceptQueue'[l]
        PROVE  k = l
    <3>1. PICK a \in 1 .. Len(acceptQueue) : a = k + 1 /\ acceptQueue'[k] = acceptQueue[a]
      BY <2>3
    <3>2. PICK b \in 1 .. Len(acceptQueue) : b = l + 1 /\ acceptQueue'[l] = acceptQueue[b]
      BY <2>3
    <3>3. a = b
      BY <2>4, <3>1, <3>2 DEF StreamInv, ConnectionsFit
    <3>. QED BY <3>1, <3>2, <3>3
  <2>5. ASSUME NEW k \in 1 .. Len(acceptQueue')
        PROVE  wpc'[acceptQueue'[k]] # "connect" /\ \A i \in Slots : servedBy'[i] # acceptQueue'[k]
    <3>1. PICK a \in 1 .. Len(acceptQueue) : a = k + 1 /\ acceptQueue'[k] = acceptQueue[a]
      BY <2>3
    <3>2. wpc[acceptQueue[a]] # "connect" /\ \A i \in Slots : servedBy[i] # acceptQueue[a]
      BY DEF StreamInv, ConnectionsFit
    <3>3. acceptQueue[a] # p
      <4>1. a # 1
        BY <3>1
      <4>. QED BY <1>1, <4>1 DEF StreamInv, ConnectionsFit
    <3>. QED BY <1>5, <3>1, <3>2, <3>3 DEF workerVars
  <2>6. ASSUME NEW q \in Procs, wpc'[q] = "connect" PROVE \A i \in Slots : servedBy'[i] # q
    BY <1>4, <1>5, <2>6 DEF StreamInv, ConnectionsFit, Unserved, workerVars
  <2>. QED BY <2>1, <2>2, <2>4, <2>5, <2>6 DEF ConnectionsFit, Unserved
<1>. QED BY <1>8, <1>9, <1>10 DEF StreamInv
-----------------------------------------------------------------------------
(***************************************************************************)
(* The service of a slot.                                                  *)
(***************************************************************************)
(* During the service, a slot's socket is that of its worker.              *)
LEMMA ServedLink ==
    ASSUME IInv, StreamInv, mpc = "serve", NEW i \in Slots, NextSlot(i)
    PROVE  /\ servedBy[i] \in Procs /\ workers[i].socketFd = servedBy[i]
           /\ Link(i, servedBy[i]) /\ i >= slotsAtStart /\ status = 0
           /\ workers[i].state \in Transfers
<1>1. /\ workers[i].state \in Transfers /\ i < workersCount /\ i >= slotsAtStart
  BY ServedSlot
<1>2. servedBy[i] \in Procs /\ workers[i].socketFd = servedBy[i]
  BY <1>1 DEF IInv, MasterInv, OpenWhileRunning, Running, InLoop
<1>3. status = 0
  BY DEF IInv, MasterInv, StatusFits, InLoop
<1>. QED BY <1>1, <1>2, <1>3 DEF StreamInv, LinksFit

(* The steps in which a slot fails.                                        *)
LEMMA FailuresStream ==
    ASSUME IInv, StreamInv, UNCHANGED workerVars, NEW i \in Slots,
           SlotHasError(i) \/ SendFails(i) \/ ReadFails(i) \/ HeaderFails(i)
    PROVE  StreamInv'
<1>1. mpc = "serve" /\ NextSlot(i) /\ FailSlot(i)
  BY DEF SlotHasError, SendFails, ReadFails, HeaderFails, Receiving, Serving
<1>2. PICK p \in Procs : p = servedBy[i] /\ workers[i].socketFd = p
  BY <1>1, ServedLink
<1>3. Link(i, p)
  BY <1>1, <1>2, ServedLink
<1>4. /\ UNCHANGED up \/ Pull(i)
      /\ \/ UNCHANGED results
         \/ results' = [results EXCEPT ![i] = [data |-> <<>>, size |-> DecodedSize(i)]]
  BY DEF SlotHasError, SendFails, ReadFails, HeaderFails
<1>5. /\ up \in [Procs -> Seq(Byte)] /\ workers \in [Slots -> MasterWorker]
      /\ results \in [Slots -> ResultPacket]
  BY DEF IInv, TypeOK, NetTypeOK, MasterTypeOK
<1>6. \A q \in Procs \ {p} : up'[q] = up[q]
  BY <1>2, <1>4, <1>5 DEF Pull
<1>7. /\ workers'[i].state = "Failed"
      /\ \A j \in Slots \ {i} : UNCHANGED <<workers[j], results[j]>>
  BY <1>1, <1>4, <1>5 DEF FailSlot, MasterWorker
<1>8. UNCHANGED <<down, servedBy, workersCount, acceptQueue, slotsAtStart>> /\ status' # 0
  BY <1>1 DEF FailSlot, Stop
<1>9. Link(i, p)'
  BY <1>3, <1>7, <1>8, LinkFailed DEF workerVars
<1>10. servedBy[i] = p
  BY <1>2
<1>. QED BY <1>6, <1>7, <1>8, <1>9, <1>10, SlotFrame

(* What a slot sends has the length of its header, or of its share.        *)
LEMMA OutgoingLength ==
    ASSUME IInv, StreamInv, mpc = "serve", NEW i \in Slots, NextSlot(i),
           workers[i].state \in Sending
    PROVE  Len(Outgoing(i)) =
               IF workers[i].state = "SendTaskSize" THEN HeaderSize ELSE TaskLength(i)
<1>1. Share(i) \in Packets /\ Len(Share(i)) = TaskLength(i)
  BY ShareIsPacket
<1>2. Link(i, servedBy[i]) /\ i < workersCount
  BY ServedLink, ServedSlot
<1>3. CASE workers[i].state = "SendTaskSize"
  <2>1. Outgoing(i) = ClusterEncodeSize(Len(Share(i)))
    BY <1>1, <1>2, <1>3 DEF Link, Downlink, Outgoing
  <2>. QED BY <1>1, <1>3, <2>1, WireFacts
<1>4. CASE workers[i].state # "SendTaskSize"
  <2>1. workers[i].taskOffset = TaskBegin(i) /\ workers[i].taskSize = TaskLength(i)
    BY <1>2 DEF IInv, MasterInv, SlotHoldsItsShare
  <2>2. TaskBegin(i) + TaskLength(i) = TaskBegin(i + 1)
    BY ShareEnds
  <2>3. Outgoing(i) = Share(i)
    BY <1>4, <2>1, <2>2 DEF Outgoing, Share
  <2>. QED BY <1>1, <1>4, <2>3
<1>. QED BY <1>3, <1>4

(* WritePart at the master pushes the next stretch of the task's packet.   *)
LEMMA PushStream ==
    ASSUME IInv, StreamInv, mpc = "serve", NEW i \in Slots, NextSlot(i),
           workers[i].state \in Sending, NEW p \in Procs, servedBy[i] = p,
           NEW n \in Nat, workers[i].transferOffset + n <= Len(Outgoing(i)), Push(i, n)
    PROVE  \E part \in Seq(Byte) :
              /\ down' = [down EXCEPT ![p] = @ \o part]
              /\ Len(part) = n /\ Carries(part, Share(i), Pushed(i))
<1>. DEFINE off == workers[i].transferOffset
            part == SubSeq(Outgoing(i), off + 1, off + n)
<1>1. off \in Nat /\ Share(i) \in Packets /\ Len(Share(i)) = TaskLength(i)
  BY SlotTypes, ShareIsPacket
<1>2. Link(i, p) /\ workers[i].socketFd = p /\ i < workersCount
  BY ServedLink, ServedSlot
<1>3. down' = [down EXCEPT ![p] = @ \o part]
  BY <1>2 DEF Push
<1>4. CASE workers[i].state = "SendTaskSize"
  <2>1. Outgoing(i) = ClusterEncodeSize(Len(Share(i))) /\ Pushed(i) = off
    BY <1>1, <1>2, <1>4 DEF Link, Downlink, Outgoing, Pushed
  <2>2. off + n <= HeaderSize
    BY <1>1, <2>1, WireFacts
  <2>3. part \in Seq(Byte) /\ Len(part) = n /\ Carries(part, Share(i), off)
    <3>. DEFINE piece == SubSeq(ClusterEncodeSize(Len(Share(i))), off + 1, off + n)
    <3>1. piece \in Seq(Byte) /\ Len(piece) = n /\ Carries(piece, Share(i), off)
      BY <1>1, <2>2, PartOfHeader
    <3>2. part = piece
      BY <2>1
    <3>. QED BY <3>1, <3>2
  <2>. QED BY <1>3, <2>1, <2>3
<1>5. CASE workers[i].state = "SendTaskData"
  <2>1. Outgoing(i) = Share(i)
    <3>1. workers[i].taskOffset = TaskBegin(i) /\ workers[i].taskSize = TaskLength(i)
      BY <1>2 DEF IInv, MasterInv, SlotHoldsItsShare
    <3>2. TaskBegin(i) + TaskLength(i) = TaskBegin(i + 1)
      BY ShareEnds
    <3>. QED BY <1>5, <3>1, <3>2 DEF Outgoing, Share
  <2>2. Pushed(i) = HeaderSize + off
    BY <1>1, <1>5, CodecAssumption DEF Pushed
  <2>3. part \in Seq(Byte) /\ Len(part) = n /\ Carries(part, Share(i), HeaderSize + off)
    BY <1>1, <2>1, PartOfData
  <2>. QED BY <1>3, <2>2, <2>3
<1>. QED BY <1>4, <1>5 DEF Sending

(* Sending a part of the task, or the rest of it.                          *)
LEMMA SendTaskStream ==
    ASSUME IInv, StreamInv, UNCHANGED workerVars, NEW i \in Slots,
           SendCompletes(i) \/ SendStalls(i)
    PROVE  StreamInv'
<1>1. mpc = "serve" /\ NextSlot(i) /\ workers[i].state \in Sending
  BY DEF SendCompletes, SendStalls, Serving
<1>2. PICK p \in Procs : servedBy[i] = p /\ Link(i, p) /\ workers[i].socketFd = p
  BY <1>1, ServedLink
<1>3. /\ workers \in [Slots -> MasterWorker] /\ workers[i] \in MasterWorker
      /\ down \in [Procs -> Seq(Byte)] /\ down[p] \in Seq(Byte)
      /\ UNCHANGED <<results, servedBy, workersCount, acceptQueue, slotsAtStart, status, up>>
  BY DEF IInv, TypeOK, MasterTypeOK, NetTypeOK, SendCompletes, SendStalls
<1>4. /\ workers[i].transferOffset \in Nat /\ Len(Outgoing(i)) \in Nat
      /\ Unsent(i) = Len(Outgoing(i)) - workers[i].transferOffset
      /\ HeaderSize \in Nat /\ HeaderSize > 0 /\ Pushed(i) \in Nat
      /\ TaskLength(i) \in Nat
  BY <1>1, SlotTypes, OutgoingFacts, ShareFacts, CodecAssumption DEF Unsent, Sizes
<1>5. /\ workers[i].transferOffset <= Len(Outgoing(i))
      /\ workers[i].state = "SendTaskSize" => Len(Outgoing(i)) = HeaderSize
      /\ workers[i].state = "SendTaskData" => Len(Outgoing(i)) = TaskLength(i)
  <2>2. CASE workers[i].state = "SendTaskSize"
    BY <1>1, <1>2, <2>2, OutgoingLength DEF Link, Downlink
  <2>3. CASE workers[i].state = "SendTaskData"
    BY <1>1, <1>2, <2>3, OutgoingLength DEF Link, Downlink
  <2>. QED BY <1>1, <2>2, <2>3 DEF Sending
<1>6. PICK n \in Nat :
          /\ Push(i, n) /\ workers[i].transferOffset + n <= Len(Outgoing(i))
          /\ \/ /\ workers' = [workers EXCEPT ![i].transferOffset = 0,
                                              ![i].state = AfterSending(@)]
                /\ workers[i].transferOffset + n = Len(Outgoing(i))
             \/ workers' = [workers EXCEPT ![i].transferOffset = @ + n]
  <2>1. CASE SendCompletes(i)
    <3>1. Unsent(i) \in Nat /\ workers[i].transferOffset + Unsent(i) = Len(Outgoing(i))
      BY <1>4, <1>5
    <3>. QED BY <2>1, <3>1 DEF SendCompletes
  <2>2. CASE SendStalls(i)
    <3>1. PICK n \in 1 .. Least(Unsent(i) - 1, Room(down[workers[i].socketFd])) :
              /\ Push(i, n)
              /\ workers' = [workers EXCEPT ![i].transferOffset = @ + n]
      BY <2>2 DEF SendStalls
    <3>2. Room(down[p]) \in Int
      BY <1>3, NetAssumption, LenProperties DEF Room
    <3>3. n \in Nat /\ workers[i].transferOffset + n <= Len(Outgoing(i))
      BY <1>2, <1>4, <3>2 DEF Least
    <3>. QED BY <3>1, <3>3
  <2>. QED BY <2>1, <2>2
<1>7. PICK part \in Seq(Byte) :
          /\ down' = [down EXCEPT ![p] = @ \o part]
          /\ Len(part) = n /\ Carries(part, Share(i), Pushed(i))
  BY <1>1, <1>2, <1>6, PushStream
<1>8. /\ down'[p] = down[p] \o part
      /\ \A q \in Procs \ {p} : UNCHANGED <<down[q], up[q]>>
      /\ \A j \in Slots \ {i} : UNCHANGED <<workers[j], results[j]>>
  BY <1>3, <1>6, <1>7
<1>. DEFINE off == workers[i].transferOffset
            st == workers[i].state
<1>9. /\ workers'[i].sizeBuffer = workers[i].sizeBuffer
      /\ \/ workers'[i].transferOffset = off + n /\ workers'[i].state = st
         \/ /\ workers'[i].transferOffset = 0 /\ off + n = Len(Outgoing(i))
            /\ workers'[i].state = AfterSending(st)
  BY <1>3, <1>6 DEF MasterWorker
<1>10. /\ workers'[i].state \in Sending \cup {"ReadResultSize"}
       /\ workers'[i].state \in Sending => Pushed(i)' = Pushed(i) + n
       /\ workers'[i].state = "SendTaskSize" => workers'[i].transferOffset <= HeaderSize
       /\ workers'[i].state = "SendTaskData" => workers'[i].transferOffset <= TaskLength(i)
       /\ workers'[i].state = "ReadResultSize" => workers'[i].transferOffset = 0
       /\ workers'[i].state = "SendTaskSize" => st = "SendTaskSize"
  <2>1. CASE st = "SendTaskSize"
    <3>1. Pushed(i) = off
      BY <1>4, <2>1 DEF Pushed
    <3>2. CASE workers'[i].transferOffset = off + n /\ workers'[i].state = st
      BY <1>4, <1>5, <1>6, <2>1, <3>1, <3>2 DEF Pushed, Sending
    <3>3. CASE workers'[i].transferOffset = 0 /\ off + n = Len(Outgoing(i))
               /\ workers'[i].state = AfterSending(st)
      <4>1. workers'[i].state = "SendTaskData" /\ off + n = HeaderSize
        BY <1>5, <2>1, <3>3 DEF AfterSending
      <4>. QED BY <1>4, <3>1, <3>3, <4>1 DEF Pushed, Sending
    <3>. QED BY <1>9, <3>2, <3>3
  <2>2. CASE st = "SendTaskData"
    <3>1. CASE workers'[i].transferOffset = off + n /\ workers'[i].state = st
      BY <1>4, <1>5, <1>6, <2>2, <3>1 DEF Pushed, Sending
    <3>2. CASE workers'[i].transferOffset = 0 /\ workers'[i].state = AfterSending(st)
      BY <2>2, <3>2 DEF AfterSending, Sending
    <3>. QED BY <1>9, <3>1, <3>2
  <2>. QED BY <1>1, <2>1, <2>2 DEF Sending
<1>. HIDE DEF off, st
<1>11. Downlink(i, p)'
  <2>1. workers'[i].state = "SendTaskSize" => workers'[i].sizeBuffer = ClusterEncodeSize(TaskLength(i))
    BY <1>2, <1>9, <1>10 DEF Link, Downlink, st
  <2>2. Taken(p)' = Taken(p)
    BY DEF Taken, workerVars
  <2>3. ASSUME wpc[p] \in AtWork
        PROVE  /\ Carries(down'[p], Share(i), Taken(p))
               /\ workers'[i].state \in Sending => Taken(p) + Len(down'[p]) = Pushed(i)'
    <3>1. /\ Carries(down[p], Share(i), Taken(p)) /\ Taken(p) + Len(down[p]) = Pushed(i)
      BY <1>1, <1>2, <2>3 DEF Link, Downlink
    <3>2. Taken(p) \in Nat /\ Share(i) \in Packets /\ Len(down[p]) \in Nat
      BY TakenIsNat, StreamTypes, ShareIsPacket
    <3>3. Carries(part, Share(i), Taken(p) + Len(down[p]))
      BY <1>7, <3>1
    <3>4. /\ Carries(down[p] \o part, Share(i), Taken(p))
          /\ Len(down[p] \o part) = Len(down[p]) + Len(part)
      BY <1>3, <3>1, <3>2, <3>3, CarriesMore
    <3>. QED BY <1>4, <1>7, <1>8, <1>10, <3>1, <3>2, <3>4
  <2>. QED BY <1>10, <2>1, <2>2, <2>3 DEF Downlink, workerVars, Share, TaskLength
<1>12. TaskRead(i, p)'
  BY <1>2 DEF Link, TaskRead, workerVars
<1>13. Uplink(i, p)'
  <2>1. Got(i) = 0
    BY <1>1 DEF Got, Sending
  <2>2. Got(i)' = 0
    BY <1>10 DEF Got, Sending
  <2>3. Emitted(i, p)' = Emitted(i, p) /\ Written(p)' = Written(p)
    BY <1>3, <2>1, <2>2 DEF Emitted, Written, workerVars
  <2>4. workers[i].state \in Transfers
    BY <1>1 DEF Transfers
  <2>. QED BY <1>2, <1>3, <2>1, <2>2, <2>3, <2>4 DEF Link, Uplink, workerVars
<1>14. ResultRead(i, p)'
  BY <1>10 DEF ResultRead, Sending
<1>. QED BY <1>2, <1>3, <1>8, <1>11, <1>12, <1>13, <1>14, SlotFrame DEF Link

(***************************************************************************)
(* ReadPart at the master takes the next stretch of the result's packet    *)
(* and puts it behind what the slot has of it.                             *)
(***************************************************************************)
LEMMA PullStream ==
    ASSUME IInv, StreamInv, mpc = "serve", NEW i \in Slots, NextSlot(i),
           workers[i].state \in Reading, NEW p \in Procs, servedBy[i] = p, Pull(i)
    PROVE  LET n    == Arrived(i)
               base == IF workers[i].state = "ReadResultSize" THEN 0 ELSE HeaderSize
               more == workers[i].transferOffset + n
           IN  /\ n \in Nat /\ more \in Nat /\ more <= Len(Incoming(i))
               /\ up'[p] \in Seq(Byte) /\ Len(up'[p]) = Len(up[p]) - n
               /\ Got(i) = base + workers[i].transferOffset
               /\ Carries(up'[p], result[p], Got(i) + n)
               /\ \A k \in 1 .. more : Filled(i)[k] = OnWire(result[p], base + k)
               /\ \A q \in Procs \ {p} : up'[q] = up[q]
<1>. DEFINE n    == Arrived(i)
            base == IF workers[i].state = "ReadResultSize" THEN 0 ELSE HeaderSize
            off  == workers[i].transferOffset
            bytes == up[p]
<1>1. /\ Link(i, p) /\ workers[i].socketFd = p /\ i >= slotsAtStart /\ status = 0
  BY ServedLink
<1>2. /\ bytes \in Seq(Byte) /\ Len(bytes) \in Nat /\ up \in [Procs -> Seq(Byte)]
      /\ off \in Nat /\ base \in Nat /\ result[p] \in Packets /\ Got(i) \in Nat
  BY StreamTypes, SlotTypes DEF IInv, TypeOK, NetTypeOK
<1>3. off <= Len(Incoming(i)) /\ Len(Incoming(i)) \in Nat
  <2>1. off <= Len(Incoming(i))
    BY DEF IInv, MasterInv, OffsetsInBounds
  <2>2. CASE workers[i].state = "ReadResultSize"
    BY <2>1, <2>2, SlotTypes, HeaderIsSeq DEF MasterWorker, Incoming
  <2>3. CASE workers[i].state # "ReadResultSize"
    BY <2>1, <2>3, SlotTypes DEF ResultPacket, Incoming
  <2>. QED BY <2>2, <2>3
<1>4. n \in 0 .. Len(bytes) /\ n \in Nat /\ off + n <= Len(Incoming(i))
  <2>1. n = Least(Len(bytes), Len(Incoming(i)) - off)
    BY <1>1 DEF Arrived
  <2>. HIDE DEF n, off, bytes
  <2>. QED BY <1>2, <1>3, <2>1 DEF Least
<1>5. up'[p] = RestBytes(bytes, n) /\ \A q \in Procs \ {p} : up'[q] = up[q]
  BY <1>1, <1>2 DEF Pull
<1>6. Got(i) = base + off
  BY <1>2 DEF Got, Reading
<1>7. Carries(bytes, result[p], Got(i))
  BY <1>1 DEF Link, Uplink, Transfers
<1>8. /\ up'[p] \in Seq(Byte) /\ Len(up'[p]) = Len(bytes) - n
      /\ Carries(up'[p], result[p], Got(i) + n)
  <2>. HIDE DEF n, bytes
  <2>. QED BY <1>2, <1>4, <1>5, <1>7, CarriesLess
<1>9. \A k \in 1 .. off : Incoming(i)[k] = OnWire(result[p], base + k)
  <2>1. CASE workers[i].state = "ReadResultSize"
    <3>1. \A k \in 1 .. off : workers[i].sizeBuffer[k] = OnWire(result[p], k)
      BY <1>1, <2>1 DEF Link, ResultRead
    <3>. QED BY <1>2, <2>1, <3>1 DEF Incoming
  <2>2. CASE workers[i].state = "ReadResultData"
    <3>1. /\ Len(results[i].data) = Len(result[p])
          /\ \A k \in 1 .. Len(result[p]) : k <= off => results[i].data[k] = result[p][k]
      BY <1>1, <2>2 DEF Link, ResultRead
    <3>2. ASSUME NEW k \in 1 .. off PROVE Incoming(i)[k] = OnWire(result[p], base + k)
      <4>1. Incoming(i) = results[i].data /\ base = HeaderSize
        BY <2>2 DEF Incoming
      <4>. HIDE DEF base, off
      <4>2. k \in 1 .. Len(result[p]) /\ k <= off
        BY <1>2, <1>3, <3>1, <4>1
      <4>3. Incoming(i)[k] = result[p][k]
        BY <3>1, <4>1, <4>2
      <4>4. k \in Nat \ {0}
        BY <4>2
      <4>5. OnWire(result[p], HeaderSize + k) = result[p][k]
        BY <1>2, <4>4, DataOnWire
      <4>. QED BY <4>1, <4>3, <4>5
    <3>. QED BY <3>2
  <2>. QED BY <2>1, <2>2 DEF Reading
<1>10. ASSUME NEW k \in 1 .. off + n PROVE Filled(i)[k] = OnWire(result[p], base + k)
  <2>1. Filled(i) = [j \in 1 .. Len(Incoming(i)) |->
                        IF j \in off + 1 .. off + n THEN bytes[j - off] ELSE Incoming(i)[j]]
    BY <1>1 DEF Filled
  <2>. HIDE DEF n, off, bytes, base
  <2>2. k \in 1 .. Len(Incoming(i)) /\ k \in Int
    BY <1>2, <1>3, <1>4
  <2>3. CASE k <= off
    <3>1. k \notin off + 1 .. off + n /\ k \in 1 .. off
      BY <1>2, <1>4, <2>2, <2>3
    <3>. QED BY <1>9, <2>1, <2>2, <3>1
  <2>4. CASE k > off
    <3>1. PICK j \in 1 .. Len(bytes) : j = k - off /\ k \in off + 1 .. off + n
      BY <1>2, <1>4, <2>2, <2>4
    <3>2. bytes[j] = OnWire(result[p], Got(i) + j)
      BY <1>7 DEF Carries
    <3>3. Got(i) + j = base + k
      BY <1>2, <1>6, <2>2, <3>1
    <3>. QED BY <2>1, <2>2, <3>1, <3>2, <3>3
  <2>. QED BY <1>2, <2>2, <2>3, <2>4
<1>11. off + n \in Nat
  BY <1>2, <1>4
<1>. QED BY <1>4, <1>5, <1>6, <1>8, <1>10, <1>11

(* A complete header from a worker announces the size of its result.       *)
LEMMA HeaderIsDecoded ==
    ASSUME IInv, StreamInv, mpc = "serve", NEW i \in Slots, NextSlot(i), Pull(i),
           workers[i].state = "ReadResultSize", Completes(i),
           NEW p \in Procs, servedBy[i] = p
    PROVE  DecodedSize(i) = Len(result[p])
<1>1. workers[i].state \in Reading /\ result[p] \in Packets /\ HeaderSize \in Nat
      /\ Len(result[p]) \in Nat
  BY StreamTypes, WireFacts DEF Reading
<1>2. Filled(i) \in [1 .. HeaderSize -> Byte] /\ Len(Incoming(i)) = HeaderSize
  BY <1>1, SlotTypes, IncomingFacts, HeaderIsSeq DEF MasterWorker, Incoming
<1>3. workers[i].transferOffset + Arrived(i) = HeaderSize
  BY <1>2 DEF Completes
<1>4. \A k \in 1 .. HeaderSize : Filled(i)[k] = OnWire(result[p], 0 + k)
  BY <1>1, <1>3, PullStream
<1>5. Filled(i) \in Seq(Byte) /\ Len(Filled(i)) = HeaderSize
  BY <1>2, HeaderIsSeq
<1>6. Carries(Filled(i), result[p], 0)
  <2>1. 0 + HeaderSize <= WireSize(result[p])
    BY <1>1 DEF WireSize
  <2>. QED BY <1>4, <1>5, <2>1 DEF Carries
<1>7. Filled(i) = ClusterEncodeSize(Len(result[p]))
  BY <1>1, <1>5, <1>6, CarriesHeader
<1>. QED BY <1>1, <1>7, WireFacts DEF DecodedSize

(* Reading moves bytes from the channel into the slot: none is lost.       *)
LEMMA UplinkPulled ==
    ASSUME IInv, NEW i \in Slots, NEW p \in Procs, Uplink(i, p), UNCHANGED workerVars,
           workers[i].state \in Transfers, workers'[i].state \in Transfers \cup {"Done"},
           NEW n \in Nat, Got(i)' = Got(i) + n, up'[p] \in Seq(Byte), Len(up'[p]) = Len(up[p]) - n,
           Carries(up'[p], result[p], Got(i) + n)
    PROVE  Uplink(i, p)'
<1>1. Got(i) \in Nat /\ Len(up[p]) \in Nat
  BY SlotTypes, StreamTypes
<1>2. Emitted(i, p)' = Emitted(i, p)
  BY <1>1 DEF Emitted
<1>3. Written(p)' = Written(p)
  BY DEF Written, workerVars
<1>4. Carries(up'[p], result'[p], Got(i)')
  BY DEF workerVars
<1>. QED BY <1>2, <1>3, <1>4 DEF Uplink, workerVars, Share

(* The steps in which a slot receives.                                     *)
LEMMA ReceiveStream ==
    ASSUME IInv, StreamInv, UNCHANGED workerVars, NEW i \in Slots,
           ReadHeader(i) \/ ReadData(i) \/ ReadStalls(i)
    PROVE  StreamInv'
<1>1. mpc = "serve" /\ NextSlot(i) /\ workers[i].state \in Reading
  BY ReceiveFrame
<1>2. PICK p \in Procs : servedBy[i] = p /\ Link(i, p) /\ workers[i].socketFd = p
  BY <1>1, ServedLink
<1>3. status = 0 /\ i >= slotsAtStart
  BY <1>1, ServedLink
<1>4. Pull(i) /\ UNCHANGED <<down, servedBy, workersCount, acceptQueue, slotsAtStart, status>>
  BY DEF ReadHeader, ReadData, ReadStalls
<1>5. /\ workers \in [Slots -> MasterWorker] /\ workers[i] \in MasterWorker
      /\ results \in [Slots -> ResultPacket] /\ results[i] \in ResultPacket
      /\ result[p] \in Packets /\ Len(result[p]) \in Nat
      /\ HeaderSize \in Nat /\ HeaderSize > 0 /\ workers[i].transferOffset \in Nat
      /\ Got(i) \in Nat
  BY StreamTypes, SlotTypes, WireFacts DEF IInv, TypeOK, MasterTypeOK
<1>. DEFINE base == IF workers[i].state = "ReadResultSize" THEN 0 ELSE HeaderSize
            more == workers[i].transferOffset + Arrived(i)
<1>6. PICK n \in Nat :
          /\ n = Arrived(i) /\ more \in Nat /\ more <= Len(Incoming(i))
          /\ up'[p] \in Seq(Byte) /\ Len(up'[p]) = Len(up[p]) - n
          /\ Got(i) = base + workers[i].transferOffset
          /\ Carries(up'[p], result[p], Got(i) + n)
          /\ \A k \in 1 .. more : Filled(i)[k] = OnWire(result[p], base + k)
          /\ \A q \in Procs \ {p} : up'[q] = up[q]
  BY <1>1, <1>2, <1>4, PullStream
<1>7. \A j \in Slots \ {i} : UNCHANGED <<workers[j], results[j]>>
  BY <1>5 DEF ReadHeader, ReadData, ReadStalls
<1>8. ASSUME workers'[i].state \in Reading \cup {"Done"}, Got(i)' = base + more,
             ResultRead(i, p)'
      PROVE  StreamInv'
  <2>1. workers'[i].state \notin Sending /\ workers'[i].state \notin {"SendTaskSize", "SendTaskData"}
        /\ workers[i].state \notin Sending
    BY <1>1, <1>8 DEF Sending, Reading
  <2>2. Downlink(i, p)'
    <3>1. Taken(p)' = Taken(p)
      BY DEF Taken, workerVars
    <3>. QED BY <1>2, <1>4, <2>1, <3>1 DEF Link, Downlink, workerVars
  <2>3. TaskRead(i, p)'
    BY <1>2 DEF Link, TaskRead, workerVars
  <2>4. Got(i)' = Got(i) + n
    <3>1. base \in Nat
      BY <1>5
    <3>2. more = workers[i].transferOffset + n
      BY <1>6
    <3>. HIDE DEF base, more
    <3>. QED BY <1>5, <1>6, <1>8, <3>1, <3>2
  <2>5. workers'[i].state \in Transfers \cup {"Done"} /\ workers[i].state \in Transfers
    BY <1>1, <1>8 DEF Transfers
  <2>6. Uplink(i, p)'
    BY <1>2, <1>6, <2>4, <2>5, UplinkPulled DEF Link
  <2>7. Link(i, p)'
    BY <1>8, <2>2, <2>3, <2>6 DEF Link
  <2>. QED BY <1>2, <1>4, <1>6, <1>7, <2>7, SlotFrame
<1>. HIDE DEF more, base
<1>9. CASE ReadHeader(i)
  <2>1. /\ workers[i].state = "ReadResultSize" /\ base = 0 /\ Incoming(i) = workers[i].sizeBuffer
    BY <1>9 DEF ReadHeader, Receiving, Serving, Incoming, base
  <2>2. Filled(i) \in [1 .. HeaderSize -> Byte] /\ Len(Incoming(i)) = HeaderSize
    BY <1>1, <1>5, <2>1, IncomingFacts, HeaderIsSeq DEF MasterWorker
  <2>3. more = HeaderSize
    BY <1>9, <2>2 DEF ReadHeader, Completes, more
  <2>4. DecodedSize(i) = Len(result[p])
    BY <1>1, <1>2, <1>4, <1>9, <2>1, HeaderIsDecoded DEF ReadHeader
  <2>. DEFINE size == Len(result[p])
  <2>5. /\ workers'[i].state = AfterHeader(size) /\ workers'[i].transferOffset = 0
        /\ workers'[i].resultSize = size
        /\ results'[i] = [data |-> [k \in 1 .. size |-> Uninit], size |-> size]
    BY <1>5, <1>9, <2>4 DEF ReadHeader, MasterWorker
  <2>6. /\ workers'[i].state \in {"Done", "ReadResultData"}
        /\ workers'[i].state = "Done" => size = 0
    BY <2>5 DEF AfterHeader
  <2>7. Got(i)' = base + more
    BY <1>5, <2>1, <2>3, <2>5, <2>6 DEF Got
  <2>8. results'[i].size = size /\ Len(results'[i].data) = size
    BY <1>5, <2>5
  <2>9. ResultRead(i, p)'
    BY <1>5, <2>5, <2>6, <2>8 DEF ResultRead, workerVars
  <2>. QED BY <1>8, <2>6, <2>7, <2>9 DEF Reading
<1>10. CASE workers[i].state = "ReadResultData"
  <2>1. base = HeaderSize /\ Incoming(i) = results[i].data
    BY <1>10 DEF base, Incoming
  <2>2. /\ workers[i].resultSize = Len(result[p]) /\ results[i].size = Len(result[p])
        /\ Len(results[i].data) = Len(result[p])
    BY <1>2, <1>3, <1>10 DEF Link, ResultRead
  <2>3. Len(Filled(i)) = Len(result[p])
    BY <1>1, <2>1, <2>2, IncomingFacts
  <2>4. ASSUME NEW k \in 1 .. Len(result[p]), k <= more
        PROVE  Filled(i)[k] = result[p][k]
    <3>1. k \in 1 .. more /\ k \in Nat \ {0}
      BY <1>5, <1>6, <2>4
    <3>2. Filled(i)[k] = OnWire(result[p], HeaderSize + k)
      BY <1>6, <2>1, <3>1
    <3>. QED BY <1>5, <3>1, <3>2, DataOnWire
  <2>5. ASSUME results'[i].data = Filled(i), results'[i].size = results[i].size,
               workers'[i].resultSize = workers[i].resultSize,
               \/ workers'[i].state = "ReadResultData" /\ workers'[i].transferOffset = more
               \/ workers'[i].state = "Done" /\ more = Len(result[p])
        PROVE  StreamInv'
    <3>1. Got(i)' = base + more
      BY <2>1, <2>2, <2>5 DEF Got
    <3>2. workers'[i].state \in {"ReadResultData", "Done"}
      BY <2>5
    <3>3. \A k \in 1 .. Len(result[p]) :
              workers'[i].state = "Done" \/ k <= workers'[i].transferOffset =>
                  results'[i].data[k] = result[p][k]
      BY <2>4, <2>5
    <3>4. ResultRead(i, p)'
      BY <2>2, <2>3, <2>5, <3>2, <3>3 DEF ResultRead, workerVars
    <3>. QED BY <1>8, <3>1, <3>2, <3>4 DEF Reading
  <2>6. CASE ReadData(i)
    <3>1. more = Len(result[p])
      BY <2>1, <2>2, <2>6 DEF ReadData, Completes, more
    <3>. QED BY <1>5, <2>5, <2>6, <3>1 DEF ReadData, MasterWorker, ResultPacket
  <2>7. CASE ReadStalls(i)
    <3>1. /\ workers' = [workers EXCEPT ![i].transferOffset = more]
          /\ results' = [results EXCEPT ![i].data = Filled(i)]
      BY <1>10, <2>7 DEF ReadStalls, more
    <3>2. results'[i].data = Filled(i) /\ results'[i].size = results[i].size
      BY <1>5, <3>1 DEF ResultPacket
    <3>3. /\ workers'[i].resultSize = workers[i].resultSize
          /\ workers'[i].state = "ReadResultData" /\ workers'[i].transferOffset = more
      BY <1>5, <1>10, <3>1 DEF MasterWorker
    <3>. QED BY <2>5, <3>2, <3>3
  <2>8. ~ReadHeader(i)
    BY <1>10 DEF ReadHeader, Receiving, Serving
  <2>. QED BY <2>6, <2>7, <2>8
<1>11. CASE workers[i].state = "ReadResultSize" /\ ~ReadHeader(i)
  <2>1. ReadStalls(i)
    BY <1>11 DEF ReadData, Receiving, Serving
  <2>2. /\ workers'[i].sizeBuffer = Filled(i) /\ workers'[i].transferOffset = more
        /\ workers'[i].state = "ReadResultSize"
    BY <1>5, <1>11, <2>1 DEF ReadStalls, MasterWorker, more
  <2>3. base = 0
    BY <1>11 DEF base
  <2>4. Got(i)' = base + more
    BY <1>6, <2>2, <2>3 DEF Got
  <2>5. ResultRead(i, p)'
    BY <1>6, <2>2, <2>3 DEF ResultRead, workerVars, OnWire
  <2>. QED BY <1>8, <2>2, <2>4, <2>5 DEF Reading
<1>. QED BY <1>1, <1>9, <1>10, <1>11 DEF Reading
-----------------------------------------------------------------------------
(***************************************************************************)
(* All the steps together.                                                 *)
(***************************************************************************)
(* Every step of the master.                                               *)
LEMMA MasterStream ==
    ASSUME IInv, StreamInv, MasterNext, UNCHANGED workerVars
    PROVE  StreamInv'
<1>1. CASE \/ MasterInit \/ MasterInitFails \/ MasterDestroy \/ MasterCrash \/ AcceptFails
           \/ LoopHead \/ PollReady \/ PollReturnsNothing \/ AcceptNothing \/ PassEnds
           \/ Tick \/ Alarm
  BY <1>1, QuietStream
<1>2. CASE MasterRunBegins \/ MasterRunReturns
  BY <1>2, RunBeginsStream, RunReturnsStream
<1>3. CASE AcceptWorker
  BY <1>3, AcceptStream
<1>4. CASE ServeSlot
  <2>1. PICK i \in Slots :
            \/ SlotHasError(i)
            \/ SendCompletes(i) \/ SendStalls(i) \/ SendFails(i)
            \/ ReadHeader(i) \/ HeaderFails(i) \/ ReadData(i) \/ ReadStalls(i) \/ ReadFails(i)
    BY <1>4 DEF ServeSlot
  <2>2. CASE SlotHasError(i) \/ SendFails(i) \/ ReadFails(i) \/ HeaderFails(i)
    BY <2>2, FailuresStream
  <2>3. CASE SendCompletes(i) \/ SendStalls(i)
    BY <2>3, SendTaskStream
  <2>4. CASE ReadHeader(i) \/ ReadData(i) \/ ReadStalls(i)
    BY <2>4, ReceiveStream
  <2>. QED BY <2>1, <2>2, <2>3, <2>4
<1>. QED BY <1>1, <1>2, <1>3, <1>4 DEF MasterNext, MasterStep, MasterFault

(* In the beginning nobody is connected.                                   *)
LEMMA StreamInit == Init => StreamInv
<1>. SUFFICES ASSUME Init PROVE StreamInv
  OBVIOUS
<1>. USE DEF Init, NetInit, MasterStateInit, WorkerStateInit
<1>1. \A i \in Slots : servedBy[i] \notin Procs
  BY NetAssumption
<1>2. ConnectionsFit
  <2>1. Len(acceptQueue) = 0
    OBVIOUS
  <2>2. \A i \in Slots : ~(i < workersCount)
    BY MasterAssumption DEF Slots
  <2>. QED BY <1>1, <2>1, <2>2 DEF ConnectionsFit, Unserved
<1>3. LinksFit
  BY <1>1 DEF LinksFit
<1>4. \A p \in Procs : WorkerFits(p)
  BY DEF WorkerFits, WritingResult, HasResult, ReadingTask
<1>. QED BY <1>2, <1>3, <1>4 DEF StreamInv

(* Every step of the cluster preserves the invariant of the streams.       *)
LEMMA StreamStep == IInv /\ StreamInv /\ [Next]_vars => StreamInv'
<1>. SUFFICES ASSUME IInv, StreamInv, [Next]_vars PROVE StreamInv'
  OBVIOUS
<1>1. CASE MasterNext /\ UNCHANGED workerVars
  BY <1>1, MasterStream
<1>2. ASSUME NEW p \in Procs, WorkerStep(p) \/ WorkerCrash(p), UNCHANGED masterVars
      PROVE  StreamInv'
  BY <1>2, WorkerStream
<1>3. CASE (Net \/ UNCHANGED netVars) /\ UNCHANGED <<masterVars, workerVars>>
  <2>1. UNCHANGED <<down, up, acceptQueue>>
    BY <1>3 DEF Net, PeerReset, LinkReset, netVars
  <2>2. UNCHANGED <<workerVars, down, up, servedBy, workersCount>> /\ UNCHANGED acceptQueue
    BY <1>3, <2>1 DEF masterVars
  <2>3. ASSUME NEW i \in Slots, NEW p \in Procs, Link(i, p) PROVE Link(i, p)'
    <3>1. /\ UNCHANGED <<wpc[p], down[p], up[p], buffer[p], want[p], task[p], result[p], sent[p]>>
          /\ UNCHANGED <<workers, results, status, slotsAtStart>>
      BY <1>3, <2>1 DEF workerVars, masterVars
    <3>. QED BY <2>3, <3>1, LinkKept
  <2>. QED BY <2>2, <2>3, TableFrame
<1>4. CASE UNCHANGED vars
  BY <1>3, <1>4 DEF vars
<1>. QED BY <1>1, <1>2, <1>3, <1>4 DEF Next, Terminated

(***************************************************************************)
(* The invariant of the byte streams: what has been pushed, is in flight   *)
(* or has been taken of a task or a result is always one stretch of its    *)
(* packet, through WritePart, send(), recv() and ReadPart of any length.   *)
(***************************************************************************)
THEOREM StreamsFit == Spec => []StreamInv
<1>. QED BY InvariantHolds, StreamInit, StreamStep, PTL DEF Spec

(* A slot that is done has a worker ...                                    *)
LEMMA DoneIsServed ==
    ASSUME IInv, StreamInv, NEW i \in Slots, workers[i].state = "Done"
    PROVE  servedBy[i] \in Procs
<1>1. workersCount \in Nat /\ i \in Int
  BY MasterAssumption DEF IInv, TypeOK, MasterTypeOK, Slots
<1>2. ~(i >= workersCount)
  BY DEF IInv, MasterInv, SlotsInOrder, MasterWorkerPrepareEmpty
<1>. QED BY <1>1, <1>2 DEF StreamInv, ConnectionsFit

(* ... and that worker has written its whole result.                       *)
LEMMA DoneHasSent ==
    ASSUME IInv, StreamInv, NEW i \in Slots, workers[i].state = "Done",
           NEW p \in Procs, servedBy[i] = p, status = 0, i >= slotsAtStart
    PROVE  wpc[p] \in {"sent", "done", "crashed"}
<1>1. Link(i, p) /\ WorkerFits(p) /\ wpc[p] # "connect"
  BY DEF StreamInv, LinksFit, ConnectionsFit, Unserved
<1>2. workers[i].resultSize = Len(result[p])
  BY <1>1 DEF Link, ResultRead
<1>3. Emitted(i, p) >= WireSize(result[p])
  <2>1. Len(up[p]) \in Nat /\ Len(result[p]) \in Nat /\ HeaderSize \in Nat
    BY StreamTypes, WireFacts
  <2>. QED BY <1>2, <2>1 DEF Emitted, Got, WireSize
<1>4. /\ wpc[p] \in AtWork => Emitted(i, p) = Written(p)
      /\ wpc[p] = "failed" => Emitted(i, p) < WireSize(result[p])
  BY <1>1 DEF Link, Uplink
<1>5. Emitted(i, p) \in Nat /\ WireSize(result[p]) \in Nat
  BY SlotTypes, StreamTypes, WireFacts DEF Emitted
<1>6. wpc[p] # "failed"
  BY <1>3, <1>4, <1>5
<1>7. wpc[p] \notin {"run", "check"} \cup ReadingTask \cup WritingResult
  <2>. SUFFICES ASSUME wpc[p] \in {"run", "check"} \cup ReadingTask \cup WritingResult
                PROVE  FALSE
    OBVIOUS
  <2>1. Written(p) \in Nat /\ Written(p) < WireSize(result[p])
    BY <1>1, WrittenShort
  <2>2. wpc[p] \in AtWork
    BY DEF AtWork, HasTask
  <2>. QED BY <1>3, <1>4, <1>5, <2>1, <2>2
<1>. QED BY <1>1, <1>6, <1>7, StreamTypes DEF WorkerPcs, Ended

(***************************************************************************)
(* The task a worker computes on is byte for byte the share of its slot.   *)
(***************************************************************************)
THEOREM TasksAreShares == Spec => []TaskIsItsShare
<1>1. IInv /\ StreamInv => TaskIsItsShare
  <2>. SUFFICES ASSUME IInv, StreamInv, NEW p \in Procs, wpc[p] \in HasTask
                PROVE  \E i \in Slots : Serves(p, i) /\ task[p] = Share(i)
    BY DEF TaskIsItsShare
  <2>1. PICK i \in Slots : servedBy[i] = p
    BY DEF StreamInv, WorkerFits, Unserved, HasTask, WritingResult
  <2>2. Link(i, p)
    BY <2>1 DEF StreamInv, LinksFit
  <2>. QED BY <2>1, <2>2 DEF Link, TaskRead, Serves
<1>. QED BY <1>1, InvariantHolds, StreamsFit, PTL

(* A slot that became Done in this run holds the answer of its worker.     *)
LEMMA DoneIsAnswered == IInv /\ StreamInv => DoneHoldsAnswer
<1>. SUFFICES ASSUME IInv, StreamInv, NEW i \in Slots, workers[i].state = "Done",
                     status = 0, i >= slotsAtStart
              PROVE  /\ results[i].data = result[servedBy[i]]
                     /\ results[i].data \in MethodResults(Share(i))
                     /\ results[i].size = Len(results[i].data)
  BY DEF DoneHoldsAnswer
<1>1. PICK p \in Procs : p = servedBy[i]
  BY DoneIsServed
<1>2. Link(i, p)
  BY <1>1 DEF StreamInv, LinksFit
<1>3. /\ results[i].size = Len(result[p]) /\ Len(results[i].data) = Len(result[p])
      /\ \A k \in 1 .. Len(result[p]) : results[i].data[k] = result[p][k]
  BY <1>2 DEF Link, ResultRead
<1>4. results[i].data = result[p]
  <2>1. /\ results[i].data \in Seq(Byte \cup {Uninit}) /\ result[p] \in Seq(Byte)
        /\ result[p] \in Seq(Byte \cup {Uninit})
    BY SlotTypes, StreamTypes, WireFacts DEF ResultPacket
  <2>. QED BY <1>3, <2>1, SeqEqual
<1>5. Emitted(i, p) > 0
  <2>1. Got(i) = HeaderSize + workers[i].resultSize
    BY DEF Got
  <2>. QED BY <2>1, SlotTypes, StreamTypes DEF Emitted
<1>6. result[p] \in MethodResults(Share(i))
  BY <1>2, <1>5 DEF Link, Uplink
<1>. QED BY <1>1, <1>3, <1>4, <1>6

(***************************************************************************)
(* A slot that is done in a run that has not failed holds exactly what its *)
(* worker computed from its share.                                         *)
(***************************************************************************)
THEOREM ResultsAreComputed == Spec => []ResultIsComputed
<1>1. DoneHoldsAnswer => ResultIsComputed
  <2>1. slotsAtStart = 0 => \A i \in Slots : i >= slotsAtStart
    BY MasterAssumption DEF Slots
  <2>. QED BY <2>1 DEF DoneHoldsAnswer, ResultIsComputed
<1>. QED BY <1>1, DoneIsAnswered, InvariantHolds, StreamsFit, PTL

(***************************************************************************)
(* When MasterRun returns 0, all of its workers have got rid of their      *)
(* results: none of them reports a failure of its own any more.            *)
(***************************************************************************)
THEOREM OutcomesAgree == Spec => []SuccessIsAgreed
<1>1. IInv /\ StreamInv => SuccessIsAgreed
  <2>. SUFFICES ASSUME IInv, StreamInv, Succeeded, NEW i \in Slots
                PROVE  servedBy[i] \in Procs /\ wpc[servedBy[i]] \in {"sent", "done", "crashed"}
    BY DEF SuccessIsAgreed
  <2>1. workers[i].state = "Done"
    BY DEF IInv, MasterInv, SuccessMeansAllDone
  <2>2. PICK p \in Procs : p = servedBy[i]
    BY <2>1, DoneIsServed
  <2>3. wpc[p] \in {"sent", "done", "crashed"}
    <3>1. status = 0 /\ i >= slotsAtStart
      BY MasterAssumption DEF IInv, MasterInv, SuccessMeansAllDone, Succeeded, Slots
    <3>. QED BY <2>1, <2>2, <3>1, DoneHasSent
  <2>. QED BY <2>2, <2>3
<1>. QED BY <1>1, InvariantHolds, StreamsFit, PTL
-----------------------------------------------------------------------------
(***************************************************************************)
(* The tasks, put together, are the data.                                  *)
(***************************************************************************)
(* FlattenSeq is the only function that satisfies its recursive equation.  *)
LEMMA FlattenIs ==
    ASSUME NEW S, NEW n \in Nat \ {0},
           NEW seqs \in [1 .. n -> Seq(S)], NEW g \in [1 .. n -> Seq(S)],
           \A i \in 1 .. n : g[i] = IF i = 1 THEN seqs[i] ELSE g[i - 1] \o seqs[i]
    PROVE  FlattenSeq(seqs) = g[n]
<1>. DEFINE Flattens(f) ==
                f = [i \in 1 .. Len(seqs) |-> IF i = 1 THEN seqs[i] ELSE f[i - 1] \o seqs[i]]
            flatten == CHOOSE f : Flattens(f)
<1>0. Len(seqs) = n
  OBVIOUS
<1>1. FlattenSeq(seqs) = flatten[n]
  <2>1. Len(seqs) # 0
    BY <1>0
  <2>. QED BY <1>0, <2>1, Zenon DEF FlattenSeq
<1>2. Flattens(g)
  <2>. DEFINE step == [i \in 1 .. n |-> IF i = 1 THEN seqs[i] ELSE g[i - 1] \o seqs[i]]
  <2>1. g = step
    OBVIOUS
  <2>. QED BY <1>0, <2>1, Zenon
<1>3. flatten = [i \in 1 .. n |-> IF i = 1 THEN seqs[i] ELSE flatten[i - 1] \o seqs[i]]
  <2>1. Flattens(flatten)
    <3>. HIDE DEF Flattens
    <3>. QED BY <1>2
  <2>. HIDE DEF flatten
  <2>. QED BY <1>0, <2>1, Zenon
<1>. HIDE DEF flatten
<1>. DEFINE T == {k \in Nat : k \in 1 .. n => flatten[k] = g[k]}
<1>4. 0 \in T
  OBVIOUS
<1>5. ASSUME NEW k \in Nat, k \in T PROVE k + 1 \in T
  <2>. SUFFICES ASSUME k + 1 \in 1 .. n PROVE flatten[k + 1] = g[k + 1]
    OBVIOUS
  <2>1. CASE k = 0
    BY <1>3, <2>1
  <2>2. CASE k # 0
    <3>1. k \in 1 .. n /\ flatten[k] = g[k] /\ (k + 1) - 1 = k /\ k + 1 # 1
      BY <1>5, <2>2
    <3>2. flatten[k + 1] = flatten[k] \o seqs[k + 1]
      BY <1>3, <3>1
    <3>3. g[k + 1] = g[k] \o seqs[k + 1]
      BY <3>1
    <3>. QED BY <3>1, <3>2, <3>3
  <2>. QED BY <2>1, <2>2
<1>. HIDE DEF T
<1>6. n \in T
  BY <1>4, <1>5, InductionOverNat
<1>. QED BY <1>1, <1>6 DEF T

(* The shares of all slots, in slot order, make up the caller's data.      *)
LEMMA SharesCoverData ==
    FlattenSeq([k \in 1 .. Capacity |-> Share(k - 1)]) = Data
<1>. DEFINE shares == [k \in 1 .. Capacity |-> Share(k - 1)]
            prefix == [k \in 1 .. Capacity |-> SubSeq(Data, 1, TaskBegin(k))]
<1>1. Capacity \in Nat \ {0} /\ Data \in Seq(Byte) /\ Len(Data) \in Nat
  BY MasterAssumption, LenProperties
<1>2. shares \in [1 .. Capacity -> Seq(Byte)]
  <2>1. ASSUME NEW k \in 1 .. Capacity PROVE Share(k - 1) \in Seq(Byte)
    <3>1. k - 1 \in Slots
      BY <1>1 DEF Slots
    <3>. QED BY <3>1, ShareIsPacket, PacketIsSeq
  <2>. QED BY <2>1
<1>3. ASSUME NEW k \in 1 .. Capacity
      PROVE  prefix[k] = IF k = 1 THEN shares[k] ELSE prefix[k - 1] \o shares[k]
  <2>. DEFINE i == k - 1
  <2>1. i \in Slots /\ i + 1 = k
    BY <1>1 DEF Slots
  <2>2. /\ TaskBegin(i) \in Nat /\ TaskLength(i) \in Nat
        /\ TaskBegin(i) + TaskLength(i) = TaskBegin(k)
        /\ TaskBegin(i) + TaskLength(i) <= Len(Data)
    BY <2>1, ShareFacts, ShareEnds, CodecAssumption DEF Sizes
  <2>3. shares[k] = SubSeq(Data, TaskBegin(i) + 1, TaskBegin(k))
    BY <2>1 DEF Share
  <2>4. SubSeq(Data, 1, TaskBegin(i)) \o SubSeq(Data, TaskBegin(i) + 1, TaskBegin(i) + TaskLength(i))
            = SubSeq(Data, 1, TaskBegin(i) + TaskLength(i))
    BY <1>1, <2>2, PartsJoin
  <2>5. SubSeq(Data, 1, TaskBegin(i)) \o shares[k] = prefix[k]
    BY <2>2, <2>3, <2>4
  <2>6. CASE k = 1
    <3>1. TaskBegin(i) = 0 /\ 0 + 1 = 1
      BY <1>1, <2>6, SplitPointTiles DEF TaskBegin
    <3>. QED BY <2>3, <2>6, <3>1
  <2>7. CASE k # 1
    <3>1. prefix[k - 1] = SubSeq(Data, 1, TaskBegin(i))
      <4>1. i \in 1 .. Capacity
        BY <1>1, <2>7
      <4>. QED BY <4>1
    <3>. HIDE DEF shares, prefix
    <3>. QED BY <2>5, <2>7, <3>1
  <2>. QED BY <2>6, <2>7
<1>4. prefix \in [1 .. Capacity -> Seq(Byte)]
  <2>1. ASSUME NEW k \in 1 .. Capacity PROVE SubSeq(Data, 1, TaskBegin(k)) \in Seq(Byte)
    <3>1. TaskBegin(k) \in Nat /\ 0 + TaskBegin(k) <= Len(Data)
      BY <1>1, SplitPointTiles DEF TaskBegin
    <3>2. SubSeq(Data, 0 + 1, 0 + TaskBegin(k)) \in Seq(Byte)
      BY <1>1, <3>1, PartElements
    <3>. QED BY <3>1, <3>2
  <2>. QED BY <2>1
<1>5. prefix[Capacity] = Data
  <2>1. TaskBegin(Capacity) = Len(Data)
    BY <1>1, SplitPointTiles DEF TaskBegin
  <2>2. SubSeq(Data, 1, Len(Data)) = Data
    BY <1>1, WholeSeq
  <2>. QED BY <1>1, <2>1, <2>2
<1>. HIDE DEF shares, prefix
<1>6. FlattenSeq(shares) = prefix[Capacity]
  BY <1>1, <1>2, <1>3, <1>4, FlattenIs
<1>. QED BY <1>5, <1>6 DEF shares

(***************************************************************************)
(* When MasterRun returns 0, the tasks its workers computed on are, put    *)
(* together, the caller's data: nothing is left out or computed twice.     *)
(***************************************************************************)
THEOREM SuccessCovers == Spec => []SuccessCoversData
<1>1. IInv /\ StreamInv => SuccessCoversData
  <2>. SUFFICES ASSUME IInv, StreamInv, Succeeded
                PROVE  /\ \A i \in Slots : workers[i].state = "Done"
                       /\ \A i, j \in Slots : i # j => servedBy[i] # servedBy[j]
                       /\ FlattenSeq([k \in 1 .. Capacity |-> task[servedBy[k - 1]]]) = Data
    BY DEF SuccessCoversData
  <2>1. status = 0 /\ slotsAtStart = 0 /\ \A i \in Slots : workers[i].state = "Done"
    BY DEF IInv, MasterInv, SuccessMeansAllDone, Succeeded
  <2>2. \A i \in Slots : servedBy[i] \in Procs
    BY <2>1, DoneIsServed
  <2>3. \A i, j \in Slots : i # j => servedBy[i] # servedBy[j]
    BY <2>2 DEF StreamInv, ConnectionsFit
  <2>4. ASSUME NEW i \in Slots PROVE task[servedBy[i]] = Share(i)
    <3>1. PICK p \in Procs : servedBy[i] = p
      BY <2>2
    <3>2. i >= slotsAtStart
      BY <2>1, MasterAssumption DEF Slots
    <3>3. wpc[p] \in {"sent", "done", "crashed"}
      BY <2>1, <3>1, <3>2, DoneHasSent
    <3>4. Emitted(i, p) > 0
      <4>1. Got(i) = HeaderSize + workers[i].resultSize
        BY <2>1 DEF Got
      <4>. QED BY <4>1, SlotTypes, StreamTypes DEF Emitted
    <3>5. Link(i, p) /\ workers[i].state = "Done"
      BY <2>1, <3>1 DEF StreamInv, LinksFit
    <3>. QED BY <3>1, <3>4, <3>5 DEF Link, Uplink
  <2>5. [k \in 1 .. Capacity |-> task[servedBy[k - 1]]] = [k \in 1 .. Capacity |-> Share(k - 1)]
    <3>1. \A k \in 1 .. Capacity : k - 1 \in Slots
      BY MasterAssumption DEF Slots
    <3>. QED BY <2>4, <3>1
  <2>. QED BY <2>1, <2>3, <2>5, SharesCoverData
<1>. QED BY <1>1, InvariantHolds, StreamsFit, PTL
-----------------------------------------------------------------------------
(***************************************************************************)
(* The refinement of ClusterJob.                                           *)
(***************************************************************************)
(* Calls of MasterRun are counted, and nobody is accepted before the first. *)
LEMMA RunsAreCounted == Spec => []RunsCounted
<1>1. Init => RunsCounted
  BY DEF Init, MasterStateInit, RunsCounted, Running, InLoop
<1>2. IInv /\ RunsCounted /\ [Next]_vars => RunsCounted'
  <2>. SUFFICES ASSUME IInv, RunsCounted, [Next]_vars PROVE RunsCounted'
    OBVIOUS
  <2>1. runs \in Nat
    BY MasterAssumption DEF IInv, TypeOK, MasterTypeOK
  <2>2. CASE MasterNext
    <3>. USE DEF RunsCounted, Running, InLoop
    <3>1. CASE MasterInit \/ MasterInitFails \/ MasterDestroy \/ MasterCrash
      BY <3>1 DEF MasterInit, MasterInitFails, MasterDestroy, MasterCrash
    <3>2. CASE LoopHead \/ PollReady \/ PollReturnsNothing \/ PassEnds \/ Tick \/ Alarm
      BY <3>2 DEF LoopHead, PollReady, PollReturnsNothing, PollTimesOut, PollInterrupted,
         PollFails, PassEnds, Tick, Alarm, Stop
    <3>3. CASE AcceptWorker \/ AcceptNothing \/ AcceptFails
      BY <3>3 DEF AcceptWorker, AcceptNothing, AcceptFails, Stop
    <3>4. CASE ServeSlot
      BY <3>4 DEF ServeSlot, SlotHasError, Serving, SendCompletes, SendStalls, SendFails,
         ReadHeader, HeaderFails, ReadData, ReadStalls, ReadFails, Receiving, FailSlot, Stop
    <3>5. CASE MasterRunBegins
      <4>1. runs' = runs + 1 /\ mpc' \in {"loop", "returned"}
        BY <3>5 DEF MasterRunBegins
      <4>. QED BY <2>1, <4>1
    <3>6. CASE MasterRunReturns
      BY <3>6 DEF MasterRunReturns
    <3>. QED BY <2>2, <3>1, <3>2, <3>3, <3>4, <3>5, <3>6 DEF MasterNext, MasterStep, MasterFault
  <2>3. CASE UNCHANGED masterVars
    BY <2>3 DEF masterVars, RunsCounted
  <2>. QED BY <2>2, <2>3 DEF Next, Terminated, vars
<1>. QED BY <1>1, <1>2, InvariantHolds, PTL DEF Spec

(* A step that neither ends a run nor finishes a slot is none of the job's. *)
LEMMA JobIdle ==
    ASSUME Outcome' = Outcome, UNCHANGED slotsAtStart,
           \A i \in Slots : workers'[i].state = "Done" <=> workers[i].state = "Done",
           \A i \in Slots : workers[i].state = "Done" => results'[i].data = results[i].data
    PROVE  UNCHANGED Job!jobVars
<1>1. Collected' = Collected
  BY DEF Collected
<1>. QED BY <1>1 DEF Job!jobVars

(* A slot is finished: its result is one that the method may produce.      *)
LEMMA SlotDoneJob ==
    ASSUME DoneHoldsAnswer', NEW i \in Slots, mpc \in Running, mpc' \in Running,
           i >= slotsAtStart, UNCHANGED slotsAtStart, status' = 0,
           workers[i].state # "Done", workers'[i].state = "Done",
           \A j \in Slots \ {i} : UNCHANGED <<workers[j].state, results[j].data>>
    PROVE  Job!Next
<1>1. results'[i].data \in ShareResults(i)
  BY DEF DoneHoldsAnswer, ShareResults, Share
<1>2. Outcome = "open" /\ Outcome' = "open"
  BY DEF Outcome, Running, InLoop
<1>3. Collected[i] = {} /\ Collected' = [Collected EXCEPT ![i] = {results'[i].data}]
  BY <1>2 DEF Collected
<1>4. Job!Collect(i)
  BY <1>1, <1>2, <1>3 DEF Job!Collect
<1>. QED BY <1>4 DEF Job!Next

(* Set-up, the loop, the clock, the end of the process, and accept().      *)
LEMMA QuietJob ==
    ASSUME IInv, RunsCounted,
           \/ MasterInit \/ MasterInitFails \/ MasterDestroy \/ MasterCrash \/ AcceptFails
           \/ LoopHead \/ PollReady \/ PollReturnsNothing \/ AcceptNothing \/ PassEnds
           \/ Tick \/ Alarm
    PROVE  UNCHANGED Job!jobVars
<1>1. /\ UNCHANGED <<runs, results, slotsAtStart>>
      /\ workers' = workers \/ MasterDestroy
  BY DEF MasterInit, MasterInitFails, MasterDestroy, MasterCrash, AcceptFails, LoopHead,
         PollReady, PollReturnsNothing, PollTimesOut, PollInterrupted, PollFails, AcceptNothing,
         PassEnds, Tick, Alarm, Stop
<1>2. \A i \in Slots : workers'[i].state = workers[i].state
  <2>1. CASE workers' = workers
    BY <2>1
  <2>2. CASE MasterDestroy
    <3>1. \A i \in Slots : workers[i] \in MasterWorker
      BY DEF IInv, TypeOK, MasterTypeOK
    <3>2. \A i \in Slots : workers'[i] = [workers[i] EXCEPT !.socketFd = NoFd]
      BY <2>2 DEF MasterDestroy
    <3>. QED BY <3>1, <3>2 DEF MasterWorker
  <2>. QED BY <1>1, <2>1, <2>2
<1>3. Outcome' = Outcome
  <2>. USE DEF Outcome
  <2>1. CASE MasterInit \/ MasterInitFails
    BY <1>1, <2>1 DEF MasterInit, MasterInitFails, RunsCounted
  <2>2. CASE MasterDestroy
    BY <1>1, <2>2 DEF MasterDestroy, RunsCounted
  <2>3. CASE MasterCrash
    BY <1>1, <2>3 DEF MasterCrash, InLoop
  <2>4. CASE \/ AcceptFails \/ LoopHead \/ PollReady \/ PollReturnsNothing \/ AcceptNothing
             \/ PassEnds \/ Tick \/ Alarm
    <3>1. mpc \in Running /\ mpc' \in Running
      BY <2>4 DEF AcceptFails, LoopHead, PollReady, PollReturnsNothing, PollTimesOut,
         PollInterrupted, PollFails, AcceptNothing, PassEnds, Tick, Alarm, Stop, Running, InLoop
    <3>. QED BY <3>1 DEF Running, InLoop
  <2>. QED BY <2>1, <2>2, <2>3, <2>4
<1>. QED BY <1>1, <1>2, <1>3, JobIdle

(* A call of MasterRun begins the job, and starts afresh after an earlier one. *)
LEMMA RunBeginsJob ==
    ASSUME IInv, RunsCounted, MasterRunBegins
    PROVE  [Job!Next]_(Job!jobVars)
<1>1. /\ slotsAtStart' = workersCount /\ runs' > 0 /\ workers' = workers
      /\ mpc \in {"ready", "returned"}
      /\ \/ mpc' = "loop"
         \/ mpc' = "returned" /\ status' = 1
  BY MasterAssumption DEF MasterRunBegins, IInv, TypeOK, MasterTypeOK
<1>2. Outcome' \in {"open", "failure"}
  BY <1>1 DEF Outcome
<1>3. Collected' = [i \in Slots |-> {}]
  <2>1. workersCount \in Nat /\ \A i \in Slots : i \in Int
    BY MasterAssumption DEF IInv, TypeOK, MasterTypeOK, Slots
  <2>2. \A i \in Slots : i >= workersCount => workers[i].state # "Done"
    BY <2>1 DEF IInv, MasterInv, SlotsInOrder, MasterWorkerPrepareEmpty
  <2>. QED BY <1>1, <2>2 DEF Collected
<1>4. CASE mpc = "ready"
  <2>1. Outcome = "open"
    BY <1>4 DEF Outcome
  <2>2. workersCount = 0 /\ slotsAtStart = 0
    BY <1>4, MasterAssumption DEF RunsCounted, IInv, TypeOK, MasterTypeOK, MasterInv, SlotsInOrder
  <2>3. Collected = [i \in Slots |-> {}]
    <3>1. \A i \in Slots : workers[i].state # "Done"
      BY <2>2, MasterAssumption
         DEF IInv, MasterInv, SlotsInOrder, MasterWorkerPrepareEmpty, Slots
    <3>. QED BY <3>1 DEF Collected
  <2>. QED BY <1>2, <1>3, <2>1, <2>3 DEF Job!Next, Job!Fail, Job!jobVars
<1>5. CASE mpc = "returned"
  <2>1. Outcome # "open"
    BY <1>5 DEF Outcome, RunsCounted
  <2>. QED BY <1>2, <1>3, <2>1 DEF Job!Next, Job!Again
<1>. QED BY <1>1, <1>4, <1>5

(* The return of MasterRun ends it: with all results, or with none.        *)
LEMMA RunReturnsJob ==
    ASSUME IInv, IInv', RunsCounted, MasterRunReturns
    PROVE  Job!Next
<1>1. /\ mpc = "finish" /\ mpc' = "returned" /\ runs > 0 /\ UNCHANGED <<runs, status, slotsAtStart>>
      /\ status \in {0, 1}
  BY DEF MasterRunReturns, RunsCounted, Running, IInv, TypeOK, MasterTypeOK
<1>2. Outcome = "open"
  BY <1>1 DEF Outcome
<1>3. CASE status = 0
  <2>1. Outcome' = "success"
    BY <1>1, <1>3 DEF Outcome
  <2>2. UNCHANGED <<workers, results>>
    BY <1>3 DEF MasterRunReturns
  <2>3. \A i \in Slots : i >= slotsAtStart /\ workers[i].state = "Done"
    BY <1>1, <1>3, <2>2, MasterAssumption
       DEF IInv, MasterInv, SuccessMeansAllDone, Succeeded, Slots
  <2>4. Collected' = Collected /\ \A i \in Slots : Collected[i] # {}
    BY <1>1, <1>2, <2>1, <2>2, <2>3 DEF Collected
  <2>. QED BY <1>2, <2>1, <2>4 DEF Job!Next, Job!Succeed
<1>4. CASE status = 1
  <2>1. Outcome' = "failure"
    BY <1>1, <1>4 DEF Outcome
  <2>2. Collected' = [i \in Slots |-> {}]
    BY <2>1 DEF Collected
  <2>. QED BY <1>2, <2>1, <2>2 DEF Job!Next, Job!Fail
<1>. QED BY <1>1, <1>3, <1>4

(* The service of a slot.                                                  *)
LEMMA ServeJob ==
    ASSUME IInv, DoneHoldsAnswer', NEW i \in Slots,
           \/ SlotHasError(i)
           \/ SendCompletes(i) \/ SendStalls(i) \/ SendFails(i)
           \/ ReadHeader(i) \/ HeaderFails(i) \/ ReadData(i) \/ ReadStalls(i) \/ ReadFails(i)
    PROVE  [Job!Next]_(Job!jobVars)
<1>1. mpc = "serve" /\ NextSlot(i) /\ UNCHANGED slotsAtStart
  BY DEF SlotHasError, SendCompletes, SendStalls, SendFails, ReadHeader, HeaderFails, ReadData,
         ReadStalls, ReadFails, Receiving, Serving, FailSlot
<1>2. /\ workers[i].state # "Done" /\ i >= slotsAtStart /\ status = 0
      /\ workers \in [Slots -> MasterWorker] /\ results \in [Slots -> ResultPacket]
  BY <1>1, ServedSlot DEF IInv, TypeOK, MasterTypeOK, MasterInv, StatusFits, InLoop
<1>3. /\ \A j \in Slots \ {i} : UNCHANGED <<workers[j].state, results[j].data>>
      /\ mpc' \in {"serve", "finish"}
  <2>1. CASE SlotHasError(i) \/ SendFails(i) \/ HeaderFails(i) \/ ReadFails(i)
    BY <1>2, <2>1 DEF SlotHasError, SendFails, HeaderFails, ReadFails, FailSlot, Stop
  <2>2. CASE SendCompletes(i) \/ SendStalls(i)
    BY <1>1, <1>2, <2>2 DEF SendCompletes, SendStalls
  <2>3. CASE ReadHeader(i) \/ ReadData(i) \/ ReadStalls(i)
    BY <1>1, <1>2, <2>3 DEF ReadHeader, ReadData, ReadStalls
  <2>. QED BY <2>1, <2>2, <2>3
<1>4. mpc \in Running /\ mpc' \in Running /\ Outcome' = Outcome
  BY <1>1, <1>3 DEF Outcome, Running, InLoop
<1>5. CASE workers'[i].state # "Done"
  BY <1>1, <1>2, <1>3, <1>4, <1>5, JobIdle
<1>6. CASE workers'[i].state = "Done"
  <2>1. status' = 0
    <3>1. CASE SlotHasError(i) \/ SendFails(i) \/ HeaderFails(i) \/ ReadFails(i)
      BY <1>2, <1>6, <3>1
         DEF SlotHasError, SendFails, HeaderFails, ReadFails, FailSlot, MasterWorker
    <3>2. CASE \/ SendCompletes(i) \/ SendStalls(i)
               \/ ReadHeader(i) \/ ReadData(i) \/ ReadStalls(i)
      BY <1>2, <3>2 DEF SendCompletes, SendStalls, ReadHeader, ReadData, ReadStalls
    <3>. QED BY <3>1, <3>2
  <2>. QED BY <1>1, <1>2, <1>3, <1>4, <1>6, <2>1, SlotDoneJob
<1>. QED BY <1>5, <1>6

(* A new slot has no result yet.                                           *)
LEMMA AcceptJob ==
    ASSUME IInv, AcceptWorker
    PROVE  UNCHANGED Job!jobVars
<1>1. /\ UNCHANGED <<results, slotsAtStart>> /\ mpc \in Running /\ mpc' \in Running
      /\ workers' = [workers EXCEPT ![workersCount] = Assigned(workersCount, Head(acceptQueue))]
  BY DEF AcceptWorker, Running, InLoop
<1>2. workersCount \in Slots
  BY MasterAssumption DEF AcceptWorker, IInv, TypeOK, MasterTypeOK, MasterInv, RoomToAccept,
     FreeSlot, Slots
<1>3. workers[workersCount].state # "Done"
  <2>1. workersCount >= workersCount
    BY <1>2, MasterAssumption DEF Slots
  <2>. QED BY <1>2, <2>1 DEF IInv, MasterInv, SlotsInOrder, MasterWorkerPrepareEmpty
<1>4. workers'[workersCount].state # "Done"
  BY <1>1, <1>2 DEF Assigned, IInv, TypeOK, MasterTypeOK
<1>5. \A i \in Slots \ {workersCount} : workers'[i] = workers[i]
  BY <1>1, <1>2 DEF IInv, TypeOK, MasterTypeOK
<1>6. Outcome' = Outcome
  BY <1>1 DEF Outcome, Running, InLoop
<1>. QED BY <1>1, <1>2, <1>3, <1>4, <1>5, <1>6, JobIdle

(* Every step of the cluster is a step of the job, or none of its own.     *)
LEMMA JobStep ==
    IInv /\ IInv' /\ RunsCounted /\ DoneHoldsAnswer' /\ [Next]_vars => [Job!Next]_(Job!jobVars)
<1>. SUFFICES ASSUME IInv, IInv', RunsCounted, DoneHoldsAnswer', [Next]_vars
              PROVE  [Job!Next]_(Job!jobVars)
  OBVIOUS
<1>1. CASE MasterNext
  <2>1. CASE \/ MasterInit \/ MasterInitFails \/ MasterDestroy \/ MasterCrash \/ AcceptFails
             \/ LoopHead \/ PollReady \/ PollReturnsNothing \/ AcceptNothing \/ PassEnds
             \/ Tick \/ Alarm
    BY <2>1, QuietJob
  <2>2. CASE MasterRunBegins \/ MasterRunReturns
    BY <2>2, RunBeginsJob, RunReturnsJob
  <2>3. CASE AcceptWorker
    BY <2>3, AcceptJob
  <2>4. CASE ServeSlot
    BY <2>4, ServeJob DEF ServeSlot
  <2>. QED BY <1>1, <2>1, <2>2, <2>3, <2>4 DEF MasterNext, MasterStep, MasterFault
<1>2. CASE UNCHANGED masterVars
  <2>1. Outcome' = Outcome
    BY <1>2 DEF masterVars, Outcome
  <2>. QED BY <1>2, <2>1, JobIdle DEF masterVars
<1>. QED BY <1>1, <1>2 DEF Next, Terminated, vars

(* In the beginning nothing is decided and nothing collected.              *)
LEMMA JobInit == Init => Job!Init
<1>. SUFFICES ASSUME Init PROVE Job!Init
  OBVIOUS
<1>1. Outcome = "open"
  BY DEF Init, MasterStateInit, Outcome
<1>2. Collected = [i \in Slots |-> {}]
  <2>1. \A i \in Slots : workers[i].state # "Done"
    BY DEF Init, MasterStateInit, MasterWorkerPrepareEmpty
  <2>. QED BY <2>1 DEF Collected
<1>. QED BY <1>1, <1>2 DEF Job!Init

(***************************************************************************)
(* The refinement: the calls of MasterRun, in the whole cluster with all   *)
(* its faults, are jobs of ClusterJob.                                     *)
(***************************************************************************)
THEOREM ClusterDoesItsJob == Spec => JobSpec
<1>1. IInv /\ StreamInv => DoneHoldsAnswer
  BY DoneIsAnswered
<1>. QED BY <1>1, JobInit, JobStep, InvariantHolds, StreamsFit, RunsAreCounted, PTL
         DEF Spec, JobSpec, Job!Spec
-----------------------------------------------------------------------------
(***************************************************************************)
(* A healthy cluster: nobody fails.  Workers hang up only when their whole *)
(* result has gone out, and the master only when everybody has answered.   *)
(***************************************************************************)
(* A worker that has its task leaves nothing unread, and nothing unsent.   *)
LEMMA TaskHasArrived ==
    ASSUME IInv, StreamInv, NEW i \in Slots, NEW p \in Procs, servedBy[i] = p,
           wpc[p] \in HasTask
    PROVE  /\ down[p] = <<>>
           /\ workers[i].state \in Sending => Pushed(i) = HeaderSize + TaskLength(i)
<1>1. Link(i, p)
  BY DEF StreamInv, LinksFit
<1>2. task[p] = Share(i) /\ Len(Share(i)) = TaskLength(i) /\ Len(Share(i)) \in Nat
  BY <1>1, ShareIsPacket, WireFacts DEF Link, TaskRead
<1>3. Taken(p) = HeaderSize + TaskLength(i)
  BY <1>2 DEF Taken, HasTask, WritingResult
<1>4. /\ Carries(down[p], Share(i), Taken(p))
      /\ workers[i].state \in Sending => Taken(p) + Len(down[p]) = Pushed(i)
  BY <1>1 DEF Link, Downlink, AtWork
<1>5. Len(down[p]) = 0 /\ HeaderSize \in Nat
  <2>1. Taken(p) + Len(down[p]) <= HeaderSize + Len(Share(i))
    BY <1>4 DEF Carries, WireSize
  <2>. QED BY <1>2, <1>3, <2>1, StreamTypes
<1>6. down[p] = <<>>
  BY <1>5, StreamTypes, EmptySeq
<1>. QED BY <1>2, <1>3, <1>4, <1>5, <1>6

(* A hang-up of a worker that is done cuts no transfer to it short ...     *)
LEMMA NothingUnsent ==
    ASSUME IInv, StreamInv, mpc = "serve", NEW i \in Slots, NextSlot(i),
           workers[i].state \in Sending, wpc[servedBy[i]] = "done"
    PROVE  Unsent(i) = 0
<1>1. PICK p \in Procs : servedBy[i] = p
  BY ServedLink
<1>2. Pushed(i) = HeaderSize + TaskLength(i)
  BY <1>1, TaskHasArrived DEF HasTask
<1>3. /\ workers[i].transferOffset \in Nat /\ TaskLength(i) \in Nat /\ HeaderSize \in Nat
      /\ workers[i].state = "SendTaskSize" => workers[i].transferOffset <= HeaderSize
  <2>1. Link(i, p)
    BY <1>1 DEF StreamInv, LinksFit
  <2>. QED BY <2>1, SlotTypes, ShareIsPacket, WireFacts DEF Link, Downlink
<1>4. CASE workers[i].state = "SendTaskSize"
  <2>1. Pushed(i) = workers[i].transferOffset
    BY <1>3, <1>4 DEF Pushed
  <2>2. Len(Outgoing(i)) = HeaderSize
    BY <1>4, OutgoingLength
  <2>. QED BY <1>2, <1>3, <1>4, <2>1, <2>2 DEF Unsent
<1>5. CASE workers[i].state # "SendTaskSize"
  <2>1. Pushed(i) = workers[i].transferOffset + HeaderSize
    BY <1>5 DEF Pushed
  <2>2. Len(Outgoing(i)) = TaskLength(i)
    BY <1>5, OutgoingLength
  <2>. QED BY <1>2, <1>3, <2>1, <2>2 DEF Unsent
<1>. QED BY <1>4, <1>5

(* ... and none from it: the rest of its result has arrived.               *)
LEMMA ResultHasArrived ==
    ASSUME IInv, StreamInv, mpc = "serve", NEW i \in Slots, NextSlot(i),
           workers[i].state \in Reading, wpc[servedBy[i]] = "done"
    PROVE  Completes(i)
<1>1. PICK p \in Procs : servedBy[i] = p /\ workers[i].socketFd = p
  BY ServedLink
<1>. DEFINE off == workers[i].transferOffset
            size == Len(result[p])
<1>2. /\ Link(i, p) /\ i >= slotsAtStart /\ status = 0
      /\ off \in Nat /\ Len(up[p]) \in Nat /\ size \in Nat /\ HeaderSize \in Nat
      /\ off <= Len(Incoming(i))
  BY <1>1, ServedLink, SlotTypes, StreamTypes, WireFacts DEF IInv, MasterInv, OffsetsInBounds
<1>3. Got(i) + Len(up[p]) = HeaderSize + size
  <2>1. Emitted(i, p) = Written(p)
    BY <1>1, <1>2 DEF Link, Uplink, Transfers, AtWork, HasTask
  <2>. QED BY <1>1, <2>1 DEF Emitted, Written, WireSize
<1>4. Len(Incoming(i)) - off <= Len(up[p]) /\ Len(Incoming(i)) \in Nat
  <2>1. CASE workers[i].state = "ReadResultSize"
    <3>1. Len(Incoming(i)) = HeaderSize
      BY <2>1, SlotTypes, HeaderIsSeq DEF MasterWorker, Incoming
    <3>2. Got(i) = off
      BY <2>1 DEF Got
    <3>. HIDE DEF off, size
    <3>. QED BY <1>2, <1>3, <3>1, <3>2
  <2>2. CASE workers[i].state = "ReadResultData"
    <3>1. Len(Incoming(i)) = size
      BY <1>2, <2>2 DEF Link, ResultRead, Incoming
    <3>2. HeaderSize + off + Len(up[p]) = HeaderSize + size
      BY <1>3, <2>2 DEF Got
    <3>3. off \in Nat /\ Len(up[p]) \in Nat /\ size \in Nat /\ HeaderSize \in Nat
      BY <1>2
    <3>4. size - off <= Len(up[p])
      <4>1. \A h, o, u, n \in Nat : h + o + u = h + n => n - o <= u
        OBVIOUS
      <4>. HIDE DEF off, size
      <4>. QED BY <3>2, <3>3, <4>1, Zenon
    <3>. HIDE DEF off, size
    <3>. QED BY <3>1, <3>3, <3>4
  <2>. QED BY <2>1, <2>2 DEF Reading
<1>5. Arrived(i) = Least(Len(up[p]), Len(Incoming(i)) - off)
  BY <1>1 DEF Arrived
<1>6. Arrived(i) = Len(Incoming(i)) - off
  <2>. HIDE DEF off
  <2>. QED BY <1>2, <1>4, <1>5 DEF Least
<1>. HIDE DEF size
<1>. QED BY <1>2, <1>4, <1>6 DEF Completes

(* Who has a task has been accepted into a slot ...                        *)
LEMMA ServedBySomeSlot ==
    ASSUME StreamInv, NEW p \in Procs, wpc[p] \in HasTask
    PROVE  \E i \in Slots : servedBy[i] = p
BY DEF StreamInv, WorkerFits, Unserved, HasTask, WritingResult

(* ... and hangs up with nothing left to read: no reset follows.           *)
LEMMA NothingUnread ==
    ASSUME IInv, StreamInv, NEW p \in Procs, wpc[p] \in HasTask
    PROVE  down[p] = <<>>
BY ServedBySomeSlot, TaskHasArrived

(* A watched slot has the socket of its worker.                            *)
LEMMA WatchedIsServed ==
    ASSUME IInv, mpc \in InLoop, NEW i \in Slots, Watched(i)
    PROVE  servedBy[i] \in Procs /\ workers[i].socketFd = servedBy[i]
<1>1. workers[i].state \in Transfers /\ i < workersCount
  BY DEF Watched, Transfers
<1>2. i >= slotsAtStart
  BY <1>1, MasterAssumption DEF IInv, TypeOK, MasterTypeOK, MasterInv, OthersAreIdle, Slots
<1>. QED BY <1>1, <1>2 DEF IInv, MasterInv, OpenWhileRunning, Running

(* What poll() reports fails no slot.                                      *)
LEMMA PollIsCalm ==
    ASSUME IInv, StreamInv, CalmInv, PollReady
    PROVE  \A i \in Slots : CalmEvents(i)'
<1>. SUFFICES ASSUME NEW i \in Slots PROVE CalmEvents(i)'
  OBVIOUS
<1>1. /\ mpc = "poll" /\ revents'[i] = Ready(i)
      /\ UNCHANGED <<workers, servedBy, workerFin>>
  BY DEF PollReady, netVars
<1>2. CASE ~Watched(i)
  BY <1>1, <1>2 DEF Ready, CalmEvents
<1>3. CASE Watched(i)
  <2>1. PICK p \in Procs : servedBy[i] = p /\ workers[i].socketFd = p
    BY <1>1, <1>3, WatchedIsServed DEF InLoop
  <2>2. ~broken[p] /\ (workerFin[p] => wpc[p] = "done")
    BY <1>1 DEF CalmInv
  <2>3. revents'[i] = {e \in Events :
                          \/ e = "OUT" /\ workers[i].state \in Sending /\ Room(down[p]) > 0
                          \/ e = "IN" /\ workers[i].state \in Reading /\ (up[p] # <<>> \/ workerFin[p])
                          \/ e = "RDHUP" /\ workerFin[p]}
    BY <1>1, <1>3, <2>1, <2>2 DEF Ready, Reported
  <2>4. "ERR" \notin revents'[i] /\ ("RDHUP" \in revents'[i] => workerFin[p])
    BY <2>3
  <2>5. ASSUME workers[i].state \in Sending, workerFin[p] PROVE "OUT" \in revents'[i]
    <3>1. down[p] = <<>>
      BY <2>2, <2>5, NothingUnread DEF HasTask
    <3>2. Room(down[p]) > 0
      BY <3>1, NetAssumption DEF Room
    <3>. QED BY <2>3, <2>5, <3>2 DEF Events
  <2>6. ASSUME workers[i].state \in Reading, workerFin[p] PROVE "IN" \in revents'[i]
    BY <2>3, <2>6 DEF Events
  <2>7. workers[i].state \in Sending \/ workers[i].state \in Reading
    BY <1>3 DEF Watched
  <2>8. workers[i].state \in Sending => workers[i].state \notin Reading
    BY DEF Sending, Reading
  <2>9. revents'[i] # {} => \/ workers[i].state \in Sending /\ "OUT" \in revents'[i]
                            \/ workers[i].state \in Reading /\ "IN" \in revents'[i]
    BY <2>3, <2>5, <2>6, <2>7, <2>8
  <2>. QED BY <1>1, <2>1, <2>4, <2>9 DEF CalmEvents
<1>. QED BY <1>2, <1>3

(* The service of a slot fails for none of the reasons in MasterRun.       *)
LEMMA ServiceIsCalm ==
    ASSUME Healthy, IInv, StreamInv, CalmInv, NEW i \in Slots
    PROVE  ~SlotHasError(i) /\ ~SendFails(i) /\ ~ReadFails(i) /\ ~HeaderFails(i)
<1>. USE DEF Healthy
<1>. SUFFICES ASSUME mpc = "serve", NextSlot(i)
              PROVE  ~SlotHasError(i) /\ ~SendFails(i) /\ ~ReadFails(i) /\ ~HeaderFails(i)
  BY DEF SlotHasError, SendFails, ReadFails, HeaderFails, Receiving, Serving
<1>1. PICK p \in Procs : servedBy[i] = p /\ workers[i].socketFd = p
  BY ServedLink
<1>2. CalmEvents(i) /\ ~broken[p] /\ (workerFin[p] => wpc[p] = "done") /\ revents[i] # {}
  BY DEF CalmInv, NextSlot
<1>3. /\ "RDHUP" \in revents[i] => wpc[p] = "done"
      /\ workers[i].state \in Sending => "OUT" \in revents[i]
      /\ workers[i].state \in Reading => "IN" \in revents[i]
  BY <1>1, <1>2 DEF CalmEvents, Sending, Reading
<1>4. ~SlotHasError(i)
  BY <1>2 DEF SlotHasError, CalmEvents
<1>5. ~SendFails(i)
  <2>. SUFFICES ASSUME SendFails(i) PROVE FALSE
    OBVIOUS
  <2>1. "RDHUP" \in revents[i] /\ Unsent(i) > 1 /\ workers[i].state \in Sending
    BY <1>1, <1>2, <1>3 DEF SendFails, Serving
  <2>2. Unsent(i) = 0
    BY <1>1, <1>3, <2>1, NothingUnsent
  <2>. QED BY <2>1, <2>2
<1>6. ~ReadFails(i)
  <2>. SUFFICES ASSUME ReadFails(i) PROVE FALSE
    OBVIOUS
  <2>1. workers[i].state \in Reading /\ ~Completes(i) /\ wpc[p] = "done"
    BY <1>1, <1>2, <1>3 DEF ReadFails, Serving
  <2>. QED BY <1>1, <2>1, ResultHasArrived
<1>7. ~HeaderFails(i)
  <2>. SUFFICES ASSUME HeaderFails(i) PROVE FALSE
    OBVIOUS
  <2>1. /\ workers[i].state = "ReadResultSize" /\ Completes(i) /\ Pull(i)
        /\ DecodedSize(i) \notin Sizes
    BY DEF HeaderFails, Receiving, Serving
  <2>2. DecodedSize(i) = Len(result[p])
    BY <1>1, <2>1, HeaderIsDecoded
  <2>3. Len(result[p]) \in Sizes
    BY StreamTypes, WireFacts
  <2>. QED BY <2>1, <2>2, <2>3
<1>. QED BY <1>4, <1>5, <1>6, <1>7

(* A step of the master that neither closes anything nor fails.            *)
LEMMA CalmFrame ==
    ASSUME CalmInv, UNCHANGED <<wpc, workerFin, broken, masterFin>>,
           mpc # "destroyed", mpc' \notin {"destroyed", "crashed"},
           status' = 0, ~deadlineExpired',
           mpc' \in {"accept", "serve"} => \A i \in Slots : CalmEvents(i)'
    PROVE  CalmInv'
BY DEF CalmInv

(* The events of a slot that the step does not serve.                      *)
LEMMA EventsKept ==
    ASSUME NEW i \in Slots, CalmEvents(i), UNCHANGED workerFin,
           \/ revents'[i] = {}
           \/ UNCHANGED <<revents[i], servedBy[i], workers[i].state>>
    PROVE  CalmEvents(i)'
BY DEF CalmEvents

(* Slots are served one by one, in peace.                                  *)
LEMMA ServeIsCalm ==
    ASSUME Healthy, IInv, StreamInv, CalmInv, ServeSlot, UNCHANGED workerVars
    PROVE  CalmInv'
<1>1. PICK i \in Slots : \/ SendCompletes(i) \/ SendStalls(i)
                         \/ ReadHeader(i) \/ ReadData(i) \/ ReadStalls(i)
  BY ServiceIsCalm DEF ServeSlot
<1>2. /\ mpc = "serve" /\ revents' = [revents EXCEPT ![i] = {}]
      /\ UNCHANGED <<mpc, status, deadlineExpired, servedBy, workerFin, masterFin, broken>>
  BY <1>1 DEF SendCompletes, SendStalls, ReadHeader, ReadData, ReadStalls, Serving, Receiving,
              Served
<1>3. workers \in [Slots -> MasterWorker] /\ revents \in [Slots -> SUBSET Events]
  BY DEF IInv, TypeOK, MasterTypeOK
<1>4. \A j \in Slots \ {i} : workers'[j] = workers[j]
  BY <1>1, <1>3 DEF SendCompletes, SendStalls, ReadHeader, ReadData, ReadStalls
<1>5. ASSUME NEW j \in Slots PROVE CalmEvents(j)'
  <2>1. CalmEvents(j)
    BY <1>2 DEF CalmInv
  <2>2. CASE j = i
    <3>1. revents'[j] = {}
      BY <1>2, <1>3, <2>2
    <3>. QED BY <1>2, <2>1, <3>1, EventsKept
  <2>3. CASE j # i
    <3>1. UNCHANGED <<revents[j], servedBy[j], workers[j].state>>
      BY <1>2, <1>3, <1>4, <2>3
    <3>. QED BY <1>2, <2>1, <3>1, EventsKept
  <2>. QED BY <2>2, <2>3
<1>. QED BY <1>2, <1>5, CalmFrame DEF workerVars, CalmInv

(* A worker that is accepted has no events yet.                            *)
LEMMA AcceptIsCalm ==
    ASSUME IInv, StreamInv, CalmInv, AcceptWorker \/ (AcceptNothing /\ UNCHANGED acceptQueue),
           UNCHANGED workerVars
    PROVE  CalmInv'
<1>1. /\ mpc = "accept" /\ mpc' = "serve"
      /\ UNCHANGED <<status, deadlineExpired, revents, workerFin, masterFin, broken>>
  BY DEF AcceptWorker, AcceptNothing, netVars
<1>2. /\ workers \in [Slots -> MasterWorker] /\ servedBy \in [Slots -> Procs \cup {NoFd}]
      /\ workersCount \in Nat
  BY MasterAssumption DEF IInv, TypeOK, MasterTypeOK
<1>3. ASSUME NEW j \in Slots PROVE CalmEvents(j)'
  <2>1. CalmEvents(j)
    BY <1>1 DEF CalmInv
  <2>2. CASE revents[j] = {}
    BY <1>1, <2>1, <2>2, EventsKept
  <2>3. CASE revents[j] # {}
    <3>1. j < workersCount
      BY <1>1, <2>3 DEF IInv, MasterInv, EventsAreWatched, Watched
    <3>2. j # workersCount
      BY <1>2, <3>1 DEF Slots
    <3>3. UNCHANGED <<revents[j], servedBy[j], workers[j].state>>
      BY <1>1, <1>2, <3>2 DEF AcceptWorker, AcceptNothing
    <3>. QED BY <1>1, <2>1, <3>3, EventsKept
  <2>. QED BY <2>2, <2>3
<1>. QED BY <1>1, <1>3, CalmFrame DEF workerVars, CalmInv

(* The master destroys itself only when every worker, being as many as     *)
(* there are slots, has answered.                                          *)
LEMMA AllHaveSent ==
    ASSUME Healthy, IInv, StreamInv, CalmInv, Succeeded, NEW p \in Procs
    PROVE  wpc[p] \in {"sent", "done"}
<1>1. /\ slotsAtStart = 0 /\ status = 0
      /\ \A i \in Slots : workers[i].state = "Done" /\ i >= slotsAtStart
  BY MasterAssumption DEF IInv, MasterInv, SuccessMeansAllDone, Succeeded, Slots
<1>2. \A i \in Slots : servedBy[i] \in Procs
  BY <1>1, DoneIsServed
<1>3. servedBy \in Injection(Slots, Procs)
  <2>1. servedBy \in [Slots -> Procs \cup {NoFd}]
    BY DEF IInv, TypeOK, MasterTypeOK
  <2>2. servedBy \in [Slots -> Procs]
    BY <1>2, <2>1
  <2>3. \A i, j \in Slots : servedBy[i] = servedBy[j] => i = j
    BY <1>2 DEF StreamInv, ConnectionsFit
  <2>. QED BY <2>2, <2>3 DEF Injection, IsInjective
<1>4. Cardinality(Slots) = Cardinality(Procs)
  <2>1. Cardinality(Slots) <= Cardinality(Procs)
    BY <1>3, FS_Injection DEF Healthy
  <2>2. Cardinality(Procs) \in Nat /\ Cardinality(Slots) = Capacity /\ Capacity \in Nat
    BY SlotsFinite, MasterAssumption, FS_CardinalityType DEF Healthy
  <2>. QED BY <2>1, <2>2 DEF Healthy
<1>5. servedBy \in Surjection(Slots, Procs)
  BY <1>3, <1>4, FS_Injection DEF Healthy
<1>6. PICK i \in Slots : servedBy[i] = p
  BY <1>5 DEF Surjection
<1>7. wpc[p] \in {"sent", "done", "crashed"}
  BY <1>1, <1>6, DoneHasSent
<1>. QED BY <1>7 DEF CalmInv

(* Every step of the master.                                               *)
LEMMA MasterIsCalm ==
    ASSUME Healthy, InTime, IInv, StreamInv, CalmInv, MasterNext, UNCHANGED workerVars
    PROVE  CalmInv'
<1>. USE DEF workerVars, netVars
<1>0. Faults = {} /\ status = 0 /\ ~deadlineExpired /\ ~OutOfTime /\ ~PassTooLate
  BY DEF Healthy, InTime, CalmInv
<1>1. CASE MasterInit \/ MasterRunBegins
  <2>1. /\ mpc # "destroyed" /\ mpc' \in {"ready", "loop"} /\ status' = 0 /\ ~deadlineExpired'
        /\ UNCHANGED <<wpc, workerFin, broken, masterFin>>
    BY <1>0, <1>1 DEF MasterInit, MasterRunBegins
  <2>. QED BY <2>1, CalmFrame
<1>2. CASE LoopHead \/ PassEnds
  <2>1. /\ mpc # "destroyed" /\ mpc' \in {"finish", "poll", "loop"} /\ status' = 0
        /\ UNCHANGED <<deadlineExpired, wpc, workerFin, broken, masterFin>>
    BY <1>0, <1>2 DEF LoopHead, PassEnds, Stop
  <2>. QED BY <1>0, <2>1, CalmFrame
<1>3. CASE PollReady
  <2>1. /\ mpc = "poll" /\ mpc' = "accept"
        /\ UNCHANGED <<status, deadlineExpired, wpc, workerFin, broken, masterFin>>
    BY <1>3 DEF PollReady
  <2>. QED BY <1>0, <1>3, <2>1, PollIsCalm, CalmFrame
<1>4. CASE AcceptWorker \/ AcceptNothing
  BY <1>4, AcceptIsCalm DEF AcceptNothing
<1>5. CASE ServeSlot
  BY <1>5, ServeIsCalm
<1>6. CASE MasterRunReturns
  <2>1. /\ mpc = "finish" /\ mpc' = "returned" /\ UNCHANGED status /\ ~deadlineExpired'
        /\ UNCHANGED <<wpc, workerFin, broken, masterFin>>
    BY <1>0, <1>6 DEF MasterRunReturns
  <2>. QED BY <1>0, <2>1, CalmFrame
<1>7. CASE MasterDestroy
  <2>1. /\ mpc = "returned" /\ mpc' = "destroyed"
        /\ UNCHANGED <<status, deadlineExpired, wpc, workerFin>>
    BY <1>0, <1>7 DEF MasterDestroy
  <2>2. \A p \in Procs : wpc[p] \in {"sent", "done"}
    BY <1>0, <2>1, AllHaveSent DEF Succeeded
  <2>. QED BY <2>1, <2>2 DEF CalmInv
<1>8. CASE Tick
  <2>1. /\ mpc \in InLoop
        /\ UNCHANGED <<mpc, revents, servedBy, workers, status, deadlineExpired, wpc,
                       workerFin, broken, masterFin>>
    BY <1>8 DEF Tick
  <2>. QED BY <2>1 DEF CalmInv, CalmEvents
<1>9. ~Alarm /\ ~PollReturnsNothing /\ ~MasterFault
  BY <1>0 DEF Alarm, PollReturnsNothing, PollTimesOut, PollInterrupted, PollFails, MasterFault,
              MasterInitFails, AcceptFails, MasterCrash
<1>. QED BY <1>1, <1>2, <1>3, <1>4, <1>5, <1>6, <1>7, <1>8, <1>9 DEF MasterNext, MasterStep

(* No call of a worker fails.                                              *)
LEMMA CallsAreCalm ==
    ASSUME Healthy, IInv, StreamInv, CalmInv, NEW p \in Procs
    PROVE  /\ ~ConnectGivesUp(p) /\ ~RecvFails(p) /\ ~TaskRefused(p) /\ ~WorkerRunFails(p)
           /\ ~MasterUnavailable(p) /\ ~SendFailsAtWorker(p) /\ ~WorkerCrash(p)
<1>1. Faults = {}
  BY DEF Healthy
<1>2. wpc[p] \notin {"sent", "done"} => ~broken[p] /\ ~masterFin[p]
  BY DEF CalmInv
<1>3. ~ConnectGivesUp(p) /\ ~WorkerCrash(p)
  BY <1>1 DEF ConnectGivesUp, WorkerCrash
<1>4. ~RecvFails(p) /\ ~WorkerRunFails(p) /\ ~MasterUnavailable(p) /\ ~SendFailsAtWorker(p)
  BY <1>1, <1>2 DEF RecvFails, WorkerRunFails, MasterUnavailable, SendFailsAtWorker,
                    MasterAlive, ReadingTask, WritingResult
<1>5. ~TaskRefused(p)
  <2>. SUFFICES ASSUME TaskRefused(p) PROVE FALSE
    OBVIOUS
  <2>1. /\ Recv(p) /\ wpc[p] = "readSize" /\ PartComplete(p)
        /\ ClusterDecodeSize(Gathered(p)) \notin Sizes
    BY <1>1 DEF TaskRefused
  <2>2. PICK i \in Slots : servedBy[i] = p
    BY <2>1 DEF StreamInv, WorkerFits, Unserved, Recv
  <2>3. Link(i, p)
    BY <2>2 DEF StreamInv, LinksFit
  <2>. QED BY <2>1, <2>3, HeaderIsGathered
<1>. QED BY <1>3, <1>4, <1>5

(* A worker goes on while the master is there.                             *)
LEMMA WorkingIsCalm ==
    ASSUME IInv, CalmInv, NEW p \in Procs, UNCHANGED masterVars,
           UNCHANGED <<masterFin, workerFin, broken>>,
           wpc[p] \notin Ended \cup {"sent"},
           NEW place, place \notin {"done", "failed", "crashed"},
           wpc' = [wpc EXCEPT ![p] = place]
    PROVE  CalmInv'
<1>1. wpc \in [Procs -> WorkerPcs]
  BY DEF IInv, TypeOK, WorkerTypeOK
<1>2. mpc # "destroyed" /\ ~workerFin[p]
  BY DEF CalmInv, Ended
<1>3. ASSUME NEW i \in Slots, CalmEvents(i) PROVE CalmEvents(i)'
  BY <1>3 DEF CalmEvents, masterVars
<1>. QED BY <1>1, <1>2, <1>3 DEF CalmInv, masterVars

(* Every step of a worker.                                                 *)
LEMMA WorkerIsCalm ==
    ASSUME Healthy, IInv, StreamInv, CalmInv, NEW p \in Procs, UNCHANGED masterVars,
           WorkerStep(p) \/ WorkerCrash(p)
    PROVE  CalmInv'
<1>1. wpc \in [Procs -> WorkerPcs]
  BY DEF IInv, TypeOK, WorkerTypeOK
<1>2. CASE Connect(p) \/ RecvPart(p) \/ RecvHeader(p) \/ RecvTask(p) \/ WorkerRun(p) \/ CheckMaster(p)
  <2>1. /\ UNCHANGED <<masterFin, workerFin, broken>> /\ wpc[p] \notin Ended \cup {"sent"}
        /\ \E place \in {"readSize", "readData", "run", "check", "writeSize"} :
              wpc' = [wpc EXCEPT ![p] = place]
    BY <1>1, <1>2 DEF Connect, RecvPart, RecvHeader, RecvTask, WorkerRun, CheckMaster, Recv, Goto,
                 netVars, Ended, ReadingTask
  <2>. QED BY <2>1, WorkingIsCalm
<1>3. CASE Send(p)
  <2>1. /\ UNCHANGED <<masterFin, workerFin, broken>> /\ wpc[p] \notin Ended \cup {"sent"}
        /\ \E place \in {"writeSize", "writeData", "sent"} : wpc' = [wpc EXCEPT ![p] = place]
    <3>1. UNCHANGED wpc \/ wpc' = [wpc EXCEPT ![p] = AfterWriting(p)]
      BY <1>3 DEF Send, Goto
    <3>2. wpc[p] \in {"writeSize", "writeData"}
      BY <1>3 DEF Send, WritingResult
    <3>. QED BY <1>1, <1>3, <3>1, <3>2 DEF Send, AfterWriting, Ended
  <2>. QED BY <2>1, WorkingIsCalm
<1>4. CASE WorkerDestroy(p)
  <2>1. /\ wpc[p] = "sent" /\ wpc' = [wpc EXCEPT ![p] = "done"]
        /\ workerFin' = [workerFin EXCEPT ![p] = TRUE]
        /\ broken' = [broken EXCEPT ![p] = @ \/ down[p] # <<>>] /\ UNCHANGED masterFin
    BY <1>4 DEF WorkerDestroy, Goto, WorkerCloses
  <2>2. down[p] = <<>>
    BY <2>1, NothingUnread DEF HasTask
  <2>3. broken \in [Procs -> BOOLEAN] /\ workerFin \in [Procs -> BOOLEAN]
    BY DEF IInv, TypeOK, NetTypeOK
  <2>4. ASSUME NEW q \in Procs PROVE broken'[q] = broken[q]
    BY <2>1, <2>2, <2>3
  <2>5. ASSUME NEW q \in Procs
        PROVE  /\ workerFin[q] => workerFin'[q]
               /\ workerFin'[q] => wpc'[q] = "done"
               /\ wpc'[q] = wpc[q] \/ (wpc[q] = "sent" /\ wpc'[q] = "done")
    BY <1>1, <2>1, <2>3 DEF CalmInv
  <2>6. ASSUME NEW i \in Slots, mpc \in {"accept", "serve"} PROVE CalmEvents(i)'
    <3>1. CalmEvents(i) /\ UNCHANGED <<revents, workers, servedBy>>
      BY <2>6 DEF CalmInv, masterVars
    <3>2. revents[i] # {} => servedBy[i] \in Procs
      BY <2>6, WatchedIsServed DEF IInv, MasterInv, EventsAreWatched, InLoop
    <3>. QED BY <2>5, <3>1, <3>2 DEF CalmEvents
  <2>. QED BY <2>1, <2>4, <2>5, <2>6 DEF CalmInv, masterVars
<1>. QED BY <1>2, <1>3, <1>4, CallsAreCalm DEF WorkerStep

(* The network resets nothing while the master is there.                   *)
LEMMA NetIsCalm ==
    ASSUME Healthy, IInv, StreamInv, CalmInv, Net, UNCHANGED <<masterVars, workerVars>>
    PROVE  CalmInv'
<1>1. PICK p \in Procs : PeerReset(p)
  BY DEF Net, LinkReset, Healthy
<1>2. mpc = "destroyed"
  <2>. SUFFICES ASSUME mpc # "destroyed" PROVE FALSE
    OBVIOUS
  <2>1. ~masterFin[p] /\ (workerFin[p] => wpc[p] = "done")
    BY DEF CalmInv
  <2>2. workerFin[p] /\ down[p] # <<>>
    BY <1>1, <2>1 DEF PeerReset
  <2>. QED BY <2>1, <2>2, NothingUnread DEF HasTask
<1>. QED BY <1>1, <1>2 DEF PeerReset, CalmInv, masterVars, workerVars

(* At first nothing has happened.                                          *)
LEMMA CalmInit == Init => CalmInv
BY DEF Init, NetInit, MasterStateInit, WorkerStateInit, CalmInv

(***************************************************************************)
(* Without faults, with not more workers than slots, and as long as the    *)
(* job is in time, MasterRun and the workers meet no failure, whatever the *)
(* order in which they connect, transfer, finish and leave.                *)
(***************************************************************************)
THEOREM HealthyNobodyFails ==
    ASSUME Healthy
    PROVE  Spec /\ []InTime => []NobodyFails
<1>1. IInv /\ StreamInv /\ InTime /\ CalmInv /\ [Next]_vars => CalmInv'
  <2>. SUFFICES ASSUME IInv, StreamInv, InTime, CalmInv, [Next]_vars PROVE CalmInv'
    OBVIOUS
  <2>1. CASE MasterNext /\ UNCHANGED workerVars
    BY <2>1, MasterIsCalm
  <2>2. CASE \E p \in Procs : (WorkerStep(p) \/ WorkerCrash(p)) /\ UNCHANGED masterVars
    BY <2>2, WorkerIsCalm
  <2>3. CASE Net /\ UNCHANGED <<masterVars, workerVars>>
    BY <2>3, NetIsCalm
  <2>4. CASE UNCHANGED vars
    BY <2>4 DEF vars, masterVars, workerVars, netVars, CalmInv, CalmEvents
  <2>. QED BY <2>1, <2>2, <2>3, <2>4 DEF Next, Terminated
<1>2. CalmInv => NobodyFails
  BY DEF CalmInv, NobodyFails
<1>. QED BY <1>1, <1>2, CalmInit, InvariantHolds, StreamsFit, PTL DEF Spec
=============================================================================
