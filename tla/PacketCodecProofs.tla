------------------------- MODULE PacketCodecProofs -------------------------
(***************************************************************************)
(* Proofs about PacketCodec, for every packet, every width of size_t, any  *)
(* number of threads and every size of an item: what PackThreadResults     *)
(* writes, what AddPackedResults reads, and that the second finds what the *)
(* first put there.                                                        *)
(***************************************************************************)
EXTENDS PacketCodec, ClusterCommonProofs

(* The constants are positive numbers that fit into a size_t.              *)
LEMMA Widths ==
    /\ HeaderSize \in Nat \ {0} /\ HeaderSize <= SizeMax /\ SizeMax \in Nat
    /\ ItemSize \in Nat \ {0} /\ ItemSize \in Sizes
    /\ Count \in Nat \ {0} /\ Count \in Sizes
    /\ ByteBase \in Nat /\ Byte \subseteq 0 .. ByteBase /\ Byte \subseteq Nat
  BY CodecAssumption, CodecResultsAssumption DEF Sizes, Byte

(* Numbers that a size_t holds do not wrap. *)
LEMMA SmallNumbersStay == ASSUME NEW n \in Sizes PROVE Wrapped(n) = n
  BY Widths DEF Sizes, Wrapped
-----------------------------------------------------------------------------
(***************************************************************************)
(* Sums and the places they give.                                          *)
(***************************************************************************)
(* SumsOf has the sums it is to have, and all of them are numbers.         *)
LEMMA SumsAre ==
    ASSUME NEW n \in Nat, NEW terms \in [1 .. n -> Nat]
    PROVE  /\ SumsOf(terms, n) \in [0 .. n -> Nat] /\ SumsOf(terms, n)[0] = 0
           /\ \A k \in 1 .. n : SumsOf(terms, n)[k] = SumsOf(terms, n)[k - 1] + terms[k]
<1>. DEFINE Sums(f) == f = [k \in 0 .. n |-> IF k = 0 THEN 0 ELSE f[k - 1] + terms[k]]
            sum     == CHOOSE f : Sums(f)
            step    == [k \in 1 .. n |-> [v \in Nat |-> v + terms[k]]]
<1>1. SumsOf(terms, n) = sum
  BY Zenon DEF SumsOf
<1>2. step \in [1 .. n -> [Nat -> Nat]]
  OBVIOUS
<1>3. \E f : Sums(f)
  <2>. HIDE DEF step
  <2>1. PICK f \in [0 .. n -> Nat] : f[0] = 0 /\ \A k \in 1 .. n : f[k] = step[k][f[k - 1]]
    BY <1>2, RecursionExists
  <2>2. \A k \in 1 .. n : f[k - 1] \in Nat
    OBVIOUS
  <2>3. \A k \in 1 .. n : f[k] = f[k - 1] + terms[k]
    BY <2>1, <2>2 DEF step
  <2>4. f = [k \in 0 .. n |-> IF k = 0 THEN 0 ELSE f[k - 1] + terms[k]]
    BY <2>1, <2>3
  <2>. QED BY <2>4
<1>4. Sums(sum)
  <2>. HIDE DEF Sums
  <2>. QED BY <1>3
<1>. HIDE DEF sum
<1>5. /\ sum[0] = 0 /\ \A k \in 1 .. n : sum[k] = sum[k - 1] + terms[k]
      /\ sum = [k \in 0 .. n |-> sum[k]]
  <2>1. ASSUME NEW k \in 0 .. n PROVE sum[k] = IF k = 0 THEN 0 ELSE sum[k - 1] + terms[k]
    BY <1>4, Zenon
  <2>2. 0 \in 0 .. n /\ \A k \in 1 .. n : k \in 0 .. n /\ k # 0
    OBVIOUS
  <2>3. sum = [k \in 0 .. n |-> sum[k]]
    BY <1>4
  <2>. QED BY <2>1, <2>2, <2>3, Zenon
<1>. DEFINE T == {k \in Nat : k <= n => sum[k] \in Nat}
<1>6. 0 \in T
  BY <1>5
<1>7. ASSUME NEW k \in Nat, k \in T PROVE k + 1 \in T
  <2>. SUFFICES ASSUME k + 1 <= n PROVE sum[k + 1] \in Nat
    OBVIOUS
  <2>1. sum[k] \in Nat /\ k + 1 \in 1 .. n /\ (k + 1) - 1 = k
    BY <1>7
  <2>2. sum[k + 1] = sum[k] + terms[k + 1]
    BY <1>5, <2>1
  <2>. QED BY <2>1, <2>2
<1>. HIDE DEF T
<1>8. \A k \in 0 .. n : sum[k] \in Nat
  <2>1. \A k \in Nat : k \in T
    BY <1>6, <1>7, InductionOverNat
  <2>. QED BY <2>1 DEF T
<1>. QED BY <1>1, <1>5, <1>8

(* Sums of numbers only grow.                                              *)
LEMMA SumsGrow ==
    ASSUME NEW n \in Nat, NEW terms \in [1 .. n -> Nat], NEW m \in 0 .. n, NEW k \in 0 .. m
    PROVE  SumsOf(terms, n)[k] <= SumsOf(terms, n)[m]
<1>. DEFINE sum == SumsOf(terms, n)
            T   == {j \in Nat : j <= n => \A l \in 0 .. j : sum[l] <= sum[j]}
<1>1. /\ sum \in [0 .. n -> Nat]
      /\ \A j \in 1 .. n : sum[j] = sum[j - 1] + terms[j]
  BY SumsAre
<1>. HIDE DEF sum
<1>2. 0 \in T
  BY <1>1
<1>3. ASSUME NEW j \in Nat, j \in T PROVE j + 1 \in T
  <2>. SUFFICES ASSUME j + 1 <= n, NEW l \in 0 .. (j + 1) PROVE sum[l] <= sum[j + 1]
    OBVIOUS
  <2>1. j + 1 \in 1 .. n /\ j \in 0 .. n /\ l \in 0 .. n /\ (j + 1) - 1 = j
    BY <1>3
  <2>2. /\ sum[j + 1] = sum[j] + terms[j + 1]
        /\ sum[j] \in Nat /\ terms[j + 1] \in Nat /\ sum[l] \in Nat
    BY <1>1, <2>1
  <2>3. CASE l = j + 1
    BY <2>2, <2>3
  <2>4. CASE l # j + 1
    <3>1. l \in 0 .. j /\ j <= n
      BY <2>1, <2>4
    <3>2. sum[l] <= sum[j]
      BY <1>3, <3>1
    <3>. QED BY <2>2, <3>2
  <2>. QED BY <2>3, <2>4
<1>. HIDE DEF T
<1>4. \A j \in Nat : j \in T
  BY <1>2, <1>3, InductionOverNat
<1>5. sum[k] <= sum[m]
  BY <1>4 DEF T
<1>. QED BY <1>5 DEF sum

(* What a valid result is.                                                 *)
LEMMA ValidIs ==
    ASSUME NEW r \in Results, ~Invalid(r)
    PROVE  /\ r.size \in Sizes /\ r.size \in Nat /\ Space(r) = HeaderSize + r.size
           /\ r.size > 0 => r.data \in [1 .. r.size -> Byte]
  BY Widths, CodecResultsAssumption DEF Invalid, Space, Sizes

(* The ends of the results grow by what each of them takes.                *)
LEMMA EndsAre ==
    ASSUME results \in [Threads -> Results]
    PROVE  /\ EndOf(0) = HeaderSize
           /\ \A k \in 0 .. Count : EndOf(k) \in Nat /\ EndOf(k) >= HeaderSize
           /\ \A k \in 1 .. Count : EndOf(k) = EndOf(k - 1) + Space(results[k])
           /\ \A m \in 0 .. Count : \A k \in 0 .. m : EndOf(k) <= EndOf(m)
<1>. DEFINE sum == SumsOf(Spaces, Count)
<1>1. Spaces \in [1 .. Count -> Nat] /\ \A k \in 1 .. Count : Spaces[k] = Space(results[k])
  <2>1. ASSUME NEW k \in Threads PROVE Space(results[k]) \in Nat
    <3>1. CASE Invalid(results[k])
      BY <3>1, Widths DEF Space
    <3>2. CASE ~Invalid(results[k])
      BY <3>2, ValidIs, Widths
    <3>. QED BY <3>1, <3>2
  <2>. QED BY <2>1 DEF Spaces, Threads
<1>2. /\ sum \in [0 .. Count -> Nat] /\ sum[0] = 0
      /\ \A k \in 1 .. Count : sum[k] = sum[k - 1] + Spaces[k]
  BY <1>1, SumsAre, Widths
<1>3. \A m \in 0 .. Count : \A k \in 0 .. m : sum[k] <= sum[m]
  BY <1>1, SumsGrow, Widths
<1>4. \A k \in 0 .. Count : sum[k] \in Nat /\ EndOf(k) = HeaderSize + sum[k]
  BY <1>2 DEF EndOf
<1>5. \A k \in 1 .. Count : k - 1 \in 0 .. Count /\ k \in 0 .. Count /\ Spaces[k] \in Nat
  BY <1>1, Widths
<1>. HIDE DEF sum
<1>6. \A k \in 0 .. Count : EndOf(k) \in Nat /\ EndOf(k) >= HeaderSize
  BY <1>2, <1>4, Widths
<1>7. ASSUME NEW k \in 1 .. Count PROVE EndOf(k) = EndOf(k - 1) + Space(results[k])
  <2>1. sum[k] = sum[k - 1] + Spaces[k] /\ sum[k - 1] \in Nat /\ Spaces[k] \in Nat
    BY <1>2, <1>5
  <2>. QED BY <1>1, <1>4, <2>1, Widths
<1>8. ASSUME NEW m \in 0 .. Count, NEW k \in 0 .. m PROVE EndOf(k) <= EndOf(m)
  <2>1. k \in 0 .. Count /\ sum[k] \in Nat /\ sum[m] \in Nat /\ sum[k] <= sum[m]
    BY <1>2, <1>3, Widths
  <2>. QED BY <1>4, <2>1, Widths
<1>9. EndOf(0) = HeaderSize
  BY <1>2, <1>4, Widths
<1>. QED BY <1>6, <1>7, <1>8, <1>9
-----------------------------------------------------------------------------
(***************************************************************************)
(* The first layer: PackThreadResults.                                     *)
(***************************************************************************)
(* What depends on the results and on the bytes alone.                     *)
LEMMA ResultsStay ==
    ASSUME UNCHANGED results
    PROVE  /\ \A k : EndOf(k)' = EndOf(k)
           /\ TrueSize' = TrueSize
  BY DEF EndOf, TrueSize, Spaces

(* What a turn leaves alone reads the same after it.                       *)
LEMMA BytesStay ==
    ASSUME UNCHANGED <<results, bytes>>
    PROVE  /\ \A at : HeaderAt(at)' = HeaderAt(at)
           /\ \A k : IsWritten(k)' <=> IsWritten(k)
<1>1. \A at : HeaderAt(at)' = HeaderAt(at)
  BY DEF HeaderAt, ByteAt
<1>. QED BY <1>1, ResultsStay, Zenon DEF IsWritten

(* A header is read as what was written into it.                           *)
LEMMA HeaderIsRead ==
    ASSUME NEW n \in Sizes, NEW b, b = [k \in 1 .. HeaderSize |-> b[k]],
           \A k \in 1 .. HeaderSize : b[k] = ClusterEncodeSize(n)[k]
    PROVE  ClusterDecodeSize(b) = n
<1>1. ClusterEncodeSize(n) \in [1 .. HeaderSize -> Byte] /\ ClusterDecodeSize(ClusterEncodeSize(n)) = n
  BY HeaderRoundTrip
<1>2. b = ClusterEncodeSize(n)
  BY <1>1
<1>. QED BY <1>1, <1>2

(* The bytes of a result: the header with its size, then its data.         *)
LEMMA PartIs ==
    ASSUME NEW r \in Results, ~Invalid(r)
    PROVE  /\ Part(r) \in [1 .. HeaderSize + r.size -> Byte] /\ Len(Part(r)) = HeaderSize + r.size
           /\ \A k \in 1 .. HeaderSize : Part(r)[k] = ClusterEncodeSize(r.size)[k]
           /\ \A j \in 1 .. r.size : Part(r)[HeaderSize + j] = r.data[j]
<1>. DEFINE head == ClusterEncodeSize(r.size)
            data == IF r.size > 0 THEN r.data ELSE <<>>
<1>1. r.size \in Nat /\ head \in [1 .. HeaderSize -> Byte] /\ HeaderSize \in Nat
  BY ValidIs, HeaderRoundTrip, Widths
<1>2. data \in [1 .. r.size -> Byte]
  <2>1. CASE r.size > 0
    BY <2>1, ValidIs
  <2>2. CASE ~(r.size > 0)
    <3>1. r.size = 0 /\ data = <<>>
      BY <2>2, <1>1
    <3>. QED BY <3>1
  <2>. QED BY <2>1, <2>2
<1>3. \A j \in 1 .. r.size : data[j] = r.data[j]
  BY <1>1
<1>4. Part(r) = head \o data
  BY DEF Part
<1>. HIDE DEF head, data
<1>5. head \in Seq(Byte) /\ Len(head) = HeaderSize /\ data \in Seq(Byte) /\ Len(data) = r.size
  BY <1>1, <1>2
<1>6. head \o data \in Seq(Byte) /\ Len(head \o data) = HeaderSize + r.size
  BY <1>5
<1>7. head \o data \in [1 .. HeaderSize + r.size -> Byte]
  <2>1. \A s \in Seq(Byte) : s \in [1 .. Len(s) -> Byte]
    OBVIOUS
  <2>2. head \o data \in [1 .. Len(head \o data) -> Byte]
    BY <1>6, <2>1
  <2>. QED BY <1>6, <2>2, Zenon
<1>8. \A k \in 1 .. HeaderSize : (head \o data)[k] = head[k]
  BY <1>1, <1>5
<1>9. ASSUME NEW j \in 1 .. r.size PROVE (head \o data)[HeaderSize + j] = data[j]
  <2>1. HeaderSize + j \in 1 .. HeaderSize + r.size /\ ~(HeaderSize + j <= HeaderSize)
    BY <1>1
  <2>2. (HeaderSize + j) - HeaderSize = j
    BY <1>1
  <2>. QED BY <1>5, <2>1, <2>2
<1>. QED BY <1>3, <1>4, <1>6, <1>7, <1>8, <1>9 DEF head

(* Arguments of threads are not the empty sequence, which stands for none. *)
LEMMA SomeResults == \A f \in [Threads -> Results] : f # <<>>
<1>1. 1 \in Threads
  BY Widths DEF Threads
<1>2. DOMAIN <<>> = {}
  OBVIOUS
<1>. QED BY <1>1, <1>2

(* The invariant of packing holds at first, for own and foreign packets.   *)
LEMMA InitPackInv == Init => PackInv
<1>. SUFFICES ASSUME Init PROVE PackInv
  OBVIOUS
<1>1. CASE pc = "measure"
  <2>1. results \in [Threads -> Results] /\ i = 0 /\ packetSize = HeaderSize
    BY <1>1 DEF Init, Threads
  <2>2. results # <<>> /\ EndOf(0) = HeaderSize
    BY <2>1, SomeResults, EndsAre
  <2>. QED BY <1>1, <2>1, <2>2, Widths DEF PackInv, Packing, Packed, Unpacking, RefusalHasCause
<1>2. CASE pc = "sent"
  <2>1. results = <<>> /\ bytes \in Foreign /\ packetSize = Len(bytes)
    BY <1>2 DEF Init
  <2>2. packetSize \in Sizes /\ bytes \in [1 .. packetSize -> Byte]
    <3>1. bytes \in Seq(Byte) /\ Len(bytes) \in Sizes
      BY <2>1, CodecResultsAssumption
    <3>. QED BY <2>1, <3>1
  <2>. QED BY <1>2, <2>1, <2>2 DEF PackInv, Packing, Packed, Unpacking, RefusalHasCause
<1>. QED BY <1>1, <1>2 DEF Init

(* The next result in the first loop, and why it may be refused.           *)
LEMMA MeasureKeepsPack == PackInv /\ Measure => PackInv'
<1>. SUFFICES ASSUME PackInv, Measure PROVE PackInv'
  OBVIOUS
<1>1. /\ results \in [Threads -> Results] /\ results # <<>>
      /\ i \in 0 .. Count /\ i < Count /\ packetSize = EndOf(i) /\ packetSize <= SizeMax
      /\ \A k \in 1 .. i : ~Invalid(results[k])
      /\ ~Invalid(results[i + 1]) /\ i' = i + 1 /\ pc' = "measure" /\ UNCHANGED results
  BY DEF PackInv, Measure, Packing, Result
<1>2. i + 1 \in 1 .. Count /\ i + 1 \in Threads /\ (i + 1) - 1 = i /\ results[i + 1] \in Results
  BY <1>1, Widths DEF Threads
<1>3. /\ Result.size \in Nat /\ EndOf(i + 1) = EndOf(i) + Space(results[i + 1])
      /\ Space(results[i + 1]) = HeaderSize + Result.size /\ EndOf(i) \in Nat
  BY <1>1, <1>2, ValidIs, EndsAre, Widths DEF Result
<1>4. packetSize + HeaderSize \in Sizes
  BY <1>1, <1>3, Widths DEF Measure, ItemFits, Fits, Sizes
<1>5. packetSize + HeaderSize + Result.size \in Sizes
  BY <1>1, <1>3, <1>4, SmallNumbersStay, Widths DEF Measure, ItemFits, Fits, Sizes
<1>6. packetSize' = packetSize + HeaderSize + Result.size
  BY <1>5, SmallNumbersStay DEF Measure
<1>7. packetSize' = EndOf(i + 1) /\ packetSize' <= SizeMax
  BY <1>1, <1>3, <1>5, <1>6, Widths DEF Sizes
<1>8. \A k \in 1 .. i' : ~Invalid(results[k])
  BY <1>1
<1>9. packetSize' = EndOf(i)' /\ i' \in 0 .. Count
  <2>1. EndOf(i)' = EndOf(i + 1)
    BY <1>1 DEF EndOf, Spaces
  <2>. QED BY <1>1, <1>2, <1>7, <2>1
<1>. QED BY <1>1, <1>7, <1>8, <1>9 DEF PackInv, Packing, Packed, Unpacking, RefusalHasCause

(* A refused packing does not disturb it.                                  *)
LEMMA RefuseKeepsPack == PackInv /\ Refuse => PackInv'
<1>. SUFFICES ASSUME PackInv, Refuse PROVE PackInv'
  OBVIOUS
<1>1. /\ results \in [Threads -> Results] /\ results # <<>>
      /\ i \in 0 .. Count /\ packetSize = EndOf(i) /\ packetSize <= SizeMax
      /\ pc' = "refused" /\ UNCHANGED <<results, i>>
  BY DEF PackInv, Refuse, Packing
<1>2. "alloc" \in Faults \/ (\E k \in Threads : Invalid(results[k])) \/ TrueSize > SizeMax
  <2>. SUFFICES ASSUME i < Count, ~Invalid(Result), ~ItemFits PROVE TrueSize > SizeMax
    <3>1. i < Count => i + 1 \in Threads
      BY <1>1, Widths DEF Threads
    <3>. QED BY <3>1 DEF Refuse, Result
  <2>1. i + 1 \in 1 .. Count /\ i + 1 \in Threads /\ (i + 1) - 1 = i /\ results[i + 1] \in Results
    BY <1>1, Widths DEF Threads
  <2>2. /\ Result.size \in Nat /\ EndOf(i + 1) = EndOf(i) + Space(results[i + 1])
        /\ Space(results[i + 1]) = HeaderSize + Result.size /\ EndOf(i) \in Nat
    BY <1>1, <2>1, ValidIs, EndsAre, Widths DEF Result
  <2>3. packetSize + HeaderSize + Result.size > SizeMax
    <3>1. CASE packetSize + HeaderSize <= SizeMax
      <4>1. Wrapped(packetSize + HeaderSize) = packetSize + HeaderSize
        BY <1>1, <2>2, <3>1, SmallNumbersStay, Widths DEF Sizes
      <4>. QED BY <1>1, <2>2, <3>1, <4>1, Widths DEF ItemFits, Fits
    <3>2. CASE ~(packetSize + HeaderSize <= SizeMax)
      BY <1>1, <2>2, <3>2, Widths
    <3>. QED BY <3>1, <3>2
  <2>4. EndOf(i + 1) <= TrueSize /\ TrueSize \in Nat
    BY <1>1, <2>1, EndsAre, Widths DEF TrueSize
  <2>. QED BY <1>1, <2>2, <2>3, <2>4, Widths
<1>. QED BY <1>1, <1>2, ResultsStay DEF PackInv, Packing, Packed, Unpacking, RefusalHasCause

(* The count is in the first bytes of the new buffer.                      *)
LEMMA AllocateKeepsPack == PackInv /\ Allocate => PackInv'
<1>. SUFFICES ASSUME PackInv, Allocate PROVE PackInv'
  OBVIOUS
<1>1. /\ results \in [Threads -> Results] /\ results # <<>>
      /\ i = Count /\ packetSize = EndOf(Count) /\ packetSize <= SizeMax
      /\ \A k \in Threads : ~Invalid(results[k])
      /\ pc' = "write" /\ i' = 0 /\ offset' = HeaderSize /\ UNCHANGED <<results, packetSize>>
  BY DEF PackInv, Allocate, Packing, Threads
<1>2. /\ EndOf(0) = HeaderSize /\ EndOf(Count) \in Nat /\ HeaderSize <= EndOf(Count)
      /\ HeaderSize \in Nat
  BY <1>1, EndsAre, Widths
<1>3. ClusterEncodeSize(Count) \in [1 .. HeaderSize -> Byte]
  BY HeaderRoundTrip, Widths
<1>4. bytes' = [k \in 1 .. packetSize |->
                   IF k <= HeaderSize THEN ClusterEncodeSize(Count)[k] ELSE Uninit]
  BY DEF Allocate
<1>5. Uninit \in 0 .. ByteBase /\ Byte \subseteq 0 .. ByteBase
  BY Widths DEF Uninit
<1>6. bytes' \in [1 .. packetSize -> 0 .. ByteBase]
  <2>1. ASSUME NEW k \in 1 .. packetSize
        PROVE  (IF k <= HeaderSize THEN ClusterEncodeSize(Count)[k] ELSE Uninit) \in 0 .. ByteBase
    <3>1. k <= HeaderSize => ClusterEncodeSize(Count)[k] \in Byte
      BY <1>1, <1>2, <1>3
    <3>. QED BY <1>5, <3>1
  <2>. QED BY <1>4, <2>1
<1>7. \A k \in 1 .. HeaderSize : k \in DOMAIN bytes' /\ bytes'[k] = ClusterEncodeSize(Count)[k]
  BY <1>1, <1>2, <1>4
<1>8. \A k \in 1 .. offset' : bytes'[k] \in Byte
  BY <1>1, <1>3, <1>7
<1>9. HeaderAt(0)' = Count
  <2>. DEFINE b == [k \in 1 .. HeaderSize |-> ByteAt(0 + k)']
  <2>1. \A k \in 1 .. HeaderSize : b[k] = ClusterEncodeSize(Count)[k]
    BY <1>2, <1>7 DEF ByteAt
  <2>2. HeaderAt(0)' = ClusterDecodeSize(b)
    BY DEF HeaderAt
  <2>3. b = [k \in 1 .. HeaderSize |-> b[k]]
    OBVIOUS
  <2>. HIDE DEF b
  <2>. QED BY <2>1, <2>2, <2>3, HeaderIsRead, Widths
<1>10. packetSize' = TrueSize' /\ offset' = EndOf(i)' /\ i' \in 0 .. Count
  <2>1. EndOf(i)' = EndOf(0)
    BY <1>1 DEF EndOf, Spaces
  <2>2. TrueSize' = EndOf(Count)
    BY <1>1, ResultsStay DEF TrueSize
  <2>. QED BY <1>1, <1>2, <2>1, <2>2, Widths
<1>. QED BY <1>1, <1>6, <1>8, <1>9, <1>10
     DEF PackInv, Packing, Packed, Unpacking, RefusalHasCause

(* Bytes that are written over in turn, none of them below offset.         *)
LEMMA WriteResultKeepsPack == PackInv /\ WriteResult => PackInv'
<1>. SUFFICES ASSUME PackInv, WriteResult PROVE PackInv'
  OBVIOUS
<1>. DEFINE r    == results[i + 1]
            part == Part(r)
<1>1. /\ results \in [Threads -> Results] /\ results # <<>>
      /\ i \in 0 .. Count /\ i < Count /\ offset = EndOf(i) /\ packetSize = EndOf(Count)
      /\ packetSize <= SizeMax /\ HeaderAt(0) = Count
      /\ bytes \in [1 .. packetSize -> 0 .. ByteBase]
      /\ \A k \in Threads : ~Invalid(results[k])
      /\ pc' = "write" /\ i' = i + 1 /\ UNCHANGED <<results, packetSize>>
  BY DEF PackInv, WriteResult, Packing, TrueSize
<1>2. /\ i + 1 \in 1 .. Count /\ i + 1 \in Threads /\ (i + 1) - 1 = i
      /\ r \in Results /\ ~Invalid(r)
  BY <1>1, Widths DEF Threads
<1>3. /\ r.size \in Nat /\ r.size \in Sizes /\ EndOf(i + 1) = EndOf(i) + HeaderSize + r.size
      /\ EndOf(i) \in Nat /\ EndOf(i) >= HeaderSize /\ EndOf(i + 1) <= packetSize
      /\ packetSize \in Nat
  <2>1. r.size \in Nat /\ r.size \in Sizes /\ Space(r) = HeaderSize + r.size
    BY <1>2, ValidIs
  <2>2. EndOf(i + 1) = EndOf(i) + Space(r)
    BY <1>1, <1>2, EndsAre
  <2>3. EndOf(i) \in Nat /\ EndOf(i) >= HeaderSize /\ EndOf(Count) \in Nat
    BY <1>1, EndsAre, Widths
  <2>4. EndOf(i + 1) <= EndOf(Count)
    <3>1. Count \in 0 .. Count /\ i + 1 \in 0 .. Count
      BY <1>2, Widths
    <3>. QED BY <1>1, <3>1, EndsAre
  <2>. QED BY <1>1, <2>1, <2>2, <2>3, <2>4, Widths
<1>4. /\ part \in [1 .. HeaderSize + r.size -> Byte] /\ Len(part) = HeaderSize + r.size
      /\ \A k \in 1 .. HeaderSize : part[k] = ClusterEncodeSize(r.size)[k]
      /\ \A j \in 1 .. r.size : part[HeaderSize + j] = r.data[j]
  BY <1>2, PartIs
<1>5. offset' = offset + HeaderSize + r.size
  <2>1. offset + HeaderSize + r.size \in Sizes
    BY <1>1, <1>3, Widths DEF Sizes
  <2>. QED BY <2>1, SmallNumbersStay DEF WriteResult, Result
<1>a. /\ offset \in Nat /\ offset >= HeaderSize /\ r.size \in Nat /\ HeaderSize \in Nat
      /\ offset' = offset + HeaderSize + r.size /\ offset' <= packetSize /\ packetSize \in Nat
  BY <1>1, <1>3, <1>5, Widths
<1>6. bytes' = [k \in 1 .. packetSize |->
                   IF k \in offset + 1 .. offset'
                   THEN part[k - offset] ELSE bytes[k]]
  <2>1. bytes' = [k \in 1 .. packetSize |->
                     IF k \in offset + 1 .. offset + Len(part) THEN part[k - offset] ELSE bytes[k]]
    BY <1>1 DEF WriteResult, Written, Result
  <2>. HIDE DEF part, r
  <2>2. offset + Len(part) = offset'
    BY <1>4, <1>a
  <2>. QED BY <2>1, <2>2
<1>. HIDE DEF part, r
<1>7. ASSUME NEW k \in 1 .. HeaderSize + r.size
      PROVE  offset + k \in 1 .. packetSize /\ bytes'[offset + k] = part[k]
  <2>1. /\ offset + k \in 1 .. packetSize /\ offset + k \in offset + 1 .. offset'
        /\ (offset + k) - offset = k
    BY <1>a
  <2>. QED BY <1>6, <2>1
<1>8. ASSUME NEW k \in 1 .. offset
      PROVE  k \in 1 .. packetSize /\ bytes'[k] = bytes[k]
  <2>1. k \in 1 .. packetSize /\ k \notin offset + 1 .. offset'
    BY <1>a
  <2>. QED BY <1>6, <2>1
<1>9. bytes' \in [1 .. packetSize -> 0 .. ByteBase]
  <2>1. ASSUME NEW k \in 1 .. packetSize
        PROVE  (IF k \in offset + 1 .. offset' THEN part[k - offset] ELSE bytes[k])
                  \in 0 .. ByteBase
    <3>1. CASE k \in offset + 1 .. offset'
      <4>1. k - offset \in 1 .. HeaderSize + r.size
        BY <1>a, <3>1
      <4>. QED BY <1>4, <3>1, <4>1, Widths
    <3>2. CASE k \notin offset + 1 .. offset'
      BY <1>1, <3>2
    <3>. QED BY <3>1, <3>2
  <2>. QED BY <1>6, <2>1
<1>10. ASSUME NEW k \in 1 .. offset' PROVE bytes'[k] \in Byte
  <2>1. CASE k \in 1 .. offset
    BY <1>8, <2>1 DEF PackInv, WriteResult
  <2>2. CASE k \notin 1 .. offset
    <3>1. k - offset \in 1 .. HeaderSize + r.size /\ offset + (k - offset) = k
      BY <1>a, <2>2
    <3>2. bytes'[k] = part[k - offset] /\ part[k - offset] \in Byte
      BY <1>4, <1>7, <3>1
    <3>. QED BY <3>2
  <2>. QED BY <2>1, <2>2
<1>11. ASSUME NEW at \in Nat, at + HeaderSize <= offset PROVE HeaderAt(at)' = HeaderAt(at)
  <2>1. \A k \in 1 .. HeaderSize : ByteAt(at + k)' = ByteAt(at + k)
    <3>1. \A k \in 1 .. HeaderSize : at + k \in 1 .. offset
      BY <1>1, <1>3, <1>11, Widths
    <3>. QED BY <1>1, <1>8, <1>9, <3>1 DEF ByteAt
  <2>. QED BY <2>1 DEF HeaderAt
<1>12. ASSUME NEW k \in 1 .. i PROVE IsWritten(k)'
  <2>1. /\ k \in Threads /\ k - 1 \in 0 .. Count /\ k \in 0 .. i /\ results[k] \in Results
        /\ k \in 1 .. Count /\ ~Invalid(results[k])
    BY <1>1, Widths DEF Threads
  <2>2. /\ results[k].size \in Nat /\ EndOf(k) = EndOf(k - 1) + HeaderSize + results[k].size
        /\ EndOf(k - 1) \in Nat /\ EndOf(k) <= offset
    <3>1. results[k].size \in Nat /\ Space(results[k]) = HeaderSize + results[k].size
      BY <2>1, ValidIs
    <3>2. EndOf(k) = EndOf(k - 1) + Space(results[k]) /\ EndOf(k - 1) \in Nat /\ EndOf(k) <= EndOf(i)
      BY <1>1, <2>1, EndsAre
    <3>. QED BY <1>1, <3>1, <3>2, Widths
  <2>3. IsWritten(k)
    BY <1>1 DEF PackInv, WriteResult
  <2>4. PICK at : at = EndOf(k - 1)
    OBVIOUS
  <2>6. at = EndOf(k - 1)'
    BY <1>1, <2>4, ResultsStay
  <2>7. HeaderAt(at)' = HeaderAt(at)
    <3>1. at \in Nat /\ at + HeaderSize <= offset
      BY <1>a, <2>2, <2>4
    <3>. QED BY <1>11, <3>1
  <2>5. ASSUME NEW j \in 1 .. results[k].size
        PROVE  bytes'[EndOf(k - 1) + HeaderSize + j] = bytes[EndOf(k - 1) + HeaderSize + j]
    <3>1. EndOf(k - 1) + HeaderSize + j \in 1 .. offset
      BY <1>a, <2>2
    <3>. QED BY <1>8, <3>1
  <2>. QED BY <1>1, <2>3, <2>4, <2>5, <2>6, <2>7, Zenon DEF IsWritten, HeaderAt
<1>13. ASSUME NEW l, l = i + 1 PROVE IsWritten(l)'
  <2>0. PICK at : at = offset
    OBVIOUS
  <2>1. EndOf(l - 1)' = at
    <3>1. l - 1 = i
      BY <1>2, <1>13, Zenon
    <3>. QED BY <1>1, <2>0, <3>1, ResultsStay
  <2>2. results'[l] = r
    BY <1>1, <1>13 DEF r
  <2>3. ClusterDecodeSize([k \in 1 .. HeaderSize |-> ByteAt(at + k)']) = r.size
    <3>. DEFINE b == [k \in 1 .. HeaderSize |-> ByteAt(at + k)']
    <3>1. ASSUME NEW k \in 1 .. HeaderSize PROVE b[k] = ClusterEncodeSize(r.size)[k]
      <4>1. k \in 1 .. HeaderSize + r.size
        BY <1>3, Widths
      <4>2. at + k \in DOMAIN bytes' /\ bytes'[at + k] = part[k]
        BY <1>7, <1>9, <2>0, <4>1
      <4>3. b[k] = bytes'[at + k]
        BY <4>2 DEF ByteAt
      <4>. QED BY <1>4, <4>2, <4>3
    <3>2. b = [k \in 1 .. HeaderSize |-> b[k]]
      OBVIOUS
    <3>. HIDE DEF b
    <3>3. ClusterDecodeSize(b) = r.size
      BY <1>3, <3>1, <3>2, HeaderIsRead
    <3>. QED BY <3>3 DEF b
  <2>4. ASSUME NEW j \in 1 .. r.size PROVE bytes'[at + HeaderSize + j] = r.data[j]
    <3>1. /\ HeaderSize + j \in 1 .. HeaderSize + r.size
          /\ at + HeaderSize + j = offset + (HeaderSize + j)
      BY <1>a, <2>0
    <3>. QED BY <1>4, <1>7, <3>1
  <2>. QED BY <2>1, <2>2, <2>3, <2>4 DEF IsWritten, HeaderAt
<1>14. HeaderAt(0)' = Count
  BY <1>1, <1>3, <1>11, Widths
<1>15. /\ packetSize' = TrueSize' /\ packetSize' <= SizeMax /\ offset' = EndOf(i)'
       /\ i' \in 0 .. Count
  <2>1. EndOf(i)' = EndOf(i + 1)
    BY <1>1 DEF EndOf, Spaces
  <2>. QED BY <1>1, <1>2, <1>3, <1>5, <2>1, ResultsStay, Widths DEF TrueSize
<1>16. \A k \in 1 .. i' : IsWritten(k)'
  BY <1>1, <1>12, <1>13
<1>. QED BY <1>1, <1>9, <1>10, <1>14, <1>15, <1>16
     DEF PackInv, Packing, Packed, Unpacking, RefusalHasCause

(* When all results are written the packet is full.                        *)
LEMMA PacketDoneKeepsPack == PackInv /\ PacketDone => PackInv'
<1>. SUFFICES ASSUME PackInv, PacketDone PROVE PackInv'
  OBVIOUS
<1>1. /\ pc = "write" /\ i = Count /\ offset = EndOf(Count) /\ packetSize = TrueSize
      /\ packetSize <= SizeMax /\ results \in [Threads -> Results] /\ pc' = "sent"
      /\ bytes \in [1 .. packetSize -> 0 .. ByteBase] /\ \A k \in 1 .. offset : bytes[k] \in Byte
      /\ UNCHANGED <<results, i, packetSize, bytes>>
  BY DEF PackInv, PacketDone, Packing
<1>2. offset = packetSize /\ packetSize \in Sizes
  BY <1>1, EndsAre, Widths DEF TrueSize, Sizes
<1>3. bytes \in [1 .. packetSize -> Byte]
  BY <1>1, <1>2
<1>. QED BY <1>1, <1>2, <1>3, ResultsStay, BytesStay
     DEF PackInv, Packing, Packed, Unpacking, RefusalHasCause, Threads

(* Nothing that the master does changes the packet.                        *)
LEMMA ReadingKeepsPack ==
    PackInv /\ UNCHANGED <<results, packetSize, bytes>> /\ pc \in Packed /\ pc' \in Packed
        => PackInv'
<1>. SUFFICES ASSUME PackInv, UNCHANGED <<results, packetSize, bytes>>,
                     pc \in Packed, pc' \in Packed
              PROVE  PackInv'
  OBVIOUS
<1>. QED BY ResultsStay, BytesStay DEF PackInv, Packing, Packed, Unpacking, RefusalHasCause

(* Every turn of both loops keeps it.                                      *)
LEMMA StepKeepsPackInv == PackInv /\ [Next]_vars => PackInv'
<1>. SUFFICES ASSUME PackInv, [Next]_vars PROVE PackInv'
  OBVIOUS
<1>1. CASE Measure
  BY <1>1, MeasureKeepsPack
<1>2. CASE Refuse
  BY <1>2, RefuseKeepsPack
<1>3. CASE Allocate
  BY <1>3, AllocateKeepsPack
<1>4. CASE WriteResult
  BY <1>4, WriteResultKeepsPack
<1>5. CASE PacketDone
  BY <1>5, PacketDoneKeepsPack
<1>6. CASE ReadCount
  BY <1>6, ReadingKeepsPack DEF ReadCount, Packed, Unpacking
<1>7. CASE AddItem
  BY <1>7, ReadingKeepsPack DEF AddItem, Reading, Packed, Unpacking
<1>8. CASE RejectItem
  BY <1>8, ReadingKeepsPack DEF RejectItem, Reading, Packed, Unpacking
<1>9. CASE Reject
  BY <1>9, ReadingKeepsPack DEF Reject, Reading, Packed, Unpacking
<1>10. CASE Added
  BY <1>10, ReadingKeepsPack DEF Added, Packed, Unpacking
<1>11. CASE UNCHANGED vars
  <2>1. UNCHANGED <<results, bytes, i, packetSize, offset, pc>>
    BY <1>11 DEF vars
  <2>. QED BY <2>1, ResultsStay, BytesStay DEF PackInv, RefusalHasCause, EndOf
<1>. QED BY <1>1, <1>2, <1>3, <1>4, <1>5, <1>6, <1>7, <1>8, <1>9, <1>10, <1>11 DEF Next

(* It holds in every state.                                                *)
LEMMA PackInvHolds == Spec => []PackInv
  BY InitPackInv, StepKeepsPackInv, PTL DEF Spec

(***************************************************************************)
(* PackThreadResults writes inside of the buffer it allocated, whatever    *)
(* the threads return and however many they are.                           *)
(***************************************************************************)
THEOREM WritesAreInside == Spec => []WritesStayInside
<1>1. ASSUME PackInv PROVE WritesStayInside
  <2>. SUFFICES ASSUME pc = "write"
                PROVE  /\ offset <= packetSize
                       /\ i < Count => offset + HeaderSize + Result.size <= packetSize
    BY DEF WritesStayInside
  <2>1. /\ results \in [Threads -> Results] /\ i \in 0 .. Count /\ offset = EndOf(i)
        /\ packetSize = EndOf(Count) /\ \A k \in Threads : ~Invalid(results[k])
    BY <1>1 DEF PackInv, Packing, TrueSize
  <2>2. offset <= packetSize
    BY <2>1, EndsAre, Widths
  <2>3. ASSUME i < Count PROVE offset + HeaderSize + Result.size <= packetSize
    <3>1. /\ i + 1 \in 1 .. Count /\ i + 1 \in Threads /\ (i + 1) - 1 = i
          /\ i + 1 \in 0 .. Count /\ Count \in 0 .. Count
      BY <2>1, <2>3, Widths DEF Threads
    <3>2. Result.size \in Nat /\ Space(results[i + 1]) = HeaderSize + Result.size
      BY <2>1, <3>1, ValidIs DEF Result
    <3>3. /\ EndOf(i + 1) = EndOf(i) + Space(results[i + 1])
          /\ EndOf(i) \in Nat /\ EndOf(i + 1) <= EndOf(Count)
      BY <2>1, <3>1, EndsAre
    <3>. QED BY <2>1, <3>2, <3>3, Widths
  <2>. QED BY <2>2, <2>3
<1>. QED BY <1>1, PackInvHolds, PTL

(* Every byte of a packet that leaves the worker was written.              *)
THEOREM PacketsAreFull == Spec => []PacketIsFull
<1>1. PackInv => PacketIsFull
  BY DEF PackInv, PacketIsFull, Packed, Unpacking
<1>. QED BY <1>1, PackInvHolds, PTL

(* AddSize refuses no results that fit into a size_t.                      *)
THEOREM RefusalsHaveCause == Spec => []RefusalHasCause
<1>1. PackInv => RefusalHasCause
  BY DEF PackInv
<1>. QED BY <1>1, PackInvHolds, PTL
-----------------------------------------------------------------------------
(***************************************************************************)
(* The second layer: the walk of AddPackedResults.                         *)
(***************************************************************************)
(* Whatever the master reads, also behind the end, it reads as numbers.    *)
LEMMA ReadsAreNumbers ==
    ASSUME bytes \in [1 .. packetSize -> Byte]
    PROVE  /\ \A k : ByteAt(k) \in Nat
           /\ \A at : HeaderAt(at) \in Nat
           /\ \A k : ItemValue(k) \in Nat
<1>1. ASSUME NEW k PROVE ByteAt(k) \in Nat
  BY Widths DEF ByteAt, Uninit
<1>2. ASSUME NEW at PROVE HeaderAt(at) \in Nat
  <2>1. [k \in 1 .. HeaderSize |-> ByteAt(at + k)] \in [1 .. HeaderSize -> Nat]
    BY <1>1
  <2>. QED BY <2>1, DecodedIsNat DEF HeaderAt
<1>3. ASSUME NEW k PROVE ItemValue(k) \in Nat
  BY <1>1 DEF ItemValue
<1>. QED BY <1>1, <1>2, <1>3

(* The items of a packet lie one behind the other.                         *)
LEMMA ItemsFollowEachOther ==
    ASSUME NEW k \in Nat PROVE ItemAt(k + 2) = ItemAt(k + 1) + HeaderSize + ItemSize
<1> DEFINE step == HeaderSize + ItemSize
<1>1. step \in Nat
  BY Widths
<1> HIDE DEF step
<1>2. (k + 1) * step = k * step + step
  BY <1>1
<1>3. ItemAt(k + 2) = HeaderSize + (k + 1) * step /\ ItemAt(k + 1) = HeaderSize + k * step
  BY DEF ItemAt, step
<1>4. k * step \in Nat
  BY <1>1
<1> QED
  BY <1>2, <1>3, <1>4, Widths DEF step

(* A header that is read lies within the packet, so that only one can be   *)
(* read.                                                                   *)
LEMMA HeaderIsInside ==
    PackInv /\ WalkInv /\ Reading /\ HeaderIsThere =>
        /\ packetSize \in Sizes /\ offset \in Nat
        /\ offset + HeaderSize \in 0 .. packetSize
        /\ HeadersAt(offset) = {HeaderAt(offset)}
<1> SUFFICES ASSUME PackInv, WalkInv, Reading, HeaderIsThere
             PROVE  /\ packetSize \in Sizes /\ offset \in Nat
                    /\ offset + HeaderSize \in 0 .. packetSize
                    /\ HeadersAt(offset) = {HeaderAt(offset)}
  OBVIOUS
<1>1. packetSize \in Sizes /\ offset \in 0 .. packetSize
  BY DEF PackInv, Packed, WalkInv, Unpacking, Reading
<1>2. Wrapped(packetSize - offset) = packetSize - offset
  BY <1>1, SmallNumbersStay, Widths DEF Sizes
<1>3. offset + HeaderSize \in 0 .. packetSize
  BY <1>1, <1>2, Widths DEF HeaderIsThere, NoRoomFor, Sizes
<1> QED
  BY <1>1, <1>3, Widths DEF HeadersAt, Sizes

(* An item that is added lies within the packet, header included, and adds *)
(* its value.                                                              *)
LEMMA GoodItemIsInside ==
    PackInv /\ WalkInv /\ AddItem =>
        /\ HeaderAt(offset) = ItemSize
        /\ offset' \in 0 .. packetSize
        /\ total' = total + ItemValue(offset + HeaderSize)
<1> SUFFICES ASSUME PackInv, WalkInv, AddItem
             PROVE  /\ HeaderAt(offset) = ItemSize
                    /\ offset' \in 0 .. packetSize
                    /\ total' = total + ItemValue(offset + HeaderSize)
  OBVIOUS
<1>1. /\ packetSize \in Sizes /\ offset \in Nat
      /\ offset + HeaderSize \in 0 .. packetSize
      /\ HeadersAt(offset) = {HeaderAt(offset)}
  BY HeaderIsInside DEF AddItem
<1>2. HeaderAt(offset) = ItemSize /\ ~NoRoomFor(ItemSize, offset + HeaderSize)
  BY <1>1 DEF AddItem, IsItem
<1>3. Wrapped(packetSize - (offset + HeaderSize)) = packetSize - (offset + HeaderSize)
  BY <1>1, SmallNumbersStay, Widths DEF Sizes
<1>4. offset + HeaderSize + ItemSize \in 0 .. packetSize
  BY <1>1, <1>2, <1>3, Widths DEF NoRoomFor, Sizes
<1>5. ValuesAt(offset + HeaderSize) = {ItemValue(offset + HeaderSize)}
  BY <1>1, <1>4 DEF ValuesAt, Sizes
<1>6. total' = total + ItemValue(offset + HeaderSize)
  BY <1>5 DEF AddItem
<1> QED
  BY <1>2, <1>4, <1>6 DEF AddItem

(* The invariant of the walk holds at first.                               *)
LEMMA InitWalkInv == Init => WalkInv
  BY DEF Init, WalkInv, Packing, Unpacking

(* An item that is added is the next one, and its value the next term.     *)
LEMMA AddItemKeepsWalk == PackInv /\ WalkInv /\ AddItem => WalkInv'
<1> SUFFICES ASSUME PackInv, WalkInv, AddItem PROVE WalkInv'
  OBVIOUS
<1>1. /\ HeaderAt(offset) = ItemSize /\ offset' \in 0 .. packetSize /\ readEnd' = offset'
      /\ total' = total + ItemValue(offset + HeaderSize)
  BY GoodItemIsInside DEF AddItem
<1>2. /\ count = HeaderAt(0) /\ i \in 0 .. count /\ i < count
      /\ offset = ItemAt(i + 1) /\ total = SumsOf(ItemValues, count)[i]
      /\ bytes \in [1 .. packetSize -> Byte]
      /\ i' = i + 1 /\ pc' = "read" /\ UNCHANGED <<results, packetSize, bytes, count>>
  BY DEF PackInv, Packed, Unpacking, WalkInv, AddItem, Reading
<1>3. count \in Nat /\ i \in Nat /\ i + 1 \in 1 .. count /\ (i + 1) - 1 = i
  <2>1. count \in Nat
    BY <1>2, ReadsAreNumbers
  <2>. QED BY <1>2, <2>1
<1>4. offset' = ItemAt(i' + 1)
  <2>1. offset' = ItemAt(i + 2) /\ i' + 1 = i + 2
    BY <1>2, <1>3, ItemsFollowEachOther DEF AddItem
  <2>. QED BY <2>1
<1>5. \A k \in 1 .. i' : HeaderAt(ItemAt(k)) = ItemSize
  <2>1. SUFFICES ASSUME NEW k \in 1 .. i' PROVE HeaderAt(ItemAt(k)) = ItemSize
    OBVIOUS
  <2>2. CASE k = i + 1
    BY <2>2, <1>1, <1>2
  <2>3. CASE k # i + 1
    BY <2>3, <1>2 DEF WalkInv, AddItem
  <2> QED
    BY <2>2, <2>3
<1>6. total' = SumsOf(ItemValues, count)[i + 1]
  <2>1. ItemValues \in [1 .. count -> Nat]
    BY <1>2, ReadsAreNumbers DEF ItemValues
  <2>2. SumsOf(ItemValues, count)[i + 1] = SumsOf(ItemValues, count)[i] + ItemValues[i + 1]
    BY <1>3, <2>1, SumsAre
  <2>3. ItemValues[i + 1] = ItemValue(offset + HeaderSize)
    BY <1>2, <1>3 DEF ItemValues
  <2>. QED BY <1>1, <1>2, <2>2, <2>3
<1>7. ItemValues' = ItemValues /\ \A at : HeaderAt(at)' = HeaderAt(at)
  BY <1>2, BytesStay DEF ItemValues, ItemValue, ByteAt
<1> QED
  BY <1>1, <1>2, <1>3, <1>4, <1>5, <1>6, <1>7 DEF WalkInv, Packing, Unpacking

(* Every turn of AddPackedResults keeps it.                                *)
LEMMA StepKeepsWalkInv == PackInv /\ WalkInv /\ [Next]_vars => WalkInv'
<1> SUFFICES ASSUME PackInv, WalkInv, [Next]_vars PROVE WalkInv'
  OBVIOUS
<1>1. CASE Measure
  BY <1>1 DEF WalkInv, Measure, Packing, Unpacking
<1>2. CASE Refuse
  BY <1>2 DEF WalkInv, Refuse, Packing, Unpacking
<1>3. CASE Allocate
  BY <1>3 DEF WalkInv, Allocate, Packing, Unpacking
<1>4. CASE WriteResult
  BY <1>4 DEF WalkInv, WriteResult, Packing, Unpacking
<1>5. CASE PacketDone
  <2>1. packetSize >= HeaderSize
    BY <1>5, EndsAre, Widths DEF PackInv, PacketDone, Packing, TrueSize
  <2>. QED BY <1>5, <2>1 DEF WalkInv, PacketDone, Packing, Unpacking
<1>6. CASE ReadCount
  <2>0. HeadersAt(0) = {HeaderAt(0)}
    BY <1>6, Widths DEF HeadersAt, ReadCount, Sizes
  <2>1. /\ pc' = "read" /\ count' = HeaderAt(0) /\ offset' = HeaderSize /\ readEnd' = HeaderSize
        /\ i' = 0 /\ total = 0 /\ UNCHANGED <<results, packetSize, bytes, total>>
        /\ packetSize \in Sizes /\ bytes \in [1 .. packetSize -> Byte]
    BY <1>6, <2>0 DEF WalkInv, PackInv, Packed, ReadCount
  <2>2. offset' = ItemAt(i' + 1) /\ offset' \in 0 .. packetSize
    BY <1>6, <2>1, Widths DEF ReadCount, ItemAt, Sizes
  <2>3. count' \in Nat /\ HeaderAt(0)' = HeaderAt(0)
    BY <2>1, ReadsAreNumbers, BytesStay
  <2>4. ItemValues' \in [1 .. count' -> Nat]
    BY <2>1, ReadsAreNumbers DEF ItemValues, ItemValue, ByteAt
  <2>5. SumsOf(ItemValues', count')[0] = 0
    BY <2>3, <2>4, SumsAre
  <2> QED
    BY <2>1, <2>2, <2>3, <2>5 DEF WalkInv, Packing, Unpacking
<1>7. CASE AddItem
  BY <1>7, AddItemKeepsWalk
<1>8. CASE RejectItem
  <2>1. offset' \in 0 .. packetSize /\ readEnd' = offset' /\ pc' = "rejected" /\ packetSize' = packetSize
    BY <1>8, HeaderIsInside DEF RejectItem
  <2> QED
    BY <2>1 DEF WalkInv, Packing, Unpacking
<1>9. CASE Reject
  <2>1. offset \in 0 .. packetSize /\ readEnd = offset
    BY <1>9, Widths DEF WalkInv, PackInv, Packed, Reject, Reading, Packing, Unpacking, Sizes
  <2> QED
    BY <1>9, <2>1 DEF WalkInv, Reject, Packing, Unpacking
<1>10. CASE Added
  <2>1. ItemValues' = ItemValues /\ \A at : HeaderAt(at)' = HeaderAt(at)
    BY <1>10, BytesStay DEF Added, ItemValues, ItemValue, ByteAt
  <2>. QED BY <1>10, <2>1 DEF WalkInv, Added, Packing, Unpacking
<1>11. CASE UNCHANGED vars
  <2>1. ItemValues' = ItemValues /\ \A at : HeaderAt(at)' = HeaderAt(at)
    BY <1>11, BytesStay DEF vars, ItemValues, ItemValue, ByteAt
  <2>. QED BY <1>11, <2>1 DEF WalkInv, vars, Packing, Unpacking
<1> QED
  BY <1>1, <1>2, <1>3, <1>4, <1>5, <1>6, <1>7, <1>8, <1>9, <1>10, <1>11 DEF Next

(* Both invariants hold in every state.                                    *)
LEMMA WalkInvHolds == Spec => [](PackInv /\ WalkInv)
<1>1. Init => PackInv /\ WalkInv
  BY InitPackInv, InitWalkInv
<1>2. PackInv /\ WalkInv /\ [Next]_vars => PackInv' /\ WalkInv'
  BY StepKeepsPackInv, StepKeepsWalkInv
<1>. QED BY <1>1, <1>2, PTL DEF Spec

(* AddPackedResults reads nothing behind the end of a packet, whatever     *)
(* count and sizes the packet claims to have, and whether it then adds     *)
(* them or rejects the packet.                                             *)
THEOREM ReadsAreInside == Spec => []ReadsStayInside
<1>1. PackInv /\ WalkInv => ReadsStayInside
  BY Widths DEF PackInv, Packed, WalkInv, ReadsStayInside, Unpacking, Sizes
<1> QED
  BY <1>1, WalkInvHolds, PTL

(* AddPackedResults accepts nothing but its count, as many items as it     *)
(* says, each with the size of an item, and no byte more; and it has then  *)
(* added the value of each of them once.                                   *)
THEOREM AcceptedPacketsAreExact == Spec => []OnlyItemsAreAdded
<1>1. ASSUME PackInv, WalkInv, pc = "added"
      PROVE  packetSize = HeaderSize + count * (HeaderSize + ItemSize)
  <2>1. offset = packetSize /\ offset = ItemAt(count + 1) /\ count \in Nat
    <3>1. count \in Nat
      BY <1>1, ReadsAreNumbers DEF PackInv, Packed, Unpacking, WalkInv
    <3>. QED BY <1>1, <3>1 DEF WalkInv
  <2>2. (count + 1) - 1 = count
    BY <2>1
  <2>. QED BY <2>1, <2>2 DEF ItemAt
<1>2. PackInv /\ WalkInv => OnlyItemsAreAdded
  BY <1>1 DEF WalkInv, OnlyItemsAreAdded
<1> QED
  BY <1>2, WalkInvHolds, PTL
-----------------------------------------------------------------------------
(***************************************************************************)
(* The third layer: the walk over a packet of PackThreadResults.           *)
(***************************************************************************)
(* What the master finds in such a packet, and that there is room for it.  *)
LEMMA OwnPacket ==
    ASSUME PackInv, results # <<>>, pc \in Packed
    PROVE  /\ results \in [Threads -> Results] /\ packetSize = EndOf(Count)
           /\ packetSize \in Nat /\ packetSize <= SizeMax /\ HeaderAt(0) = Count
           /\ EndOf(0) = HeaderSize /\ HeaderSize <= packetSize
           /\ \A k \in 1 .. Count :
                 /\ results[k].size \in Nat /\ EndOf(k - 1) \in Nat
                 /\ HeaderAt(EndOf(k - 1)) = results[k].size
                 /\ EndOf(k) = EndOf(k - 1) + HeaderSize + results[k].size
                 /\ EndOf(k) <= packetSize
                 /\ \A j \in 1 .. results[k].size :
                       ByteAt(EndOf(k - 1) + HeaderSize + j) = results[k].data[j]
<1>1. /\ results \in [Threads -> Results] /\ packetSize = EndOf(Count)
      /\ packetSize \in Sizes /\ HeaderAt(0) = Count /\ bytes \in [1 .. packetSize -> Byte]
      /\ \A k \in Threads : IsWritten(k) /\ ~Invalid(results[k])
  BY DEF PackInv, TrueSize
<1>2. packetSize \in Nat /\ packetSize <= SizeMax
  BY <1>1, Widths DEF Sizes
<1>3. EndOf(0) = HeaderSize /\ HeaderSize <= packetSize
  BY <1>1, EndsAre, Widths
<1>4. ASSUME NEW k \in 1 .. Count
      PROVE  /\ results[k].size \in Nat /\ EndOf(k - 1) \in Nat
             /\ HeaderAt(EndOf(k - 1)) = results[k].size
             /\ EndOf(k) = EndOf(k - 1) + HeaderSize + results[k].size
             /\ EndOf(k) <= packetSize
             /\ \A j \in 1 .. results[k].size :
                   ByteAt(EndOf(k - 1) + HeaderSize + j) = results[k].data[j]
  <2>1. /\ k \in Threads /\ k \in 0 .. Count /\ k - 1 \in 0 .. Count /\ Count \in 0 .. Count
        /\ k \in 0 .. Count
    BY Widths DEF Threads
  <2>2. results[k].size \in Nat /\ Space(results[k]) = HeaderSize + results[k].size
    BY <1>1, <2>1, ValidIs
  <2>3. /\ EndOf(k) = EndOf(k - 1) + Space(results[k]) /\ EndOf(k - 1) \in Nat
        /\ EndOf(k) <= EndOf(Count)
    BY <1>1, <2>1, EndsAre
  <2>4. EndOf(k) = EndOf(k - 1) + HeaderSize + results[k].size
    BY <2>2, <2>3, Widths
  <2>5. ASSUME NEW j \in 1 .. results[k].size
        PROVE  ByteAt(EndOf(k - 1) + HeaderSize + j) = results[k].data[j]
    <3>1. EndOf(k - 1) + HeaderSize + j \in 1 .. packetSize
      <4>1. EndOf(k - 1) \in Nat /\ HeaderSize \in Nat /\ results[k].size \in Nat
        BY <2>2, <2>3, Widths
      <4>2. EndOf(k - 1) + HeaderSize + results[k].size <= packetSize
        BY <1>1, <2>3, <2>4
      <4>. QED BY <1>2, <4>1, <4>2
    <3>2. bytes[EndOf(k - 1) + HeaderSize + j] = results[k].data[j]
      BY <1>1, <2>1 DEF IsWritten
    <3>. QED BY <1>1, <3>1, <3>2 DEF ByteAt
  <2>. QED BY <1>1, <2>1, <2>2, <2>3, <2>4, <2>5 DEF IsWritten
<1>. QED BY <1>1, <1>2, <1>3, <1>4

(* The next item is the next result.                                       *)
LEMMA AddItemKeepsRead == PackInv /\ WalkInv /\ ReadInv /\ AddItem => ReadInv'
<1>. SUFFICES ASSUME PackInv, WalkInv, ReadInv, AddItem, results # <<>> PROVE ReadInv'
  BY DEF ReadInv, AddItem
<1>1. /\ i \in 0 .. count /\ i < count /\ count = HeaderAt(0) /\ offset = ItemAt(i + 1)
      /\ offset = EndOf(i) /\ pc \in Packed
      /\ \A k \in 1 .. i : results[k].size = ItemSize /\ ItemAt(k) = EndOf(k - 1)
      /\ i' = i + 1 /\ pc' = "read" /\ offset' = offset + HeaderSize + ItemSize /\ UNCHANGED results
  BY DEF WalkInv, ReadInv, AddItem, Reading, Packed, Unpacking
<1>2. HeaderAt(offset) = ItemSize
  BY GoodItemIsInside
<1>3. count = Count /\ i + 1 \in 1 .. Count /\ (i + 1) - 1 = i
  BY <1>1, OwnPacket, Widths
<1>4. results[i + 1].size = ItemSize /\ EndOf(i + 1) = offset'
  BY <1>1, <1>2, <1>3, OwnPacket
<1>5. \A k \in 1 .. i' : results[k].size = ItemSize /\ ItemAt(k) = EndOf(k - 1)
  <2>1. SUFFICES ASSUME NEW k \in 1 .. i'
                 PROVE  results[k].size = ItemSize /\ ItemAt(k) = EndOf(k - 1)
    OBVIOUS
  <2>2. CASE k = i + 1
    BY <1>1, <1>3, <1>4, <2>2
  <2>3. CASE k # i + 1
    BY <1>1, <2>3
  <2>. QED BY <2>2, <2>3
<1>6. offset' = EndOf(i)'
  <2>1. EndOf(i)' = EndOf(i + 1)
    BY <1>1 DEF EndOf, Spaces
  <2>. QED BY <1>4, <2>1
<1>. QED BY <1>1, <1>5, <1>6, ResultsStay DEF ReadInv, ItemAt

(* The next result, if it is an item, is found to be one.                  *)
LEMMA NextResultIsItem ==
    PackInv /\ WalkInv /\ ReadInv /\ Reading /\ results # <<>> /\ AllItems =>
        HeaderIsThere /\ IsItem(HeaderAt(offset))
<1>. SUFFICES ASSUME PackInv, WalkInv, ReadInv, Reading, results # <<>>, AllItems
              PROVE  HeaderIsThere /\ IsItem(HeaderAt(offset))
  OBVIOUS
<1>1. pc \in Packed /\ pc = "read"
  BY DEF Reading, Packed, Unpacking
<1>2. i \in 0 .. count /\ count = Count /\ offset = EndOf(i) /\ i < Count
  BY <1>1, OwnPacket DEF WalkInv, ReadInv, Reading
<1>3. i + 1 \in 1 .. Count /\ i + 1 \in Threads /\ (i + 1) - 1 = i
  BY <1>2, Widths DEF Threads
<1>4. results[i + 1].size = ItemSize
  BY <1>3 DEF AllItems
<1>5. /\ offset \in Nat /\ HeaderAt(offset) = ItemSize
      /\ offset + HeaderSize + ItemSize <= packetSize
      /\ packetSize \in Nat /\ packetSize <= SizeMax
  BY <1>1, <1>2, <1>3, <1>4, OwnPacket
<1>6. /\ packetSize - offset \in Sizes /\ packetSize - offset >= HeaderSize
      /\ packetSize - (offset + HeaderSize) \in Sizes
      /\ packetSize - (offset + HeaderSize) >= ItemSize
  BY <1>5, Widths DEF Sizes
<1>7. ~NoRoomFor(HeaderSize, offset) /\ ~NoRoomFor(ItemSize, offset + HeaderSize)
  BY <1>6, SmallNumbersStay, Widths DEF NoRoomFor, Sizes
<1>. QED BY <1>5, <1>7 DEF HeaderIsThere, IsItem

(* Only a result of another size is a reason to reject such a packet.      *)
LEMMA RejectKeepsRead ==
    PackInv /\ WalkInv /\ ReadInv /\ (Reject \/ RejectItem) => ReadInv'
<1>. SUFFICES ASSUME PackInv, WalkInv, ReadInv, Reject \/ RejectItem, results # <<>>, AllItems
              PROVE  FALSE
  BY DEF ReadInv, Reject, RejectItem, AllItems
<1>1. CASE RejectItem
  <2>1. HeadersAt(offset) = {HeaderAt(offset)}
    BY <1>1, HeaderIsInside DEF RejectItem
  <2>. QED BY <1>1, <2>1, NextResultIsItem DEF RejectItem
<1>2. CASE Reject
  <2>1. pc \in Packed
    BY <1>2 DEF Reject, Reading, Packed, Unpacking
  <2>2. ~(pc = "sent" /\ packetSize < HeaderSize)
    BY <2>1, OwnPacket, Widths
  <2>3. CASE Reading /\ ~HeaderIsThere
    BY <2>3, NextResultIsItem
  <2>4. CASE pc = "read" /\ i = count /\ offset # packetSize
    BY <2>1, <2>4, OwnPacket DEF WalkInv, ReadInv
  <2>. QED BY <1>2, <2>2, <2>3, <2>4 DEF Reject
<1>. QED BY <1>1, <1>2

(* What has been added are the items read so far, after every turn.        *)
LEMMA StepKeepsReadInv == PackInv /\ WalkInv /\ ReadInv /\ [Next]_vars => ReadInv'
<1>. SUFFICES ASSUME PackInv, WalkInv, ReadInv, [Next]_vars PROVE ReadInv'
  OBVIOUS
<1>1. CASE Measure
  BY <1>1 DEF ReadInv, Measure
<1>2. CASE Refuse
  BY <1>2 DEF ReadInv, Refuse
<1>3. CASE Allocate
  BY <1>3 DEF ReadInv, Allocate
<1>4. CASE WriteResult
  BY <1>4 DEF ReadInv, WriteResult
<1>5. CASE PacketDone
  BY <1>5 DEF ReadInv, PacketDone
<1>6. CASE ReadCount
  <2>. SUFFICES ASSUME results # <<>> PROVE ReadInv'
    BY <1>6 DEF ReadInv, ReadCount
  <2>1. EndOf(0) = HeaderSize
    BY <1>6, OwnPacket DEF ReadCount, Packed
  <2>2. EndOf(i)' = EndOf(0)
    BY <1>6 DEF ReadCount, EndOf, Spaces
  <2>. QED BY <1>6, <2>1, <2>2 DEF ReadInv, ReadCount
<1>7. CASE AddItem
  BY <1>7, AddItemKeepsRead
<1>8. CASE Reject \/ RejectItem
  BY <1>8, RejectKeepsRead
<1>9. CASE Added
  BY <1>9 DEF ReadInv, Added, EndOf, Spaces, ItemAt
<1>10. CASE UNCHANGED vars
  BY <1>10 DEF ReadInv, vars, EndOf, Spaces, ItemAt, AllItems
<1>. QED BY <1>1, <1>2, <1>3, <1>4, <1>5, <1>6, <1>7, <1>8, <1>9, <1>10 DEF Next

(***************************************************************************)
(* The inductive invariant of packing and unpacking.                       *)
(***************************************************************************)
LEMMA CodecInvHolds == Spec => []CodecInv
<1>1. Init => ReadInv
  BY DEF Init, ReadInv
<1>2. ReadInv /\ PackInv /\ WalkInv /\ [Next]_vars => ReadInv'
  BY StepKeepsReadInv
<1>3. CodecInv <=> PackInv /\ WalkInv /\ ReadInv
  BY DEF CodecInv
<1>. QED BY <1>1, <1>2, <1>3, WalkInvHolds, PTL DEF Spec

(***************************************************************************)
(* What AddPackedResults makes of a packet of PackThreadResults: it adds   *)
(* up the results of the threads if they are items, and rejects them if    *)
(* one is not.                                                             *)
(***************************************************************************)
THEOREM UnpackingInvertsPacking == Spec => []UnpackInvertsPack
<1>1. ASSUME CodecInv, results # <<>>, pc = "added"
      PROVE  AllItems /\ total = SumsOf(FirstValues, Count)[Count]
  <2>1. /\ i = count /\ count = HeaderAt(0) /\ total = SumsOf(ItemValues, count)[i]
        /\ \A k \in 1 .. i : results[k].size = ItemSize /\ ItemAt(k) = EndOf(k - 1)
        /\ pc \in Packed
    BY <1>1 DEF CodecInv, WalkInv, ReadInv, Packed, Unpacking
  <2>2. count = Count
    BY <1>1, <2>1, OwnPacket DEF CodecInv
  <2>3. ASSUME NEW k \in 1 .. Count
        PROVE  ItemValue(ItemAt(k) + HeaderSize) = results[k].data[1]
    <3>1. results[k].size = ItemSize /\ ItemAt(k) = EndOf(k - 1) /\ 1 \in 1 .. ItemSize
      BY <2>1, <2>2, Widths
    <3>2. ByteAt(EndOf(k - 1) + HeaderSize + 1) = results[k].data[1]
      BY <1>1, <2>1, <3>1, OwnPacket DEF CodecInv
    <3>. QED BY <3>1, <3>2 DEF ItemValue
  <2>4. ItemValues = FirstValues
    BY <2>2, <2>3 DEF ItemValues, FirstValues, Threads
  <2>. QED BY <2>1, <2>2, <2>4 DEF AllItems, Threads
<1>2. CodecInv => UnpackInvertsPack
  BY <1>1 DEF CodecInv, ReadInv, UnpackInvertsPack
<1>. QED BY <1>2, CodecInvHolds, PTL
=============================================================================
