---------------------------- MODULE PacketCodec ----------------------------
(***************************************************************************)
(* The way of the results from the threads of a worker to the sum of the   *)
(* master, turn by turn of the loops: PackThreadResults of src/worker.c    *)
(* writes them into one packet, and AddPackedResults of                    *)
(* examples/integral_master.c walks over it.  Sizes are size_t, that is,   *)
(* numbers modulo SizeMax + 1.                                             *)
(***************************************************************************)
EXTENDS ClusterCommon

CONSTANTS Count,      \* worker->resources.threads
          ItemSize,   \* sizeof(IntegralResult)
          Results,    \* what methods return: records, or NULL
          Foreign,    \* packets of workers that pack otherwise
          NULL,
          Faults      \* "alloc": malloc fails

(* A result has as many bytes as it says, or no data at all. *)
ASSUME CodecResultsAssumption ==
    /\ Count \in Sizes \ {0} /\ ItemSize \in Sizes \ {0} /\ HeaderSize \in Sizes
    /\ \A r \in Results \ {NULL} :
          r.size \in Sizes /\ (r.data = NULL \/ r.data \in [1 .. r.size -> Byte])
    /\ \A f \in Foreign : f \in Seq(Byte) /\ Len(f) \in Sizes

VARIABLES pc,
          results,     \* args[k].result, or nothing when the packet is foreign
          i,           \* the index of the loop under way
          packetSize,  \* of PackThreadResults, then packet->size
          offset,      \* in the packet, of the bytes written or read so far
          bytes,       \* the packet: a byte or Uninit at each place
          count,       \* the number of results AddPackedResults expects
          total,       \* result->value, in units of its representation
          readEnd      \* where its last read ended (a history variable)

vars == <<pc, results, i, packetSize, offset, bytes, count, total, readEnd>>

Unpacking == {"read", "added", "rejected"}

Init ==
    /\ i = 0 /\ offset = 0 /\ count = 0 /\ total = 0 /\ readEnd = 0
    /\ \/ pc = "measure" /\ results \in [1 .. Count -> Results]
          /\ packetSize = HeaderSize /\ bytes = <<>>
       \/ pc = "sent" /\ results = <<>>
          /\ bytes \in Foreign /\ packetSize = Len(bytes)

Result == results[i + 1]
-----------------------------------------------------------------------------
(***************************************************************************)
(* PackThreadResults: the first loop adds up the sizes.                    *)
(***************************************************************************)
Wrapped(n) == n % (SizeMax + 1)

AlwaysFits(sum, value) == TRUE                 \* mistake
FitsBelow(sum, value) == SizeMax - sum > value  \* mistake

(* AddSize succeeds. *)
Fits(sum, value) == SizeMax - sum >= value

Invalid(r) == IF r = NULL THEN TRUE ELSE r.data = NULL /\ r.size > 0

ItemFits ==
    /\ Fits(packetSize, HeaderSize)
    /\ Fits(Wrapped(packetSize + HeaderSize), Result.size)

Measure ==
    /\ pc = "measure" /\ i < Count
    /\ ~Invalid(Result) /\ ItemFits
    /\ packetSize' = Wrapped(packetSize + HeaderSize + Result.size)
    /\ i' = i + 1
    /\ UNCHANGED <<pc, results, offset, bytes, count, total, readEnd>>

Refuse ==
    /\ pc = "measure"
    /\ IF i < Count
       THEN IF Invalid(Result) THEN TRUE ELSE ~ItemFits
       ELSE "alloc" \in Faults
    /\ pc' = "refused"
    /\ UNCHANGED <<results, i, packetSize, offset, bytes, count, total, readEnd>>

(***************************************************************************)
(* The buffer is allocated, and its first bytes count the results.         *)
(***************************************************************************)
Written(at, part) ==
    [k \in DOMAIN bytes |-> IF k \in at + 1 .. at + Len(part) THEN part[k - at] ELSE bytes[k]]

Allocate ==
    /\ pc = "measure" /\ i = Count
    /\ bytes' = [k \in 1 .. packetSize |->
                    IF k <= HeaderSize THEN ClusterEncodeSize(Count)[k] ELSE Uninit]
    /\ offset' = HeaderSize
    /\ i' = 0
    /\ pc' = "write"
    /\ UNCHANGED <<results, packetSize, count, total, readEnd>>

Part(r) == ClusterEncodeSize(r.size) \o (IF r.size > 0 THEN r.data ELSE <<>>)

WriteDataOnly ==  \* mistake
    /\ pc = "write" /\ i < Count
    /\ bytes' = Written(offset + HeaderSize, SubSeq(Part(Result), HeaderSize + 1, Len(Part(Result))))
    /\ offset' = Wrapped(offset + HeaderSize + Result.size)
    /\ i' = i + 1
    /\ UNCHANGED <<pc, results, packetSize, count, total, readEnd>>

WriteResult ==
    /\ pc = "write" /\ i < Count
    /\ bytes' = Written(offset, Part(Result))
    /\ offset' = Wrapped(offset + HeaderSize + Result.size)
    /\ i' = i + 1
    /\ UNCHANGED <<pc, results, packetSize, count, total, readEnd>>
-----------------------------------------------------------------------------
PacketDone ==
    /\ pc = "write" /\ i = Count
    /\ pc' = "sent"
    /\ UNCHANGED <<results, i, packetSize, offset, bytes, count, total, readEnd>>
-----------------------------------------------------------------------------
(***************************************************************************)
(* AddPackedResults, on a packet that has come in.  What a read behind the *)
(* end of the packet returns can be anything.                              *)
(***************************************************************************)
ByteAt(k) == IF k \in DOMAIN bytes THEN bytes[k] ELSE Uninit
HeaderAt(at) == ClusterDecodeSize([k \in 1 .. HeaderSize |-> ByteAt(at + k)])

HeadersAt(at) == IF at + HeaderSize <= packetSize THEN {HeaderAt(at)} ELSE Sizes

(* A double is worth what its first byte says here. *)
ItemValue(at) == ByteAt(at + 1)

ValuesAt(at) == IF at + ItemSize <= packetSize THEN {ItemValue(at)} ELSE Byte

ReadCount ==
    /\ pc = "sent" /\ packetSize >= HeaderSize
    /\ count' \in HeadersAt(0)
    /\ offset' = HeaderSize /\ readEnd' = HeaderSize
    /\ i' = 0
    /\ pc' = "read"
    /\ UNCHANGED <<results, packetSize, bytes, total>>

NoRoomFor(size, at) == Wrapped(packetSize - at) < size

HeaderAlwaysThere == TRUE  \* mistake

HeaderIsThere == ~NoRoomFor(HeaderSize, offset)

AnyItem(size) == ~NoRoomFor(ItemSize, offset + HeaderSize)  \* mistake

IsItem(size) == size = ItemSize /\ ~NoRoomFor(ItemSize, offset + HeaderSize)

Reading == pc = "read" /\ i < count

AddItem ==
    /\ Reading /\ HeaderIsThere
    /\ \E size \in HeadersAt(offset) : IsItem(size)
    /\ \E value \in ValuesAt(offset + HeaderSize) : total' = total + value
    /\ offset' = offset + HeaderSize + ItemSize
    /\ readEnd' = offset + HeaderSize + ItemSize
    /\ i' = i + 1
    /\ UNCHANGED <<pc, results, packetSize, bytes, count>>

(* The header is read, but what it says is no item, or no item fits.       *)
RejectItem ==
    /\ Reading /\ HeaderIsThere
    /\ \E size \in HeadersAt(offset) : ~IsItem(size)
    /\ pc' = "rejected"
    /\ offset' = offset + HeaderSize /\ readEnd' = offset + HeaderSize
    /\ UNCHANGED <<results, i, packetSize, bytes, count, total>>

(* No count, no header, or bytes left over. *)
Reject ==
    /\ \/ pc = "sent" /\ packetSize < HeaderSize
       \/ Reading /\ ~HeaderIsThere
       \/ pc = "read" /\ i = count /\ offset # packetSize
    /\ pc' = "rejected"
    /\ UNCHANGED <<results, i, packetSize, offset, bytes, count, total, readEnd>>

AddedAnyway ==  \* mistake
    /\ pc = "read" /\ i = count
    /\ pc' = "added"
    /\ UNCHANGED <<results, i, packetSize, offset, bytes, count, total, readEnd>>

Added ==
    /\ pc = "read" /\ i = count
    /\ offset = packetSize
    /\ pc' = "added"
    /\ UNCHANGED <<results, i, packetSize, offset, bytes, count, total, readEnd>>
-----------------------------------------------------------------------------
Next ==
    \/ Measure \/ Refuse \/ Allocate \/ WriteResult \/ PacketDone
    \/ ReadCount \/ AddItem \/ RejectItem \/ Reject \/ Added

Spec == Init /\ [][Next]_vars
-----------------------------------------------------------------------------
(***************************************************************************)
(* Where things are in a packet.                                           *)
(***************************************************************************)
Threads == 1 .. Count

(* The sums of the first k terms, for k up to n. *)
SumsOf(terms, n) ==
    LET sum[k \in 0 .. n] == IF k = 0 THEN 0 ELSE sum[k - 1] + terms[k]
    IN  sum

Space(r) == HeaderSize + (IF Invalid(r) THEN 0 ELSE r.size)
Spaces   == [k \in Threads |-> Space(results[k])]

(* The end of the k-th result and the true size, which may not be a size_t. *)
EndOf(k) == HeaderSize + SumsOf(Spaces, Count)[k]
TrueSize == EndOf(Count)

(* The begin of the k-th part of a packet whose parts are items. *)
ItemAt(k)  == HeaderSize + (k - 1) * (HeaderSize + ItemSize)
ItemValues == [k \in 1 .. count |-> ItemValue(ItemAt(k) + HeaderSize)]
-----------------------------------------------------------------------------
(***************************************************************************)
(* Properties.                                                             *)
(***************************************************************************)
(* memcpy and ClusterEncodeSize write inside the buffer that was allocated *)
(* for them, also for results whose sizes add up beyond a size_t.          *)
WritesStayInside ==
    pc = "write" =>
        /\ offset <= packetSize
        /\ i < Count => offset + HeaderSize + Result.size <= packetSize

(* A packet of PackThreadResults is written in full: no byte of memory     *)
(* that nobody wrote leaves the worker.                                    *)
PacketIsFull == pc = "sent" => \A k \in 1 .. packetSize : bytes[k] \in Byte

(* Results are refused only when one is invalid or they do not fit.        *)
RefusalHasCause ==
    pc = "refused" =>
        "alloc" \in Faults \/ (\E k \in Threads : Invalid(results[k])) \/ TrueSize > SizeMax

(* Whatever packet comes in, the master reads nothing behind its end,      *)
(* where what is left of it would wrap around to a huge size: also not in  *)
(* a packet that it then rejects.                                          *)
ReadsStayInside == pc \in Unpacking => readEnd <= packetSize

(* Whatever packet comes in, the master accepts it only if it is a count,  *)
(* that many items and nothing more, and has then added each item once.    *)
OnlyItemsAreAdded ==
    pc = "added" =>
        /\ packetSize = HeaderSize + count * (HeaderSize + ItemSize)
        /\ \A k \in 1 .. count : HeaderAt(ItemAt(k)) = ItemSize
        /\ total = SumsOf(ItemValues, count)[count]

(* The master accepts what the threads of a worker made exactly when all   *)
(* of it are items, and the sum is that of the threads' results.           *)
AllItems    == \A k \in Threads : results[k].size = ItemSize
FirstValues == [k \in Threads |-> results[k].data[1]]
UnpackInvertsPack ==
    results # <<>> =>
        /\ pc = "added" => AllItems /\ total = SumsOf(FirstValues, Count)[Count]
        /\ pc = "rejected" => ~AllItems
-----------------------------------------------------------------------------
(***************************************************************************)
(* The inductive invariant, in three layers.  First, PackThreadResults:    *)
(* packetSize and offset are ends of results, and what lies below offset   *)
(* are the parts of the results before.                                    *)
(***************************************************************************)
Packing == {"measure", "write", "refused"}
Packed  == {"sent"} \cup Unpacking

IsWritten(k) ==
    /\ HeaderAt(EndOf(k - 1)) = results[k].size
    /\ \A j \in 1 .. results[k].size : bytes[EndOf(k - 1) + HeaderSize + j] = results[k].data[j]

PackInv ==
    /\ pc \in Packing \cup Packed
    /\ results = <<>> \/ results \in [Threads -> Results]
    /\ pc \in Packing => results # <<>> /\ i \in 0 .. Count
    /\ pc = "measure" =>
          /\ packetSize = EndOf(i) /\ packetSize <= SizeMax
          /\ \A k \in 1 .. i : ~Invalid(results[k])
    /\ RefusalHasCause
    /\ pc = "write" =>
          /\ offset = EndOf(i)
          /\ bytes \in [1 .. packetSize -> 0 .. ByteBase]
          /\ \A k \in 1 .. offset : bytes[k] \in Byte
          /\ \A k \in 1 .. i : IsWritten(k)
    /\ pc \in Packed =>
          /\ packetSize \in Sizes /\ bytes \in [1 .. packetSize -> Byte]
          /\ results # <<>> => \A k \in Threads : IsWritten(k)
    /\ pc \in {"write"} \cup Packed /\ results # <<>> =>
          /\ packetSize = TrueSize /\ packetSize <= SizeMax
          /\ HeaderAt(0) = Count
          /\ \A k \in Threads : ~Invalid(results[k])

(* Then the walk of AddPackedResults over a packet from anywhere. *)
WalkInv ==
    /\ pc \in {"measure", "write", "sent"} => total = 0
    /\ pc = "sent" => packetSize >= HeaderSize \/ offset = 0
    /\ pc \in Packing \cup {"sent"} => readEnd = 0
    /\ pc \in Unpacking => offset \in 0 .. packetSize /\ readEnd = offset
    /\ pc \in {"read", "added"} =>
          /\ count = HeaderAt(0) /\ i \in 0 .. count
          /\ offset = ItemAt(i + 1)
          /\ \A k \in 1 .. i : HeaderAt(ItemAt(k)) = ItemSize
          /\ total = SumsOf(ItemValues, count)[i]
    /\ pc = "added" => i = count /\ offset = packetSize

(* Last, its walk over a packet of PackThreadResults. *)
ReadInv ==
    results # <<>> =>
        /\ pc \in {"read", "added"} =>
              /\ offset = EndOf(i)
              /\ \A k \in 1 .. i : results[k].size = ItemSize /\ ItemAt(k) = EndOf(k - 1)
        /\ pc = "rejected" => ~AllItems

CodecInv == PackInv /\ WalkInv /\ ReadInv
=============================================================================
