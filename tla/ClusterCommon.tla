--------------------------- MODULE ClusterCommon ---------------------------
(***************************************************************************)
(* What master and worker share (include/common.h): the eight-byte size    *)
(* header that precedes every packet, and the rule that cuts the caller's  *)
(* buffer into one task per worker.  Bytes are numbers in base ByteBase    *)
(* (256 in the code) and a header has HeaderSize of them (8 in the code);  *)
(* both are parameters, so that small instances still have headers that    *)
(* arrive in pieces and sizes that do not fit.                             *)
(***************************************************************************)
EXTENDS Integers, Sequences

CONSTANTS ByteBase,    \* number of values of a byte
          HeaderSize,  \* ClusterSizeHeaderSize
          SizeMax      \* SIZE_MAX, the largest size_t

Byte   == 0 .. ByteBase - 1
Sizes  == 0 .. SizeMax
Uninit == ByteBase                 \* a byte of malloc'ed memory nobody wrote

(* ClusterPacket: bytes whose number is a size_t. *)
Packets == UNION {[1 .. n -> Byte] : n \in Sizes}

(***************************************************************************)
(* The header is big-endian: the loop stores value & 0xff from the last    *)
(* position to the first, shifting value right by one byte each time.      *)
(***************************************************************************)
Shifted(value) ==
    LET shift[i \in 0 .. HeaderSize] == IF i = 0 THEN value ELSE shift[i - 1] \div ByteBase
    IN  shift

ClusterEncodeSize(value) ==
    LET shift == Shifted(value)
    IN  [k \in 1 .. HeaderSize |-> shift[HeaderSize - k] % ByteBase]

ClusterDecodeSize(buffer) ==
    LET value[i \in 0 .. HeaderSize] ==
            IF i = 0 THEN 0 ELSE value[i - 1] * ByteBase + buffer[i]
    IN  value[HeaderSize]

(***************************************************************************)
(* Where part number `index' of `parts' begins.  The second term spreads   *)
(* the remainder over the parts.                                           *)
(***************************************************************************)
SplitWithoutExtra(size, index, parts) == (size \div parts) * index  \* mistake

SplitPoint(size, index, parts) ==
    (size \div parts) * index + ((size % parts) * index) \div parts

(***************************************************************************)
(* The width assumption on the constants: a header has room for a size_t,  *)
(* that is, nothing is left of the largest one after as many shifts.       *)
(***************************************************************************)
ASSUME CodecAssumption ==
    /\ ByteBase \in Nat \ {0, 1}
    /\ HeaderSize \in Nat \ {0}
    /\ SizeMax \in Nat
    /\ Shifted(SizeMax)[HeaderSize] = 0

(* The smaller of two numbers. *)
Least(a, b) == IF a <= b THEN a ELSE b

(***************************************************************************)
(* The first n elements of a sequence, and what is left without them.      *)
(***************************************************************************)
FirstBytes(s, n) == SubSeq(s, 1, n)
RestBytes(s, n)  == SubSeq(s, n + 1, Len(s))
=============================================================================
