--------------------------- MODULE MCPacketCodec ---------------------------
(***************************************************************************)
(* Bytes in base four, headers of two bytes, sizes up to 15.  Results are  *)
(* items of two bytes, empty, too short, too long, or long enough to make  *)
(* three of them overflow; or there is none, or one without its data.      *)
(***************************************************************************)
EXTENDS PacketCodec

Some == {[size |-> 2, data |-> <<1, 0>>], [size |-> 2, data |-> <<3, 2>>],
         [size |-> 0, data |-> NULL], [size |-> 0, data |-> <<>>],
         [size |-> 1, data |-> <<2>>], [size |-> 3, data |-> <<0, 2, 1>>],
         [size |-> 9, data |-> <<2, 2, 2, 2, 2, 2, 2, 2, 2>>],
         [size |-> 13, data |-> [k \in 1 .. 13 |-> k % 4]],
         [size |-> 3, data |-> NULL], NULL}

NoFaults == {}

(* Every packet of at most six bytes, with the values that matter: 1 for a *)
(* count, 2 for the size of an item, 0 for the upper bytes of both.        *)
ShortPackets == UNION {[1 .. n -> 0 .. 2] : n \in 0 .. 6}
=============================================================================
