------------------------------- MODULE Doubles -------------------------------
(***************************************************************************)
(* Doubles that are not negative.  All of them are multiples of the        *)
(* smallest one, and here each is the number of times it has that in it;   *)
(* 1.0 is One of them.  The doubles of one binade lie Spacing apart, and a *)
(* result is the double nearest to the exact one, at a tie the one with an *)
(* even significand (IEEE 754, the default of C and of the hardware).      *)
(*                                                                         *)
(* In the program Full is 2^53, One is 2^1074, and Spacings are 1, 2, 4    *)
(* and so on to 2^2045.  Overflow to infinity is not modelled.             *)
(***************************************************************************)
EXTENDS Integers

CONSTANTS Spacings,  \* how far doubles may lie apart
          Full,      \* significands go up to, and not beyond, Full
          One        \* 1.0

ASSUME DoublesAssumption ==
    /\ Spacings \subseteq Nat \ {0} /\ 1 \in Spacings /\ One \in Spacings
    /\ \A u \in Spacings \ {1} : \E v \in Spacings : u = 2 * v
    /\ \A u, v \in Spacings : u < v => v % (2 * u) = 0
    /\ Full \in Nat \ {0} /\ Full % 2 = 0 /\ One >= 2 * Full

(* How far the doubles around n / d lie apart: the smallest ones lie as    *)
(* close together as doubles can.                                          *)
Spacing(n, d) ==
    CHOOSE u \in Spacings : n <= d * (u * Full) /\ (u = 1 \/ d * (u * Full) < 2 * n)

(* The double that stands for n / d.                                       *)
Rounded(n, d) ==
    LET spacing     == Spacing(n, d)
        step        == d * spacing
        significand == n \div step
        rest        == n % step
        down        == 2 * rest < step \/ (2 * rest = step /\ significand % 2 = 0)
    IN  spacing * IF down THEN significand ELSE significand + 1
=============================================================================
