----------------------------- MODULE ClusterTime -----------------------------
(***************************************************************************)
(* Milliseconds as the system calls take them: struct timeval and struct   *)
(* timespec count whole seconds and a rest.  A second has Second           *)
(* milliseconds here (1000 in the code); the rest is kept in milliseconds, *)
(* for the factors 1000 and 1000000 of the code only rescale it.           *)
(***************************************************************************)
EXTENDS Integers

CONSTANT Second

ASSUME SecondAssumption == Second \in Nat \ {0, 1}

WholeSeconds(ms) == [sec |-> ms \div Second, rest |-> 0]  \* mistake

Timeval(ms) == [sec |-> ms \div Second, rest |-> ms % Second]

(* How long the kernel waits for such a value. *)
Duration(tv) == tv.sec * Second + tv.rest

SocketTimeoutUncapped(maxTime) == IF maxTime <= 0 THEN Second ELSE maxTime  \* mistake

(* SO_RCVTIMEO and SO_SNDTIMEO of a socket: at most one second, and never  *)
(* zero, which would mean to wait for ever.                                *)
SocketTimeoutMs(maxTime) ==
    IF maxTime <= 0 THEN Second
    ELSE IF maxTime < Second THEN maxTime ELSE Second
=============================================================================
