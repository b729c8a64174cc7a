-------------------------- MODULE MCDeadlineTimer --------------------------
(***************************************************************************)
(* Three uses of a timer.  The limits are none at all, less than a second  *)
(* (which has 3 ms here), and more.                                        *)
(***************************************************************************)
EXTENDS DeadlineTimer

SomeTimeouts == {-1, 0, 2, 4}
AllFaults    == {"sigaction", "setitimer"}
=============================================================================
