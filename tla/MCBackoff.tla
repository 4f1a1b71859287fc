------------------------------ MODULE MCBackoff ------------------------------
(* Quarter seconds in 16 bits: 8192 s is the first delay that overflows.     *)
(* 8192 s wraps to a negative duration, 16384 s to zero, 16385 s to 1 s, and *)
(* 40000 s is no int at all.                                                 *)
EXTENDS Backoff

MCHeaders ==
    {[kind |-> "none", n |-> 0]}
    \cup [kind : {"seconds"}, n : {0, 1, 90, 601, 8192, 16384, 16385, 40000}]
    \cup [kind : {"date"}, n : {0, 300, 900}]
MCSteps == {30, 300}
=============================================================================
