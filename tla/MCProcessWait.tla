----------------------------- MODULE MCProcessWait -----------------------------
(***************************************************************************)
(* TLC instances of ProcessWait: a timeout that is not a sum of intervals, *)
(* so the last sleep is cut to the time that remains, and a clock that     *)
(* runs on beyond the deadline.                                            *)
(***************************************************************************)
EXTENDS ProcessWait
=============================================================================
