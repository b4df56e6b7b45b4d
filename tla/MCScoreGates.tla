----------------------------- MODULE MCScoreGates -----------------------------
(***************************************************************************)
(* TLC instances of ScoreGates.  With 13 significant bits a quotient that  *)
(* equals a whole percentage rounds as it does with the 53 of f64: the     *)
(* powers of two from 2^2 on repeat modulo 100 with period 20.             *)
(***************************************************************************)
EXTENDS ScoreGates

Percentages == {0, 58, 100, NoMinimum}
Fifty == {58, NoMinimum}
=============================================================================
