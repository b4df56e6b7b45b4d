----------------------------- MODULE MCRunSession -----------------------------
(***************************************************************************)
(* TLC instances of RunSession: two threads that start a run each, with    *)
(* the controls that lead through different stages.                        *)
(***************************************************************************)
EXTENDS RunSession

Plain == [cargo |-> TRUE, coefficient |-> FALSE, git |-> FALSE, dry |-> FALSE,
          noExec |-> FALSE, coverage |-> FALSE]

MCModes == {
    Plain,
    [Plain EXCEPT !.git = TRUE, !.coverage = TRUE],
    [Plain EXCEPT !.dry = TRUE],
    [Plain EXCEPT !.cargo = FALSE, !.coverage = TRUE],
    [Plain EXCEPT !.cargo = FALSE, !.coefficient = TRUE],
    [Plain EXCEPT !.noExec = TRUE]}
=============================================================================
