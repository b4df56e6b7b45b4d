------------------------------ MODULE MCCommand ------------------------------
(***************************************************************************)
(* TLC instances of what surrounds a run in one command: the policy its    *)
(* arguments and configuration give, the gates on its scores, and the      *)
(* baseline it shares with the commands before and after it, for two       *)
(* mutants, so that a command can leave one out, and one report.  A        *)
(* behaviour takes one of them through its steps; the others rest.         *)
(***************************************************************************)
EXTENDS Invocation, MCScoreGates, MCPolicy

VARIABLE part   \* the component this behaviour is about

-----------------------------------------------------------------------------
\* The values at which a component rests.

GatesRest ==
    /\ count = [s \in States |-> 0]
    /\ hasCoverage = FALSE /\ ignoreNone = FALSE
    /\ minimum = NoMinimum /\ minimumCovered = NoMinimum
BaselineRests == escapes = {} /\ Init

CommandInit ==
    /\ PolicyInit
    /\ \/ part = "policy"   /\ GatesRest /\ BaselineRests
       \/ part = "gates"    /\ GatesInit /\ BaselineRests
       \/ part = "baseline" /\ GatesRest /\ Init

CommandNext ==
    /\ UNCHANGED part
    /\ \/ part = "policy"   /\ PolicyNext /\ UNCHANGED <<gateVars, vars>>
       \/ part = "gates"    /\ GatesNext  /\ UNCHANGED <<policyVars, vars>>
       \/ part = "baseline" /\ Next       /\ UNCHANGED <<policyVars, gateVars>>

=============================================================================
