---------------------------- MODULE MCMutationPlan ----------------------------
(***************************************************************************)
(* TLC instances of MutationPlan: two mutators, two ranges on two lines    *)
(* and two replacements, where equal replacements change equal lines.  The *)
(* scope excludes at most one thing of each kind.                          *)
(***************************************************************************)
EXTENDS MutationPlan

OneSource == <<"lib">>
TwoSources == <<"a/lib", "b/lib">>
TwoMutators == <<"bool", "remove">>
MCLineOf == [sr \in Sources \X Ranges |-> sr[2]]
MCChangeOf == [m \in Mutation |-> m.text]
AllViable == Mutation

OwnPath == [s \in Sources |-> s]
SamePath == [s \in Sources |-> "lib"]

AtMostOne(S) == {{}} \cup {{x} : x \in S}

\* The ranges differ only by name, and so do the replacements: where one is
\* excluded by its line or by the blacklist, it is 1 or "p".
MCInit ==
    \E D \in AtMostOne(Names \X Sources \X Ranges),
       C \in {(Sources \X Lines) \ X : X \in AtMostOne(Sources \X {1})},
       B \in AtMostOne({c \in Checksum : c.change = "p"}) : InitWith(D, C, B)

\* No scope: every viable mutation is a candidate.
PlainSpec == InitWith({}, Sources \X Lines, {}) /\ [][Next]_vars
=============================================================================
