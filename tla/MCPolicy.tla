------------------------------- MODULE MCPolicy -------------------------------
(***************************************************************************)
(* TLC instances of Policy: four mutators in three groups, patterns that   *)
(* name one, some, all and none of them, and a malformed one.              *)
(***************************************************************************)
EXTENDS Policy

Group(words) == [words |-> words, star |-> TRUE]
Name(words) == [words |-> words, star |-> FALSE]
Bad == Name(<<"Branch", "">>)

MCKnown == {<<"branch", "if">>, <<"branch", "else">>, <<"loop", "break">>, <<"number">>}
MCPatterns == {Group(<<>>), Group(<<"branch">>), Name(<<"branch", "if">>),
               Group(<<"number">>), Bad}
MCMalformed == {Bad}
MCFiles == [minimum : {60, 200, NoScore},
            enable : {{}, {Group(<<"branch">>)}},
            disable : {{}, {Name(<<"branch", "if">>)}}]
=============================================================================
