---------------------------- MODULE MCWorkspaceCopy ----------------------------
(***************************************************************************)
(* TLC instances of WorkspaceCopy: a package with a member, dependencies   *)
(* elsewhere that lead back, a patch, a target file and a runner outside,  *)
(* configurations above the root, in Cargo's home and included, and paths  *)
(* that name the workspace and its members.  In OddWorlds paths lead to    *)
(* where the code needs a rule of its own.                                 *)
(***************************************************************************)
EXTENDS WorkspaceCopy

Ref(kind, to, absolute) == [kind |-> kind, to |-> to, absolute |-> absolute, optional |-> FALSE]
Maybe(to, absolute) == [kind |-> "include", to |-> to, absolute |-> absolute, optional |-> TRUE]

A == <<"w", "a">>
B == <<"w", "a", "b">>
C == <<"x", "c">>
D == <<"x", "c", "d">>
E == <<"e">>
F == <<"f">>
G == <<"g">>
ConfigOf(d) == d \o <<".cargo", "config.toml">>
\* Package a with member b; c and its dependency d elsewhere; e reached by a
\* patch, and f through it; d names g as its workspace.
WorldOf(abs, depC, depD, patchE, include, runner, build, home) ==
    [root |-> A, source |-> A \o <<"src", "lib.rs">>,
     files |-> {Manifest(p) : p \in {A, B, C, D, E, F, G}}
               \cup {A \o <<"src", "lib.rs">>, B \o <<"src", "lib.rs">>, C \o <<"src", "lib.rs">>,
                     D \o <<"src", "lib.rs">>, F \o <<"src", "lib.rs">>, E \o <<"src", "lib.rs">>,
                     A \o <<".git", "HEAD">>, C \o <<"target", "old">>, A \o <<"target", "old">>,
                     <<"t", "test.rs">>, <<"t", "util.rs">>, <<"w", "tools", "run">>,
                     A \o <<".cargo", "run">>,
                     ConfigOf(A), ConfigOf(<<"w">>), <<"w", ".cargo", "more.toml">>}
               \cup (IF home THEN {<<"h", ".cargo", "config">>, <<"h", ".cargo", "config.toml">>} ELSE {}),
     members |-> [p \in {A, B, C, D, E, F, G} |-> IF p \in {A, B} THEN {A, B} ELSE {p}],
     buildOf |-> [p \in {A, B, C, D, E, F, G} |-> IF p \in {A, B} THEN A \o <<build>>
                                          ELSE p \o <<"target">>],
     home |-> IF home THEN <<"h", ".cargo">> ELSE <<>>,
     refs |-> [f \in {Manifest(A), Manifest(B), Manifest(C), Manifest(D), Manifest(E), Manifest(F),
                      ConfigOf(A), ConfigOf(<<"w">>), <<"w", ".cargo", "more.toml">>,
                      <<"h", ".cargo", "config">>} |->
        CASE f = Manifest(A) -> {Ref("dependency", B, FALSE), Ref(patchE, E, abs),
                                 Ref("workspace", B, abs),
                                 Ref("target", <<"t", "test.rs">>, abs)}
          [] f = Manifest(B) -> {Ref("dependency", depC, abs), Ref("workspace", A, FALSE)}
          [] f = Manifest(C) -> {Ref("dependency", depD, abs), Ref("dependency", A, FALSE)}
          [] f = Manifest(D) -> {Ref("workspace", G, FALSE)}
          [] f = Manifest(E) -> {Ref("dependency", F, abs)}
          [] f = ConfigOf(A) -> {Ref("program", runner, abs)}
          [] f = ConfigOf(<<"w">>) -> {include}
          [] f = <<"w", ".cargo", "more.toml">> ->
                {Ref("include", ConfigOf(<<"w">>), abs), Ref("path", C, abs)}
          [] f = <<"h", ".cargo", "config">> -> {Maybe(<<"h", "none.toml">>, abs)}
          [] OTHER -> {}]]

More == <<"w", ".cargo", "more.toml">>
None == <<"w", ".cargo", "none.toml">>
Tool == <<"w", "tools", "run">>

OrdinaryWorlds ==
    {WorldOf(abs, depC, depD, patchE, include, runner, build, home) :
        abs \in BOOLEAN, depC \in {C, <<"x", "gone">>}, depD \in {D, <<"x">>},
        patchE \in {"patch", "dependency", "metadata"},
        include \in {Ref("include", More, TRUE), Maybe(None, TRUE), Ref("include", None, FALSE)},
        runner \in {Tool, A \o <<"src", "run">>},
        build \in {"target", "out"}, home \in BOOLEAN}

\* Dependencies that share a directory, an include that is a directory, and a
\* runner in a directory that is left out.
OddWorlds ==
    {WorldOf(abs, depC, D, "patch", include, runner, "out", FALSE) :
        abs \in BOOLEAN, depC \in {C, D},
        include \in {Ref("include", More, TRUE), Maybe(<<"w", ".cargo">>, TRUE)},
        runner \in {Tool, A \o <<".cargo", "run">>}}

MCWorlds == OrdinaryWorlds \cup OddWorlds
=============================================================================
