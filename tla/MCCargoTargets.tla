---------------------------- MODULE MCCargoTargets ----------------------------
(***************************************************************************)
(* TLC instances of CargoTargets: a home, two directories and a file the   *)
(* others may include, with single targets, arrays, and includes that are  *)
(* shared, missing, optional or lead back.                                 *)
(***************************************************************************)
EXTENDS CargoTargets

One(t) == [many |-> FALSE, of |-> <<t>>]
Many(l) == [many |-> TRUE, of |-> l]
To(f) == [to |-> f, optional |-> FALSE, toml |-> TRUE]
Opt(f) == [to |-> f, optional |-> TRUE, toml |-> TRUE]
File(includes, t) == [includes |-> includes, target |-> t, readable |-> TRUE]

CargoFiles == {"home", "above", "own", "shared"}

Incs == {<<>>, <<To("shared")>>, <<To("own")>>, <<To("gone")>>,
         <<Opt("gone"), To("shared")>>, <<To("above"), To("shared")>>,
         <<[To("shared") EXCEPT !.toml = FALSE]>>}

Ts == {NoTarget, One("t1"), One("t2"), Many(<<"t1">>), Many(<<>>)}

\* Every way two configurations and a shared file include each other.
Included ==
    {[files |-> [f \in CargoFiles |->
                    CASE f = "home"   -> File(<<>>, t1)
                      [] f = "above"  -> File(i1, t2)
                      [] f = "own"    -> File(i2, t3)
                      [] f = "shared" -> File(i3, t4)],
      directories |-> <<"home", NoConfiguration, "above", "own">>,
      environment |-> NoTarget, known |-> {"t1", "t3"}] :
        t1 \in {NoTarget, One("t3")}, t2 \in Ts, t3 \in Ts,
        t4 \in {NoTarget, One("t1"), Many(<<"t3">>)},
        i1 \in Incs, i2 \in Incs, i3 \in {<<>>, <<To("above")>>}}

\* One configuration, a target in the environment, and an include that may
\* not be readable.
Surrounded ==
    {[files |-> [f \in CargoFiles |->
                    [File(IF f = "own" THEN <<To("shared")>> ELSE <<>>, t)
                        EXCEPT !.readable = (f # "shared" \/ readable)]],
      directories |-> <<NoConfiguration, "own">>,
      environment |-> One("t1"), known |-> {"t1"}] :
        t \in {NoTarget, One("t3")}, readable \in BOOLEAN}

MCCargoTrees == Included \cup Surrounded
=============================================================================
