---------------------------- MODULE CfgConditions ----------------------------
(***************************************************************************)
(* The conditions of `#[cfg]` and `#[cfg_attr]` in src/discovery.rs: when  *)
(* they hold for a target of the compiler, and when they ask for a test    *)
(* build.  A condition is a record: "test", "feature" or "target" (a flag  *)
(* or a `key = "value"` of the compiler) with a name, or "all", "any" or   *)
(* "not" over a sequence of conditions.                                    *)
(***************************************************************************)
EXTENDS Sequences

CONSTANT KnownTargets   \* the flags and values the compiler always decides

\* configuration_is_active_for_target: a flag or value nobody knows counts as
\* set.
RECURSIVE IsActive(_, _, _, _)
IsActive(condition, test, features, settings) ==
    LET Part(i) == IsActive(condition.of[i], test, features, settings)
    IN  CASE condition.op = "test" -> test
          [] condition.op = "feature" -> condition.name \in features
          [] condition.op = "target" ->
                condition.name \in settings \/ condition.name \notin KnownTargets
          [] condition.op = "all" -> \A i \in DOMAIN condition.of : Part(i)
          [] condition.op = "any" -> \E i \in DOMAIN condition.of : Part(i)
          [] condition.op = "not" -> condition.of # <<>> /\ ~Part(1)

RECURSIVE CanBeFalse(_)

\* configuration_can_be_true_without_test and its dual: everything but `test`
\* may be true and may be false.
RECURSIVE CanBeTrue(_)
CanBeTrue(condition) ==
    CASE condition.op = "test" -> FALSE
      [] condition.op = "all" -> \A i \in DOMAIN condition.of : CanBeTrue(condition.of[i])
      [] condition.op = "any" -> \E i \in DOMAIN condition.of : CanBeTrue(condition.of[i])
      [] condition.op = "not" -> condition.of = <<>> \/ CanBeFalse(condition.of[1])
      [] OTHER -> TRUE

CanBeFalse(condition) ==
    CASE condition.op = "test" -> TRUE
      [] condition.op = "all" -> \E i \in DOMAIN condition.of : CanBeFalse(condition.of[i])
      [] condition.op = "any" -> \A i \in DOMAIN condition.of : CanBeFalse(condition.of[i])
      [] condition.op = "not" -> condition.of = <<>> \/ CanBeTrue(condition.of[1])
      [] OTHER -> TRUE

RequiresTest(condition) == ~CanBeTrue(condition)

\* The attributes of an item: the conditions of its `cfg` attributes, and
\* those each `cfg_attr` adds when its own condition holds.
HasTestCfg(gate) == \E i \in DOMAIN gate.cfg : RequiresTest(gate.cfg[i])

\* configuration_is_active_for_attributes.
GateIsOpen(gate, test, features, settings) ==
    /\ \A i \in DOMAIN gate.cfg : IsActive(gate.cfg[i], test, features, settings)
    /\ \A i \in DOMAIN gate.applied :
        IsActive(gate.applied[i].if, test, features, settings) =>
            IsActive(gate.applied[i].cfg, test, features, settings)
=============================================================================
