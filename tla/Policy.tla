-------------------------------- MODULE Policy --------------------------------
(***************************************************************************)
(* From the arguments of a command to the policy of its run: parse_command *)
(* and its helpers, effective_configuration and configured_registry in     *)
(* src/main.rs, Configuration in src/configuration.rs, and the registry of *)
(* mutators in src/mutator.rs.  Arguments come one at a time; after the    *)
(* last one the combination is checked, the configuration file is read,    *)
(* the settings of the command are applied to it, and mutators are chosen. *)
(*                                                                         *)
(* A mutator's name is a sequence of words.  A pattern is a name, or words *)
(* and a star: [words, star].                                              *)
(***************************************************************************)
EXTENDS SequencesExt, FiniteSets

CONSTANTS
    Known,       \* the names of the mutators that Mutarust supplies
    Patterns,    \* the patterns given to --enable and --disable, and in files
    Malformed,   \* those of them that are no name and no group pattern
    Scores,      \* percentages, and numbers that are none
    Files,       \* configuration files: [minimum, enable, disable]
    NoScore,     \* no minimum score is set
    MaxOptions   \* bound on the different options and patterns of one command

VARIABLES
    step,        \* where the command stands
    begun,       \* an argument was read
    given,       \* the options read so far
    settings,    \* CommandSettings: [minimum, enable, disable]
    configuration,  \* the configuration file, as it was read
    policy,      \* the configuration in force
    registry     \* the mutators of the run

policyVars == <<step, begun, given, settings, configuration, policy, registry>>

NoFile == [minimum |-> NoScore, enable |-> {}, disable |-> {}]

\* Switches that may be repeated, and options that may be given once.
Repeatable == {"--dry-run", "--no-exec", "--do-not-remove-tmp-folder", "--test-recursive"}
Switches == Repeatable \cup {"--coverage", "--per-test", "--git-diff-lines", "--update-baseline",
                             "--fail-on-escaped", "--silent", "--no-silent"}

\* Options with a value; of these --timeout may be repeated and the last
\* value counts.  Every value is one argument, whatever it looks like.
Valued == {"--timeout", "--timeout-coefficient", "--workers", "--test-flags", "--exec",
           "--git-diff-base", "--run-mutant-id", "--config", "--match"}

\* The options that set the same thing: only one of them may be given.
Rivals(o) == IF o \in {"--silent", "--no-silent"} THEN {"--silent", "--no-silent"} ELSE {o}

IsTooMany(o) == o \notin Repeatable \cup {"--timeout"} /\ given \cap Rivals(o) # {}

PolicyInit ==
    /\ step = "arguments"
    /\ begun = FALSE
    /\ given = {}
    /\ settings = NoFile
    /\ configuration = NoFile
    /\ policy = NoFile
    /\ registry = {}

unread == <<configuration, policy, registry>>

\* Used by the bound on the options of a command.
Size == Cardinality(given) + Cardinality(settings.enable) + Cardinality(settings.disable)

Invalid == step' = "invalid" /\ UNCHANGED <<given, settings>>

\* parse_command: with no argument, or with the right one first, the command
\* is for help, the version or a list.
OtherCommand ==
    /\ step = "arguments"
    /\ ~begun
    /\ begun' = TRUE
    /\ step' = "other command"
    /\ UNCHANGED <<given, settings, unread>>

\* An argument that is no option of a run, or an option of a list.
UnknownArgument ==
    /\ step = "arguments"
    /\ begun' = TRUE
    /\ Invalid
    /\ UNCHANGED unread

ReadTarget ==
    /\ step = "arguments"
    /\ begun' = TRUE
    /\ UNCHANGED <<step, given, settings, unread>>

\* A switch, or an option whose value is right, wrong or not there.
ReadOption(o) ==
    /\ step = "arguments"
    /\ Size < MaxOptions
    /\ begun' = TRUE
    /\ IF IsTooMany(o)
       THEN Invalid
       ELSE \/ given' = given \cup {o} /\ UNCHANGED <<step, settings>>
            \/ o \in Valued /\ Invalid
    /\ UNCHANGED unread

\* set_score: the last value counts.
ReadScore(s) ==
    /\ step = "arguments"
    /\ begun' = TRUE
    /\ IF s > 100
       THEN Invalid
       ELSE settings' = [settings EXCEPT !.minimum = s] /\ UNCHANGED <<step, given>>
    /\ UNCHANGED unread

\* add_enabled, and the --disable of parse_policy_value_option: a pattern is
\* looked at later.
ReadPattern(list, p) ==
    /\ step = "arguments"
    /\ Size < MaxOptions
    /\ begun' = TRUE
    /\ settings' = [settings EXCEPT ![list] = @ \cup {p}]
    /\ UNCHANGED <<step, given, unread>>

\* The rows of run_mode_error, dry_run_control_error, cargo_control_error,
\* coverage_control_error and baseline_control_error.
With(o, others) == {{o, p} : p \in others}

RunModeConflicts == With("--dry-run", {"--no-exec", "--exec"}) \cup With("--no-exec", {"--exec"})

DryRunConflicts ==
    With("--dry-run", {"--do-not-remove-tmp-folder", "--timeout", "--timeout-coefficient",
                       "--test-flags", "--workers", "--test-recursive", "--coverage",
                       "--per-test"})

\* Mistake: the row of --test-flags and --exec is left out.
CargoConflictsWithoutFlags ==
    With("--timeout-coefficient", {"--timeout", "--exec", "--no-exec"})
    \cup With("--no-exec", {"--timeout", "--test-flags", "--test-recursive"})

CargoConflicts ==
    With("--timeout-coefficient", {"--timeout", "--exec", "--no-exec"})
    \cup With("--no-exec", {"--timeout", "--test-flags", "--test-recursive"})
    \cup With("--exec", {"--test-flags"})

CoverageConflicts ==
    UNION {With(o, {"--exec", "--no-exec"}) : o \in {"--coverage", "--per-test"}}

BaselineConflicts == With("--update-baseline", {"--dry-run", "--no-exec", "--run-mutant-id"})

Conflicts == RunModeConflicts \cup DryRunConflicts \cup CargoConflicts \cup CoverageConflicts
             \cup BaselineConflicts

\* validate_execution_options, after the last argument.
EndArguments ==
    /\ step = "arguments"
    /\ begun
    /\ step' = IF \/ \E c \in Conflicts : c \subseteq given
                  \/ "--git-diff-base" \in given /\ "--git-diff-lines" \notin given
               THEN "refused" ELSE "run"
    /\ UNCHANGED <<begun, given, settings, unread>>

\* Configuration::validate, as far as the fields here go.
IsValid(c) ==
    /\ c.minimum # NoScore => c.minimum <= 100
    /\ (c.enable \cup c.disable) \cap Malformed = {}

\* Configuration::read; without --config everything has its default.
ReadFile ==
    /\ step = "run"
    /\ \/ "--config" \notin given /\ configuration' = NoFile /\ step' = "file read"
       \/ "--config" \in given /\ configuration' \in Files
          /\ step' = IF IsValid(configuration') THEN "file read" ELSE "rejected"
       \/ "--config" \in given /\ step' = "rejected" /\ UNCHANGED configuration
    /\ UNCHANGED <<begun, given, settings, policy, registry>>

\* Mistake: --enable adds to the list of the file.
AppliedByAdding(c, s) ==
    [minimum |-> IF s.minimum # NoScore THEN s.minimum ELSE c.minimum,
     enable |-> c.enable \cup s.enable,
     disable |-> c.disable \cup s.disable]

\* Configuration::apply: a score and the enabled patterns replace those of the file,
\* the disabled patterns are added to them.
Applied(c, s) ==
    [minimum |-> IF s.minimum # NoScore THEN s.minimum ELSE c.minimum,
     enable |-> IF s.enable # {} THEN s.enable ELSE c.enable,
     disable |-> c.disable \cup s.disable]

ApplySettings ==
    /\ step = "file read"
    /\ policy' = Applied(configuration, settings)
    /\ step' = IF IsValid(policy') THEN "configured" ELSE "rejected"
    /\ UNCHANGED <<begun, given, settings, configuration, registry>>

\* mutator_pattern_matches: what stands before the star ends in a slash.
MatchesName(p, name) ==
    IF p.star THEN IsStrictPrefix(p.words, name) ELSE p.words = name

MatchesAny(patterns, name) == \E p \in patterns : MatchesName(p, name)

\* Configuration::select_mutators: each pattern must match a known mutator.
SelectMutators ==
    /\ step = "configured"
    /\ IF \A p \in policy.enable \cup policy.disable : \E n \in Known : MatchesName(p, n)
       THEN /\ registry' = {n \in Known : /\ policy.enable = {} \/ MatchesAny(policy.enable, n)
                                          /\ ~MatchesAny(policy.disable, n)}
            /\ step' = "ready"
       ELSE step' = "rejected" /\ UNCHANGED registry
    /\ UNCHANGED <<begun, given, settings, configuration, policy>>

PolicyNext ==
    \/ OtherCommand
    \/ UnknownArgument
    \/ ReadTarget
    \/ \E o \in Switches \cup Valued : ReadOption(o)
    \/ \E s \in Scores : ReadScore(s)
    \/ \E list \in {"enable", "disable"} : \E p \in Patterns : ReadPattern(list, p)
    \/ EndArguments
    \/ ReadFile
    \/ ApplySettings
    \/ SelectMutators

PolicySpec == PolicyInit /\ [][PolicyNext]_policyVars

(***************************************************************************)
(* What an execution option needs of a run so as to have an effect, and    *)
(* what a run has.  The options that select mutants, report or gate need   *)
(* nothing here.                                                           *)
(***************************************************************************)
Needs(o) ==
    CASE o \in {"--no-exec", "--do-not-remove-tmp-folder"} -> {"areas"}
      [] o = "--workers" -> {"workers"}
      [] o \in {"--exec", "--timeout", "--test-recursive"} -> {"tests"}
      [] o \in {"--timeout-coefficient", "--test-flags", "--coverage", "--per-test"} -> {"cargo"}
      [] o = "--git-diff-base" -> {"diff"}
      [] o = "--update-baseline" -> {"all results"}
      [] OTHER -> {}

Has(options) ==
    LET areas == "--dry-run" \notin options
        tests == areas /\ "--no-exec" \notin options
    IN  (IF areas THEN {"areas"} ELSE {})
        \cup (IF areas /\ "--exec" \notin options THEN {"workers"} ELSE {})
        \cup (IF tests THEN {"tests"} ELSE {})
        \cup (IF tests /\ "--exec" \notin options THEN {"cargo"} ELSE {})
        \cup (IF "--git-diff-lines" \in options THEN {"diff"} ELSE {})
        \cup (IF tests /\ "--run-mutant-id" \notin options THEN {"all results"} ELSE {})

\* "A custom --exec command uses one worker" (docs/cli.md:233), so next to it the
\* number of workers is accepted and not heeded: the one exception there is.
Unheeded(options) == IF "--exec" \in options THEN {"--workers"} ELSE {}

IsSound(options) ==
    /\ \A o \in options \ Unheeded(options) : Needs(o) \subseteq Has(options)
    /\ ~({"--timeout", "--timeout-coefficient"} \subseteq options)

\* "These rules prevent a command from silently ignoring a selected option"
\* (docs/cli.md:262): a command is accepted exactly when the run it asks for
\* can heed every execution option it gives, but for --workers next to --exec,
\* and has one timeout.
AcceptedOptionsTakeEffect ==
    /\ step \in {"run", "file read", "configured", "ready"} => IsSound(given)
    /\ step = "refused" => ~IsSound(given)

\* Of the mutators that run, none is disabled by the file or by the command;
\* all are enabled by the command's patterns where it has any, whatever the
\* file enables; and no other mutator is missing (docs/config.md:58-62).
SelectionFollowsPolicy ==
    step = "ready" =>
        \A n \in Known :
            n \in registry <=>
                /\ ~MatchesAny(settings.disable, n)
                /\ ~MatchesAny(configuration.disable, n)
                /\ \/ MatchesAny(settings.enable, n)
                   \/ settings.enable = {} /\ (configuration.enable = {} \/ MatchesAny(configuration.enable, n))
=============================================================================
