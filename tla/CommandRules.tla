---------------------------- MODULE CommandRules ----------------------------
(***************************************************************************)
(* The rules that gate a tool's command (agents/exec_policy.py): a file of *)
(* command prefixes with a decision each, read once per run, to which an   *)
(* approval may be added.                                                  *)
(*                                                                         *)
(* A file is there or not, can be read or not, and holds rules, in order,  *)
(* and a default; a hand may leave any pattern and any word in it.         *)
(***************************************************************************)
LOCAL INSTANCE Naturals
LOCAL INSTANCE Sequences
LOCAL INSTANCE SequencesExt

CONSTANT Wildcards       \* the tokens with a wildcard or a scheme in them

Decisions == {"allow", "prompt", "forbidden"}
Strict    == [rules |-> <<>>, default |-> "prompt"]
Readable(file) == file.state # "corrupt"

Concrete(pattern) == pattern # <<>> /\ \A i \in DOMAIN pattern : pattern[i] \notin Wildcards

\* The first rule whose pattern begins the command decides.
Decide(policy, argv) ==
    LET i == SelectInSeq(policy.rules, LAMBDA r : IsPrefix(r.pattern, argv))
    IN  IF i = 0 THEN policy.default ELSE policy.rules[i].decision

\* A file that is not there is an empty policy; a corrupt one raises.
Loaded(file) == IF file.state = "missing" THEN Strict ELSE [rules |-> file.rules, default |-> file.default]

Normalized(word) == IF word \in Decisions THEN word ELSE "prompt"

\* The policy a run obeys: rules that are not concrete are dropped, words that are
\* no decision ask, and a file that cannot be read asks for every command.
Active(file) ==
    LET raw   == Loaded(file)
        rules == SelectSeq(raw.rules, LAMBDA r : Concrete(r.pattern))
    IN  IF ~Readable(file) THEN Strict
        ELSE [rules   |-> [ i \in DOMAIN rules |-> [rules[i] EXCEPT !.decision = Normalized(@)] ],
              default |-> Normalized(raw.default)]

\* An approval that is remembered is a rule at the end, written once.
Remembered(file, pattern) ==
    LET raw  == Loaded(file)
        rule == [pattern |-> pattern, decision |-> "allow"]
    IN  IF ~Concrete(pattern) \/ ~Readable(file) \/ rule \in ToSet(raw.rules) THEN file
        ELSE [state |-> "written", rules |-> Append(raw.rules, rule), default |-> raw.default]

\* What the gateway does with a command (a call without an argument list is not
\* matched): only a forbidden one is stopped here, and an allowed one still asks.
Stopped(policy, argv) == argv # <<>> /\ Decide(policy, argv) = "forbidden"
=============================================================================
