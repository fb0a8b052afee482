------------------------------- MODULE CliRun --------------------------------
(***************************************************************************)
(* TAOW::cli_builder: repeated CliRegistry::run on one registered command. *)
(* The command's option and argument objects are made once, when it is     *)
(* registered, and every run overwrites their fields one after the other;  *)
(* a conversion that throws leaves the fields of an earlier run behind.    *)
(* A word of the command line is a model of its text; a token is an option *)
(* "--key", an option "--key=val", or a word.                              *)
(***************************************************************************)
EXTENDS Integers, Sequences, FiniteSets, SequencesExt

CONSTANTS
    OptionDefs,  \* OPTION_DEFINITION: a sequence of [name, type]
    ArgDefs,     \* ARG_DEFINITION: a sequence of [name, idx, type]
    Words,       \* the texts on the command line
    IntOf,       \* std::stoi and std::stod: the words they accept, and their values
    Keys,        \* the keys on the command line
    MaxTokens,   \* bound: tokens after the command's name
    MaxRuns      \* bound: uses of run

Types == {"STRING", "INT", "DOUBLE", "BOOL"}

NoValue == "nullopt"   \* an empty std::optional
Initial == "initial"   \* a field no run has assigned

ASSUME DefsAssumption ==
    /\ OptionDefs \in Seq([name : STRING, type : Types])
    /\ ArgDefs \in Seq([name : STRING, idx : Nat, type : Types])
\* The fields of a struct have different names, or it does not compile.
ASSUME NamesAssumption ==
    /\ \A j, k \in DOMAIN OptionDefs : OptionDefs[j].name = OptionDefs[k].name => j = k
    /\ \A j, k \in DOMAIN ArgDefs : ArgDefs[j].name = ArgDefs[k].name => j = k
ASSUME WordsAssumption == DOMAIN IntOf \subseteq Words /\ {NoValue, Initial} \cap Words = {}
ASSUME BoundsAssumption == MaxTokens \in Nat /\ MaxRuns \in Nat

OptionNames == {OptionDefs[i].name : i \in DOMAIN OptionDefs}
ArgNames    == {ArgDefs[i].name : i \in DOMAIN ArgDefs}

Options == [kind : {"flag"}, key : Keys] \cup [kind : {"option"}, key : Keys, val : Words]
Tokens  == Options \cup [kind : {"word"}, val : Words]

VARIABLES
    phase,     \* where run is
    line,      \* raw_args after the command's name
    i,         \* the next token, or the next field to extract
    args,      \* run's local args
    options,   \* run's local options
    optField,  \* the fields of the command's option object
    argField,  \* the fields of the command's argument object
    outcome,   \* how the last run ended
    runs       \* uses of run so far

locals == <<line, args, options>>
fields == <<optField, argField>>
vars == <<phase, locals, i, fields, outcome, runs>>

Init ==
    /\ phase = "idle" /\ line = <<>> /\ i = 1 /\ args = <<>>
    /\ options = [k \in {} |-> NoValue]
    /\ optField = [n \in OptionNames |-> NoValue]
    /\ argField = [n \in ArgNames |-> Initial]
    /\ outcome = "none"
    /\ runs = 0
------------------------------------------------------------------------------
\* run is left, by an exception or with the callable's result.
Leave(e) == phase' = "ended" /\ outcome' = e

\* argc < 2, or the first word is no registered command: nothing is touched.
Rejected ==
    /\ phase = "idle"
    /\ runs < MaxRuns
    /\ runs' = runs + 1
    /\ outcome' \in {"ArgsNotCorrect", "CommandNotFound"}
    /\ UNCHANGED <<phase, locals, i, fields>>

Run ==
    /\ phase = "idle"
    /\ runs < MaxRuns
    /\ runs' = runs + 1
    /\ phase' = "tokens"
    /\ line' \in BoundedSeq(Tokens, MaxTokens)
    /\ i' = 1 /\ args' = <<>> /\ options' = [k \in {} |-> NoValue]
    /\ outcome' = "none"
    /\ UNCHANGED fields

\* The text a token gives its key: "1" for a bare option.
Val(t) == IF t.kind = "flag" THEN "1" ELSE t.val

\* options[key] = val
With(o, t) == [k \in DOMAIN o \cup {t.key} |-> IF k = t.key THEN Val(t) ELSE o[k]]

\* One round of the loop over raw_args.
Token ==
    /\ phase = "tokens"
    /\ i <= Len(line)
    /\ i' = i + 1
    /\ \/ line[i].kind = "word" /\ args' = Append(args, line[i].val) /\ UNCHANGED options
       \/ line[i] \in Options /\ options' = With(options, line[i]) /\ UNCHANGED args
    /\ UNCHANGED <<phase, line, fields, outcome, runs>>

NextPhase(from, to, last) ==
    /\ phase = from
    /\ i > last
    /\ phase' = to
    /\ i' = 1
    /\ UNCHANGED <<locals, fields, outcome, runs>>

\* stoi and stod throw std::invalid_argument.
Converts(type, w) == type \in {"INT", "DOUBLE"} => w \in DOMAIN IntOf

\* get_option and get_arg for the four types.
Value(type, w) ==
    CASE type \in {"INT", "DOUBLE"} -> IntOf[w]
      [] type = "BOOL"   -> IF w \in {"1", "t", "y"} THEN "true" ELSE "false"
      [] type = "STRING" -> w

\* A plausible bug: a field is assigned only when its option is given.
MissingOptionKeeps(d) == UNCHANGED optField

\* get_option returns nullopt, which is assigned.
MissingOption(d) == optField' = [optField EXCEPT ![d.name] = NoValue]

\* One OPTION_EXTRACTOR of from_options.
ExtractOption ==
    /\ phase = "options"
    /\ i <= Len(OptionDefs)
    /\ LET d == OptionDefs[i] IN
          \/ /\ d.name \notin DOMAIN options
             /\ MissingOption(d)
             /\ i' = i + 1
             /\ UNCHANGED <<phase, outcome>>
          \/ /\ d.name \in DOMAIN options /\ Converts(d.type, options[d.name])
             /\ optField' = [optField EXCEPT ![d.name] = Value(d.type, options[d.name])]
             /\ i' = i + 1
             /\ UNCHANGED <<phase, outcome>>
          \/ /\ d.name \in DOMAIN options /\ ~Converts(d.type, options[d.name])
             /\ Leave("invalid_argument")
             /\ UNCHANGED <<i, optField>>
    /\ UNCHANGED <<locals, argField, runs>>

\* A plausible bug: an argument that is missing is left as it is.
ArgMissingIgnored(d) == i' = i + 1 /\ UNCHANGED <<phase, outcome>>

\* idx >= args.size()
ArgMissing(d) == Leave("ArgsNotCorrect") /\ UNCHANGED i

\* One ARG_EXTRACTOR of from_args.  idx counts from 0.
ExtractArg ==
    /\ phase = "args"
    /\ i <= Len(ArgDefs)
    /\ LET d == ArgDefs[i] IN
          \/ d.idx >= Len(args) /\ ArgMissing(d) /\ UNCHANGED argField
          \/ /\ d.idx < Len(args) /\ Converts(d.type, args[d.idx + 1])
             /\ argField' = [argField EXCEPT ![d.name] = Value(d.type, args[d.idx + 1])]
             /\ i' = i + 1
             /\ UNCHANGED <<phase, outcome>>
          \/ /\ d.idx < Len(args) /\ ~Converts(d.type, args[d.idx + 1])
             /\ Leave("invalid_argument")
             /\ UNCHANGED <<i, argField>>
    /\ UNCHANGED <<locals, optField, runs>>

\* The callable gets the two objects.
Invoke ==
    /\ phase = "args"
    /\ i > Len(ArgDefs)
    /\ Leave("called")
    /\ UNCHANGED <<locals, i, fields, runs>>

\* run's locals are gone.
Return ==
    /\ phase = "ended"
    /\ phase' = "idle"
    /\ line' = <<>> /\ args' = <<>> /\ options' = [k \in {} |-> NoValue]
    /\ i' = 1
    /\ UNCHANGED <<fields, outcome, runs>>

Stopped == phase = "idle" /\ runs = MaxRuns /\ UNCHANGED vars

Next ==
    \/ Rejected \/ Run
    \/ Token \/ NextPhase("tokens", "options", Len(line))
    \/ ExtractOption \/ NextPhase("options", "args", Len(OptionDefs))
    \/ ExtractArg \/ Invoke \/ Return
    \/ Stopped

Spec == Init /\ [][Next]_vars
------------------------------------------------------------------------------
(* Properties.                                                               *)

\* The tokens that give the option n.
Given(n) == {k \in DOMAIN line : line[k] \in Options /\ line[k].key = n}

\* The words among the first k tokens.
WordsUpTo(k) == {l \in 1..k : line[l].kind = "word"}

\* A called command finds in its options the last value this command line gives
\* each, and nothing for those it does not mention, whatever earlier runs left.
OptionsAreThisRuns ==
    phase = "ended" /\ outcome = "called" =>
        \A j \in DOMAIN OptionDefs :
            LET d == OptionDefs[j]
            IN  \/ Given(d.name) = {} /\ optField[d.name] = NoValue
                \/ \E k \in Given(d.name) :
                      /\ \A l \in Given(d.name) : l <= k
                      /\ optField[d.name] = Value(d.type, Val(line[k]))

\* A called command finds in its arguments the words of this command line that
\* are not options, each at its index: as many words are before it.
ArgsAreThisRuns ==
    phase = "ended" /\ outcome = "called" =>
        \A j \in DOMAIN ArgDefs :
            LET d == ArgDefs[j]
            IN  \E k \in WordsUpTo(Len(line)) :
                   /\ Cardinality(WordsUpTo(k - 1)) = d.idx
                   /\ argField[d.name] = Value(d.type, line[k].val)

\* cli_builder_macros.hpp: `idx` is "telling number of current arg", and its
\* example declares a first argument with idx 1 and a second with idx 2.  A
\* command declared so accepts a command line with as many words as it declares.
DeclaredArgsSuffice ==
    phase = "ended" /\ outcome = "ArgsNotCorrect" => Cardinality(WordsUpTo(Len(line))) < Len(ArgDefs)
==============================================================================
