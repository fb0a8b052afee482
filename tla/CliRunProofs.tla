---------------------------- MODULE CliRunProofs -----------------------------
(***************************************************************************)
(* What TLAPS proves of CliRun, for any definitions, command lines and     *)
(* numbers of runs: a command that is called sees this run's values only.  *)
(***************************************************************************)
EXTENDS CliRun, FiniteSetTheorems, TLAPS

\* How many tokens run has gone through.
Read == IF phase = "tokens" THEN i - 1 ELSE Len(line)

LineTypeOK ==
    /\ phase \in {"idle", "tokens", "options", "args", "ended"}
    /\ line \in Seq(Tokens) /\ args \in Seq(Words) /\ i \in Nat \ {0}
    /\ phase = "tokens" => i <= Len(line) + 1
    /\ DOMAIN optField = OptionNames /\ DOMAIN argField = ArgNames

\* The local `options` has the last value of every option read, and no others.
OptionsRead ==
    /\ \A k \in 1..Read : line[k] \in Options => line[k].key \in DOMAIN options
    /\ \A key \in DOMAIN options :
          \E k \in 1..Read :
             /\ line[k] \in Options /\ line[k].key = key /\ options[key] = Val(line[k])
             /\ \A l \in 1..Read : line[l] \in Options /\ line[l].key = key => l <= k

\* The local `args` has the words read, each behind those before it.
ArgsRead ==
    /\ Len(args) = Cardinality(WordsUpTo(Read))
    /\ \A n \in 1..Len(args) :
          \E k \in WordsUpTo(Read) :
             Cardinality(WordsUpTo(k - 1)) = n - 1 /\ args[n] = line[k].val

Called == phase = "ended" /\ outcome = "called"

\* The fields of the options that have been extracted hold what `options` has.
OptionsExtracted ==
    \A j \in DOMAIN OptionDefs :
        (phase = "options" /\ j < i) \/ phase = "args" \/ Called =>
            LET d == OptionDefs[j]
            IN  optField[d.name] = IF d.name \in DOMAIN options
                                   THEN Value(d.type, options[d.name]) ELSE NoValue

\* The fields of the arguments that have been extracted hold what `args` has.
ArgsExtracted ==
    \A j \in DOMAIN ArgDefs :
        (phase = "args" /\ j < i) \/ Called =>
            LET d == ArgDefs[j]
            IN  d.idx < Len(args) /\ argField[d.name] = Value(d.type, args[d.idx + 1])

RunInv == LineTypeOK /\ OptionsRead /\ ArgsRead /\ OptionsExtracted /\ ArgsExtracted
------------------------------------------------------------------------------
LEMMA LineIsTyped ==
    ASSUME NEW x \in BoundedSeq(Tokens, MaxTokens)
    PROVE  x \in Seq(Tokens)
<1>1. PICK m \in 0..MaxTokens : x \in [1..m -> Tokens]
  BY DEF BoundedSeq, SeqOf
<1>2. m \in Nat
  BY BoundsAssumption
<1> QED
  BY <1>1, <1>2

LEMMA TokenKinds ==
    ASSUME LineTypeOK, NEW k \in 1..Len(line)
    PROVE  /\ line[k] \in Tokens
           /\ line[k].kind = "word" <=> line[k] \notin Options
           /\ line[k].kind = "word" => line[k].val \in Words
           /\ line[k] \in Options => line[k].key \in Keys
<1>1. \A s \in Seq(Tokens) : \A l \in 1..Len(s) : s[l] \in Tokens
  OBVIOUS
<1>2. line[k] \in Tokens
  BY <1>1 DEF LineTypeOK
<1>3. ASSUME NEW t \in Tokens
      PROVE  /\ t.kind = "word" <=> t \notin Options
             /\ t.kind = "word" => t.val \in Words
             /\ t \in Options => t.key \in Keys
  <2>1. CASE t \in [kind : {"flag"}, key : Keys]
    BY <2>1 DEF Options
  <2>2. CASE t \in [kind : {"option"}, key : Keys, val : Words]
    BY <2>2 DEF Options
  <2>3. CASE t \in [kind : {"word"}, val : Words]
    <3>1. t.kind = "word" /\ t.val \in Words
      BY <2>3
    <3>2. \A o \in Options : o.kind # "word"
      BY DEF Options
    <3> QED
      BY <3>1, <3>2
  <2> QED
    BY <2>1, <2>2, <2>3 DEF Tokens, Options
<1> QED
  BY <1>2, <1>3

\* The words grow by the token that is read, if it is one.
LEMMA WordsGrow ==
    ASSUME NEW k \in Nat
    PROVE  /\ IsFiniteSet(WordsUpTo(k)) /\ WordsUpTo(k) \subseteq 1..k
           /\ WordsUpTo(k + 1) = IF line[k + 1].kind = "word" THEN WordsUpTo(k) \cup {k + 1}
                                 ELSE WordsUpTo(k)
           /\ line[k + 1].kind = "word" =>
                 Cardinality(WordsUpTo(k + 1)) = Cardinality(WordsUpTo(k)) + 1
           /\ WordsUpTo(0) = {}
<1>1. IsFiniteSet(WordsUpTo(k)) /\ WordsUpTo(k) \subseteq 1..k
  <2>1. WordsUpTo(k) \subseteq 1..k
    BY DEF WordsUpTo
  <2>2. IsFiniteSet(1..k)
    BY FS_Interval
  <2> QED
    BY <2>1, <2>2, FS_Subset
<1>2. 1..(k + 1) = 1..k \cup {k + 1} /\ k + 1 \notin 1..k
  OBVIOUS
<1>3. WordsUpTo(k + 1) = IF line[k + 1].kind = "word" THEN WordsUpTo(k) \cup {k + 1}
                         ELSE WordsUpTo(k)
  BY <1>2 DEF WordsUpTo
<1>4. k + 1 \notin WordsUpTo(k)
  BY <1>1, <1>2
<1>5. WordsUpTo(0) = {}
  BY DEF WordsUpTo
<1>6. ASSUME line[k + 1].kind = "word"
      PROVE  Cardinality(WordsUpTo(k + 1)) = Cardinality(WordsUpTo(k)) + 1
  <2>1. WordsUpTo(k + 1) = WordsUpTo(k) \cup {k + 1}
    BY <1>3, <1>6
  <2>2. Cardinality(WordsUpTo(k) \cup {k + 1}) = Cardinality(WordsUpTo(k)) + 1
    BY <1>1, <1>4, FS_AddElement
  <2> QED
    BY <2>1, <2>2
<1> QED
  BY <1>1, <1>3, <1>5, <1>6
------------------------------------------------------------------------------
(* The inductive invariant.                                                  *)

LEMMA InitRunInv == Init => RunInv
<1> SUFFICES ASSUME Init PROVE RunInv
  OBVIOUS
<1>1. /\ phase = "idle" /\ line = <<>> /\ i = 1 /\ args = <<>> /\ DOMAIN options = {}
      /\ DOMAIN optField = OptionNames /\ DOMAIN argField = ArgNames
  BY DEF Init
<1>2. Len(<<>>) = 0 /\ <<>> \in Seq(Tokens) /\ <<>> \in Seq(Words)
  OBVIOUS
<1>3. Read = 0
  BY <1>1, <1>2 DEF Read
<1>4. LineTypeOK
  BY <1>1, <1>2 DEF LineTypeOK
<1>5. OptionsRead
  BY <1>1, <1>3 DEF OptionsRead
<1>6. ArgsRead
  <2>1. WordsUpTo(Read) = {} /\ Cardinality({}) = 0
    BY <1>3, FS_EmptySet DEF WordsUpTo
  <2> QED
    BY <1>1, <1>2, <2>1 DEF ArgsRead
<1>7. OptionsExtracted /\ ArgsExtracted
  BY <1>1 DEF OptionsExtracted, ArgsExtracted, Called
<1> QED
  BY <1>4, <1>5, <1>6, <1>7 DEF RunInv

LEMMA LineTypeStep == LineTypeOK /\ [Next]_vars => LineTypeOK'
<1> SUFFICES ASSUME LineTypeOK, [Next]_vars PROVE LineTypeOK'
  OBVIOUS
<1>0. Len(line) \in Nat /\ <<>> \in Seq(Tokens) /\ <<>> \in Seq(Words)
  BY DEF LineTypeOK
<1>1. CASE Rejected
  BY <1>1 DEF Rejected, locals, fields, LineTypeOK
<1>2. CASE Run
  <2>1. line' \in Seq(Tokens) /\ Len(line') \in Nat
    BY <1>2, LineIsTyped DEF Run
  <2> QED
    BY <1>0, <1>2, <2>1 DEF Run, fields, LineTypeOK
<1>3. CASE Token
  <2>1. i \in 1..Len(line) /\ line' = line /\ i' = i + 1 /\ UNCHANGED <<phase, fields>>
    BY <1>0, <1>3 DEF Token, LineTypeOK
  <2>2. args' \in Seq(Words)
    <3>1. CASE line[i].kind = "word" /\ args' = Append(args, line[i].val)
      <4>1. line[i].val \in Words
        BY <2>1, <3>1, TokenKinds
      <4> QED
        BY <3>1, <4>1 DEF LineTypeOK
    <3>2. CASE UNCHANGED args
      BY <3>2 DEF LineTypeOK
    <3> QED
      BY <1>3, <3>1, <3>2 DEF Token
  <2> QED
    BY <1>0, <2>1, <2>2 DEF fields, LineTypeOK
<1>4. CASE ExtractOption
  <2>1. DOMAIN optField' = DOMAIN optField /\ i' \in Nat \ {0} /\ phase' \in {phase, "ended"}
    BY <1>4 DEF ExtractOption, MissingOption, Leave, LineTypeOK
  <2> QED
    BY <1>4, <2>1 DEF ExtractOption, locals, LineTypeOK
<1>5. CASE ExtractArg
  <2>1. DOMAIN argField' = DOMAIN argField /\ i' \in Nat \ {0} /\ phase' \in {phase, "ended"}
    BY <1>5 DEF ExtractArg, ArgMissing, Leave, LineTypeOK
  <2> QED
    BY <1>5, <2>1 DEF ExtractArg, locals, LineTypeOK
<1>6. CASE NextPhase("tokens", "options", Len(line)) \/ NextPhase("options", "args", Len(OptionDefs))
  BY <1>0, <1>6 DEF NextPhase, locals, fields, LineTypeOK
<1>7. CASE Invoke
  BY <1>7 DEF Invoke, Leave, locals, fields, LineTypeOK
<1>8. CASE Return
  BY <1>0, <1>8 DEF Return, fields, LineTypeOK
<1>9. CASE Stopped \/ UNCHANGED vars
  BY <1>9 DEF Stopped, vars, locals, fields, LineTypeOK
<1> QED
  BY <1>1, <1>2, <1>3, <1>4, <1>5, <1>6, <1>7, <1>8, <1>9 DEF Next

\* What a token adds to the locals.
LEMMA TokenReads ==
    ASSUME LineTypeOK, OptionsRead, ArgsRead, Token
    PROVE  OptionsRead' /\ ArgsRead'
<1> DEFINE r == i - 1
<1>1. /\ i \in 1..Len(line) /\ line' = line /\ phase = "tokens" /\ phase' = "tokens"
      /\ i' = i + 1 /\ i \in Nat /\ Len(line) \in Nat
  BY DEF Token, LineTypeOK
<1>2. r \in Nat /\ r + 1 = i /\ Read = r /\ Read' = i /\ 1..i = 1..r \cup {i} /\ i \notin 1..r
  BY <1>1 DEF Read
<1> HIDE DEF r
<1>3. \A k : WordsUpTo(k)' = WordsUpTo(k)
  BY <1>1 DEF WordsUpTo
<1>4. /\ \A k \in 1..r : line[k] \in Options => line[k].key \in DOMAIN options
      /\ \A key \in DOMAIN options :
            \E k \in 1..r :
               /\ line[k] \in Options /\ line[k].key = key /\ options[key] = Val(line[k])
               /\ \A l \in 1..r : line[l] \in Options /\ line[l].key = key => l <= k
  BY <1>2 DEF OptionsRead
<1>5. /\ Len(args) = Cardinality(WordsUpTo(r))
      /\ \A n \in 1..Len(args) :
            \E k \in WordsUpTo(r) :
               Cardinality(WordsUpTo(k - 1)) = n - 1 /\ args[n] = line[k].val
  BY <1>2 DEF ArgsRead
<1>6. CASE line[i].kind = "word" /\ args' = Append(args, line[i].val) /\ UNCHANGED options
  <2>1. line[i] \notin Options /\ line[i].val \in Words
    BY <1>1, <1>6, TokenKinds
  <2>2. ASSUME NEW key \in DOMAIN options
        PROVE  \E k \in 1..i :
                  /\ line[k] \in Options /\ line[k].key = key /\ options[key] = Val(line[k])
                  /\ \A l \in 1..i : line[l] \in Options /\ line[l].key = key => l <= k
    <3>1. PICK k \in 1..r :
             /\ line[k] \in Options /\ line[k].key = key /\ options[key] = Val(line[k])
             /\ \A l \in 1..r : line[l] \in Options /\ line[l].key = key => l <= k
      BY <1>4
    <3> QED
      BY <1>2, <2>1, <3>1
  <2>3. OptionsRead'
    BY <1>1, <1>2, <1>4, <1>6, <2>1, <2>2 DEF OptionsRead
  <2>4. /\ WordsUpTo(i) = WordsUpTo(r) \cup {i}
        /\ Cardinality(WordsUpTo(i)) = Cardinality(WordsUpTo(r)) + 1
    BY <1>2, <1>6, WordsGrow
  <2>5. /\ args \in Seq(Words) /\ Len(args) \in Nat /\ Len(args') = Len(args) + 1
        /\ \A n \in 1..Len(args) : args'[n] = args[n]
        /\ args'[Len(args) + 1] = line[i].val
    BY <1>6, <2>1 DEF LineTypeOK
  <2>6. ASSUME NEW n \in 1..Len(args')
        PROVE  \E k \in WordsUpTo(i) :
                  Cardinality(WordsUpTo(k - 1)) = n - 1 /\ args'[n] = line[k].val
    <3>1. CASE n \in 1..Len(args)
      BY <1>5, <2>4, <2>5, <3>1
    <3>2. CASE n = Len(args) + 1
      <4>1. i - 1 = r /\ n - 1 = Len(args)
        BY <1>1, <1>2, <2>5, <3>2
      <4> QED
        BY <1>5, <2>4, <2>5, <3>2, <4>1
    <3> QED
      BY <2>5, <3>1, <3>2
  <2>7. ArgsRead'
    BY <1>1, <1>2, <1>3, <1>5, <2>4, <2>5, <2>6 DEF ArgsRead
  <2> QED
    BY <2>3, <2>7
<1>7. CASE line[i] \in Options /\ options' = With(options, line[i]) /\ UNCHANGED args
  <2> DEFINE t == line[i]
  <2>1. /\ DOMAIN options' = DOMAIN options \cup {t.key}
        /\ options'[t.key] = Val(t)
        /\ \A key \in DOMAIN options : key # t.key => options'[key] = options[key]
    BY <1>7 DEF With
  <2>2. t.kind # "word" /\ t \in Options
    BY <1>1, <1>7, TokenKinds
  <2>3. \A k \in 1..i : line[k] \in Options => line[k].key \in DOMAIN options'
    BY <1>2, <1>4, <2>1
  <2>4. ASSUME NEW key \in DOMAIN options'
        PROVE  \E k \in 1..i :
                  /\ line[k] \in Options /\ line[k].key = key /\ options'[key] = Val(line[k])
                  /\ \A l \in 1..i : line[l] \in Options /\ line[l].key = key => l <= k
    <3>1. CASE key = t.key
      <4>1. i \in 1..i /\ \A l \in 1..i : l <= i
        BY <1>1
      <4> QED
        BY <2>1, <2>2, <3>1, <4>1
    <3>2. CASE key # t.key
      <4>1. PICK k \in 1..r :
               /\ line[k] \in Options /\ line[k].key = key /\ options[key] = Val(line[k])
               /\ \A l \in 1..r : line[l] \in Options /\ line[l].key = key => l <= k
        BY <1>4, <2>1, <3>2
      <4> QED
        BY <1>2, <2>1, <3>2, <4>1
    <3> QED
      BY <3>1, <3>2
  <2>5. OptionsRead'
    BY <1>1, <1>2, <2>3, <2>4 DEF OptionsRead
  <2>6. WordsUpTo(i) = WordsUpTo(r)
    BY <1>2, <2>2, WordsGrow
  <2>7. ArgsRead'
    BY <1>1, <1>2, <1>3, <1>5, <1>7, <2>6 DEF ArgsRead
  <2> QED
    BY <2>5, <2>7
<1> QED
  BY <1>6, <1>7 DEF Token

LEMMA ReadStep == LineTypeOK /\ OptionsRead /\ ArgsRead /\ [Next]_vars => OptionsRead' /\ ArgsRead'
<1> SUFFICES ASSUME LineTypeOK, OptionsRead, ArgsRead, [Next]_vars
             PROVE  OptionsRead' /\ ArgsRead'
  OBVIOUS
<1>0. Len(line) \in Nat /\ Len(<<>>) = 0
  BY DEF LineTypeOK
<1>1. CASE Token
  BY <1>1, TokenReads
<1>2. CASE Run \/ Return
  <2>1. args' = <<>> /\ DOMAIN options' = {} /\ Read' = 0
    BY <1>0, <1>2 DEF Run, Return, Read
  <2>2. OptionsRead'
    BY <2>1 DEF OptionsRead
  <2>3. WordsUpTo(0)' = {} /\ Cardinality({}) = 0
    BY FS_EmptySet DEF WordsUpTo
  <2>4. ArgsRead'
    BY <1>0, <2>1, <2>3 DEF ArgsRead
  <2> QED
    BY <2>2, <2>4
<1>3. CASE ~Token /\ ~Run /\ ~Return
  <2>1. /\ line' = line /\ args' = args /\ options' = options
        /\ \/ phase' = phase /\ phase # "tokens"
           \/ phase' = phase /\ i' = i
           \/ phase # "tokens" /\ phase' # "tokens"
           \/ phase = "tokens" /\ phase' = "options" /\ i > Len(line)
    <3>1. CASE Rejected \/ Stopped \/ UNCHANGED vars
      BY <3>1 DEF Rejected, Stopped, vars, locals
    <3>2. CASE ExtractOption \/ ExtractArg \/ Invoke
      BY <3>2 DEF ExtractOption, ExtractArg, Invoke, Leave, ArgMissing, locals
    <3>3. CASE \/ NextPhase("tokens", "options", Len(line))
               \/ NextPhase("options", "args", Len(OptionDefs))
      BY <3>3 DEF NextPhase, locals
    <3> QED
      BY <1>3, <3>1, <3>2, <3>3 DEF Next
  <2>2. Read' = Read
    BY <1>0, <2>1 DEF Read, LineTypeOK
  <2>3. \A k : WordsUpTo(k)' = WordsUpTo(k)
    BY <2>1 DEF WordsUpTo
  <2> QED
    BY <2>1, <2>2, <2>3 DEF OptionsRead, ArgsRead
<1> QED
  BY <1>1, <1>2, <1>3

LEMMA OptionsExtractedStep ==
    OptionsExtracted /\ LineTypeOK /\ [Next]_vars => OptionsExtracted'
<1> SUFFICES ASSUME OptionsExtracted, LineTypeOK, [Next]_vars PROVE OptionsExtracted'
  OBVIOUS
<1>0. /\ DOMAIN OptionDefs = 1..Len(OptionDefs) /\ Len(OptionDefs) \in Nat
      /\ i \in Nat /\ DOMAIN optField = OptionNames
  BY DefsAssumption DEF LineTypeOK
<1>1. CASE ExtractOption
  <2> SUFFICES ASSUME NEW j \in DOMAIN OptionDefs,
                      (phase' = "options" /\ j < i') \/ phase' = "args" \/ Called'
               PROVE  optField'[OptionDefs[j].name] =
                         IF OptionDefs[j].name \in DOMAIN options
                         THEN Value(OptionDefs[j].type, options[OptionDefs[j].name]) ELSE NoValue
    BY <1>1 DEF OptionsExtracted, ExtractOption, locals
  <2> DEFINE d == OptionDefs[i]
  <2>1. phase = "options" /\ i \in DOMAIN OptionDefs /\ d.name \in OptionNames
    BY <1>0, <1>1 DEF ExtractOption, LineTypeOK, OptionNames
  <2>2. phase' = "options" /\ i' = i + 1 /\ j <= i
    <3>1. phase' = "options" \/ (phase' = "ended" /\ outcome' = "invalid_argument")
      BY <1>1 DEF ExtractOption, Leave
    <3>2. phase' = "options"
      BY <3>1 DEF Called
    <3>3. i' = i + 1
      BY <1>1, <3>2 DEF ExtractOption, Leave
    <3>4. j < i' /\ j \in Nat
      BY <1>0, <3>2 DEF Called
    <3> QED
      BY <1>0, <3>2, <3>3, <3>4
  <2>3. optField' = [optField EXCEPT ![d.name] =
                       IF d.name \in DOMAIN options THEN Value(d.type, options[d.name])
                       ELSE NoValue]
    BY <1>1, <2>2 DEF ExtractOption, MissingOption, Leave
  <2>4. CASE j = i
    BY <1>0, <2>1, <2>3, <2>4
  <2>5. CASE j # i
    <3>1. OptionDefs[j].name # d.name
      BY <2>1, <2>5, NamesAssumption
    <3>2. j < i
      BY <1>0, <2>2, <2>5
    <3> QED
      BY <1>0, <2>1, <2>3, <3>1, <3>2 DEF OptionsExtracted
  <2> QED
    BY <2>4, <2>5
<1>2. CASE NextPhase("options", "args", Len(OptionDefs))
  <2>1. /\ phase = "options" /\ optField' = optField /\ options' = options
        /\ \A j \in DOMAIN OptionDefs : j < i
    BY <1>0, <1>2 DEF NextPhase, fields, locals
  <2> QED
    BY <2>1 DEF OptionsExtracted
<1>3. CASE ExtractArg \/ Invoke
  <2>1. phase = "args" /\ optField' = optField /\ options' = options
    BY <1>3 DEF ExtractArg, Invoke, fields, locals
  <2> QED
    BY <2>1 DEF OptionsExtracted
<1>4. CASE Rejected \/ Run \/ Token \/ NextPhase("tokens", "options", Len(line)) \/ Return
  <2>1. \/ phase' \in {"idle", "tokens"}
        \/ phase' = "options" /\ i' = 1
    BY <1>4 DEF Rejected, Run, Token, NextPhase, Return
  <2>2. \A j \in DOMAIN OptionDefs : ~(j < 1)
    BY <1>0
  <2> QED
    BY <2>1, <2>2 DEF OptionsExtracted, Called
<1>5. CASE Stopped \/ UNCHANGED vars
  BY <1>5 DEF Stopped, vars, locals, fields, OptionsExtracted, Called
<1> QED
  BY <1>1, <1>2, <1>3, <1>4, <1>5 DEF Next

LEMMA ArgsExtractedStep ==
    ArgsExtracted /\ LineTypeOK /\ [Next]_vars => ArgsExtracted'
<1> SUFFICES ASSUME ArgsExtracted, LineTypeOK, [Next]_vars PROVE ArgsExtracted'
  OBVIOUS
<1>0. /\ DOMAIN ArgDefs = 1..Len(ArgDefs) /\ Len(ArgDefs) \in Nat
      /\ i \in Nat /\ DOMAIN argField = ArgNames
  BY DefsAssumption DEF LineTypeOK
<1>1. CASE ExtractArg
  <2> SUFFICES ASSUME NEW j \in DOMAIN ArgDefs, (phase' = "args" /\ j < i') \/ Called'
               PROVE  /\ ArgDefs[j].idx < Len(args)
                      /\ argField'[ArgDefs[j].name]
                            = Value(ArgDefs[j].type, args[ArgDefs[j].idx + 1])
    BY <1>1 DEF ArgsExtracted, ExtractArg, locals
  <2> DEFINE d == ArgDefs[i]
  <2>1. phase = "args" /\ i \in DOMAIN ArgDefs /\ d.name \in ArgNames
    BY <1>0, <1>1 DEF ExtractArg, LineTypeOK, ArgNames
  <2>2. phase' = "args" /\ i' = i + 1 /\ j <= i
    <3>1. \/ phase' = "args"
          \/ phase' = "ended" /\ outcome' \in {"invalid_argument", "ArgsNotCorrect"}
      BY <1>1 DEF ExtractArg, ArgMissing, Leave
    <3>2. phase' = "args"
      BY <3>1 DEF Called
    <3>3. i' = i + 1
      BY <1>1, <3>2 DEF ExtractArg, ArgMissing, Leave
    <3>4. j < i' /\ j \in Nat
      BY <1>0, <3>2 DEF Called
    <3> QED
      BY <1>0, <3>2, <3>3, <3>4
  <2>3. /\ d.idx < Len(args)
        /\ argField' = [argField EXCEPT ![d.name] = Value(d.type, args[d.idx + 1])]
    BY <1>1, <2>2 DEF ExtractArg, ArgMissing, Leave
  <2>4. CASE j = i
    BY <1>0, <2>1, <2>3, <2>4
  <2>5. CASE j # i
    <3>1. ArgDefs[j].name # d.name
      BY <2>1, <2>5, NamesAssumption
    <3>2. j < i
      BY <1>0, <2>2, <2>5
    <3> QED
      BY <1>0, <2>1, <2>3, <3>1, <3>2 DEF ArgsExtracted
  <2> QED
    BY <2>4, <2>5
<1>2. CASE Invoke
  <2>1. /\ phase = "args" /\ argField' = argField /\ args' = args
        /\ \A j \in DOMAIN ArgDefs : j < i
    BY <1>0, <1>2 DEF Invoke, fields, locals
  <2> QED
    BY <2>1 DEF ArgsExtracted
<1>3. CASE ExtractOption
  <2>1. phase' = "options" \/ (phase' = "ended" /\ outcome' = "invalid_argument")
    BY <1>3 DEF ExtractOption, Leave
  <2> QED
    BY <2>1 DEF ArgsExtracted, Called
<1>4. CASE \/ Rejected \/ Run \/ Token \/ Return
           \/ NextPhase("tokens", "options", Len(line))
           \/ NextPhase("options", "args", Len(OptionDefs))
  <2>1. \/ phase' \in {"idle", "tokens", "options"}
        \/ phase' = "args" /\ i' = 1
    BY <1>4 DEF Rejected, Run, Token, NextPhase, Return
  <2>2. \A j \in DOMAIN ArgDefs : ~(j < 1)
    BY <1>0
  <2> QED
    BY <2>1, <2>2 DEF ArgsExtracted, Called
<1>5. CASE Stopped \/ UNCHANGED vars
  BY <1>5 DEF Stopped, vars, locals, fields, ArgsExtracted, Called
<1> QED
  BY <1>1, <1>2, <1>3, <1>4, <1>5 DEF Next

THEOREM RunInvHolds == Spec => []RunInv
<1>1. RunInv /\ [Next]_vars => RunInv'
  BY LineTypeStep, ReadStep, OptionsExtractedStep, ArgsExtractedStep DEF RunInv
<1> QED
  BY <1>1, InitRunInv, PTL DEF Spec
------------------------------------------------------------------------------
\* Whatever earlier runs, thrown out of or not, left in the command's object: a called
\* command has in each option the last value its own command line gives it, or none.
THEOREM OptionsOfThisRun == Spec => []OptionsAreThisRuns
<1>1. RunInv => OptionsAreThisRuns
  <2> SUFFICES ASSUME RunInv, phase = "ended", outcome = "called", NEW j \in DOMAIN OptionDefs
               PROVE  LET d == OptionDefs[j]
                      IN  \/ Given(d.name) = {} /\ optField[d.name] = NoValue
                          \/ \E k \in Given(d.name) :
                                /\ \A l \in Given(d.name) : l <= k
                                /\ optField[d.name] = Value(d.type, Val(line[k]))
    BY DEF OptionsAreThisRuns
  <2> DEFINE d == OptionDefs[j]
  <2>1. Read = Len(line) /\ DOMAIN line = 1..Len(line) /\ OptionsRead
    BY DEF Read, RunInv, LineTypeOK
  <2>2. Given(d.name) = {k \in 1..Read : line[k] \in Options /\ line[k].key = d.name}
    BY <2>1 DEF Given
  <2>3. optField[d.name] = IF d.name \in DOMAIN options
                           THEN Value(d.type, options[d.name]) ELSE NoValue
    BY DEF RunInv, OptionsExtracted, Called
  <2> HIDE DEF d
  <2>4. CASE d.name \in DOMAIN options
    <3>1. PICK k \in 1..Read :
             /\ line[k] \in Options /\ line[k].key = d.name
             /\ options[d.name] = Val(line[k])
             /\ \A l \in 1..Read : line[l] \in Options /\ line[l].key = d.name => l <= k
      BY <2>1, <2>4 DEF OptionsRead
    <3> QED
      BY <2>2, <2>3, <2>4, <3>1 DEF d
  <2>5. CASE d.name \notin DOMAIN options
    <3>1. Given(d.name) = {}
      BY <2>1, <2>2, <2>5 DEF OptionsRead
    <3> QED
      BY <2>3, <2>5, <3>1 DEF d
  <2> QED
    BY <2>4, <2>5
<1> QED
  BY <1>1, RunInvHolds, PTL

\* A called command has in each argument the word of its own command line at the
\* argument's index, and there is one.
THEOREM ArgsOfThisRun == Spec => []ArgsAreThisRuns
<1>1. RunInv => ArgsAreThisRuns
  <2> SUFFICES ASSUME RunInv, phase = "ended", outcome = "called", NEW j \in DOMAIN ArgDefs
               PROVE  LET d == ArgDefs[j]
                      IN  \E k \in WordsUpTo(Len(line)) :
                             /\ Cardinality(WordsUpTo(k - 1)) = d.idx
                             /\ argField[d.name] = Value(d.type, line[k].val)
    BY DEF ArgsAreThisRuns
  <2> DEFINE d == ArgDefs[j]
  <2>1. Read = Len(line) /\ ArgsRead /\ Len(args) \in Nat
    BY DEF Read, RunInv, LineTypeOK
  <2>2. d.idx < Len(args) /\ argField[d.name] = Value(d.type, args[d.idx + 1])
    BY DEF RunInv, ArgsExtracted, Called
  <2>3. d.idx \in Nat
    <3>1. ArgDefs[j] \in [name : STRING, idx : Nat, type : Types]
      <4>1. \A S : \A s \in Seq(S) : \A l \in DOMAIN s : s[l] \in S
        OBVIOUS
      <4> QED
        BY <4>1, DefsAssumption
    <3> QED
      BY <3>1
  <2> HIDE DEF d
  <2>4. d.idx + 1 \in 1..Len(args) /\ (d.idx + 1) - 1 = d.idx
    BY <2>1, <2>2, <2>3
  <2>5. PICK k \in WordsUpTo(Read) :
           Cardinality(WordsUpTo(k - 1)) = d.idx /\ args[d.idx + 1] = line[k].val
    BY <2>1, <2>4 DEF ArgsRead
  <2> QED
    BY <2>1, <2>2, <2>5 DEF d
<1> QED
  BY <1>1, RunInvHolds, PTL
==============================================================================
