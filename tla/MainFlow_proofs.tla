----------------------------- MODULE MainFlow_proofs -----------------------------
(***************************************************************************)
(* The two passes over the command line, for any command line and any      *)
(* settings file: what is asked is answered, the options of exec-helper    *)
(* mean the same to both, patterns get the values that are typed for them, *)
(* every word is kept, and there are as many jobs as were asked for.       *)
(***************************************************************************)
EXTENDS MainFlow, SequenceFacts, SequenceTheorems, FiniteSetTheorems

\* The long option of no pattern is one of exec-helper's, and no name of an
\* option of a pattern is the beginning of one of those.
OwnOptions ==
  \A content \in Contents : content.kind = "settings" =>
    \A pattern \in Range(content.patterns) :
      /\ pattern.longOption \notin BuiltIns
      /\ \A id \in BuiltIns : /\ <<pattern.longOption, id>> \notin Abbreviations
                              /\ <<pattern.shortOption, id>> \notin Abbreviations

\* Patterns are declared with values.
DefaultsGiven ==
  \A content \in Contents : content.kind = "settings" =>
    \A pattern \in Range(content.patterns) : pattern.values # <<>>

-----------------------------------------------------------------------------
(* The invariant *)

Declared == files[SettingsFileName].patterns

\* The options are those of exec-helper and, after them, those of the first n
\* patterns.
OptionOf(pattern) == Option(pattern.longOption, pattern.shortOption, "list")

Described(list, declared, n) ==
  /\ list \in Seq(Range(list))
  /\ \A i \in DOMAIN DefaultOptions : i \in DOMAIN list /\ list[i] = DefaultOptions[i]
  /\ \A i \in DOMAIN list \ DOMAIN DefaultOptions :
       \E k \in 1..n : /\ declared[k].longOption # Unset
                       /\ list[i] = OptionOf(declared[k])
  /\ \A k \in 1..n : declared[k].longOption # Unset =>
       \E i \in DOMAIN list \ DOMAIN DefaultOptions : list[i] = OptionOf(declared[k])

\* What is left of a list after its first n elements
Remains(rest, list, n) ==
  /\ rest \in Seq(Range(rest))
  /\ n + Len(rest) = Len(list)
  /\ \A i \in DOMAIN rest : n + i \in DOMAIN list /\ rest[i] = list[n + i]

Input ==
  /\ args \in CommandLines
  /\ files \in [Files -> Contents]
  /\ concurrency \in Concurrency

\* The first pass was successful, and there is a settings file.
FirstPassed ==
  /\ ~ParseFails(DefaultOptions, Unset, args, TRUE)
  /\ firstPass = ToMap(DefaultValues, DefaultOptions, Unset, args)

SettingsRead ==
  /\ FirstPassed
  /\ Exists(SettingsFileName) /\ files[SettingsFileName].kind = "settings"

SecondPassed ==
  /\ SettingsRead
  /\ Described(options, Declared, Len(Declared))
  /\ ~ParseFails(options, "command", args, FALSE)
  /\ optionsMap = ToMap(DefaultValues, options, "command", args)

\* Nothing that is answered from the options is asked.
NothingAsked ==
  \A id \in {"help", "version", "list-plugins"} : ~IsTrue(optionsMap[id])

\* The first n patterns have their values.
ValuesSet(n) ==
  /\ patterns \in Seq(Range(patterns)) /\ Len(patterns) = Len(Declared)
  /\ \A i \in DOMAIN patterns :
       patterns[i] = IF i <= n THEN WithOptionValues(Declared[i]) ELSE Declared[i]

Ready ==
  /\ SecondPassed /\ NothingAsked
  /\ AutoComplete(firstPass) = Unset /\ Jobs(optionsMap, concurrency) # 0

InvFirst == pc = "first pass" => options = DefaultOptions /\ patterns = <<>>
InvSettings ==
  pc = "settings file" => FirstPassed /\ options = DefaultOptions /\ patterns = <<>>
InvOptions ==
  pc = "add options" =>
    /\ SettingsRead /\ patterns = Declared
    /\ \E n \in 0..Len(Declared) :
         Described(options, Declared, n) /\ Remains(left, Declared, n)
InvQueries == pc = "queries" => SecondPassed /\ patterns = Declared
InvCompletion ==
  pc = "completion" => SecondPassed /\ patterns = Declared /\ NothingAsked
InvPatterns ==
  pc = "patterns" =>
    Ready /\ \E n \in 0..Len(Declared) : ValuesSet(n) /\ Remains(left, Declared, n)
InvCommander == pc = "commander" => Ready /\ ValuesSet(Len(Declared))

InvOutput == pc \notin Ends \/ pc = "commander" => output = "nothing"

Inv ==
  /\ Input
  /\ InvFirst /\ InvSettings /\ InvOptions /\ InvQueries /\ InvCompletion
  /\ InvPatterns /\ InvCommander /\ InvOutput

-----------------------------------------------------------------------------
(* The options of exec-helper *)

Defaults == DOMAIN DefaultOptions

LEMMA DefaultsList ==
  /\ Defaults = 1..12
  /\ DefaultOptions \in Seq(Range(DefaultOptions))
  /\ BuiltIns = {"help", "version", "verbose", "jobs", "dry-run", "keep-going",
                 "list-plugins", "additional-search-path", "settings-file",
                 "debug", "auto-complete", "command"}
<1> DEFINE D == DefaultOptions
<1>1. DOMAIN D = 1..12
  BY DEF DefaultOptions
<1>2. \A i \in 1..12 : i \in {1, 2, 3, 4, 5, 6, 7, 8, 9, 10, 11, 12}
  OBVIOUS
<1>3. /\ D[1].id = "help" /\ D[2].id = "version" /\ D[3].id = "verbose"
      /\ D[4].id = "jobs" /\ D[5].id = "dry-run" /\ D[6].id = "keep-going"
      /\ D[7].id = "list-plugins" /\ D[8].id = "additional-search-path"
      /\ D[9].id = "settings-file" /\ D[10].id = "debug"
      /\ D[11].id = "auto-complete" /\ D[12].id = "command"
  BY DEF DefaultOptions, Option
<1>4. DefaultOptions \in Seq(Range(DefaultOptions))
  BY DEF DefaultOptions, Range
<1> HIDE DEF D
<1>5. 1 \in 1..12 /\ 2 \in 1..12 /\ 3 \in 1..12 /\ 4 \in 1..12 /\ 5 \in 1..12
      /\ 6 \in 1..12 /\ 7 \in 1..12 /\ 8 \in 1..12 /\ 9 \in 1..12
      /\ 10 \in 1..12 /\ 11 \in 1..12 /\ 12 \in 1..12
  OBVIOUS
<1>6. BuiltIns = {D[i].id : i \in 1..12}
  BY <1>1 DEF BuiltIns, D
<1> QED
  BY <1>1, <1>2, <1>3, <1>4, <1>5, <1>6 DEF D, Defaults

\* What is an option of one value, and what is a flag
LEMMA DefaultKinds ==
  ASSUME NEW i \in Defaults
  PROVE  LET option == DefaultOptions[i]
         IN /\ option.kind \in {"flag", "value", "list"}
            /\ option.id \in {"jobs", "auto-complete"} => option.kind = "value"
            /\ option.id \in {"help", "version", "list-plugins"} => option.kind = "flag"
<1>1. i \in {1, 2, 3, 4, 5, 6, 7, 8, 9, 10, 11, 12}
  BY DefaultsList
<1> QED
  BY <1>1 DEF DefaultOptions, Option

LEMMA DefaultsAreNames ==
  /\ Unset \notin BuiltIns
  /\ \A i \in Defaults : /\ NoOption # DefaultOptions[i].id
                       /\ NoOption # DefaultOptions[i].short
<1>1. \A i \in Defaults : DefaultOptions[i] \in Range(DefaultOptions)
  BY DEF Defaults, Range
<1>2. \A i \in Defaults : /\ NoOption \notin {DefaultOptions[i].id, DefaultOptions[i].short}
                         /\ DefaultOptions[i].id # Unset
  BY <1>1, OptionsAssumption
<1> QED
  BY <1>2 DEF BuiltIns, Defaults

-----------------------------------------------------------------------------
(* What is meant by what is typed *)

\* What is typed means one option.
Single(list, use, c) ==
  /\ use.option # NoOption
  /\ Matching(list, use.option) = {c} /\ c \in DOMAIN list
  /\ Meant(list, use) = list[c]

LEMMA ParsedKnown ==
  ASSUME NEW list, NEW line, NEW positional, NEW allow,
         ~ParseFails(list, positional, line, allow),
         NEW i \in DOMAIN line, Known(list, line[i])
  PROVE  \E c : Single(list, line[i], c)
<1> DEFINE M == Matching(list, line[i].option)
<1>1. line[i].option # NoOption /\ M # {} /\ ~Several(M)
  BY DEF ParseFails, Known
<1>2. M \subseteq DOMAIN list
  BY DEF Matching
<1>3. PICK c : c \in M
  BY <1>1
<1>4. M = {c}
  BY <1>1, <1>3 DEF Several
<1>5. Meant(list, line[i]) = list[c]
  BY <1>4 DEF Meant
<1> QED
  BY <1>1, <1>2, <1>3, <1>4, <1>5 DEF Single

\* In the second pass everything that is typed has to mean something.
LEMMA ParsedAll ==
  ASSUME NEW list, NEW line, NEW positional,
         ~ParseFails(list, positional, line, FALSE),
         NEW i \in DOMAIN line, line[i].option # NoOption
  PROVE  \E c : Single(list, line[i], c)
<1>1. Known(list, line[i])
  BY DEF ParseFails, Known
<1> QED
  BY <1>1, ParsedKnown

LEMMA SingleUse ==
  ASSUME NEW list, NEW use, NEW c, Single(list, use, c), NEW id
  PROVE  IsUseOf(list, id, use) <=> list[c].id = id
BY DEF Single, IsUseOf, Known

\* Typed in full, it means an option with that name.
InFull(list, typed) ==
  {i \in DOMAIN list : typed = list[i].id \/ typed = list[i].short}

LEMMA MatchingFull ==
  ASSUME NEW list, NEW typed
  PROVE  /\ InFull(list, typed) # {} => Matching(list, typed) = InFull(list, typed)
         /\ InFull(list, typed) = {} =>
              Matching(list, typed) =
                {i \in DOMAIN list : <<typed, list[i].id>> \in Abbreviations}
<1>1. {i \in DOMAIN list : typed \in {list[i].id, list[i].short}} = InFull(list, typed)
  BY DEF InFull
<1> QED
  BY <1>1 DEF Matching

-----------------------------------------------------------------------------
(* The options of exec-helper among those of patterns *)

\* The first n patterns have options of their own.
Own(declared, n) ==
  \A k \in 1..n :
    /\ declared[k].longOption \notin BuiltIns
    /\ \A id \in BuiltIns : /\ <<declared[k].longOption, id>> \notin Abbreviations
                            /\ <<declared[k].shortOption, id>> \notin Abbreviations

LEMMA OtherOptions ==
  ASSUME NEW list, NEW declared, NEW n, Described(list, declared, n),
         NEW i \in DOMAIN list \ Defaults
  PROVE  \E k \in 1..n : /\ list[i].id = declared[k].longOption
                         /\ list[i].short = declared[k].shortOption
                         /\ list[i].kind = "list"
                         /\ declared[k].longOption # Unset
BY DEF Described, OptionOf, Option, Defaults

LEMMA FlagsKept ==
  ASSUME NEW list, NEW declared, NEW n, Described(list, declared, n)
  PROVE  Flags(list) = Flags(DefaultOptions)
<1>1. ASSUME NEW i \in DOMAIN list, list[i].kind = "flag"
      PROVE  i \in Defaults
  BY <1>1, OtherOptions
<1>2. \A i \in Defaults : i \in DOMAIN list /\ list[i] = DefaultOptions[i]
  BY DEF Described, Defaults
<1> QED
  BY <1>1, <1>2 DEF Flags, Defaults

\* What means one of exec-helper's options to one pass does so to the other.
LEMMA SameMeaning ==
  ASSUME NEW list, NEW declared, NEW n, Described(list, declared, n),
         Own(declared, n), NEW use, NEW c, Single(list, use, c),
         ~Several(Matching(DefaultOptions, use.option)),
         NEW id \in BuiltIns
  PROVE  /\ IsUseOf(DefaultOptions, id, use) <=> IsUseOf(list, id, use)
         /\ IsUseOf(list, id, use) => Meant(list, use) = Meant(DefaultOptions, use)
<1> DEFINE typed == use.option
           first == InFull(DefaultOptions, typed)
           second == InFull(list, typed)
<1>1. \A i \in Defaults : i \in DOMAIN list /\ list[i] = DefaultOptions[i]
  BY DEF Described, Defaults
<1>2. first = second \cap Defaults
  BY <1>1 DEF InFull, Defaults
<1>3. Matching(list, typed) = {c} /\ Meant(list, use) = list[c] /\ c \in DOMAIN list
      /\ use.option # NoOption
  BY DEF Single
<1>4. ASSUME NEW d \in Defaults, DefaultOptions[d].id = id, d \in Matching(DefaultOptions, typed)
      PROVE  d = c
  <2>1. CASE first # {}
    <3>1. d \in first
      BY <1>4, <2>1, MatchingFull
    <3>2. d \in second /\ second # {}
      BY <3>1, <1>2
    <3> QED
      BY <3>2, <1>3, MatchingFull
  <2>2. CASE first = {}
    <3>1. <<typed, id>> \in Abbreviations
      BY <1>4, <2>2, MatchingFull
    <3>2. second = {}
      <4>1. SUFFICES ASSUME NEW i \in second
                     PROVE  FALSE
        OBVIOUS
      <4>2. i \in DOMAIN list \ Defaults /\ typed \in {list[i].id, list[i].short}
        BY <2>2, <1>2 DEF InFull
      <4>3. PICK k \in 1..n : /\ list[i].id = declared[k].longOption
                             /\ list[i].short = declared[k].shortOption
        BY <4>2, OtherOptions
      <4>4. /\ <<list[i].id, id>> \notin Abbreviations
            /\ <<list[i].short, id>> \notin Abbreviations
        BY <4>3, Zenon DEF Own
      <4>5. CASE typed = list[i].id
        BY <3>1, <4>4, <4>5
      <4>6. CASE typed = list[i].short
        BY <3>1, <4>4, <4>6
      <4> QED
        BY <4>2, <4>5, <4>6
    <3>3. d \in Matching(list, typed)
      BY <3>1, <3>2, <1>1, <1>4, MatchingFull
    <3> QED
      BY <3>3, <1>3
  <2> QED
    BY <2>1, <2>2
<1>5. ASSUME list[c].id = id
      PROVE  c \in Defaults /\ c \in Matching(DefaultOptions, typed)
  <2>1. c \in Defaults
    BY <1>3, <1>5, OtherOptions DEF Own
  <2>2. CASE second # {}
    <3>1. c \in second
      BY <1>3, <2>2, MatchingFull
    <3>2. c \in first
      BY <3>1, <2>1, <1>2
    <3> QED
      BY <2>1, <3>2, MatchingFull
  <2>3. CASE second = {}
    <3>1. first = {} /\ <<typed, list[c].id>> \in Abbreviations
      BY <1>2, <1>3, <2>3, MatchingFull
    <3> QED
      BY <2>1, <3>1, <1>1, MatchingFull DEF Defaults
  <2> QED
    BY <2>1, <2>2, <2>3
<1>6. ASSUME IsUseOf(DefaultOptions, id, use)
      PROVE  IsUseOf(list, id, use)
  <2>1. PICK d : d \in Matching(DefaultOptions, typed)
    BY <1>6 DEF IsUseOf, Known
  <2>2. Matching(DefaultOptions, typed) = {d}
    BY <2>1 DEF Several
  <2>3. DefaultOptions[d].id = id
    BY <1>6, <2>2 DEF IsUseOf, Meant
  <2>4. d \in Defaults
    BY <2>1 DEF Matching, Defaults
  <2>5. d = c
    BY <1>4, <2>1, <2>3, <2>4
  <2> QED
    BY <1>1, <2>3, <2>4, <2>5, SingleUse
<1>7. ASSUME IsUseOf(list, id, use)
      PROVE  IsUseOf(DefaultOptions, id, use) /\ Meant(list, use) = Meant(DefaultOptions, use)
  <2>1. list[c].id = id
    BY <1>7, SingleUse
  <2>2. c \in Defaults /\ c \in Matching(DefaultOptions, typed)
    BY <1>5, <2>1
  <2>3. Matching(DefaultOptions, typed) = {c}
    BY <2>2 DEF Several
  <2>4. Meant(DefaultOptions, use) = DefaultOptions[c] /\ DefaultOptions[c] = list[c]
    BY <1>1, <2>2, <2>3 DEF Meant
  <2> QED
    BY <1>3, <2>1, <2>3, <2>4 DEF IsUseOf, Known
<1> QED
  BY <1>6, <1>7

-----------------------------------------------------------------------------
(* What an option is given *)

\* The words of one use that are for an option
Part(list, positional, use, id) ==
  (IF IsUseOf(list, id, use)
   THEN SubSeq(use.values, 1, WordsTaken(list, use)) ELSE <<>>)
  \o (IF positional = id
      THEN SubSeq(use.values, WordsTaken(list, use) + 1, Len(use.values)) ELSE <<>>)

LEMMA WordsAreParts ==
  ASSUME NEW list, NEW positional, NEW line, NEW id
  PROVE  WordsFor(list, positional, line, id)
           = FlattenSeq([i \in DOMAIN line |-> Part(list, positional, line[i], id)])
BY Zenon DEF WordsFor, Part

LEMMA UseIsIn ==
  ASSUME NEW line, IsCommandLine(line), NEW i \in DOMAIN line
  PROVE  /\ line[i].option # Unset
         /\ line[i].values \in Seq(WordsIn(line))
         /\ line[i].values = <<>> =>
              \E j \in Matching(DefaultOptions, line[i].option) :
                DefaultOptions[j].kind = "flag"
<1>1. line[i] \in Range(line)
  BY DEF Range
<1> QED
  BY <1>1 DEF IsCommandLine

\* An option takes its first word, or all of them, or none.
LEMMA WordsTakenBy ==
  ASSUME NEW list, NEW use, NEW c, Single(list, use, c)
  PROVE  /\ list[c].kind = "flag" => WordsTaken(list, use) = 0
         /\ list[c].kind = "value" => WordsTaken(list, use) = 1
         /\ list[c].kind = "list" => WordsTaken(list, use) = Len(use.values)
<1>1. Known(list, use) /\ Meant(list, use) = list[c]
  BY DEF Single, Known
<1> QED
  BY <1>1 DEF WordsTaken

LEMMA SameWords ==
  ASSUME NEW list, NEW declared, NEW n, Described(list, declared, n),
         Own(declared, n), NEW line,
         ~ParseFails(DefaultOptions, Unset, line, TRUE),
         ~ParseFails(list, "command", line, FALSE),
         NEW id \in BuiltIns \ {"command"}
  PROVE  /\ \A i \in DOMAIN line :
              IsUseOf(DefaultOptions, id, line[i]) <=> IsUseOf(list, id, line[i])
         /\ WordsFor(DefaultOptions, Unset, line, id) = WordsFor(list, "command", line, id)
<1>1. \A i \in DOMAIN line :
        /\ IsUseOf(DefaultOptions, id, line[i]) <=> IsUseOf(list, id, line[i])
        /\ IsUseOf(list, id, line[i]) =>
             Meant(list, line[i]) = Meant(DefaultOptions, line[i])
  <2> TAKE i \in DOMAIN line
  <2>1. CASE line[i].option = NoOption
    BY <2>1 DEF IsUseOf, Known
  <2>2. CASE line[i].option # NoOption
    <3>1. PICK c : Single(list, line[i], c)
      BY <2>2, ParsedAll
    <3>2. ~Several(Matching(DefaultOptions, line[i].option))
      BY <2>2 DEF ParseFails
    <3> QED
      BY <3>1, <3>2, SameMeaning
  <2> QED
    BY <2>1, <2>2
<1>2. Unset # id /\ "command" # id
  BY DefaultsAreNames
<1>3. \A i \in DOMAIN line : Part(DefaultOptions, Unset, line[i], id)
                               = Part(list, "command", line[i], id)
  <2> TAKE i \in DOMAIN line
  <2>1. CASE IsUseOf(list, id, line[i])
    <3>1. Known(DefaultOptions, line[i]) /\ Known(list, line[i])
          /\ Meant(list, line[i]) = Meant(DefaultOptions, line[i])
      BY <1>1, <2>1 DEF IsUseOf
    <3>2. WordsTaken(DefaultOptions, line[i]) = WordsTaken(list, line[i])
      BY <3>1 DEF WordsTaken
    <3> QED
      BY <1>1, <1>2, <3>2, <2>1 DEF Part
  <2>2. CASE ~IsUseOf(list, id, line[i])
    BY <1>1, <1>2, <2>2 DEF Part
  <2> QED
    BY <2>1, <2>2
<1>4. [i \in DOMAIN line |-> Part(DefaultOptions, Unset, line[i], id)]
        = [i \in DOMAIN line |-> Part(list, "command", line[i], id)]
  BY <1>3
<1> QED
  BY <1>1, <1>4, WordsAreParts

LEMMA AmongDefaults ==
  ASSUME NEW list, NEW declared, NEW n, Described(list, declared, n),
         NEW use, NEW c \in Defaults, Single(list, use, c)
  PROVE  Matching(DefaultOptions, use.option) = {c}
<1> DEFINE typed == use.option
           first == InFull(DefaultOptions, typed)
           second == InFull(list, typed)
<1>1. \A i \in Defaults : i \in DOMAIN list /\ list[i] = DefaultOptions[i]
  BY DEF Described, Defaults
<1>2. first = second \cap Defaults
  BY <1>1 DEF InFull, Defaults
<1>3. Matching(list, typed) = {c}
  BY DEF Single
<1>4. CASE second # {}
  <2>1. second = {c}
    BY <1>3, <1>4, MatchingFull
  <2>2. first = {c}
    BY <1>2, <2>1
  <2> QED
    BY <2>2, MatchingFull
<1>5. CASE second = {}
  <2>1. first = {}
    BY <1>2, <1>5
  <2>2. {i \in DOMAIN list : <<typed, list[i].id>> \in Abbreviations} = {c}
    BY <1>3, <1>5, MatchingFull
  <2>3. {i \in Defaults : <<typed, DefaultOptions[i].id>> \in Abbreviations} = {c}
    BY <1>1, <2>2
  <2> QED
    BY <2>1, <2>3, MatchingFull DEF Defaults
<1> QED
  BY <1>4, <1>5

\* There are as many words as are taken, and some if there can be.
LEMMA TakesItsWords ==
  ASSUME NEW list, NEW declared, NEW n, Described(list, declared, n),
         NEW line, IsCommandLine(line), NEW i \in DOMAIN line,
         NEW c, Single(list, line[i], c)
  PROVE  LET values == line[i].values
         IN /\ WordsTaken(list, line[i]) \in 0..Len(values)
            /\ c \in Defaults /\ list[c].kind # "flag" => values # <<>>
<1> DEFINE values == line[i].values
<1>1. values \in Seq(WordsIn(line))
  BY UseIsIn
<1>2. Len(values) \in Nat /\ (values # <<>> => Len(values) >= 1)
  BY <1>1
<1>3. ASSUME c \in Defaults, list[c].kind # "flag"
      PROVE  values # <<>>
  <2>1. Matching(DefaultOptions, line[i].option) = {c}
    BY <1>3, AmongDefaults
  <2>2. DefaultOptions[c].kind # "flag"
    BY <1>3 DEF Described, Defaults
  <2> QED
    BY <2>1, <2>2, UseIsIn
<1>4. c \in DOMAIN list
  BY DEF Single
<1>5. CASE c \in Defaults
  <2>1. list[c].kind \in {"flag", "value", "list"}
    BY <1>5, DefaultKinds DEF Described, Defaults
  <2>2. WordsTaken(list, line[i]) \in 0..Len(values)
    BY <1>2, <1>3, <1>5, <2>1, WordsTakenBy
  <2> QED
    BY <1>3, <2>2
<1>6. CASE c \notin Defaults
  <2>1. list[c].kind = "list"
    BY <1>4, <1>6, OtherOptions
  <2> QED
    BY <1>2, <1>6, <2>1, WordsTakenBy
<1> QED
  BY <1>5, <1>6

\* What is left of a use: its words, before or after a position.
LEMMA Cut ==
  ASSUME NEW S, NEW s \in Seq(S), NEW k \in 0..Len(s)
  PROVE  SubSeq(s, 1, k) \in Seq(S) /\ SubSeq(s, k + 1, Len(s)) \in Seq(S)
         /\ Len(SubSeq(s, 1, k)) = k /\ \A i \in 1..k : SubSeq(s, 1, k)[i] = s[i]
OBVIOUS

LEMMA PartType ==
  ASSUME NEW list, NEW declared, NEW n, Described(list, declared, n),
         NEW line, IsCommandLine(line), NEW positional, NEW allow,
         ~ParseFails(list, positional, line, allow),
         NEW i \in DOMAIN line, NEW id, NEW for
  PROVE  Part(list, for, line[i], id) \in Seq(WordsIn(line))
<1> DEFINE values == line[i].values
           taken == WordsTaken(list, line[i])
<1>1. values \in Seq(WordsIn(line))
  BY UseIsIn
<1>2. taken \in 0..Len(values)
  <2>1. CASE Known(list, line[i])
    <3>1. PICK c : Single(list, line[i], c)
      BY <2>1, ParsedKnown
    <3> QED
      BY <3>1, TakesItsWords
  <2>2. CASE ~Known(list, line[i])
    <3>1. taken = 0 /\ Len(values) \in Nat
      BY <1>1, <2>2 DEF WordsTaken
    <3> QED
      BY <3>1
  <2> QED
    BY <2>1, <2>2
<1> HIDE DEF taken, values
<1>3. SubSeq(values, 1, taken) \in Seq(WordsIn(line))
      /\ SubSeq(values, taken + 1, Len(values)) \in Seq(WordsIn(line))
      /\ <<>> \in Seq(WordsIn(line))
  BY <1>1, <1>2, Cut
<1>4. \A a, b \in Seq(WordsIn(line)) : a \o b \in Seq(WordsIn(line))
  OBVIOUS
<1> DEFINE first == IF IsUseOf(list, id, line[i]) THEN SubSeq(values, 1, taken) ELSE <<>>
           others == IF for = id THEN SubSeq(values, taken + 1, Len(values)) ELSE <<>>
<1>5. first \in Seq(WordsIn(line)) /\ others \in Seq(WordsIn(line))
  BY <1>3
<1>6. Part(list, for, line[i], id) = first \o others
  BY DEF Part, values, taken
<1> HIDE DEF first, others
<1> QED
  BY <1>4, <1>5, <1>6

\* What an option is given is the words of its parts.
LEMMA WordsOfParts ==
  ASSUME NEW list, NEW declared, NEW n, Described(list, declared, n),
         NEW line, IsCommandLine(line), NEW positional, NEW allow,
         ~ParseFails(list, positional, line, allow), NEW id
  PROVE  LET words == WordsFor(list, positional, line, id)
             part(i) == Part(list, positional, line[i], id)
         IN /\ words \in Seq(WordsIn(line))
            /\ \A k \in DOMAIN words : \E i \in DOMAIN line :
                 words[k] \in Range(part(i))
            /\ \A i \in DOMAIN line : Range(part(i)) \subseteq Range(words)
<1> DEFINE parts == [i \in DOMAIN line |-> Part(list, positional, line[i], id)]
           Texts == Seq(WordsIn(line))
<1>1. \A i \in DOMAIN line : parts[i] \in Texts
  BY PartType
<1>2. line \in Seq(Range(line))
  BY DEF IsCommandLine
<1>3. DOMAIN parts = DOMAIN line /\ \E m \in Nat : DOMAIN line = 1..m
  BY <1>2
<1>4. WordsFor(list, positional, line, id) = FlattenSeq(parts)
  BY WordsAreParts
<1>5. \A i \in DOMAIN line : parts[i] = Part(list, positional, line[i], id)
  OBVIOUS
<1>6. parts = [i \in DOMAIN line |-> parts[i]]
  OBVIOUS
<1> HIDE DEF parts
<1>7. parts \in Seq(Texts)
  <2> HIDE DEF Texts
  <2>1. PICK m \in Nat : DOMAIN line = 1..m
    BY <1>3
  <2>2. parts \in [1..m -> Texts]
    BY <1>1, <1>6, <2>1
  <2> QED
    BY <2>2
<1>8. parts \in Seq(Range(parts))
  <2> HIDE DEF Texts
  <2> QED
    BY <1>7, ListOf
<1>9. \A i \in DOMAIN parts : parts[i] \in Seq(Range(parts[i]))
  BY <1>1, <1>3, ListOf
<1>10. FlattenSeq(parts) \in Seq(WordsIn(line))
  BY <1>7, FlattenType
<1>11. \A k \in DOMAIN FlattenSeq(parts) : \E i \in DOMAIN parts :
         \E m \in DOMAIN parts[i] : FlattenSeq(parts)[k] = parts[i][m]
  BY <1>8, <1>9, FlattenLists
<1>12. \A i \in DOMAIN parts : Range(parts[i]) \subseteq Range(FlattenSeq(parts))
  BY <1>8, <1>9, FlattenHolds
<1>13. \A k \in DOMAIN FlattenSeq(parts) : \E i \in DOMAIN parts :
         FlattenSeq(parts)[k] \in Range(parts[i])
  BY <1>11 DEF Range
<1> QED
  BY <1>3, <1>4, <1>5, <1>10, <1>12, <1>13, Zenon

\* What a use comes to for the option it means, and for the others
LEMMA PartOfUse ==
  ASSUME NEW list, NEW declared, NEW n, Described(list, declared, n),
         NEW line, IsCommandLine(line), NEW i \in DOMAIN line,
         NEW for, NEW id, for # id
  PROVE  LET part == Part(list, for, line[i], id)
             values == line[i].values
         IN /\ ~IsUseOf(list, id, line[i]) => part = <<>>
            /\ \A c : Single(list, line[i], c) /\ list[c].id = id =>
                 /\ list[c].kind = "flag" => part = <<>>
                 /\ list[c].kind = "value" =>
                      values # <<>> /\ Len(part) = 1 /\ part[1] = values[1]
                 /\ list[c].kind = "list" => part = values
<1> DEFINE part == Part(list, for, line[i], id)
           values == line[i].values
           taken == WordsTaken(list, line[i])
<1>1. values \in Seq(WordsIn(line))
  BY UseIsIn
<1>2. ~IsUseOf(list, id, line[i]) => part = <<>>
  <2>1. ~IsUseOf(list, id, line[i]) => part = <<>> \o <<>>
    BY DEF Part
  <2> QED
    BY <2>1
<1>3. ASSUME NEW c, Single(list, line[i], c), list[c].id = id
      PROVE  /\ list[c].kind = "flag" => part = <<>>
             /\ list[c].kind = "value" =>
                  values # <<>> /\ Len(part) = 1 /\ part[1] = values[1]
             /\ list[c].kind = "list" => part = values
  <2>1. IsUseOf(list, id, line[i])
    BY <1>3, SingleUse
  <2>2. part = SubSeq(values, 1, taken) \o <<>>
    BY <2>1 DEF Part
  <2>3. taken \in 0..Len(values)
    BY <1>3, TakesItsWords
  <2> HIDE DEF part, values, taken
  <2>4. part = SubSeq(values, 1, taken)
    <3>1. SubSeq(values, 1, taken) \in Seq(WordsIn(line))
      BY <1>1, <2>3, Cut
    <3> QED
      BY <2>2, <3>1
  <2>5. CASE list[c].kind = "flag"
    <3>1. taken = 0
      BY <1>3, <2>5, WordsTakenBy DEF taken
    <3> QED
      BY <1>1, <2>4, <2>5, <3>1
  <2>6. CASE list[c].kind = "value"
    <3>1. taken = 1
      BY <1>3, <2>6, WordsTakenBy DEF taken
    <3>2. Len(values) >= 1
      BY <1>1, <2>3, <3>1
    <3> QED
      BY <1>1, <2>4, <2>6, <3>1, <3>2
  <2>7. CASE list[c].kind = "list"
    <3>1. taken = Len(values)
      BY <1>3, <2>7, WordsTakenBy DEF taken, values
    <3> QED
      BY <1>1, <2>4, <2>7, <3>1
  <2>8. c \in DOMAIN list
    BY <1>3 DEF Single
  <2>9. list[c].kind \in {"flag", "value", "list"}
    <3>1. CASE c \in Defaults
      BY <3>1, DefaultKinds DEF Described, Defaults
    <3>2. CASE c \notin Defaults
      BY <2>8, <3>2, OtherOptions
    <3> QED
      BY <3>1, <3>2
  <2> QED
    BY <2>5, <2>6, <2>7
<1> QED
  BY <1>2, <1>3

\* An option that is given
Given(list, positional, line, id) ==
  /\ \E j \in DOMAIN list : list[j].id = id
  /\ WordsFor(list, positional, line, id) # <<>>

LEMMA MapAt ==
  ASSUME NEW defaults, NEW list, NEW positional, NEW line, NEW id
  PROVE  LET map == ToMap(defaults, list, positional, line)
             given == Given(list, positional, line, id)
         IN /\ id \in DOMAIN map <=> id \in DOMAIN defaults \/ given \/ id \in Flags(list)
            /\ id \in Flags(list) =>
                 map[id] = IF UsesOf(list, id, line) # {} THEN <<"1">> ELSE <<"0">>
            /\ id \notin Flags(list) /\ given =>
                 map[id] = WordsFor(list, positional, line, id)
            /\ id \notin Flags(list) /\ ~given /\ id \in DOMAIN defaults =>
                 map[id] = defaults[id]
<1> DEFINE found == {list[j].id : j \in {k \in DOMAIN list :
                       WordsFor(list, positional, line, list[k].id) # <<>>}}
<1>1. id \in found <=> Given(list, positional, line, id)
  BY DEF Given
<1>2. ToMap(defaults, list, positional, line)
        = [o \in DOMAIN defaults \cup found \cup Flags(list) |->
            IF o \in Flags(list)
            THEN IF UsesOf(list, o, line) # {} THEN <<"1">> ELSE <<"0">>
            ELSE IF o \in found THEN WordsFor(list, positional, line, o)
            ELSE defaults[o]]
  BY DEF ToMap
<1> HIDE DEF found
<1> QED
  BY <1>1, <1>2

LEMMA FlagIsTrue == IsTrue(<<"1">>) /\ ~IsTrue(<<"0">>)
<1>1. Len(<<"1">>) = 1 /\ Len(<<"0">>) = 1 /\ <<"1">>[1] = "1" /\ <<"0">>[1] = "0"
      /\ <<"1">> # <<>>
  OBVIOUS
<1> QED
  BY <1>1 DEF IsTrue, Last

LEMMA FlagAsUsed ==
  ASSUME NEW defaults, NEW list, NEW positional, NEW line, NEW id \in Flags(list)
  PROVE  IsTrue(ToMap(defaults, list, positional, line)[id]) <=> UsesOf(list, id, line) # {}
BY MapAt, FlagIsTrue

-----------------------------------------------------------------------------
(* Questions *)

LEMMA DefaultsDescribed ==
  ASSUME NEW declared
  PROVE  Described(DefaultOptions, declared, 0)
<1>1. \A k \in 1..0 : FALSE
  OBVIOUS
<1> QED
  BY <1>1, DefaultsList DEF Described

Questions == {"help", "version", "list-plugins"}

LEMMA QuestionsAreFlags == Questions \subseteq Flags(DefaultOptions) \cap BuiltIns
<1>1. \A id \in Questions : \E i \in Defaults : DefaultOptions[i].id = id
  BY DefaultsList DEF BuiltIns, Defaults, Questions
<1> QED
  BY <1>1, DefaultKinds DEF Flags, BuiltIns, Defaults, Questions

LEMMA AskedIsUsed ==
  ASSUME ~ParseFails(DefaultOptions, Unset, args, TRUE), NEW id
  PROVE  IsAsked(id) <=> UsesOf(DefaultOptions, id, args) # {}
<1>1. ASSUME NEW i \in DOMAIN args, NEW j \in Defaults,
             DefaultOptions[j].id = id, args[i].option # NoOption,
             Matching(DefaultOptions, args[i].option) = {j}
      PROVE  i \in UsesOf(DefaultOptions, id, args)
  BY <1>1 DEF UsesOf, IsUseOf, Known, Meant
<1>2. ASSUME NEW i \in UsesOf(DefaultOptions, id, args)
      PROVE  IsAsked(id)
  <2>1. i \in DOMAIN args /\ IsUseOf(DefaultOptions, id, args[i])
        /\ Known(DefaultOptions, args[i])
    BY DEF UsesOf, IsUseOf
  <2>2. PICK c : Single(DefaultOptions, args[i], c)
    BY <2>1, ParsedKnown
  <2>3. DefaultOptions[c].id = id
    BY <2>1, <2>2, SingleUse
  <2> QED
    BY <2>1, <2>2, <2>3 DEF IsAsked, Single
<1> QED
  BY <1>1, <1>2 DEF IsAsked, Defaults

\* To complete a word is asked like the other questions, though with a word.
LEMMA CompletionAsked ==
  ASSUME Input, FirstPassed
  PROVE  AutoComplete(firstPass) # Unset <=> IsAsked("auto-complete")
<1> DEFINE id == "auto-complete"
           words == WordsFor(DefaultOptions, Unset, args, id)
           part(i) == Part(DefaultOptions, Unset, args[i], id)
<1>1. IsCommandLine(args)
  BY MainFlowAssumption DEF Input
<1>2. ~ParseFails(DefaultOptions, Unset, args, TRUE)
  BY DEF FirstPassed
<1>3. Described(DefaultOptions, <<>>, 0)
  BY DefaultsDescribed
<1>4. /\ words \in Seq(WordsIn(args))
      /\ \A k \in DOMAIN words : \E i \in DOMAIN args : words[k] \in Range(part(i))
      /\ \A i \in DOMAIN args : Range(part(i)) \subseteq Range(words)
  BY <1>1, <1>2, <1>3, WordsOfParts
<1>5. id \in BuiltIns /\ Unset # id
  BY DefaultsList, DefaultsAreNames
<1>6. id \notin Flags(DefaultOptions)
  BY DefaultKinds DEF Flags, Defaults
<1>7. id \notin DOMAIN DefaultValues
  BY DEF DefaultValues
<1>8. words # <<>> <=> UsesOf(DefaultOptions, id, args) # {}
  <2>1. ASSUME words # <<>>
        PROVE  UsesOf(DefaultOptions, id, args) # {}
    <3>1. 1 \in DOMAIN words
      BY <1>4, <2>1
    <3>2. PICK i \in DOMAIN args : words[1] \in Range(part(i))
      BY <1>4, <3>1
    <3>3. part(i) # <<>>
      BY <3>2 DEF Range
    <3>4. IsUseOf(DefaultOptions, id, args[i])
      BY <1>1, <1>3, <1>5, <3>3, PartOfUse
    <3> QED
      BY <3>4 DEF UsesOf
  <2>2. ASSUME NEW i \in UsesOf(DefaultOptions, id, args)
        PROVE  words # <<>>
    <3>1. i \in DOMAIN args /\ Known(DefaultOptions, args[i])
          /\ IsUseOf(DefaultOptions, id, args[i])
      BY DEF UsesOf, IsUseOf
    <3>2. PICK c : Single(DefaultOptions, args[i], c)
      BY <1>2, <3>1, ParsedKnown
    <3>3. DefaultOptions[c].id = id /\ c \in Defaults
      BY <3>1, <3>2, SingleUse DEF Single, Defaults
    <3>4. DefaultOptions[c].kind = "value"
      BY <3>3, DefaultKinds
    <3>5. Len(part(i)) = 1
      BY <1>1, <1>3, <1>5, <3>1, <3>2, <3>3, <3>4, PartOfUse
    <3>6. part(i) \in Seq(WordsIn(args))
      BY <1>1, <1>2, <1>3, <3>1, PartType
    <3>7. part(i)[1] \in Range(part(i))
      <4> HIDE DEF part
      <4> QED
        BY <3>5, <3>6 DEF Range
    <3>8. part(i)[1] \in Range(words)
      BY <1>4, <3>1, <3>7
    <3> QED
      BY <3>8 DEF Range
  <2> QED
    BY <2>1, <2>2
<1>9. id \in DOMAIN firstPass <=> words # <<>>
  <2>1. \E j \in DOMAIN DefaultOptions : DefaultOptions[j].id = id
    BY <1>5 DEF BuiltIns
  <2>2. Given(DefaultOptions, Unset, args, id) <=> words # <<>>
    BY <2>1 DEF Given
  <2> QED
    BY <1>6, <1>7, <2>2, MapAt DEF FirstPassed
<1>10. id \in DOMAIN firstPass => firstPass[id] = words
  <2>1. \E j \in DOMAIN DefaultOptions : DefaultOptions[j].id = id
    BY <1>5 DEF BuiltIns
  <2>2. words # <<>> => Given(DefaultOptions, Unset, args, id)
    BY <2>1 DEF Given
  <2> QED
    BY <1>6, <1>9, <2>2, MapAt DEF FirstPassed
<1>11. words # <<>> => Last(words) # Unset
  <2> HIDE DEF words
  <2>1. words # <<>> => Last(words) \in WordsIn(args)
    BY <1>4 DEF Last
  <2> QED
    BY <1>1, <2>1 DEF IsCommandLine
<1>12. AutoComplete(firstPass) # Unset <=> words # <<>>
  <2>1. CASE words # <<>>
    BY <1>9, <1>10, <1>11, <2>1 DEF AutoComplete
  <2>2. CASE words = <<>>
    BY <1>9, <2>2 DEF AutoComplete
  <2> QED
    BY <2>1, <2>2
<1> QED
  BY <1>2, <1>8, <1>12, AskedIsUsed

LEMMA QuestionAsked ==
  ASSUME FirstPassed, NEW id \in Questions
  PROVE  IsTrue(firstPass[id]) <=> IsAsked(id)
<1>1. IsTrue(firstPass[id]) <=> UsesOf(DefaultOptions, id, args) # {}
  BY QuestionsAreFlags, FlagAsUsed DEF FirstPassed
<1> QED
  BY <1>1, AskedIsUsed DEF FirstPassed

-----------------------------------------------------------------------------
(* The two passes *)

LEMMA DeclaredPatterns ==
  ASSUME Input, SettingsRead
  PROVE  /\ Declared \in Seq(Range(Declared))
         /\ \A pattern \in Range(Declared) : IsPattern(pattern)
         /\ files[SettingsFileName] \in Contents
<1>1. files[SettingsFileName] \in Contents
  BY DEF Input, SettingsRead, Exists
<1> QED
  BY <1>1, MainFlowAssumption DEF SettingsRead, Declared

LEMMA DeclaredOwn ==
  ASSUME OwnOptions, Input, SettingsRead
  PROVE  Own(Declared, Len(Declared))
<1>1. Declared \in Seq(Range(Declared)) /\ files[SettingsFileName] \in Contents
  BY DeclaredPatterns
<1>2. \A k \in 1..Len(Declared) : Declared[k] \in Range(Declared)
  BY <1>1 DEF Range
<1>3. \A pattern \in Range(Declared) :
        /\ pattern.longOption \notin BuiltIns
        /\ \A id \in BuiltIns : /\ <<pattern.longOption, id>> \notin Abbreviations
                                /\ <<pattern.shortOption, id>> \notin Abbreviations
  BY <1>1 DEF OwnOptions, Declared, SettingsRead
<1> QED
  BY <1>2, <1>3 DEF Own

LEMMA BothPassesAgree ==
  ASSUME OwnOptions, Input, SecondPassed, NEW id \in BuiltIns \ {"command"}
  PROVE  /\ id \in DOMAIN firstPass <=> id \in DOMAIN optionsMap
         /\ id \in DOMAIN firstPass => firstPass[id] = optionsMap[id]
<1> DEFINE n == Len(Declared)
<1>1. Described(options, Declared, n) /\ Own(Declared, n)
  BY DeclaredOwn DEF SecondPassed
<1>2. /\ ~ParseFails(DefaultOptions, Unset, args, TRUE)
      /\ ~ParseFails(options, "command", args, FALSE)
      /\ firstPass = ToMap(DefaultValues, DefaultOptions, Unset, args)
      /\ optionsMap = ToMap(DefaultValues, options, "command", args)
  BY DEF SecondPassed, SettingsRead, FirstPassed
<1>3. UsesOf(DefaultOptions, id, args) = UsesOf(options, id, args)
      /\ WordsFor(DefaultOptions, Unset, args, id) = WordsFor(options, "command", args, id)
  BY <1>1, <1>2, SameWords DEF UsesOf
<1>4. Flags(options) = Flags(DefaultOptions)
  BY <1>1, FlagsKept
<1>5. (\E j \in DOMAIN options : options[j].id = id)
      /\ (\E j \in DOMAIN DefaultOptions : DefaultOptions[j].id = id)
  BY <1>1 DEF BuiltIns, Described
<1>6. Given(DefaultOptions, Unset, args, id) <=> Given(options, "command", args, id)
  BY <1>3, <1>5 DEF Given
<1> HIDE DEF n
<1>7. id \in DOMAIN firstPass <=> id \in DOMAIN optionsMap
  BY <1>2, <1>4, <1>6, MapAt
<1>8. CASE id \in Flags(DefaultOptions)
  BY <1>2, <1>3, <1>4, <1>7, <1>8, MapAt
<1>9. CASE id \notin Flags(DefaultOptions) /\ Given(options, "command", args, id)
  BY <1>2, <1>3, <1>4, <1>6, <1>7, <1>9, MapAt
<1>10. CASE id \notin Flags(DefaultOptions) /\ ~Given(options, "command", args, id)
  <2>1. ASSUME id \in DOMAIN firstPass
        PROVE  firstPass[id] = optionsMap[id]
    <3>1. id \in DOMAIN DefaultValues
      BY <1>2, <1>6, <1>10, <2>1, MapAt
    <3>2. firstPass[id] = DefaultValues[id]
      BY <1>2, <1>6, <1>10, <3>1, MapAt
    <3>3. optionsMap[id] = DefaultValues[id]
      BY <1>2, <1>4, <1>10, <3>1, MapAt
    <3> QED
      BY <3>2, <3>3
  <2> QED
    BY <1>7, <2>1
<1> QED
  BY <1>7, <1>8, <1>9, <1>10

\* What the second pass finds asked is asked.
LEMMA SecondPassAsked ==
  ASSUME OwnOptions, Input, SecondPassed, NEW id \in Questions
  PROVE  IsTrue(optionsMap[id]) <=> IsAsked(id)
<1>1. id \in BuiltIns \ {"command"} /\ id \in Flags(DefaultOptions)
  BY QuestionsAreFlags DEF Questions
<1>2. FirstPassed
  BY DEF SecondPassed, SettingsRead
<1>3. id \in DOMAIN firstPass
  BY <1>1, <1>2, MapAt DEF FirstPassed
<1>4. firstPass[id] = optionsMap[id]
  BY <1>1, <1>3, BothPassesAgree
<1> QED
  BY <1>2, <1>4, QuestionAsked

-----------------------------------------------------------------------------
(* Lists of patterns *)

LEMMA DescribedMore ==
  ASSUME NEW list, NEW declared, NEW n \in Nat, Described(list, declared, n),
         NEW pattern, pattern = declared[n + 1]
  PROVE  /\ pattern.longOption = Unset => Described(list, declared, n + 1)
         /\ pattern.longOption # Unset =>
              Described(Append(list, OptionOf(pattern)), declared, n + 1)
<1>1. \A k \in 1..(n + 1) : k \in 1..n \/ k = n + 1
  OBVIOUS
<1>2. \A k \in 1..n : k \in 1..(n + 1)
  OBVIOUS
<1>3. n + 1 \in 1..(n + 1)
  OBVIOUS
<1>4. ASSUME pattern.longOption = Unset
      PROVE  Described(list, declared, n + 1)
  BY <1>1, <1>2, <1>4 DEF Described
<1>5. ASSUME pattern.longOption # Unset
      PROVE  Described(Append(list, OptionOf(pattern)), declared, n + 1)
  <2> DEFINE last == OptionOf(pattern)
             longer == Append(list, last)
  <2>1. list \in Seq(Range(list))
    BY DEF Described
  <2>2. /\ longer \in Seq(Range(longer))
        /\ \A i \in DOMAIN longer : \/ i \in DOMAIN list /\ longer[i] = list[i]
                                    \/ longer[i] = last
    BY <2>1, ListAppended
  <2>3. /\ \A i \in DOMAIN list : i \in DOMAIN longer /\ longer[i] = list[i]
        /\ Len(list) + 1 \in DOMAIN longer /\ longer[Len(list) + 1] = last
        /\ Len(list) + 1 \notin DOMAIN list
    <3> HIDE DEF last
    <3> QED
      BY <2>1
  <2> HIDE DEF last, longer
  <2>4. \A i \in Defaults : i \in DOMAIN list /\ list[i] = DefaultOptions[i]
    BY DEF Described, Defaults
  <2>5. \A i \in Defaults : i \in DOMAIN longer /\ longer[i] = DefaultOptions[i]
    BY <2>3, <2>4
  <2>6. ASSUME NEW i \in DOMAIN longer \ Defaults
        PROVE  \E k \in 1..(n + 1) : /\ declared[k].longOption # Unset
                                     /\ longer[i] = OptionOf(declared[k])
    <3>1. CASE i \in DOMAIN list /\ longer[i] = list[i]
      <4>1. \E k \in 1..n : /\ declared[k].longOption # Unset
                            /\ list[i] = OptionOf(declared[k])
        BY <3>1 DEF Described, Defaults
      <4> QED
        BY <1>2, <3>1, <4>1
    <3>2. CASE longer[i] = last
      BY <1>3, <1>5, <3>2 DEF last
    <3> QED
      BY <2>2, <3>1, <3>2
  <2>7. ASSUME NEW k \in 1..(n + 1), declared[k].longOption # Unset
        PROVE  \E i \in DOMAIN longer \ Defaults : longer[i] = OptionOf(declared[k])
    <3>1. CASE k \in 1..n
      <4>1. PICK i \in DOMAIN list \ Defaults : list[i] = OptionOf(declared[k])
        BY <2>7, <3>1 DEF Described, Defaults
      <4> QED
        BY <2>3, <4>1
    <3>2. CASE k = n + 1
      <4>1. Len(list) + 1 \in DOMAIN longer \ Defaults
        BY <2>3, <2>4
      <4> QED
        BY <2>3, <3>2, <4>1 DEF last
    <3> QED
      BY <1>1, <3>1, <3>2
  <2> QED
    BY <2>2, <2>5, <2>6, <2>7 DEF Described, Defaults, longer, last
<1> QED
  BY <1>4, <1>5

LEMMA RemainsAll ==
  ASSUME NEW list, list \in Seq(Range(list))
  PROVE  Remains(list, list, 0)
BY DEF Remains

LEMMA RemainsNext ==
  ASSUME NEW rest, NEW list, list \in Seq(Range(list)), NEW n \in 0..Len(list),
         Remains(rest, list, n), rest # <<>>
  PROVE  /\ n + 1 \in 0..Len(list) /\ n + 1 \in DOMAIN list
         /\ Head(rest) = list[n + 1] /\ Len(list) - Len(rest) + 1 = n + 1
         /\ Remains(Tail(rest), list, n + 1)
<1>1. /\ rest \in Seq(Range(rest)) /\ n + Len(rest) = Len(list)
      /\ \A i \in DOMAIN rest : n + i \in DOMAIN list /\ rest[i] = list[n + i]
  BY DEF Remains
<1>2. /\ Tail(rest) \in Seq(Range(Tail(rest)))
      /\ \A i \in DOMAIN Tail(rest) : i + 1 \in DOMAIN rest /\ Tail(rest)[i] = rest[i + 1]
      /\ 1 \in DOMAIN rest /\ Head(rest) = rest[1]
  BY <1>1, ListsTail
<1>3. Len(rest) \in Nat /\ Len(rest) >= 1 /\ Len(list) \in Nat
      /\ Len(Tail(rest)) = Len(rest) - 1
      /\ DOMAIN Tail(rest) = 1..(Len(rest) - 1)
  BY <1>1
<1>4. \A i \in DOMAIN Tail(rest) :
        (n + 1) + i \in DOMAIN list /\ Tail(rest)[i] = list[(n + 1) + i]
  <2> TAKE i \in DOMAIN Tail(rest)
  <2>1. i + 1 \in DOMAIN rest /\ Tail(rest)[i] = rest[i + 1]
    BY <1>2
  <2>2. n + (i + 1) \in DOMAIN list /\ rest[i + 1] = list[n + (i + 1)]
    BY <1>1, <2>1
  <2>3. n + (i + 1) = (n + 1) + i
    BY <1>3
  <2> QED
    BY <2>1, <2>2, <2>3
<1>5. (n + 1) + Len(Tail(rest)) = Len(list)
  BY <1>1, <1>3
<1>6. Remains(Tail(rest), list, n + 1)
  BY <1>2, <1>4, <1>5 DEF Remains
<1>7. n + 1 \in 0..Len(list) /\ Len(list) - Len(rest) + 1 = n + 1
  <2> DEFINE whole  == Len(list)
             behind == Len(rest)
  <2>1. whole \in Nat /\ behind \in Nat /\ behind >= 1 /\ n \in Nat /\ n + behind = whole
    BY <1>1, <1>3
  <2> HIDE DEF whole, behind
  <2>2. n + 1 \in 0..whole /\ whole - behind + 1 = n + 1
    BY ONLY <2>1
  <2> QED
    BY <2>2 DEF whole, behind
<1>8. n + 1 \in DOMAIN list /\ Head(rest) = list[n + 1]
  BY <1>1, <1>2
<1> QED
  BY <1>6, <1>7, <1>8

LEMMA RemainsNothing ==
  ASSUME NEW list, list \in Seq(Range(list)), NEW n \in 0..Len(list),
         Remains(<<>>, list, n)
  PROVE  n = Len(list)
<1>1. Len(<<>>) = 0 /\ n + Len(<<>>) = Len(list)
  BY DEF Remains
<1> QED
  BY <1>1

-----------------------------------------------------------------------------
(* The invariant is one *)

LEMMA InvStart == Init => Inv
BY DEF Init, Inv, Input, InvFirst, InvSettings, InvOptions, InvQueries, InvCompletion,
       InvPatterns, InvCommander, InvOutput, Ends

\* What the first pass found stays.
LEMMA FoundStays ==
  ASSUME UNCHANGED <<input, firstPass>>
  PROVE  /\ Input' = Input /\ FirstPassed' = FirstPassed
         /\ SettingsRead' = SettingsRead /\ Declared' = Declared
BY DEF input, Input, FirstPassed, SettingsRead, Exists, Declared, SettingsFileName

LEMMA FoundTwiceStays ==
  ASSUME UNCHANGED <<input, firstPass, options, optionsMap>>
  PROVE  /\ SecondPassed' = SecondPassed /\ NothingAsked' = NothingAsked
         /\ Ready' = Ready
         /\ \A pattern : WithOptionValues(pattern)' = WithOptionValues(pattern)
<1>1. SettingsRead' = SettingsRead /\ Declared' = Declared
  BY FoundStays
<1>2. SecondPassed' = SecondPassed
  BY <1>1 DEF SecondPassed, input
<1>3. NothingAsked' = NothingAsked
  BY DEF NothingAsked
<1>4. Ready' = Ready
  BY <1>2, <1>3 DEF Ready, input
<1>5. \A pattern : WithOptionValues(pattern)' = WithOptionValues(pattern)
  BY DEF WithOptionValues
<1> QED
  BY <1>2, <1>3, <1>4, <1>5

LEMMA InvFirstPass == Inv /\ (FirstPass \/ FirstPassFails) => Inv'
<1>1. ASSUME Inv, FirstPass
      PROVE  Inv'
  <2>1. pc = "first pass" /\ pc' = "settings file" /\ UNCHANGED <<options, patterns, output>>
    BY <1>1 DEF FirstPass
  <2>2. Input' /\ options = DefaultOptions /\ patterns = <<>> /\ output = "nothing"
    BY <1>1, <2>1 DEF FirstPass, Inv, Input, InvFirst, InvOutput, Ends, input
  <2>3. FirstPassed'
    BY <1>1 DEF FirstPass, FirstPassed, input
  <2> QED
    BY <2>1, <2>2, <2>3
    DEF Inv, InvFirst, InvSettings, InvOptions, InvQueries, InvCompletion, InvPatterns,
        InvCommander, InvOutput
<1>2. ASSUME Inv, FirstPassFails
      PROVE  Inv'
  <2>1. pc' = "failure" /\ Input'
    BY <1>2 DEF FirstPassFails, Inv, Input, input
  <2> QED
    BY <2>1
    DEF Inv, InvFirst, InvSettings, InvOptions, InvQueries, InvCompletion, InvPatterns,
        InvCommander, InvOutput, Ends
<1> QED
  BY <1>1, <1>2

\* The process ends, though not to execute commands.
LEMMA InvEnds ==
  ASSUME Inv, UNCHANGED input, pc' \in Ends \ {"commander"}
  PROVE  Inv'
<1>1. Input'
  BY DEF Inv, Input, input
<1> QED
  BY <1>1
  DEF Inv, InvFirst, InvSettings, InvOptions, InvQueries, InvCompletion, InvPatterns,
      InvCommander, InvOutput, Ends

LEMMA InvReadSettings == Inv /\ ReadSettings => Inv'
<1> SUFFICES ASSUME Inv, ReadSettings
             PROVE  Inv'
  OBVIOUS
<1>1. UNCHANGED <<input, firstPass, options, output>> /\ pc = "settings file"
  BY DEF ReadSettings
<1>2. CASE files[SettingsFileName].kind = "settings"
  <2>1. pc' = "add options" /\ patterns' = Declared /\ left' = Declared
    BY <1>2 DEF ReadSettings, Declared
  <2>2. Input /\ SettingsRead /\ options = DefaultOptions /\ output = "nothing"
    BY <1>1, <1>2 DEF ReadSettings, SettingsRead, Inv, InvSettings, InvOutput, Ends
  <2>3. Input' /\ SettingsRead' /\ Declared' = Declared
    BY <1>1, <2>2, FoundStays
  <2>4. Declared \in Seq(Range(Declared)) /\ 0 \in 0..Len(Declared)
    BY <2>2, DeclaredPatterns
  <2>5. Described(options', Declared', 0) /\ Remains(left', Declared', 0)
    BY <1>1, <2>1, <2>2, <2>3, <2>4, DefaultsDescribed, RemainsAll
  <2>6. InvOptions'
    BY <2>1, <2>3, <2>4, <2>5 DEF InvOptions
  <2> QED
    BY <1>1, <2>1, <2>2, <2>3, <2>6
    DEF Inv, InvFirst, InvSettings, InvQueries, InvCompletion, InvPatterns,
        InvCommander, InvOutput
<1>3. CASE files[SettingsFileName].kind # "settings"
  BY <1>1, <1>3, InvEnds DEF ReadSettings, Ends
<1> QED
  BY <1>2, <1>3

LEMMA InvAddPatternOption == Inv /\ AddPatternOption => Inv'
<1> SUFFICES ASSUME Inv, AddPatternOption
             PROVE  Inv'
  OBVIOUS
<1>1. /\ UNCHANGED <<input, firstPass, pc, patterns, output>>
      /\ pc = "add options" /\ left # <<>> /\ left' = Tail(left)
      /\ options' = IF Head(left).longOption = Unset THEN options
                    ELSE Append(options, OptionOf(Head(left)))
  BY DEF AddPatternOption, OptionOf
<1>2. Input /\ SettingsRead /\ patterns = Declared
  BY <1>1 DEF Inv, InvOptions
<1>3. PICK n \in 0..Len(Declared) :
        Described(options, Declared, n) /\ Remains(left, Declared, n)
  BY <1>1 DEF Inv, InvOptions
<1>4. Input' /\ SettingsRead' /\ Declared' = Declared
  BY <1>1, <1>2, FoundStays
<1>5. Declared \in Seq(Range(Declared))
  BY <1>2, DeclaredPatterns
<1>6. /\ n + 1 \in 0..Len(Declared) /\ Head(left) = Declared[n + 1]
      /\ Remains(Tail(left), Declared, n + 1)
  BY <1>1, <1>3, <1>5, RemainsNext
<1>7. n \in Nat
  BY <1>3
<1>8. Described(options', Declared, n + 1)
  BY <1>1, <1>3, <1>6, <1>7, DescribedMore
<1>9. InvOptions'
  BY <1>1, <1>2, <1>4, <1>6, <1>8 DEF InvOptions
<1> QED
  BY <1>1, <1>4, <1>9
  DEF Inv, InvFirst, InvSettings, InvQueries, InvCompletion, InvPatterns,
      InvCommander, InvOutput

LEMMA InvSecondPass == Inv /\ SecondPass => Inv'
<1> SUFFICES ASSUME Inv, SecondPass
             PROVE  Inv'
  OBVIOUS
<1>1. /\ UNCHANGED <<input, firstPass, options, patterns, output>>
      /\ pc = "add options" /\ left = <<>> /\ pc' = "queries"
      /\ ~ParseFails(options, "command", args, FALSE)
      /\ optionsMap' = ToMap(DefaultValues, options, "command", args)
  BY DEF SecondPass
<1>2. Input /\ SettingsRead /\ patterns = Declared /\ output = "nothing"
  BY <1>1 DEF Inv, InvOptions, InvOutput, Ends
<1>3. PICK n \in 0..Len(Declared) :
        Described(options, Declared, n) /\ Remains(left, Declared, n)
  BY <1>1 DEF Inv, InvOptions
<1>4. Input' /\ SettingsRead' /\ Declared' = Declared
  BY <1>1, <1>2, FoundStays
<1>5. n = Len(Declared)
  BY <1>1, <1>2, <1>3, DeclaredPatterns, RemainsNothing
<1>6. SecondPassed'
  BY <1>1, <1>3, <1>4, <1>5 DEF SecondPassed, input
<1> QED
  BY <1>1, <1>2, <1>4, <1>6
  DEF Inv, InvFirst, InvSettings, InvOptions, InvQueries, InvCompletion, InvPatterns,
      InvCommander, InvOutput

LEMMA InvDiscoverPlugins == Inv /\ DiscoverPlugins => Inv'
<1> SUFFICES ASSUME Inv, DiscoverPlugins
             PROVE  Inv'
  OBVIOUS
<1>1. UNCHANGED <<input, firstPass, options, patterns, optionsMap>> /\ pc = "queries"
  BY DEF DiscoverPlugins, Undisturbed
<1>2. CASE IsTrue(optionsMap["list-plugins"])
  BY <1>1, <1>2, InvEnds DEF DiscoverPlugins, Answer, Ends
<1>3. CASE ~IsTrue(optionsMap["list-plugins"])
  <2>1. pc' = "completion" /\ output' = output
    BY <1>3 DEF DiscoverPlugins
  <2>2. NothingAsked
    BY <1>3 DEF DiscoverPlugins, NothingAsked
  <2>3. Input /\ SecondPassed /\ patterns = Declared /\ output = "nothing"
    BY <1>1 DEF Inv, InvQueries, InvOutput, Ends
  <2>4. Input' /\ SecondPassed' /\ NothingAsked' /\ Declared' = Declared
    BY <1>1, <2>2, <2>3, FoundStays, FoundTwiceStays
  <2> QED
    BY <1>1, <2>1, <2>3, <2>4
    DEF Inv, InvFirst, InvSettings, InvOptions, InvQueries, InvCompletion, InvPatterns,
        InvCommander, InvOutput
<1> QED
  BY <1>2, <1>3

LEMMA InvVerifyOptions == Inv /\ VerifyOptions => Inv'
<1> SUFFICES ASSUME Inv, VerifyOptions
             PROVE  Inv'
  OBVIOUS
<1>1. /\ UNCHANGED <<input, firstPass, options, patterns, optionsMap, output>>
      /\ pc = "completion" /\ AutoComplete(firstPass) = Unset
  BY DEF VerifyOptions, Undisturbed
<1>2. CASE Jobs(optionsMap, concurrency) = 0
  BY <1>1, <1>2, InvEnds DEF VerifyOptions, Ends
<1>3. CASE Jobs(optionsMap, concurrency) # 0
  <2>1. pc' = "patterns" /\ left' = patterns
    BY <1>3 DEF VerifyOptions
  <2>2. Input /\ SecondPassed /\ NothingAsked /\ patterns = Declared /\ output = "nothing"
    BY <1>1 DEF Inv, InvCompletion, InvOutput, Ends
  <2>3. Ready /\ SettingsRead
    BY <1>1, <1>3, <2>2 DEF Ready, SecondPassed
  <2>4. Input' /\ Ready' /\ Declared' = Declared
    BY <1>1, <2>2, <2>3, FoundStays, FoundTwiceStays
  <2>5. Declared \in Seq(Range(Declared)) /\ 0 \in 0..Len(Declared)
    BY <2>2, <2>3, DeclaredPatterns
  <2>6. ValuesSet(0)'
    <3>1. \A i \in DOMAIN Declared : ~(i <= 0)
      BY <2>5
    <3> QED
      BY <1>1, <2>2, <2>4, <2>5, <3>1 DEF ValuesSet
  <2>7. Remains(left', Declared', 0)
    BY <2>1, <2>2, <2>4, <2>5, RemainsAll
  <2>8. InvPatterns'
    BY <2>4, <2>5, <2>6, <2>7 DEF InvPatterns
  <2> QED
    BY <1>1, <2>1, <2>2, <2>4, <2>8
    DEF Inv, InvFirst, InvSettings, InvOptions, InvQueries, InvCompletion,
        InvCommander, InvOutput
<1> QED
  BY <1>2, <1>3

LEMMA InvSetPatternValues == Inv /\ SetPatternValues => Inv'
<1> SUFFICES ASSUME Inv, SetPatternValues
             PROVE  Inv'
  OBVIOUS
<1>1. /\ UNCHANGED <<input, firstPass, pc, options, optionsMap, output>>
      /\ pc = "patterns" /\ left # <<>> /\ left' = Tail(left)
      /\ patterns' = [patterns EXCEPT ![Len(patterns) - Len(left) + 1] = WithOptionValues(@)]
  BY DEF SetPatternValues
<1>2. Input /\ Ready /\ SettingsRead
  BY <1>1 DEF Inv, InvPatterns, Ready, SecondPassed
<1>3. PICK n \in 0..Len(Declared) : ValuesSet(n) /\ Remains(left, Declared, n)
  BY <1>1 DEF Inv, InvPatterns
<1>4. Input' /\ Ready' /\ Declared' = Declared
      /\ \A pattern : WithOptionValues(pattern)' = WithOptionValues(pattern)
  BY <1>1, <1>2, FoundStays, FoundTwiceStays
<1>5. Declared \in Seq(Range(Declared))
  BY <1>2, DeclaredPatterns
<1>6. /\ n + 1 \in 0..Len(Declared) /\ n + 1 \in DOMAIN Declared
      /\ Len(Declared) - Len(left) + 1 = n + 1
      /\ Remains(Tail(left), Declared, n + 1)
  BY <1>1, <1>3, <1>5, RemainsNext
<1>7. /\ patterns \in Seq(Range(patterns)) /\ Len(patterns) = Len(Declared)
      /\ \A i \in DOMAIN patterns :
           patterns[i] = IF i <= n THEN WithOptionValues(Declared[i]) ELSE Declared[i]
  BY <1>3 DEF ValuesSet
<1>8. patterns' = [patterns EXCEPT ![n + 1] = WithOptionValues(@)]
  BY <1>1, <1>6, <1>7
<1>9. DOMAIN patterns = 1..Len(Declared) /\ n \in Nat /\ Len(Declared) \in Nat
  BY <1>3, <1>5, <1>7
<1>10. DOMAIN patterns' = 1..Len(Declared)
       /\ \A i \in 1..Len(Declared) :
            patterns'[i] = IF i = n + 1 THEN WithOptionValues(patterns[i]) ELSE patterns[i]
  BY <1>8, <1>9
<1>11. \A i \in 1..Len(Declared) :
         patterns'[i] = IF i <= n + 1 THEN WithOptionValues(Declared[i]) ELSE Declared[i]
  <2> TAKE i \in 1..Len(Declared)
  <2>1. CASE i <= n
    BY <1>7, <1>9, <1>10, <2>1
  <2>2. CASE i = n + 1
    BY <1>7, <1>9, <1>10, <2>2
  <2>3. CASE i > n + 1
    BY <1>7, <1>9, <1>10, <2>3
  <2> QED
    BY <1>9, <2>1, <2>2, <2>3
<1>12. patterns' \in Seq(Range(patterns')) /\ Len(patterns') = Len(Declared)
  <2>1. patterns' = [i \in 1..Len(Declared) |-> patterns'[i]]
    BY <1>8, <1>9
  <2>2. \A i \in 1..Len(Declared) : patterns'[i] \in Range(patterns')
    BY <1>10 DEF Range
  <2> QED
    BY <1>9, <2>1, <2>2
<1>13. ValuesSet(n + 1)'
  BY <1>4, <1>10, <1>11, <1>12 DEF ValuesSet
<1>14. InvPatterns'
  BY <1>1, <1>4, <1>6, <1>13 DEF InvPatterns
<1> QED
  BY <1>1, <1>4, <1>14
  DEF Inv, InvFirst, InvSettings, InvOptions, InvQueries, InvCompletion,
      InvCommander, InvOutput

LEMMA InvRunCommander == Inv /\ RunCommander => Inv'
<1> SUFFICES ASSUME Inv, RunCommander
             PROVE  Inv'
  OBVIOUS
<1>1. /\ UNCHANGED <<input, firstPass, options, left, patterns, optionsMap, output>>
      /\ pc = "patterns" /\ left = <<>>
      /\ pc' = IF optionsMap["command"] = <<>> THEN "failure" ELSE "commander"
  BY DEF RunCommander
<1>2. CASE optionsMap["command"] = <<>>
  BY <1>1, <1>2, InvEnds DEF Ends
<1>3. CASE optionsMap["command"] # <<>>
  <2>1. pc' = "commander"
    BY <1>1, <1>3
  <2>2. Input /\ Ready /\ SettingsRead /\ output = "nothing"
    BY <1>1 DEF Inv, InvPatterns, InvOutput, Ends, Ready, SecondPassed
  <2>3. PICK n \in 0..Len(Declared) : ValuesSet(n) /\ Remains(left, Declared, n)
    BY <1>1 DEF Inv, InvPatterns
  <2>4. n = Len(Declared)
    BY <1>1, <2>2, <2>3, DeclaredPatterns, RemainsNothing
  <2>5. Input' /\ Ready' /\ Declared' = Declared
        /\ \A pattern : WithOptionValues(pattern)' = WithOptionValues(pattern)
    BY <1>1, <2>2, FoundStays, FoundTwiceStays
  <2>6. ValuesSet(Len(Declared))'
    BY <1>1, <2>3, <2>4, <2>5 DEF ValuesSet
  <2>7. InvCommander'
    BY <2>5, <2>6 DEF InvCommander
  <2> QED
    BY <1>1, <2>1, <2>2, <2>5, <2>7
    DEF Inv, InvFirst, InvSettings, InvOptions, InvQueries, InvCompletion, InvPatterns,
        InvOutput
<1> QED
  BY <1>2, <1>3

LEMMA InvUnchanged == Inv /\ UNCHANGED vars => Inv'
<1> SUFFICES ASSUME Inv, UNCHANGED vars
             PROVE  Inv'
  OBVIOUS
<1>1. UNCHANGED <<input, firstPass, options, left, patterns, optionsMap, output, pc>>
  BY DEF vars, input
<1>2. /\ Input' = Input /\ FirstPassed' = FirstPassed
      /\ SettingsRead' = SettingsRead /\ Declared' = Declared
  BY <1>1, FoundStays
<1>3. /\ SecondPassed' = SecondPassed /\ NothingAsked' = NothingAsked /\ Ready' = Ready
      /\ \A pattern : WithOptionValues(pattern)' = WithOptionValues(pattern)
  BY <1>1, FoundTwiceStays
<1>4. \A n : ValuesSet(n)' = ValuesSet(n)
  BY <1>1, <1>2, <1>3 DEF ValuesSet
<1>5. InvPatterns' /\ InvCommander'
  BY <1>1, <1>2, <1>3, <1>4 DEF Inv, InvPatterns, InvCommander
<1> QED
  BY <1>1, <1>2, <1>3, <1>5
  DEF Inv, InvFirst, InvSettings, InvOptions, InvQueries, InvCompletion, InvOutput

LEMMA InvNext == Inv /\ [Next]_vars => Inv'
<1>1. Inv /\ WithoutSettingsFile => Inv'
  BY InvEnds DEF WithoutSettingsFile, Ends
<1>2. Inv /\ (SecondPassFails \/ PrintHelp \/ PrintVersion \/ CompleteWord) => Inv'
  BY InvEnds DEF SecondPassFails, PrintHelp, PrintVersion, CompleteWord, Answer,
                 Undisturbed, Ends
<1> QED
  BY <1>1, <1>2, InvFirstPass, InvReadSettings, InvAddPatternOption, InvSecondPass,
     InvDiscoverPlugins, InvVerifyOptions, InvSetPatternValues, InvRunCommander,
     InvUnchanged DEF Next, Done

-----------------------------------------------------------------------------
(* Jobs *)

LEMMA JobsType ==
  ASSUME Input
  PROVE  Jobs(optionsMap, concurrency) \in Nat
<1>1. concurrency \in Nat
  BY MainFlowAssumption, OptionsAssumption DEF Input
<1>2. ASSUME NEW word
      PROVE  CastJobs(word) \in Nat
  <2>1. CASE word \in DOMAIN Numbers /\ Numbers[word] \in 1 - JobsLimit..JobsLimit - 1
    <3>1. JobsLimit \in Nat /\ JobsLimit > 0 /\ Numbers[word] \in Int
      BY <2>1, OptionsAssumption
    <3>2. Numbers[word] % JobsLimit \in Nat
      BY <3>1
    <3> QED
      BY <2>1, <3>2 DEF CastJobs
  <2>2. CASE ~(word \in DOMAIN Numbers /\ Numbers[word] \in 1 - JobsLimit..JobsLimit - 1)
    BY <2>2 DEF CastJobs
  <2> QED
    BY <2>1, <2>2
<1> QED
  BY <1>1, <1>2 DEF Jobs

\* The number that is asked for is the one there are.
LEMMA JobsGiven ==
  ASSUME Input, SecondPassed, NEW i \in DOMAIN args,
         args[i].option \in {"jobs", "j"}, args[i].values # <<>>,
         NEW word, word = args[i].values[1],
         word \in DOMAIN Numbers, Numbers[word] \in 1..JobsLimit - 1
  PROVE  Jobs(optionsMap, concurrency) = Numbers[word]
<1> DEFINE words == WordsFor(options, "command", args, "jobs")
           part(k) == Part(options, "command", args[k], "jobs")
<1>1. IsCommandLine(args)
  BY MainFlowAssumption DEF Input
<1>2. Described(options, Declared, Len(Declared))
      /\ ~ParseFails(options, "command", args, FALSE)
      /\ optionsMap = ToMap(DefaultValues, options, "command", args)
  BY DEF SecondPassed
<1>3. 4 \in Defaults /\ DefaultOptions[4].id = "jobs" /\ DefaultOptions[4].short = "j"
      /\ DefaultOptions[4].kind = "value"
  BY DefaultsList DEF DefaultOptions, Option
<1>4. 4 \in DOMAIN options /\ options[4] = DefaultOptions[4]
  BY <1>2, <1>3 DEF Described, Defaults
<1>5. args[i].option # NoOption
  BY <1>3, DefaultsAreNames
<1>6. Single(options, args[i], 4)
  <2>1. PICK c : Single(options, args[i], c)
    BY <1>2, <1>5, ParsedAll
  <2>2. 4 \in InFull(options, args[i].option)
    BY <1>3, <1>4 DEF InFull
  <2>3. 4 \in Matching(options, args[i].option)
    BY <2>2, MatchingFull
  <2>4. c = 4
    BY <2>1, <2>3 DEF Single
  <2> QED
    BY <2>1, <2>4
<1>7. IsUseOf(options, "jobs", args[i])
  BY <1>3, <1>4, <1>6, SingleUse
<1>8. \A k \in DOMAIN args : IsUseOf(options, "jobs", args[k]) => k = i
  <2>1. ~Several(UsesOf(options, "jobs", args))
    BY <1>2, <1>3, <1>4 DEF ParseFails
  <2> QED
    BY <1>7, <2>1 DEF Several, UsesOf
<1>9. \A k \in DOMAIN args : k # i => part(k) = <<>>
  BY <1>1, <1>2, <1>8, PartOfUse
<1>10. Len(part(i)) = 1 /\ part(i)[1] = word
  BY <1>1, <1>2, <1>3, <1>4, <1>6, PartOfUse
<1>11. part(i) \in Seq(WordsIn(args))
  BY <1>1, <1>2, PartType
<1>12. /\ words \in Seq(WordsIn(args))
       /\ \A k \in DOMAIN words : \E j \in DOMAIN args : words[k] \in Range(part(j))
       /\ \A j \in DOMAIN args : Range(part(j)) \subseteq Range(words)
  BY <1>1, <1>2, WordsOfParts
<1> HIDE DEF part
<1>13. Range(part(i)) = {word}
  BY <1>10, <1>11 DEF Range
<1>14. \A k \in DOMAIN args : k # i => Range(part(k)) = {}
  BY <1>9 DEF Range
<1> HIDE DEF words
<1>15. \A k \in DOMAIN words : words[k] = word
  BY <1>12, <1>13, <1>14
<1>16. words # <<>>
  <2>1. word \in Range(words)
    BY <1>12, <1>13
  <2>2. \E k \in DOMAIN words : words[k] = word
    BY <2>1 DEF Range
  <2> QED
    BY <2>2
<1>17. Last(words) = word
  BY <1>12, <1>15, <1>16 DEF Last
<1>18. optionsMap["jobs"] = words
  <2>1. "jobs" \notin Flags(options)
    <3>1. "jobs" \notin Flags(DefaultOptions)
      BY DefaultKinds DEF Flags, Defaults
    <3> QED
      BY <1>2, <3>1, FlagsKept
  <2>2. Given(options, "command", args, "jobs")
    BY <1>3, <1>4, <1>16 DEF Given, words
  <2> QED
    BY <1>2, <2>1, <2>2, MapAt DEF words
<1>19. word # "auto" /\ Numbers[word] \in Int /\ JobsLimit \in Nat /\ JobsLimit > 0
  BY OptionsAssumption
<1>20. CastJobs(word) = Numbers[word]
  <2>1. Numbers[word] \in 1 - JobsLimit..JobsLimit - 1
    BY <1>19
  <2>2. Numbers[word] % JobsLimit = Numbers[word]
    BY <1>19
  <2> QED
    BY <2>1, <2>2 DEF CastJobs
<1> QED
  BY <1>17, <1>18, <1>19, <1>20 DEF Jobs

-----------------------------------------------------------------------------
(* The theorems *)

LEMMA Invariance == Spec => []Inv
  BY InvStart, InvNext, PTL DEF Spec

\* There is a job at least for commands to be executed with, and where a number
\* of them is asked for that there can be, that number: for any command line and
\* any patterns, those that clash with the options of exec-helper included,
\* because such a command line is refused.
THEOREM JobsCorrect == Spec => []JobsAsAsked
<1>1. Inv => JobsAsAsked
  <2> SUFFICES ASSUME Inv, pc = "commander"
               PROVE  /\ Jobs(optionsMap, concurrency) > 0
                      /\ \A i \in DOMAIN args :
                           /\ args[i].option \in {"jobs", "j"} /\ args[i].values # <<>>
                           /\ args[i].values[1] \in DOMAIN Numbers
                           /\ Numbers[args[i].values[1]] \in 1..JobsLimit - 1
                           => Jobs(optionsMap, concurrency) = Numbers[args[i].values[1]]
    BY DEF JobsAsAsked
  <2>1. Input /\ SecondPassed /\ Jobs(optionsMap, concurrency) # 0
    BY DEF Inv, InvCommander, Ready
  <2>2. Jobs(optionsMap, concurrency) > 0
    BY <2>1, JobsType
  <2> QED
    BY <2>1, <2>2, JobsGiven
<1> QED
  BY <1>1, Invariance, PTL

\* The two passes mean the same by the options of exec-helper, as long as the
\* options of patterns are others.
THEOREM PassesMeanTheSame ==
  ASSUME OwnOptions
  PROVE  Spec => []PassesAgree
<1>1. Inv => PassesAgree
  <2> SUFFICES ASSUME Inv, pc \in {"queries", "completion", "patterns", "commander"},
                      NEW id \in BuiltIns \ {"command"}
               PROVE  /\ (id \in DOMAIN firstPass) = (id \in DOMAIN optionsMap)
                      /\ id \in DOMAIN firstPass => firstPass[id] = optionsMap[id]
    BY DEF PassesAgree
  <2>1. Input /\ SecondPassed
    BY DEF Inv, InvQueries, InvCompletion, InvPatterns, InvCommander, Ready
  <2> QED
    BY <2>1, BothPassesAgree
<1> QED
  BY <1>1, Invariance, PTL

\* However the process ends, a command line that asks something has been
\* answered, with what was asked and nothing else, and one that asks nothing has
\* not, unless the command line has a mistake or the settings file that is found
\* cannot be read.  No end is left out: words are completed whenever that was
\* asked in the first pass.
THEOREM QuestionsAnswered ==
  ASSUME OwnOptions
  PROVE  Spec => []AnswersTheQuestion
<1> DEFINE Good == \/ Asked # "nothing" /\ pc = "success" /\ output = Asked
                   \/ Asked = "nothing" /\ pc # "success"
                   \/ IsMistyped /\ pc = "failure"
                   \/ IsUnreadable /\ pc = "terminated"
           Answered == pc \in Ends => Good
<1>1. Init => Answered
  BY DEF Init, Ends
<1>2. Inv /\ Answered /\ [Next]_vars => Answered'
  <2> SUFFICES ASSUME Inv, Answered, [Next]_vars, pc' \in Ends
               PROVE  Good'
    OBVIOUS
  <2>1. Asked' = Asked
    BY DEF Next, vars, input, Undisturbed, FirstPass, FirstPassFails,
           WithoutSettingsFile, ReadSettings, AddPatternOption, SecondPass,
           SecondPassFails, PrintHelp, PrintVersion, DiscoverPlugins, CompleteWord,
           VerifyOptions, SetPatternValues, RunCommander, Done, Asked, IsAsked
  <2>2. CASE WithoutSettingsFile
    <3>1. Input /\ FirstPassed
      BY <2>2 DEF WithoutSettingsFile, Inv, InvSettings
    <3>2. \A id \in Questions : IsTrue(firstPass[id]) <=> IsAsked(id)
      BY <3>1, QuestionAsked
    <3>3. AutoComplete(firstPass) # Unset <=> IsAsked("auto-complete")
      BY <3>1, CompletionAsked
    <3>4. IF Asked = "nothing" THEN pc' = "failure"
          ELSE pc' = "success" /\ output' = Asked
      BY <2>2, <3>2, <3>3 DEF WithoutSettingsFile, Asked, Questions
    <3> QED
      BY <2>1, <3>4
  <2>3. CASE PrintHelp \/ PrintVersion \/ DiscoverPlugins
    <3>1. Input /\ SecondPassed
      BY <2>3 DEF PrintHelp, PrintVersion, DiscoverPlugins, Inv, InvQueries
    <3>2. \A id \in Questions : IsTrue(optionsMap[id]) <=> IsAsked(id)
      BY <3>1, SecondPassAsked
    <3>3. Asked # "nothing" /\ pc' = "success" /\ output' = Asked
      BY <2>3, <3>2
      DEF PrintHelp, PrintVersion, DiscoverPlugins, Answer, Asked, Questions, Ends
    <3> QED
      BY <2>1, <3>3
  <2>4. CASE CompleteWord
    <3>1. Input /\ SecondPassed /\ NothingAsked /\ FirstPassed
      BY <2>4 DEF CompleteWord, Inv, InvCompletion, SecondPassed, SettingsRead
    <3>2. \A id \in Questions : ~IsAsked(id)
      BY <3>1, SecondPassAsked DEF NothingAsked, Questions
    <3>3. IsAsked("auto-complete")
      BY <2>4, <3>1, CompletionAsked DEF CompleteWord
    <3>4. AutoComplete(optionsMap) # Unset
      <4>1. "auto-complete" \in BuiltIns \ {"command"}
        BY DefaultsList
      <4>2. /\ ("auto-complete" \in DOMAIN firstPass)
                 = ("auto-complete" \in DOMAIN optionsMap)
            /\ "auto-complete" \in DOMAIN firstPass
                 => firstPass["auto-complete"] = optionsMap["auto-complete"]
        BY <3>1, <4>1, BothPassesAgree
      <4> QED
        BY <2>4, <4>2 DEF CompleteWord, AutoComplete
    <3>5. pc' = "success" /\ output' = "completions"
      BY <2>4, <3>4 DEF CompleteWord, Answer
    <3>6. Asked = "completions"
      BY <3>2, <3>3 DEF Asked, Questions
    <3> QED
      BY <2>1, <3>5, <3>6
  <2>5. CASE FirstPassFails \/ SecondPassFails
    <3>1. CASE FirstPassFails
      BY <3>1 DEF FirstPassFails, IsMistyped, input
    <3>2. CASE SecondPassFails
      <4>1. Exists(SettingsFileName)
        BY <3>2 DEF SecondPassFails, Inv, InvOptions, SettingsRead
      <4>2. IsMistyped'
        BY <3>2, <4>1 DEF SecondPassFails, IsMistyped, input, Exists, SettingsFileName
      <4> QED
        BY <3>2, <4>2 DEF SecondPassFails
    <3> QED
      BY <2>5, <3>1, <3>2
  <2>6. CASE ReadSettings
    <3>1. pc' = "terminated" /\ IsUnreadable
      BY <2>6 DEF ReadSettings, IsUnreadable, Ends
    <3>2. IsUnreadable'
      BY <2>6, <3>1 DEF ReadSettings, IsUnreadable, input, Exists, SettingsFileName
    <3> QED
      BY <3>1, <3>2
  <2>7. CASE VerifyOptions \/ RunCommander
    <3>1. pc' # "success"
      BY <2>7 DEF VerifyOptions, RunCommander
    <3>2. /\ Input /\ SecondPassed /\ NothingAsked /\ FirstPassed
          /\ AutoComplete(firstPass) = Unset
      BY <2>7 DEF VerifyOptions, RunCommander, Inv, InvCompletion, InvPatterns, Ready,
                  SecondPassed, SettingsRead
    <3>3. \A id \in Questions : ~IsAsked(id)
      BY <3>2, SecondPassAsked DEF NothingAsked, Questions
    <3>4. ~IsAsked("auto-complete")
      BY <3>2, CompletionAsked
    <3>5. Asked = "nothing"
      BY <3>3, <3>4 DEF Asked, Questions
    <3> QED
      BY <2>1, <3>1, <3>5
  <2>8. CASE Done \/ UNCHANGED vars
    <3>1. UNCHANGED vars
      BY <2>8 DEF Done
    <3>2. pc \in Ends /\ Good
      BY <3>1 DEF vars
    <3>3. IsMistyped' = IsMistyped /\ IsUnreadable' = IsUnreadable
      BY <3>1 DEF vars, IsMistyped, IsUnreadable, Exists, SettingsFileName
    <3> QED
      BY <2>1, <3>1, <3>2, <3>3 DEF vars
  <2>9. CASE FirstPass \/ AddPatternOption \/ SecondPass \/ SetPatternValues
    <3>1. pc \notin Ends /\ (pc' = pc \/ pc' \in {"settings file", "queries"})
      BY <2>9 DEF FirstPass, AddPatternOption, SecondPass, SetPatternValues, Ends
    <3> QED
      BY <3>1 DEF Ends
  <2> QED
    BY <2>2, <2>3, <2>4, <2>5, <2>6, <2>7, <2>8, <2>9 DEF Next
<1>3. Inv /\ Answered => AnswersTheQuestion
  BY DEF AnswersTheQuestion, Inv, InvOutput
<1> HIDE DEF Answered
<1> QED
  BY <1>1, <1>2, <1>3, Invariance, PTL DEF Spec

-----------------------------------------------------------------------------
(* Values of patterns *)

LEMMA DefaultsInMap == DOMAIN DefaultValues = BuiltIns \ {"auto-complete"}
  BY DEF DefaultValues

LEMMA FlagsAreBuiltIns == Flags(DefaultOptions) \subseteq BuiltIns
  BY DEF Flags, BuiltIns

\* The long option of a pattern is among the options when it was given.
LEMMA PatternInMap ==
  ASSUME SecondPassed, NEW id, id \notin BuiltIns
  PROVE  /\ id \in DOMAIN optionsMap <=> Given(options, "command", args, id)
         /\ id \in DOMAIN optionsMap =>
              optionsMap[id] = WordsFor(options, "command", args, id)
<1>1. optionsMap = ToMap(DefaultValues, options, "command", args)
  BY DEF SecondPassed
<1>2. id \notin Flags(options)
  BY FlagsKept, FlagsAreBuiltIns DEF SecondPassed
<1>3. id \notin DOMAIN DefaultValues
  BY DefaultsInMap
<1> QED
  BY <1>1, <1>2, <1>3, MapAt

LEMMA DeclaredPattern ==
  ASSUME Input, SettingsRead, NEW i \in DOMAIN Declared
  PROVE  Declared[i] \in Range(Declared) /\ IsPattern(Declared[i])
<1>1. Declared[i] \in Range(Declared)
  BY DEF Range
<1> QED
  BY <1>1, DeclaredPatterns

\* Values change, and nothing else of a pattern.
LEMMA WithValues ==
  ASSUME NEW pattern, IsPattern(pattern)
  PROVE  LET new == WithOptionValues(pattern)
             given == /\ pattern.longOption \in DOMAIN optionsMap
                      /\ optionsMap[pattern.longOption] # Unset
         IN /\ new.longOption = pattern.longOption
            /\ given => new.values = optionsMap[pattern.longOption]
            /\ ~given => new = pattern
<1>1. pattern = [key |-> pattern.key, values |-> pattern.values,
                 longOption |-> pattern.longOption, shortOption |-> pattern.shortOption]
  BY DEF IsPattern
<1>2. \A v : /\ [pattern EXCEPT !.values = v].values = v
             /\ [pattern EXCEPT !.values = v].longOption = pattern.longOption
  BY <1>1
<1> QED
  BY <1>2 DEF WithOptionValues

\* Patterns that are declared with values have some, and those that are given
\* get some.
LEMMA ValuesKept ==
  ASSUME OwnOptions, DefaultsGiven, Input, SecondPassed, NEW i \in DOMAIN Declared
  PROVE  Declared[i].values # <<>> /\ WithOptionValues(Declared[i]).values # <<>>
<1>1. SettingsRead
  BY DEF SecondPassed
<1>2. Declared[i] \in Range(Declared) /\ IsPattern(Declared[i])
      /\ files[SettingsFileName] \in Contents
  BY <1>1, DeclaredPatterns, DeclaredPattern
<1>3. Declared[i].values # <<>> /\ Declared[i].longOption \notin BuiltIns
  BY <1>1, <1>2 DEF OwnOptions, DefaultsGiven, SettingsRead, Declared
<1>4. CASE Declared[i].longOption \in DOMAIN optionsMap
  <2>1. optionsMap[Declared[i].longOption] # <<>>
    BY <1>3, <1>4, PatternInMap DEF Given
  <2> QED
    BY <1>2, <1>3, <2>1, WithValues
<1>5. CASE Declared[i].longOption \notin DOMAIN optionsMap
  BY <1>2, <1>3, <1>5, WithValues
<1> QED
  BY <1>4, <1>5

ValuesOK == \A i \in DOMAIN patterns : patterns[i].values # <<>>

\* What the types are; the options have all the keys they are read by, and
\* patterns, if they are declared with values, keep having some.
THEOREM TypeCorrect ==
  ASSUME OwnOptions, DefaultsGiven
  PROVE  Spec => []TypeOK
<1> DEFINE OutcomeOK ==
             /\ pc \in Ends \cup {"first pass", "settings file", "add options",
                                  "queries", "completion", "patterns"}
             /\ output \in {"nothing", "help", "version", "plugins", "completions"}
             /\ executor \in {"none", "reporting", "ignoring failures",
                              "exiting on failure"}
           KeysOK == BuiltIns \ {"auto-complete"} \subseteq DOMAIN optionsMap
<1>1. Init => OutcomeOK /\ KeysOK /\ ValuesOK
  <2> SUFFICES ASSUME Init
               PROVE  OutcomeOK /\ KeysOK /\ ValuesOK
    OBVIOUS
  <2>1. OutcomeOK
    BY DEF Init
  <2>2. KeysOK
    BY DefaultsInMap DEF Init
  <2>3. ValuesOK
    <3>1. \A i \in DOMAIN <<>> : FALSE
      OBVIOUS
    <3> QED
      BY <3>1 DEF Init, ValuesOK
  <2> QED
    BY <2>1, <2>2, <2>3
<1>2. OutcomeOK /\ [Next]_vars => OutcomeOK'
  BY DEF Next, vars, Ends, input, Undisturbed, Answer, FirstPass, FirstPassFails,
         WithoutSettingsFile, ReadSettings, AddPatternOption, SecondPass,
         SecondPassFails, PrintHelp, PrintVersion, DiscoverPlugins, CompleteWord,
         VerifyOptions, SetPatternValues, RunCommander, Done, Executor
<1>3. KeysOK /\ [Next]_vars => KeysOK'
  <2>1. SecondPass => KeysOK'
    <3> SUFFICES ASSUME SecondPass, NEW id \in BuiltIns \ {"auto-complete"}
                 PROVE  id \in DOMAIN optionsMap'
      OBVIOUS
    <3>1. optionsMap' = ToMap(DefaultValues, options, "command", args)
      BY DEF SecondPass
    <3> QED
      BY <3>1, DefaultsInMap, MapAt
  <2>2. [Next]_vars /\ ~SecondPass => optionsMap' = optionsMap
    BY DEF Next, vars, Undisturbed, FirstPass, FirstPassFails,
           WithoutSettingsFile, ReadSettings, AddPatternOption,
           SecondPassFails, PrintHelp, PrintVersion, DiscoverPlugins, CompleteWord,
           VerifyOptions, SetPatternValues, RunCommander, Done
  <2> QED
    BY <2>1, <2>2
<1>4. Inv /\ Inv' /\ ValuesOK /\ [Next]_vars => ValuesOK'
  <2> SUFFICES ASSUME Inv, Inv', ValuesOK, [Next]_vars
               PROVE  ValuesOK'
    OBVIOUS
  <2>1. CASE ReadSettings /\ patterns' # patterns
    <3>1. /\ pc = "settings file" /\ Exists(SettingsFileName)
          /\ files[SettingsFileName].kind = "settings"
          /\ patterns' = Declared
      BY <2>1 DEF ReadSettings, Declared
    <3>2. Input /\ SettingsRead
      BY <3>1 DEF Inv, InvSettings, SettingsRead
    <3>3. files[SettingsFileName] \in Contents
      BY <3>2, DeclaredPatterns
    <3>4. \A i \in DOMAIN Declared : Declared[i].values # <<>>
      <4> TAKE i \in DOMAIN Declared
      <4>1. Declared[i] \in Range(Declared)
        BY <3>2, DeclaredPattern
      <4> QED
        BY <3>1, <3>3, <4>1 DEF DefaultsGiven, Declared
    <3> QED
      BY <3>1, <3>4 DEF ValuesOK
  <2>2. CASE SetPatternValues
    <3>1. /\ UNCHANGED <<input, firstPass, pc, options, optionsMap>> /\ pc = "patterns"
      BY <2>2 DEF SetPatternValues
    <3>2. Input /\ Ready /\ SecondPassed /\ SettingsRead
      BY <3>1 DEF Inv, InvPatterns, Ready, SecondPassed
    <3>3. Declared' = Declared
          /\ \A pattern : WithOptionValues(pattern)' = WithOptionValues(pattern)
      BY <3>1, FoundStays, FoundTwiceStays
    <3>4. PICK n : ValuesSet(n)'
      BY <3>1 DEF Inv, InvPatterns
    <3>5. /\ DOMAIN patterns' = DOMAIN Declared
          /\ \A i \in DOMAIN patterns' :
               patterns'[i] = IF i <= n THEN WithOptionValues(Declared[i]) ELSE Declared[i]
      <4>1. /\ patterns' \in Seq(Range(patterns')) /\ Len(patterns') = Len(Declared)
            /\ \A i \in DOMAIN patterns' :
                 patterns'[i] = IF i <= n THEN WithOptionValues(Declared[i]) ELSE Declared[i]
        BY <3>3, <3>4 DEF ValuesSet
      <4>2. Declared \in Seq(Range(Declared))
        BY <3>2, DeclaredPatterns
      <4> QED
        BY <4>1, <4>2
    <3>6. \A i \in DOMAIN Declared :
            Declared[i].values # <<>> /\ WithOptionValues(Declared[i]).values # <<>>
      BY <3>2, ValuesKept
    <3> QED
      BY <3>5, <3>6 DEF ValuesOK
  <2>3. CASE patterns' = patterns
    BY <2>3 DEF ValuesOK
  <2>4. ~SetPatternValues /\ ~ReadSettings => patterns' = patterns
    BY DEF Next, vars, Undisturbed, FirstPass, FirstPassFails,
           WithoutSettingsFile, AddPatternOption, SecondPass,
           SecondPassFails, PrintHelp, PrintVersion, DiscoverPlugins, CompleteWord,
           VerifyOptions, RunCommander, Done
  <2> QED
    BY <2>1, <2>2, <2>3, <2>4
<1>5. OutcomeOK /\ KeysOK /\ ValuesOK => TypeOK
  BY DEF TypeOK, ValuesOK
<1> HIDE DEF OutcomeOK, KeysOK
<1> QED
  BY <1>1, <1>2, <1>3, <1>4, <1>5, Invariance, PTL DEF Spec

\* What is typed for the option of a pattern is what the second pass takes it
\* by.
LEMMA NamesAreUses ==
  ASSUME Input, SecondPassed, NEW use, NEW c, Single(options, use, c),
         NEW k \in DOMAIN Declared, Declared[k].longOption # Unset
  PROVE  options[c].id = Declared[k].longOption <=> use.option \in NamesOf(Declared[k])
<1> DEFINE long == Declared[k].longOption
           typed == use.option
           own == {option \in Range(options) : option.id = long}
           names(some) == {option.id : option \in some} \cup {option.short : option \in some}
           shortened == {pair[1] : pair \in {p \in Abbreviations : p[2] = long}}
<1>1. NamesOf(Declared[k]) = names(own) \cup (shortened \ names(Range(options)))
  BY DEF NamesOf
<1>2. Matching(options, typed) = {c} /\ c \in DOMAIN options
  BY DEF Single
<1>3. \A i \in DOMAIN options : options[i] \in Range(options)
  BY DEF Range
<1>4. \A option \in Range(options) : \E i \in DOMAIN options : options[i] = option
  BY DEF Range
<1>5. typed \in shortened <=> <<typed, long>> \in Abbreviations
  <2>1. \A pair \in Abbreviations : pair = <<pair[1], pair[2]>>
    BY OptionsAssumption
  <2>2. ASSUME <<typed, long>> \in Abbreviations
        PROVE  typed \in shortened
    <3>1. <<typed, long>>[1] = typed /\ <<typed, long>>[2] = long
      OBVIOUS
    <3> QED
      BY <2>2, <3>1
  <2>3. ASSUME typed \in shortened
        PROVE  <<typed, long>> \in Abbreviations
    BY <2>1, <2>3
  <2> QED
    BY <2>2, <2>3
<1>6. typed \in names(Range(options)) <=> InFull(options, typed) # {}
  BY <1>3, <1>4 DEF InFull
<1>7. typed \in names(own) <=> \E i \in InFull(options, typed) : options[i].id = long
  BY <1>3, <1>4 DEF InFull
<1>8. \E i \in DOMAIN options : options[i].id = long
  <2>1. Declared \in Seq(Range(Declared))
    BY DeclaredPatterns DEF SecondPassed
  <2>2. k \in 1..Len(Declared)
    BY <2>1
  <2> QED
    BY <2>2 DEF SecondPassed, Described, OptionOf, Option
<1> HIDE DEF own, names, shortened
<1>9. CASE InFull(options, typed) # {}
  <2>1. InFull(options, typed) = {c}
    BY <1>2, <1>9, MatchingFull
  <2> QED
    BY <1>1, <1>6, <1>7, <2>1
<1>10. CASE InFull(options, typed) = {}
  <2>1. {i \in DOMAIN options : <<typed, options[i].id>> \in Abbreviations} = {c}
    BY <1>2, <1>10, MatchingFull
  <2>2. typed \in NamesOf(Declared[k]) <=> <<typed, long>> \in Abbreviations
    BY <1>1, <1>5, <1>6, <1>7, <1>10
  <2> QED
    BY <1>8, <2>1, <2>2
<1> QED
  BY <1>9, <1>10

\* An option of a pattern has words where it is used.
LEMMA PatternHasWords ==
  ASSUME OwnOptions, Input, SecondPassed, NEW i \in DOMAIN args, NEW c,
         Single(options, args[i], c), options[c].id \notin BuiltIns
  PROVE  args[i].values # <<>>
<1> DEFINE typed == args[i].option
<1>1. IsCommandLine(args)
  BY MainFlowAssumption DEF Input
<1>2. Described(options, Declared, Len(Declared)) /\ Own(Declared, Len(Declared))
  BY DeclaredOwn DEF SecondPassed
<1>3. \A j \in Defaults : j \in DOMAIN options /\ options[j] = DefaultOptions[j]
  BY <1>2 DEF Described, Defaults
<1>4. Matching(options, typed) = {c} /\ c \in DOMAIN options /\ c \notin Defaults
  BY <1>3 DEF Single, BuiltIns, Defaults
<1>5. Matching(DefaultOptions, typed) = {}
  <2>1. CASE InFull(options, typed) # {}
    <3>1. InFull(options, typed) = {c}
      BY <1>4, <2>1, MatchingFull
    <3>2. InFull(DefaultOptions, typed) = {}
      BY <1>3, <1>4, <3>1 DEF InFull, Defaults
    <3>3. PICK k \in 1..Len(Declared) : /\ options[c].id = Declared[k].longOption
                                       /\ options[c].short = Declared[k].shortOption
      BY <1>2, <1>4, OtherOptions
    <3>4. \A id \in BuiltIns : /\ <<options[c].id, id>> \notin Abbreviations
                               /\ <<options[c].short, id>> \notin Abbreviations
      BY <1>2, <3>3, Zenon DEF Own
    <3>5. typed = options[c].id \/ typed = options[c].short
      BY <3>1 DEF InFull
    <3>6. \A id \in BuiltIns : <<typed, id>> \notin Abbreviations
      <4>1. CASE typed = options[c].id
        BY <3>4, <4>1
      <4>2. CASE typed = options[c].short
        BY <3>4, <4>2
      <4> QED
        BY <3>5, <4>1, <4>2
    <3> QED
      BY <3>2, <3>6, MatchingFull DEF BuiltIns
  <2>2. CASE InFull(options, typed) = {}
    <3>1. {j \in DOMAIN options : <<typed, options[j].id>> \in Abbreviations} = {c}
      BY <1>4, <2>2, MatchingFull
    <3>2. InFull(DefaultOptions, typed) = {}
      BY <1>3, <2>2 DEF InFull, Defaults
    <3>3. {j \in Defaults : <<typed, DefaultOptions[j].id>> \in Abbreviations} = {}
      BY <1>3, <1>4, <3>1
    <3> QED
      BY <3>2, <3>3, MatchingFull DEF Defaults
  <2> QED
    BY <2>1, <2>2
<1> QED
  BY <1>1, <1>5, UseIsIn

\* NoOption is not what anybody types.
LEMMA NoOptionIsNoName ==
  ASSUME Input, SecondPassed, NEW k \in DOMAIN Declared
  PROVE  NoOption \notin NamesOf(Declared[k])
<1>1. \A i \in DOMAIN options : NoOption # options[i].id /\ NoOption # options[i].short
  <2> TAKE i \in DOMAIN options
  <2>1. Described(options, Declared, Len(Declared)) /\ SettingsRead
    BY DEF SecondPassed
  <2>2. CASE i \in Defaults
    BY <2>1, <2>2, DefaultsAreNames DEF Described, Defaults
  <2>3. CASE i \notin Defaults
    <3>1. PICK m \in 1..Len(Declared) : /\ options[i].id = Declared[m].longOption
                                       /\ options[i].short = Declared[m].shortOption
      BY <2>1, <2>3, OtherOptions
    <3>2. m \in DOMAIN Declared
      BY <2>1, DeclaredPatterns
    <3> QED
      BY <2>1, <3>1, <3>2, DeclaredPattern DEF IsPattern
  <2> QED
    BY <2>2, <2>3
<1>2. \A option \in Range(options) : NoOption # option.id /\ NoOption # option.short
  BY <1>1 DEF Range
<1>3. \A pair \in Abbreviations : pair[1] # NoOption
  BY OptionsAssumption
<1> QED
  BY <1>2, <1>3 DEF NamesOf

\* No option is named by Unset.
LEMMA UnsetIsNoName ==
  ASSUME Input, SecondPassed, NEW k \in DOMAIN Declared,
         Declared[k].longOption = Unset
  PROVE  /\ Unset \notin DOMAIN optionsMap
         /\ NamesOf(Declared[k]) = {}
<1>1. \A i \in DOMAIN options : options[i].id # Unset
  <2> TAKE i \in DOMAIN options
  <2>1. Described(options, Declared, Len(Declared))
    BY DEF SecondPassed
  <2>2. CASE i \in Defaults
    BY <2>1, <2>2, DefaultsAreNames DEF Described, Defaults, BuiltIns
  <2>3. CASE i \notin Defaults
    BY <2>1, <2>3, OtherOptions
  <2> QED
    BY <2>2, <2>3
<1>2. Unset \notin BuiltIns
  BY DefaultsAreNames
<1>3. Unset \notin DOMAIN optionsMap
  BY <1>1, <1>2, PatternInMap DEF Given
<1>4. {option \in Range(options) : option.id = Unset} = {}
  BY <1>1 DEF Range
<1>5. {p \in Abbreviations : p[2] = Unset} = {}
  BY OptionsAssumption
<1>6. NamesOf(Declared[k]) = {}
  BY <1>4, <1>5 DEF NamesOf
<1> QED
  BY <1>3, <1>6

\* What the second pass gives a pattern is what is typed for its option.
LEMMA PatternWords ==
  ASSUME OwnOptions, Input, SecondPassed, NEW k \in DOMAIN Declared,
         Declared[k].longOption # Unset
  PROVE  LET long == Declared[k].longOption
             names == NamesOf(Declared[k])
         IN /\ WordsFor(options, "command", args, long) = WordsOf(names)
            /\ IsUsed(names) <=> WordsFor(options, "command", args, long) # <<>>
            /\ WordsFor(options, "command", args, long) # Unset
            /\ \E j \in DOMAIN options : options[j].id = long
            /\ long \notin BuiltIns
<1> DEFINE long == Declared[k].longOption
           names == NamesOf(Declared[k])
           words == WordsFor(options, "command", args, long)
           part(i) == Part(options, "command", args[i], long)
<1>1. IsCommandLine(args)
  BY MainFlowAssumption DEF Input
<1>2. /\ Described(options, Declared, Len(Declared)) /\ Own(Declared, Len(Declared))
      /\ ~ParseFails(options, "command", args, FALSE)
  BY DeclaredOwn DEF SecondPassed
<1>3. k \in 1..Len(Declared)
  BY DeclaredPatterns DEF SecondPassed
<1>4. long \notin BuiltIns /\ "command" # long
  BY <1>2, <1>3, DefaultsList DEF Own
<1>5. \E j \in DOMAIN options : options[j].id = long
  BY <1>2, <1>3 DEF Described, OptionOf, Option
<1>6. ASSUME NEW i \in DOMAIN args
      PROVE  /\ args[i].option \in names => part(i) = args[i].values /\ part(i) # <<>>
             /\ args[i].option \notin names => part(i) = <<>>
  <2>1. CASE args[i].option = NoOption
    <3>1. args[i].option \notin names
      BY <2>1, NoOptionIsNoName
    <3>2. ~IsUseOf(options, long, args[i])
      BY <2>1 DEF IsUseOf, Known
    <3> QED
      BY <1>1, <1>2, <1>4, <3>1, <3>2, PartOfUse
  <2>2. CASE args[i].option # NoOption
    <3>1. PICK c : Single(options, args[i], c)
      BY <1>2, <2>2, ParsedAll
    <3>2. options[c].id = long <=> args[i].option \in names
      BY <3>1, NamesAreUses
    <3>3. CASE options[c].id = long
      <4>1. c \in DOMAIN options /\ c \notin Defaults
        <5>1. \A j \in Defaults : options[j].id \in BuiltIns
          BY <1>2 DEF Described, Defaults, BuiltIns
        <5> QED
          BY <1>4, <3>1, <3>3, <5>1 DEF Single
      <4>2. options[c].kind = "list"
        BY <1>2, <4>1, OtherOptions
      <4>3. part(i) = args[i].values
        BY <1>1, <1>2, <1>4, <3>1, <3>3, <4>2, PartOfUse
      <4>4. args[i].values # <<>>
        BY <1>4, <3>1, <3>3, PatternHasWords
      <4> QED
        BY <3>2, <3>3, <4>3, <4>4
    <3>4. CASE options[c].id # long
      <4>1. ~IsUseOf(options, long, args[i])
        BY <3>1, <3>4, SingleUse
      <4> QED
        BY <1>1, <1>2, <1>4, <3>2, <3>4, <4>1, PartOfUse
    <3> QED
      BY <3>3, <3>4
  <2> QED
    BY <2>1, <2>2
<1>7. words = WordsOf(names)
  <2>1. [i \in DOMAIN args |-> part(i)]
          = [i \in DOMAIN args |-> IF args[i].option \in names THEN args[i].values ELSE <<>>]
    <3> HIDE DEF part, names
    <3>1. \A i \in DOMAIN args :
            part(i) = IF args[i].option \in names THEN args[i].values ELSE <<>>
      BY <1>6
    <3> QED
      BY <3>1
  <2>2. words = FlattenSeq([i \in DOMAIN args |-> part(i)])
    BY WordsAreParts
  <2> QED
    BY <2>1, <2>2 DEF WordsOf
<1>8. /\ words \in Seq(WordsIn(args))
      /\ \A m \in DOMAIN words : \E i \in DOMAIN args : words[m] \in Range(part(i))
      /\ \A i \in DOMAIN args : Range(part(i)) \subseteq Range(words)
  BY <1>1, <1>2, WordsOfParts
<1>9. \A i \in DOMAIN args : part(i) \in Seq(WordsIn(args))
  BY <1>1, <1>2, PartType
<1>10. words # Unset
  BY <1>1, <1>8 DEF IsCommandLine
<1> HIDE DEF words, part, names
<1>11. ASSUME IsUsed(names)
       PROVE  words # <<>>
  <2>1. PICK i \in DOMAIN args : args[i].option \in names
    BY <1>11 DEF IsUsed
  <2>2. part(i) # <<>> /\ part(i) \in Seq(WordsIn(args))
    BY <1>6, <1>9, <2>1
  <2>3. part(i)[1] \in Range(part(i))
    BY <2>2 DEF Range
  <2>4. part(i)[1] \in Range(words)
    BY <1>8, <2>1, <2>3
  <2>5. \E m \in DOMAIN words : TRUE
    BY <2>4 DEF Range
  <2> QED
    BY <2>5
<1>12. ASSUME words # <<>>
       PROVE  IsUsed(names)
  <2>1. 1 \in DOMAIN words
    BY <1>8, <1>12
  <2>2. PICK i \in DOMAIN args : words[1] \in Range(part(i))
    BY <1>8, <2>1
  <2>3. part(i) # <<>>
    BY <2>2 DEF Range
  <2> QED
    BY <1>6, <2>3 DEF IsUsed
<1> QED
  BY <1>4, <1>5, <1>7, <1>10, <1>11, <1>12 DEF words, names

\* Commands are executed with patterns that have the words their options were
\* given, all of them and in their order, or the values they were declared with.
THEOREM PatternsGetTheirValues ==
  ASSUME OwnOptions
  PROVE  Spec => []PatternValuesChosen
<1>1. Inv => PatternValuesChosen
  <2> SUFFICES ASSUME Inv, pc = "commander", NEW i \in DOMAIN patterns
               PROVE  patterns[i].values =
                        IF IsUsed(NamesOf(patterns[i])) THEN WordsOf(NamesOf(patterns[i]))
                        ELSE Declared[i].values
    BY DEF PatternValuesChosen, Declared
  <2>1. Input /\ SecondPassed /\ SettingsRead /\ ValuesSet(Len(Declared))
    BY DEF Inv, InvCommander, Ready, SecondPassed
  <2>2. i \in DOMAIN Declared /\ patterns[i] = WithOptionValues(Declared[i])
    <3>1. /\ patterns \in Seq(Range(patterns)) /\ Len(patterns) = Len(Declared)
          /\ \A m \in DOMAIN patterns :
               patterns[m] = IF m <= Len(Declared) THEN WithOptionValues(Declared[m])
                             ELSE Declared[m]
      BY <2>1 DEF ValuesSet
    <3>2. Declared \in Seq(Range(Declared))
      BY <2>1, DeclaredPatterns
    <3>3. i \in DOMAIN Declared /\ i <= Len(Declared)
      BY <3>1, <3>2
    <3> QED
      BY <3>1, <3>3
  <2> DEFINE pattern == Declared[i]
             long == pattern.longOption
  <2>3. IsPattern(pattern)
    BY <2>1, <2>2, DeclaredPattern
  <2>4. /\ patterns[i].longOption = long
        /\ long \in DOMAIN optionsMap /\ optionsMap[long] # Unset
             => patterns[i].values = optionsMap[long]
        /\ ~(long \in DOMAIN optionsMap /\ optionsMap[long] # Unset)
             => patterns[i] = pattern
    BY <2>2, <2>3, WithValues
  <2>5. NamesOf(patterns[i]) = NamesOf(pattern)
    BY <2>4 DEF NamesOf
  <2>6. CASE long = Unset
    <3>1. Unset \notin DOMAIN optionsMap /\ NamesOf(pattern) = {}
      BY <2>1, <2>2, <2>6, UnsetIsNoName
    <3>2. ~IsUsed({})
      BY DEF IsUsed
    <3> QED
      BY <2>4, <2>5, <2>6, <3>1, <3>2
  <2>7. CASE long # Unset
    <3> DEFINE words == WordsFor(options, "command", args, long)
    <3>1. /\ words = WordsOf(NamesOf(pattern))
          /\ IsUsed(NamesOf(pattern)) <=> words # <<>>
          /\ words # Unset
          /\ \E j \in DOMAIN options : options[j].id = long
          /\ long \notin BuiltIns
      BY <2>1, <2>2, <2>7, PatternWords
    <3>2. /\ long \in DOMAIN optionsMap <=> words # <<>>
          /\ long \in DOMAIN optionsMap => optionsMap[long] = words
      BY <2>1, <3>1, PatternInMap DEF Given
    <3> HIDE DEF words
    <3> QED
      BY <2>4, <2>5, <3>1, <3>2
  <2> QED
    BY <2>6, <2>7
<1> QED
  BY <1>1, Invariance, PTL

-----------------------------------------------------------------------------
(* Every word counts *)

LEMMA PlaceIs ==
  ASSUME NEW word, NEW lists, NEW p
  PROVE  p \in Places(word, lists) <=>
           \E x \in DOMAIN lists : \E n \in DOMAIN lists[x] :
             p = <<x, n>> /\ lists[x][n] = word
<1> DEFINE all == UNION {{x} \X DOMAIN lists[x] : x \in DOMAIN lists}
<1>1. p \in all <=> \E x \in DOMAIN lists : \E n \in DOMAIN lists[x] : p = <<x, n>>
  OBVIOUS
<1>2. \A x, n : <<x, n>>[1] = x /\ <<x, n>>[2] = n
  OBVIOUS
<1>3. Places(word, lists) = {q \in all : lists[q[1]][q[2]] = word}
  BY DEF Places
<1> HIDE DEF all
<1> QED
  BY <1>1, <1>2, <1>3

\* The positions of a text that have a word
Hits(word, text) == {d \in DOMAIN text : text[d] = word}

\* Each of the lists is one of members of W.
AreTexts(lists, W) == \A x \in DOMAIN lists : lists[x] \in Seq(W)

\* Lists that have a text more in one place have each word as often more as the
\* text has it.
Longer(more, lists, x, text) ==
  /\ DOMAIN more = DOMAIN lists
  /\ more[x] = lists[x] \o text
  /\ \A y \in DOMAIN lists \ {x} : more[y] = lists[y]

LEMMA TimesMore ==
  ASSUME NEW W, NEW lists, AreTexts(lists, W),
         NEW x \in DOMAIN lists, NEW text \in Seq(W), NEW more,
         Longer(more, lists, x, text), NEW word, IsFiniteSet(Places(word, lists))
  PROVE  /\ IsFiniteSet(Places(word, more))
         /\ Times(word, more) = Times(word, lists) + Cardinality(Hits(word, text))
<1> DEFINE N == Len(lists[x])
           hits == Hits(word, text)
           new == {<<x, N + d>> : d \in hits}
           old == Places(word, lists)
<1>1. /\ N \in Nat /\ Len(text) \in Nat /\ DOMAIN text = 1..Len(text)
      /\ DOMAIN lists[x] = 1..N
  BY DEF AreTexts
<1>2. /\ DOMAIN more[x] = 1..(N + Len(text))
      /\ \A n \in 1..N : more[x][n] = lists[x][n]
      /\ \A d \in 1..Len(text) : more[x][N + d] = text[d]
  <2>1. \A a, b \in Seq(W) :
          /\ DOMAIN (a \o b) = 1..(Len(a) + Len(b))
          /\ \A n \in 1..Len(a) : (a \o b)[n] = a[n]
          /\ \A d \in 1..Len(b) : (a \o b)[Len(a) + d] = b[d]
    OBVIOUS
  <2>2. lists[x] \in Seq(W)
    BY DEF AreTexts
  <2> QED
    BY <2>1, <2>2 DEF Longer
<1>3. hits \subseteq 1..Len(text)
  BY <1>1 DEF Hits
<1>4. Places(word, more) = old \cup new
  <2>1. ASSUME NEW p \in Places(word, more) PROVE p \in old \cup new
    <3>1. PICK y \in DOMAIN more : \E n \in DOMAIN more[y] :
            p = <<y, n>> /\ more[y][n] = word
      BY PlaceIs
    <3>2. PICK n \in DOMAIN more[y] : p = <<y, n>> /\ more[y][n] = word
      BY <3>1
    <3>3. CASE y # x
      <4>1. y \in DOMAIN lists /\ more[y] = lists[y]
        BY <3>3 DEF Longer
      <4> QED
        BY <3>2, <4>1, PlaceIs
    <3>4. CASE y = x /\ n \in 1..N
      BY <1>1, <1>2, <3>2, <3>4, PlaceIs
    <3>5. CASE y = x /\ n \notin 1..N
      <4>1. n \in 1..(N + Len(text))
        BY <1>2, <3>2, <3>5
      <4>2. n - N \in 1..Len(text) /\ n = N + (n - N)
        BY <1>1, <3>5, <4>1
      <4> DEFINE d == n - N
      <4>3. d \in 1..Len(text) /\ n = N + d
        BY <4>2
      <4> HIDE DEF d, N
      <4>4. text[d] = word
        BY <1>2, <3>2, <3>5, <4>3
      <4>5. d \in hits
        BY <1>1, <4>3, <4>4 DEF Hits
      <4> QED
        BY <3>2, <3>5, <4>3, <4>5
    <3> QED
      BY <3>3, <3>4, <3>5
  <2>2. ASSUME NEW p \in old PROVE p \in Places(word, more)
    <3>1. PICK y \in DOMAIN lists : \E n \in DOMAIN lists[y] :
            p = <<y, n>> /\ lists[y][n] = word
      BY PlaceIs
    <3>2. PICK n \in DOMAIN lists[y] : p = <<y, n>> /\ lists[y][n] = word
      BY <3>1
    <3>3. y \in DOMAIN more /\ n \in DOMAIN more[y] /\ more[y][n] = word
      <4>1. CASE y = x
        <5>1. n \in 1..N /\ n \in 1..(N + Len(text))
          BY <1>1, <3>2, <4>1
        <5> HIDE DEF N
        <5> QED
          BY <1>2, <3>2, <4>1, <5>1 DEF Longer
      <4>2. CASE y # x
        BY <3>2, <4>2 DEF Longer
      <4> QED
        BY <4>1, <4>2
    <3> QED
      BY <3>2, <3>3, PlaceIs
  <2>3. ASSUME NEW d \in hits PROVE <<x, N + d>> \in Places(word, more)
    <3>1. d \in 1..Len(text) /\ text[d] = word
      BY <1>1 DEF Hits
    <3>2. N + d \in 1..(N + Len(text))
      BY <1>1, <3>1
    <3>3. x \in DOMAIN more /\ N + d \in DOMAIN more[x] /\ more[x][N + d] = word
      BY <1>2, <3>1, <3>2 DEF Longer
    <3> QED
      BY <3>3, PlaceIs
  <2> QED
    BY <2>1, <2>2, <2>3
<1>5. old \cap new = {}
  <2> SUFFICES ASSUME NEW d \in hits, <<x, N + d>> \in old PROVE FALSE
    OBVIOUS
  <2>1. PICK y \in DOMAIN lists : \E n \in DOMAIN lists[y] : <<x, N + d>> = <<y, n>>
    BY PlaceIs
  <2>2. N + d \in DOMAIN lists[x]
    BY <2>1
  <2> QED
    BY <1>1, <1>3, <2>2
<1>6. IsFiniteSet(hits)
  <2>1. IsFiniteSet(1..Len(text))
    BY <1>1, FS_Interval
  <2> HIDE DEF hits
  <2> QED
    BY <1>3, <2>1, FS_Subset
<1>7. IsFiniteSet(new) /\ Cardinality(new) = Cardinality(hits)
  <2> DEFINE f == [d \in hits |-> <<x, N + d>>]
  <2>1. ASSUME NEW d \in hits, NEW e \in hits, <<x, N + d>> = <<x, N + e>>
        PROVE  d = e
    <3>1. d \in Nat /\ e \in Nat /\ N \in Nat
      BY <1>1, <1>3
    <3>2. N + d = N + e
      BY <2>1
    <3> HIDE DEF N
    <3> QED
      BY ONLY <3>1, <3>2
  <2> HIDE DEF hits, N
  <2>2. f \in [hits -> new]
    OBVIOUS
  <2>3. \A d, e \in hits : f[d] = f[e] => d = e
    BY <2>1
  <2>4. \A p \in new : \E d \in hits : f[d] = p
    OBVIOUS
  <2> HIDE DEF f, new
  <2>5. ExistsBijection(hits, new)
    BY <2>2, <2>3, <2>4 DEF ExistsBijection, Bijection, Injection, Surjection, IsInjective
  <2> QED
    BY <1>6, <2>5, FS_Bijection
<1> HIDE DEF old, new
<1>8. /\ IsFiniteSet(old \cup new)
      /\ Cardinality(old \cup new) = Cardinality(old) + Cardinality(new) - Cardinality({})
  <2>1. IsFiniteSet(old)
    BY DEF old
  <2>2. Cardinality(old \cup new)
          = Cardinality(old) + Cardinality(new) - Cardinality(old \cap new)
    BY <1>7, <2>1, FS_Union
  <2>3. IsFiniteSet(old \cup new)
    BY <1>7, <2>1, FS_Union
  <2> QED
    BY <1>5, <2>2, <2>3
<1>9. Cardinality({}) = 0 /\ Cardinality(old) \in Nat /\ Cardinality(new) \in Nat
  BY <1>7, FS_EmptySet, FS_CardinalityType DEF old
<1> HIDE DEF hits
<1> QED
  BY <1>4, <1>7, <1>8, <1>9 DEF Times, old, hits

LEMMA NoPlaces ==
  ASSUME NEW lists, \A x \in DOMAIN lists : lists[x] = <<>>, NEW word
  PROVE  IsFiniteSet(Places(word, lists)) /\ Times(word, lists) = 0
<1>1. Places(word, lists) = {}
  BY PlaceIs
<1> QED
  BY <1>1, FS_EmptySet DEF Times

\* Lists that differ in which of them are empty have their words in the same
\* places.
LEMMA SamePlaces ==
  ASSUME NEW a, NEW b, NEW word,
         \A x \in DOMAIN a : a[x] # <<>> => x \in DOMAIN b /\ b[x] = a[x],
         \A x \in DOMAIN b : b[x] # <<>> => x \in DOMAIN a /\ a[x] = b[x]
  PROVE  Places(word, a) = Places(word, b)
<1>1. ASSUME NEW l, NEW m, NEW p \in Places(word, l),
             \A x \in DOMAIN l : l[x] # <<>> => x \in DOMAIN m /\ m[x] = l[x]
      PROVE  p \in Places(word, m)
  <2>1. PICK x \in DOMAIN l : \E n \in DOMAIN l[x] : p = <<x, n>> /\ l[x][n] = word
    BY PlaceIs
  <2>2. PICK n \in DOMAIN l[x] : p = <<x, n>> /\ l[x][n] = word
    BY <2>1
  <2>3. l[x] # <<>>
    BY <2>2
  <2>4. x \in DOMAIN m /\ m[x] = l[x]
    BY <1>1, <2>3
  <2> QED
    BY <2>2, <2>4, PlaceIs
<1>2. \A p \in Places(word, a) : p \in Places(word, b)
  BY <1>1
<1>3. \A p \in Places(word, b) : p \in Places(word, a)
  BY <1>1
<1> QED
  BY <1>2, <1>3

\* One list has a text more, and then one, which may be the same, has another.
LongerBy(more, lists, x, first, y, rest) ==
  /\ DOMAIN more = DOMAIN lists
  /\ \A z \in DOMAIN lists :
       more[z] = (lists[z] \o (IF z = x THEN first ELSE <<>>))
                   \o (IF z = y THEN rest ELSE <<>>)

LEMMA TimesMoreTwice ==
  ASSUME NEW W, NEW lists, AreTexts(lists, W),
         NEW x \in DOMAIN lists, NEW y \in DOMAIN lists,
         NEW first \in Seq(W), NEW rest \in Seq(W),
         NEW more, LongerBy(more, lists, x, first, y, rest),
         NEW word, IsFiniteSet(Places(word, lists))
  PROVE  /\ IsFiniteSet(Places(word, more))
         /\ Times(word, more) = (Times(word, lists) + Cardinality(Hits(word, first)))
                                  + Cardinality(Hits(word, rest))
<1> DEFINE middle == [z \in DOMAIN lists |-> IF z = x THEN lists[z] \o first ELSE lists[z]]
<1>1. \A a, b \in Seq(W) : a \o b \in Seq(W) /\ a \o <<>> = a /\ <<>> \o a = a
  OBVIOUS
<1>2. DOMAIN middle = DOMAIN lists
  OBVIOUS
<1>3. \A z \in DOMAIN lists :
        middle[z] = lists[z] \o (IF z = x THEN first ELSE <<>>)
  BY <1>1 DEF AreTexts
<1>4. AreTexts(middle, W)
  BY <1>1 DEF AreTexts
<1>5. Longer(middle, lists, x, first)
  BY DEF Longer
<1> HIDE DEF middle
<1>6. Longer(more, middle, y, rest)
  <2>1. \A z \in DOMAIN lists : more[z] = middle[z] \o (IF z = y THEN rest ELSE <<>>)
    BY <1>3 DEF LongerBy
  <2>2. \A z \in DOMAIN lists \ {y} : more[z] = middle[z]
    BY <1>1, <1>2, <1>4, <2>1 DEF AreTexts
  <2> QED
    BY <1>2, <2>1, <2>2 DEF Longer, LongerBy
<1>7. /\ IsFiniteSet(Places(word, middle))
      /\ Times(word, middle) = Times(word, lists) + Cardinality(Hits(word, first))
  BY <1>5, TimesMore
<1>8. y \in DOMAIN middle
  BY <1>2
<1>9. /\ IsFiniteSet(Places(word, more))
      /\ Times(word, more) = Times(word, middle) + Cardinality(Hits(word, rest))
  BY <1>4, <1>6, <1>7, <1>8, TimesMore
<1> QED
  BY <1>7, <1>9

\* What options have after the first m uses, and what is typed up to there
Kept(list, line, m) ==
  [id \in {list[c].id : c \in DOMAIN list} |->
    FlattenSeq([i \in 1..m |-> Part(list, "command", line[i], id)])]
Typed(line, m) ==
  [i \in DOMAIN line |-> IF i <= m THEN line[i].values ELSE <<>>]

LEMMA KeptType ==
  ASSUME NEW list, NEW declared, NEW n, Described(list, declared, n),
         NEW line, IsCommandLine(line), ~ParseFails(list, "command", line, FALSE),
         NEW m \in 0..Len(line), NEW id
  PROVE  [i \in 1..m |-> Part(list, "command", line[i], id)] \in Seq(Seq(WordsIn(line)))
<1> DEFINE Texts == Seq(WordsIn(line))
<1>1. \A i \in DOMAIN line : Part(list, "command", line[i], id) \in Texts
  BY PartType
<1>2. line \in Seq(Range(line))
  BY DEF IsCommandLine
<1>3. m \in Nat /\ 1..m \subseteq DOMAIN line
  BY <1>2
<1> HIDE DEF Texts
<1>4. [i \in 1..m |-> Part(list, "command", line[i], id)] \in [1..m -> Texts]
  BY <1>1, <1>3
<1>5. \A f \in [1..m -> Texts] : f \in Seq(Texts)
  BY <1>3
<1> QED
  BY <1>4, <1>5 DEF Texts

\* A use gives its words to the option it means, and those that it does not take
\* to the commands.
LEMMA KeptNext ==
  ASSUME NEW list, NEW declared, NEW n, Described(list, declared, n),
         NEW line, IsCommandLine(line), ~ParseFails(list, "command", line, FALSE),
         NEW m \in Nat, m + 1 \in DOMAIN line
  PROVE  LET values == line[m + 1].values
             taken == WordsTaken(list, line[m + 1])
         IN \E x \in DOMAIN Kept(list, line, m) :
              LongerBy(Kept(list, line, m + 1), Kept(list, line, m),
                       x, SubSeq(values, 1, taken),
                       "command", SubSeq(values, taken + 1, Len(values)))
<1> DEFINE use == line[m + 1]
           values == use.values
           taken == WordsTaken(list, use)
           first == SubSeq(values, 1, taken)
           rest == SubSeq(values, taken + 1, Len(values))
           Ids == {list[c].id : c \in DOMAIN list}
           W == WordsIn(line)
           part(id) == Part(list, "command", use, id)
<1>1. line \in Seq(Range(line)) /\ m \in 0..Len(line) /\ m + 1 \in 0..Len(line)
  BY DEF IsCommandLine
<1>2. values \in Seq(W)
  BY UseIsIn
<1>3. "command" \in Ids
  <2>1. 12 \in Defaults /\ DefaultOptions[12].id = "command"
    BY DefaultsList DEF DefaultOptions, Option
  <2> QED
    BY <2>1 DEF Described, Defaults
<1>4. ASSUME NEW id \in Ids
      PROVE  /\ Kept(list, line, m)[id] \in Seq(W)
             /\ Kept(list, line, m + 1)[id] = Kept(list, line, m)[id] \o part(id)
  <2> DEFINE parts == [i \in 1..m |-> Part(list, "command", line[i], id)]
             more == [i \in 1..(m + 1) |-> Part(list, "command", line[i], id)]
  <2>1. Kept(list, line, m)[id] = FlattenSeq(parts)
        /\ Kept(list, line, m + 1)[id] = FlattenSeq(more)
    BY DEF Kept
  <2>2. parts \in Seq(Seq(W))
    BY <1>1, KeptType
  <2>3. part(id) \in Seq(W)
    BY PartType
  <2>4. more = Append(parts, part(id))
    <3>1. /\ DOMAIN parts = 1..m /\ DOMAIN more = 1..(m + 1)
          /\ \A i \in 1..m : i \in 1..(m + 1) /\ more[i] = parts[i]
          /\ m + 1 \in 1..(m + 1) /\ more[m + 1] = part(id)
      OBVIOUS
    <3>2. more \in Seq(Seq(W))
      BY <1>1, KeptType
    <3> HIDE DEF parts, more, part, W
    <3>3. Len(parts) = m /\ Len(more) = m + 1
      BY <2>2, <3>1, <3>2
    <3> QED
      BY <2>2, <2>3, <3>1, <3>2, <3>3
  <2> HIDE DEF parts, more, part
  <2> QED
    BY <2>1, <2>2, <2>3, <2>4, FlattenType, FlattenAppend
<1>5. taken \in 0..Len(values)
  <2>1. CASE Known(list, use)
    <3>1. PICK c : Single(list, use, c)
      BY <2>1, ParsedKnown
    <3> QED
      BY <3>1, TakesItsWords
  <2>2. CASE ~Known(list, use)
    <3>1. taken = 0 /\ Len(values) \in Nat
      BY <1>2, <2>2 DEF WordsTaken
    <3> QED
      BY <3>1
  <2> QED
    BY <2>1, <2>2
<1>6. first \in Seq(W) /\ rest \in Seq(W) /\ <<>> \in Seq(W)
  <2> HIDE DEF taken, values, W
  <2> QED
    BY <1>2, <1>5, Cut
<1>7. PICK x \in Ids : \A id \in Ids :
        (IF IsUseOf(list, id, use) THEN first ELSE <<>>)
          = (IF id = x THEN first ELSE <<>>)
  <2>1. CASE Known(list, use)
    <3>1. PICK c : Single(list, use, c)
      BY <2>1, ParsedKnown
    <3>2. \A id \in Ids : IsUseOf(list, id, use) <=> id = list[c].id
      BY <3>1, SingleUse
    <3>3. list[c].id \in Ids
      BY <3>1 DEF Single
    <3> QED
      BY <3>2, <3>3
  <2>2. CASE ~Known(list, use)
    <3>1. taken = 0
      BY <2>2 DEF WordsTaken
    <3>2. first = <<>>
      BY <1>2, <3>1
    <3> QED
      BY <1>3, <2>2, <3>2 DEF IsUseOf
  <2> QED
    BY <2>1, <2>2
<1>8. \A id \in Ids : part(id) = (IF id = x THEN first ELSE <<>>)
                                   \o (IF id = "command" THEN rest ELSE <<>>)
  BY <1>7 DEF Part
<1>9. DOMAIN Kept(list, line, m) = Ids /\ DOMAIN Kept(list, line, m + 1) = Ids
  BY DEF Kept
<1> HIDE DEF first, rest, part, Ids, W
<1>10. \A a, b, c \in Seq(W) : a \o (b \o c) = (a \o b) \o c
  <2> TAKE a, b, c \in Seq(W)
  <2>1. (a \o b) \o c = a \o (b \o c)
    BY ONLY a \in Seq(W), b \in Seq(W), c \in Seq(W), ConcatAssociative
  <2> QED
    BY ONLY <2>1
<1>11. \A id \in Ids :
         Kept(list, line, m + 1)[id] = (Kept(list, line, m)[id] \o (IF id = x THEN first ELSE <<>>))
                                         \o (IF id = "command" THEN rest ELSE <<>>)
  <2> TAKE id \in Ids
  <2> DEFINE b == IF id = x THEN first ELSE <<>>
             c == IF id = "command" THEN rest ELSE <<>>
  <2>1. b \in Seq(W) /\ c \in Seq(W)
    BY <1>6
  <2>2. part(id) = b \o c
    BY <1>8
  <2> HIDE DEF b, c
  <2>3. /\ Kept(list, line, m)[id] \in Seq(W)
        /\ Kept(list, line, m + 1)[id] = Kept(list, line, m)[id] \o (b \o c)
    BY <1>4, <2>2
  <2>4. Kept(list, line, m + 1)[id] = (Kept(list, line, m)[id] \o b) \o c
    BY <1>10, <2>1, <2>3
  <2> QED
    BY <2>4 DEF b, c
<1>12. LongerBy(Kept(list, line, m + 1), Kept(list, line, m), x, first, "command", rest)
  BY <1>9, <1>11 DEF LongerBy
<1> QED
  BY <1>9, <1>12 DEF first, rest

LEMMA TypedNext ==
  ASSUME NEW line, IsCommandLine(line), NEW m \in Nat, m + 1 \in DOMAIN line,
         NEW taken \in 0..Len(line[m + 1].values)
  PROVE  LET values == line[m + 1].values
         IN LongerBy(Typed(line, m + 1), Typed(line, m),
                     m + 1, SubSeq(values, 1, taken),
                     m + 1, SubSeq(values, taken + 1, Len(values)))
<1> DEFINE values == line[m + 1].values
           first == SubSeq(values, 1, taken)
           rest == SubSeq(values, taken + 1, Len(values))
           W == WordsIn(line)
<1>1. values \in Seq(W)
  BY UseIsIn
<1>2. first \in Seq(W) /\ rest \in Seq(W)
  <2>1. taken \in 0..Len(values)
    OBVIOUS
  <2> HIDE DEF values, W
  <2> QED
    BY <1>1, <2>1, Cut
<1>3. first \o rest = values
  <2>1. taken \in 0..Len(values)
    OBVIOUS
  <2> HIDE DEF values, W
  <2>2. Len(values) \in Nat
    BY <1>1
  <2>3. 1 \in 1..(Len(values) + 1) /\ taken \in 1 - 1..Len(values)
        /\ Len(values) \in taken..Len(values)
    BY <2>1, <2>2
  <2>4. first \o rest = SubSeq(values, 1, Len(values))
    BY <1>1, <2>3, ConcatAdjacentSubSeq
  <2> QED
    BY <1>1, <2>4, SubSeqFull
<1>4. \A a \in Seq(W) : a \o <<>> = a /\ <<>> \o a = a
  OBVIOUS
<1>5. line \in Seq(Range(line))
  BY DEF IsCommandLine
<1>6. \A i \in DOMAIN line : i \in Nat /\ (i # m + 1 => (i <= m + 1 <=> i <= m))
  BY <1>5
<1>7. ~(m + 1 <= m) /\ m + 1 <= m + 1
  OBVIOUS
<1>8. \A i \in DOMAIN line : line[i].values \in Seq(W) /\ <<>> \in Seq(W)
  BY UseIsIn
<1> HIDE DEF first, rest, W
<1>9. ASSUME NEW i \in DOMAIN line
      PROVE  Typed(line, m + 1)[i] = (Typed(line, m)[i] \o (IF i = m + 1 THEN first ELSE <<>>))
                                       \o (IF i = m + 1 THEN rest ELSE <<>>)
  <2>1. CASE i = m + 1
    <3>1. Typed(line, m)[i] = <<>> /\ Typed(line, m + 1)[i] = values
      BY <1>7, <2>1 DEF Typed
    <3>2. (<<>> \o first) \o rest = values
      BY <1>2, <1>3, <1>4
    <3> QED
      BY <2>1, <3>1, <3>2
  <2>2. CASE i # m + 1
    <3>1. Typed(line, m + 1)[i] = Typed(line, m)[i]
      BY <1>6, <2>2 DEF Typed
    <3>2. Typed(line, m)[i] \in Seq(W)
      BY <1>8 DEF Typed
    <3>3. (Typed(line, m)[i] \o <<>>) \o <<>> = Typed(line, m)[i]
      BY <1>4, <3>2
    <3> QED
      BY <2>2, <3>1, <3>3
  <2> QED
    BY <2>1, <2>2
<1>10. LongerBy(Typed(line, m + 1), Typed(line, m), m + 1, first, m + 1, rest)
  BY <1>9 DEF LongerBy, Typed
<1> QED
  BY <1>10 DEF first, rest

\* A word occurs as often in what the options have after some uses as in what is
\* typed up to there.
Counted(list, line, word, m) ==
  /\ IsFiniteSet(Places(word, Kept(list, line, m)))
  /\ IsFiniteSet(Places(word, Typed(line, m)))
  /\ Times(word, Kept(list, line, m)) = Times(word, Typed(line, m))

LEMMA CountedNext ==
  ASSUME NEW list, NEW declared, NEW n, Described(list, declared, n),
         NEW line, IsCommandLine(line), ~ParseFails(list, "command", line, FALSE),
         NEW word, NEW m \in Nat, m + 1 \in DOMAIN line, Counted(list, line, word, m)
  PROVE  Counted(list, line, word, m + 1)
<1> DEFINE values == line[m + 1].values
           taken == WordsTaken(list, line[m + 1])
           first == SubSeq(values, 1, taken)
           rest == SubSeq(values, taken + 1, Len(values))
           W == WordsIn(line)
           kept == Kept(list, line, m)
           typed == Typed(line, m)
<1>1. values \in Seq(W)
  BY UseIsIn
<1>2. taken \in 0..Len(values)
  <2>1. CASE Known(list, line[m + 1])
    <3>1. PICK c : Single(list, line[m + 1], c)
      BY <2>1, ParsedKnown
    <3> QED
      BY <3>1, TakesItsWords
  <2>2. CASE ~Known(list, line[m + 1])
    <3>1. taken = 0 /\ Len(values) \in Nat
      BY <1>1, <2>2 DEF WordsTaken
    <3> QED
      BY <3>1
  <2> QED
    BY <2>1, <2>2
<1>3. first \in Seq(W) /\ rest \in Seq(W)
  <2> HIDE DEF taken, values, W
  <2> QED
    BY <1>1, <1>2, Cut
<1>4. PICK x \in DOMAIN kept :
        LongerBy(Kept(list, line, m + 1), kept, x, first, "command", rest)
  BY KeptNext
<1>5. LongerBy(Typed(line, m + 1), typed, m + 1, first, m + 1, rest)
  BY <1>2, TypedNext
<1>6. AreTexts(kept, W)
  <2>1. line \in Seq(Range(line))
    BY DEF IsCommandLine
  <2>2. m \in 0..Len(line)
    BY <2>1
  <2> HIDE DEF W
  <2>3. \A z \in DOMAIN kept :
          kept[z] = FlattenSeq([i \in 1..m |-> Part(list, "command", line[i], z)])
    BY DEF Kept
  <2>4. \A z : [i \in 1..m |-> Part(list, "command", line[i], z)] \in Seq(Seq(W))
    BY <2>2, KeptType DEF W
  <2> QED
    BY <2>3, <2>4, FlattenType DEF AreTexts
<1>7. AreTexts(typed, W)
  <2>1. \A z \in DOMAIN line : line[z].values \in Seq(W) /\ <<>> \in Seq(W)
    BY UseIsIn
  <2> HIDE DEF W
  <2> QED
    BY <2>1 DEF Typed, AreTexts
<1>8. m + 1 \in DOMAIN typed
  BY DEF Typed
<1>9. "command" \in DOMAIN kept
  <2>1. 12 \in Defaults /\ DefaultOptions[12].id = "command"
    BY DefaultsList DEF DefaultOptions, Option
  <2>2. "command" \in {list[c].id : c \in DOMAIN list}
    BY <2>1 DEF Described, Defaults
  <2> QED
    BY <2>2 DEF Kept
<1>10. /\ IsFiniteSet(Places(word, kept)) /\ IsFiniteSet(Places(word, typed))
       /\ Times(word, kept) = Times(word, typed)
  BY DEF Counted
<1> HIDE DEF first, rest, W, kept, typed
<1>11. /\ IsFiniteSet(Places(word, Kept(list, line, m + 1)))
       /\ Times(word, Kept(list, line, m + 1))
            = (Times(word, kept) + Cardinality(Hits(word, first))) + Cardinality(Hits(word, rest))
  BY <1>3, <1>4, <1>6, <1>9, <1>10, TimesMoreTwice
<1>12. /\ IsFiniteSet(Places(word, Typed(line, m + 1)))
       /\ Times(word, Typed(line, m + 1))
            = (Times(word, typed) + Cardinality(Hits(word, first))) + Cardinality(Hits(word, rest))
  BY <1>3, <1>5, <1>7, <1>8, <1>10, TimesMoreTwice
<1> QED
  BY <1>10, <1>11, <1>12 DEF Counted

\* Each word that is typed goes to one option or to the commands.
LEMMA AllCounted ==
  ASSUME NEW list, NEW declared, NEW n, Described(list, declared, n),
         NEW line, IsCommandLine(line), ~ParseFails(list, "command", line, FALSE),
         NEW word
  PROVE  Times(word, [id \in {list[c].id : c \in DOMAIN list} |->
                        WordsFor(list, "command", line, id)])
           = Times(word, [i \in DOMAIN line |-> line[i].values])
<1> DEFINE N == Len(line)
           T == {m \in 0..N : Counted(list, line, word, m)}
<1>1. N \in Nat /\ DOMAIN line = 1..N
  <2>1. line \in Seq(Range(line))
    BY DEF IsCommandLine
  <2> QED
    BY <2>1
<1>2. 0 \in T
  <2>1. \A id \in DOMAIN Kept(list, line, 0) : Kept(list, line, 0)[id] = <<>>
    <3>1. ASSUME NEW id \in DOMAIN Kept(list, line, 0)
          PROVE  Kept(list, line, 0)[id] = <<>>
      <4>1. [i \in 1..0 |-> Part(list, "command", line[i], id)] = <<>>
        OBVIOUS
      <4>2. Kept(list, line, 0)[id]
              = FlattenSeq([i \in 1..0 |-> Part(list, "command", line[i], id)])
        BY DEF Kept
      <4> QED
        BY <4>1, <4>2, FlattenEmpty
    <3> QED
      BY <3>1
  <2>2. \A i \in 1..N : ~(i <= 0)
    OBVIOUS
  <2>3. \A i \in DOMAIN Typed(line, 0) : Typed(line, 0)[i] = <<>>
    <3> HIDE DEF N
    <3> QED
      BY <1>1, <2>2 DEF Typed
  <2>4. Counted(list, line, word, 0)
    BY <2>1, <2>3, NoPlaces DEF Counted
  <2> HIDE DEF N
  <2> QED
    BY <1>1, <2>4
<1>3. ASSUME NEW m \in 0..(N - 1), m \in T
      PROVE  m + 1 \in T
  <2>1. m \in Nat /\ m + 1 \in 1..N /\ m + 1 \in 0..N
    BY <1>1
  <2>2. Counted(list, line, word, m + 1)
    BY <1>1, <1>3, <2>1, CountedNext
  <2> QED
    BY <2>1, <2>2
<1> HIDE DEF T
<1>4. \A m \in 0..N : m \in T
  <2> HIDE DEF N
  <2> QED
    BY <1>1, <1>2, <1>3, InductionUpTo
<1>5. Counted(list, line, word, N)
  <2> HIDE DEF N
  <2> QED
    BY <1>1, <1>4 DEF T
<1>6. Kept(list, line, N) = [id \in {list[c].id : c \in DOMAIN list} |->
                               WordsFor(list, "command", line, id)]
  <2>1. \A id : WordsFor(list, "command", line, id)
                  = FlattenSeq([i \in 1..N |-> Part(list, "command", line[i], id)])
    BY <1>1, WordsAreParts
  <2> HIDE DEF N
  <2> QED
    BY <2>1 DEF Kept
<1>7. Typed(line, N) = [i \in DOMAIN line |-> line[i].values]
  <2> HIDE DEF N
  <2>1. \A i \in DOMAIN line : i <= N
    BY <1>1
  <2> QED
    BY <2>1 DEF Typed
<1> QED
  BY <1>5, <1>6, <1>7 DEF Counted

LEMMA SameFlags ==
  ASSUME NEW i \in Defaults, DefaultOptions[i].id \in Flags(DefaultOptions)
  PROVE  DefaultOptions[i].kind = "flag"
<1> DEFINE names == {"help", "version", "verbose", "dry-run", "keep-going", "list-plugins"}
<1>1. \A j \in Defaults : DefaultOptions[j].kind = "flag" <=> DefaultOptions[j].id \in names
  <2> TAKE j \in Defaults
  <2>1. j \in {1, 2, 3, 4, 5, 6, 7, 8, 9, 10, 11, 12}
    BY DefaultsList
  <2> QED
    BY <2>1 DEF DefaultOptions, Option
<1> HIDE DEF names
<1>2. \A id \in Flags(DefaultOptions) : id \in names
  BY <1>1 DEF Flags, Defaults
<1> QED
  BY <1>1, <1>2

\* An option of exec-helper is given words where it takes some and is used, and
\* only there.
LEMMA UsedHasWords ==
  ASSUME OwnOptions, Input, SecondPassed, NEW id \in BuiltIns \ {"command"}
  PROVE  /\ id \notin Flags(DefaultOptions) /\ UsesOf(options, id, args) # {} =>
              WordsFor(options, "command", args, id) # <<>>
         /\ WordsFor(options, "command", args, id) # <<>> =>
              id \notin Flags(DefaultOptions) /\ UsesOf(options, id, args) # {}
<1> DEFINE words == WordsFor(options, "command", args, id)
           part(i) == Part(options, "command", args[i], id)
<1>1. IsCommandLine(args)
  BY MainFlowAssumption DEF Input
<1>2. /\ Described(options, Declared, Len(Declared)) /\ Own(Declared, Len(Declared))
      /\ ~ParseFails(options, "command", args, FALSE)
  BY DeclaredOwn DEF SecondPassed
<1>3. "command" # id
  OBVIOUS
<1>4. /\ words \in Seq(WordsIn(args))
      /\ \A k \in DOMAIN words : \E i \in DOMAIN args : words[k] \in Range(part(i))
      /\ \A i \in DOMAIN args : Range(part(i)) \subseteq Range(words)
  BY <1>1, <1>2, WordsOfParts
<1>5. ASSUME NEW i \in UsesOf(options, id, args)
      PROVE  \E c \in Defaults : /\ Single(options, args[i], c)
                                 /\ options[c] = DefaultOptions[c]
                                 /\ options[c].id = id
  <2>1. i \in DOMAIN args /\ IsUseOf(options, id, args[i]) /\ Known(options, args[i])
    BY DEF UsesOf, IsUseOf
  <2>2. PICK c : Single(options, args[i], c)
    BY <1>2, <2>1, ParsedKnown
  <2>3. options[c].id = id /\ c \in DOMAIN options
    BY <2>1, <2>2, SingleUse DEF Single
  <2>4. c \in Defaults
    BY <1>2, <2>3, OtherOptions DEF Own
  <2> QED
    BY <1>2, <2>2, <2>3, <2>4 DEF Described, Defaults
<1>6. ASSUME id \notin Flags(DefaultOptions), NEW i \in UsesOf(options, id, args)
      PROVE  words # <<>>
  <2>1. PICK c \in Defaults : /\ Single(options, args[i], c)
                              /\ options[c] = DefaultOptions[c]
                              /\ options[c].id = id
    BY <1>5
  <2>2. i \in DOMAIN args
    BY DEF UsesOf
  <2>3. options[c].kind # "flag"
    BY <1>6, <2>1 DEF Flags, Defaults
  <2>4. options[c].kind \in {"value", "list"}
    BY <2>1, <2>3, DefaultKinds
  <2>5. args[i].values # <<>>
    BY <1>1, <1>2, <2>1, <2>2, <2>3, TakesItsWords
  <2>6. \/ Len(part(i)) = 1
        \/ part(i) = args[i].values
    BY <1>1, <1>2, <1>3, <2>1, <2>2, <2>4, PartOfUse
  <2>7. part(i) \in Seq(WordsIn(args))
    BY <1>1, <1>2, <2>2, PartType
  <2> HIDE DEF part
  <2>8. part(i)[1] \in Range(part(i))
    <3>1. part(i) # <<>>
      BY <2>5, <2>6, <2>7
    <3> QED
      BY <2>7, <3>1 DEF Range
  <2>9. part(i)[1] \in Range(words)
    BY <1>4, <2>2, <2>8
  <2> QED
    BY <2>9 DEF Range
<1>7. ASSUME words # <<>>
      PROVE  \E i \in UsesOf(options, id, args) : part(i) # <<>>
  <2>1. 1 \in DOMAIN words
    BY <1>4, <1>7
  <2>2. PICK i \in DOMAIN args : words[1] \in Range(part(i))
    BY <1>4, <2>1
  <2>3. part(i) # <<>>
    BY <2>2 DEF Range
  <2>4. IsUseOf(options, id, args[i])
    BY <1>1, <1>2, <1>3, <2>3, PartOfUse
  <2> QED
    BY <2>3, <2>4 DEF UsesOf
<1>8. ASSUME words # <<>>
      PROVE  id \notin Flags(DefaultOptions)
  <2>1. PICK i \in UsesOf(options, id, args) : part(i) # <<>>
    BY <1>7, <1>8
  <2>2. PICK c \in Defaults : /\ Single(options, args[i], c)
                              /\ options[c] = DefaultOptions[c]
                              /\ options[c].id = id
    BY <1>5
  <2>3. i \in DOMAIN args
    BY DEF UsesOf
  <2>4. options[c].kind # "flag"
    BY <1>1, <1>2, <1>3, <2>1, <2>2, <2>3, PartOfUse
  <2> QED
    BY <2>2, <2>4, SameFlags
<1> QED
  BY <1>6, <1>7, <1>8

\* The options that were given, and the commands
GivenIds ==
  {id \in DOMAIN optionsMap \ Flags(DefaultOptions) :
     id \in BuiltIns \ {"command"} => IsAsked(id)}

LEMMA KeptIsGiven ==
  ASSUME OwnOptions, Input, SecondPassed, NEW word
  PROVE  Times(word, [id \in GivenIds |-> optionsMap[id]])
           = Times(word, [i \in DOMAIN args |-> args[i].values])
<1> DEFINE Ids == {options[c].id : c \in DOMAIN options}
           words(id) == WordsFor(options, "command", args, id)
           kept == [id \in GivenIds |-> optionsMap[id]]
           all == [id \in Ids |-> words(id)]
<1>1. IsCommandLine(args)
  BY MainFlowAssumption DEF Input
<1>2. /\ Described(options, Declared, Len(Declared)) /\ Own(Declared, Len(Declared))
      /\ ~ParseFails(options, "command", args, FALSE)
      /\ ~ParseFails(DefaultOptions, Unset, args, TRUE)
      /\ optionsMap = ToMap(DefaultValues, options, "command", args)
  BY DeclaredOwn DEF SecondPassed, SettingsRead, FirstPassed
<1>3. Flags(options) = Flags(DefaultOptions)
  BY <1>2, FlagsKept
<1>4. \A id \in BuiltIns : id \in Ids
  BY <1>2 DEF BuiltIns, Described
<1>5. \A id \in BuiltIns \ {"command"} :
        IsAsked(id) <=> UsesOf(options, id, args) # {}
  <2>1. ASSUME NEW id \in BuiltIns \ {"command"}
        PROVE  UsesOf(DefaultOptions, id, args) = UsesOf(options, id, args)
    BY <1>2, SameWords DEF UsesOf
  <2> QED
    BY <1>2, <2>1, AskedIsUsed
<1>6. \A id : id \in Ids => (Given(options, "command", args, id) <=> words(id) # <<>>)
  BY DEF Given
<1>7. "command" \notin Flags(DefaultOptions) /\ "command" \in BuiltIns
      /\ DefaultValues["command"] = <<>> /\ "command" \in DOMAIN DefaultValues
  <2>1. 12 \in Defaults /\ DefaultOptions[12].id = "command" /\ DefaultOptions[12].kind = "list"
    BY DefaultsList DEF DefaultOptions, Option
  <2>2. "command" \notin Flags(DefaultOptions)
    BY <2>1, SameFlags
  <2>3. "command" \in BuiltIns \ {"auto-complete"}
    BY DefaultsList
  <2> QED
    BY <2>2, <2>3 DEF DefaultValues
<1> HIDE DEF words
<1>8. ASSUME NEW id \in Ids, words(id) # <<>>
      PROVE  /\ id \in GivenIds
             /\ optionsMap[id] = words(id)
  <2>1. id \notin Flags(DefaultOptions)
    <3>1. CASE id \in BuiltIns \ {"command"}
      BY <1>8, <3>1, UsedHasWords DEF words
    <3>2. CASE id = "command"
      BY <1>7, <3>2
    <3>3. CASE id \notin BuiltIns
      BY <3>3, FlagsAreBuiltIns
    <3> QED
      BY <3>1, <3>2, <3>3
  <2>2. Given(options, "command", args, id)
    BY <1>6, <1>8
  <2>3. id \in DOMAIN optionsMap /\ optionsMap[id] = words(id)
    BY <1>2, <1>3, <2>1, <2>2, MapAt DEF words
  <2>4. id \in BuiltIns \ {"command"} => IsAsked(id)
    BY <1>5, <1>8, UsedHasWords DEF words
  <2> QED
    BY <2>1, <2>3, <2>4 DEF GivenIds
<1>9. ASSUME NEW id \in GivenIds, optionsMap[id] # <<>>
      PROVE  id \in Ids /\ optionsMap[id] = words(id)
  <2>1. id \in DOMAIN optionsMap /\ id \notin Flags(DefaultOptions)
    BY DEF GivenIds
  <2>2. CASE id \notin BuiltIns
    <3>1. Given(options, "command", args, id)
      BY <2>1, <2>2, PatternInMap
    <3>2. id \in Ids
      BY <3>1 DEF Given
    <3> QED
      BY <2>1, <2>2, <3>2, PatternInMap DEF words
  <2>3. CASE id = "command"
    <3>1. id \in Ids
      BY <1>4, <1>7, <2>3
    <3>2. CASE Given(options, "command", args, id)
      BY <1>2, <1>3, <2>1, <3>1, <3>2, MapAt DEF words
    <3>3. CASE ~Given(options, "command", args, id)
      <4>1. optionsMap[id] = DefaultValues[id]
        BY <1>2, <1>3, <1>7, <2>1, <2>3, <3>3, MapAt
      <4> QED
        BY <1>7, <1>9, <2>3, <4>1
    <3> QED
      BY <3>2, <3>3
  <2>4. CASE id \in BuiltIns \ {"command"}
    <3>1. id \in Ids /\ UsesOf(options, id, args) # {}
      BY <1>4, <1>5, <2>4 DEF GivenIds
    <3>2. words(id) # <<>>
      BY <2>1, <2>4, <3>1, UsedHasWords DEF words
    <3> QED
      BY <1>8, <3>1, <3>2
  <2> QED
    BY <2>2, <2>3, <2>4
<1> HIDE DEF Ids
<1>10. Places(word, kept) = Places(word, all)
  <2>1. \A id \in DOMAIN kept : kept[id] # <<>> => id \in DOMAIN all /\ all[id] = kept[id]
    BY <1>9
  <2>2. \A id \in DOMAIN all : all[id] # <<>> => id \in DOMAIN kept /\ kept[id] = all[id]
    BY <1>8
  <2> HIDE DEF kept, all
  <2> QED
    BY <2>1, <2>2, SamePlaces
<1>11. Times(word, all) = Times(word, [i \in DOMAIN args |-> args[i].values])
  BY <1>1, <1>2, AllCounted DEF Ids, words
<1> QED
  BY <1>10, <1>11 DEF Times

\* When commands are executed, each word of the command line is in what an option
\* that was given has, or among the commands, as often as it was typed: none is
\* lost between the two, none is used twice, and none is there that was not typed.
THEOREM WordsAreKept ==
  ASSUME OwnOptions
  PROVE  Spec => []EveryWordCounts
<1>1. Inv => EveryWordCounts
  <2> SUFFICES ASSUME Inv, pc = "commander", NEW word
               PROVE  Times(word, [id \in GivenIds |-> optionsMap[id]])
                        = Times(word, [i \in DOMAIN args |-> args[i].values])
    BY DEF EveryWordCounts, GivenIds
  <2>1. Input /\ SecondPassed
    BY DEF Inv, InvCommander, Ready
  <2> QED
    BY <2>1, KeptIsGiven
<1> QED
  BY <1>1, Invariance, PTL

=============================================================================
