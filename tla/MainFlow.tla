-------------------------------- MODULE MainFlow --------------------------------
(***************************************************************************)
(* execHelperMain, from the command line to the call of Commander::run.    *)
(* The command line is parsed twice: first to find the settings file, and  *)
(* again once the patterns in it have added their options.                 *)
(***************************************************************************)
EXTENDS OptionDescriptions

CONSTANTS
  CommandLines,   \* the command lines: sequences of [option, values]
  Contents,       \* what a settings file may be: see Settings
  Files,          \* the names of the files that may exist
  Concurrency     \* what thread::hardware_concurrency() may return

\* What parseSettingsFile finds
Settings(patterns) == [kind |-> "settings", patterns |-> patterns]
NoFile == [kind |-> "none"]
Malformed == [kind |-> "malformed"]
NoTree == [kind |-> "no tree"]

WordsIn(line) == UNION {Range(use.values) : use \in Range(line)}

\* An option that takes words has some: only flags go without.
IsCommandLine(line) ==
  /\ line \in Seq(Range(line))
  /\ Unset \notin WordsIn(line) \cup Seq(WordsIn(line))
  /\ \A use \in Range(line) :
       /\ use.option # Unset
       /\ use.values \in Seq(WordsIn(line))
       /\ use.values = <<>> =>
            \E i \in Matching(DefaultOptions, use.option) : DefaultOptions[i].kind = "flag"

IsPattern(pattern) ==
  /\ pattern = [key |-> pattern.key, values |-> pattern.values,
                longOption |-> pattern.longOption, shortOption |-> pattern.shortOption]
  /\ NoOption \notin {pattern.longOption, pattern.shortOption}

ASSUME MainFlowAssumption ==
  /\ \A line \in CommandLines : IsCommandLine(line)
  /\ \A content \in Contents : content.kind = "settings" =>
       /\ content.patterns \in Seq(Range(content.patterns))
       /\ \A pattern \in Range(content.patterns) : IsPattern(pattern)
  /\ ".exec-helper" \in Files
  /\ Concurrency \subseteq 0..JobsLimit - 1

VARIABLES
  args,          \* the command line
  files,         \* what getSettingsFile finds for each name
  concurrency,   \* what thread::hardware_concurrency() returns
  pc,            \* the next part of execHelperMain, or how it ended
  firstPass,     \* firstPassOptionsMap
  options,       \* optionDescriptions
  left,          \* the patterns that are left in a loop over them
  patterns,      \* patterns
  optionsMap,    \* optionsMap
  output,        \* what was printed
  executor       \* the executor, once there is one

vars == <<args, files, concurrency, pc, firstPass, options, left, patterns,
          optionsMap, output, executor>>
input == <<args, files, concurrency>>

Ends == {"success", "failure", "terminated", "undefined", "commander"}

Init ==
  /\ args \in CommandLines
  /\ files \in [Files -> Contents]
  /\ concurrency \in Concurrency
  /\ pc = "first pass"
  /\ firstPass = DefaultValues /\ optionsMap = DefaultValues
  /\ options = DefaultOptions
  /\ left = <<>> /\ patterns = <<>>
  /\ output = "nothing" /\ executor = "none"

-----------------------------------------------------------------------------
\* The first pass: nothing but the options of exec-helper itself is known.

FirstPass ==
  /\ pc = "first pass"
  /\ ~ParseFails(DefaultOptions, Unset, args, TRUE)
  /\ firstPass' = ToMap(DefaultValues, DefaultOptions, Unset, args)
  /\ pc' = "settings file"
  /\ UNCHANGED <<input, options, left, patterns, optionsMap, output, executor>>

FirstPassFails ==
  /\ pc = "first pass"
  /\ ParseFails(DefaultOptions, Unset, args, TRUE)
  /\ output' = "help" /\ pc' = "failure"
  /\ UNCHANGED <<input, firstPass, options, left, patterns, optionsMap, executor>>

SettingsFileName ==
  IF firstPass["settings-file"] = Unset THEN ".exec-helper"
  ELSE Last(firstPass["settings-file"])

Exists(name) == name \in Files /\ files[name] # NoFile

\* Mutant: words are only completed with a settings file.
WithoutCompletions ==
  /\ pc = "settings file"
  /\ ~Exists(SettingsFileName)
  /\ LET answer == IF IsTrue(firstPass["help"]) THEN "help"
                   ELSE IF IsTrue(firstPass["version"]) THEN "version"
                   ELSE IF IsTrue(firstPass["list-plugins"]) THEN "plugins"
                   ELSE "none"
     IN IF answer = "none" THEN output' = "help" /\ pc' = "failure"
        ELSE output' = answer /\ pc' = "success"
  /\ UNCHANGED <<input, firstPass, options, left, patterns, optionsMap, executor>>

\* What exec-helper can do without a settings file
WithoutSettingsFile ==
  /\ pc = "settings file"
  /\ ~Exists(SettingsFileName)
  /\ LET answer == IF IsTrue(firstPass["help"]) THEN "help"
                   ELSE IF IsTrue(firstPass["version"]) THEN "version"
                   ELSE IF IsTrue(firstPass["list-plugins"]) THEN "plugins"
                   ELSE IF AutoComplete(firstPass) # Unset THEN "completions"
                   ELSE "none"
     IN IF answer = "none" THEN output' = "help" /\ pc' = "failure"
        ELSE output' = answer /\ pc' = "success"
  /\ UNCHANGED <<input, firstPass, options, left, patterns, optionsMap, executor>>

\* A file that cannot be parsed throws: one the library refuses out of a
\* function that is noexcept, one without settings out of main.
ReadSettings ==
  /\ pc = "settings file"
  /\ Exists(SettingsFileName)
  /\ IF files[SettingsFileName].kind = "settings"
     THEN /\ patterns' = files[SettingsFileName].patterns
          /\ left' = patterns'
          /\ pc' = "add options"
     ELSE pc' = "terminated" /\ UNCHANGED <<patterns, left>>
  /\ UNCHANGED <<input, firstPass, options, optionsMap, output, executor>>

-----------------------------------------------------------------------------
\* The second pass

\* A pattern without a long option adds none.
AddPatternOption ==
  /\ pc = "add options" /\ left # <<>>
  /\ options' = IF Head(left).longOption = Unset THEN options
                ELSE Append(options, Option(Head(left).longOption,
                                            Head(left).shortOption, "list"))
  /\ left' = Tail(left)
  /\ UNCHANGED <<input, pc, firstPass, patterns, optionsMap, output, executor>>

\* Mutant: the words that are no values of options are dropped.
SecondPassWithoutPositional ==
  /\ pc = "add options" /\ left = <<>>
  /\ ~ParseFails(options, Unset, args, FALSE)
  /\ optionsMap' = ToMap(DefaultValues, options, Unset, args)
  /\ pc' = "queries"
  /\ UNCHANGED <<input, firstPass, options, left, patterns, output, executor>>

\* Mutant: the defaults are only there in the first pass.
SecondPassWithoutDefaults ==
  /\ pc = "add options" /\ left = <<>>
  /\ ~ParseFails(options, "command", args, FALSE)
  /\ optionsMap' = ToMap([id \in {} |-> <<>>], options, "command", args)
  /\ pc' = "queries"
  /\ UNCHANGED <<input, firstPass, options, left, patterns, output, executor>>

SecondPass ==
  /\ pc = "add options" /\ left = <<>>
  /\ ~ParseFails(options, "command", args, FALSE)
  /\ optionsMap' = ToMap(DefaultValues, options, "command", args)
  /\ pc' = "queries"
  /\ UNCHANGED <<input, firstPass, options, left, patterns, output, executor>>

SecondPassFails ==
  /\ pc = "add options" /\ left = <<>>
  /\ ParseFails(options, "command", args, FALSE)
  /\ output' = "help" /\ pc' = "failure"
  /\ UNCHANGED <<input, firstPass, options, left, patterns, optionsMap, executor>>

Answer(what) == output' = what /\ pc' = "success"
Undisturbed == UNCHANGED <<input, firstPass, options, patterns, optionsMap, executor>>

PrintHelp ==
  /\ pc = "queries" /\ IsTrue(optionsMap["help"])
  /\ Answer("help")
  /\ Undisturbed /\ UNCHANGED left

PrintVersion ==
  /\ pc = "queries" /\ ~IsTrue(optionsMap["help"])
  /\ IsTrue(optionsMap["version"])
  /\ Answer("version")
  /\ Undisturbed /\ UNCHANGED left

DiscoverPlugins ==
  /\ pc = "queries"
  /\ ~IsTrue(optionsMap["help"]) /\ ~IsTrue(optionsMap["version"])
  /\ IF IsTrue(optionsMap["list-plugins"]) THEN Answer("plugins")
     ELSE pc' = "completion" /\ UNCHANGED output
  /\ Undisturbed /\ UNCHANGED left

\* Whether to complete is taken from the first pass, the word from the second:
\* an optional without a value is dereferenced when it is not there.
CompleteWord ==
  /\ pc = "completion" /\ AutoComplete(firstPass) # Unset
  /\ IF AutoComplete(optionsMap) = Unset
     THEN pc' = "undefined" /\ UNCHANGED output
     ELSE Answer("completions")
  /\ Undisturbed /\ UNCHANGED left

-----------------------------------------------------------------------------
\* Executing commands

\* Mutant: no jobs at all are let through.
VerifyNothing ==
  /\ pc = "completion" /\ AutoComplete(firstPass) = Unset
  /\ pc' = "patterns" /\ left' = patterns
  /\ Undisturbed /\ UNCHANGED output

VerifyOptions ==
  /\ pc = "completion" /\ AutoComplete(firstPass) = Unset
  /\ IF Jobs(optionsMap, concurrency) = 0
     THEN pc' = "failure" /\ UNCHANGED left
     ELSE pc' = "patterns" /\ left' = patterns
  /\ Undisturbed /\ UNCHANGED output

\* Mutant: only the last word of an option becomes a value.
LastValue(pattern) ==
  IF pattern.longOption \in DOMAIN optionsMap
  THEN [pattern EXCEPT !.values = <<Last(optionsMap[pattern.longOption])>>]
  ELSE pattern

\* Mutant: it is not checked whether the options have any.
UncheckedValues(pattern) ==
  IF pattern.longOption = Unset THEN pattern
  ELSE [pattern EXCEPT !.values = IF pattern.longOption \in DOMAIN optionsMap
                                  THEN optionsMap[pattern.longOption] ELSE <<>>]

\* The values of a pattern are those of its long option, if the options have
\* any.
WithOptionValues(pattern) ==
  IF pattern.longOption \in DOMAIN optionsMap
     /\ optionsMap[pattern.longOption] # Unset
  THEN [pattern EXCEPT !.values = optionsMap[pattern.longOption]] ELSE pattern

SetPatternValues ==
  /\ pc = "patterns" /\ left # <<>>
  /\ patterns' = [patterns EXCEPT
                   ![Len(patterns) - Len(left) + 1] = WithOptionValues(@)]
  /\ left' = Tail(left)
  /\ UNCHANGED <<input, pc, firstPass, options, optionsMap, output, executor>>

Executor ==
  IF IsTrue(optionsMap["dry-run"]) THEN "reporting"
  ELSE IF IsTrue(optionsMap["keep-going"]) THEN "ignoring failures"
  ELSE "exiting on failure"

\* Commander::run refuses to run without commands.
RunCommander ==
  /\ pc = "patterns" /\ left = <<>>
  /\ executor' = Executor
  /\ pc' = IF optionsMap["command"] = <<>> THEN "failure" ELSE "commander"
  /\ UNCHANGED <<input, firstPass, options, left, patterns, optionsMap, output>>

\* The process has ended, or commands are executed.
Done == pc \in Ends /\ UNCHANGED vars

Next ==
  \/ FirstPass \/ FirstPassFails \/ WithoutSettingsFile \/ ReadSettings
  \/ AddPatternOption \/ SecondPass \/ SecondPassFails
  \/ PrintHelp \/ PrintVersion \/ DiscoverPlugins \/ CompleteWord
  \/ VerifyOptions \/ SetPatternValues \/ RunCommander
  \/ Done

Spec == Init /\ [][Next]_vars

-----------------------------------------------------------------------------
TypeOK ==
  /\ pc \in Ends \cup {"first pass", "settings file", "add options", "queries",
                       "completion", "patterns"}
  /\ BuiltIns \ {"auto-complete"} \subseteq DOMAIN optionsMap
  /\ output \in {"nothing", "help", "version", "plugins", "completions"}
  /\ executor \in {"none", "reporting", "ignoring failures", "exiting on failure"}
  /\ \A i \in DOMAIN patterns : patterns[i].values # <<>>

\* What is typed for the option of a pattern: its names, which patterns with
\* the same long option share, and what it can be shortened to.
NamesOf(pattern) ==
  LET own == {option \in Range(options) : option.id = pattern.longOption}
      InFull(some) == {option.id : option \in some} \cup {option.short : option \in some}
      shortened == {pair[1] : pair \in {p \in Abbreviations : p[2] = pattern.longOption}}
  IN InFull(own) \cup (shortened \ InFull(Range(options)))
IsUsed(names) == \E i \in DOMAIN args : args[i].option \in names
WordsOf(names) ==
  FlattenSeq([i \in DOMAIN args |->
    IF args[i].option \in names THEN args[i].values ELSE <<>>])
IsAsked(id) ==
  \E i \in DOMAIN args : \E j \in DOMAIN DefaultOptions :
    /\ DefaultOptions[j].id = id
    /\ args[i].option # NoOption
    /\ Matching(DefaultOptions, args[i].option) = {j}

\* The question asked on the command line that goes before all others there
Asked ==
  IF IsAsked("help") THEN "help"
  ELSE IF IsAsked("version") THEN "version"
  ELSE IF IsAsked("list-plugins") THEN "plugins"
  ELSE IF IsAsked("auto-complete") THEN "completions" ELSE "nothing"

\* The command line cannot be parsed, without or with the options of patterns.
IsMistyped ==
  \/ ParseFails(DefaultOptions, Unset, args, TRUE)
  \/ Exists(SettingsFileName) /\ ParseFails(options, "command", args, FALSE)

IsUnreadable ==
  Exists(SettingsFileName) /\ files[SettingsFileName].kind # "settings"

\* However the process ends: a command line that asks something has been
\* answered with what was asked, in the order of precedence, and has executed
\* nothing; one that asks nothing gets no answer.  With or without a settings
\* file, there are two exceptions: a command line with a mistake is refused, and
\* nothing is said of one for which a settings file is found that cannot be
\* read (see HelpIsPrinted).
AnswersTheQuestion ==
  pc \in Ends =>
    \/ Asked # "nothing" /\ pc = "success" /\ output = Asked
    \/ Asked = "nothing" /\ pc # "success" /\ (pc = "commander" => output = "nothing")
    \/ IsMistyped /\ pc = "failure"
    \/ IsUnreadable /\ pc = "terminated"

\* A command line that asks for help and has no mistake prints it and exits
\* successfully, as exec-helper.rst says of --help.
HelpIsPrinted ==
  pc \in Ends /\ IsAsked("help") /\ ~IsMistyped
    => pc = "success" /\ output = "help"

\* The options of exec-helper itself mean the same to both passes, on which
\* the settings file and the completion rely: the options that the patterns
\* add do not take words away from them.
PassesAgree ==
  pc \in {"queries", "completion", "patterns", "commander"} =>
    \A id \in BuiltIns \ {"command"} :
      /\ (id \in DOMAIN firstPass) = (id \in DOMAIN optionsMap)
      /\ id \in DOMAIN firstPass => firstPass[id] = optionsMap[id]

\* The values of each pattern that commands are executed with are the words
\* its option was given, all of them and in their order, or its default
\* values if the option was not given.
PatternValuesChosen ==
  pc = "commander" =>
    \A i \in DOMAIN patterns :
      LET pattern == patterns[i]
          default == files[SettingsFileName].patterns[i].values
      IN pattern.values =
           IF IsUsed(NamesOf(pattern)) THEN WordsOf(NamesOf(pattern)) ELSE default

\* Where, and how often, a word is in some lists
Places(word, lists) ==
  {p \in UNION {{x} \X DOMAIN lists[x] : x \in DOMAIN lists} :
     lists[p[1]][p[2]] = word}
Times(word, lists) == Cardinality(Places(word, lists))

\* No word of the command line is lost, used twice or made up: the options that
\* were given and the commands have each word as often as it was typed.
EveryWordCounts ==
  pc = "commander" =>
    LET given == {id \in DOMAIN optionsMap \ Flags(DefaultOptions) :
                    id \in BuiltIns \ {"command"} => IsAsked(id)}
        kept == [id \in given |-> optionsMap[id]]
        typed == [i \in DOMAIN args |-> args[i].values]
    IN \A word \in WordsIn(args) \cup UNION {Range(kept[id]) : id \in given} :
         Times(word, kept) = Times(word, typed)

\* Commands are never executed with zero jobs, and with the number that was
\* asked for if it is a possible one.
JobsAsAsked ==
  pc = "commander" =>
    /\ Jobs(optionsMap, concurrency) > 0
    /\ \A i \in DOMAIN args :
         LET word == args[i].values[1]
         IN /\ args[i].option \in {"jobs", "j"} /\ args[i].values # <<>>
            /\ word \in DOMAIN Numbers /\ Numbers[word] \in 1..JobsLimit - 1
            => Jobs(optionsMap, concurrency) = Numbers[word]

=============================================================================
