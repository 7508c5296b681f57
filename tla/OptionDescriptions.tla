--------------------------- MODULE OptionDescriptions ---------------------------
(***************************************************************************)
(* config::OptionDescriptions, and the options of the command line that    *)
(* FleetingOptions holds.                                                  *)
(*                                                                         *)
(* A command line is a list of uses of options, each with the words that   *)
(* follow it up to the next one; words before all options are a use of     *)
(* NoOption.  An option without a value to take, and a value attached to a *)
(* flag, are left out.                                                     *)
(***************************************************************************)
EXTENDS Integers, SequencesExt

CONSTANTS
  Unset,           \* no value
  NoOption,        \* the option of the words before all options
  Abbreviations,   \* pairs of what is typed and the option it is a prefix of
  Numbers,         \* the number of each word that is one
  JobsLimit        \* bound: how many numbers Jobs_t has, 2 ^ 32 in the code

\* Option<T>: a flag, an option with one value or one with a list of them
Option(id, short, kind) == [id |-> id, short |-> short, kind |-> kind]

DefaultOptions ==
  << Option("help", "h", "flag"), Option("version", Unset, "flag"),
     Option("verbose", "v", "flag"), Option("jobs", "j", "value"),
     Option("dry-run", "n", "flag"), Option("keep-going", "k", "flag"),
     Option("list-plugins", Unset, "flag"),
     Option("additional-search-path", Unset, "list"),
     Option("settings-file", "s", "value"), Option("debug", "d", "value"),
     Option("auto-complete", Unset, "value"), Option("command", "z", "list") >>

ASSUME OptionsAssumption ==
  /\ \A option \in Range(DefaultOptions) :
       /\ NoOption \notin {option.id, option.short}
       /\ option.id # Unset
  /\ \A pair \in Abbreviations :
       pair = <<pair[1], pair[2]>> /\ pair[1] # NoOption /\ pair[2] # Unset
  /\ JobsLimit \in Nat \ {0}
  /\ \A word \in DOMAIN Numbers : word # "auto" /\ Numbers[word] \in Int

BuiltIns == {DefaultOptions[i].id : i \in DOMAIN DefaultOptions}
Flags(options) ==
  {options[i].id : i \in {j \in DOMAIN options : options[j].kind = "flag"}}

\* FleetingOptions::getDefault()
DefaultValues ==
  [id \in BuiltIns \ {"auto-complete"} |->
    CASE id \in Flags(DefaultOptions) -> <<"no">>
      [] id = "jobs" -> <<"auto">>
      [] id = "debug" -> <<"none">>
      [] id = "settings-file" -> Unset
      [] OTHER -> <<>>]

\* The options that are meant by what is typed: those with the name or, if
\* there is none, those whose name begins with it.
Matching(options, typed) ==
  LET exact == {i \in DOMAIN options : typed \in {options[i].id, options[i].short}}
  IN IF exact # {} THEN exact
     ELSE {i \in DOMAIN options : <<typed, options[i].id>> \in Abbreviations}

Known(options, use) ==
  use.option # NoOption /\ Matching(options, use.option) # {}
Meant(options, use) ==
  options[CHOOSE i \in Matching(options, use.option) : TRUE]

\* The words an option takes; the others are positional arguments.
WordsTaken(options, use) ==
  IF ~Known(options, use) THEN 0
  ELSE CASE Meant(options, use).kind = "flag" -> 0
         [] Meant(options, use).kind = "value" -> 1
         [] OTHER -> Len(use.values)

\* The uses of the option with this name
IsUseOf(options, id, use) == Known(options, use) /\ Meant(options, use).id = id
UsesOf(options, id, args) == {i \in DOMAIN args : IsUseOf(options, id, args[i])}

Several(S) == \E x, y \in S : x # y

\* command_line_parser::run and store fail.
ParseFails(options, positional, args, allowUnregistered) ==
  \/ \E i \in DOMAIN args :
       /\ args[i].option # NoOption
       /\ \/ Several(Matching(options, args[i].option))
          \/ Matching(options, args[i].option) = {} /\ ~allowUnregistered
  \/ \E i \in DOMAIN options :
       options[i].kind # "list" /\ Several(UsesOf(options, options[i].id, args))
  \/ /\ positional # Unset
     /\ Several({i \in DOMAIN options : options[i].id = positional})
     /\ \E i \in DOMAIN args : WordsTaken(options, args[i]) < Len(args[i].values)

WordsFor(options, positional, args, id) ==
  FlattenSeq([i \in DOMAIN args |->
    LET taken == WordsTaken(options, args[i])
    IN (IF IsUseOf(options, id, args[i])
        THEN SubSeq(args[i].values, 1, taken) ELSE <<>>)
       \o (IF positional = id
           THEN SubSeq(args[i].values, taken + 1, Len(args[i].values)) ELSE <<>>)])

\* toMap: flags are always replaced, other options when they are given.
ToMap(optionsMap, options, positional, args) ==
  LET given == {options[i].id : i \in {j \in DOMAIN options :
                  WordsFor(options, positional, args, options[j].id) # <<>>}}
  IN [id \in DOMAIN optionsMap \cup given \cup Flags(options) |->
       IF id \in Flags(options)
       THEN IF UsesOf(options, id, args) # {} THEN <<"1">> ELSE <<"0">>
       ELSE IF id \in given THEN WordsFor(options, positional, args, id)
       ELSE optionsMap[id]]

-----------------------------------------------------------------------------
\* FleetingOptions

\* Cast<bool>
IsTrue(values) == values # <<>> /\ Last(values) \in {"yes", "1", "true"}

\* lexical_cast<Jobs_t>: a negative number wraps around, one that does not fit
\* is as good as a word that is no number.
CastJobs(word) ==
  IF word \in DOMAIN Numbers /\ Numbers[word] \in 1 - JobsLimit..JobsLimit - 1
  THEN Numbers[word] % JobsLimit ELSE 1

Jobs(optionsMap, hardwareConcurrency) ==
  IF Last(optionsMap["jobs"]) = "auto" THEN hardwareConcurrency
  ELSE CastJobs(Last(optionsMap["jobs"]))

AutoComplete(optionsMap) ==
  IF "auto-complete" \in DOMAIN optionsMap THEN Last(optionsMap["auto-complete"])
  ELSE Unset

=============================================================================
