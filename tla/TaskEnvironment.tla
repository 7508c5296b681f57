---------------------------- MODULE TaskEnvironment ----------------------------
(***************************************************************************)
(* core::Task and what the plugins make of it: the arguments, the          *)
(* environment and the working directory of a command, from the nested     *)
(* sections of the settings it is configured in, with the patterns of each *)
(* section substituted.                                                    *)
(*                                                                         *)
(* A text (an argument, a value, a path) is a sequence of tokens.  The     *)
(* tokens of interest are {KEY}, which a pattern replaces, and the first   *)
(* token of an absolute path.  The value of a pattern is one token, which  *)
(* may be the {KEY} of another pattern.                                    *)
(***************************************************************************)
EXTENDS Integers, Sequences, SequencesExt

CONSTANTS
  CurrentPath,   \* the working directory of the process, a text
  SettingsDirectory,   \* the directory the settings file is in
  ProcessEnvironment,  \* the environment exec-helper is started with
  Roots,         \* the tokens that make a path absolute when it starts with one
  PWD,           \* the name PWD
  NameOrder,     \* the names of variables, in the order std::map iterates them
  NotSet         \* what a section has for a setting, or a value, that is not there

\* A list, of whatever is in it
IsList(list) == list \in Seq(Range(list))

\* An environment: names std::map has an order for, and texts.
IsEnvironment(env) ==
  /\ DOMAIN env \subseteq Range(NameOrder)
  /\ \A name \in DOMAIN env : IsList(env[name])

\* What replacePatterns and friends do with names relies on the order only.
ASSUME TaskAssumption ==
  /\ {CurrentPath, SettingsDirectory} \subseteq Seq(Roots)
  /\ IsList(NameOrder) /\ PWD \in Range(NameOrder)
  /\ IsEnvironment(ProcessEnvironment)

-----------------------------------------------------------------------------
(* Task *)

\* filesystem::absolute
Absolute(path) ==
  IF path # <<>> /\ Head(path) \in Roots THEN path ELSE CurrentPath \o path

\* Every variable of extra is erased from env if it is there, and added.
Overlay(env, extra) ==
  [name \in DOMAIN env \cup DOMAIN extra |->
     IF name \in DOMAIN extra THEN extra[name] ELSE env[name]]

AppendToEnvironment(task, env) == [task EXCEPT !.env = Overlay(@, env)]

\* Mutant: the variable is only set by the constructor.
MoveOnly(task, dir) == [task EXCEPT !.dir = dir]

SetWorkingDirectory(task, dir) ==
  AppendToEnvironment([task EXCEPT !.dir = dir],
                      [name \in {PWD} |-> Absolute(dir)])

SetEnvironment(task, env) ==
  SetWorkingDirectory([task EXCEPT !.env = env], task.dir)

AppendWords(task, words) == [task EXCEPT !.words = @ \o words]

Task(words, env, dir) ==
  SetWorkingDirectory([words |-> words, env |-> env, dir |-> dir], dir)

NoVariables == [name \in {} |-> <<>>]
NewTask == Task(<<>>, NoVariables, CurrentPath)

\* The task Commander::run starts with.
FirstTask == Task(<<>>, ProcessEnvironment, SettingsDirectory)

-----------------------------------------------------------------------------
(* Patterns *)

\* replacePatterns, for the patterns of a combination one after the other: what
\* an earlier pattern put in place is replaced by a later one.
ReplaceToken(token, combination) ==
  LET after[n \in 0..Len(combination)] ==
        IF n = 0 THEN token
        ELSE IF after[n - 1] = combination[n].key THEN combination[n].value
        ELSE after[n - 1]
  IN after[Len(combination)]
Replace(text, combination) ==
  [i \in DOMAIN text |-> ReplaceToken(text[i], combination)]

\* Mutant: the variables are assigned, so that the last one keeps its value.
LastNameWins(env, combination) ==
  LET NewName(name) == ReplaceToken(name, combination)
      Final(new) == SelectLastInSeq(NameOrder, LAMBDA name :
                      name \in DOMAIN env /\ NewName(name) = new)
  IN [new \in {NewName(name) : name \in DOMAIN env} |->
        Replace(env[NameOrder[Final(new)]], combination)]

\* Names that become the same one are emplaced in the order of the map, so that
\* the first of them keeps its value.
ReplacePatternsInEnvironment(env, combination) ==
  LET NewName(name) == ReplaceToken(name, combination)
      First(new) == SelectInSeq(NameOrder, LAMBDA name :
                      name \in DOMAIN env /\ NewName(name) = new)
  IN [new \in {NewName(name) : name \in DOMAIN env} |->
        Replace(env[NameOrder[First(new)]], combination)]

ReplacePatternCombinations(task, combination) ==
  LET replaced == SetWorkingDirectory(
        SetEnvironment(NewTask,
          ReplacePatternsInEnvironment(task.env, combination)),
        Replace(task.dir, combination))
  IN AppendWords(replaced,
       [w \in DOMAIN task.words |-> Replace(task.words[w], combination)])

\* makePatternPermutator: the values of the patterns of a section, which are in
\* the order of their keys, the last one varying fastest; a section without patterns is gone through once.
Extend(combinations, pattern) ==
  FlattenSeq([c \in DOMAIN combinations |->
    [v \in DOMAIN pattern.values |->
      Append(combinations[c],
             [key |-> pattern.key, value |-> pattern.values[v]])]])

CombinationsOf(patterns) ==
  LET after[n \in 0..Len(patterns)] ==
        IF n = 0 THEN << <<>> >> ELSE Extend(after[n - 1], patterns[n])
  IN after[Len(patterns)]

-----------------------------------------------------------------------------
(* Sections: [plugin, words, env, dir, patterns], nested in one another when *)
(* a plugin executes other commands.  A section of command-line-command has  *)
(* words (Plugins tells what becomes of one that has not).                   *)

\* A pattern is replaced by tokens that may be in the name of a variable.  Its
\* own token, {KEY}, is neither PWD nor one that a path begins with.
IsPattern(pattern) ==
  /\ pattern.key \notin Roots \cup {PWD}
  /\ IsList(pattern.values)
  /\ Range(pattern.values) \subseteq Range(NameOrder)

IsSection(section) ==
  /\ section.plugin \in {"script", "command-line-command", "pmd", "valgrind", "lcov"}
  /\ IsList(section.words) /\ \A w \in DOMAIN section.words : IsList(section.words[w])
  /\ DOMAIN section.env \subseteq Range(NameOrder)
  /\ \A name \in DOMAIN section.env :
       section.env[name] # NotSet => IsList(section.env[name])
  /\ section.dir # NotSet => IsList(section.dir)
  /\ IsList(section.patterns)
  /\ \A p \in DOMAIN section.patterns : IsPattern(section.patterns[p])

\* The sections a command goes through: there is at least the one of a plugin.
IsChain(sections) ==
  /\ IsList(sections) /\ sections # <<>>
  /\ \A level \in DOMAIN sections : IsSection(sections[level])

\* The value of a variable can be missing, and the variable is then ignored.
GetEnvironment(section) ==
  [name \in {n \in DOMAIN section.env : section.env[n] # NotSet} |->
     section.env[name]]

ApplyWorkingDirectory(task, section) ==
  IF section.dir = NotSet THEN task ELSE SetWorkingDirectory(task, section.dir)
ApplyEnvironment(task, section) ==
  AppendToEnvironment(task, GetEnvironment(section))

\* Mutant: a section overrides what was set around it only when it sets the
\* working directory too.
ConfigureOutermost(task, section) ==
  IF task.dir = SettingsDirectory
  THEN ApplyEnvironment(ApplyWorkingDirectory(task, section), section)
  ELSE task

\* What the plugin makes of the task before it appends its own arguments.
Configure(task, section) ==
  CASE section.plugin = "script" ->
         ApplyEnvironment(ApplyWorkingDirectory(task, section), section)
    [] section.plugin = "command-line-command" ->
         ApplyWorkingDirectory(ApplyEnvironment(task, section), section)
    [] section.plugin \in {"pmd", "valgrind", "lcov"} -> task

Register(task) == [level |-> 0, task |-> task]
Nested(level, task) == [level |-> level, task |-> task]

\* apply() for the section at a level of the chain: what is done for each
\* combination, a task to register or the plugin one level down to apply.
ForCombination(chain, level, task, combination) ==
  LET section == chain[level]
      own == AppendWords(Configure(task, section), section.words)
      replaced == ReplacePatternCombinations(own, combination)
  IN IF level = Len(chain) THEN <<Register(replaced)>>
     ELSE IF section.plugin = "lcov"
     THEN <<Nested(level + 1, task), Register(replaced)>>
     ELSE <<Nested(level + 1, replaced)>>

Apply(chain, level, task) ==
  LET combinations == CombinationsOf(chain[level].patterns)
  IN FlattenSeq([c \in DOMAIN combinations |->
       ForCombination(chain, level, task, combinations[c])])

=============================================================================
