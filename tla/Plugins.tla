------------------------------- MODULE Plugins -------------------------------
(***************************************************************************)
(* The plugins of exec-helper as pure functions: given the settings tree,  *)
(* a plugin name, the command it is executed for and the task it has to    *)
(* extend, Program yields the straight-line list of steps its apply()      *)
(* performs.  A step registers one task with the executor, lets            *)
(* ExecutePlugin execute other commands first (a nested, synchronous call) *)
(* or reports an improper invocation.                                      *)
(*                                                                         *)
(* The text of a task is abstracted to the history of the operations that  *)
(* built it: which plugin appended its arguments, for which command, and   *)
(* which pattern combination was substituted at which point.  Two tasks    *)
(* with different histories are different command lines.                   *)
(***************************************************************************)
EXTENDS Integers, Sequences

CONSTANTS
  Name,            \* names of commands and of plugins, as used in a settings file
  PluginType,      \* function: the names that are plugins -> their implementation
  MaxCombinations, \* bound: largest number of pattern combinations of a plugin
  MaxCommandLines  \* bound: largest number of command lines of command-line-command

\* The implementations: the ones in C++, and the bundled scripts, of which
\* "script" stands for those that register one task and execute no targets
\* (bootstrap, clang-tidy, cmake, cppcheck, make, ninja, scons).
Scripts == {"script", "clang-static-analyzer", "docker", "selector"}
Types == Scripts \cup {"commands", "command-line-command", "memory",
                       "valgrind", "pmd", "lcov"}

Plugin == DOMAIN PluginType

ASSUME PluginAssumption ==
  /\ Plugin \subseteq Name
  /\ PluginType \in [Plugin -> Types]

ASSUME BoundAssumption ==
  /\ MaxCombinations \in Nat \ {0}
  /\ MaxCommandLines \in Nat

-----------------------------------------------------------------------------
(* Tasks and the steps of a plugin. *)

Tool == Types \cup {"patterns", "zerocounters", "capture", "remove", "genhtml"}

Argument == [tool : Tool, owner : Name, number : Nat]
Task == Seq(Argument)

Extend(task, tool, owner, number) ==
  Append(task, [tool |-> tool, owner |-> owner, number |-> number])

\* replacePatternCombinations(task, combination): every argument present so
\* far is replaced, arguments appended afterwards are not.
ReplacePatternCombinations(task, owner, combination) ==
  Extend(task, "patterns", owner, combination)

\* otherwise is the step to go on with when the nested commands fail, and 0
\* when the plugin then returns false itself.
Step == [op : {"register", "execute", "fail"}, task : Task,
         commands : Seq(Name), otherwise : Nat]

Register(task) ==
  [op |-> "register", task |-> task, commands |-> <<>>, otherwise |-> 0]
Execute(commands, task, otherwise) ==
  [op |-> "execute", task |-> task, commands |-> commands,
   otherwise |-> otherwise]
Fail == [op |-> "fail", task |-> <<>>, commands |-> <<>>, otherwise |-> 0]

-----------------------------------------------------------------------------
(* The settings tree, restricted to what decides which steps are taken.    *)
(* The fields after commands are partial functions from paths: <<p>> is    *)
(* the section of plugin p, <<p, c>> its subsection for command c.  A key  *)
(* without values has no value to get, so an empty list is as good as no   *)
(* key: lists are not empty, except the targets of a script, which can     *)
(* tell a key without values from none.  invalid holds the plugins that    *)
(* raise an input error, or any other, for what is configured for c.       *)

Path == {<<p>> : p \in Name} \cup {<<p, c>> : p \in Name, c \in Name}

IsPartialFunction(f, S, T) ==
  DOMAIN f \subseteq S /\ \A x \in DOMAIN f : f[x] \in T

NonEmptyLists(S) == Seq(S) \ {<<>>}

\* The targets that result from each combination; there are as many of them.
Targets == {f \in [1..MaxCombinations -> Seq(Name)] :
              \A j, k \in 1..MaxCombinations : Len(f[j]) = Len(f[k])}

IsSettings(s) ==
  /\ IsPartialFunction(s.commands, Name, NonEmptyLists(Name))
  /\ IsPartialFunction(s.combinations, Path, 1..MaxCombinations)
  /\ IsPartialFunction(s.commandLines, Path, 1..MaxCommandLines)
  /\ IsPartialFunction(s.runCommand, Path, NonEmptyLists(Name))
  /\ IsPartialFunction(s.targets, Path, Targets)
  /\ IsPartialFunction(s.zeroCounters, Path, BOOLEAN)
  /\ IsPartialFunction(s.excludes, Path, {TRUE})
  /\ IsPartialFunction(s.genHtml, Path, BOOLEAN)
  /\ s.invalid \subseteq Name \X Name

\* The variables map of a plugin: its defaults, overlaid by the settings at
\* {plugin}, overlaid by those at {plugin, initial command}.
IsSet(f, plugin, initial) ==
  {<<plugin>>, <<plugin, initial>>} \cap DOMAIN f # {}
Variable(f, plugin, initial, default) ==
  IF <<plugin, initial>> \in DOMAIN f THEN f[<<plugin, initial>>]
  ELSE IF <<plugin>> \in DOMAIN f THEN f[<<plugin>>]
  ELSE default

\* makePatternPermutator iterates exactly once when a plugin uses no pattern.
Combinations(s, p, c) == Variable(s.combinations, p, c, 1)

\* The steps of "for each combination k: body(k)", a body having m steps.
ForEachCombination(n, m, Body(_)) ==
  [j \in 1..(n * m) |-> Body(((j - 1) \div m) + 1)[((j - 1) % m) + 1]]

-----------------------------------------------------------------------------
(* apply() of each implementation, for plugin p executed for command c.    *)

\* commands: executes every command listed under the commands key of the
\* settings, and the ones of the command line only when there is no such key.
CommandPluginProgram(s, commandLine, task) ==
  <<Execute(IF "commands" \in DOMAIN s.commands THEN s.commands["commands"]
                                                ELSE commandLine,
            task, 0)>>

\* For each combination, the configured command lines in order.
CommandLineCommandProgram(s, p, c, task) ==
  LET lines == Variable(s.commandLines, p, c, 0)
      Body(k) == [l \in 1..lines |->
        Register(ReplacePatternCombinations(
          Extend(task, "command-line-command", c, l), p, k))]
  IN IF lines = 0 THEN <<Fail>>
     ELSE ForEachCombination(Combinations(s, p, c), lines, Body)

\* memory: remembers that it was applied (a test double), and does nothing.
MemoryProgram == <<>>

\* pmd and the scripts that register a single task (after the script has
\* ended, for each combination).
SingleTaskProgram(s, p, c, task) ==
  LET Body(k) == <<Register(ReplacePatternCombinations(
                     Extend(task, PluginType[p], c, 0), p, k))>>
  IN ForEachCombination(Combinations(s, p, c), 1, Body)

\* valgrind prefixes the tasks of its run commands, once per combination.
ValgrindProgram(s, p, c, task) ==
  LET Body(k) == <<Execute(Variable(s.runCommand, p, c, <<>>),
                     ReplacePatternCombinations(
                       Extend(task, "valgrind", c, 0), p, k), 0)>>
  IN IF ~IsSet(s.runCommand, p, c) THEN <<Fail>>
     ELSE ForEachCombination(Combinations(s, p, c), 1, Body)

\* An optional step of lcov is left out by default.
IsAsked(f, p, c) == Variable(f, p, c, FALSE)

\* Mutant: lcov captures the counters before it executes the run commands.
LcovCapturingFirst(s, p, c, task) ==
  LET Tool1(tool, k) == Register(ReplacePatternCombinations(
                          Extend(task, tool, c, 0), p, k))
      When(f, tool, k) ==
        IF IsAsked(f, p, c) THEN <<Tool1(tool, k)>> ELSE <<>>
      run == Variable(s.runCommand, p, c, <<>>)
      Body(k) == When(s.zeroCounters, "zerocounters", k)
                 \o <<Tool1("capture", k), Execute(run, task, 0)>>
                 \o When(s.excludes, "remove", k)
                 \o When(s.genHtml, "genhtml", k)
  IN IF ~IsSet(s.runCommand, p, c) THEN <<Fail>>
     ELSE ForEachCombination(Combinations(s, p, c), Len(Body(1)), Body)

\* lcov, per combination: zero the counters (if asked to), execute the run
\* commands with the task as it was given, capture, remove the excluded
\* paths (if any) and generate the report (if asked to).
LcovProgram(s, p, c, task) ==
  LET Tool1(tool, k) == Register(ReplacePatternCombinations(
                          Extend(task, tool, c, 0), p, k))
      When(f, tool, k) ==
        IF IsAsked(f, p, c) THEN <<Tool1(tool, k)>> ELSE <<>>
      run == Variable(s.runCommand, p, c, <<>>)
      Body(k) == When(s.zeroCounters, "zerocounters", k)
                 \o <<Execute(run, task, 0), Tool1("capture", k)>>
                 \o When(s.excludes, "remove", k)
                 \o When(s.genHtml, "genhtml", k)
  IN IF ~IsSet(s.runCommand, p, c) THEN <<Fail>>
     ELSE ForEachCombination(Combinations(s, p, c), Len(Body(1)), Body)

\* run_target of a lua script: for each combination, execute the targets that
\* result from substituting the combination; the first one that fails ends
\* the loop.  The bundled scripts do not look at the value it returns.
RunTargetProgram(s, p, c, task) ==
  LET n == Combinations(s, p, c)
  IN [k \in 1..n |->
       Execute(Variable(s.targets, p, c, [j \in 1..n |-> <<>>])[k],
               ReplacePatternCombinations(task, p, k), n + 1)]

\* The selector needs targets; clang-static-analyzer a non-empty list.
SelectorProgram(s, p, c, task) ==
  IF IsSet(s.targets, p, c) THEN RunTargetProgram(s, p, c, task) ELSE <<Fail>>

ClangStaticAnalyzerProgram(s, p, c, task) ==
  IF IsSet(s.targets, p, c) /\ Variable(s.targets, p, c, <<>>)[1] # <<>>
  THEN RunTargetProgram(s, p, c, Extend(task, "clang-static-analyzer", c, 0))
  ELSE <<Fail>>

\* docker runs targets inside the container when it is given any, and
\* registers itself otherwise.
DockerProgram(s, p, c, task) ==
  IF IsSet(s.targets, p, c)
  THEN RunTargetProgram(s, p, c, Extend(task, "docker", c, 0))
  ELSE SingleTaskProgram(s, p, c, task)

\* LuaPlugin: an error in the script discards the tasks it registered; the
\* bundled ones do not raise any after they executed targets.
ScriptProgram(s, p, c, task) ==
  IF <<p, c>> \in s.invalid THEN <<Fail>>
  ELSE CASE PluginType[p] = "script" -> SingleTaskProgram(s, p, c, task)
         [] PluginType[p] = "clang-static-analyzer"
              -> ClangStaticAnalyzerProgram(s, p, c, task)
         [] PluginType[p] = "docker" -> DockerProgram(s, p, c, task)
         [] PluginType[p] = "selector" -> SelectorProgram(s, p, c, task)

Program(s, commandLine, p, c, task) ==
  CASE PluginType[p] = "commands" -> CommandPluginProgram(s, commandLine, task)
    [] PluginType[p] = "command-line-command"
         -> CommandLineCommandProgram(s, p, c, task)
    [] PluginType[p] = "memory" -> MemoryProgram
    [] PluginType[p] = "valgrind" -> ValgrindProgram(s, p, c, task)
    [] PluginType[p] = "lcov" -> LcovProgram(s, p, c, task)
    [] PluginType[p] = "pmd" -> SingleTaskProgram(s, p, c, task)
    [] PluginType[p] \in Scripts -> ScriptProgram(s, p, c, task)

=============================================================================
