# A verification project for exec-helper

exec-helper executes *commands*. A settings file says what each command stands
for: other commands, or *plugins* that turn their part of the settings into
tasks (command lines) and hand them to an executor, or that first execute other
commands. This directory holds TLA+ specifications of that machinery, the TLC
configurations that check them, and TLAPS proofs. Paths below are relative to
the root of the repository.

## 1. Inventory

The program is sequential: one thread, child processes it waits for. What is
hard in it is not concurrency but mutual recursion with results that have to
find their way up, several ways for the process to end in the middle of it, and
a settings tree whose overlay rules decide what is executed.

| Component | State | Operations | Interacts with | What makes it correct |
| --- | --- | --- | --- | --- |
| main (`src/applications/exec-helper.cpp`) | options, settings, patterns, plugins, `lastReturnCode` | two passes over the options, search of the settings file, discovery of plugins, selection of the executor, exit status | everything | the documented exit status; precedence of options, files and plugins |
| Commander (`src/commander`) | none of its own | `run`: pushes four contexts, applies the commands, pops them | ExecutePlugin | contexts are released; a run without commands is an error |
| ExecutePlugin (`src/plugins/src/executePlugin.cpp`) | static stacks of contexts; a list of commands with their initial commands | `apply`, `getNextStep`, `getVariablesMap`, `push`, `pop` | plugins call it back and it calls them | every command resolved once and in order, with the right subsection; failures reach the caller |
| Plugins in C++ (`src/plugins/src/*.cpp`) | the test double `memory` only | `getVariablesMap`, `apply` | ExecutePlugin, `registerTask` | the tasks and the order the documentation promises; stop at the first failure |
| Lua plugins (`luaPlugin.cpp`, `scripts/*.lua`) | tasks registered by a script, until it ends | `register_task` (deferred), `run_target` (immediate), `input_error` | ExecutePlugin, `registerTask` | input errors become failures; deferred tasks are registered once per combination |
| Executors (`src/core/src/*Executor.cpp`) | a callback | `execute` | shell, process | the first failed task ends the process, unless asked to keep going |
| PosixShell (`src/core/src/posixShell.cpp`) | the global environment, during the expansion of words | `execute` | operating system | the environment is restored; words are expanded with the environment of their task; the program is looked for where it will run; a missing binary is reported |
| Task (`src/core/src/task.cpp`) | arguments, environment, working directory | `append`, `setEnvironment`, `setWorkingDirectory`, substitution of patterns | plugins | `PWD` follows the working directory; the innermost section wins |
| MapPermutator (`src/core/include/core/mapPermutator.h`) | one index per key, an end mark | `begin`, `++`, `==`, `*` | every plugin with patterns | each combination once, in order, and an end |
| Settings tree (`src/config/src/settingsNode.cpp`) | a tree of keys, duplicates allowed | `add`, `clear`, `replace`, `get`, copies | everything | what was written last is what is read |
| Patterns (`src/config/src/pattern*.cpp`) | keys with their values | values from the settings, from long options, substitution | plugins | values of the command line replace those of the settings |
| PermutationIterator (`src/core/include/core/permutationIterator.h`) | one iterator per collection, nested | `++`, `==`, `*` | tests | as MapPermutator |
| Settings file (`src/yaml`, `src/config/src/config.cpp`) | a configuration and its patterns, while they are read | `parseSettingsFile`, `getTree` | main | the tree is the file; patterns as declared; a bad file is refused |
| Options (`src/config/src/optionDescriptions.cpp`, `fleetingOptions.cpp`) | the descriptions, in two groups; the options in a tree | `addOption`, `setPositionalArgument`, `getOptionsMap` | main | both passes mean the same; every word counts |
| Search (`configFileSearcher.cpp`, `pathManipulation.cpp`, `discoverPlugins`) | none | search of the settings file, of plugins | file system | the nearest file, the plugin of the best directory |
| Argv, Envp (`src/config/src/argv.cpp`, `envp.cpp`) | vectors of pointers they own | constructors, assignments, `swap`, `clear` | options, shell | every string freed once, a null pointer at the end |
| Logging, luawrapper, build files | | | | not part of the behaviour modelled |

Behaviours that are hard to test here:

* a failure in a nest of commands and plugins, at any depth and any position,
  and what is executed on its way up (nothing should be);
* the process ending inside nested calls: `exit` in the default callback,
  `std::terminate` when an exception meets a `noexcept` function, a call stack
  that is used up by commands that lead back to themselves;
* the exit status as a summary of everything that happened before;
* the order of the tasks of one plugin, across combinations of patterns and
  across the commands it executes in between (lcov);
* empty lists, in the odometer over pattern values and in the settings tree,
  where a key without values is something else than an empty list;
* a settings tree with duplicate keys and copies that keep old children;
* options that are parsed twice, the second time with options the settings
  file has added, with questions (help, version, lists) that may be asked
  wherever the first pass fails;
* the environment and the directory of a task, set by several sections one
  after the other, with patterns substituted in between, and a directory that
  is at the same time a variable (`PWD`);
* directories that disappear, or may not be read, while they are searched;
* scripts, whose targets are executed at once and whose tasks wait for the end.

`PROJECT.json` lists each of them at its line, with the properties for it.

## 2. Modules

    ExecutePlugin ----EXTENDS----> Plugins            what each plugin does
         |  \------INSTANCE------> Executor           what becomes of a task
         |
    ExecutePluginRefinement --INSTANCE--> ScheduledRun --EXTENDS--> Executor
    MapPermutator --EXTENDS--> Combinations           the odometer, and its promise
    PermutationIterator --EXTENDS--> Combinations     the nested iterators, same promise
    SettingsTree --EXTENDS--> SettingsNode, --INSTANCE--> SettingsMap   the tree, and its promise
    VariablesOverlay --EXTENDS--> SettingsFile --EXTENDS--> SettingsNode  a file, up to what a plugin sees of it
    MainFlow --EXTENDS--> OptionDescriptions          main up to Commander::run
    PosixShell --EXTENDS--> TaskEnvironment           tasks, from the sections to the program
    OwnedStrings --INSTANCE--> StringLists            Argv and Envp, and their promise
    Discovery, LuaScript                              on their own

* **Plugins** translates `apply()` of every plugin into the list of steps it
  performs: register a task, execute commands (a nested call of ExecutePlugin),
  or fail. A task is the history of the operations that built it (which plugin
  appended, for which command, which combination was substituted), so that two
  tasks are equal exactly when the same operations built them in the same
  order. Settings are functions from paths `<<plugin>>` and
  `<<plugin, initial command>>` to what decides the steps; `Variable` is the
  overlay `ExecutePlugin::getVariablesMap` computes.
* **Executor** is the execute callback installed by main with everything under
  it: `ReportingExecutor` (dry run, which wins over keep going),
  `ImmediateExecutor` with its two callbacks, and `PosixShell`, which returns a
  code or throws. `process` and `exitCode` are the operating system's view;
  `log` is a history variable.
* **ExecutePlugin** is the call stack. A frame is one `apply()` in progress: of
  ExecutePlugin itself, with its commands, or of a plugin, with its program.
  There is one action for each thing that can happen at the top of the stack:
  a command is a plugin, or a configured command, or neither; a plugin
  registers a task, executes commands, raises an input error or is at its end;
  a caller looks at the result `ret` of its callee and goes on, returns false
  itself, or ignores the failure (`run_target` under the bundled scripts).
  `MaxDepth` is the number of frames the stack of the process has room for.
* **ScheduledRun** says what an invocation promises, without any of that: a
  list of tasks fixed at the start, a verdict on the configuration, tasks
  executed in order, and the exit status.
* **ExecutePluginRefinement** computes that list from the settings (`PlanOf`):
  what comes of a command or a step is what comes of the items it stands for
  (`Meaning`), one after the other up to the first that fails (`InTurn`), as a
  function of how deep they may be nested. There is no stack in it, no result
  that is passed up and no executor. It keeps the list in the variable `plan`, and
  states that ExecutePlugin implements ScheduledRun under the mapping given there.
* **Combinations** promises an iteration over all combinations of one index per
  key, in lexicographic order, once each. **MapPermutator** is the odometer of
  `core::MapPermutator` under a range-based for loop; one turn of the loop in
  `operator++` is one step.
* **PermutationIterator** is the carry of the template recursion in
  `core::PermutationIterator`, one level per step, with the same promise.
* **SettingsNode** has the operations of `config::SettingsNode` as operators on
  trees: a node has a list of children, in which a key may occur twice, or no
  list at all, which is not the same as an empty one. **SettingsTree** applies
  them, in any order, to two trees: the settings, and the variables of a plugin
  that take values over. **SettingsMap** is the promise, a map from paths to
  lists of values, which holds as long as no value is added twice. What becomes of
  the old values of a key when it takes over one without values it leaves open:
  the contract says that they are gone, the code keeps them.
  **SettingsEquality** is the comparison.
* **SettingsFile** is `parseSettingsFile`: the recursion over a document
  (**YamlDocument**) as a list of nodes left to visit, the patterns that are
  taken out of the tree, and the handler they are registered with.
  **VariablesOverlay** goes on where it ends: `ExecutePlugin::getVariablesMap`
  and `index` for a plugin that is applied, one of its two sections per step.
* **MainFlow** is `execHelperMain` up to the call of `Commander::run`: two
  passes over the command line (**OptionDescriptions**, with what the option
  library does with abbreviations and words that follow an option), the
  questions, the checks of the options, the number of jobs, the values of the
  patterns and the choice of the executor.
* **TaskEnvironment** is `core::Task` and the plugins that fill it: nested
  sections set variables and directories, append arguments and substitute the
  combination of their patterns in everything there is so far. **PosixShell**
  executes what comes of it: the words are expanded while `environ` points to
  the variables of the task, the program is searched, and run in the overlaid
  environment. A text is a short sequence of tokens, a token `{KEY}` being what
  a pattern replaces.
* **Discovery** walks from the current directory to the root and on to the home
  directory until it finds a settings file, and reads plugins from a list of
  directories, each of which may fail at any entry.
* **LuaScript** is `LuaPlugin::apply` for an arbitrary script: any sequence of
  calls to what a script may call, with arguments read from the configuration.
* **OwnedStrings** is what Argv and Envp have in common: constructors,
  assignments, `swap`, `clear` and the destructor on vectors of addresses, with
  a heap that may give out any free address. **StringLists** is the promise:
  each object is a list of strings of its own. The history variable `call`
  makes the promise say which call changed which list.
* **ExecutePlugin_proofs**, **MainFlow_proofs**, **PosixShell_proofs**,
  **MapPermutator_proofs**, **OwnedStrings_proofs**, **Discovery_proofs** and
  **LuaScript_proofs** hold the proofs, and **SequenceFacts** the lemmas about
  lists that the first three and the last one have in common.
* **MC...** modules hold the settings trees and small sets TLC needs. Four of
  them join components that do not interact, so that one run checks both:
  MCMapPermutator lets the nested iterators follow the odometer over the same
  lists, MCValueClasses has calls on trees and calls on vectors, MCLuaPlugins the
  search for plugins (Discovery) and the script of one (LuaScript), MCMainFlow
  the main flow and the reading of a settings file (VariablesOverlay, over the
  documents of **SampleFiles**). In the last two a behaviour is one of the two:
  the other rests in one of its initial states.

Operators marked "Mutant" are wrong on purpose: each is a plausible bug in the
definition that follows it, and putting it in its place makes TLC report the
property `PROJECT.json` lists with it.

## 3. Runs

| Run | What it asks | Bounds |
| --- | --- | --- |
| `nested` | For commands nested over commands, plugins, and scripts that ignore failed targets: is the list of executed tasks the schedule, with its status and its end, does nothing run after a failed task (without keep going), are contexts released, is the stack never used up, and does the process end? | `all` is any list of one or two of a command, a valgrind plugin and an unknown name; `build` is undefined or a list with known, unknown and empty plugins; valgrind has two combinations and one or two run commands; or `all` is a script and a tool, with all pairs of equally long target lists over known, unknown and failing names; three command lines; codes 0 and 3; 8 frames, as many as the deepest nest needs |
| `cyclic` | What if commands lead back to themselves, and does lcov measure what it says? Nothing runs after an improper invocation, and a status the process ends with is the documented one | cycles through commands, valgrind, selector and the commands plugin; each optional step of lcov, in its section and the subsection; targets that nobody configured, before a command that nobody configured; half of the settings of `nested`; 9 frames; codes 0, 3 and 255, so that first and last failure differ |
| `permutations` | Do the odometer and the recursive `operator++` visit each combination once, in order, and end? | three lists of zero to three values: carries of every length, empty lists at every place |
| `value_classes` | Are settings trees maps from paths to values under any calls, equal when the maps are, and does a tree with duplicates read what was written last? Is every string of a vector owned once, does the vector end with a null pointer, is each object a list of its own? | two trees, paths of up to two keys, four calls, values that may be added twice or not; three vectors of up to two strings, any number of calls, five addresses (symmetric), so that freed ones are used again |
| `main_flow` | Is a question answered, do both passes agree, does every word count, do patterns have the values they should, are there as many jobs as were asked for? Is the tree the settings file, are the patterns those declared, is a file refused for a reason only, and does a plugin see the values of the most specific section of the file? | up to two words, then up to two of 22 uses of options; one of two settings files, absent, malformed or with patterns; number of cores known or not; or 1474 files: keys twice, lists of maps, empty values, bad keys, several patterns; two options, each absent, named without values, with a list or with a map in the section and the subsection of the plugin; two sets of defaults |
| `task_environment` | Is `PWD` the directory, is `environ` restored, does the innermost section that sets a variable or a directory win, are words expanded and programs searched with what the program will see? | one or two nested sections, with variables named like patterns, `PWD` and `PATH`, empty values and directories of patterns, absolute and relative ones |
| `lua_plugins` | Is the nearest settings file used, and the plugin of the best directory that could be read? Is what is executed what the script called, for scripts that fail too? | two current directories, two homes or none, settings files in any of four directories, four lists of search paths in both places, up to five directories with plugins; or scripts of four calls, two variables, two combinations, eight sections |
| `swallowed_failure` | The documented exit status, for plugins that execute targets: **violated** | the scripts of `nested` |
| `missing_binary` | "Execute all scheduled commands, even if one or more of them fail": **violated** | the commands of `nested` |
| `pre_task` | "If your module requires pre- or post-tasks, you can create one or more new tasks and register it": a task registered before a target is run comes first, **violated** | as `lua_plugins` |
| `help_with_broken_file` | "Display a usage message on standard output and exit successfully": whoever asks for help gets it, whatever settings file is found, **violated** | as `main_flow` |
| `relative_directory` | A relative `working-dir` is one "w.r.t. the path to the considered configuration file": **violated** | as `task_environment` |

Deadlock is not checked where the system stops: a process that has ended and a
loop that was left take no steps (`nested`, `cyclic`, `permutations` and the
two violations on ExecutePlugin; that they stop nowhere else is `Termination`,
for `nested`, and `BothTerminate`), and the calls on trees are bounded (`value_classes`). The
modules that follow the program from a start to an end (MainFlow, SettingsFile
with VariablesOverlay, PosixShell, Discovery, LuaScript) are checked for
deadlock: their last action (`Done`, `ScriptDone`) is enabled in final states only, so every
other state has to have a step.

Why the bounds are enough. For the nested calls, an `apply()` only looks at its own list and the
result of its callee, so what can go wrong shows at depth three (a caller, a
callee that fails or ignores, and what it called) and at lists of two (the
failing element first or last). `MaxDepth` is exactly what the settings of a
run without cycles need: with one frame less TLC reports `NoStackOverflow`.
The settings tree looks at one level at a time, so that paths of two keys and
two namesakes show what a search for the first child with a key can get wrong;
four calls are two to build a tree, one that breaks it and one that shows it.
Two nested sections are enough for the order of assignments and substitutions,
because a section only sees what those around it left. Two options after two
words give each option each neighbour it can swallow words from or be swallowed
by. Three vectors allow a copy of a copy to outlive both; with five addresses
they cannot all be full, so that new strings get the addresses of freed ones. A
script of four calls can register, run, change and register again.

### Fairness

Weak fairness of the next-state relation in ExecutePluginRefinement,
MapPermutator and MCMapPermutator: a sequential program whose child processes
end keeps taking steps. Nothing stronger is assumed, and in particular nothing
about which of the possible outcomes of a task occurs. Every other run checks
safety only and assumes no fairness.

### Disagreements found

* A failed target of `selector`, `docker` or `clang-static-analyzer` does not
  make the plugin fail: the scripts drop the result of `run_target`
  (`src/plugins/src/scripts/selector.lua:7`). The manual promises status one
  (`src/applications/exec-helper.rst:68`). Run `swallowed_failure`.
* A missing binary terminates the process, with `--keep-going` too: the
  exception of `PosixShell::execute` cannot leave `ImmediateExecutor::execute`,
  which is `noexcept`. The manual promises to execute all scheduled commands
  (`src/applications/exec-helper.rst:60`). Run `missing_binary`.
* A task that a script registers before it runs a target is executed after it,
  because registered tasks wait for the end of the script
  (`src/plugins/src/luaPlugin.cpp:321`). The manual offers it for pre-tasks
  (`src/plugins/docs/exec-helper-custom-plugins.rst`). Run `pre_task`.
* Help is not shown where the settings file cannot be parsed (the exception of
  the YAML parser meets the `noexcept` of `parseSettingsFile`,
  `src/config/src/config.cpp:57`) or has no settings
  (`src/applications/exec-helper.cpp:338`): the process is terminated. The
  manual promises a usage message and a successful exit
  (`src/applications/exec-helper.rst:31`). Run `help_with_broken_file`.
* A relative `working-dir` is relative to the directory of the process
  (`src/core/src/task.cpp:73`), and not to that of the settings file, as the
  manual says (`src/plugins/docs/working-dir.rst:3`). Run `relative_directory`.

These are quoted in `PROJECT.json`. Others were met while modelling. The models
do in each case what the code does; the properties make no claim about the
disputed behaviour, so that none of them takes it for what is promised:

* Settings: assigning a node without values keeps the old children
  (`settingsNode.cpp:316`; `CopyAssign`), where the contract says "a deep copy
  of the content" and "overwritten with the new content" (`settingsNode.h:49`,
  `:288`): `ImplementsMap` allows both (`MapTakes`). A section without values is read
  through an empty optional (`executePlugin.cpp:102`; `IndexKeyWithoutValues`).
* Options: a pattern whose long option is one of exec-helper loses its
  default values (`exec-helper.cpp:524`; `SetPatternValues`); a short option
  without a long one is not known (`exec-helper.cpp:351`; `AddPatternOption`);
  an option of a pattern that begins like `--auto-complete` is taken for it in
  the first pass, and an empty optional is read (`exec-helper.cpp:513`;
  `CompleteWord`); an automatic number of jobs is refused where the number of
  cores is not known (`exec-helper.cpp:314`; `VerifyOptions`).
* Tasks: pmd ignores the environment and the directory of its section
  (`pmd.cpp:65`; `Apply` of TaskEnvironment), which its manual offers:
  `EnvironmentIsItsOwn` and `DirectoryOfInnermost` say nothing of an invocation
  in which a pmd section has either (`IsClaimed`). Patterns are substituted in
  inherited variables, too (`pluginUtils.cpp:64`; `ReplacePatternsInEnvironment`),
  which no document says: `EnvironmentIsItsOwn` allows their values either way.
* Shell: a program in no directory of the path is taken for the current
  directory (`posixShell.cpp:88`; `Binary`); words that expand to nothing leave
  no program to look for, and the first word is read all the same
  (`posixShell.cpp:78`; `NoArguments`).
* Search: a directory that may not be searched ends the process
  (`configFileSearcher.cpp:19`; `MayNotSearch`).
* Scripts: `one()` of a key without values is an error (`luaPlugin.cpp:251`;
  `One`); `verbose: true` is verbose for the variable and not for
  `get_verbose` (`luaPlugin.cpp:164`; `Verbose`, `GetVerbose`); a map in which
  a value is missing reads an empty optional (`luaPlugin.cpp:80`;
  `ReadUndefined`).
* Argv: the number of arguments of a cleared or moved-from object wraps around
  (`argv.cpp:109`; `Argc`).

## 4. Proofs

All theorems hold for every value of the constants that satisfies the named
assumptions: any names, any assignment of plugin types to names, any settings
trees of the shape `IsSettings`, any command lines, return codes in 0..255, a
stack of any size, any number of keys and values.

**ExecutePlugin_proofs.** `ProgramSteps` comes first: the program of every plugin
is a sequence of steps, and all steps are *straight* (their failure is the
failure of the plugin), except for selector, docker and clang-static-analyzer.
There is one lemma per plugin; `TurnsOfLoop` deals with the loops over pattern
combinations. The assumptions are `PluginAssumption`, `BoundAssumption` and
`ConfigurationAssumption`. The executor keeps a ledger (`Ledger`): as long as the
process has not exited, `lastReturnCode` is the status of the last task that
failed, and without `--keep-going` there is none; when it has exited, the last
task is the only one that failed and its code is the exit code. "Last" is a
`CHOOSE` over a set of positions; that the set has a greatest element is part
of the ledger (`HasLastFailure`), so that no induction over the log is needed.
The inductive invariant `Inv` adds two things to `TypeOK` and the ledger. `CallersWait`: every frame below the top, and the top
while there is a result to look at, is at a call and not at its end; without it
a return could not be shown to find a step to go on with. `ContextPerCall` ties
the contexts to the life of the process. From `Inv`: `TypeCorrect`,
`FailedTaskIsLast` and `ContextsReleased`. For the exit status, `StraightInv`
adds that all programs on the stack are straight and that, while the process
runs, the last result is a failure *exactly* when something was invoked
improperly (`FailureGoesUp`): no failure is lost on its way up, whatever the
depth. From it: `ExitStatusHolds` and `MisuseIsTheEnd`, assuming that no plugin
executes targets (`NoTargets`). The assumption is needed: with such plugins the
property does not hold, see `swallowed_failure`. `StackSuffices` says when the
stack is large enough, `NoStackOverflow`: if every name has a height, the frames
that applying it takes (`IsHeight`: those of a command are one more than those
of each of its commands, those of a plugin that executes targets two more than
those of each target), and the heights of the commands on the command line fit
into `MaxDepth`, then no call ever finds the stack used up. Commands that lead
back to themselves have no height. The invariant (`StackFits`) is that every
frame has room below it for what is left of it to do. The settings of `nested`
have heights, and need exactly the 8 frames that run has.

*The refinement.* ExecutePlugin implements ScheduledRun (`Refinement`), for all
settings and command lines that have heights; and `PlanIsExecuted` says the same
without heights, of every process that does not use up its stack. That the stack
is large enough cannot be left out: where it is not, the process crashes with
tasks left to execute, which the plan does not know of. The proof has
three parts. First, what comes of a list of items in turn, when the first of
them is done: `InTurn` of the others with its tasks in front of theirs, or
nothing more if its failure counts. Second, `OnPlan`, the invariant: every frame of the stack
is at a place in the plan where what comes of its items begins, and waits at an
item of which the same comes as of all items of the frame above it (`Placed`);
the number of tasks executed is where the top of the stack has got to (`Along`).
The frame at a height is evaluated as deep as the stack has room above it, which
is why the bound on the depth in `PlanOf` never shows while there is no overflow.
A failure that is on its way up ends the items of every caller that reports it
and not of a script that ignores it. Every plugin ends at its first failure
(`EndsAtFailure`), and there is one lemma for each of the three ways a step
changes the stack: pushing what an item means, going on after a result, and
returning one. Third, each step of ExecutePlugin executes the next task of the
plan, ends the process as the schedule does, or is a stutter (`StepOfSchedule`).
Since what ScheduledRun promises follows from it (`OutcomeHolds`, by the ledger
and `FollowsPlan`), it holds of ExecutePlugin too (`PlanOutcome`): for the
exit status this is what is left of `ExitStatusHolds` when plugins do execute
targets and drop their failures.

*The rounds of lcov.* `RoundsHold` is `LcovRounds` for all settings in which lcov
executes command lines only (`LcovExecutesLines`): each has a set of names
(`Measured`) that contains the run commands of lcov and is closed under what
executing one of them leads to, a command-line-command, a valgrind with run
commands of the set, a command of the settings with a list from the set, or a
name nothing knows. All settings of `cyclic` are of that kind but those whose lcov
executes the selector. A hypothesis is needed: other plugins may register tasks
between zeroing and capturing, another lcov most of all, and one that executes
targets may succeed without having executed any. `RoundsInv` adds to the
property what each frame relies on (`Rounds`), and TLC has found it on the states
of `cyclic` for these settings and for more kinds of run commands. A plugin frame has
what it needs before each step (`InOrder`, shown for every plugin by its program):
a capture comes after the call of the run commands and, where the counters are
zeroed, that after zeroing; what removes and reports comes right after another
step of its round. While a frame waits for what it is going to capture
(`WhileMeasuring`), every frame above it executes command lines, nothing but
those has been registered since its counters were zeroed, and either the last
task is one of them, or everything above is at its very beginning and nothing has
succeeded yet. The last disjunct is what makes it inductive: a call that succeeds
has measured something, since no program of the set is empty. A process that died
in the middle of a task keeps the property only.

**MainFlow_proofs.** From `OptionsAssumption` and `MainFlowAssumption`, which say
what the option library hands out: words are never missing, only flags go
without. `JobsCorrect` needs nothing else. The others need that the
options which a settings file adds do not take names from exec-helper
(`OwnOptions`: no long option is one of exec-helper's, and none of their names is a
beginning of one). It cannot be left out either: a pattern with the long option
`settings-file` and a short one of its own sets that option in the second pass
only, and one whose long option is the beginning of an option of exec-helper
changes what that beginning means from one pass to the next.
`TypeCorrect` needs that patterns are declared with values (`DefaultsGiven`).
The invariant `Inv` has one conjunct per part of `execHelperMain`: the options are
exec-helper's followed by those of the patterns that were visited, the values in
`optionsMap` are those the second pass has found for all of them, and the patterns
that were visited have theirs. What it rests on is what an option *means*: what
is typed for an option of exec-helper is the same in both passes, because names
in full go before beginnings and the patterns add none for it; the words that
`WordsFor` collects for a pattern are the words of the uses with its names, of all
patterns that share its long option; and `Several` is the same for both passes.
From it: `PassesMeanTheSame`, `QuestionsAnswered`, `PatternsGetTheirValues`,
`WordsAreKept`. `QuestionsAnswered` speaks of every end of a process: one that was
asked something has printed the answer that goes first and succeeded, one that
was asked nothing has printed none. It has two exceptions, by name: a command
line with a mistake (`IsMistyped`), and a settings file that is found and cannot
be read (`IsUnreadable`), which is the disagreement above. `WordsAreKept` counts the places a word has in what the options
were given (`Places`, `Times`), and compares them with those it has on the
command line: by induction over the uses of options (`CountedNext`), each of which
appends the words it takes to the option it means, and those that it does not take
to the commands (`KeptNext`), both sides grow by as many (`TimesMoreTwice`). That
leaves to show that `optionsMap` has these lists and no others
(`KeptIsGiven`): an option of exec-helper that takes words has some exactly if it is
asked for (`UsedHasWords`), and defaults have none where nothing was given.

**MapPermutator_proofs.** From `SizeAssumption` only. The invariant `Inv` says,
between two calls of `operator++`, that the combinations visited are those
before the iterator, and, in the middle of a carry, that they are those that
do not come after it in the keys that are left (`VisitedUpToCarry`): the state
of the loop in `operator++` that makes it inductive. `ResetKey` and `AdvanceKey`
are the two facts about the lexicographic order it rests on. From it:
`LoopInvariant`, `NoCombinationTwice`, and `ImplementsCombinations`, a step
simulation of Combinations. The nested iterators of PermutationIterator do the
same (`NestedImplementsCombinations`, and `NestedFollowsMap` for the loop that
follows the odometer in `permutations`), given at least one collection, without
which the template does not exist. On its way up, `operator++` is either done
(`Advanced`) or has an iterator at its end and all those nested in it restarted
(`Exhausted`), which is the carry of the odometer seen from one level further
out; `AdvanceLevel` leads from one to the next by the same two facts.

**OwnedStrings_proofs.** From `HeapAssumption`. The invariant says of the vectors
and the heap together (`Consistent`) that every allocated string is in one place
of one vector, that a vector which is not empty ends with its only null pointer,
and that `size_t` can count the strings; objects that do not exist have no
strings. From it: `NoStringLostOrShared`, `VectorsEndInNull`, and `ObjectsAreLists`,
which shows that every call changes the lists of StringLists as promised: a copy
gets strings of its own whatever addresses the heap gives out, a moved-from or
cleared object is empty, an assignment frees what was there before.

**Discovery_proofs.** From `DiscoveryAssumption`. While the walk goes up, the
directories passed are exactly the preferred ones down from the current
directory (`WalkedTo`); while it searches, no settings file is in those left
behind (`SearchInv`). The search paths are read from the last to the first, so
that a better one overrides (`PathInv`); every script of a directory that was
read is provided by that directory or a better one (`DoneInv`), and in the middle
of a directory so are the entries read so far (`ReadInv`), whatever directory
fails at whatever entry. From it: `SettingsFileIsNearest`, `PrecedenceIsDocumented`
and `PluginsComeFromScripts`.

**LuaScript_proofs.** From `LuaScriptAssumption`. What has been executed is what
the calls so far say, and what is registered is what they will execute at the
end (`TasksAreRegistered`); `CallKeepsInv` is the step for any call. From it:
`ScriptIsExecutedAsCalled`, for scripts of any length.

**PosixShell_proofs.** From `TaskAssumption` and `ShellAssumption`. The invariant
covers every task that is still to be configured or executed: `PWD` is its
directory in its environment before anything is registered, whatever sections
and patterns made of both (`IsWork`); the shell works on the environment of the
task with that of the process below it; while words are expanded `environ` is
the environment of the task, and the words are those that `IsExpanded` relates to
it. From it: `ShellTypeCorrect`, `PwdIsTheDirectory`, `DirectoryBeforePath` and
`WordsReachTheProgram`. A second invariant, `Traced`, follows each task through the
sections it went through, and TLC has found it on every state of
`task_environment`, too: a variable of the task is one of the process
or of one of these sections, after what was substituted from there on
(`IsFromProcess`, `IsFromSection`); under a name that no pattern has, it is that
of the innermost section that sets it, or else of the process (`HasNamed`); the
last section that sets a directory has set
the one of the task, and each of them is among its words (`HasOwnDirectory`); and its
words consist of tokens of these sections and of values of patterns
(`HasGivenWords`). `MadeIsTraced` is the step for a section and a combination of its
patterns: substituting one combination after the other is substituting them
joined (`ReplaceJoined`), level by level (`Substituted`), and two
names that become one keep a value of one of them (`VariablesAreReplaced`), that
of the name written in full if there is one (`NamedIsReplaced`). While
the shell works, `environ` and what it keeps of it are the environment of the
process. From it: `VariablesComeFromItsSections` and `InnermostDirectoryWins`. Both are
about the sections a task is *configured in*, which the properties tell by their
words, and lcov registers a task that never reached the sections inside: so
their hypotheses, `NamesToldApart` and `ToldApart`, are that such a section, if it
sets variables or a directory, has a
token among its words that is found neither in what is around it nor among the
patterns. Without them two
sections with the same words could not be told apart by anyone who sees the
program only. The first theorem needs `PatternsComeLast` as well: a pattern comes after
the names it can become, as `{KEY}` does in the order of `std::map` after all that
begin with a letter. TLC has found the three on all sections of `task_environment`.
The second one leaves open what a relative directory is
relative to (`Meanings`). The keys of patterns are no beginnings of paths and not `PWD`
(`IsPattern`): what is substituted has the form `{KEY}`. The attempt showed that the arms of a `CASE` in
`ForCombination` overlapped, where TLC takes the first one and TLA+ any of them;
it is now the nested conditional that the code is.

**SequenceFacts.** What the models do with lists, stated about operators that
name the relation (`Joins`, `BothHeld`, ...): appending, cutting, flattening
(`FlattenHolds`) and recursive functions over the length of a list. Its
induction is over sets of natural numbers (`Induction`, from the least element
`LeastNat` gives), because the induction theorems of the library take an operator
as parameter, which no installed prover can instantiate.

What stays with TLC: liveness under fairness (`Termination`, `BothTerminate`),
and the properties listed in the next section.

## 5. Not modelled, and the plan

Left out for good: logging (no decision depends on it), the wording of
messages, luawrapper, the YAML parser and the option library (what the code
needs of the last two is in YamlDocument and OptionDescriptions), the Windows
branch of the shell, completion scripts. `PosixShell` knows variables in words
but not the quotes, commands and file names of `wordexp`; `Discovery` leaves out
settings files given with directories; `OwnedStrings` arguments of 256
characters and more; `MainFlow` an option without the value it needs.
`memory`, a plugin for tests, has no operation but to remember; the comparison
and the output of tasks and trees have none either (equality of trees has).

Only model-checked: liveness; everything about settings trees, settings files
and the variables of plugins (SettingsTree to VariablesOverlay with
`EqualityIsContent`, `NamesakesAreLeaves`, `TreeIsFile`, `PatternsAsDeclared`,
`RefusedForAReason`, `MostSpecificWins`: the trees are recursive data, and the comparison and the
documents are written with recursive operators, over which the provers cannot do an
induction); and `LcovRounds` where lcov executes the selector (`cyclic`), which
`LcovExecutesLines` leaves out.

What is left to do, in this order:

1. `LcovRounds` where lcov executes targets: the selector drops the failure of a
   target, so that what it leads to would have to be shown to register something.
2. A settings tree as a function from paths, so that `TreeIsFile` and
   `MostSpecificWins` could be stated and proved without recursive operators, with
   the recursive tree shown by TLC to implement it, as SettingsTree does with
   SettingsMap.
3. What remains of `ExitStatus` when plugins execute targets: that the process
   never claims a failure that did not happen.
