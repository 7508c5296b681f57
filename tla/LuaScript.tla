------------------------------- MODULE LuaScript -------------------------------
(***************************************************************************)
(* LuaPlugin::apply for any script: the calls a script makes, in any       *)
(* order, on the tasks it has, with arguments it takes from the            *)
(* configuration.  Targets are executed when the script says so; the tasks *)
(* it registers wait until it has ended.  A task is the list of its        *)
(* arguments, before the patterns are substituted in it.                   *)
(***************************************************************************)
EXTENDS Integers, Sequences, SequencesExt, TLC

CONSTANTS
  Sections,     \* the sections a script may find: functions from keys to lists
                \*   of entries [name, value]
  Nil,          \* the value of a key without one, a script variable without task
  Context,      \* the arguments the task has before
  Combinations, \* the number of combinations of the patterns of the plugin
  MaxCalls      \* bound: the calls a script makes

ASSUME LuaScriptAssumption ==
  /\ Combinations \in Nat \ {0}
  /\ MaxCalls \in Nat

VARIABLES
  section,  \* the settings of the plugin
  flag,     \* the verbose flag of the command line
  objects,  \* function: variables of the script -> the task there
  tasks,    \* the tasks that are registered
  history,  \* history: the tasks that were registered or run, as called
  executed, \* what was handed to the executors, or executed by targets
  outcome   \* "running", "done", "failed" or "undefined"

scriptVars == <<section, flag, objects, tasks, history, executed, outcome>>

Variables == {"task", "other"}

ScriptInit ==
  /\ section \in Sections
  /\ flag \in BOOLEAN
  /\ objects = [variable \in Variables |->
                  IF variable = "task" THEN Context ELSE Nil]
  /\ tasks = <<>>
  /\ history = <<>>
  /\ executed = <<>>
  /\ outcome = "running"

-----------------------------------------------------------------------------
(* The configuration *)

\* The flag is the default of the key verbose, and what the section says of it
\* takes precedence.
Config ==
  IF "verbose" \in DOMAIN section THEN section
  ELSE "verbose" :> << [name |-> IF flag THEN "yes" ELSE "no", value |-> Nil] >>
       @@ section

\* A table is a list, or a function from names to values.
List(values) == [kind |-> "list", values |-> values]

\* The first value decides whether there are values below the values.
IsMap(entries) == entries # <<>> /\ Head(entries).value # Nil

\* Each value of a map is read from an optional that may be empty.
IsUndefined(entries) ==
  IsMap(entries) /\ \E i \in DOMAIN entries : entries[i].value = Nil

\* config[key]: nil, a list of the names, or a map.
Get(key) ==
  IF key \notin DOMAIN Config THEN Nil
  ELSE LET entries == Config[key]
       IN IF IsMap(entries)
          THEN [kind |-> "map",
                values |-> [name \in {entries[i].name : i \in DOMAIN entries} |->
                  entries[CHOOSE i \in DOMAIN entries :
                            entries[i].name = name].value]]
          ELSE List([i \in DOMAIN entries |-> entries[i].name])

\* What a function of the script returns, or the error it raises.
Value(arguments) == [raised |-> FALSE, arguments |-> arguments]
Raised == [raised |-> TRUE, arguments |-> <<>>]

\* {one(config[key]) or default}: the first value, which has to be there.
One(key, default) ==
  LET table == Get(key)
  IN IF table = Nil THEN Value(<<default>>)
     ELSE IF table.kind = "list" /\ table.values # <<>>
     THEN Value(<<Head(table.values)>>) ELSE Raised

\* list(config[key]) or defaults: every value is taken by its number.
ListOr(key, defaults) ==
  LET table == Get(key)
  IN IF table = Nil THEN Value(defaults)
     ELSE IF table.kind = "list" THEN Value(table.values) ELSE Raised

\* The variable verbose: the last value of the key, if it means yes.
Verbose == Last(Config["verbose"]).name \in {"yes", "1", "true"}

\* The key is there in any case, so that the variable does not matter.
GetVerbose(argument) ==
  LET one == One("verbose", "no")
  IN IF one.raised THEN one
     ELSE Value(IF one.arguments = <<"yes">> THEN <<argument>> ELSE <<>>)

\* The expressions a script takes arguments from.
Expressions == [function : {"one", "list"}, key : {"directory", "command-line"}]
               \cup {[function |-> "get_verbose", key |-> "verbose"]}

Evaluate(expression) ==
  CASE expression.function = "one" -> One(expression.key, "default")
    [] expression.function = "list" -> ListOr(expression.key, <<>>)
    [] expression.function = "get_verbose" -> GetVerbose("--verbose")

-----------------------------------------------------------------------------
(* The script *)

Calls == outcome = "running" /\ Len(history) < MaxCalls

Log(op, variable, rounds) ==
  history' = Append(history, [op |-> op, task |-> objects[variable],
                              rounds |-> rounds])

Rounds(task, number) ==
  [k \in 1..number |-> [task |-> task, combination |-> k]]

\* Every task for every combination
AllRounds(list) == FlattenSeq([i \in DOMAIN list |-> Rounds(list[i], Combinations)])

NewTask ==
  /\ Calls
  /\ objects' = [objects EXCEPT !["other"] = <<>>]
  /\ Log("new", "task", 0)
  /\ UNCHANGED <<section, flag, tasks, executed, outcome>>

CopyTask ==
  /\ Calls
  /\ objects' = [objects EXCEPT !["other"] = objects["task"]]
  /\ Log("copy", "task", 0)
  /\ UNCHANGED <<section, flag, tasks, executed, outcome>>

AddArgs ==
  /\ Calls
  /\ \E variable \in Variables, expression \in Expressions :
       /\ objects[variable] # Nil
       /\ expression.key \in DOMAIN Config
            => ~IsUndefined(Config[expression.key])
       /\ ~Evaluate(expression).raised
       /\ objects' = [objects EXCEPT ![variable] =
                        @ \o Evaluate(expression).arguments]
       /\ Log("add", variable, 0)
  /\ UNCHANGED <<section, flag, tasks, executed, outcome>>

\* The exception ends the script, although no input is wrong.
RaiseError ==
  /\ Calls
  /\ \E expression \in Expressions :
       /\ expression.key \in DOMAIN Config
            => ~IsUndefined(Config[expression.key])
       /\ Evaluate(expression).raised
  /\ outcome' = "failed"
  /\ UNCHANGED <<section, flag, objects, tasks, history, executed>>

ReadUndefined ==
  /\ Calls
  /\ \E key \in DOMAIN Config : IsUndefined(Config[key])
  /\ outcome' = "undefined"
  /\ UNCHANGED <<section, flag, objects, tasks, history, executed>>

\* register_task takes a copy of the task.
RegisterTask ==
  /\ Calls
  /\ \E variable \in Variables :
       /\ objects[variable] # Nil
       /\ tasks' = Append(tasks, objects[variable])
       /\ Log("register", variable, 0)
  /\ UNCHANGED <<section, flag, objects, executed, outcome>>

\* run_target: the first combination that fails is the last.  The script may
\* go on in any case.
RunTarget ==
  /\ Calls
  /\ \E variable \in Variables, rounds \in 1..Combinations :
       /\ objects[variable] # Nil
       /\ executed' = executed \o Rounds(objects[variable], rounds)
       /\ Log("target", variable, rounds)
  /\ UNCHANGED <<section, flag, objects, tasks, outcome>>

\* Mutant: the tasks of a script that failed are registered as well.
FailAndRegister ==
  /\ outcome = "running"
  /\ executed' = executed \o AllRounds(tasks)
  /\ outcome' = "failed"
  /\ UNCHANGED <<section, flag, objects, tasks, history>>

\* A syntax error, before anything is called, or input_error.
Fail ==
  /\ outcome = "running"
  /\ outcome' = "failed"
  /\ UNCHANGED <<section, flag, objects, tasks, history, executed>>

\* The tasks are registered with the executors, each for all combinations.
EndScript ==
  /\ outcome = "running"
  /\ executed' = executed \o AllRounds(tasks)
  /\ outcome' = "done"
  /\ UNCHANGED <<section, flag, objects, tasks, history>>

ScriptDone == outcome # "running" /\ UNCHANGED scriptVars

ScriptNext ==
  \/ NewTask \/ CopyTask \/ AddArgs \/ RaiseError \/ ReadUndefined
  \/ RegisterTask \/ RunTarget \/ Fail \/ EndScript \/ ScriptDone

ScriptSpec == ScriptInit /\ [][ScriptNext]_scriptVars

-----------------------------------------------------------------------------
(* Properties *)

\* What a call has executed at once, and what it has executed later.
Executes(call) ==
  IF call.op = "target" THEN Rounds(call.task, call.rounds) ELSE <<>>
Registers(call) ==
  IF call.op = "register" THEN Rounds(call.task, Combinations) ELSE <<>>

ExecutedBy(calls) == FlattenSeq([i \in DOMAIN calls |-> Executes(calls[i])])
RegisteredBy(calls) == FlattenSeq([i \in DOMAIN calls |-> Registers(calls[i])])

\* What is executed is what the targets of the script executed, and after that,
\* unless it failed, every task as it was when the script registered it, for
\* every combination.
ExecutedAsCalled ==
  executed = ExecutedBy(history)
             \o (IF outcome = "done" THEN RegisteredBy(history) ELSE <<>>)

\* A task that is registered before a target is run is executed before it, such
\* as the pre-tasks of exec-helper-custom-plugins.rst.
PreTasksComeFirst ==
  outcome = "done" =>
    executed = FlattenSeq([i \in DOMAIN history |->
                             Executes(history[i]) \o Registers(history[i])])

=============================================================================
