---------------------------- MODULE ExecutePlugin ----------------------------
(***************************************************************************)
(* One invocation of exec-helper from the call of Commander::run to the    *)
(* end of the process: ExecutePlugin resolves each command to a plugin or  *)
(* to the commands configured for it and applies it; plugins call back     *)
(* into ExecutePlugin.  The C++ call stack is the variable stack, its top  *)
(* last; ret is the value the callee that returned last left for its       *)
(* caller.  The program is single-threaded: what is hard here is the       *)
(* mutual recursion, and what becomes of a failure on its way up.          *)
(***************************************************************************)
EXTENDS Plugins

CONSTANTS
  Configurations, \* the settings trees a process may find
  CommandLines,   \* the sequences of commands it may be called with
  MaxDepth,       \* the number of call frames the stack of the process holds
  ReturnCodes     \* the codes the executed programs can return

ASSUME ConfigurationAssumption ==
  /\ \A s \in Configurations : IsSettings(s)
  /\ CommandLines \subseteq Seq(Name)
  /\ MaxDepth \in Nat \ {0}
  /\ ReturnCodes \subseteq 0..255

VARIABLES
  settings,    \* the settings Commander::run pushes
  commandLine, \* the commands of the fleeting options
  contexts,    \* the depth of the context stacks of ExecutePlugin
  stack,       \* the frames of the apply() calls in progress
  ret,         \* none, or the result of the call that returned last
  misused,     \* history: a command or plugin was invoked improperly
  options, log, lastReturnCode, process, exitCode

INSTANCE Executor WITH Tasks <- Task

callVars == <<contexts, stack, ret, misused>>
executorState == <<options, log, lastReturnCode, process, exitCode>>
vars == <<settings, commandLine, callVars, executorState>>

-----------------------------------------------------------------------------
(* Frames. *)

None == "none"
Ok == "ok"
Failed == "failed"

\* ExecutePlugin::apply: owner is the initial command of all its commands,
\* or NoOwner when every command is its own initial command.
NoOwner == "no owner"
CommandsFrame ==
  [kind : {"commands"}, commands : Seq(Name), owner : Name \cup {NoOwner},
   task : Task, position : Nat \ {0}]

\* apply() of any other plugin.
PluginFrame == [kind : {"plugin"}, program : Seq(Step),
                position : Nat \ {0}]

Frame == CommandsFrame \cup PluginFrame

NewCommandsFrame(commands, owner, task) ==
  [kind |-> "commands", commands |-> commands, owner |-> owner, task |-> task,
   position |-> 1]
NewPluginFrame(program) ==
  [kind |-> "plugin", program |-> program, position |-> 1]

Work(frame) ==
  IF frame.kind = "commands" THEN frame.commands ELSE frame.program
AtEnd(frame) == frame.position > Len(Work(frame))
Current(frame) == Work(frame)[frame.position]

\* Mutant: every command of a list is its own initial command.
CommandItself(frame) == Current(frame)

InitialCommand(frame) ==
  IF frame.owner = NoOwner THEN Current(frame) ELSE frame.owner

Top == stack[Len(stack)]
Pop == stack' = SubSeq(stack, 1, Len(stack) - 1)
Goto(position) == stack' = [stack EXCEPT ![Len(stack)].position = position]

Running == process = "running" /\ stack # <<>>

Unwind(result) == Pop /\ ret' = result

\* A call; the process dies when there is no room for one more frame.
Call(frame) ==
  /\ UNCHANGED <<settings, commandLine, contexts, ret, misused>>
  /\ \/ /\ Len(stack) < MaxDepth
        /\ stack' = Append(stack, frame)
        /\ UNCHANGED executorState
     \/ /\ Len(stack) = MaxDepth
        /\ process' = "crashed"
        /\ UNCHANGED <<stack, options, log, lastReturnCode, exitCode>>

-----------------------------------------------------------------------------
Init ==
  /\ settings \in Configurations
  /\ commandLine \in CommandLines
  /\ contexts = 0
  /\ stack = <<>>
  /\ ret = None
  /\ misused = FALSE
  /\ ExecutorInit

\* Commander::run pushes the contexts and applies the commands.
Start ==
  /\ process = "starting"
  /\ commandLine # <<>>
  /\ process' = "running"
  /\ contexts' = contexts + 1
  /\ stack' = <<NewCommandsFrame(commandLine, NoOwner, <<>>)>>
  /\ UNCHANGED <<settings, commandLine, ret, misused, options, log,
                 lastReturnCode, exitCode>>

\* Without a command it returns false, and leaves the contexts behind.
StartWithoutCommands ==
  /\ process = "starting"
  /\ commandLine = <<>>
  /\ contexts' = contexts + 1
  /\ misused' = TRUE
  /\ ReturnFromMain(FALSE)
  /\ UNCHANGED <<settings, commandLine, stack, ret>>

\* ExecutePlugin::apply, one turn of its loop up to the call of apply():
\* getNextStep prefers a plugin to a configured command of the same name.
ApplyPlugin ==
  /\ Running /\ ret = None
  /\ Top.kind = "commands" /\ ~AtEnd(Top)
  /\ Current(Top) \in Plugin
  /\ Call(NewPluginFrame(Program(settings, commandLine, Current(Top),
                                 InitialCommand(Top), Top.task)))

\* Mutant: a configured command is preferred to a plugin of the same name.
ApplyCommandFirst ==
  /\ Running /\ ret = None
  /\ Top.kind = "commands" /\ ~AtEnd(Top)
  /\ Current(Top) \in DOMAIN settings.commands
  /\ Call(NewCommandsFrame(settings.commands[Current(Top)], Current(Top),
                           Top.task))

ApplyCommand ==
  /\ Running /\ ret = None
  /\ Top.kind = "commands" /\ ~AtEnd(Top)
  /\ Current(Top) \in DOMAIN settings.commands \ Plugin
  /\ Call(NewCommandsFrame(settings.commands[Current(Top)], Current(Top),
                           Top.task))

UnknownCommand ==
  /\ Running /\ ret = None
  /\ Top.kind = "commands" /\ ~AtEnd(Top)
  /\ Current(Top) \notin DOMAIN settings.commands \cup Plugin
  /\ Unwind(Failed)
  /\ misused' = TRUE
  /\ UNCHANGED <<settings, commandLine, contexts, executorState>>

\* The steps of a plugin.
RegisterTask ==
  /\ Running /\ ret = None
  /\ Top.kind = "plugin" /\ ~AtEnd(Top)
  /\ Current(Top).op = "register"
  /\ ExecuteTask(Current(Top).task)
  /\ ret' = Ok
  /\ UNCHANGED <<settings, commandLine, contexts, stack, misused>>

ExecuteCommands ==
  /\ Running /\ ret = None
  /\ Top.kind = "plugin" /\ ~AtEnd(Top)
  /\ Current(Top).op = "execute"
  /\ Call(NewCommandsFrame(Current(Top).commands, NoOwner, Current(Top).task))

InputError ==
  /\ Running /\ ret = None
  /\ Top.kind = "plugin" /\ ~AtEnd(Top)
  /\ Current(Top).op = "fail"
  /\ Unwind(Failed)
  /\ misused' = TRUE
  /\ UNCHANGED <<settings, commandLine, contexts, executorState>>

ReturnTrue ==
  /\ Running /\ ret = None
  /\ AtEnd(Top)
  /\ Unwind(Ok)
  /\ UNCHANGED <<settings, commandLine, contexts, misused, executorState>>

\* The caller looks at the result.
CalleeSucceeded ==
  /\ Running /\ ret = Ok
  /\ Goto(Top.position + 1)
  /\ ret' = None
  /\ UNCHANGED <<settings, commandLine, contexts, misused, executorState>>

Propagates(frame) == frame.kind = "plugin" => Current(frame).otherwise = 0

\* Mutant: the failure does not go up.
ReturnTrueAfterFalse ==
  /\ Running /\ ret = Failed
  /\ Propagates(Top)
  /\ Unwind(Ok)
  /\ UNCHANGED <<settings, commandLine, contexts, misused, executorState>>

ReturnFalse ==
  /\ Running /\ ret = Failed
  /\ Propagates(Top)
  /\ Unwind(Failed)
  /\ UNCHANGED <<settings, commandLine, contexts, misused, executorState>>

\* Mutant: the target that failed is executed once more.
SameTargetAfterFailure ==
  /\ Running /\ ret = Failed
  /\ ~Propagates(Top)
  /\ ret' = None
  /\ UNCHANGED <<settings, commandLine, contexts, stack, misused, executorState>>

IgnoreFailure ==
  /\ Running /\ ret = Failed
  /\ ~Propagates(Top)
  /\ Goto(Current(Top).otherwise)
  /\ ret' = None
  /\ UNCHANGED <<settings, commandLine, contexts, misused, executorState>>

\* Mutants: the contexts are popped twice, or not at all.
FinishPoppingTwice ==
  /\ process = "running" /\ stack = <<>>
  /\ contexts' = contexts - 2
  /\ ReturnFromMain(ret = Ok)
  /\ UNCHANGED <<settings, commandLine, stack, ret, misused>>

FinishWithoutPop ==
  /\ process = "running" /\ stack = <<>>
  /\ ReturnFromMain(ret = Ok)
  /\ UNCHANGED <<settings, commandLine, contexts, stack, ret, misused>>

\* Commander::run pops the contexts and returns, then main does.
Finish ==
  /\ process = "running" /\ stack = <<>>
  /\ contexts' = contexts - 1
  /\ ReturnFromMain(ret = Ok)
  /\ UNCHANGED <<settings, commandLine, stack, ret, misused>>

Next ==
  \/ Start \/ StartWithoutCommands
  \/ ApplyPlugin \/ ApplyCommand \/ UnknownCommand
  \/ RegisterTask \/ ExecuteCommands \/ InputError
  \/ ReturnTrue \/ CalleeSucceeded \/ ReturnFalse \/ IgnoreFailure
  \/ Finish

Spec == Init /\ [][Next]_vars

-----------------------------------------------------------------------------
(* Properties. *)

TypeOK ==
  /\ settings \in Configurations
  /\ commandLine \in CommandLines
  /\ contexts \in Nat
  /\ stack \in Seq(Frame)
  /\ ret \in {None, Ok, Failed}
  /\ misused \in BOOLEAN
  /\ ExecutorTypeOK

Ended == process \notin {"starting", "running"}

\* The exit status main documents (exec-helper.rst, "Exit status"): one after
\* an improper invocation, otherwise the status of the last failed task, or
\* zero when none failed; in every mode of the executor.
ExitStatus ==
  process \in {"returned", "exited"} =>
    exitCode = IF misused THEN ExitFailure ELSE TaskStatus

\* Without --keep-going nothing is executed after a task that failed: only
\* the last task handed to the executor can have failed.
NothingAfterFailedTask ==
  ~options.keepGoing => \A i \in Failures : i = Len(log)

\* Once a command or plugin turns out to be invoked improperly, no task is
\* handed to the executor any more: the failure goes up through every nested
\* apply() to main.
NothingAfterMisuse == [][misused => UNCHANGED log]_vars

\* The contract of ExecutePlugin's context stacks: a frame exists only while a
\* context is pushed, and a run that had a command to execute and has come
\* back to main has released it.
ContextsMatchCalls ==
  /\ stack # <<>> => contexts > 0
  /\ process = "returned" /\ commandLine # <<>> => contexts = 0

\* --keep-going (exec-helper.rst): "Execute all scheduled commands, even if
\* one or more of them fail": the process never ends with work on the stack.
KeepGoingExecutesAll == options.keepGoing /\ Ended => stack = <<>>

\* The last two entries of a task: the arguments of the plugin that registered
\* it, and the combination that plugin substituted in them.
Registrar(task) == task[Len(task) - 1]
Combination(task) == task[Len(task)]
ToolOf(task) == Registrar(task).tool
SameRound(one, other) == Combination(one) = Combination(other)

IsMeasured(task) == ToolOf(task) = "command-line-command"
AsksForZero(s, task) ==
  IsAsked(s.zeroCounters, Combination(task).owner, Registrar(task).owner)

\* lcov measures what it says it measures: before it captures the counters it
\* has handed the run commands to the executor, and nothing else has run since
\* it zeroed them in the same combination (if it is asked to zero them); the
\* excluded paths are removed, and the report is made, right after the capture.
LcovRounds ==
  LET Logged(i) == log[i].task
  IN \A i \in 1..Len(log) :
       /\ ToolOf(Logged(i)) = "capture" =>
            \E j \in 0..(i - 2) :
              /\ \A m \in (j + 1)..(i - 1) : IsMeasured(Logged(m))
              /\ AsksForZero(settings, Logged(i)) =>
                   /\ j > 0 /\ ToolOf(Logged(j)) = "zerocounters"
                   /\ SameRound(Logged(i), Logged(j))
       /\ ToolOf(Logged(i)) \in {"remove", "genhtml"} =>
            /\ i > 1 /\ ToolOf(Logged(i - 1)) \in {"capture", "remove"}
            /\ SameRound(Logged(i), Logged(i - 1))

\* The stack of the process is never exhausted (given settings without
\* commands that lead back to themselves).
NoStackOverflow == process # "crashed"

\* Every invocation comes to an end.
Termination == <>Ended

=============================================================================
