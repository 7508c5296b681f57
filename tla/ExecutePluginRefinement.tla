------------------------ MODULE ExecutePluginRefinement ------------------------
(***************************************************************************)
(* ExecutePlugin implements ScheduledRun, for settings in which no command *)
(* leads back to itself.  The list of tasks an invocation stands for is    *)
(* what comes of the commands and plugins in it, each a function of what   *)
(* is configured for it: no call stack, no results that are passed up, no  *)
(* executor.  The variable plan holds it from the start on.                *)
(***************************************************************************)
EXTENDS ExecutePlugin, SequencesExt

VARIABLE plan

\* What there is to perform: commands, and the steps of plugins
Item == [op : {"command"}, name : Name, initial : Name, task : Task,
         otherwise : {0}] \cup Step

CommandItems(commands, owner, task) ==
  [i \in 1..Len(commands) |->
    [op |-> "command", name |-> commands[i], task |-> task, otherwise |-> 0,
     initial |-> IF owner = NoOwner THEN commands[i] ELSE owner]]

\* What is performed for a command, or to execute commands
Meaning(s, line, item) ==
  IF item.op = "execute" THEN CommandItems(item.commands, NoOwner, item.task)
  ELSE IF item.name \in Plugin
  THEN Program(s, line, item.name, item.initial, item.task)
  ELSE IF item.name \in DOMAIN s.commands
  THEN CommandItems(s.commands[item.name], item.name, item.task)
  ELSE <<Fail>>

\* What comes of an item: its tasks, and whether it succeeds
Result == [tasks : Seq(Task), ok : BOOLEAN]

\* Items are performed one after the other, up to the first that fails.  Its
\* failure is theirs, unless it is one that the plugin does not report.
InTurn(items, result) ==
  LET failed == SelectInSeq(items, LAMBDA item : ~result[item].ok)
      last == IF failed = 0 THEN Len(items) ELSE failed
  IN [tasks |-> FlattenSeq([i \in 1..last |-> result[items[i]].tasks]),
      ok |-> IF failed = 0 THEN TRUE ELSE items[failed].otherwise # 0]

\* Bound: what is nested more than MaxDepth deep comes to nothing.
Results(s, line) ==
  LET result[depth \in 0..MaxDepth] ==
        [item \in Item |->
          IF item.op = "register" THEN [tasks |-> <<item.task>>, ok |-> TRUE]
          ELSE IF item.op = "fail" \/ depth = 0
          THEN [tasks |-> <<>>, ok |-> FALSE]
          ELSE InTurn(Meaning(s, line, item), result[depth - 1])]
  IN result

PlanOf(s, line) ==
  IF line = <<>> THEN [tasks |-> <<>>, ok |-> FALSE]
  ELSE InTurn(CommandItems(line, NoOwner, <<>>), Results(s, line)[MaxDepth - 1])

PlannedInit == Init /\ plan = PlanOf(settings, commandLine)
PlannedNext == Next /\ UNCHANGED plan

\* A sequential program whose child processes end: it keeps taking steps.
PlannedSpec ==
  /\ PlannedInit /\ [][PlannedNext]_<<vars, plan>>
  /\ WF_<<vars, plan>>(PlannedNext)

Schedule == INSTANCE ScheduledRun
  WITH Tasks <- Task,
       plan <- plan.tasks, verdict <- plan.ok

\* However commands and plugins are nested, a process executes the list of
\* tasks its settings stand for, in order and nothing else, ends early only
\* in the executor, and otherwise returns the status of that list.
ImplementsSchedule == Schedule!Spec

=============================================================================
