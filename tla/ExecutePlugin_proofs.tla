------------------------- MODULE ExecutePlugin_proofs -------------------------
(***************************************************************************)
(* What the programs of the plugins are made of, for any settings: steps,  *)
(* and, for all plugins but the scripts that execute targets, steps after  *)
(* whose failure the plugin fails as well.                                 *)
(*                                                                         *)
(* The call stack of ExecutePlugin, for any settings and command line, any *)
(* depth of the stack and any return codes: its types, what it relies on   *)
(* when it goes back to a caller, the contexts it leaves behind, and the   *)
(* exit status when no plugin drops the failure of what it executed.       *)
(*                                                                         *)
(* That ExecutePlugin implements ScheduledRun.  What the settings stand    *)
(* for is computed item by item, without a stack (ExecutePluginRefinement).*)
(* The items of every frame on the stack are placed in that plan: what was *)
(* executed is what the items before those in progress come to, and what   *)
(* is left of the plan is what is left of them.                            *)
(*                                                                         *)
(* The rounds of lcov (LcovRounds): every frame above an lcov plugin that  *)
(* waits for its run commands registers tasks of command lines only.  The  *)
(* settings must lead lcov to such plugins; any other target could do      *)
(* anything in between.                                                    *)
(***************************************************************************)
EXTENDS ExecutePluginRefinement, SequenceFacts, SequenceTheorems, TLAPS

-----------------------------------------------------------------------------
(* Plugins *)

\* The failure of a straight step is the failure of the plugin.
StraightStep == {step \in Step : step.otherwise = 0}

LEMMA StepsOfPlugins ==
  /\ \A task \in Task : Register(task) \in StraightStep
  /\ \A commands \in Seq(Name), task \in Task :
       Execute(commands, task, 0) \in StraightStep
  /\ \A commands \in Seq(Name), task \in Task, otherwise \in Nat :
       Execute(commands, task, otherwise) \in Step
  /\ Fail \in StraightStep
<1>1. <<>> \in Seq(Name) /\ <<>> \in Task
  BY DEF Task
<1> QED
  BY <1>1 DEF StraightStep, Step, Register, Execute, Fail

\* A plugin that registers tasks with its own arguments only, or fails.
OwnStep(tool) ==
  {step \in StraightStep :
     \/ step.op = "fail"
     \/ step.op = "register" /\ ToolOf(step.task) = tool}

\* A plugin that executes its run commands only, or fails.
CallOf(commands) ==
  {step \in StraightStep :
     \/ step.op = "fail"
     \/ step.op = "execute" /\ step.commands = commands}

LEMMA ExtendedTask ==
  ASSUME NEW task \in Task, NEW tool \in Tool, NEW owner \in Name,
         NEW number \in Nat
  PROVE  /\ Extend(task, tool, owner, number) \in Task
         /\ ReplacePatternCombinations(task, owner, number) \in Task
<1>1. /\ [tool |-> tool, owner |-> owner, number |-> number] \in Argument
      /\ [tool |-> "patterns", owner |-> owner, number |-> number] \in Argument
  BY DEF Argument, Tool
<1> QED
  BY <1>1 DEF Extend, ReplacePatternCombinations, Task

\* A variable is set by the settings or has its default.
LEMMA VariableInRange ==
  ASSUME NEW T, NEW f, IsPartialFunction(f, Path, T),
         NEW p \in Name, NEW c \in Name, NEW default
  PROVE  /\ Variable(f, p, c, default) \in T \cup {default}
         /\ IsSet(f, p, c) => Variable(f, p, c, default) \in T
BY DEF IsPartialFunction, Variable, IsSet

\* The j-th step of a loop with m steps per turn.
LEMMA PositionInTurn ==
  ASSUME NEW m \in Nat \ {0}, NEW j \in Nat \ {0}
  PROVE  /\ ((j - 1) \div m) + 1 \in Nat \ {0}
         /\ ((j - 1) % m) + 1 \in 1..m
<1>1. j - 1 \in Nat
  OBVIOUS
<1>2. ((j - 1) % m) \in 0..(m - 1) /\ ((j - 1) \div m) \in Int
  BY <1>1
<1>3. ((j - 1) \div m) >= 0
  BY <1>1
<1> QED
  BY <1>2, <1>3

LEMMA TurnsOfLoop ==
  ASSUME NEW S, NEW n \in Nat, NEW m \in Nat \ {0},
         NEW body \in [Nat \ {0} -> [1..m -> S]]
  PROVE  [j \in 1..(n * m) |->
           body[((j - 1) \div m) + 1][((j - 1) % m) + 1]] \in Seq(S)
<1>1. n * m \in Nat
  OBVIOUS
<1>2. \A j \in 1..(n * m) :
        body[((j - 1) \div m) + 1][((j - 1) % m) + 1] \in S
  <2>1. SUFFICES ASSUME NEW j \in 1..(n * m)
                 PROVE  body[((j - 1) \div m) + 1][((j - 1) % m) + 1] \in S
    OBVIOUS
  <2>2. j \in Nat \ {0}
    BY <1>1
  <2> QED
    BY <2>2, PositionInTurn
<1> QED
  BY <1>1, <1>2

-----------------------------------------------------------------------------
(* The programs. *)

LEMMA CombinationsBound ==
  ASSUME NEW s, IsSettings(s), NEW p \in Plugin, NEW c \in Name
  PROVE  Combinations(s, p, c) \in 1..MaxCombinations
<1>1. Variable(s.combinations, p, c, 1) \in (1..MaxCombinations) \cup {1}
  BY VariableInRange, PluginAssumption DEF IsSettings
<1> QED
  BY <1>1, BoundAssumption DEF Combinations

\* A task of plugin p in one combination.
LEMMA CombinedTask ==
  ASSUME NEW task \in Task, NEW tool \in Tool, NEW p \in Plugin,
         NEW c \in Name, NEW number \in Nat, NEW k \in Nat
  PROVE  ReplacePatternCombinations(Extend(task, tool, c, number), p, k)
           \in Task
<1>1. p \in Name
  BY PluginAssumption
<1>2. Extend(task, tool, c, number) \in Task
  BY ExtendedTask
<1>3. \A t \in Task : ReplacePatternCombinations(t, p, k) \in Task
  BY <1>1, ExtendedTask DEF Tool
<1> QED
  BY <1>2, <1>3

\* Who registered it, and for which combination.
LEMMA CombinedArguments ==
  ASSUME NEW task \in Task, NEW tool \in Tool, NEW p \in Plugin,
         NEW c \in Name, NEW number \in Nat, NEW k \in Nat
  PROVE  LET t == ReplacePatternCombinations(
                    Extend(task, tool, c, number), p, k)
         IN /\ ToolOf(t) = tool /\ Registrar(t).owner = c
            /\ Combination(t) = [tool |-> "patterns", owner |-> p, number |-> k]
<1> DEFINE own == [tool |-> tool, owner |-> c, number |-> number]
           combination == [tool |-> "patterns", owner |-> p, number |-> k]
           t == Append(Append(task, own), combination)
<1>1. task \in Seq(Argument) /\ own \in Argument /\ combination \in Argument
  BY PluginAssumption DEF Task, Argument, Tool
<1>2. own.tool = tool /\ own.owner = c
  OBVIOUS
<1>3. ReplacePatternCombinations(Extend(task, tool, c, number), p, k) = t
  BY DEF ReplacePatternCombinations, Extend
<1> HIDE DEF own, combination
<1>4. Len(t) = Len(task) + 2 /\ t[Len(t)] = combination /\ t[Len(t) - 1] = own
  BY <1>1
<1> HIDE DEF t
<1> QED
  BY <1>2, <1>3, <1>4 DEF ToolOf, Registrar, Combination, combination

LEMMA OwnTask ==
  ASSUME NEW task \in Task, NEW tool \in Tool, NEW p \in Plugin,
         NEW c \in Name, NEW number \in Nat, NEW k \in Nat
  PROVE  Register(ReplacePatternCombinations(
           Extend(task, tool, c, number), p, k)) \in OwnStep(tool)
<1> DEFINE t == ReplacePatternCombinations(Extend(task, tool, c, number), p, k)
<1>1. t \in Task /\ ToolOf(t) = tool
  BY CombinedTask, CombinedArguments
<1> HIDE DEF t
<1>2. Register(t) \in StraightStep
  BY <1>1, StepsOfPlugins
<1>3. Register(t) \in OwnStep(tool)
  BY <1>1, <1>2 DEF OwnStep, Register
<1> QED
  BY <1>3 DEF t

LEMMA FailIsOwn ==
  /\ \A tool : Fail \in OwnStep(tool) /\ OwnStep(tool) \subseteq StraightStep
  /\ \A commands : Fail \in CallOf(commands)
                   /\ CallOf(commands) \subseteq StraightStep
BY StepsOfPlugins DEF OwnStep, CallOf, Fail

LEMMA CommandPluginSteps ==
  ASSUME NEW s, IsSettings(s), NEW line \in Seq(Name),
         NEW task \in Task
  PROVE  CommandPluginProgram(s, line, task) \in Seq(StraightStep)
<1> DEFINE commands ==
      IF "commands" \in DOMAIN s.commands THEN s.commands["commands"]
                                          ELSE line
<1>1. commands \in Seq(Name)
  BY DEF IsSettings, IsPartialFunction, NonEmptyLists
<1>2. Execute(commands, task, 0) \in StraightStep
  BY <1>1, StepsOfPlugins
<1> QED
  BY <1>2 DEF CommandPluginProgram

LEMMA CommandLineCommandSteps ==
  ASSUME NEW s, IsSettings(s), NEW p \in Plugin, NEW c \in Name,
         NEW task \in Task
  PROVE  LET program == CommandLineCommandProgram(s, p, c, task)
         IN program \in Seq(OwnStep("command-line-command")) /\ program # <<>>
<1> DEFINE lines == Variable(s.commandLines, p, c, 0)
           n == Combinations(s, p, c)
           Step1(k, l) == Register(ReplacePatternCombinations(
                            Extend(task, "command-line-command", c, l), p, k))
           Own == OwnStep("command-line-command")
           body == [k \in Nat \ {0} |-> [l \in 1..lines |-> Step1(k, l)]]
<1>1. lines \in Nat /\ n \in Nat
  <2>1. lines \in (1..MaxCommandLines) \cup {0}
    BY VariableInRange, PluginAssumption DEF IsSettings
  <2> QED
    BY <2>1, CombinationsBound, BoundAssumption
<1>2. CASE lines = 0
  <2>1. CommandLineCommandProgram(s, p, c, task) = <<Fail>>
    BY <1>2 DEF CommandLineCommandProgram
  <2> QED
    BY <2>1, FailIsOwn
<1>3. CASE lines # 0
  <2>1. \A k \in Nat, l \in Nat : Step1(k, l) \in Own
    BY OwnTask DEF Tool, Types
  <2>2. body \in [Nat \ {0} -> [1..lines -> Own]]
    BY <1>1, <2>1
  <2>3. [j \in 1..(n * lines) |->
          body[((j - 1) \div lines) + 1][((j - 1) % lines) + 1]]
          \in Seq(Own)
    BY <1>1, <1>3, <2>2, TurnsOfLoop
  <2>4. CommandLineCommandProgram(s, p, c, task)
          = [j \in 1..(n * lines) |->
              [l \in 1..lines |-> Step1(((j - 1) \div lines) + 1, l)]
                [((j - 1) % lines) + 1]]
    BY <1>3 DEF CommandLineCommandProgram, ForEachCombination
  <2>5. \A j \in 1..(n * lines) : ((j - 1) \div lines) + 1 \in Nat \ {0}
    <3>1. \A j \in 1..(n * lines) : j \in Nat \ {0}
      BY <1>1
    <3> QED
      BY <1>1, <1>3, <3>1, PositionInTurn
  <2>6. n * lines >= 1
    <3>1. n >= 1 /\ lines >= 1
      BY <1>1, <1>3, CombinationsBound, BoundAssumption
    <3> HIDE DEF n, lines
    <3> QED
      BY <1>1, <3>1
  <2> HIDE DEF Step1, n, lines
  <2>7. CommandLineCommandProgram(s, p, c, task) \in Seq(Own)
    BY <2>3, <2>4, <2>5
  <2>8. 1 \in DOMAIN CommandLineCommandProgram(s, p, c, task)
    BY <1>1, <2>4, <2>6
  <2> QED
    BY <2>7, <2>8
<1> QED
  BY <1>2, <1>3

\* A loop with one step per turn.
LEMMA OneStepPerTurn ==
  ASSUME NEW S, NEW n \in Nat, NEW step \in [Nat \ {0} -> S]
  PROVE  [j \in 1..(n * 1) |->
           <<step[((j - 1) \div 1) + 1]>>[((j - 1) % 1) + 1]] \in Seq(S)
<1>1. \A j \in 1..(n * 1) : /\ ((j - 1) \div 1) + 1 \in Nat \ {0}
                            /\ ((j - 1) % 1) + 1 = 1
  <2>1. \A j \in 1..(n * 1) : j \in Nat \ {0}
    OBVIOUS
  <2>2. \A j \in Nat \ {0} : ((j - 1) % 1) + 1 \in 1..1
    BY PositionInTurn
  <2> QED
    BY <2>1, <2>2, PositionInTurn
<1>2. \A j \in 1..(n * 1) :
        <<step[((j - 1) \div 1) + 1]>>[((j - 1) % 1) + 1] \in S
  BY <1>1
<1> QED
  BY <1>2

LEMMA SingleTaskSteps ==
  ASSUME NEW s, IsSettings(s), NEW p \in Plugin, NEW c \in Name,
         NEW task \in Task
  PROVE  SingleTaskProgram(s, p, c, task) \in Seq(OwnStep(PluginType[p]))
<1> DEFINE n == Combinations(s, p, c)
           Step1(k) == Register(ReplacePatternCombinations(
                         Extend(task, PluginType[p], c, 0), p, k))
           step == [k \in Nat \ {0} |-> Step1(k)]
<1>1. n \in Nat
  BY CombinationsBound, BoundAssumption
<1>2. PluginType[p] \in Tool
  BY PluginAssumption DEF Tool
<1>3. \A k \in Nat : Step1(k) \in OwnStep(PluginType[p])
  BY <1>2, OwnTask
<1>4. step \in [Nat \ {0} -> OwnStep(PluginType[p])]
  BY <1>3
<1>5. [j \in 1..(n * 1) |->
        <<step[((j - 1) \div 1) + 1]>>[((j - 1) % 1) + 1]]
        \in Seq(OwnStep(PluginType[p]))
  BY <1>1, <1>4, OneStepPerTurn
<1>6. \A j \in 1..(n * 1) : ((j - 1) \div 1) + 1 \in Nat \ {0}
  <2>1. \A j \in 1..(n * 1) : j \in Nat \ {0}
    BY <1>1
  <2> QED
    BY <2>1, PositionInTurn
<1>7. SingleTaskProgram(s, p, c, task)
        = [j \in 1..(n * 1) |->
            <<Step1(((j - 1) \div 1) + 1)>>[((j - 1) % 1) + 1]]
  BY DEF SingleTaskProgram, ForEachCombination
<1> QED
  BY <1>5, <1>6, <1>7

LEMMA ValgrindSteps ==
  ASSUME NEW s, IsSettings(s), NEW p \in Plugin, NEW c \in Name,
         NEW task \in Task
  PROVE  LET program == ValgrindProgram(s, p, c, task)
         IN /\ program \in Seq(CallOf(Variable(s.runCommand, p, c, <<>>)))
            /\ program # <<>>
            /\ ~IsSet(s.runCommand, p, c) => program = <<Fail>>
<1> DEFINE n == Combinations(s, p, c)
           run == Variable(s.runCommand, p, c, <<>>)
           Step1(k) == Execute(run, ReplacePatternCombinations(
                         Extend(task, "valgrind", c, 0), p, k), 0)
           step == [k \in Nat \ {0} |-> Step1(k)]
<1>1. CASE ~IsSet(s.runCommand, p, c)
  <2>1. ValgrindProgram(s, p, c, task) = <<Fail>>
    BY <1>1 DEF ValgrindProgram
  <2> QED
    BY <1>1, <2>1, FailIsOwn
<1>2. CASE IsSet(s.runCommand, p, c)
  <2>1. n \in Nat
    BY CombinationsBound, BoundAssumption
  <2>2. run \in Seq(Name)
    BY <1>2, VariableInRange, PluginAssumption DEF IsSettings, NonEmptyLists
  <2>3. \A k \in Nat : Step1(k) \in CallOf(run)
    <3>1. ASSUME NEW t \in Task PROVE Execute(run, t, 0) \in CallOf(run)
      <4>1. Execute(run, t, 0) \in StraightStep
        BY <2>2, StepsOfPlugins
      <4> QED
        BY <4>1 DEF CallOf, Execute
    <3> QED
      BY <3>1, CombinedTask DEF Tool, Types
  <2>4. step \in [Nat \ {0} -> CallOf(run)]
    BY <2>3
  <2>5. [j \in 1..(n * 1) |->
          <<step[((j - 1) \div 1) + 1]>>[((j - 1) % 1) + 1]]
          \in Seq(CallOf(run))
    BY <2>1, <2>4, OneStepPerTurn
  <2>6. \A j \in 1..(n * 1) : ((j - 1) \div 1) + 1 \in Nat \ {0}
    <3>1. \A j \in 1..(n * 1) : j \in Nat \ {0}
      BY <2>1
    <3> QED
      BY <3>1, PositionInTurn
  <2>7. ValgrindProgram(s, p, c, task)
          = [j \in 1..(n * 1) |->
              <<Step1(((j - 1) \div 1) + 1)>>[((j - 1) % 1) + 1]]
    BY <1>2 DEF ValgrindProgram, ForEachCombination
  <2>8. n * 1 >= 1
    BY CombinationsBound, BoundAssumption
  <2> HIDE DEF Step1, n
  <2>9. ValgrindProgram(s, p, c, task) \in Seq(CallOf(run))
    BY <2>5, <2>6, <2>7
  <2>10. 1 \in DOMAIN ValgrindProgram(s, p, c, task)
    BY <2>1, <2>7, <2>8
  <2> QED
    BY <1>2, <2>9, <2>10
<1> QED
  BY <1>1, <1>2

LEMMA FourParts ==
  ASSUME NEW S, NEW a \in Seq(S), NEW b \in Seq(S), NEW d \in Seq(S),
         NEW e \in Seq(S)
  PROVE  /\ a \o b \o d \o e \in Seq(S)
         /\ Len(a \o b \o d \o e) = Len(a) + Len(b) + Len(d) + Len(e)
<1>1. a \o b \in Seq(S) /\ Len(a \o b) = Len(a) + Len(b)
  OBVIOUS
<1>2. (a \o b) \o d \in Seq(S) /\ Len((a \o b) \o d) = Len(a \o b) + Len(d)
  BY <1>1
<1> QED
  BY <1>1, <1>2

\* How often and with what lcov goes through its loop: the length of a turn is
\* the same for every combination.
LEMMA LcovSteps ==
  ASSUME NEW s, IsSettings(s), NEW p \in Plugin, NEW c \in Name,
         NEW task \in Task
  PROVE  LcovProgram(s, p, c, task) \in Seq(StraightStep)
<1> DEFINE n == Combinations(s, p, c)
           run == Variable(s.runCommand, p, c, <<>>)
           Tool1(tool, k) == Register(ReplacePatternCombinations(
                               Extend(task, tool, c, 0), p, k))
           When(f, tool, k) ==
             IF IsAsked(f, p, c) THEN <<Tool1(tool, k)>> ELSE <<>>
           Body(k) == When(s.zeroCounters, "zerocounters", k)
                      \o <<Execute(run, task, 0), Tool1("capture", k)>>
                      \o When(s.excludes, "remove", k)
                      \o When(s.genHtml, "genhtml", k)
           m == Len(Body(1))
           body == [k \in Nat \ {0} |-> Body(k)]
<1>1. CASE ~IsSet(s.runCommand, p, c)
  <2>1. LcovProgram(s, p, c, task) = <<Fail>>
    BY <1>1 DEF LcovProgram
  <2> QED
    BY <2>1, StepsOfPlugins
<1>2. CASE IsSet(s.runCommand, p, c)
  <2>1. n \in Nat
    BY CombinationsBound, BoundAssumption
  <2>2. run \in Seq(Name)
    BY <1>2, VariableInRange, PluginAssumption DEF IsSettings, NonEmptyLists
  <2>3. Execute(run, task, 0) \in StraightStep
    BY <2>2, StepsOfPlugins
  <2>4. \A k \in Nat, tool \in Tool : Tool1(tool, k) \in StraightStep
    BY CombinedTask, StepsOfPlugins
  <2> DEFINE Size(f) == IF IsAsked(f, p, c) THEN 1 ELSE 0
             size == Size(s.zeroCounters) + 2 + Size(s.excludes)
                       + Size(s.genHtml)
  <2>5. ASSUME NEW k \in Nat \ {0}
        PROVE  Body(k) \in Seq(StraightStep) /\ Len(Body(k)) = size
    <3> DEFINE zero == When(s.zeroCounters, "zerocounters", k)
               always == <<Execute(run, task, 0), Tool1("capture", k)>>
               exclude == When(s.excludes, "remove", k)
               html == When(s.genHtml, "genhtml", k)
    <3>1. {"zerocounters", "capture", "remove", "genhtml"} \subseteq Tool
      BY DEF Tool
    <3>2. always \in Seq(StraightStep) /\ Len(always) = 2
      BY <2>3, <2>4, <3>1
    <3>3. ASSUME NEW f, NEW tool \in {"zerocounters", "remove", "genhtml"}
          PROVE  /\ When(f, tool, k) \in Seq(StraightStep)
                 /\ Len(When(f, tool, k)) = Size(f)
      <4>1. Tool1(tool, k) \in StraightStep
        BY <2>4, <3>1
      <4> HIDE DEF Tool1
      <4>2. CASE IsAsked(f, p, c)
        <5>1. When(f, tool, k) = <<Tool1(tool, k)>> /\ Size(f) = 1
          BY <4>2
        <5> QED
          BY ONLY <4>1, <5>1
      <4>3. CASE ~IsAsked(f, p, c)
        <5>1. When(f, tool, k) = <<>> /\ Size(f) = 0
          BY <4>3
        <5> QED
          BY ONLY <5>1
      <4> QED
        BY <4>2, <4>3
    <3>4. /\ zero \in Seq(StraightStep) /\ Len(zero) = Size(s.zeroCounters)
          /\ exclude \in Seq(StraightStep) /\ Len(exclude) = Size(s.excludes)
          /\ html \in Seq(StraightStep) /\ Len(html) = Size(s.genHtml)
      BY <3>3
    <3>5. Body(k) = zero \o always \o exclude \o html
      OBVIOUS
    <3> HIDE DEF zero, always, exclude, html, Body
    <3>6. /\ zero \in Seq(StraightStep) /\ always \in Seq(StraightStep)
          /\ exclude \in Seq(StraightStep) /\ html \in Seq(StraightStep)
      BY <3>2, <3>4
    <3>7. /\ Body(k) \in Seq(StraightStep)
          /\ Len(Body(k)) = Len(zero) + Len(always) + Len(exclude) + Len(html)
      BY <3>5, <3>6, FourParts
    <3> QED
      BY <3>2, <3>4, <3>7
  <2> HIDE DEF Body
  <2>10. m = size /\ m \in Nat \ {0}
    <3>1. Len(Body(1)) = size
      BY <2>5
    <3>2. \A f : Size(f) \in Nat
      OBVIOUS
    <3> HIDE DEF Size
    <3>3. size \in Nat \ {0}
      BY <3>2
    <3> QED
      BY <3>1, <3>3
  <2> HIDE DEF Body
  <2> HIDE DEF size, m
  <2>6. body \in [Nat \ {0} -> [1..m -> StraightStep]]
    BY <2>5, <2>10
  <2> HIDE DEF n, body
  <2>7. [j \in 1..(n * m) |-> body[((j - 1) \div m) + 1][((j - 1) % m) + 1]]
          \in Seq(StraightStep)
    BY <2>1, <2>10, <2>6, TurnsOfLoop, ZenonT(30)
  <2>8. \A j \in 1..(n * m) : ((j - 1) \div m) + 1 \in Nat \ {0}
    <3>1. \A j \in 1..(n * m) : j \in Nat \ {0}
      BY <2>1, <2>10
    <3> QED
      BY <2>10, <3>1, PositionInTurn
  <2>9. LcovProgram(s, p, c, task)
          = [j \in 1..(n * m) |->
              Body(((j - 1) \div m) + 1)[((j - 1) % m) + 1]]
    BY <1>2 DEF LcovProgram, ForEachCombination, Body, m, n
  <2> QED
    BY <2>7, <2>8, <2>9 DEF body
<1> QED
  BY <1>1, <1>2

\* Executing targets: the step to go on with after a failure is the end.
LEMMA RunTargetSteps ==
  ASSUME NEW s, IsSettings(s), NEW p \in Plugin, NEW c \in Name,
         NEW task \in Task
  PROVE  RunTargetProgram(s, p, c, task) \in Seq(Step)
<1> DEFINE n == Combinations(s, p, c)
           none == [j \in 1..n |-> <<>>]
           targets == Variable(s.targets, p, c, none)
           combined(k) == ReplacePatternCombinations(task, p, k)
<1>1. n \in Nat /\ n <= MaxCombinations
  BY CombinationsBound, BoundAssumption
<1>2. \A k \in 1..n : targets[k] \in Seq(Name)
  <2>1. targets \in Targets \cup {none}
    BY VariableInRange, PluginAssumption DEF IsSettings
  <2> HIDE DEF n, targets
  <2>2. CASE targets \in Targets
    BY <1>1, <2>2, BoundAssumption DEF Targets
  <2>3. CASE targets = none
    BY <2>3
  <2> QED
    BY <2>1, <2>2, <2>3
<1>3. \A k \in Nat : combined(k) \in Task
  BY ExtendedTask, PluginAssumption DEF Tool
<1> HIDE DEF n, targets, combined
<1>4. \A k \in 1..n : Execute(targets[k], combined(k), n + 1) \in Step
  BY <1>1, <1>2, <1>3, StepsOfPlugins
<1>5. [k \in 1..n |-> Execute(targets[k], combined(k), n + 1)] \in Seq(Step)
  BY <1>1, <1>4
<1> QED
  BY <1>5 DEF RunTargetProgram, n, targets, combined

\* The plugins that execute targets, and do not look at the outcome.
RunsTargets(p) ==
  PluginType[p] \in {"selector", "docker", "clang-static-analyzer"}

LEMMA OwnIsStraight ==
  /\ \A tool : Seq(OwnStep(tool)) \subseteq Seq(StraightStep)
  /\ \A commands : Seq(CallOf(commands)) \subseteq Seq(StraightStep)
<1>1. \A S \in SUBSET StraightStep : Seq(S) \subseteq Seq(StraightStep)
  OBVIOUS
<1> QED
  BY <1>1, FailIsOwn

\* Programs consist of steps.
LEMMA ProgramSteps ==
  ASSUME NEW s, IsSettings(s), NEW line \in Seq(Name),
         NEW p \in Plugin, NEW c \in Name, NEW task \in Task
  PROVE  /\ Program(s, line, p, c, task) \in Seq(Step)
         /\ ~RunsTargets(p)
              => Program(s, line, p, c, task) \in Seq(StraightStep)
<1>1. StraightStep \subseteq Step /\ Seq(StraightStep) \subseteq Seq(Step)
  BY DEF StraightStep
<1>2. <<Fail>> \in Seq(StraightStep) /\ <<>> \in Seq(StraightStep)
  BY StepsOfPlugins
<1>3. SingleTaskProgram(s, p, c, task) \in Seq(StraightStep)
  BY SingleTaskSteps, OwnIsStraight
<1>4. \A tool \in Types : Extend(task, tool, c, 0) \in Task
  BY ExtendedTask DEF Tool
<1>5. CASE RunsTargets(p)
  <2>1. \A t \in Task : RunTargetProgram(s, p, c, t) \in Seq(Step)
    BY RunTargetSteps
  <2>2. ScriptProgram(s, p, c, task) \in Seq(Step)
    BY <1>1, <1>2, <1>3, <1>4, <1>5, <2>1
    DEF ScriptProgram, SelectorProgram, DockerProgram,
        ClangStaticAnalyzerProgram, RunsTargets, Types, Scripts
  <2> QED
    BY <1>5, <2>2 DEF Program, RunsTargets, Scripts
<1>6. CASE ~RunsTargets(p)
  <2>1. Program(s, line, p, c, task) \in Seq(StraightStep)
    <3>1. PluginType[p] \in Types
      BY PluginAssumption
    <3>2. CASE PluginType[p] \in Scripts
      <4>1. PluginType[p] = "script"
        BY <1>6, <3>2 DEF RunsTargets, Scripts
      <4>2. ScriptProgram(s, p, c, task) \in Seq(StraightStep)
        BY <1>2, <1>3, <4>1 DEF ScriptProgram
      <4> QED
        BY <4>1, <4>2 DEF Program, Scripts
    <3>3. CASE PluginType[p] \notin Scripts
      BY <1>2, <1>3, <3>1, <3>3, CommandPluginSteps, CommandLineCommandSteps,
         ValgrindSteps, LcovSteps, OwnIsStraight DEF Program, MemoryProgram, Types
    <3> QED
      BY <3>2, <3>3
  <2> QED
    BY <1>1, <2>1
<1> QED
  BY <1>5, <1>6

-----------------------------------------------------------------------------
(* The executor: lastReturnCode is the status of the last task that failed, *)
(* for as long as the process has not exited because of it.                *)

\* A set of natural numbers needs to be finite to have a last element; that
\* the failures have one is carried along instead.
HasLastFailure ==
  Failures # {} => \E i \in Failures : \A j \in Failures : j <= i

\* How the log, the remembered code and the end of the process hang together.
Ledger ==
  /\ HasLastFailure
  /\ process # "exited" =>
       /\ lastReturnCode = TaskStatus
       /\ ~options.keepGoing => Failures = {}
  /\ process = "exited" =>
       /\ ~options.keepGoing /\ ~options.dryRun
       /\ Failures = {Len(log)}
       /\ exitCode = log[Len(log)].code

\* The last failure is one, and the one no other comes after.
LEMMA LastFailureIsLast ==
  ASSUME log \in Seq(Entry), NEW i \in Failures, \A j \in Failures : j <= i
  PROVE  LastFailure = i
<1>1. Failures \subseteq Int
  BY DEF Failures
<1>2. LastFailure \in Failures /\ \A j \in Failures : j <= LastFailure
  BY DEF LastFailure
<1> QED
  BY <1>1, <1>2

LEMMA FailuresAppend ==
  ASSUME log \in Seq(Entry), NEW entry \in Entry, log' = Append(log, entry)
  PROVE  Failures' = IF entry.code = PosixSuccess THEN Failures
                     ELSE Failures \cup {Len(log) + 1}
<1>1. Len(log') = Len(log) + 1 /\ Len(log) \in Nat
  OBVIOUS
<1>2. \A i \in 1..Len(log) : log'[i] = log[i]
  OBVIOUS
<1>3. log'[Len(log) + 1] = entry
  OBVIOUS
<1>4. \A i : i \in Failures' <=>
        \/ i \in Failures
        \/ i = Len(log) + 1 /\ entry.code # PosixSuccess
  BY <1>1, <1>2, <1>3 DEF Failures
<1> QED
  BY <1>4

\* A task that succeeds leaves the status alone; one that fails sets it.
LEMMA StatusAppend ==
  ASSUME log \in Seq(Entry), NEW entry \in Entry, log' = Append(log, entry),
         HasLastFailure
  PROVE  /\ HasLastFailure'
         /\ TaskStatus' = IF entry.code = PosixSuccess THEN TaskStatus
                                                       ELSE entry.code
<1>1. log' \in Seq(Entry) /\ Len(log) \in Nat /\ Failures \subseteq 1..Len(log)
  BY DEF Failures
<1>2. CASE entry.code # PosixSuccess
  <2>1. Failures' = Failures \cup {Len(log) + 1}
    BY <1>2, FailuresAppend
  <2>2. /\ Len(log) + 1 \in Failures'
        /\ \A j \in Failures' : j <= Len(log) + 1
    BY <1>1, <2>1
  <2>3. LastFailure' = Len(log) + 1
    <3>1. ASSUME NEW i \in Failures', \A j \in Failures' : j <= i
          PROVE  LastFailure' = i
      BY <1>1, <3>1 DEF LastFailure, Failures
    <3> QED
      BY <2>2, <3>1
  <2> QED
    BY <1>2, <2>1, <2>2, <2>3 DEF HasLastFailure, TaskStatus
<1>3. CASE entry.code = PosixSuccess
  <2>1. Failures' = Failures
    BY <1>3, FailuresAppend
  <2>2. HasLastFailure'
    BY <2>1 DEF HasLastFailure
  <2>3. CASE Failures = {}
    BY <1>3, <2>1, <2>2, <2>3 DEF TaskStatus
  <2>4. CASE Failures # {}
    <3>1. PICK i \in Failures : \A j \in Failures : j <= i
      BY <2>4 DEF HasLastFailure
    <3>2. LastFailure = i
      BY <3>1, LastFailureIsLast
    <3>3. LastFailure' = i
      BY <1>1, <2>1, <3>1 DEF LastFailure, Failures
    <3>4. log'[i] = log[i]
      BY <1>1, <3>1
    <3> QED
      BY <1>3, <2>1, <2>2, <2>4, <3>2, <3>3, <3>4 DEF TaskStatus
  <2> QED
    BY <2>3, <2>4
<1> QED
  BY <1>2, <1>3

LEMMA LedgerStarts == ExecutorInit => ExecutorTypeOK /\ Ledger
<1> SUFFICES ASSUME ExecutorInit PROVE ExecutorTypeOK /\ Ledger
  OBVIOUS
<1>1. ExecutorTypeOK
  BY DEF ExecutorInit, ExecutorTypeOK, Processes, PosixSuccess
<1>2. Failures = {}
  BY DEF ExecutorInit, Failures
<1> QED
  BY <1>1, <1>2
  DEF ExecutorInit, Ledger, HasLastFailure, TaskStatus, PosixSuccess

\* The ways a task can go.
LEMMA TaskOutcomes ==
  ASSUME ExecutorTypeOK, NEW task \in Task, ExecuteTask(task)
  PROVE  \/ /\ process' = "terminated"
            /\ UNCHANGED <<log, options, lastReturnCode, exitCode>>
         \/ \E entry \in Entry :
              /\ entry.task = task
              /\ log' = Append(log, entry)
              /\ UNCHANGED options
              /\ \/ /\ entry.code = PosixSuccess
                    /\ UNCHANGED <<lastReturnCode, process, exitCode>>
                 \/ /\ entry.code # PosixSuccess /\ options.keepGoing
                    /\ lastReturnCode' = entry.code
                    /\ UNCHANGED <<process, exitCode>>
                 \/ /\ entry.code # PosixSuccess
                    /\ ~options.keepGoing /\ ~options.dryRun
                    /\ process' = "exited" /\ exitCode' = entry.code
                    /\ UNCHANGED lastReturnCode
<1>1. \A how \in {"reported", "executed"}, code \in 0..255 :
        [task |-> task, how |-> how, code |-> code] \in Entry
  BY DEF Entry
<1>2. CASE Report(task) \/ RunSuccessfully(task)
  <2>1. PICK how \in {"reported", "executed"} : Record(task, how, PosixSuccess)
    BY <1>2 DEF Report, RunSuccessfully
  <2> DEFINE entry == [task |-> task, how |-> how, code |-> PosixSuccess]
  <2>2. PosixSuccess \in 0..255
    BY DEF PosixSuccess
  <2>3. entry \in Entry
    BY <1>1, <2>2
  <2>4. log' = Append(log, entry)
    BY <2>1 DEF Record
  <2>5. UNCHANGED <<options, lastReturnCode, process, exitCode>>
    BY <1>2 DEF Report, RunSuccessfully, ExecuteTask
  <2>6. entry.task = task /\ entry.code = PosixSuccess
    OBVIOUS
  <2> HIDE DEF entry
  <2> QED
    BY <2>3, <2>4, <2>5, <2>6
<1>3. ASSUME NEW code \in ReturnCodes,
             RunFailsAndGoesOn(task, code) \/ RunFailsAndExits(task, code)
      PROVE  \E entry \in Entry :
               /\ entry.task = task
               /\ log' = Append(log, entry)
               /\ UNCHANGED options
               /\ \/ /\ entry.code # PosixSuccess /\ options.keepGoing
                     /\ lastReturnCode' = entry.code
                     /\ UNCHANGED <<process, exitCode>>
                  \/ /\ entry.code # PosixSuccess
                     /\ ~options.keepGoing /\ ~options.dryRun
                     /\ process' = "exited" /\ exitCode' = entry.code
                     /\ UNCHANGED lastReturnCode
  BY <1>1, <1>3, ConfigurationAssumption
  DEF RunFailsAndGoesOn, RunFailsAndExits, Record, ExecuteTask
<1>4. CASE BinaryNotFound(task)
  BY <1>4 DEF BinaryNotFound, ExecuteTask
<1> QED
  BY <1>2, <1>3, <1>4 DEF ExecuteTask

LEMMA LedgerAfterTask ==
  ASSUME ExecutorTypeOK, Ledger, process = "running",
         NEW task \in Task, ExecuteTask(task)
  PROVE  /\ ExecutorTypeOK' /\ Ledger'
         /\ process' \in {"running", "exited", "terminated"}
<1>1. CASE /\ process' = "terminated"
           /\ UNCHANGED <<log, options, lastReturnCode, exitCode>>
  <2>1. ExecutorTypeOK'
    BY <1>1 DEF ExecutorTypeOK, Processes
  <2>2. Failures' = Failures /\ HasLastFailure' /\ TaskStatus' = TaskStatus
    BY <1>1
    DEF Ledger, HasLastFailure, Failures, TaskStatus, LastFailure
  <2> QED
    BY <1>1, <2>1, <2>2 DEF Ledger
<1>2. ASSUME NEW entry \in Entry,
             log' = Append(log, entry), UNCHANGED options,
             \/ /\ entry.code = PosixSuccess
                /\ UNCHANGED <<lastReturnCode, process, exitCode>>
             \/ /\ entry.code # PosixSuccess /\ options.keepGoing
                /\ lastReturnCode' = entry.code
                /\ UNCHANGED <<process, exitCode>>
             \/ /\ entry.code # PosixSuccess
                /\ ~options.keepGoing /\ ~options.dryRun
                /\ process' = "exited" /\ exitCode' = entry.code
                /\ UNCHANGED lastReturnCode
      PROVE  /\ ExecutorTypeOK' /\ Ledger'
             /\ process' \in {"running", "exited", "terminated"}
  <2>1. log \in Seq(Entry) /\ log' \in Seq(Entry) /\ entry.code \in 0..255
    BY <1>2 DEF ExecutorTypeOK, Entry
  <2>2. ExecutorTypeOK'
    BY <1>2, <2>1, ZenonT(30) DEF ExecutorTypeOK, Processes
  <2>3. /\ HasLastFailure'
        /\ TaskStatus' = IF entry.code = PosixSuccess THEN TaskStatus
                                                      ELSE entry.code
    BY <1>2, <2>1, StatusAppend DEF Ledger
  <2>4. Failures' = IF entry.code = PosixSuccess THEN Failures
                    ELSE Failures \cup {Len(log) + 1}
    BY <1>2, <2>1, FailuresAppend
  <2>5. Len(log') = Len(log) + 1 /\ log'[Len(log')] = entry
    BY <1>2, <2>1
  <2> QED
    BY <1>2, <2>2, <2>3, <2>4, <2>5 DEF Ledger
<1> QED
  BY <1>1, <1>2, TaskOutcomes

\* Steps that do not touch the executor, or only start or end the process.
LEMMA LedgerKept ==
  ASSUME ExecutorTypeOK, Ledger, process # "exited",
         UNCHANGED <<options, log, lastReturnCode>>,
         process' \in Processes \ {"exited"}, exitCode' \in 0..255 \cup {NoCode}
  PROVE  ExecutorTypeOK' /\ Ledger'
<1>1. ExecutorTypeOK'
  BY DEF ExecutorTypeOK
<1>2. Failures' = Failures /\ HasLastFailure' /\ TaskStatus' = TaskStatus
  BY DEF Ledger, HasLastFailure, Failures, TaskStatus, LastFailure
<1> QED
  BY <1>1, <1>2 DEF Ledger

LEMMA LedgerUnchanged ==
  ASSUME ExecutorTypeOK, Ledger, UNCHANGED executorState
  PROVE  ExecutorTypeOK' /\ Ledger' /\ TaskStatus' = TaskStatus
<1>1. TaskStatus' = TaskStatus /\ Failures' = Failures /\ HasLastFailure'
  BY DEF executorState, TaskStatus, LastFailure, Failures, Ledger, HasLastFailure
<1> QED
  BY <1>1 DEF executorState, ExecutorTypeOK, Ledger

\* main returns the status of the last failed task, or 1.
LEMMA LedgerAfterReturn ==
  ASSUME ExecutorTypeOK, Ledger, process = "running" \/ process = "starting",
         NEW successful \in BOOLEAN, ReturnFromMain(successful)
  PROVE  /\ ExecutorTypeOK' /\ Ledger'
         /\ exitCode' = IF successful THEN TaskStatus' ELSE ExitFailure
<1>1. /\ exitCode' = IF successful THEN lastReturnCode ELSE ExitFailure
      /\ process' = "returned"
      /\ UNCHANGED <<options, log, lastReturnCode>>
  BY DEF ReturnFromMain
<1>2. exitCode' \in 0..255 \cup {NoCode} /\ process' \in Processes \ {"exited"}
  BY <1>1 DEF ExecutorTypeOK, ExitFailure, Processes
<1>3. ExecutorTypeOK' /\ Ledger'
  BY <1>1, <1>2, LedgerKept
<1>4. lastReturnCode' = TaskStatus'
  BY <1>1, <1>3 DEF Ledger
<1> QED
  BY <1>1, <1>3, <1>4

LEMMA StatusAfterExit ==
  ASSUME ExecutorTypeOK, Ledger, process = "exited"
  PROVE  exitCode = TaskStatus
<1>1. LastFailure = Len(log)
  BY LastFailureIsLast DEF ExecutorTypeOK, Ledger
<1> QED
  BY <1>1 DEF Ledger, TaskStatus

-----------------------------------------------------------------------------
(* The invariant. *)

\* A frame below the top is at a call that is in progress, and so is the top
\* while there is a result it has not looked at: neither is at its end.
CallersWait ==
  \A i \in 1..Len(stack) :
    i < Len(stack) \/ ret # None => ~AtEnd(stack[i])

\* What a process has pushed at each time of its life.
ContextPerCall ==
  /\ process = "starting" => contexts = 0 /\ stack = <<>> /\ ret = None
  /\ process = "running" =>
       contexts = 1 /\ commandLine # <<>> /\ (stack = <<>> => ret # None)
  /\ stack # <<>> => contexts = 1
  /\ process = "returned" => stack = <<>> /\ (commandLine # <<>> => contexts = 0)

Inv == TypeOK /\ Ledger /\ CallersWait /\ ContextPerCall

\* The work of a frame of either kind.
LEMMA FrameWork ==
  ASSUME NEW frame \in Frame
  PROVE  /\ frame.position \in Nat \ {0}
         /\ frame.kind \in {"commands", "plugin"}
         /\ frame.kind = "commands" =>
              /\ Work(frame) = frame.commands /\ frame.commands \in Seq(Name)
              /\ frame.owner \in Name \cup {NoOwner} /\ frame.task \in Task
         /\ frame.kind = "plugin" =>
              Work(frame) = frame.program /\ frame.program \in Seq(Step)
         /\ Len(Work(frame)) \in Nat
<1>1. CASE frame \in CommandsFrame
  BY <1>1 DEF CommandsFrame, Work
<1>2. CASE frame \in PluginFrame
  BY <1>2 DEF PluginFrame, Work
<1> QED
  BY <1>1, <1>2 DEF Frame

\* What a frame that is not at its end is at.
LEMMA FrameCurrent ==
  ASSUME NEW frame \in Frame, ~AtEnd(frame)
  PROVE  /\ frame.kind = "commands" =>
              Current(frame) \in Name /\ InitialCommand(frame) \in Name
         /\ frame.kind = "plugin" => Current(frame) \in Step
<1>1. frame.position \in 1..Len(Work(frame))
  BY FrameWork DEF AtEnd
<1> QED
  BY <1>1, FrameWork DEF Current, InitialCommand

LEMMA NewFrames ==
  /\ \A commands \in Seq(Name), owner \in Name \cup {NoOwner}, task \in Task :
       NewCommandsFrame(commands, owner, task) \in Frame
  /\ \A program \in Seq(Step) : NewPluginFrame(program) \in Frame
BY DEF NewCommandsFrame, NewPluginFrame, Frame, CommandsFrame, PluginFrame

LEMMA MovedFrame ==
  ASSUME NEW frame \in Frame, NEW position \in Nat \ {0}
  PROVE  [frame EXCEPT !.position = position] \in Frame
<1>1. CASE frame \in CommandsFrame
  BY <1>1 DEF CommandsFrame, Frame
<1>2. CASE frame \in PluginFrame
  BY <1>2 DEF PluginFrame, Frame
<1> QED
  BY <1>1, <1>2 DEF Frame

LEMMA TopFrame ==
  ASSUME TypeOK, Running
  PROVE  /\ Len(stack) \in Nat \ {0} /\ Len(stack) \in 1..Len(stack)
         /\ Top \in Frame
<1>1. stack \in Seq(Frame) /\ stack # <<>>
  BY DEF TypeOK, Running
<1>2. Len(stack) \in Nat \ {0}
  BY <1>1
<1> QED
  BY <1>1, <1>2 DEF Top

\* Settings that can be found give commands lists of names.
LEMMA SettingsOfProcess ==
  ASSUME TypeOK
  PROVE  /\ IsSettings(settings) /\ commandLine \in Seq(Name)
         /\ \A c \in DOMAIN settings.commands :
              settings.commands[c] \in Seq(Name)
BY ConfigurationAssumption, ZenonT(30)
DEF TypeOK, IsSettings, IsPartialFunction, NonEmptyLists

-----------------------------------------------------------------------------
(* The three ways a step changes the stack, and the steps that are left. *)

LEMMA InitInv == Init => Inv
<1> SUFFICES ASSUME Init PROVE Inv
  OBVIOUS
<1>1. ExecutorTypeOK /\ Ledger
  BY LedgerStarts DEF Init
<1>2. stack = <<>> /\ Len(stack) = 0
  BY DEF Init
<1>3. TypeOK
  <2>1. misused \in BOOLEAN
    BY DEF Init
  <2> QED
    BY <1>1, <2>1 DEF Init, TypeOK
<1>4. CallersWait
  BY <1>2 DEF CallersWait
<1>5. ContextPerCall
  BY <1>2 DEF Init, ExecutorInit, ContextPerCall
<1> QED
  BY <1>1, <1>3, <1>4, <1>5 DEF Inv

LEMMA CallInv ==
  ASSUME Inv, Running, ret = None, ~AtEnd(Top), NEW frame \in Frame, Call(frame)
  PROVE  Inv'
<1>1. Len(stack) \in Nat \ {0} /\ stack \in Seq(Frame)
  BY TopFrame DEF Inv, TypeOK
<1>2. UNCHANGED <<settings, commandLine, contexts, ret, misused>>
  BY DEF Call
<1>3. CASE stack' = Append(stack, frame) /\ UNCHANGED executorState
  <2>1. stack' \in Seq(Frame) /\ Len(stack') = Len(stack) + 1
    BY <1>1, <1>3
  <2>2. \A i \in 1..Len(stack) : stack'[i] = stack[i]
    BY <1>1, <1>3
  <2>3. ExecutorTypeOK' /\ Ledger'
    BY <1>3, LedgerUnchanged DEF Inv, TypeOK
  <2>4. CallersWait'
    <3>1. ASSUME NEW i \in 1..Len(stack') , i < Len(stack') \/ ret' # None
          PROVE  ~AtEnd(stack'[i])
      <4>1. i \in 1..Len(stack)
        BY <1>1, <1>2, <2>1, <3>1
      <4>2. ~AtEnd(stack[i])
        BY <1>1, <4>1 DEF Inv, CallersWait, Top
      <4> QED
        BY <2>2, <4>1, <4>2
    <3> QED
      BY <3>1 DEF CallersWait, AtEnd, Work
  <2>5. TypeOK'
    BY <1>2, <2>1, <2>3 DEF Inv, TypeOK
  <2>6. process' = process /\ process = "running" /\ stack' # <<>>
    BY <1>1, <1>3, <2>1 DEF executorState, Running
  <2>7. ContextPerCall'
    BY <1>2, <2>6 DEF Inv, ContextPerCall
  <2> QED
    BY <2>3, <2>4, <2>5, <2>7 DEF Inv
<1>4. CASE /\ process' = "crashed"
           /\ UNCHANGED <<stack, options, log, lastReturnCode, exitCode>>
  <2>1. ExecutorTypeOK' /\ Ledger'
    BY <1>4, LedgerKept DEF Inv, TypeOK, ExecutorTypeOK, Processes, Running
  <2> QED
    BY <1>2, <1>4, <2>1
    DEF Inv, TypeOK, CallersWait, AtEnd, Work, ContextPerCall, Running
<1> QED
  BY <1>3, <1>4 DEF Call

\* The stack without its top
LEMMA PoppedStack ==
  ASSUME TypeOK, Running, Pop
  PROVE  /\ stack' \in Seq(Frame) /\ Len(stack') = Len(stack) - 1
         /\ \A i \in 1..(Len(stack) - 1) : stack'[i] = stack[i]
<1> DEFINE n == Len(stack) - 1
<1>1. Len(stack) \in Nat \ {0} /\ stack \in Seq(Frame) /\ n \in Nat
  BY TopFrame DEF TypeOK
<1>2. \A i \in 1..n : stack[i] \in Frame
  BY <1>1
<1> HIDE DEF n
<1>3. /\ SubSeq(stack, 1, n) \in Seq(Frame)
      /\ Len(SubSeq(stack, 1, n)) = IF 1 <= n THEN n - 1 + 1 ELSE 0
      /\ \A i \in 1..(n - 1 + 1) : SubSeq(stack, 1, n)[i] = stack[1 + i - 1]
  BY <1>1, <1>2, SubSeqProperties DEF n
<1>4. n - 1 + 1 = n /\ \A i \in 1..n : 1 + i - 1 = i
  BY <1>1
<1>5. /\ SubSeq(stack, 1, n) \in Seq(Frame)
      /\ Len(SubSeq(stack, 1, n)) = n
      /\ \A i \in 1..n : SubSeq(stack, 1, n)[i] = stack[i]
  BY <1>1, <1>3, <1>4
<1> QED
  BY <1>5 DEF Pop, n

LEMMA UnwindInv ==
  ASSUME Inv, Running, NEW result \in {Ok, Failed}, Unwind(result),
         UNCHANGED <<settings, commandLine, contexts, executorState>>,
         misused' \in BOOLEAN
  PROVE  Inv'
<1>1. Len(stack) \in Nat \ {0} /\ stack \in Seq(Frame)
  BY TopFrame DEF Inv, TypeOK
<1>2. Pop /\ ret' = result
  BY DEF Unwind
<1>3. /\ stack' \in Seq(Frame) /\ Len(stack') = Len(stack) - 1
      /\ \A i \in 1..(Len(stack) - 1) : stack'[i] = stack[i]
  BY <1>2, PoppedStack DEF Inv
<1>5. ExecutorTypeOK' /\ Ledger'
  BY LedgerUnchanged DEF Inv, TypeOK
<1>6. CallersWait'
  <2>1. ASSUME NEW i \in 1..Len(stack') PROVE ~AtEnd(stack'[i])
    <3>1. i \in 1..Len(stack) /\ i < Len(stack)
      BY <1>1, <1>3, <2>1
    <3>2. ~AtEnd(stack[i]) /\ stack'[i] = stack[i]
      BY <1>1, <1>3, <3>1 DEF Inv, CallersWait
    <3> QED
      BY <3>2
  <2> QED
    BY <2>1 DEF CallersWait, AtEnd, Work
<1>7. ret' # None /\ ret' \in {None, Ok, Failed}
  BY <1>2 DEF Ok, Failed, None
<1>8. TypeOK'
  BY <1>3, <1>5, <1>7 DEF Inv, TypeOK
<1>9. process' = process /\ process = "running" /\ stack # <<>>
  BY DEF executorState, Running
<1>10. ContextPerCall'
  BY <1>7, <1>9 DEF Inv, ContextPerCall
<1> QED
  BY <1>5, <1>6, <1>8, <1>10 DEF Inv

LEMMA GotoInv ==
  ASSUME Inv, Running, NEW position \in Nat \ {0}, Goto(position), ret' = None,
         UNCHANGED <<settings, commandLine, contexts, misused, executorState>>
  PROVE  Inv'
<1>1. Len(stack) \in Nat \ {0} /\ stack \in Seq(Frame) /\ Top \in Frame
  BY TopFrame DEF Inv, TypeOK
<1> DEFINE moved == [Top EXCEPT !.position = position]
<1>2. stack' = [stack EXCEPT ![Len(stack)] = moved]
  BY DEF Goto, Top
<1>3. moved \in Frame
  BY <1>1, MovedFrame
<1> HIDE DEF moved
<1>4. stack' \in Seq(Frame) /\ Len(stack') = Len(stack)
  BY <1>1, <1>2, <1>3
<1>5. \A i \in 1..(Len(stack) - 1) : stack'[i] = stack[i]
  BY <1>1, <1>2
<1>6. ExecutorTypeOK' /\ Ledger'
  BY LedgerUnchanged DEF Inv, TypeOK
<1>7. CallersWait'
  <2>1. ASSUME NEW i \in 1..Len(stack'), i < Len(stack')
        PROVE  ~AtEnd(stack'[i])
    <3>1. i \in 1..Len(stack) /\ i < Len(stack) /\ stack'[i] = stack[i]
      BY <1>1, <1>4, <1>5, <2>1
    <3> QED
      BY <3>1 DEF Inv, CallersWait
  <2> QED
    BY <2>1 DEF CallersWait, AtEnd, Work
<1>8. TypeOK'
  BY <1>4, <1>6 DEF Inv, TypeOK
<1>9. process' = process /\ process = "running" /\ stack' # <<>>
  BY <1>1, <1>4 DEF executorState, Running
<1>10. ContextPerCall'
  BY <1>9 DEF Inv, ContextPerCall
<1> QED
  BY <1>6, <1>7, <1>8, <1>10 DEF Inv

LEMMA RegisterTaskInv == Inv /\ RegisterTask => Inv'
<1> SUFFICES ASSUME Inv, RegisterTask PROVE Inv'
  OBVIOUS
<1>1. Current(Top) \in Step
  BY TopFrame, FrameCurrent DEF Inv, RegisterTask
<1>2. Current(Top).task \in Task
  BY <1>1 DEF Step
<1>3. /\ ExecutorTypeOK' /\ Ledger'
      /\ process' \in {"running", "exited", "terminated"}
  BY <1>2, LedgerAfterTask DEF Inv, TypeOK, RegisterTask, Running
<1>4. CallersWait'
  <2>1. ASSUME NEW i \in 1..Len(stack) PROVE ~AtEnd(stack[i])
    <3>1. i = Len(stack) \/ i < Len(stack)
      BY TopFrame DEF Inv, RegisterTask
    <3> QED
      BY <3>1 DEF Inv, CallersWait, RegisterTask, Top
  <2> QED
    BY <2>1 DEF RegisterTask, CallersWait, AtEnd, Work
<1> QED
  BY <1>3, <1>4
  DEF Inv, TypeOK, ContextPerCall, RegisterTask, Running, Ok, None

LEMMA StartInv == Inv /\ Start => Inv'
<1> SUFFICES ASSUME Inv, Start PROVE Inv'
  OBVIOUS
<1> DEFINE frame == NewCommandsFrame(commandLine, NoOwner, <<>>)
<1>1. frame \in Frame
  <2>1. commandLine \in Seq(Name) /\ NoOwner \in Name \cup {NoOwner}
    BY SettingsOfProcess DEF Inv
  <2>2. <<>> \in Task
    BY DEF Task
  <2> QED
    BY <2>1, <2>2, NewFrames
<1>2. stack' = <<frame>>
  BY DEF Start
<1> HIDE DEF frame
<1>3. stack' \in Seq(Frame) /\ Len(stack') = 1 /\ stack' # <<>>
  BY <1>1, <1>2
<1>4. ExecutorTypeOK' /\ Ledger'
  BY LedgerKept DEF Inv, TypeOK, ExecutorTypeOK, Processes, Start
<1>5. CallersWait'
  BY <1>3 DEF Inv, ContextPerCall, Start, CallersWait
<1> QED
  BY <1>3, <1>4, <1>5 DEF Inv, TypeOK, ContextPerCall, Start

LEMMA EndInv == Inv /\ (StartWithoutCommands \/ Finish) => Inv'
<1> SUFFICES ASSUME Inv, StartWithoutCommands \/ Finish PROVE Inv'
  OBVIOUS
<1>1. PICK successful \in BOOLEAN : ReturnFromMain(successful)
  BY DEF StartWithoutCommands, Finish, ReturnFromMain
<1>2. ExecutorTypeOK' /\ Ledger'
  BY <1>1, LedgerAfterReturn
  DEF Inv, TypeOK, StartWithoutCommands, Finish, ReturnFromMain
<1>3. process' = "returned"
  BY <1>1 DEF ReturnFromMain
<1>4. stack = <<>> /\ stack' = <<>> /\ Len(stack') = 0
  BY DEF Inv, ContextPerCall, StartWithoutCommands, Finish, ReturnFromMain
<1>5. contexts' \in Nat /\ (commandLine' # <<>> => contexts' = 0)
  BY DEF Inv, ContextPerCall, StartWithoutCommands, Finish, ReturnFromMain
<1>6. UNCHANGED <<settings, commandLine, stack, ret>> /\ misused' \in BOOLEAN
  BY DEF Inv, TypeOK, StartWithoutCommands, Finish, ReturnFromMain
<1> QED
  BY <1>2, <1>3, <1>4, <1>5, <1>6
  DEF Inv, TypeOK, CallersWait, ContextPerCall

LEMMA NextInv == Inv /\ [Next]_vars => Inv'
<1> SUFFICES ASSUME Inv, [Next]_vars PROVE Inv'
  OBVIOUS
<1> USE DEF Ok, Failed, None
<1>1. CASE Start
  BY <1>1, StartInv
<1>2. CASE StartWithoutCommands \/ Finish
  BY <1>2, EndInv
<1>3. CASE ApplyPlugin
  <2>1. Top \in Frame /\ Current(Top) \in Name /\ InitialCommand(Top) \in Name
        /\ Top.task \in Task
    BY <1>3, TopFrame, FrameCurrent, FrameWork DEF Inv, ApplyPlugin
  <2> DEFINE frame == NewPluginFrame(Program(settings, commandLine,
                        Current(Top), InitialCommand(Top), Top.task))
  <2>2. frame \in Frame
    BY <1>3, <2>1, ProgramSteps, NewFrames, SettingsOfProcess
    DEF Inv, ApplyPlugin
  <2> QED
    BY <1>3, <2>2, CallInv DEF ApplyPlugin
<1>4. CASE ApplyCommand
  <2>1. Top \in Frame /\ Current(Top) \in Name /\ Top.task \in Task
    BY <1>4, TopFrame, FrameCurrent, FrameWork DEF Inv, ApplyCommand
  <2>2. settings.commands[Current(Top)] \in Seq(Name)
    BY <1>4, SettingsOfProcess DEF Inv, ApplyCommand
  <2>3. NewCommandsFrame(settings.commands[Current(Top)], Current(Top),
                         Top.task) \in Frame
    BY <2>1, <2>2, NewFrames
  <2> QED
    BY <1>4, <2>3, CallInv DEF ApplyCommand
<1>5. CASE UnknownCommand
  BY <1>5, UnwindInv DEF UnknownCommand
<1>6. CASE RegisterTask
  BY <1>6, RegisterTaskInv
<1>7. CASE ExecuteCommands
  <2>1. Current(Top) \in Step
    BY <1>7, TopFrame, FrameCurrent DEF Inv, ExecuteCommands
  <2>2. NewCommandsFrame(Current(Top).commands, NoOwner, Current(Top).task)
          \in Frame
    BY <2>1, NewFrames DEF Step
  <2> QED
    BY <1>7, <2>2, CallInv DEF ExecuteCommands
<1>8. CASE InputError
  BY <1>8, UnwindInv DEF InputError
<1>9. CASE ReturnTrue
  BY <1>9, UnwindInv DEF ReturnTrue, Inv, TypeOK
<1>10. CASE CalleeSucceeded
  <2>1. Top.position + 1 \in Nat \ {0}
    BY <1>10, TopFrame, FrameWork DEF Inv, CalleeSucceeded
  <2> QED
    BY <1>10, <2>1, GotoInv DEF CalleeSucceeded
<1>11. CASE ReturnFalse
  BY <1>11, UnwindInv DEF ReturnFalse, Inv, TypeOK
<1>12. CASE IgnoreFailure
  <2>1. Top \in Frame /\ ~AtEnd(Top)
    BY <1>12, TopFrame DEF Inv, CallersWait, IgnoreFailure, Top
  <2>2. Current(Top) \in Step /\ Current(Top).otherwise # 0
    BY <1>12, <2>1, FrameCurrent, FrameWork DEF IgnoreFailure, Propagates
  <2>3. Current(Top).otherwise \in Nat \ {0}
    BY <2>2 DEF Step
  <2> QED
    BY <1>12, <2>3, GotoInv DEF IgnoreFailure
<1>13. CASE UNCHANGED vars
  <2>1. ExecutorTypeOK' /\ Ledger'
    BY <1>13, LedgerUnchanged DEF Inv, TypeOK, vars
  <2> QED
    BY <1>13, <2>1
    DEF vars, callVars, executorState, Inv, TypeOK, CallersWait, AtEnd, Work,
        ContextPerCall
<1> QED
  BY <1>1, <1>2, <1>3, <1>4, <1>5, <1>6, <1>7, <1>8, <1>9, <1>10, <1>11,
     <1>12, <1>13 DEF Next

THEOREM Invariance == Spec => []Inv
<1>1. Init => Inv
  BY InitInv
<1>2. Inv /\ [Next]_vars => Inv'
  BY NextInv
<1> QED
  BY <1>1, <1>2, PTL DEF Spec

\* The stack holds nothing but frames, whatever the settings: every program
\* of a plugin consists of steps, and a caller is never returned to at its end.
THEOREM TypeCorrect == Spec => []TypeOK
<1>1. Inv => TypeOK
  BY DEF Inv
<1> QED
  BY <1>1, Invariance, PTL

\* Without keep going the process does not get past a task that failed.
THEOREM FailedTaskIsLast == Spec => []NothingAfterFailedTask
<1>1. Inv => NothingAfterFailedTask
  BY DEF Inv, Ledger, NothingAfterFailedTask
<1> QED
  BY <1>1, Invariance, PTL

\* A context is pushed for as long as there are calls, and released after them.
THEOREM ContextsReleased == Spec => []ContextsMatchCalls
<1>1. Inv => ContextsMatchCalls
  BY DEF Inv, ContextPerCall, ContextsMatchCalls
<1> QED
  BY <1>1, Invariance, PTL

-----------------------------------------------------------------------------
(* What becomes of a failure when no plugin executes targets. *)

NoTargets == \A p \in Plugin : ~RunsTargets(p)

StraightFrame(frame) ==
  frame.kind = "plugin" => frame.program \in Seq(StraightStep)
StraightStack == \A i \in 1..Len(stack) : StraightFrame(stack[i])

\* As long as the process runs, the last result is a failure exactly when
\* something was invoked improperly: no failure is ever dropped on its way.
FailureGoesUp ==
  /\ process = "starting" => misused = FALSE
  /\ process = "running" => misused = (ret = Failed)
  /\ process = "exited" => misused = FALSE
  /\ process = "returned" =>
       exitCode = IF misused THEN ExitFailure ELSE TaskStatus

StraightInv == Inv /\ StraightStack /\ FailureGoesUp

LEMMA StraightCall ==
  ASSUME Inv, StraightStack, Running, NEW frame \in Frame,
         StraightFrame(frame), Call(frame)
  PROVE  StraightStack'
<1>1. Len(stack) \in Nat \ {0} /\ stack \in Seq(Frame)
  BY TopFrame DEF Inv, TypeOK
<1>2. CASE stack' = Append(stack, frame)
  <2>1. Len(stack') = Len(stack) + 1 /\ stack'[Len(stack) + 1] = frame
    BY <1>1, <1>2
  <2>2. \A i \in 1..Len(stack) : stack'[i] = stack[i]
    BY <1>1, <1>2
  <2>3. \A i \in 1..Len(stack') : i \in 1..Len(stack) \/ i = Len(stack) + 1
    BY <1>1, <2>1
  <2> QED
    BY <2>1, <2>2, <2>3 DEF StraightStack, StraightFrame
<1>3. CASE UNCHANGED stack
  BY <1>3 DEF StraightStack, StraightFrame
<1> QED
  BY <1>2, <1>3 DEF Call

LEMMA StraightUnwind ==
  ASSUME Inv, StraightStack, Running, Pop
  PROVE  StraightStack'
<1>1. Len(stack) \in Nat \ {0} /\ stack \in Seq(Frame)
  BY TopFrame DEF Inv, TypeOK
<1> DEFINE n == Len(stack) - 1
<1>2. n \in Nat /\ n < Len(stack)
  BY <1>1
<1>3. \A i \in 1..n : stack[i] \in Frame
  BY <1>1
<1> HIDE DEF n
<1>4. /\ Len(SubSeq(stack, 1, n)) = IF 1 <= n THEN n - 1 + 1 ELSE 0
      /\ \A i \in 1..(n - 1 + 1) : SubSeq(stack, 1, n)[i] = stack[1 + i - 1]
  BY <1>2, <1>3, SubSeqProperties
<1>5. n - 1 + 1 = n /\ \A i \in 1..n : 1 + i - 1 = i
  BY <1>2
<1>6. \A i \in 1..Len(stack') : i \in 1..Len(stack) /\ stack'[i] = stack[i]
  BY <1>1, <1>2, <1>4, <1>5 DEF Pop, n
<1> QED
  BY <1>6 DEF StraightStack, StraightFrame

LEMMA StraightGoto ==
  ASSUME Inv, StraightStack, Running, NEW position, Goto(position)
  PROVE  StraightStack'
<1>1. Len(stack) \in 1..Len(stack) /\ stack \in Seq(Frame) /\ Top \in Frame
  BY TopFrame DEF Inv, TypeOK
<1> DEFINE moved == [Top EXCEPT !.position = position]
<1>2. stack' = [stack EXCEPT ![Len(stack)] = moved]
  BY DEF Goto, Top
<1>3. moved.kind = Top.kind /\ (Top.kind = "plugin" => moved.program = Top.program)
  <2>1. CASE Top \in CommandsFrame
    BY <2>1 DEF CommandsFrame
  <2>2. CASE Top \in PluginFrame
    BY <2>2 DEF PluginFrame
  <2> QED
    BY <1>1, <2>1, <2>2 DEF Frame
<1>4. StraightFrame(Top)
  BY <1>1 DEF StraightStack, Top
<1>5. StraightFrame(moved)
  BY <1>3, <1>4 DEF StraightFrame
<1> HIDE DEF moved
<1>6. Len(stack') = Len(stack) /\ stack'[Len(stack)] = moved
  BY <1>1, <1>2
<1>7. \A i \in 1..Len(stack) : i # Len(stack) => stack'[i] = stack[i]
  BY <1>1, <1>2
<1>8. \A i \in 1..Len(stack) : StraightFrame(stack'[i])
  BY <1>5, <1>6, <1>7 DEF StraightStack
<1> QED
  BY <1>6, <1>8 DEF StraightStack, StraightFrame

LEMMA StraightNext ==
  ASSUME NoTargets, StraightInv, Next
  PROVE  StraightStack'
<1> USE DEF StraightInv
<1>1. CASE ApplyPlugin
  <2>1. Top \in Frame /\ Current(Top) \in Plugin /\ InitialCommand(Top) \in Name
        /\ Top.task \in Task
    BY <1>1, TopFrame, FrameCurrent, FrameWork DEF Inv, ApplyPlugin
  <2> DEFINE program == Program(settings, commandLine, Current(Top),
                                InitialCommand(Top), Top.task)
             frame == NewPluginFrame(program)
  <2>2. program \in Seq(StraightStep) /\ program \in Seq(Step)
    BY <2>1, ProgramSteps, SettingsOfProcess DEF Inv, NoTargets
  <2> HIDE DEF program
  <2>3. frame \in Frame /\ StraightFrame(frame)
    BY <2>2, NewFrames DEF StraightFrame, NewPluginFrame
  <2> QED
    BY <1>1, <2>3, StraightCall DEF ApplyPlugin, program
<1>2. CASE ApplyCommand
  <2> DEFINE frame == NewCommandsFrame(settings.commands[Current(Top)],
                                       Current(Top), Top.task)
  <2>1. Top \in Frame /\ Current(Top) \in Name /\ Top.task \in Task
    BY <1>2, TopFrame, FrameCurrent, FrameWork DEF Inv, ApplyCommand
  <2>2. settings.commands[Current(Top)] \in Seq(Name)
    BY <1>2, SettingsOfProcess DEF Inv, ApplyCommand
  <2>3. frame \in Frame /\ StraightFrame(frame)
    BY <2>1, <2>2, NewFrames DEF StraightFrame, NewCommandsFrame
  <2> QED
    BY <1>2, <2>3, StraightCall DEF ApplyCommand
<1>3. CASE ExecuteCommands
  <2> DEFINE frame == NewCommandsFrame(Current(Top).commands, NoOwner,
                                       Current(Top).task)
  <2>1. Current(Top) \in Step
    BY <1>3, TopFrame, FrameCurrent DEF Inv, ExecuteCommands
  <2>2. frame \in Frame /\ StraightFrame(frame)
    BY <2>1, NewFrames DEF Step, StraightFrame, NewCommandsFrame
  <2> QED
    BY <1>3, <2>2, StraightCall DEF ExecuteCommands
<1>4. CASE UnknownCommand \/ InputError \/ ReturnTrue \/ ReturnFalse
  BY <1>4, StraightUnwind
  DEF UnknownCommand, InputError, ReturnTrue, ReturnFalse, Unwind
<1>5. CASE CalleeSucceeded \/ IgnoreFailure
  BY <1>5, StraightGoto DEF CalleeSucceeded, IgnoreFailure
<1>6. CASE Start
  <2>1. stack' = <<NewCommandsFrame(commandLine, NoOwner, <<>>)>>
    BY <1>6 DEF Start
  <2> DEFINE frame == NewCommandsFrame(commandLine, NoOwner, <<>>)
  <2>2. StraightFrame(frame)
    BY DEF StraightFrame, NewCommandsFrame
  <2> HIDE DEF frame
  <2>3. Len(stack') = 1 /\ stack'[1] = frame
    BY <2>1 DEF frame
  <2>4. \A i \in 1..Len(stack') : stack'[i] = frame
    BY <2>3
  <2> QED
    BY <2>2, <2>4 DEF StraightStack, StraightFrame
<1>7. CASE StartWithoutCommands \/ RegisterTask \/ Finish
  BY <1>7 DEF StartWithoutCommands, RegisterTask, Finish, ReturnFromMain,
              StraightStack, StraightFrame
<1> QED
  BY <1>1, <1>2, <1>3, <1>4, <1>5, <1>6, <1>7 DEF Next

LEMMA FailureGoesUpNext ==
  ASSUME NoTargets, StraightInv, Next
  PROVE  FailureGoesUp'
<1> USE DEF StraightInv, Ok, Failed, None
<1>1. CASE Start
  BY <1>1 DEF Start, Inv, ContextPerCall, FailureGoesUp
<1>2. CASE StartWithoutCommands
  BY <1>2 DEF StartWithoutCommands, ReturnFromMain, FailureGoesUp
<1>3. CASE ApplyPlugin \/ ApplyCommand \/ ExecuteCommands
  <2>1. /\ UNCHANGED <<ret, misused>> /\ process = "running"
        /\ process' \in {"running", "crashed"}
    BY <1>3
    DEF ApplyPlugin, ApplyCommand, ExecuteCommands, Call, Running, executorState
  <2> QED
    BY <2>1 DEF FailureGoesUp
<1>4. CASE UnknownCommand \/ InputError
  <2>1. /\ misused' = TRUE /\ ret' = Failed
        /\ process' = process /\ process = "running"
    BY <1>4
    DEF UnknownCommand, InputError, Unwind, Running, executorState
  <2> QED
    BY <2>1 DEF FailureGoesUp
<1>5. CASE RegisterTask
  <2>1. Current(Top).task \in Task
    BY <1>5, TopFrame, FrameCurrent DEF Inv, RegisterTask, Step
  <2>2. process' \in {"running", "exited", "terminated"}
    BY <1>5, <2>1, LedgerAfterTask DEF Inv, TypeOK, RegisterTask, Running
  <2>3. misused = FALSE /\ misused' = misused /\ ret' = Ok
    BY <1>5 DEF FailureGoesUp, RegisterTask, Running
  <2> QED
    BY <2>2, <2>3 DEF FailureGoesUp
<1>6. CASE ReturnTrue \/ CalleeSucceeded \/ ReturnFalse
  <2>1. /\ (ret' = Failed) = (ret = Failed) /\ misused' = misused
        /\ process' = process /\ process = "running"
    BY <1>6
    DEF ReturnTrue, CalleeSucceeded, ReturnFalse, Unwind, Running, executorState
  <2> QED
    BY <2>1 DEF FailureGoesUp
<1>7. CASE IgnoreFailure
  <2>1. Top \in Frame /\ ~AtEnd(Top) /\ StraightFrame(Top)
    BY <1>7, TopFrame
    DEF Inv, CallersWait, IgnoreFailure, Top, StraightStack
  <2>2. Top.position \in 1..Len(Work(Top))
    BY <2>1, FrameWork DEF AtEnd
  <2>3. Top.kind = "plugin" /\ Current(Top).otherwise # 0
    BY <1>7, <2>1, FrameWork DEF IgnoreFailure, Propagates
  <2>4. Current(Top) \in StraightStep
    BY <2>1, <2>2, <2>3, FrameWork DEF StraightFrame, Current
  <2> QED
    BY <2>3, <2>4 DEF StraightStep
<1>8. CASE Finish
  <2>1. /\ process = "running" /\ misused = (ret = Failed)
        /\ ret \in {Ok, Failed} /\ misused' = misused /\ process' = "returned"
    BY <1>8
    DEF Finish, ReturnFromMain, FailureGoesUp, Inv, TypeOK, ContextPerCall
  <2>2. ReturnFromMain(ret = Ok)
    BY <1>8 DEF Finish
  <2>3. PICK successful \in BOOLEAN :
          successful = (ret = Ok) /\ ReturnFromMain(successful)
    BY <2>2 DEF ReturnFromMain
  <2>4. exitCode' = IF successful THEN TaskStatus' ELSE ExitFailure
    BY <2>1, <2>3, LedgerAfterReturn DEF Inv, TypeOK
  <2> QED
    BY <2>1, <2>3, <2>4 DEF FailureGoesUp
<1> QED
  BY <1>1, <1>2, <1>3, <1>4, <1>5, <1>6, <1>7, <1>8 DEF Next

LEMMA StraightInvStep ==
  ASSUME NoTargets
  PROVE  StraightInv /\ [Next]_vars => StraightInv'
<1> SUFFICES ASSUME StraightInv, [Next]_vars PROVE StraightInv'
  OBVIOUS
<1>1. Inv'
  BY NextInv DEF StraightInv
<1>2. CASE Next
  BY <1>1, <1>2, StraightNext, FailureGoesUpNext DEF StraightInv
<1>3. CASE UNCHANGED vars
  <2>1. TaskStatus' = TaskStatus
    BY <1>3, LedgerUnchanged DEF StraightInv, Inv, TypeOK, vars
  <2> QED
    BY <1>1, <1>3, <2>1
    DEF vars, callVars, executorState, StraightInv, StraightStack,
        StraightFrame, FailureGoesUp
<1> QED
  BY <1>2, <1>3

LEMMA StraightInvInit == Init => StraightInv
<1> SUFFICES ASSUME Init PROVE StraightInv
  OBVIOUS
<1>1. StraightStack
  BY DEF Init, StraightStack
<1>2. FailureGoesUp
  BY DEF Init, ExecutorInit, FailureGoesUp
<1> QED
  BY <1>1, <1>2, InitInv DEF StraightInv

\* Without plugins that execute targets, the exit status is the documented
\* one, however deep commands and plugins are nested.
THEOREM ExitStatusHolds ==
  ASSUME NoTargets
  PROVE  Spec => []ExitStatus
<1>1. Init => StraightInv
  BY StraightInvInit
<1>2. StraightInv /\ [Next]_vars => StraightInv'
  BY StraightInvStep
<1>3. StraightInv => ExitStatus
  BY StatusAfterExit DEF StraightInv, Inv, TypeOK, FailureGoesUp, ExitStatus
<1> QED
  BY <1>1, <1>2, <1>3, PTL DEF Spec

\* Without them, nothing is executed after an improper invocation either.
THEOREM MisuseIsTheEnd ==
  ASSUME NoTargets
  PROVE  Spec => NothingAfterMisuse
<1>1. Init => StraightInv
  BY StraightInvInit
<1>2. StraightInv /\ [Next]_vars => StraightInv'
  BY StraightInvStep
<1>3. StraightInv /\ [Next]_vars => [misused => UNCHANGED log]_vars
  <2> SUFFICES ASSUME StraightInv, Next, misused PROVE UNCHANGED log
    OBVIOUS
  <2>1. CASE RegisterTask
    BY <2>1 DEF StraightInv, FailureGoesUp, RegisterTask, Running, None, Failed
  <2>2. CASE ~RegisterTask
    BY <2>2
    DEF Next, Start, StartWithoutCommands, ApplyPlugin, ApplyCommand,
        UnknownCommand, ExecuteCommands, InputError, ReturnTrue,
        CalleeSucceeded, ReturnFalse, IgnoreFailure, Finish, Call,
        ReturnFromMain, executorState
  <2> QED
    BY <2>1, <2>2
<1> QED
  BY <1>1, <1>2, <1>3, PTL DEF Spec, NothingAfterMisuse

-----------------------------------------------------------------------------
(* How deep commands and plugins are nested. *)

\* The frames applying a name takes: one of its own, and those of what it leads
\* to; the commands a plugin executes have a frame together.
IsHeight(height, s, line) ==
  /\ height \in [Name -> Nat]
  /\ \A c \in DOMAIN s.commands \ Plugin :
       /\ height[c] >= 1
       /\ \A i \in DOMAIN s.commands[c] : height[c] >= 1 + height[s.commands[c][i]]
  /\ \A p \in Plugin : height[p] >= 1
  /\ \A p \in Plugin, c \in Name, task \in Task :
       LET program == Program(s, line, p, c, task)
       IN \A j \in DOMAIN program : program[j].op = "execute" =>
            /\ height[p] >= 2
            /\ \A i \in DOMAIN program[j].commands :
                 height[p] >= 2 + height[program[j].commands[i]]

\* There is room for all that a list of commands at a depth leads to.
HasRoom(height, commands, depth) ==
  \A i \in DOMAIN commands : depth + height[commands[i]] <= MaxDepth

FrameFits(height, frame, depth) ==
  /\ frame.kind = "commands" => HasRoom(height, frame.commands, depth)
  /\ frame.kind = "plugin" =>
       \A j \in DOMAIN frame.program : frame.program[j].op = "execute" =>
         /\ depth + 1 <= MaxDepth
         /\ HasRoom(height, frame.program[j].commands, depth + 1)

StackFits(height) ==
  \A i \in 1..Len(stack) : FrameFits(height, stack[i], i)

DepthInv(height) ==
  /\ Inv /\ IsHeight(height, settings, commandLine)
  /\ HasRoom(height, commandLine, 1) /\ StackFits(height)
  /\ NoStackOverflow

LEMMA FitsAfterCall ==
  ASSUME NEW height, Inv, StackFits(height), Running, NEW frame \in Frame,
         FrameFits(height, frame, Len(stack) + 1), Len(stack) + 1 <= MaxDepth,
         Call(frame)
  PROVE  StackFits(height)' /\ process' = process
<1>1. Len(stack) \in Nat \ {0} /\ stack \in Seq(Frame)
  BY TopFrame DEF Inv, TypeOK
<1>2. Len(stack) # MaxDepth
  BY <1>1, ConfigurationAssumption
<1>3. stack' = Append(stack, frame) /\ process' = process
  BY <1>2 DEF Call, executorState
<1>4. Len(stack') = Len(stack) + 1 /\ stack'[Len(stack) + 1] = frame
  BY <1>1, <1>3
<1>5. \A i \in 1..Len(stack) : stack'[i] = stack[i]
  BY <1>1, <1>3
<1>6. \A i \in 1..Len(stack') : i \in 1..Len(stack) \/ i = Len(stack) + 1
  BY <1>1, <1>4
<1>7. \A i \in 1..Len(stack') : FrameFits(height, stack'[i], i)
  BY <1>4, <1>5, <1>6 DEF StackFits
<1> QED
  BY <1>3, <1>7 DEF StackFits, FrameFits, HasRoom

LEMMA FitsAfterReturn ==
  ASSUME NEW height, Inv, StackFits(height), Running, Pop
  PROVE  StackFits(height)'
<1>1. Len(stack) \in Nat \ {0} /\ stack \in Seq(Frame)
  BY TopFrame DEF Inv, TypeOK
<1> DEFINE n == Len(stack) - 1
<1>2. n \in Nat /\ n < Len(stack)
  BY <1>1
<1>3. \A i \in 1..n : stack[i] \in Frame
  BY <1>1
<1> HIDE DEF n
<1>4. /\ Len(SubSeq(stack, 1, n)) = IF 1 <= n THEN n - 1 + 1 ELSE 0
      /\ \A i \in 1..(n - 1 + 1) : SubSeq(stack, 1, n)[i] = stack[1 + i - 1]
  BY <1>2, <1>3, SubSeqProperties
<1>5. n - 1 + 1 = n /\ \A i \in 1..n : 1 + i - 1 = i
  BY <1>2
<1>6. \A i \in 1..Len(stack') : i \in 1..Len(stack) /\ stack'[i] = stack[i]
  BY <1>1, <1>2, <1>4, <1>5 DEF Pop, n
<1>7. \A i \in 1..Len(stack') : FrameFits(height, stack'[i], i)
  BY <1>6 DEF StackFits
<1> QED
  BY <1>7 DEF StackFits, FrameFits, HasRoom

LEMMA FitsAfterGoto ==
  ASSUME NEW height, Inv, StackFits(height), Running, NEW position, Goto(position)
  PROVE  StackFits(height)'
<1>1. Len(stack) \in 1..Len(stack) /\ stack \in Seq(Frame) /\ Top \in Frame
  BY TopFrame DEF Inv, TypeOK
<1> DEFINE moved == [Top EXCEPT !.position = position]
<1>2. stack' = [stack EXCEPT ![Len(stack)] = moved]
  BY DEF Goto, Top
<1>3. /\ moved.kind = Top.kind
      /\ Top.kind = "plugin" => moved.program = Top.program
      /\ Top.kind = "commands" => moved.commands = Top.commands
  <2>1. CASE Top \in CommandsFrame
    BY <2>1 DEF CommandsFrame
  <2>2. CASE Top \in PluginFrame
    BY <2>2 DEF PluginFrame
  <2> QED
    BY <1>1, <2>1, <2>2 DEF Frame
<1>4. FrameFits(height, Top, Len(stack))
  BY <1>1 DEF StackFits, Top
<1>5. FrameFits(height, moved, Len(stack))
  BY <1>3, <1>4 DEF FrameFits
<1> HIDE DEF moved
<1>6. Len(stack') = Len(stack) /\ stack'[Len(stack)] = moved
  BY <1>1, <1>2
<1>7. \A i \in 1..Len(stack) : i # Len(stack) => stack'[i] = stack[i]
  BY <1>1, <1>2
<1>8. \A i \in 1..Len(stack') : FrameFits(height, stack'[i], i)
  BY <1>5, <1>6, <1>7 DEF StackFits
<1> QED
  BY <1>8 DEF StackFits, FrameFits, HasRoom

\* What is left of the room when a name is applied.
LEMMA RoomLeft ==
  ASSUME NEW depth \in Nat, NEW h \in Nat, depth + h <= MaxDepth
  PROVE  /\ h >= 1 => depth + 1 <= MaxDepth
         /\ h >= 2 => (depth + 1) + 1 <= MaxDepth
         /\ \A k \in Nat : h >= 1 + k => (depth + 1) + k <= MaxDepth
         /\ \A k \in Nat : h >= 2 + k => ((depth + 1) + 1) + k <= MaxDepth
BY ConfigurationAssumption

LEMMA DepthNext ==
  ASSUME NEW height, DepthInv(height), Next
  PROVE  StackFits(height)' /\ NoStackOverflow'
<1> USE DEF DepthInv
<1> DEFINE depth == Len(stack)
<1>a. ASSUME Running
      PROVE  /\ depth \in Nat /\ Top \in Frame /\ FrameFits(height, Top, depth)
             /\ process = "running"
  <2>1. depth \in 1..depth /\ Top \in Frame /\ depth \in Nat
    BY <1>a, TopFrame DEF Inv, TypeOK
  <2> QED
    BY <1>a, <2>1 DEF StackFits, Top, Running
<1>b. ASSUME Running, Top.kind = "commands", ~AtEnd(Top)
      PROVE  /\ Current(Top) \in Name /\ height[Current(Top)] \in Nat
             /\ depth + height[Current(Top)] <= MaxDepth
  <2>1. Current(Top) \in Name
    BY <1>a, <1>b, FrameCurrent
  <2>2. Top.position \in DOMAIN Top.commands /\ Work(Top) = Top.commands
    BY <1>a, <1>b, FrameWork DEF AtEnd
  <2>3. depth + height[Current(Top)] <= MaxDepth
    BY <1>a, <1>b, <2>2 DEF FrameFits, HasRoom, Current
  <2> QED
    BY <2>1, <2>3 DEF IsHeight
<1> HIDE DEF depth
<1>1. CASE ApplyPlugin
  <2>1. Running /\ Top.kind = "commands" /\ ~AtEnd(Top)
    BY <1>1 DEF ApplyPlugin
  <2>2. Current(Top) \in Plugin /\ InitialCommand(Top) \in Name /\ Top.task \in Task
    BY <1>1, <1>a, <2>1, FrameCurrent, FrameWork DEF ApplyPlugin
  <2> DEFINE program == Program(settings, commandLine, Current(Top),
                                InitialCommand(Top), Top.task)
             frame == NewPluginFrame(program)
             h == height[Current(Top)]
  <2>3. program \in Seq(Step)
    BY <2>2, ProgramSteps, SettingsOfProcess DEF Inv
  <2>4. /\ h >= 1
        /\ \A j \in DOMAIN program : program[j].op = "execute" =>
             /\ h >= 2
             /\ \A i \in DOMAIN program[j].commands :
                  h >= 2 + height[program[j].commands[i]]
    <3>1. \A p \in Plugin, c \in Name, task \in Task :
            LET q == Program(settings, commandLine, p, c, task)
            IN \A j \in DOMAIN q : q[j].op = "execute" =>
                 /\ height[p] >= 2
                 /\ \A i \in DOMAIN q[j].commands :
                      height[p] >= 2 + height[q[j].commands[i]]
      BY DEF IsHeight
    <3>2. h >= 1
      BY <2>2 DEF IsHeight
    <3> QED
      BY <2>2, <3>1, <3>2, Zenon
  <2>5. \A j \in DOMAIN program : \A i \in DOMAIN program[j].commands :
          height[program[j].commands[i]] \in Nat
    <3>1. height \in [Name -> Nat]
      BY DEF IsHeight
    <3>2. \A step \in Step : step.commands \in Seq(Name)
      BY DEF Step
    <3> HIDE DEF program, DepthInv
    <3>3. \A j \in DOMAIN program : program[j] \in Step
      BY <2>3
    <3>4. \A j \in DOMAIN program : \A i \in DOMAIN program[j].commands :
            program[j].commands[i] \in Name
      BY <3>2, <3>3
    <3> QED
      BY <3>1, <3>4
  <2> HIDE DEF program, h
  <2>6. depth \in Nat /\ h \in Nat /\ depth + h <= MaxDepth
    BY <1>a, <1>b, <2>1 DEF h
  <2>7. depth + 1 <= MaxDepth
    BY <2>4, <2>6, RoomLeft
  <2>8. FrameFits(height, frame, depth + 1)
    <3>1. frame.kind = "plugin" /\ frame.program = program
      BY DEF NewPluginFrame
    <3> HIDE DEF frame
    <3>2. \A j \in DOMAIN program : program[j].op = "execute" =>
            /\ (depth + 1) + 1 <= MaxDepth
            /\ HasRoom(height, program[j].commands, (depth + 1) + 1)
      BY <2>4, <2>5, <2>6, RoomLeft DEF HasRoom
    <3> QED
      BY <3>1, <3>2 DEF FrameFits
  <2>9. frame \in Frame
    BY <2>3, NewFrames
  <2>10. Call(frame)
    BY <1>1 DEF ApplyPlugin, program
  <2> HIDE DEF frame
  <2> QED
    BY <2>1, <2>7, <2>8, <2>9, <2>10, FitsAfterCall DEF NoStackOverflow, depth
<1>2. CASE ApplyCommand
  <2>1. Running /\ Top.kind = "commands" /\ ~AtEnd(Top)
    BY <1>2 DEF ApplyCommand
  <2> DEFINE commands == settings.commands[Current(Top)]
             frame == NewCommandsFrame(commands, Current(Top), Top.task)
             h == height[Current(Top)]
  <2>2. Current(Top) \in Name /\ Top.task \in Task
    BY <1>a, <2>1, FrameCurrent, FrameWork
  <2>3. commands \in Seq(Name)
    BY <1>2, SettingsOfProcess DEF Inv, ApplyCommand
  <2>4. h >= 1 /\ \A i \in DOMAIN commands : h >= 1 + height[commands[i]]
    BY <1>2 DEF IsHeight, ApplyCommand
  <2>5. \A i \in DOMAIN commands : height[commands[i]] \in Nat
    BY <2>3 DEF IsHeight
  <2> HIDE DEF commands, h
  <2>6. depth \in Nat /\ h \in Nat /\ depth + h <= MaxDepth
    BY <1>a, <1>b, <2>1 DEF h
  <2>7. depth + 1 <= MaxDepth /\ HasRoom(height, commands, depth + 1)
    BY <2>4, <2>5, <2>6, RoomLeft DEF HasRoom
  <2>8. FrameFits(height, frame, depth + 1)
    BY <2>7 DEF FrameFits, NewCommandsFrame
  <2>9. frame \in Frame
    BY <2>2, <2>3, NewFrames
  <2>10. Call(frame)
    BY <1>2 DEF ApplyCommand, commands
  <2> HIDE DEF frame
  <2> QED
    BY <2>1, <2>7, <2>8, <2>9, <2>10, FitsAfterCall DEF NoStackOverflow, depth
<1>3. CASE ExecuteCommands
  <2>1. Running /\ Top.kind = "plugin" /\ ~AtEnd(Top) /\ Current(Top).op = "execute"
    BY <1>3 DEF ExecuteCommands
  <2> DEFINE frame == NewCommandsFrame(Current(Top).commands, NoOwner,
                                       Current(Top).task)
  <2>2. Current(Top) \in Step
    BY <1>a, <2>1, FrameCurrent
  <2>3. Top.position \in DOMAIN Top.program /\ Current(Top) = Top.program[Top.position]
    BY <1>a, <2>1, FrameWork DEF AtEnd, Current
  <2>4. /\ depth + 1 <= MaxDepth
        /\ HasRoom(height, Current(Top).commands, depth + 1)
    BY <1>a, <2>1, <2>3 DEF FrameFits
  <2>5. FrameFits(height, frame, depth + 1)
    BY <2>4 DEF FrameFits, NewCommandsFrame
  <2>6. frame \in Frame
    BY <2>2, NewFrames DEF Step
  <2>7. Call(frame)
    BY <1>3 DEF ExecuteCommands
  <2> HIDE DEF frame
  <2> QED
    BY <2>1, <2>4, <2>5, <2>6, <2>7, FitsAfterCall DEF NoStackOverflow, depth
<1>4. CASE UnknownCommand \/ InputError \/ ReturnTrue \/ ReturnFalse
  <2>1. Running /\ Pop /\ process' = process
    BY <1>4 DEF UnknownCommand, InputError, ReturnTrue, ReturnFalse, Unwind,
                executorState
  <2> QED
    BY <2>1, FitsAfterReturn DEF NoStackOverflow
<1>5. CASE CalleeSucceeded \/ IgnoreFailure
  <2>1. Running /\ process' = process /\ \E position : Goto(position)
    BY <1>5 DEF CalleeSucceeded, IgnoreFailure, executorState
  <2> QED
    BY <2>1, FitsAfterGoto DEF NoStackOverflow
<1>6. CASE Start
  <2> DEFINE frame == NewCommandsFrame(commandLine, NoOwner, <<>>)
  <2>1. stack' = <<frame>> /\ process' = "running"
    BY <1>6 DEF Start
  <2>2. FrameFits(height, frame, 1)
    BY DEF FrameFits, NewCommandsFrame
  <2> HIDE DEF frame
  <2>3. Len(stack') = 1 /\ stack'[1] = frame
    BY <2>1
  <2>4. \A i \in 1..Len(stack') : FrameFits(height, stack'[i], i)
    BY <2>2, <2>3
  <2> QED
    BY <2>1, <2>4 DEF StackFits, FrameFits, HasRoom, NoStackOverflow
<1>7. CASE RegisterTask
  <2>1. Current(Top).task \in Task
    BY <1>7, TopFrame, FrameCurrent DEF Inv, RegisterTask, Step
  <2>2. process' \in {"running", "exited", "terminated"}
    BY <1>7, <2>1, LedgerAfterTask DEF Inv, TypeOK, RegisterTask, Running
  <2>3. UNCHANGED stack
    BY <1>7 DEF RegisterTask
  <2> QED
    BY <2>2, <2>3 DEF StackFits, FrameFits, HasRoom, NoStackOverflow
<1>8. CASE StartWithoutCommands \/ Finish
  BY <1>8 DEF StartWithoutCommands, Finish, ReturnFromMain, StackFits,
              FrameFits, HasRoom, NoStackOverflow
<1> QED
  BY <1>1, <1>2, <1>3, <1>4, <1>5, <1>6, <1>7, <1>8 DEF Next

LEMMA DepthInvStep ==
  ASSUME NEW height, DepthInv(height), [Next]_vars
  PROVE  DepthInv(height)'
<1>1. Inv'
  BY NextInv DEF DepthInv
<1>2. UNCHANGED <<settings, commandLine>>
  BY DEF Next, Start, StartWithoutCommands, ApplyPlugin, ApplyCommand,
         UnknownCommand, RegisterTask, ExecuteCommands, InputError, ReturnTrue,
         CalleeSucceeded, ReturnFalse, IgnoreFailure, Finish, Call, vars
<1>3. StackFits(height)' /\ NoStackOverflow'
  <2>1. CASE Next
    BY <2>1, DepthNext
  <2>2. CASE UNCHANGED vars
    BY <2>2 DEF vars, callVars, executorState, DepthInv, StackFits, FrameFits,
                HasRoom, NoStackOverflow
  <2> QED
    BY <2>1, <2>2
<1> QED
  BY <1>1, <1>2, <1>3 DEF DepthInv, IsHeight, HasRoom

\* Commands and plugins that do not lead back to themselves, so that each name
\* has a height, never exhaust a stack that is as high as they need.
THEOREM StackSuffices ==
  ASSUME \A s \in Configurations : \A line \in CommandLines : \E height :
           IsHeight(height, s, line) /\ HasRoom(height, line, 1)
  PROVE  Spec => []NoStackOverflow
<1>1. Init => \E height : DepthInv(height)
  <2> SUFFICES ASSUME Init PROVE \E height : DepthInv(height)
    OBVIOUS
  <2>1. PICK height : /\ IsHeight(height, settings, commandLine)
                      /\ HasRoom(height, commandLine, 1)
    BY DEF Init
  <2>2. StackFits(height) /\ NoStackOverflow
    BY DEF Init, ExecutorInit, StackFits, NoStackOverflow
  <2> QED
    BY <2>1, <2>2, InitInv DEF DepthInv
<1>2. (\E height : DepthInv(height)) /\ [Next]_vars => (\E height : DepthInv(height))'
  BY DepthInvStep
<1>3. (\E height : DepthInv(height)) => NoStackOverflow
  BY DEF DepthInv
<1> QED
  BY <1>1, <1>2, <1>3, PTL DEF Spec

-----------------------------------------------------------------------------
(* Items in turn *)

\* The tasks of the items before position p, when all of them succeed
Before(items, result, p) ==
  FlattenSeq([i \in 1..(p - 1) |-> result[items[i]].tasks])
Succeeded(items, result, p) == \A i \in 1..(p - 1) : result[items[i]].ok

ResultsOf(S) == [tasks : Seq(S), ok : BOOLEAN]

LEMMA BeforeType ==
  ASSUME NEW I, NEW S, NEW items \in Seq(I), NEW result \in [I -> ResultsOf(S)],
         NEW p \in 1..(Len(items) + 1)
  PROVE  /\ [i \in 1..(p - 1) |-> result[items[i]].tasks] \in Seq(Seq(S))
         /\ Before(items, result, p) \in Seq(S)
<1> DEFINE Texts == Seq(S)
           each == [i \in 1..(p - 1) |-> result[items[i]].tasks]
<1>1. \A i \in 1..(p - 1) : result[items[i]].tasks \in Texts
  <2> TAKE i \in 1..(p - 1)
  <2>1. items[i] \in I
    OBVIOUS
  <2>2. result[items[i]] \in ResultsOf(S)
    BY <2>1
  <2> QED
    BY <2>2 DEF ResultsOf
<1>2. p - 1 \in Nat
  OBVIOUS
<1>3. each \in Seq(Texts)
  <2> HIDE DEF Texts
  <2> QED
    BY <1>1, <1>2
<1> HIDE DEF each
<1>4. FlattenSeq(each) \in Seq(S)
  BY <1>3, FlattenType
<1> QED
  BY <1>3, <1>4 DEF Before, each

\* Before the first item there is nothing; after one there are its tasks.
LEMMA BeforeFirst ==
  ASSUME NEW items, NEW result
  PROVE  Before(items, result, 1) = <<>> /\ Succeeded(items, result, 1)
<1>1. [i \in 1..(1 - 1) |-> result[items[i]].tasks] = <<>>
  OBVIOUS
<1> QED
  BY <1>1, FlattenEmpty DEF Before, Succeeded

LEMMA BeforeNext ==
  ASSUME NEW I, NEW S, NEW items \in Seq(I), NEW result \in [I -> ResultsOf(S)],
         NEW p \in 1..Len(items)
  PROVE  /\ Joins(Before(items, result, p + 1), Before(items, result, p),
                  result[items[p]].tasks)
         /\ Succeeded(items, result, p + 1)
              <=> Succeeded(items, result, p) /\ result[items[p]].ok
<1> DEFINE Texts == Seq(S)
           each == [i \in 1..(p - 1) |-> result[items[i]].tasks]
           more == [i \in 1..((p + 1) - 1) |-> result[items[i]].tasks]
           last == result[items[p]].tasks
<1>1. p \in 1..(Len(items) + 1) /\ p - 1 \in Nat /\ (p + 1) - 1 = p
  OBVIOUS
<1>2. each \in Seq(Seq(S))
  BY <1>1, BeforeType
<1>3. last \in Seq(S)
  <2>1. items[p] \in I
    OBVIOUS
  <2>2. result[items[p]] \in ResultsOf(S)
    BY <2>1
  <2> QED
    BY <2>2 DEF ResultsOf
<1>4. more = Append(each, last)
  <2>1. Len(each) = p - 1 /\ \A i \in 1..(p - 1) : each[i] = result[items[i]].tasks
    BY <1>1
  <2> HIDE DEF each
  <2>2. each \in Seq(Texts) /\ last \in Texts
    BY <1>2, <1>3
  <2> HIDE DEF Texts
  <2>3. /\ Append(each, last) \in Seq(Texts) /\ Len(Append(each, last)) = p
        /\ \A i \in 1..(p - 1) : Append(each, last)[i] = each[i]
        /\ Append(each, last)[p] = last
    BY <1>1, <2>1, <2>2
  <2>4. \A i \in 1..p : Append(each, last)[i] = more[i]
    <3> TAKE i \in 1..p
    <3>1. i \in 1..(p - 1) \/ i = p
      OBVIOUS
    <3> QED
      BY <1>1, <2>1, <2>3, <3>1
  <2>5. DOMAIN Append(each, last) = 1..p /\ DOMAIN more = 1..p
    BY <1>1, <2>3
  <2> HIDE DEF more
  <2>6. more = [i \in 1..p |-> more[i]]
    BY <1>1 DEF more
  <2> QED
    BY <2>3, <2>4, <2>5, <2>6
<1> HIDE DEF each, more, last
<1>5. FlattenSeq(Append(each, last)) = FlattenSeq(each) \o last
  BY <1>2, <1>3, FlattenAppend
<1>6. Joins(Before(items, result, p + 1), Before(items, result, p), last)
  <2>1. Before(items, result, p + 1) = FlattenSeq(more)
    BY Zenon DEF Before, more
  <2>2. Before(items, result, p) = FlattenSeq(each)
    BY Zenon DEF Before, each
  <2> QED
    BY <1>4, <1>5, <2>1, <2>2, Zenon DEF Joins
<1>7. \A i \in 1..((p + 1) - 1) : i \in 1..(p - 1) \/ i = p
  OBVIOUS
<1>8. p \in 1..((p + 1) - 1) /\ \A i \in 1..(p - 1) : i \in 1..((p + 1) - 1)
  OBVIOUS
<1> QED
  BY <1>6, <1>7, <1>8 DEF last, Succeeded

\* A list occurs in another after the first n elements.
Occurs(part, whole, n) ==
  /\ n + Len(part) <= Len(whole)
  /\ \A k \in 1..Len(part) : whole[n + k] = part[k]

LEMMA JoinedOccur ==
  ASSUME NEW S, NEW a \in Seq(S), NEW b \in Seq(S), NEW both, Joins(both, a, b)
  PROVE  /\ both \in Seq(S) /\ Len(both) = Len(a) + Len(b)
         /\ Occurs(a, both, 0) /\ Occurs(b, both, Len(a))
BY DEF Joins, Occurs

LEMMA OccursWithin ==
  ASSUME NEW a, NEW b, NEW c, NEW n \in Nat, NEW m \in Nat,
         Len(a) \in Nat, Len(b) \in Nat, Len(c) \in Nat,
         Occurs(a, b, n), Occurs(b, c, m)
  PROVE  Occurs(a, c, m + n)
<1>1. (m + n) + Len(a) <= Len(c)
  BY DEF Occurs
<1>2. ASSUME NEW k \in 1..Len(a)
      PROVE  c[(m + n) + k] = a[k]
  <2>1. n + k \in 1..Len(b) /\ m + (n + k) = (m + n) + k
    BY DEF Occurs
  <2>2. c[m + (n + k)] = b[n + k] /\ b[n + k] = a[k]
    BY <2>1 DEF Occurs
  <2> QED
    BY <2>1, <2>2
<1> QED
  BY <1>1, <1>2 DEF Occurs

LEMMA BeforeGrows ==
  ASSUME NEW I, NEW S, NEW items \in Seq(I), NEW result \in [I -> ResultsOf(S)],
         NEW p \in 1..(Len(items) + 1), NEW q \in p..(Len(items) + 1)
  PROVE  Occurs(Before(items, result, p), Before(items, result, q), 0)
<1> DEFINE N == Len(items) + 1 - p
           T == {n \in 0..N :
                  Occurs(Before(items, result, p), Before(items, result, p + n), 0)}
<1>1. N \in Nat /\ p \in Nat /\ Len(items) \in Nat
  OBVIOUS
<1>2. \A n \in 0..N : p + n \in 1..(Len(items) + 1)
  OBVIOUS
<1>3. \A n \in 0..N : Before(items, result, p + n) \in Seq(S)
  BY <1>2, BeforeType
<1>4. 0 \in T
  <2>1. p + 0 = p /\ Before(items, result, p) \in Seq(S)
    BY BeforeType
  <2> QED
    BY <1>1, <2>1 DEF Occurs
<1>5. \A n \in 0..(N - 1) : n \in T => n + 1 \in T
  <2> SUFFICES ASSUME NEW n \in 0..(N - 1), n \in T
               PROVE  n + 1 \in T
    OBVIOUS
  <2>1. p + n \in 1..Len(items) /\ (p + n) + 1 = p + (n + 1) /\ n \in 0..N /\ n + 1 \in 0..N
    BY <1>1
  <2>2. Joins(Before(items, result, (p + n) + 1), Before(items, result, p + n),
              result[items[p + n]].tasks)
    BY <2>1, BeforeNext
  <2>3. result[items[p + n]].tasks \in Seq(S)
    <3>1. items[p + n] \in I
      BY <2>1
    <3>2. result[items[p + n]] \in ResultsOf(S)
      BY <3>1
    <3> QED
      BY <3>2 DEF ResultsOf
  <2>4. Occurs(Before(items, result, p + n), Before(items, result, p + (n + 1)), 0)
    BY <1>3, <2>1, <2>2, <2>3, JoinedOccur
  <2>5. Occurs(Before(items, result, p), Before(items, result, p + n), 0)
    OBVIOUS
  <2>6. /\ Len(Before(items, result, p)) \in Nat
        /\ Len(Before(items, result, p + n)) \in Nat
        /\ Len(Before(items, result, p + (n + 1))) \in Nat
    BY <1>3, <2>1, BeforeType
  <2>7. Occurs(Before(items, result, p), Before(items, result, p + (n + 1)), 0 + 0)
    BY <2>4, <2>5, <2>6, OccursWithin
  <2> QED
    BY <2>1, <2>7
<1> HIDE DEF T
<1>6. \A n \in 0..N : n \in T
  BY <1>1, <1>4, <1>5, InductionUpTo
<1>7. q - p \in 0..N /\ p + (q - p) = q
  OBVIOUS
<1> QED
  BY <1>6, <1>7 DEF T

-----------------------------------------------------------------------------
(* What comes of items in turn *)

\* Either all of them succeed, or those before one that fails.
AllSucceed(items, result, outcome) ==
  /\ Succeeded(items, result, Len(items) + 1)
  /\ outcome.tasks = Before(items, result, Len(items) + 1)
  /\ outcome.ok = TRUE
FailsAt(items, result, outcome, p) ==
  /\ Succeeded(items, result, p) /\ ~result[items[p]].ok
  /\ outcome.tasks = Before(items, result, p + 1)
  /\ outcome.ok = (items[p].otherwise # 0)

LEMMA InTurnCases ==
  ASSUME NEW I, NEW items \in Seq(I), NEW result
  PROVE  \/ AllSucceed(items, result, InTurn(items, result))
         \/ \E p \in 1..Len(items) : FailsAt(items, result, InTurn(items, result), p)
<1> DEFINE Failing == {i \in 1..Len(items) : ~result[items[i]].ok}
           failed == IF Failing # {} THEN Min(Failing) ELSE 0
           last == IF failed = 0 THEN Len(items) ELSE failed
<1>1. InTurn(items, result)
        = [tasks |-> FlattenSeq([i \in 1..last |-> result[items[i]].tasks]),
           ok |-> IF failed = 0 THEN TRUE ELSE items[failed].otherwise # 0]
  BY Zenon DEF InTurn, SelectInSeq
<1>2. CASE Failing = {}
  <2>1. failed = 0 /\ last = (Len(items) + 1) - 1
    BY <1>2
  <2> HIDE DEF failed, last
  <2>2. InTurn(items, result).tasks = Before(items, result, Len(items) + 1)
    BY <1>1, <2>1 DEF Before
  <2>3. InTurn(items, result).ok = TRUE
    BY <1>1, <2>1
  <2>4. Succeeded(items, result, Len(items) + 1)
    BY <1>2 DEF Succeeded
  <2> QED
    BY <2>2, <2>3, <2>4 DEF AllSucceed
<1>3. CASE Failing # {}
  <2>1. \E p \in Failing : \A q \in Failing : p <= q
    <3>1. Failing \in SUBSET Nat
      OBVIOUS
    <3> HIDE DEF Failing
    <3> QED
      BY <1>3, <3>1, LeastNat
  <2>2. failed \in Failing /\ \A q \in Failing : failed <= q
    BY <1>3, <2>1, Zenon DEF Min
  <2> HIDE DEF failed
  <2>3. failed # 0 /\ last = (failed + 1) - 1 /\ failed \in 1..Len(items)
    BY <2>2
  <2>4. InTurn(items, result).tasks = Before(items, result, failed + 1)
    BY <1>1, <2>3 DEF Before
  <2>5. InTurn(items, result).ok = (items[failed].otherwise # 0)
    BY <1>1, <2>3
  <2>6. Succeeded(items, result, failed)
    BY <2>2, <2>3 DEF Succeeded
  <2> QED
    BY <2>2, <2>3, <2>4, <2>5, <2>6 DEF FailsAt
<1> QED
  BY <1>2, <1>3

LEMMA InTurnType ==
  ASSUME NEW I, NEW S, NEW items \in Seq(I), NEW result \in [I -> ResultsOf(S)]
  PROVE  InTurn(items, result) \in ResultsOf(S)
<1>1. Len(items) \in Nat
  OBVIOUS
<1>2. InTurn(items, result).tasks \in Seq(S) /\ InTurn(items, result).ok \in BOOLEAN
  <2>1. CASE AllSucceed(items, result, InTurn(items, result))
    <3>1. Len(items) + 1 \in 1..(Len(items) + 1)
      BY <1>1
    <3>2. Before(items, result, Len(items) + 1) \in Seq(S)
      BY <3>1, BeforeType
    <3> QED
      BY <2>1, <3>2 DEF AllSucceed
  <2>2. ASSUME NEW p \in 1..Len(items),
               FailsAt(items, result, InTurn(items, result), p)
        PROVE  /\ InTurn(items, result).tasks \in Seq(S)
               /\ InTurn(items, result).ok \in BOOLEAN
    <3>1. p + 1 \in 1..(Len(items) + 1)
      BY <1>1
    <3> QED
      BY <2>2, <3>1, BeforeType DEF FailsAt
  <2> QED
    BY <2>1, <2>2, InTurnCases
<1>3. InTurn(items, result) = [tasks |-> InTurn(items, result).tasks,
                               ok |-> InTurn(items, result).ok]
  BY Zenon DEF InTurn
<1> QED
  BY <1>2, <1>3 DEF ResultsOf

\* An item that is reached: where its tasks are among all of them
LEMMA ReachedOccurs ==
  ASSUME NEW I, NEW S, NEW items \in Seq(I), NEW result \in [I -> ResultsOf(S)],
         NEW p \in 1..Len(items), Succeeded(items, result, p)
  PROVE  Occurs(result[items[p]].tasks, InTurn(items, result).tasks,
                Len(Before(items, result, p)))
<1> DEFINE tasks == result[items[p]].tasks
           n == Len(Before(items, result, p))
<1>1. Len(items) \in Nat /\ p \in 1..(Len(items) + 1) /\ p + 1 \in 1..(Len(items) + 1)
  OBVIOUS
<1>2. tasks \in Seq(S) /\ Before(items, result, p) \in Seq(S)
  <2>1. items[p] \in I
    OBVIOUS
  <2>2. result[items[p]] \in ResultsOf(S)
    BY <2>1
  <2> QED
    BY <1>1, <2>2, BeforeType DEF ResultsOf
<1>3. Joins(Before(items, result, p + 1), Before(items, result, p), tasks)
  BY BeforeNext
<1>4. /\ Occurs(tasks, Before(items, result, p + 1), n)
      /\ Before(items, result, p + 1) \in Seq(S)
  BY <1>2, <1>3, JoinedOccur
<1>5. ASSUME NEW q \in (p + 1)..(Len(items) + 1)
      PROVE  Occurs(tasks, Before(items, result, q), n)
  <2>1. Occurs(Before(items, result, p + 1), Before(items, result, q), 0)
    BY <1>1, <1>5, BeforeGrows
  <2>2. Before(items, result, q) \in Seq(S)
    BY <1>1, <1>5, BeforeType
  <2>3. /\ Len(tasks) \in Nat /\ n \in Nat
        /\ Len(Before(items, result, p + 1)) \in Nat
        /\ Len(Before(items, result, q)) \in Nat
    BY <1>2, <1>4, <2>2
  <2> HIDE DEF tasks, n
  <2>4. Occurs(tasks, Before(items, result, q), 0 + n)
    BY <1>4, <2>1, <2>3, OccursWithin
  <2> QED
    BY <2>3, <2>4
<1> HIDE DEF tasks, n
<1>6. CASE AllSucceed(items, result, InTurn(items, result))
  <2>1. Len(items) + 1 \in (p + 1)..(Len(items) + 1)
    BY <1>1
  <2> QED
    BY <1>5, <1>6, <2>1 DEF AllSucceed, tasks, n
<1>7. ASSUME NEW q \in 1..Len(items), FailsAt(items, result, InTurn(items, result), q)
      PROVE  Occurs(tasks, InTurn(items, result).tasks, n)
  <2>1. q >= p
    <3>1. q < p => q \in 1..(p - 1)
      BY <1>1
    <3> QED
      BY <1>1, <1>7, <3>1 DEF FailsAt, Succeeded
  <2>2. q + 1 \in (p + 1)..(Len(items) + 1)
    BY <1>1, <2>1
  <2> QED
    BY <1>5, <1>7, <2>2 DEF FailsAt
<1> QED
  BY <1>6, <1>7, InTurnCases DEF tasks, n

\* All items have succeeded.
LEMMA ReachedEnd ==
  ASSUME NEW I, NEW items \in Seq(I), NEW result, Succeeded(items, result, Len(items) + 1)
  PROVE  /\ InTurn(items, result).tasks = Before(items, result, Len(items) + 1)
         /\ InTurn(items, result).ok = TRUE
<1>1. ASSUME NEW p \in 1..Len(items), FailsAt(items, result, InTurn(items, result), p)
      PROVE  FALSE
  <2>1. p \in 1..((Len(items) + 1) - 1)
    OBVIOUS
  <2> QED
    BY <1>1, <2>1 DEF FailsAt, Succeeded
<1> QED
  BY <1>1, InTurnCases DEF AllSucceed

\* An item that is reached fails.
LEMMA ReachedFailure ==
  ASSUME NEW I, NEW items \in Seq(I), NEW result, NEW p \in 1..Len(items),
         Succeeded(items, result, p), ~result[items[p]].ok
  PROVE  /\ InTurn(items, result).tasks = Before(items, result, p + 1)
         /\ InTurn(items, result).ok = (items[p].otherwise # 0)
<1>1. ~AllSucceed(items, result, InTurn(items, result))
  <2>1. p \in 1..((Len(items) + 1) - 1)
    OBVIOUS
  <2> QED
    BY <2>1 DEF AllSucceed, Succeeded
<1>2. ASSUME NEW q \in 1..Len(items), FailsAt(items, result, InTurn(items, result), q)
      PROVE  q = p
  <2>1. q < p => q \in 1..(p - 1)
    OBVIOUS
  <2>2. p < q => p \in 1..(q - 1)
    OBVIOUS
  <2>3. ~(q < p) /\ ~(p < q)
    BY <1>2, <2>1, <2>2 DEF FailsAt, Succeeded
  <2> QED
    BY <2>3
<1> QED
  BY <1>1, <1>2, InTurnCases DEF FailsAt

-----------------------------------------------------------------------------
(* What commands and plugins mean *)

LEMMA CommandItemsType ==
  ASSUME NEW commands \in Seq(Name), NEW owner \in Name \cup {NoOwner},
         NEW task \in Task
  PROVE  /\ CommandItems(commands, owner, task) \in Seq(Item)
         /\ Len(CommandItems(commands, owner, task)) = Len(commands)
         /\ \A i \in 1..Len(commands) :
              /\ CommandItems(commands, owner, task)[i].op = "command"
              /\ CommandItems(commands, owner, task)[i].otherwise = 0
              /\ CommandItems(commands, owner, task)[i].name = commands[i]
              /\ CommandItems(commands, owner, task)[i].task = task
              /\ CommandItems(commands, owner, task)[i].initial
                   = IF owner = NoOwner THEN commands[i] ELSE owner
<1> DEFINE item(i) == [op |-> "command", name |-> commands[i], task |-> task,
                       otherwise |-> 0,
                       initial |-> IF owner = NoOwner THEN commands[i] ELSE owner]
<1>1. \A i \in 1..Len(commands) : item(i) \in Item
  <2> TAKE i \in 1..Len(commands)
  <2>1. commands[i] \in Name
    OBVIOUS
  <2> QED
    BY <2>1 DEF Item
<1>2. CommandItems(commands, owner, task) = [i \in 1..Len(commands) |-> item(i)]
  BY DEF CommandItems
<1>3. Len(commands) \in Nat
  OBVIOUS
<1>4. CommandItems(commands, owner, task) \in Seq(Item)
  <2> HIDE DEF item
  <2> QED
    BY <1>1, <1>2, <1>3
<1>5. Len(CommandItems(commands, owner, task)) = Len(commands)
  BY <1>2, <1>3
<1> QED
  BY <1>2, <1>4, <1>5

\* Only a plugin that has executed something goes on after a failure, and then
\* it is at its end.
EndsAtFailure(items) ==
  \A i \in 1..Len(items) :
    /\ items[i].otherwise \in {0, Len(items) + 1}
    /\ items[i].op = "fail" => items[i].otherwise = 0

LEMMA StraightEndsAtFailure ==
  ASSUME NEW program \in Seq(StraightStep)
  PROVE  EndsAtFailure(program)
<1>1. \A i \in 1..Len(program) : program[i].otherwise = 0
  <2> TAKE i \in 1..Len(program)
  <2>1. program[i] \in StraightStep
    OBVIOUS
  <2> QED
    BY <2>1 DEF StraightStep
<1> QED
  BY <1>1 DEF EndsAtFailure

LEMMA RunTargetEndsAtFailure ==
  ASSUME NEW s, IsSettings(s), NEW p \in Plugin, NEW c \in Name,
         NEW task \in Task
  PROVE  EndsAtFailure(RunTargetProgram(s, p, c, task))
<1> DEFINE n == Combinations(s, p, c)
<1>1. n \in Nat
  BY CombinationsBound, BoundAssumption
<1>2. \A k \in 1..n : /\ RunTargetProgram(s, p, c, task)[k].op = "execute"
                      /\ RunTargetProgram(s, p, c, task)[k].otherwise = n + 1
  BY DEF RunTargetProgram, Execute
<1>3. Len(RunTargetProgram(s, p, c, task)) = n
  <2> HIDE DEF n
  <2> QED
    BY <1>1 DEF RunTargetProgram, n
<1> HIDE DEF n
<1> QED
  BY <1>1, <1>2, <1>3 DEF EndsAtFailure

LEMMA ProgramEndsAtFailure ==
  ASSUME NEW s, IsSettings(s), NEW line \in Seq(Name),
         NEW p \in Plugin, NEW c \in Name, NEW task \in Task
  PROVE  EndsAtFailure(Program(s, line, p, c, task))
<1>1. CASE ~RunsTargets(p)
  BY <1>1, ProgramSteps, StraightEndsAtFailure
<1>2. CASE RunsTargets(p)
  <2>1. \A t \in Task : EndsAtFailure(RunTargetProgram(s, p, c, t))
    BY RunTargetEndsAtFailure
  <2>2. \A tool \in Types : Extend(task, tool, c, 0) \in Task
    BY ExtendedTask DEF Tool
  <2>3. EndsAtFailure(<<Fail>>)
    <3>1. <<Fail>> \in Seq(StraightStep)
      BY StepsOfPlugins
    <3> QED
      BY <3>1, StraightEndsAtFailure
  <2>4. EndsAtFailure(SingleTaskProgram(s, p, c, task))
    BY SingleTaskSteps, OwnIsStraight, StraightEndsAtFailure
  <2>5. EndsAtFailure(ScriptProgram(s, p, c, task))
    BY <1>2, <2>1, <2>2, <2>3, <2>4
    DEF ScriptProgram, SelectorProgram, DockerProgram,
        ClangStaticAnalyzerProgram, RunsTargets, Types, Scripts
  <2> QED
    BY <1>2, <2>5 DEF Program, RunsTargets, Scripts
<1> QED
  BY <1>1, <1>2

LEMMA MeaningType ==
  ASSUME NEW s, IsSettings(s), NEW line \in Seq(Name),
         NEW item \in Item, item.op \notin {"register", "fail"}
  PROVE  Meaning(s, line, item) \in Seq(Item)
<1>1. Seq(Step) \subseteq Seq(Item)
  BY DEF Item
<1>2. CASE item.op = "execute"
  <2>1. item \in Step
    BY <1>2 DEF Item
  <2>2. item.commands \in Seq(Name) /\ item.task \in Task
    BY <2>1 DEF Step
  <2> QED
    BY <1>2, <2>2, CommandItemsType DEF Meaning
<1>3. CASE item.op # "execute"
  <2>1. item.name \in Name /\ item.initial \in Name /\ item.task \in Task
    BY <1>3 DEF Item, Step
  <2>2. CASE item.name \in Plugin
    <3>1. Program(s, line, item.name, item.initial, item.task) \in Seq(Step)
      BY <2>1, <2>2, ProgramSteps
    <3> QED
      BY <1>1, <1>3, <2>2, <3>1 DEF Meaning
  <2>3. CASE item.name \in DOMAIN s.commands \ Plugin
    <3>1. s.commands[item.name] \in Seq(Name)
      BY <2>3 DEF IsSettings, IsPartialFunction, NonEmptyLists
    <3>2. CommandItems(s.commands[item.name], item.name, item.task) \in Seq(Item)
      BY <2>1, <3>1, CommandItemsType
    <3> QED
      BY <1>3, <2>3, <3>2 DEF Meaning
  <2>4. CASE item.name \notin DOMAIN s.commands \cup Plugin
    <3>1. <<Fail>> \in Seq(Step)
      BY StepsOfPlugins DEF StraightStep
    <3> QED
      BY <1>1, <1>3, <2>4, <3>1 DEF Meaning
  <2> QED
    BY <2>2, <2>3, <2>4
<1> QED
  BY <1>2, <1>3

\* What comes of an item, given what comes of those it means
ResultOf(s, line, item, depth, below) ==
  IF item.op = "register" THEN [tasks |-> <<item.task>>, ok |-> TRUE]
  ELSE IF item.op = "fail" \/ depth = 0 THEN [tasks |-> <<>>, ok |-> FALSE]
  ELSE InTurn(Meaning(s, line, item), below)

LEMMA ResultOfType ==
  ASSUME NEW s, IsSettings(s), NEW line \in Seq(Name), NEW item \in Item,
         NEW depth, NEW below, depth # 0 => below \in [Item -> Result]
  PROVE  ResultOf(s, line, item, depth, below) \in Result
<1>1. CASE item.op = "register"
  <2>1. item.task \in Task
    BY DEF Item, Step
  <2> QED
    BY <1>1, <2>1 DEF ResultOf, Result
<1>2. CASE item.op = "fail" \/ depth = 0
  BY <1>1, <1>2 DEF ResultOf, Result
<1>3. CASE item.op \notin {"register", "fail"} /\ depth # 0
  <2>1. Meaning(s, line, item) \in Seq(Item)
    BY <1>3, MeaningType
  <2>2. Result = ResultsOf(Task)
    BY DEF Result, ResultsOf
  <2>3. InTurn(Meaning(s, line, item), below) \in Result
    BY <1>3, <2>1, <2>2, InTurnType
  <2> QED
    BY <1>3, <2>3 DEF ResultOf
<1> QED
  BY <1>1, <1>2, <1>3

\* The equation Results is defined by
Unfolds(s, line, result) ==
  result = [depth \in 0..MaxDepth |-> [item \in Item |->
    IF item.op = "register" THEN [tasks |-> <<item.task>>, ok |-> TRUE]
    ELSE IF item.op = "fail" \/ depth = 0 THEN [tasks |-> <<>>, ok |-> FALSE]
    ELSE InTurn(Meaning(s, line, item), result[depth - 1])]]

\* It has a solution.
LEMMA ResultsExist ==
  ASSUME NEW s, IsSettings(s), NEW line \in Seq(Name)
  PROVE  \E result : /\ result \in [0..MaxDepth -> [Item -> Result]]
                    /\ Unfolds(s, line, result)
<1> DEFINE S == [Item -> Result]
           base == [item \in Item |-> ResultOf(s, line, item, 0, 0)]
           step == [n \in 1..MaxDepth |-> [below \in S |->
                     [item \in Item |-> ResultOf(s, line, item, n, below)]]]
<1>1. base \in S
  BY ResultOfType
<1>2. step \in [1..MaxDepth -> [S -> S]]
  <2>1. \A n \in 1..MaxDepth, below \in S : \A item \in Item :
          ResultOf(s, line, item, n, below) \in Result
    BY ResultOfType
  <2> QED
    BY <2>1
<1>3. \A n \in 1..MaxDepth, below \in S :
        step[n][below] = [item \in Item |-> ResultOf(s, line, item, n, below)]
  OBVIOUS
<1>4. MaxDepth \in Nat
  BY ConfigurationAssumption
<1> HIDE DEF S, step
<1>5. PICK result : Recursive(result, MaxDepth, S, base, step)
  BY <1>1, <1>2, <1>4, RecursionExists
<1>6. result \in [0..MaxDepth -> S]
  BY <1>5 DEF Recursive
<1>7. \A depth \in 0..MaxDepth :
        result[depth] = [item \in Item |->
                          ResultOf(s, line, item, depth, result[depth - 1])]
  <2> TAKE depth \in 0..MaxDepth
  <2>1. CASE depth = 0
    <3>1. result[depth] = base
      BY <1>5, <2>1 DEF Recursive
    <3>2. \A item \in Item : ResultOf(s, line, item, 0, 0)
            = ResultOf(s, line, item, depth, result[depth - 1])
      BY <2>1 DEF ResultOf
    <3> QED
      BY <3>1, <3>2
  <2>2. CASE depth # 0
    <3>1. depth \in 1..MaxDepth /\ depth - 1 \in 0..MaxDepth
      BY <1>4, <2>2
    <3>2. result[depth] = step[depth][result[depth - 1]] /\ result[depth - 1] \in S
      BY <1>5, <1>6, <3>1 DEF Recursive
    <3> QED
      BY <1>3, <3>1, <3>2
  <2> QED
    BY <2>1, <2>2
<1>8. result = [depth \in 0..MaxDepth |-> result[depth]]
  BY <1>6
<1>9. Unfolds(s, line, result)
  <2>1. result = [depth \in 0..MaxDepth |-> [item \in Item |->
                   ResultOf(s, line, item, depth, result[depth - 1])]]
    BY <1>7, <1>8
  <2> QED
    BY <2>1, Zenon DEF Unfolds, ResultOf
<1> QED
  BY <1>6, <1>9 DEF S

LEMMA ResultsUnfold ==
  ASSUME NEW s, IsSettings(s), NEW line \in Seq(Name), NEW depth \in 0..MaxDepth
  PROVE  Results(s, line)[depth]
           = [item \in Item |->
               ResultOf(s, line, item, depth, Results(s, line)[depth - 1])]
<1> DEFINE result == CHOOSE f : Unfolds(s, line, f)
<1>1. Results(s, line) = result
  BY Zenon DEF Results, Unfolds
<1>2. Unfolds(s, line, result)
  BY ResultsExist, Zenon
<1> HIDE DEF result
<1>3. result[depth] = [item \in Item |->
                        ResultOf(s, line, item, depth, result[depth - 1])]
  BY <1>2, Zenon DEF Unfolds, ResultOf
<1> QED
  BY <1>1, <1>3

LEMMA ResultsType ==
  ASSUME NEW s, IsSettings(s), NEW line \in Seq(Name)
  PROVE  \A depth \in 0..MaxDepth : Results(s, line)[depth] \in [Item -> Result]
<1> DEFINE T == {depth \in 0..MaxDepth : Results(s, line)[depth] \in [Item -> Result]}
<1>1. MaxDepth \in Nat /\ 0 \in 0..MaxDepth
  BY ConfigurationAssumption
<1>2. 0 \in T
  <2>1. \A item \in Item :
          ResultOf(s, line, item, 0, Results(s, line)[0 - 1]) \in Result
    BY ResultOfType
  <2>2. Results(s, line)[0]
          = [item \in Item |-> ResultOf(s, line, item, 0, Results(s, line)[0 - 1])]
    BY <1>1, ResultsUnfold
  <2> QED
    BY <1>1, <2>1, <2>2
<1>3. \A depth \in 0..(MaxDepth - 1) : depth \in T => depth + 1 \in T
  <2> SUFFICES ASSUME NEW depth \in 0..(MaxDepth - 1), depth \in T
               PROVE  depth + 1 \in T
    OBVIOUS
  <2>1. depth + 1 \in 0..MaxDepth /\ depth + 1 # 0 /\ (depth + 1) - 1 = depth
    BY <1>1
  <2> DEFINE next == depth + 1
             below == Results(s, line)[depth]
  <2>2. below \in [Item -> Result]
    OBVIOUS
  <2> HIDE DEF below
  <2>3. \A item \in Item : ResultOf(s, line, item, next, below) \in Result
    BY <2>2, ResultOfType
  <2>4. Results(s, line)[next] = [item \in Item |-> ResultOf(s, line, item, next, below)]
    BY <2>1, ResultsUnfold DEF below
  <2> HIDE DEF next
  <2>5. Results(s, line)[next] \in [Item -> Result]
    BY <2>3, <2>4
  <2> QED
    BY <2>1, <2>5 DEF next
<1> HIDE DEF T
<1>4. \A depth \in 0..MaxDepth : depth \in T
  BY <1>1, <1>2, <1>3, InductionUpTo
<1> QED
  BY <1>4 DEF T

-----------------------------------------------------------------------------
(* Where a frame is in what its process has to do *)

Items(frame) ==
  IF frame.kind = "commands"
  THEN CommandItems(frame.commands, frame.owner, frame.task) ELSE frame.program

LEMMA FrameItems ==
  ASSUME NEW frame \in Frame
  PROVE  /\ Items(frame) \in Seq(Item)
         /\ Len(Items(frame)) = Len(Work(frame)) /\ Len(Items(frame)) \in Nat
<1>1. CASE frame.kind = "commands"
  <2>1. /\ Items(frame) = CommandItems(frame.commands, frame.owner, frame.task)
        /\ Work(frame) = frame.commands
    BY <1>1, FrameWork DEF Items
  <2>2. /\ frame.commands \in Seq(Name) /\ frame.owner \in Name \cup {NoOwner}
        /\ frame.task \in Task /\ Len(Work(frame)) \in Nat
    BY <1>1, FrameWork
  <2>3. /\ CommandItems(frame.commands, frame.owner, frame.task) \in Seq(Item)
        /\ Len(CommandItems(frame.commands, frame.owner, frame.task))
             = Len(frame.commands)
    BY <2>2, CommandItemsType
  <2> QED
    BY <2>1, <2>2, <2>3
<1>2. CASE frame.kind = "plugin"
  <2>1. Items(frame) = frame.program /\ frame.program \in Seq(Step)
    BY <1>2, FrameWork DEF Items
  <2>2. Seq(Step) \subseteq Seq(Item)
    BY DEF Item
  <2> QED
    BY <1>2, <2>1, <2>2, FrameWork
<1> QED
  BY <1>1, <1>2, FrameWork

\* The i-th frame can nest what it does MaxDepth - i deep.
Here(s, line, i) == Results(s, line)[MaxDepth - i]

\* What comes of all the items of a frame, and of the one it is at
Total(s, line, frame, i) == InTurn(Items(frame), Here(s, line, i))
AtItem(s, line, frame, i) == Here(s, line, i)[Items(frame)[frame.position]]

LEMMA HereType ==
  ASSUME NEW s, IsSettings(s), NEW line \in Seq(Name), NEW i \in 1..MaxDepth
  PROVE  Here(s, line, i) \in [Item -> ResultsOf(Task)]
<1>1. MaxDepth - i \in 0..MaxDepth
  BY ConfigurationAssumption
<1>2. Result = ResultsOf(Task)
  BY DEF Result, ResultsOf
<1>3. Results(s, line)[MaxDepth - i] \in [Item -> Result]
  BY <1>1, ResultsType
<1> QED
  BY <1>2, <1>3 DEF Here

\* The tasks of a frame begin after the first base ones; n have been executed
\* when it comes to the item it is at, or when it is through.
Reached(s, line, frame, i, base, n) ==
  /\ frame.position \in 1..Len(Items(frame))
  /\ Succeeded(Items(frame), Here(s, line, i), frame.position)
  /\ n = base + Len(Before(Items(frame), Here(s, line, i), frame.position))
Completed(s, line, frame, i, base, n) ==
  /\ AtEnd(frame)
  /\ Total(s, line, frame, i).ok = TRUE
  /\ n = base + Len(Total(s, line, frame, i).tasks)

\* Where the top is, with the result r of what it called
Stands(s, line, frame, i, base, r, n) ==
  /\ r = None => \/ Reached(s, line, frame, i, base, n)
                 \/ Completed(s, line, frame, i, base, n)
  /\ r # None => \E m \in Nat :
       /\ Reached(s, line, frame, i, base, m)
       /\ n = m + Len(AtItem(s, line, frame, i).tasks)
       /\ AtItem(s, line, frame, i).ok = (r = Ok)

\* Every frame below the top waits for one that does the item it is at.
Placed(s, line, frames, base, whole) ==
  /\ base \in [1..Len(frames) -> Nat]
  /\ frames # <<>> => base[1] = 0 /\ Total(s, line, frames[1], 1) = whole
  /\ \A i \in 1..Len(frames) :
       Occurs(Total(s, line, frames[i], i).tasks, whole.tasks, base[i])
  /\ \A i \in 1..(Len(frames) - 1) :
       /\ Reached(s, line, frames[i], i, base[i], base[i + 1])
       /\ Total(s, line, frames[i + 1], i + 1) = AtItem(s, line, frames[i], i)

LEMMA TotalType ==
  ASSUME NEW s, IsSettings(s), NEW line \in Seq(Name), NEW i \in 1..MaxDepth,
         NEW frame \in Frame
  PROVE  /\ Total(s, line, frame, i) \in ResultsOf(Task)
         /\ Len(Total(s, line, frame, i).tasks) \in Nat
<1>1. Total(s, line, frame, i) \in ResultsOf(Task)
  BY HereType, FrameItems, InTurnType DEF Total
<1>2. Total(s, line, frame, i).tasks \in Seq(Task)
  BY <1>1 DEF ResultsOf
<1> QED
  BY <1>1, <1>2

LEMMA ReachedItem ==
  ASSUME NEW s, IsSettings(s), NEW line \in Seq(Name), NEW i \in 1..MaxDepth,
         NEW frame \in Frame, NEW base \in Nat, NEW n,
         Reached(s, line, frame, i, base, n)
  PROVE  /\ Items(frame)[frame.position] \in Item
         /\ AtItem(s, line, frame, i) \in ResultsOf(Task)
         /\ AtItem(s, line, frame, i).tasks \in Seq(Task)
         /\ Len(AtItem(s, line, frame, i).tasks) \in Nat
         /\ n \in Nat
<1> DEFINE p == frame.position
<1>1. p \in 1..Len(Items(frame)) /\ Items(frame) \in Seq(Item)
  BY FrameItems DEF Reached
<1>2. Items(frame)[p] \in Item
  BY <1>1
<1>3. AtItem(s, line, frame, i) \in ResultsOf(Task)
  BY <1>2, HereType DEF AtItem
<1>4. AtItem(s, line, frame, i).tasks \in Seq(Task)
  BY <1>3 DEF ResultsOf
<1>5. Before(Items(frame), Here(s, line, i), p) \in Seq(Task)
  <2>1. p \in 1..(Len(Items(frame)) + 1)
    BY <1>1
  <2> QED
    BY <1>1, <2>1, HereType, BeforeType
<1>6. Len(Before(Items(frame), Here(s, line, i), p)) \in Nat
  BY <1>5
<1> QED
  BY <1>2, <1>3, <1>4, <1>6 DEF Reached

\* The tasks of the item that is reached are the next ones.
LEMMA ReachedNext ==
  ASSUME NEW s, IsSettings(s), NEW line \in Seq(Name), NEW i \in 1..MaxDepth,
         NEW frame \in Frame, NEW base \in Nat, NEW n,
         Reached(s, line, frame, i, base, n),
         NEW whole \in Seq(Task),
         Occurs(Total(s, line, frame, i).tasks, whole, base)
  PROVE  Occurs(AtItem(s, line, frame, i).tasks, whole, n)
<1> DEFINE items == Items(frame)
           result == Here(s, line, i)
           p == frame.position
           m == Len(Before(items, result, p))
<1>1. items \in Seq(Item) /\ result \in [Item -> ResultsOf(Task)]
  BY FrameItems, HereType
<1>2. p \in 1..Len(items) /\ Succeeded(items, result, p) /\ n = base + m
  BY DEF Reached
<1>3. Occurs(result[items[p]].tasks, InTurn(items, result).tasks, m)
  BY <1>1, <1>2, ReachedOccurs
<1>4. m \in Nat
  <2>1. p \in 1..(Len(items) + 1)
    BY <1>2, FrameItems
  <2>2. Before(items, result, p) \in Seq(Task)
    BY <1>1, <2>1, BeforeType
  <2> QED
    BY <2>2
<1>5. /\ Len(AtItem(s, line, frame, i).tasks) \in Nat
      /\ Len(Total(s, line, frame, i).tasks) \in Nat /\ Len(whole) \in Nat
  BY ReachedItem, TotalType
<1>6. Occurs(AtItem(s, line, frame, i).tasks, Total(s, line, frame, i).tasks, m)
  BY <1>3 DEF AtItem, Total
<1> HIDE DEF m
<1> QED
  BY <1>2, <1>4, <1>5, <1>6, OccursWithin

LEMMA ReachedCounts ==
  ASSUME NEW s, IsSettings(s), NEW line \in Seq(Name), NEW i \in 1..MaxDepth,
         NEW frame \in Frame, NEW base \in Nat, NEW m,
         Reached(s, line, frame, i, base, m)
  PROVE  m + Len(AtItem(s, line, frame, i).tasks)
           = base + Len(Before(Items(frame), Here(s, line, i), frame.position + 1))
<1> DEFINE items == Items(frame)
           result == Here(s, line, i)
           p == frame.position
           tasks == AtItem(s, line, frame, i).tasks
<1>1. items \in Seq(Item) /\ result \in [Item -> ResultsOf(Task)]
  BY FrameItems, HereType
<1>2. p \in 1..Len(items) /\ m = base + Len(Before(items, result, p))
  BY DEF Reached
<1>3. Before(items, result, p) \in Seq(Task)
  <2>1. p \in 1..(Len(items) + 1)
    BY <1>2, FrameItems
  <2> QED
    BY <1>1, <2>1, BeforeType
<1>4. tasks \in Seq(Task)
  BY ReachedItem
<1>5. Joins(Before(items, result, p + 1), Before(items, result, p), tasks)
  BY <1>1, <1>2, BeforeNext DEF AtItem
<1> HIDE DEF items, result, p, tasks
<1>6. Len(Before(items, result, p + 1)) = Len(Before(items, result, p)) + Len(tasks)
  BY <1>3, <1>4, <1>5, JoinedOccur
<1>7. Len(Before(items, result, p)) \in Nat /\ Len(tasks) \in Nat
  BY <1>3, <1>4
<1>8. m + Len(tasks) = base + Len(Before(items, result, p + 1))
  BY <1>2, <1>6, <1>7
<1> QED
  BY <1>8 DEF items, result, p, tasks

\* An item that succeeds leads to the next one, or to the end.
LEMMA ItemSucceeds ==
  ASSUME NEW s, IsSettings(s), NEW line \in Seq(Name), NEW i \in 1..MaxDepth,
         NEW frame \in Frame, NEW base \in Nat, NEW m,
         Reached(s, line, frame, i, base, m),
         AtItem(s, line, frame, i).ok = TRUE,
         NEW moved \in Frame, moved = [frame EXCEPT !.position = frame.position + 1]
  PROVE  Stands(s, line, moved, i, base, None,
                m + Len(AtItem(s, line, frame, i).tasks))
<1> DEFINE items == Items(frame)
           result == Here(s, line, i)
           p == frame.position
           n == m + Len(AtItem(s, line, frame, i).tasks)
<1>1. items \in Seq(Item) /\ result \in [Item -> ResultsOf(Task)]
  BY FrameItems, HereType
<1>2. p \in 1..Len(items) /\ Succeeded(items, result, p)
  BY DEF Reached
<1>3. n = base + Len(Before(items, result, p + 1))
  BY ReachedCounts
<1>4. Succeeded(items, result, p + 1)
  BY <1>1, <1>2, BeforeNext DEF AtItem
<1>5. /\ Items(moved) = items /\ moved.position = p + 1
      /\ Len(items) = Len(Work(moved))
  <2>1. Items(moved) = items /\ moved.position = p + 1
    BY FrameWork DEF Items, Frame, CommandsFrame, PluginFrame
  <2> QED
    BY <2>1, FrameItems
<1>6. Len(items) \in Nat
  BY FrameItems
<1> HIDE DEF items, result, n, p
<1>7. CASE p + 1 \in 1..Len(items)
  <2>1. Reached(s, line, moved, i, base, n)
    BY <1>3, <1>4, <1>5, <1>7 DEF Reached, result
  <2> QED
    BY <2>1 DEF Stands, n
<1>8. CASE p + 1 \notin 1..Len(items)
  <2>1. p = Len(items)
    BY <1>2, <1>6, <1>8
  <2>2. /\ InTurn(items, result).tasks = Before(items, result, p + 1)
        /\ InTurn(items, result).ok = TRUE
    BY <1>1, <1>4, <2>1, ReachedEnd
  <2>3. Completed(s, line, moved, i, base, n)
    BY <1>3, <1>5, <1>6, <2>1, <2>2 DEF Completed, Total, AtEnd, result
  <2> QED
    BY <2>3 DEF Stands, n
<1> QED
  BY <1>7, <1>8

\* An item that fails is the last one.
LEMMA ItemFails ==
  ASSUME NEW s, IsSettings(s), NEW line \in Seq(Name), NEW i \in 1..MaxDepth,
         NEW frame \in Frame, NEW base \in Nat, NEW m,
         Reached(s, line, frame, i, base, m),
         AtItem(s, line, frame, i).ok = FALSE
  PROVE  /\ Total(s, line, frame, i).ok
              = (Items(frame)[frame.position].otherwise # 0)
         /\ m + Len(AtItem(s, line, frame, i).tasks)
              = base + Len(Total(s, line, frame, i).tasks)
<1> DEFINE items == Items(frame)
           result == Here(s, line, i)
           p == frame.position
<1>1. items \in Seq(Item)
  BY FrameItems
<1>2. p \in 1..Len(items) /\ Succeeded(items, result, p)
  BY DEF Reached
<1>3. ~result[items[p]].ok
  BY DEF AtItem
<1>4. /\ InTurn(items, result).tasks = Before(items, result, p + 1)
      /\ InTurn(items, result).ok = (items[p].otherwise # 0)
  BY <1>1, <1>2, <1>3, ReachedFailure
<1> HIDE DEF items, result, p
<1>5. m + Len(AtItem(s, line, frame, i).tasks)
        = base + Len(Before(items, result, p + 1))
  BY ReachedCounts DEF items, result, p
<1> QED
  BY <1>4, <1>5 DEF Total, items, result, p

\* A frame whose item has failed, and one that is through because of it
Failing(s, line, frame, i, base, n) ==
  \E m \in Nat :
    /\ Reached(s, line, frame, i, base, m)
    /\ n = m + Len(AtItem(s, line, frame, i).tasks)
    /\ AtItem(s, line, frame, i).ok = FALSE
Through(s, line, frame, i, base, n) ==
  /\ Total(s, line, frame, i).ok = (Items(frame)[frame.position].otherwise # 0)
  /\ n = base + Len(Total(s, line, frame, i).tasks)

LEMMA FailingThrough ==
  ASSUME NEW s, IsSettings(s), NEW line \in Seq(Name), NEW i \in 1..MaxDepth,
         NEW frame \in Frame, NEW base \in Nat, NEW n,
         Failing(s, line, frame, i, base, n)
  PROVE  Through(s, line, frame, i, base, n)
BY ItemFails DEF Failing, Through

\* A frame that is new begins where its caller is.
LEMMA NewFrameStands ==
  ASSUME NEW s, IsSettings(s), NEW line \in Seq(Name), NEW i \in 1..MaxDepth,
         NEW frame \in Frame, frame.position = 1, NEW base \in Nat
  PROVE  Stands(s, line, frame, i, base, None, base)
<1> DEFINE items == Items(frame)
           result == Here(s, line, i)
<1>1. items \in Seq(Item) /\ Len(items) = Len(Work(frame)) /\ Len(items) \in Nat
  BY FrameItems
<1>2. Before(items, result, 1) = <<>> /\ Succeeded(items, result, 1)
  BY BeforeFirst
<1>3. base + Len(<<>>) = base
  OBVIOUS
<1> HIDE DEF items, result
<1>4. CASE 1 \in 1..Len(items)
  <2>1. Reached(s, line, frame, i, base, base)
    BY <1>2, <1>3, <1>4 DEF Reached, items, result
  <2> QED
    BY <2>1 DEF Stands
<1>5. CASE 1 \notin 1..Len(items)
  <2>1. Len(items) = 0 /\ Len(items) + 1 = 1
    BY <1>1, <1>5
  <2>2. InTurn(items, result).tasks = <<>> /\ InTurn(items, result).ok = TRUE
    BY <1>1, <1>2, <2>1, ReachedEnd
  <2>3. Completed(s, line, frame, i, base, base)
    BY <1>1, <1>3, <2>1, <2>2 DEF Completed, Total, AtEnd, items, result
  <2> QED
    BY <2>3 DEF Stands
<1> QED
  BY <1>4, <1>5

-----------------------------------------------------------------------------
(* The frames together *)

\* A frame that is called does what the item it is called for means.
LEMMA PlacedCall ==
  ASSUME NEW s, IsSettings(s), NEW line \in Seq(Name),
         NEW frames \in Seq(Frame), Len(frames) \in 1..(MaxDepth - 1),
         NEW base, NEW whole, whole.tasks \in Seq(Task),
         Placed(s, line, frames, base, whole),
         NEW n, Reached(s, line, frames[Len(frames)], Len(frames),
                        base[Len(frames)], n),
         NEW frame \in Frame,
         Total(s, line, frame, Len(frames) + 1)
           = AtItem(s, line, frames[Len(frames)], Len(frames))
  PROVE  \E longer : /\ Placed(s, line, Append(frames, frame), longer, whole)
                     /\ longer[Len(frames) + 1] = n /\ n \in Nat
<1> DEFINE N == Len(frames)
           longer == [i \in 1..(N + 1) |-> IF i <= N THEN base[i] ELSE n]
           more == Append(frames, frame)
<1>1. /\ N \in Nat /\ N \in 1..N /\ N \in 1..MaxDepth /\ N + 1 \in 1..(N + 1)
      /\ frames[N] \in Frame
  BY ConfigurationAssumption
<1>2. base \in [1..N -> Nat] /\ base[N] \in Nat
  BY <1>1 DEF Placed
<1>3. n \in Nat
  BY <1>1, <1>2, ReachedItem
<1>4. longer \in [1..(N + 1) -> Nat] /\ longer[N + 1] = n
  BY <1>1, <1>2, <1>3
<1>5. \A i \in 1..N : longer[i] = base[i]
  BY <1>1
<1>6. /\ Len(more) = N + 1 /\ more # <<>> /\ more[N + 1] = frame
      /\ \A i \in 1..N : more[i] = frames[i]
  BY <1>1
<1>7. Occurs(Total(s, line, frame, N + 1).tasks, whole.tasks, n)
  BY <1>1, <1>2, ReachedNext DEF Placed
<1> HIDE DEF longer, more
<1>8. longer[1] = 0 /\ Total(s, line, more[1], 1) = whole
  <2>1. frames # <<>> /\ 1 \in 1..N
    BY <1>1
  <2> QED
    BY <1>5, <1>6, <2>1 DEF Placed
<1> HIDE DEF N
<1>9. \A i \in 1..(N + 1) :
        Occurs(Total(s, line, more[i], i).tasks, whole.tasks, longer[i])
  <2> TAKE i \in 1..(N + 1)
  <2>1. CASE i \in 1..N
    BY <1>5, <1>6, <2>1 DEF Placed, N
  <2>2. CASE i = N + 1
    BY <1>4, <1>6, <1>7, <2>2
  <2> QED
    BY <1>1, <2>1, <2>2
<1>10. ASSUME NEW i \in 1..N
       PROVE  /\ Reached(s, line, more[i], i, longer[i], longer[i + 1])
              /\ Total(s, line, more[i + 1], i + 1) = AtItem(s, line, more[i], i)
  <2>1. CASE i \in 1..(N - 1)
    <3>1. i + 1 \in 1..N
      BY <1>1, <2>1
    <3>2. /\ Reached(s, line, frames[i], i, base[i], base[i + 1])
          /\ Total(s, line, frames[i + 1], i + 1) = AtItem(s, line, frames[i], i)
      BY <2>1 DEF Placed, N
    <3> QED
      BY <1>5, <1>6, <3>1, <3>2
  <2>2. CASE i = N
    BY <1>1, <1>4, <1>5, <1>6, <2>2 DEF N
  <2> QED
    BY <1>1, <2>1, <2>2
<1>11. Placed(s, line, more, longer, whole)
  <2>1. (N + 1) - 1 = N
    BY <1>1
  <2> QED
    BY <1>4, <1>6, <1>8, <1>9, <1>10, <2>1 DEF Placed
<1> QED
  BY <1>3, <1>4, <1>11 DEF N, more

\* Frames without the top are where they were, and so they are if the top has
\* moved.
LEMMA PlacedBelow ==
  ASSUME NEW s, NEW line, NEW frames, Len(frames) \in Nat, NEW base, NEW whole,
         Placed(s, line, frames, base, whole),
         NEW fewer, Len(fewer) \in 0..Len(frames), fewer # <<>> => Len(fewer) # 0,
         \A i \in 1..Len(fewer) : Total(s, line, fewer[i], i) = Total(s, line, frames[i], i),
         \A i \in 1..(Len(fewer) - 1) : fewer[i] = frames[i]
  PROVE  Placed(s, line, fewer, [i \in 1..Len(fewer) |-> base[i]], whole)
<1> DEFINE N == Len(fewer)
           below == [i \in 1..N |-> base[i]]
<1>1. N \in Nat /\ \A i \in 1..N : i \in 1..Len(frames)
  OBVIOUS
<1>2. below \in [1..N -> Nat] /\ \A i \in 1..N : below[i] = base[i]
  BY <1>1 DEF Placed
<1> HIDE DEF N, below
<1>3. ASSUME fewer # <<>>
      PROVE  below[1] = 0 /\ Total(s, line, fewer[1], 1) = whole
  <2>1. 1 \in 1..N /\ frames # <<>>
    <3>1. 1 \in 1..N
      BY <1>1, <1>3 DEF N
    <3>2. Len(frames) # 0
      BY <1>1, <3>1
    <3> QED
      BY <3>1, <3>2
  <2> QED
    BY <1>2, <2>1 DEF Placed, N
<1>4. \A i \in 1..N : Occurs(Total(s, line, fewer[i], i).tasks, whole.tasks, below[i])
  BY <1>1, <1>2 DEF Placed, N
<1>5. ASSUME NEW i \in 1..(N - 1)
      PROVE  /\ Reached(s, line, fewer[i], i, below[i], below[i + 1])
             /\ Total(s, line, fewer[i + 1], i + 1) = AtItem(s, line, fewer[i], i)
  <2>1. i \in 1..N /\ i + 1 \in 1..N /\ i \in 1..(Len(frames) - 1)
    BY <1>1 DEF N
  <2>2. fewer[i] = frames[i] /\ below[i] = base[i] /\ below[i + 1] = base[i + 1]
    BY <1>2, <2>1 DEF N
  <2>3. Total(s, line, fewer[i + 1], i + 1) = Total(s, line, frames[i + 1], i + 1)
    BY <2>1 DEF N
  <2> QED
    BY <2>1, <2>2, <2>3 DEF Placed
<1> QED
  BY <1>2, <1>3, <1>4, <1>5 DEF Placed, N, below


\* A process is along the list of tasks it stands for: what its frames have
\* still to do is the rest of it.
Along(s, line, frames, base, r, n, whole) ==
  /\ Placed(s, line, frames, base, whole)
  /\ frames # <<>> => Stands(s, line, frames[Len(frames)], Len(frames),
                             base[Len(frames)], r, n)
  /\ frames = <<>> => n = Len(whole.tasks) /\ whole.ok = (r = Ok)

\* A call
LEMMA AlongCall ==
  ASSUME NEW s, IsSettings(s), NEW line \in Seq(Name),
         NEW frames \in Seq(Frame), Len(frames) \in 1..(MaxDepth - 1),
         NEW base, NEW whole, whole.tasks \in Seq(Task), NEW n,
         Along(s, line, frames, base, None, n, whole),
         ~AtEnd(frames[Len(frames)]),
         NEW frame \in Frame, frame.position = 1,
         Total(s, line, frame, Len(frames) + 1)
           = AtItem(s, line, frames[Len(frames)], Len(frames))
  PROVE  \E longer : Along(s, line, Append(frames, frame), longer, None, n, whole)
<1> DEFINE N == Len(frames)
           more == Append(frames, frame)
<1>1. /\ N \in Nat /\ N + 1 \in 1..MaxDepth /\ frames # <<>>
      /\ Len(more) = N + 1 /\ more # <<>> /\ more[N + 1] = frame
  <2>1. N \in Nat /\ N + 1 \in 1..MaxDepth /\ frames # <<>>
    BY ConfigurationAssumption
  <2>2. Len(more) = N + 1 /\ more[N + 1] = frame
    BY <2>1
  <2>3. more # <<>>
    BY <2>1, <2>2
  <2> QED
    BY <2>1, <2>2, <2>3
<1>2. Placed(s, line, frames, base, whole)
  BY DEF Along
<1>3. Reached(s, line, frames[Len(frames)], Len(frames), base[Len(frames)], n)
  BY <1>1 DEF Along, Stands, Completed
<1>4. PICK longer : /\ Placed(s, line, more, longer, whole)
                    /\ longer[N + 1] = n /\ n \in Nat
  BY <1>2, <1>3, PlacedCall
<1>5. Stands(s, line, frame, N + 1, n, None, n)
  BY <1>1, <1>4, NewFrameStands
<1> HIDE DEF more, N
<1>6. Along(s, line, more, longer, None, n, whole)
  BY <1>1, <1>4, <1>5 DEF Along
<1> QED
  BY <1>6 DEF more

\* A return: what came of all the items of the top comes of the one its caller
\* is at.
LEMMA AlongReturn ==
  ASSUME NEW s, NEW line, NEW frames \in Seq(Frame), frames # <<>>,
         NEW base, NEW whole, whole.tasks \in Seq(Task),
         Placed(s, line, frames, base, whole),
         NEW fewer \in Seq(Frame), Len(fewer) = Len(frames) - 1,
         \A i \in 1..Len(fewer) : fewer[i] = frames[i],
         NEW r \in {Ok, Failed},
         Total(s, line, frames[Len(frames)], Len(frames)).ok = (r = Ok),
         NEW n, n = base[Len(frames)]
                      + Len(Total(s, line, frames[Len(frames)], Len(frames)).tasks)
  PROVE  \E below : Along(s, line, fewer, below, r, n, whole)
<1> DEFINE N == Len(frames)
           below == [i \in 1..Len(fewer) |-> base[i]]
<1>1. N \in Nat \ {0} /\ Len(fewer) = N - 1 /\ N \in 1..N /\ Len(fewer) \in 0..N
  OBVIOUS
<1>2. /\ fewer # <<>> => Len(fewer) # 0
      /\ \A i \in 1..Len(fewer) :
           Total(s, line, fewer[i], i) = Total(s, line, frames[i], i)
      /\ \A i \in 1..(Len(fewer) - 1) : fewer[i] = frames[i]
  OBVIOUS
<1>3. Placed(s, line, fewer, below, whole)
  BY <1>1, <1>2, PlacedBelow
<1>4. r # None
  BY DEF Ok, Failed, None
<1>5. CASE N = 1
  <2>1. fewer = <<>>
    BY <1>1, <1>5
  <2>2. base[1] = 0 /\ Total(s, line, frames[1], 1) = whole
    BY <1>1 DEF Placed
  <2>3. n = 0 + Len(whole.tasks) /\ whole.ok = (r = Ok)
    BY <1>5, <2>2
  <2>4. Len(whole.tasks) \in Nat
    OBVIOUS
  <2>5. n = Len(whole.tasks)
    BY <2>3, <2>4
  <2> HIDE DEF below
  <2> QED
    BY <1>3, <2>1, <2>3, <2>5 DEF Along
<1>6. CASE N # 1
  <2>1. N - 1 \in 1..(N - 1) /\ (N - 1) + 1 = N /\ N - 1 \in 1..Len(fewer) /\ fewer # <<>>
    BY <1>1, <1>6
  <2> DEFINE M == N - 1
             caller == frames[M]
  <2>2. /\ Reached(s, line, caller, M, base[M], base[N])
        /\ Total(s, line, frames[N], N) = AtItem(s, line, caller, M)
    BY <2>1 DEF Placed
  <2>3. base[N] \in Nat
    BY <1>1 DEF Placed
  <2>4. below[M] = base[M] /\ fewer[M] = caller /\ Len(fewer) = M
    BY <1>1, <2>1
  <2> HIDE DEF M, caller, below
  <2>5. Stands(s, line, caller, M, base[M], r, n)
    BY <1>4, <2>2, <2>3 DEF Stands
  <2> QED
    BY <1>3, <2>1, <2>4, <2>5 DEF Along
<1> QED
  BY <1>5, <1>6

\* The top goes on after what it has called has returned.
LEMMA AlongMove ==
  ASSUME NEW s, NEW line, NEW frames \in Seq(Frame), frames # <<>>,
         NEW base, NEW whole, Placed(s, line, frames, base, whole),
         NEW moved \in Frame, Items(moved) = Items(frames[Len(frames)]),
         NEW n, Stands(s, line, moved, Len(frames), base[Len(frames)], None, n)
  PROVE  \E same : Along(s, line, [frames EXCEPT ![Len(frames)] = moved], same,
                         None, n, whole)
<1> DEFINE N == Len(frames)
           others == [frames EXCEPT ![N] = moved]
           same == [i \in 1..Len(others) |-> base[i]]
<1>1. /\ N \in Nat \ {0} /\ Len(others) = N /\ others # <<>> /\ others[N] = moved
      /\ N \in 1..N
      /\ \A i \in 1..(N - 1) : others[i] = frames[i]
  OBVIOUS
<1>2. \A i \in 1..N : Total(s, line, others[i], i) = Total(s, line, frames[i], i)
  <2> TAKE i \in 1..N
  <2>1. i \in 1..(N - 1) \/ i = N
    OBVIOUS
  <2> HIDE DEF others, N
  <2>2. Items(others[i]) = Items(frames[i])
    BY <1>1, <2>1 DEF N
  <2> QED
    BY <2>2 DEF Total
<1>3. same[N] = base[N]
  BY <1>1
<1> HIDE DEF others
<1>4. Placed(s, line, others, same, whole)
  <2>1. Len(frames) \in Nat /\ Len(others) \in 0..Len(frames)
    BY <1>1
  <2>2. Len(others) # 0 /\ \A i \in 1..(Len(others) - 1) : others[i] = frames[i]
    BY <1>1
  <2>3. \A i \in 1..Len(others) :
          Total(s, line, others[i], i) = Total(s, line, frames[i], i)
    BY <1>1, <1>2
  <2> QED
    BY <2>1, <2>2, <2>3, PlacedBelow
<1> HIDE DEF same, N
<1>5. Along(s, line, others, same, None, n, whole)
  BY <1>1, <1>3, <1>4 DEF Along, N
<1> QED
  BY <1>5 DEF others, N


\* The item a frame is at
LEMMA CurrentItem ==
  ASSUME NEW frame \in Frame, ~AtEnd(frame)
  PROVE  /\ frame.position \in 1..Len(Items(frame))
         /\ Items(frame)[frame.position] \in Item
         /\ frame.kind = "commands" =>
              /\ Items(frame)[frame.position].op = "command"
              /\ Items(frame)[frame.position].otherwise = 0
              /\ Items(frame)[frame.position].name = Current(frame)
              /\ Items(frame)[frame.position].initial = InitialCommand(frame)
              /\ Items(frame)[frame.position].task = frame.task
         /\ frame.kind = "plugin" => Items(frame)[frame.position] = Current(frame)
<1>1. frame.position \in 1..Len(Work(frame)) /\ frame.position \in 1..Len(Items(frame))
  BY FrameWork, FrameItems DEF AtEnd
<1>2. Items(frame)[frame.position] \in Item
  BY <1>1, FrameItems
<1>3. CASE frame.kind = "commands"
  <2>1. /\ Items(frame) = CommandItems(frame.commands, frame.owner, frame.task)
        /\ Work(frame) = frame.commands
    BY <1>3, FrameWork DEF Items
  <2>2. /\ frame.commands \in Seq(Name) /\ frame.owner \in Name \cup {NoOwner}
        /\ frame.task \in Task
    BY <1>3, FrameWork
  <2> DEFINE items == CommandItems(frame.commands, frame.owner, frame.task)
             p == frame.position
  <2>3. /\ items[p].op = "command" /\ items[p].otherwise = 0
        /\ items[p].name = frame.commands[p] /\ items[p].task = frame.task
        /\ items[p].initial = IF frame.owner = NoOwner THEN frame.commands[p]
                                                       ELSE frame.owner
    <3>1. p \in 1..Len(frame.commands)
      BY <1>1, <2>1
    <3> HIDE DEF p
    <3> QED
      BY <3>1 DEF items, CommandItems
  <2>4. Current(frame) = frame.commands[p]
    BY <2>1 DEF Current
  <2>5. items[p].initial = InitialCommand(frame)
    BY <2>3, <2>4 DEF InitialCommand
  <2> HIDE DEF items, p
  <2>6. Items(frame)[frame.position] = items[p]
    BY <2>1 DEF items, p
  <2>7. frame.kind # "plugin"
    BY <1>3
  <2> QED
    BY <1>1, <1>2, <2>3, <2>4, <2>5, <2>6, <2>7
<1>4. CASE frame.kind = "plugin"
  BY <1>1, <1>2, <1>4, FrameWork DEF Items, Current
<1> QED
  BY <1>3, <1>4, FrameWork

\* A frame that does what an item means, one deeper than the item, does what
\* comes of it.
LEMMA CalledForItem ==
  ASSUME NEW s, IsSettings(s), NEW line \in Seq(Name), NEW i \in 1..(MaxDepth - 1),
         NEW caller \in Frame, ~AtEnd(caller), NEW frame,
         Items(caller)[caller.position].op \notin {"register", "fail"},
         Items(frame) = Meaning(s, line, Items(caller)[caller.position])
  PROVE  Total(s, line, frame, i + 1) = AtItem(s, line, caller, i)
<1> DEFINE item == Items(caller)[caller.position]
           depth == MaxDepth - i
           below == Results(s, line)[depth - 1]
<1>1. depth \in 0..MaxDepth /\ depth # 0 /\ depth - 1 = MaxDepth - (i + 1)
  BY ConfigurationAssumption
<1>2. item \in Item
  BY CurrentItem
<1>3. Results(s, line)[depth]
        = [x \in Item |-> ResultOf(s, line, x, depth, below)]
  BY <1>1, ResultsUnfold
<1>4. Total(s, line, frame, i + 1) = InTurn(Meaning(s, line, item), below)
  BY <1>1 DEF Total, Here
<1> HIDE DEF below
<1>5. AtItem(s, line, caller, i) = ResultOf(s, line, item, depth, below)
  BY <1>2, <1>3 DEF AtItem, Here
<1>6. ResultOf(s, line, item, depth, below) = InTurn(Meaning(s, line, item), below)
  BY <1>1 DEF ResultOf
<1> QED
  BY <1>4, <1>5, <1>6

\* What comes of a task, of a failure, and of a name nothing is known by
LEMMA ItemAtOnce ==
  ASSUME NEW s, IsSettings(s), NEW line \in Seq(Name), NEW i \in 1..MaxDepth,
         NEW frame \in Frame, ~AtEnd(frame)
  PROVE  /\ Items(frame)[frame.position].op = "register" =>
              AtItem(s, line, frame, i)
                = [tasks |-> <<Items(frame)[frame.position].task>>, ok |-> TRUE]
         /\ Items(frame)[frame.position].op = "fail" =>
              AtItem(s, line, frame, i) = [tasks |-> <<>>, ok |-> FALSE]
         /\ /\ Items(frame)[frame.position].op = "command"
            /\ Items(frame)[frame.position].name \notin DOMAIN s.commands \cup Plugin
            => /\ AtItem(s, line, frame, i).tasks = <<>>
               /\ AtItem(s, line, frame, i).ok = FALSE
<1> DEFINE item == Items(frame)[frame.position]
           depth == MaxDepth - i
           below == Results(s, line)[depth - 1]
<1>1. depth \in 0..MaxDepth
  BY ConfigurationAssumption
<1>2. item \in Item
  BY CurrentItem
<1>3. Results(s, line)[depth]
        = [x \in Item |-> ResultOf(s, line, x, depth, below)]
  BY <1>1, ResultsUnfold
<1> HIDE DEF below
<1>4. AtItem(s, line, frame, i) = ResultOf(s, line, item, depth, below)
  BY <1>2, <1>3 DEF AtItem, Here
<1>5. ASSUME item.op = "command", item.name \notin DOMAIN s.commands \cup Plugin,
             depth # 0
      PROVE  /\ ResultOf(s, line, item, depth, below).tasks = <<>>
             /\ ResultOf(s, line, item, depth, below).ok = FALSE
  <2>1. ResultOf(s, line, item, depth, below) = InTurn(<<Fail>>, below)
    BY <1>5 DEF ResultOf, Meaning
  <2>2. <<Fail>> \in Seq(Item) /\ Fail \in Item
    <3>1. Fail \in Item
      BY DEF Fail, Item, Step, Task
    <3> QED
      BY <3>1
  <2>3. depth - 1 \in 0..MaxDepth /\ below \in [Item -> Result]
    <3>1. depth - 1 \in 0..MaxDepth
      BY <1>1, <1>5, ConfigurationAssumption
    <3> QED
      BY <3>1, ResultsType DEF below
  <2>4. below[Fail] = [tasks |-> <<>>, ok |-> FALSE]
    <3> DEFINE lower == Results(s, line)[(depth - 1) - 1]
    <3>1. below = [x \in Item |-> ResultOf(s, line, x, depth - 1, lower)]
      BY <2>3, ResultsUnfold DEF below
    <3> HIDE DEF lower
    <3>2. below[Fail] = ResultOf(s, line, Fail, depth - 1, lower)
      BY <2>2, <3>1
    <3> QED
      BY <3>2 DEF ResultOf, Fail
  <2> DEFINE items == <<Fail>>
  <2>5. items \in Seq(Item) /\ 1 \in 1..Len(items) /\ items[1] = Fail
    BY <2>2
  <2> HIDE DEF items
  <2>6. Succeeded(items, below, 1) /\ Before(items, below, 1) = <<>>
    BY BeforeFirst
  <2>7. /\ InTurn(items, below).tasks = Before(items, below, 1 + 1)
        /\ InTurn(items, below).ok = (items[1].otherwise # 0)
    BY <2>4, <2>5, <2>6, ReachedFailure
  <2>8. Joins(Before(items, below, 1 + 1), <<>>, <<>>)
    <3>1. Result = ResultsOf(Task)
      BY DEF Result, ResultsOf
    <3>2. Joins(Before(items, below, 1 + 1), Before(items, below, 1),
                below[items[1]].tasks)
      BY <2>3, <2>5, <3>1, BeforeNext
    <3>3. below[items[1]].tasks = <<>>
      BY <2>4, <2>5
    <3> QED
      BY <2>6, <3>2, <3>3
  <2>9. Before(items, below, 1 + 1) = <<>>
    BY <2>8 DEF Joins
  <2>10. (items[1].otherwise # 0) = FALSE
    BY <2>5 DEF Fail
  <2> QED
    BY <2>1, <2>7, <2>9, <2>10 DEF items
<1>6. ASSUME item.op = "command", item.name \notin DOMAIN s.commands \cup Plugin,
             depth = 0
      PROVE  /\ ResultOf(s, line, item, depth, below).tasks = <<>>
             /\ ResultOf(s, line, item, depth, below).ok = FALSE
  BY <1>6 DEF ResultOf
<1>7. /\ item.op = "register" =>
           ResultOf(s, line, item, depth, below) = [tasks |-> <<item.task>>, ok |-> TRUE]
      /\ item.op = "fail" =>
           ResultOf(s, line, item, depth, below) = [tasks |-> <<>>, ok |-> FALSE]
  BY DEF ResultOf
<1> QED
  BY <1>4, <1>5, <1>6, <1>7

LEMMA MovedItems ==
  ASSUME NEW frame \in Frame, NEW position \in Nat \ {0}
  PROVE  /\ Items([frame EXCEPT !.position = position]) = Items(frame)
         /\ [frame EXCEPT !.position = position].position = position
         /\ Len(Work([frame EXCEPT !.position = position])) = Len(Items(frame))
<1>1. /\ Items([frame EXCEPT !.position = position]) = Items(frame)
      /\ [frame EXCEPT !.position = position].position = position
  BY FrameWork DEF Items, Frame, CommandsFrame, PluginFrame
<1>2. [frame EXCEPT !.position = position] \in Frame
  BY MovedFrame
<1> QED
  BY <1>1, <1>2, FrameItems


-----------------------------------------------------------------------------
(* The invariant *)

OnPlan ==
  /\ plan = PlanOf(settings, commandLine)
  /\ process = "starting" => log = <<>>
  /\ Len(stack) <= MaxDepth
  /\ \A i \in 1..Len(stack) : EndsAtFailure(Items(stack[i]))
  /\ process = "running" =>
       \E base : Along(settings, commandLine, stack, base, ret, Len(log), plan)

LEMMA PlanType ==
  ASSUME NEW s, IsSettings(s), NEW line \in Seq(Name)
  PROVE  /\ PlanOf(s, line) \in ResultsOf(Task)
         /\ PlanOf(s, line).tasks \in Seq(Task) /\ PlanOf(s, line).ok \in BOOLEAN
<1>1. CASE line = <<>>
  <2>1. <<>> \in Seq(Task)
    OBVIOUS
  <2> QED
    BY <1>1, <2>1 DEF PlanOf, ResultsOf
<1>2. CASE line # <<>>
  <2> DEFINE items == CommandItems(line, NoOwner, <<>>)
             below == Results(s, line)[MaxDepth - 1]
  <2>1. items \in Seq(Item)
    <3>1. <<>> \in Task
      BY DEF Task
    <3> QED
      BY <3>1, CommandItemsType
  <2>2. below \in [Item -> ResultsOf(Task)]
    <3>1. 1 \in 1..MaxDepth
      BY ConfigurationAssumption
    <3> QED
      BY <3>1, HereType DEF Here
  <2> HIDE DEF items, below
  <2>3. InTurn(items, below) \in ResultsOf(Task)
    BY <2>1, <2>2, InTurnType
  <2>4. PlanOf(s, line) = InTurn(items, below)
    BY <1>2 DEF PlanOf, items, below
  <2> QED
    BY <2>3, <2>4 DEF ResultsOf
<1> QED
  BY <1>1, <1>2

LEMMA PlanOfProcess ==
  ASSUME TypeOK, OnPlan
  PROVE  plan.tasks \in Seq(Task) /\ plan.ok \in BOOLEAN
BY PlanType, SettingsOfProcess DEF OnPlan

LEMMA OnPlanStart ==
  ASSUME Inv, OnPlan, Start, UNCHANGED plan
  PROVE  OnPlan'
<1> DEFINE frame == NewCommandsFrame(commandLine, NoOwner, <<>>)
           frames == <<frame>>
           base == [i \in 1..1 |-> 0]
<1>1. /\ IsSettings(settings) /\ commandLine \in Seq(Name) /\ commandLine # <<>>
      /\ NoOwner \in Name \cup {NoOwner} /\ <<>> \in Task
  BY SettingsOfProcess DEF Inv, Start, Task
<1>2. frame \in Frame /\ frame.position = 1
  BY <1>1, NewFrames DEF NewCommandsFrame
<1>3. Items(frame) = CommandItems(commandLine, NoOwner, <<>>)
  BY DEF Items, NewCommandsFrame
<1>4. Total(settings, commandLine, frame, 1) = plan
  BY <1>1, <1>3 DEF Total, Here, PlanOf, OnPlan
<1>5. EndsAtFailure(Items(frame))
  BY <1>1, <1>3, CommandItemsType DEF EndsAtFailure
<1>6. /\ stack' = frames /\ UNCHANGED <<settings, commandLine, log, plan>>
      /\ ret' = None /\ log = <<>> /\ process' = "running"
  BY DEF Start, Inv, ContextPerCall, OnPlan
<1> HIDE DEF frame
<1>7. frames \in Seq(Frame) /\ Len(frames) = 1 /\ frames # <<>> /\ frames[1] = frame
  BY <1>2
<1>8. base \in [1..1 -> Nat] /\ base[1] = 0
  OBVIOUS
<1> HIDE DEF frames, base
<1>9. 1 \in 1..MaxDepth /\ 1 <= MaxDepth
  BY ConfigurationAssumption
<1>10. Stands(settings, commandLine, frame, 1, 0, None, 0)
  BY <1>1, <1>2, <1>9, NewFrameStands
<1>11. Placed(settings, commandLine, frames, base, plan)
  <2>1. plan.tasks \in Seq(Task)
    BY PlanOfProcess DEF Inv
  <2>2. Occurs(plan.tasks, plan.tasks, 0)
    BY <2>1 DEF Occurs
  <2>3. \A i \in 1..Len(frames) :
          Occurs(Total(settings, commandLine, frames[i], i).tasks, plan.tasks, base[i])
    BY <1>4, <1>7, <1>8, <2>2
  <2>4. 1..(Len(frames) - 1) = {}
    BY <1>7
  <2> QED
    BY <1>4, <1>7, <1>8, <2>3, <2>4 DEF Placed
<1>12. Along(settings, commandLine, frames, base, None, 0, plan)
  BY <1>7, <1>8, <1>10, <1>11 DEF Along
<1>13. Len(log) = 0
  BY <1>6
<1>14. \E b : Along(settings, commandLine, frames, b, None, Len(log), plan)
  BY <1>12, <1>13
<1>15. (\E b : Along(settings, commandLine, stack, b, ret, Len(log), plan))'
  BY <1>6, <1>14
<1>16. (\A i \in 1..Len(stack) : EndsAtFailure(Items(stack[i])))'
  BY <1>5, <1>6, <1>7
<1> QED
  BY <1>6, <1>7, <1>9, <1>15, <1>16 DEF OnPlan

\* What a process is at while it runs
LEMMA TopOnPlan ==
  ASSUME Inv, OnPlan, Running
  PROVE  /\ IsSettings(settings) /\ commandLine \in Seq(Name)
         /\ stack \in Seq(Frame) /\ Len(stack) \in Nat \ {0}
         /\ Len(stack) \in 1..Len(stack) /\ Len(stack) \in 1..MaxDepth
         /\ Top \in Frame /\ Top = stack[Len(stack)] /\ EndsAtFailure(Items(Top))
         /\ plan.tasks \in Seq(Task)
         /\ \E base :
              /\ Placed(settings, commandLine, stack, base, plan)
              /\ base[Len(stack)] \in Nat
              /\ Along(settings, commandLine, stack, base, ret, Len(log), plan)
              /\ Stands(settings, commandLine, Top, Len(stack), base[Len(stack)],
                        ret, Len(log))
<1>1. /\ IsSettings(settings) /\ commandLine \in Seq(Name) /\ stack \in Seq(Frame)
      /\ Len(stack) \in Nat \ {0} /\ Len(stack) \in 1..Len(stack)
      /\ Top \in Frame /\ Top = stack[Len(stack)] /\ stack # <<>>
  BY TopFrame, SettingsOfProcess DEF Inv, TypeOK, Running, Top
<1>2. Len(stack) \in 1..MaxDepth /\ EndsAtFailure(Items(Top))
  BY <1>1, ConfigurationAssumption DEF OnPlan
<1>3. PICK base : Along(settings, commandLine, stack, base, ret, Len(log), plan)
  BY DEF OnPlan, Running
<1>4. /\ Placed(settings, commandLine, stack, base, plan)
      /\ Stands(settings, commandLine, Top, Len(stack), base[Len(stack)], ret, Len(log))
  BY <1>1, <1>3 DEF Along
<1>5. base[Len(stack)] \in Nat
  BY <1>1, <1>4 DEF Placed
<1> QED
  BY <1>1, <1>2, <1>3, <1>4, <1>5, PlanOfProcess DEF Inv


-----------------------------------------------------------------------------
(* The three ways a step changes the stack *)

\* The process has died for want of room.
LEMMA OnPlanCrash ==
  ASSUME OnPlan, process' = "crashed",
         UNCHANGED <<settings, commandLine, stack, plan>>
  PROVE  OnPlan'
BY DEF OnPlan

LEMMA OnPlanCall ==
  ASSUME Inv, OnPlan, Running, ret = None, ~AtEnd(Top),
         NEW frame \in Frame, frame.position = 1, EndsAtFailure(Items(frame)),
         Items(Top)[Top.position].op \notin {"register", "fail"},
         Items(frame) = Meaning(settings, commandLine, Items(Top)[Top.position]),
         Call(frame), UNCHANGED plan
  PROVE  OnPlan'
<1> DEFINE N == Len(stack)
<1>1. /\ IsSettings(settings) /\ commandLine \in Seq(Name) /\ stack \in Seq(Frame)
      /\ N \in Nat \ {0} /\ N \in 1..MaxDepth /\ Top \in Frame /\ Top = stack[N]
      /\ plan.tasks \in Seq(Task)
      /\ \E base : Along(settings, commandLine, stack, base, None, Len(log), plan)
  BY TopOnPlan
<1>2. UNCHANGED <<settings, commandLine, ret>>
  BY DEF Call
<1>3. CASE process' = "crashed" /\ UNCHANGED stack
  BY <1>2, <1>3, OnPlanCrash
<1>4. CASE N < MaxDepth /\ stack' = Append(stack, frame) /\ UNCHANGED executorState
  <2>1. N \in 1..(MaxDepth - 1) /\ N + 1 <= MaxDepth
    BY <1>1, <1>4, ConfigurationAssumption
  <2>2. Total(settings, commandLine, frame, N + 1)
          = AtItem(settings, commandLine, stack[N], N)
    BY <1>1, <2>1, CalledForItem
  <2>3. \E longer : Along(settings, commandLine, Append(stack, frame), longer, None,
                          Len(log), plan)
    BY <1>1, <2>1, <2>2, AlongCall
  <2>4. UNCHANGED <<log, process>>
    BY <1>4 DEF executorState
  <2>5. (\E base : Along(settings, commandLine, stack, base, ret, Len(log), plan))'
    BY <1>2, <1>4, <2>3, <2>4
  <2>6. Len(stack') = N + 1 /\ stack'[N + 1] = frame /\ \A i \in 1..N : stack'[i] = stack[i]
    BY <1>1, <1>4
  <2>7. (\A i \in 1..Len(stack) : EndsAtFailure(Items(stack[i])))'
    <3>1. ASSUME NEW i \in 1..Len(stack') PROVE EndsAtFailure(Items(stack'[i]))
      <4>1. i \in 1..N \/ i = N + 1
        BY <1>1, <2>6
      <4> QED
        BY <2>6, <4>1 DEF OnPlan
    <3> QED
      BY <3>1
  <2> HIDE DEF N
  <2> QED
    BY <1>2, <2>1, <2>4, <2>5, <2>6, <2>7 DEF OnPlan
<1> QED
  BY <1>3, <1>4 DEF Call

LEMMA OnPlanReturn ==
  ASSUME Inv, OnPlan, Running, NEW result \in {Ok, Failed}, Unwind(result),
         UNCHANGED <<settings, commandLine, executorState, plan>>,
         NEW base, Placed(settings, commandLine, stack, base, plan),
         Total(settings, commandLine, Top, Len(stack)).ok = (result = Ok),
         Len(log) = base[Len(stack)]
                      + Len(Total(settings, commandLine, Top, Len(stack)).tasks)
  PROVE  OnPlan'
<1> DEFINE N == Len(stack)
<1>1. /\ stack \in Seq(Frame) /\ stack # <<>> /\ Top = stack[N] /\ N \in Nat \ {0}
      /\ plan.tasks \in Seq(Task) /\ N <= MaxDepth
  BY TopOnPlan DEF Running, OnPlan
<1>2. Pop /\ ret' = result /\ UNCHANGED <<log, process>>
  BY DEF Unwind, executorState
<1>3. /\ stack' \in Seq(Frame) /\ Len(stack') = N - 1
      /\ \A i \in 1..(N - 1) : stack'[i] = stack[i]
  BY <1>2, PoppedStack DEF Inv
<1>4. \E below : Along(settings, commandLine, stack', below, result, Len(log), plan)
  BY <1>1, <1>3, AlongReturn
<1>5. (\E below : Along(settings, commandLine, stack, below, ret, Len(log), plan))'
  BY <1>2, <1>4
<1>6. (\A i \in 1..Len(stack) : EndsAtFailure(Items(stack[i])))'
  <2>1. ASSUME NEW i \in 1..Len(stack') PROVE EndsAtFailure(Items(stack'[i]))
    <3>1. i \in 1..N /\ stack'[i] = stack[i]
      BY <1>1, <1>3
    <3> QED
      BY <3>1 DEF OnPlan
  <2> QED
    BY <2>1
<1>7. Len(stack') <= MaxDepth
  BY <1>1, <1>3, ConfigurationAssumption
<1> QED
  BY <1>2, <1>5, <1>6, <1>7 DEF OnPlan, Running

LEMMA OnPlanGoto ==
  ASSUME Inv, OnPlan, Running, NEW position \in Nat \ {0}, Goto(position),
         ret' = None,
         UNCHANGED <<settings, commandLine, executorState, plan>>,
         NEW base, Placed(settings, commandLine, stack, base, plan),
         Stands(settings, commandLine, [Top EXCEPT !.position = position],
                Len(stack), base[Len(stack)], None, Len(log))
  PROVE  OnPlan'
<1> DEFINE N == Len(stack)
           moved == [Top EXCEPT !.position = position]
<1>1. /\ stack \in Seq(Frame) /\ stack # <<>> /\ Top = stack[N] /\ N \in Nat \ {0}
      /\ Top \in Frame /\ EndsAtFailure(Items(Top)) /\ N <= MaxDepth
  BY TopOnPlan DEF Running, OnPlan
<1>2. UNCHANGED <<log, process>> /\ stack' = [stack EXCEPT ![N] = moved]
  BY DEF Goto, Top, executorState
<1>3. moved \in Frame /\ Items(moved) = Items(Top)
  BY <1>1, MovedFrame, MovedItems
<1> HIDE DEF moved
<1>4. /\ Len(stack') = N /\ stack'[N] = moved
      /\ \A i \in 1..(N - 1) : stack'[i] = stack[i]
  BY <1>1, <1>2
<1>5. \E same : Along(settings, commandLine, stack', same, None, Len(log), plan)
  BY <1>1, <1>2, <1>3, AlongMove DEF moved
<1>6. (\E same : Along(settings, commandLine, stack, same, ret, Len(log), plan))'
  BY <1>2, <1>5
<1>7. (\A i \in 1..Len(stack) : EndsAtFailure(Items(stack[i])))'
  <2>1. ASSUME NEW i \in 1..Len(stack') PROVE EndsAtFailure(Items(stack'[i]))
    <3>1. i \in 1..(N - 1) \/ i = N
      BY <1>1, <1>4
    <3>2. CASE i \in 1..(N - 1)
      <4>1. i \in 1..N /\ stack'[i] = stack[i]
        BY <1>1, <1>4, <3>2
      <4> QED
        BY <4>1 DEF OnPlan
    <3>3. CASE i = N
      BY <1>1, <1>3, <1>4, <3>3
    <3> QED
      BY <3>1, <3>2, <3>3
  <2> QED
    BY <2>1
<1> QED
  BY <1>1, <1>2, <1>4, <1>6, <1>7 DEF OnPlan, Running


-----------------------------------------------------------------------------
(* The steps *)

\* The top is at an item it has not begun.
LEMMA AtReached ==
  ASSUME Inv, OnPlan, Running, ret = None, ~AtEnd(Top)
  PROVE  \E base :
           /\ Placed(settings, commandLine, stack, base, plan)
           /\ base[Len(stack)] \in Nat
           /\ Reached(settings, commandLine, Top, Len(stack), base[Len(stack)],
                      Len(log))
BY TopOnPlan DEF Stands, Completed

\* The top has called for an item, which is through.
LEMMA AtReturned ==
  ASSUME Inv, OnPlan, Running, ret # None
  PROVE  /\ ~AtEnd(Top)
         /\ \E base : \E m \in Nat :
              /\ Placed(settings, commandLine, stack, base, plan)
              /\ base[Len(stack)] \in Nat
              /\ Reached(settings, commandLine, Top, Len(stack),
                         base[Len(stack)], m)
              /\ Len(log) = m + Len(AtItem(settings, commandLine, Top,
                                           Len(stack)).tasks)
              /\ AtItem(settings, commandLine, Top, Len(stack)).ok = (ret = Ok)
<1>1. ~AtEnd(Top)
  BY TopOnPlan DEF Inv, CallersWait
<1> QED
  BY <1>1, TopOnPlan DEF Stands

LEMMA CommandsEndAtFailure ==
  ASSUME NEW commands \in Seq(Name), NEW owner \in Name \cup {NoOwner},
         NEW task \in Task
  PROVE  /\ EndsAtFailure(Items(NewCommandsFrame(commands, owner, task)))
         /\ Items(NewCommandsFrame(commands, owner, task))
              = CommandItems(commands, owner, task)
<1>1. Items(NewCommandsFrame(commands, owner, task))
        = CommandItems(commands, owner, task)
  BY DEF Items, NewCommandsFrame
<1> QED
  BY <1>1, CommandItemsType DEF EndsAtFailure

LEMMA OnPlanApplyPlugin ==
  ASSUME Inv, OnPlan, ApplyPlugin, UNCHANGED plan
  PROVE  OnPlan'
<1> DEFINE item == Items(Top)[Top.position]
           program == Program(settings, commandLine, Current(Top),
                              InitialCommand(Top), Top.task)
           frame == NewPluginFrame(program)
<1>1. /\ Running /\ ret = None /\ ~AtEnd(Top) /\ Top.kind = "commands"
      /\ Current(Top) \in Plugin /\ Call(frame)
  BY DEF ApplyPlugin
<1>2. /\ IsSettings(settings) /\ commandLine \in Seq(Name) /\ Top \in Frame
      /\ InitialCommand(Top) \in Name /\ Top.task \in Task
  BY <1>1, TopOnPlan, FrameCurrent, FrameWork
<1>3. program \in Seq(Step) /\ EndsAtFailure(program)
  BY <1>1, <1>2, ProgramSteps, ProgramEndsAtFailure
<1>4. frame \in Frame /\ frame.position = 1 /\ Items(frame) = program
  BY <1>3, NewFrames DEF NewPluginFrame, Items
<1>5. /\ item.op = "command" /\ item.name = Current(Top)
      /\ item.initial = InitialCommand(Top) /\ item.task = Top.task
  BY <1>1, <1>2, CurrentItem
<1>6. Meaning(settings, commandLine, item) = program
  BY <1>1, <1>5 DEF Meaning
<1> HIDE DEF item, program, frame
<1>7. Items(Top)[Top.position].op \notin {"register", "fail"}
  BY <1>5 DEF item
<1>8. Items(frame) = Meaning(settings, commandLine, Items(Top)[Top.position])
  BY <1>4, <1>6 DEF item
<1> QED
  BY <1>1, <1>3, <1>4, <1>7, <1>8, OnPlanCall

LEMMA OnPlanApplyCommand ==
  ASSUME Inv, OnPlan, ApplyCommand, UNCHANGED plan
  PROVE  OnPlan'
<1> DEFINE item == Items(Top)[Top.position]
           commands == settings.commands[Current(Top)]
           frame == NewCommandsFrame(commands, Current(Top), Top.task)
<1>1. /\ Running /\ ret = None /\ ~AtEnd(Top) /\ Top.kind = "commands"
      /\ Current(Top) \in DOMAIN settings.commands /\ Current(Top) \notin Plugin
      /\ Call(frame)
  BY DEF ApplyCommand
<1>2. Top \in Frame /\ Current(Top) \in Name /\ Top.task \in Task
  BY <1>1, TopOnPlan, FrameCurrent, FrameWork
<1>3. commands \in Seq(Name)
  BY <1>1, SettingsOfProcess DEF Inv
<1>4. Current(Top) # NoOwner \/ Current(Top) = NoOwner
  OBVIOUS
<1>5. frame \in Frame /\ frame.position = 1
  BY <1>2, <1>3, NewFrames DEF NewCommandsFrame
<1>6. /\ Items(frame) = CommandItems(commands, Current(Top), Top.task)
      /\ EndsAtFailure(Items(frame))
  BY <1>2, <1>3, CommandsEndAtFailure
<1>7. item.op = "command" /\ item.name = Current(Top) /\ item.task = Top.task
  BY <1>1, <1>2, CurrentItem
<1>8. Meaning(settings, commandLine, item)
        = CommandItems(commands, Current(Top), Top.task)
  BY <1>1, <1>7 DEF Meaning
<1> HIDE DEF item, commands, frame
<1>9. Items(Top)[Top.position].op \notin {"register", "fail"}
  BY <1>7 DEF item
<1>10. Items(frame) = Meaning(settings, commandLine, Items(Top)[Top.position])
  BY <1>6, <1>8 DEF item
<1> QED
  BY <1>1, <1>5, <1>6, <1>9, <1>10, OnPlanCall

LEMMA OnPlanExecuteCommands ==
  ASSUME Inv, OnPlan, ExecuteCommands, UNCHANGED plan
  PROVE  OnPlan'
<1> DEFINE step == Current(Top)
           frame == NewCommandsFrame(step.commands, NoOwner, step.task)
<1>1. /\ Running /\ ret = None /\ ~AtEnd(Top) /\ Top.kind = "plugin"
      /\ step.op = "execute" /\ Call(frame)
  BY DEF ExecuteCommands
<1>2. Top \in Frame /\ step \in Step
  BY <1>1, TopOnPlan, FrameCurrent
<1>3. step.commands \in Seq(Name) /\ step.task \in Task
  BY <1>2 DEF Step
<1>4. frame \in Frame /\ frame.position = 1
  BY <1>3, NewFrames DEF NewCommandsFrame
<1>5. /\ Items(frame) = CommandItems(step.commands, NoOwner, step.task)
      /\ EndsAtFailure(Items(frame))
  BY <1>3, CommandsEndAtFailure
<1>6. Items(Top)[Top.position] = step
  BY <1>1, <1>2, CurrentItem
<1>7. Items(frame) = Meaning(settings, commandLine, step)
  BY <1>1, <1>5 DEF Meaning
<1> HIDE DEF step, frame
<1>8. step.op \notin {"register", "fail"}
  BY <1>1
<1> QED
  BY <1>1, <1>4, <1>5, <1>6, <1>7, <1>8, OnPlanCall

\* The top returns false for the item it is at, and is through.
LEMMA OnPlanFails ==
  ASSUME Inv, OnPlan, Running, Unwind(Failed),
         UNCHANGED <<settings, commandLine, executorState, plan>>,
         NEW base, Placed(settings, commandLine, stack, base, plan),
         base[Len(stack)] \in Nat,
         Failing(settings, commandLine, Top, Len(stack), base[Len(stack)], Len(log)),
         Items(Top)[Top.position].otherwise = 0
  PROVE  OnPlan'
<1>1. /\ IsSettings(settings) /\ commandLine \in Seq(Name) /\ Top \in Frame
      /\ Len(stack) \in 1..MaxDepth
  BY TopOnPlan
<1>2. Through(settings, commandLine, Top, Len(stack), base[Len(stack)], Len(log))
  BY <1>1, FailingThrough
<1>3. /\ Total(settings, commandLine, Top, Len(stack)).ok = (Failed = Ok)
      /\ Len(log) = base[Len(stack)]
                      + Len(Total(settings, commandLine, Top, Len(stack)).tasks)
  BY <1>2 DEF Through, Failed, Ok
<1> QED
  BY <1>3, OnPlanReturn

LEMMA OnPlanUnknownCommand ==
  ASSUME Inv, OnPlan, UnknownCommand, UNCHANGED plan
  PROVE  OnPlan'
<1>1. /\ Running /\ ret = None /\ ~AtEnd(Top) /\ Top.kind = "commands"
      /\ Current(Top) \notin DOMAIN settings.commands \cup Plugin
      /\ Unwind(Failed) /\ UNCHANGED <<settings, commandLine, executorState>>
  BY DEF UnknownCommand
<1>2. /\ IsSettings(settings) /\ commandLine \in Seq(Name) /\ Top \in Frame
      /\ Len(stack) \in 1..MaxDepth
  BY <1>1, TopOnPlan
<1>3. PICK base :
        /\ Placed(settings, commandLine, stack, base, plan)
        /\ base[Len(stack)] \in Nat
        /\ Reached(settings, commandLine, Top, Len(stack), base[Len(stack)], Len(log))
  BY <1>1, AtReached
<1>4. /\ Items(Top)[Top.position].op = "command"
      /\ Items(Top)[Top.position].otherwise = 0
      /\ Items(Top)[Top.position].name = Current(Top)
  BY <1>1, <1>2, CurrentItem
<1>5. /\ AtItem(settings, commandLine, Top, Len(stack)).tasks = <<>>
      /\ AtItem(settings, commandLine, Top, Len(stack)).ok = FALSE
  <2>1. Items(Top)[Top.position].name \notin DOMAIN settings.commands \cup Plugin
    BY <1>1, <1>4
  <2> QED
    BY <1>1, <1>2, <1>4, <2>1, ItemAtOnce, ZenonT(30)
<1>6. Len(log) = Len(log) + Len(AtItem(settings, commandLine, Top, Len(stack)).tasks)
  <2>1. Len(log) \in Nat
    BY DEF Inv, TypeOK, ExecutorTypeOK
  <2> QED
    BY <1>5, <2>1
<1>7. Failing(settings, commandLine, Top, Len(stack), base[Len(stack)], Len(log))
  <2>1. Len(log) \in Nat
    BY DEF Inv, TypeOK, ExecutorTypeOK
  <2> QED
    BY <1>3, <1>5, <1>6, <2>1, Zenon DEF Failing
<1> QED
  BY <1>1, <1>3, <1>4, <1>7, OnPlanFails

LEMMA OnPlanInputError ==
  ASSUME Inv, OnPlan, InputError, UNCHANGED plan
  PROVE  OnPlan'
<1>1. /\ Running /\ ret = None /\ ~AtEnd(Top) /\ Top.kind = "plugin"
      /\ Current(Top).op = "fail"
      /\ Unwind(Failed) /\ UNCHANGED <<settings, commandLine, executorState>>
  BY DEF InputError
<1>2. /\ IsSettings(settings) /\ commandLine \in Seq(Name) /\ Top \in Frame
      /\ Len(stack) \in 1..MaxDepth /\ EndsAtFailure(Items(Top))
  BY <1>1, TopOnPlan
<1>3. PICK base :
        /\ Placed(settings, commandLine, stack, base, plan)
        /\ base[Len(stack)] \in Nat
        /\ Reached(settings, commandLine, Top, Len(stack), base[Len(stack)], Len(log))
  BY <1>1, AtReached
<1>4. /\ Top.position \in 1..Len(Items(Top))
      /\ Items(Top)[Top.position].op = "fail"
  BY <1>1, <1>2, CurrentItem
<1>5. Items(Top)[Top.position].otherwise = 0
  BY <1>2, <1>4 DEF EndsAtFailure
<1>6. AtItem(settings, commandLine, Top, Len(stack)) = [tasks |-> <<>>, ok |-> FALSE]
  BY <1>1, <1>2, <1>4, ItemAtOnce
<1>7. /\ AtItem(settings, commandLine, Top, Len(stack)).ok = FALSE
      /\ AtItem(settings, commandLine, Top, Len(stack)).tasks = <<>>
  BY <1>6
<1>8. Len(log) = Len(log) + Len(AtItem(settings, commandLine, Top, Len(stack)).tasks)
  BY <1>7 DEF Inv, TypeOK, ExecutorTypeOK
<1>9. Failing(settings, commandLine, Top, Len(stack), base[Len(stack)], Len(log))
  <2>1. Len(log) \in Nat
    BY DEF Inv, TypeOK, ExecutorTypeOK
  <2> QED
    BY <1>3, <1>7, <1>8, <2>1, Zenon DEF Failing
<1> QED
  BY <1>1, <1>3, <1>5, <1>9, OnPlanFails

LEMMA OnPlanReturnFalse ==
  ASSUME Inv, OnPlan, ReturnFalse, UNCHANGED plan
  PROVE  OnPlan'
<1>1. /\ Running /\ ret = Failed /\ Propagates(Top) /\ Unwind(Failed)
      /\ UNCHANGED <<settings, commandLine, executorState>>
  BY DEF ReturnFalse
<1>2. ret # None /\ (ret = Ok) = FALSE
  BY <1>1 DEF None, Ok, Failed
<1>3. /\ ~AtEnd(Top)
      /\ \E base : \E m \in Nat :
           /\ Placed(settings, commandLine, stack, base, plan)
           /\ base[Len(stack)] \in Nat
           /\ Reached(settings, commandLine, Top, Len(stack), base[Len(stack)], m)
           /\ Len(log) = m + Len(AtItem(settings, commandLine, Top, Len(stack)).tasks)
           /\ AtItem(settings, commandLine, Top, Len(stack)).ok = (ret = Ok)
  BY <1>1, <1>2, AtReturned
<1>4. Items(Top)[Top.position].otherwise = 0
  <2>1. Top \in Frame /\ Top.kind \in {"commands", "plugin"}
    BY <1>1, TopOnPlan, FrameWork
  <2> QED
    BY <1>1, <1>3, <2>1, CurrentItem DEF Propagates
<1>5. \E base :
        /\ Placed(settings, commandLine, stack, base, plan)
        /\ base[Len(stack)] \in Nat
        /\ Failing(settings, commandLine, Top, Len(stack), base[Len(stack)], Len(log))
  BY <1>2, <1>3 DEF Failing
<1> QED
  BY <1>1, <1>4, <1>5, OnPlanFails

LEMMA OnPlanReturnTrue ==
  ASSUME Inv, OnPlan, ReturnTrue, UNCHANGED plan
  PROVE  OnPlan'
<1>1. /\ Running /\ ret = None /\ AtEnd(Top) /\ Unwind(Ok)
      /\ UNCHANGED <<settings, commandLine, executorState>>
  BY DEF ReturnTrue
<1>2. PICK base :
        /\ Placed(settings, commandLine, stack, base, plan)
        /\ Stands(settings, commandLine, Top, Len(stack), base[Len(stack)],
                  None, Len(log))
  BY <1>1, TopOnPlan
<1>3. ~(Top.position \in 1..Len(Items(Top)))
  <2>1. Top \in Frame
    BY <1>1, TopOnPlan
  <2> QED
    BY <1>1, <2>1, FrameItems, FrameWork DEF AtEnd
<1>4. Completed(settings, commandLine, Top, Len(stack), base[Len(stack)], Len(log))
  BY <1>2, <1>3 DEF Stands, Reached
<1>5. Total(settings, commandLine, Top, Len(stack)).ok = (Ok = Ok)
  BY <1>4 DEF Completed
<1> QED
  BY <1>1, <1>2, <1>4, <1>5, OnPlanReturn DEF Completed

LEMMA OnPlanCalleeSucceeded ==
  ASSUME Inv, OnPlan, CalleeSucceeded, UNCHANGED plan
  PROVE  OnPlan'
<1>1. /\ Running /\ ret = Ok /\ Goto(Top.position + 1) /\ ret' = None
      /\ UNCHANGED <<settings, commandLine, executorState>>
  BY DEF CalleeSucceeded
<1>2. ret # None /\ (ret = Ok) = TRUE
  BY <1>1 DEF None, Ok
<1>3. PICK base : \E m \in Nat :
        /\ Placed(settings, commandLine, stack, base, plan)
        /\ base[Len(stack)] \in Nat
        /\ Reached(settings, commandLine, Top, Len(stack), base[Len(stack)], m)
        /\ Len(log) = m + Len(AtItem(settings, commandLine, Top, Len(stack)).tasks)
        /\ AtItem(settings, commandLine, Top, Len(stack)).ok = (ret = Ok)
  BY <1>1, <1>2, AtReturned
<1>4. /\ IsSettings(settings) /\ commandLine \in Seq(Name) /\ Top \in Frame
      /\ Len(stack) \in 1..MaxDepth
  BY <1>1, TopOnPlan
<1> DEFINE moved == [Top EXCEPT !.position = Top.position + 1]
<1>5. Top.position + 1 \in Nat \ {0} /\ moved \in Frame
  <2>1. Top.position \in Nat \ {0}
    BY <1>4, FrameWork
  <2>2. Top.position + 1 \in Nat \ {0}
    BY <2>1
  <2> QED
    BY <1>4, <2>2, MovedFrame
<1>6. Stands(settings, commandLine, moved, Len(stack), base[Len(stack)], None, Len(log))
  <2>1. PICK m \in Nat :
          /\ Reached(settings, commandLine, Top, Len(stack), base[Len(stack)], m)
          /\ Len(log) = m + Len(AtItem(settings, commandLine, Top, Len(stack)).tasks)
          /\ AtItem(settings, commandLine, Top, Len(stack)).ok = TRUE
    BY <1>2, <1>3
  <2>2. moved = [Top EXCEPT !.position = Top.position + 1]
    OBVIOUS
  <2> HIDE DEF moved
  <2>3. Stands(settings, commandLine, moved, Len(stack), base[Len(stack)], None,
               m + Len(AtItem(settings, commandLine, Top, Len(stack)).tasks))
    BY <1>3, <1>4, <1>5, <2>1, <2>2, ItemSucceeds, Zenon
  <2> QED
    BY <2>1, <2>3, Zenon
<1> HIDE DEF moved
<1> QED
  BY <1>1, <1>3, <1>5, <1>6, OnPlanGoto DEF moved

LEMMA OnPlanIgnoreFailure ==
  ASSUME Inv, OnPlan, IgnoreFailure, UNCHANGED plan
  PROVE  OnPlan'
<1> DEFINE next == Current(Top).otherwise
           moved == [Top EXCEPT !.position = next]
<1>1. /\ Running /\ ret = Failed /\ ~Propagates(Top) /\ Goto(next) /\ ret' = None
      /\ UNCHANGED <<settings, commandLine, executorState>>
  BY DEF IgnoreFailure
<1>2. ret # None /\ (ret = Ok) = FALSE
  BY <1>1 DEF None, Ok, Failed
<1>3. ~AtEnd(Top)
  BY <1>1, <1>2, AtReturned
<1>4. PICK base : \E m \in Nat :
        /\ Placed(settings, commandLine, stack, base, plan)
        /\ base[Len(stack)] \in Nat
        /\ Reached(settings, commandLine, Top, Len(stack), base[Len(stack)], m)
        /\ Len(log) = m + Len(AtItem(settings, commandLine, Top, Len(stack)).tasks)
        /\ AtItem(settings, commandLine, Top, Len(stack)).ok = (ret = Ok)
  BY <1>1, <1>2, AtReturned
<1>5. /\ IsSettings(settings) /\ commandLine \in Seq(Name) /\ Top \in Frame
      /\ Len(stack) \in 1..MaxDepth /\ EndsAtFailure(Items(Top))
  BY <1>1, TopOnPlan
<1>6. Top.kind = "plugin" /\ next # 0
  BY <1>1 DEF Propagates
<1>7. /\ Top.position \in 1..Len(Items(Top))
      /\ Items(Top)[Top.position].otherwise = next
  BY <1>3, <1>5, <1>6, CurrentItem
<1>8. next = Len(Items(Top)) + 1
  BY <1>5, <1>6, <1>7 DEF EndsAtFailure
<1>9. next \in Nat \ {0} /\ Len(Items(Top)) \in Nat
  BY <1>5, <1>8, FrameItems
<1>10. /\ Items(moved) = Items(Top) /\ moved.position = next
       /\ Len(Work(moved)) = Len(Items(Top))
  BY <1>5, <1>9, MovedItems
<1>11. /\ Total(settings, commandLine, Top, Len(stack)).ok = (next # 0)
       /\ Len(log) = base[Len(stack)]
                       + Len(Total(settings, commandLine, Top, Len(stack)).tasks)
  <2>1. Failing(settings, commandLine, Top, Len(stack), base[Len(stack)], Len(log))
    BY <1>2, <1>4 DEF Failing
  <2>2. Through(settings, commandLine, Top, Len(stack), base[Len(stack)], Len(log))
    BY <1>4, <1>5, <2>1, FailingThrough
  <2> QED
    BY <1>7, <2>2 DEF Through
<1> HIDE DEF next, moved
<1>12. Total(settings, commandLine, moved, Len(stack))
         = Total(settings, commandLine, Top, Len(stack))
  BY <1>10 DEF Total
<1>13. AtEnd(moved)
  BY <1>8, <1>9, <1>10 DEF AtEnd
<1>14. Stands(settings, commandLine, moved, Len(stack), base[Len(stack)], None, Len(log))
  BY <1>6, <1>11, <1>12, <1>13 DEF Stands, Completed
<1> QED
  BY <1>1, <1>4, <1>9, <1>14, OnPlanGoto DEF moved


\* The top has a task to register.
LEMMA AtTask ==
  ASSUME Inv, OnPlan, RegisterTask
  PROVE  /\ Current(Top).task \in Task
         /\ AtItem(settings, commandLine, Top, Len(stack))
              = [tasks |-> <<Current(Top).task>>, ok |-> TRUE]
         /\ \E base :
              /\ Placed(settings, commandLine, stack, base, plan)
              /\ base[Len(stack)] \in Nat
              /\ Reached(settings, commandLine, Top, Len(stack), base[Len(stack)],
                         Len(log))
<1>1. /\ Running /\ ret = None /\ ~AtEnd(Top) /\ Top.kind = "plugin"
      /\ Current(Top).op = "register"
  BY DEF RegisterTask
<1>2. /\ IsSettings(settings) /\ commandLine \in Seq(Name) /\ Top \in Frame
      /\ Len(stack) \in 1..MaxDepth
  BY <1>1, TopOnPlan
<1>3. Items(Top)[Top.position] = Current(Top) /\ Current(Top) \in Step
  BY <1>1, <1>2, CurrentItem, FrameCurrent
<1>4. Current(Top).task \in Task
  BY <1>3 DEF Step
<1>5. AtItem(settings, commandLine, Top, Len(stack))
        = [tasks |-> <<Items(Top)[Top.position].task>>, ok |-> TRUE]
  BY <1>1, <1>2, <1>3, ItemAtOnce
<1> QED
  BY <1>1, <1>3, <1>4, <1>5, AtReached

\* It is the next one of the plan.
LEMMA NextOfPlan ==
  ASSUME Inv, OnPlan, RegisterTask
  PROVE  Len(log) < Len(plan.tasks) /\ plan.tasks[Len(log) + 1] = Current(Top).task
<1> DEFINE tasks == AtItem(settings, commandLine, Top, Len(stack)).tasks
<1>1. /\ IsSettings(settings) /\ commandLine \in Seq(Name) /\ Top \in Frame
      /\ Len(stack) \in 1..MaxDepth /\ Len(stack) \in 1..Len(stack)
      /\ Top = stack[Len(stack)] /\ plan.tasks \in Seq(Task)
  BY TopOnPlan DEF RegisterTask
<1>2. PICK base :
        /\ Placed(settings, commandLine, stack, base, plan)
        /\ base[Len(stack)] \in Nat
        /\ Reached(settings, commandLine, Top, Len(stack), base[Len(stack)], Len(log))
  BY AtTask
<1>3. Occurs(Total(settings, commandLine, Top, Len(stack)).tasks, plan.tasks,
             base[Len(stack)])
  BY <1>1, <1>2 DEF Placed
<1>4. Occurs(tasks, plan.tasks, Len(log))
  BY <1>1, <1>2, <1>3, ReachedNext
<1>5. tasks = <<Current(Top).task>>
  BY AtTask
<1>6. Len(tasks) = 1 /\ tasks[1] = Current(Top).task
  BY <1>5
<1>7. Len(log) \in Nat /\ Len(plan.tasks) \in Nat
  BY <1>1 DEF Inv, TypeOK, ExecutorTypeOK
<1> HIDE DEF tasks
<1>8. Len(log) + 1 <= Len(plan.tasks) /\ plan.tasks[Len(log) + 1] = tasks[1]
  BY <1>4, <1>6 DEF Occurs
<1> QED
  BY <1>6, <1>7, <1>8

LEMMA OnPlanRegisterTask ==
  ASSUME Inv, OnPlan, RegisterTask, UNCHANGED plan
  PROVE  OnPlan'
<1>1. /\ Running /\ process = "running" /\ ExecuteTask(Current(Top).task)
      /\ ret' = Ok /\ UNCHANGED <<settings, commandLine, stack>>
  BY DEF RegisterTask, Running
<1>2. Current(Top).task \in Task
  BY AtTask
<1>3. CASE process' # "running"
  <2>1. process' \in {"exited", "terminated"}
    BY <1>1, <1>2, <1>3, LedgerAfterTask DEF Inv, TypeOK
  <2> QED
    BY <1>1, <2>1 DEF OnPlan
<1>4. CASE process' = "running"
  <2>1. PICK entry \in Entry : log' = Append(log, entry)
    BY <1>1, <1>2, <1>4, TaskOutcomes DEF Inv, TypeOK
  <2>2. Len(log') = Len(log) + 1 /\ Len(log) \in Nat
    BY <2>1 DEF Inv, TypeOK, ExecutorTypeOK
  <2>3. PICK base :
          /\ Placed(settings, commandLine, stack, base, plan)
          /\ Reached(settings, commandLine, Top, Len(stack), base[Len(stack)], Len(log))
    BY AtTask
  <2>4. /\ Len(AtItem(settings, commandLine, Top, Len(stack)).tasks) = 1
        /\ AtItem(settings, commandLine, Top, Len(stack)).ok = TRUE
    BY AtTask
  <2>5. Stands(settings, commandLine, Top, Len(stack), base[Len(stack)], Ok, Len(log'))
    <3>1. (Ok = Ok) = TRUE /\ Ok # None
      BY DEF Ok, None
    <3>2. Len(log') = Len(log)
                        + Len(AtItem(settings, commandLine, Top, Len(stack)).tasks)
      BY <2>2, <2>4
    <3> QED
      BY <2>2, <2>3, <2>4, <3>1, <3>2, Zenon DEF Stands
  <2>6. Along(settings, commandLine, stack, base, Ok, Len(log'), plan)
    BY <1>1, <2>3, <2>5 DEF Along, Top, Running
  <2>7. (\E b : Along(settings, commandLine, stack, b, ret, Len(log), plan))'
    BY <1>1, <2>6
  <2> QED
    BY <1>1, <1>4, <2>7 DEF OnPlan
<1> QED
  BY <1>3, <1>4

LEMMA OnPlanEnds ==
  ASSUME OnPlan, Finish \/ StartWithoutCommands, UNCHANGED plan
  PROVE  OnPlan'
BY DEF OnPlan, Finish, StartWithoutCommands, ReturnFromMain

LEMMA OnPlanNext ==
  ASSUME Inv, OnPlan, [PlannedNext]_<<vars, plan>>
  PROVE  OnPlan'
<1>1. CASE UNCHANGED <<vars, plan>>
  BY <1>1 DEF OnPlan, vars, callVars, executorState
<1>2. CASE Next /\ UNCHANGED plan
  BY <1>2, OnPlanStart, OnPlanEnds, OnPlanApplyPlugin, OnPlanApplyCommand,
     OnPlanUnknownCommand, OnPlanRegisterTask, OnPlanExecuteCommands,
     OnPlanInputError, OnPlanReturnTrue, OnPlanCalleeSucceeded,
     OnPlanReturnFalse, OnPlanIgnoreFailure DEF Next
<1> QED
  BY <1>1, <1>2 DEF PlannedNext

LEMMA OnPlanInit ==
  ASSUME PlannedInit
  PROVE  OnPlan
<1>1. Len(stack) = 0 /\ log = <<>> /\ process = "starting"
  BY DEF PlannedInit, Init, ExecutorInit
<1>2. 0 <= MaxDepth
  BY ConfigurationAssumption
<1> QED
  BY <1>1, <1>2 DEF PlannedInit, OnPlan


-----------------------------------------------------------------------------
(* The refinement *)

\* The executor of ScheduledRun is that of ExecutePlugin.
LEMMA SameExecutor ==
  /\ ExecutorTypeOK = Schedule!ExecutorTypeOK
  /\ ExecutorInit = Schedule!ExecutorInit
  /\ Failures = Schedule!Failures /\ TaskStatus = Schedule!TaskStatus
  /\ \A task \in Task : ExecuteTask(task) = Schedule!ExecuteTask(task)
  /\ \A successful : ReturnFromMain(successful) = Schedule!ReturnFromMain(successful)
  /\ ExitFailure = Schedule!ExitFailure
BY Zenon
DEF ExecutorTypeOK, Schedule!ExecutorTypeOK, Entry, Schedule!Entry,
    NoCode, Schedule!NoCode, Processes, Schedule!Processes,
    ExecutorInit, Schedule!ExecutorInit, Failures, Schedule!Failures,
    LastFailure, Schedule!LastFailure, TaskStatus, Schedule!TaskStatus,
    ExecuteTask, Schedule!ExecuteTask, Report, Schedule!Report,
    RunSuccessfully, Schedule!RunSuccessfully,
    RunFailsAndGoesOn, Schedule!RunFailsAndGoesOn,
    RunFailsAndExits, Schedule!RunFailsAndExits,
    BinaryNotFound, Schedule!BinaryNotFound, Record, Schedule!Record,
    PosixSuccess, Schedule!PosixSuccess, ExitFailure, Schedule!ExitFailure,
    ReturnFromMain, Schedule!ReturnFromMain

LEMMA StepOfSchedule ==
  ASSUME Inv, OnPlan, NoStackOverflow', [PlannedNext]_<<vars, plan>>
  PROVE  [Schedule!Next]_(Schedule!vars)
<1>1. CASE UNCHANGED <<executorState, plan>>
  BY <1>1 DEF executorState, Schedule!vars, Schedule!executorVars
<1>2. CASE UNCHANGED <<vars, plan>>
  BY <1>1, <1>2 DEF vars
<1>3. CASE Start /\ UNCHANGED plan
  <2>1. Schedule!Start
    BY <1>3 DEF Start, Schedule!Start
  <2> QED
    BY <2>1 DEF Schedule!Next
<1>4. CASE StartWithoutCommands /\ UNCHANGED plan
  <2>1. plan = [tasks |-> <<>>, ok |-> FALSE] /\ log = <<>> /\ process = "starting"
    BY <1>4 DEF StartWithoutCommands, OnPlan, PlanOf
  <2>2. Len(log) = Len(plan.tasks)
    BY <2>1
  <2>3. Schedule!ReturnFromMain(plan.ok)
    BY <1>4, <2>1, SameExecutor DEF StartWithoutCommands
  <2>4. Schedule!Finish
    BY <1>4, <2>1, <2>2, <2>3 DEF Schedule!Finish
  <2> QED
    BY <2>4 DEF Schedule!Next
<1>5. CASE Finish /\ UNCHANGED plan
  <2>1. PICK base : Along(settings, commandLine, stack, base, ret, Len(log), plan)
    BY <1>5 DEF Finish, OnPlan
  <2>2. Len(log) = Len(plan.tasks) /\ plan.ok = (ret = Ok)
    BY <1>5, <2>1 DEF Finish, Along
  <2>3. Schedule!ReturnFromMain(plan.ok)
    BY <1>5, <2>2, SameExecutor DEF Finish
  <2>4. Schedule!Finish
    BY <1>5, <2>2, <2>3 DEF Finish, Schedule!Finish
  <2> QED
    BY <2>4 DEF Schedule!Next
<1>6. CASE RegisterTask /\ UNCHANGED plan
  <2>1. Len(log) < Len(plan.tasks) /\ plan.tasks[Len(log) + 1] = Current(Top).task
    BY <1>6, NextOfPlan
  <2>2. Schedule!ExecuteTask(Current(Top).task)
    BY <1>6, AtTask, SameExecutor DEF RegisterTask
  <2>3. Schedule!ExecuteNext
    BY <1>6, <2>1, <2>2 DEF Schedule!ExecuteNext, RegisterTask, Running
  <2> QED
    BY <2>3 DEF Schedule!Next
<1>7. ASSUME NEW frame, Call(frame), UNCHANGED plan
      PROVE  UNCHANGED <<executorState, plan>>
  BY <1>7 DEF Call, NoStackOverflow
<1>8. CASE /\ ApplyPlugin \/ ApplyCommand \/ ExecuteCommands
           /\ UNCHANGED plan
  BY <1>1, <1>7, <1>8 DEF ApplyPlugin, ApplyCommand, ExecuteCommands
<1>9. CASE /\ \/ UnknownCommand \/ InputError \/ ReturnTrue \/ CalleeSucceeded
              \/ ReturnFalse \/ IgnoreFailure
           /\ UNCHANGED plan
  BY <1>1, <1>9 DEF UnknownCommand, InputError, ReturnTrue, CalleeSucceeded,
                    ReturnFalse, IgnoreFailure
<1> QED
  BY <1>2, <1>3, <1>4, <1>5, <1>6, <1>8, <1>9 DEF PlannedNext, Next

LEMMA InitOfSchedule ==
  ASSUME PlannedInit
  PROVE  Schedule!Init
<1>1. IsSettings(settings) /\ commandLine \in Seq(Name)
  BY InitInv, SettingsOfProcess DEF PlannedInit, Inv
<1>2. plan.tasks \in Seq(Task) /\ plan.ok \in BOOLEAN
  BY <1>1, PlanType DEF PlannedInit
<1>3. Schedule!ExecutorInit
  BY SameExecutor DEF PlannedInit, Init
<1> QED
  BY <1>2, <1>3 DEF Schedule!Init

LEMMA PlannedIsSpec == PlannedSpec => Spec
<1>1. PlannedInit => Init
  BY DEF PlannedInit
<1>2. [PlannedNext]_<<vars, plan>> => [Next]_vars
  BY DEF PlannedNext
<1> QED
  BY <1>1, <1>2, PTL DEF PlannedSpec, Spec

\* Where a process is in its plan, at any time
THEOREM StaysOnPlan == PlannedSpec => []OnPlan
<1>1. PlannedInit => OnPlan
  BY OnPlanInit
<1>2. Inv /\ OnPlan /\ [PlannedNext]_<<vars, plan>> => OnPlan'
  BY OnPlanNext
<1>3. PlannedSpec => []Inv
  BY PlannedIsSpec, Invariance, PTL
<1> QED
  BY <1>1, <1>2, <1>3, PTL DEF PlannedSpec

\* A process that does not run out of stack executes the tasks its settings
\* stand for, in order and nothing else, ends early only in the executor, and
\* otherwise returns their status: for all settings and command lines, however
\* commands and plugins are nested, plugins that go on after a failure included.
THEOREM PlanIsExecuted == PlannedSpec /\ []NoStackOverflow => ImplementsSchedule
<1>1. PlannedInit => Schedule!Init
  BY InitOfSchedule
<1>2. Inv /\ OnPlan /\ NoStackOverflow' /\ [PlannedNext]_<<vars, plan>>
        => [Schedule!Next]_(Schedule!vars)
  BY StepOfSchedule
<1>3. PlannedSpec => []Inv
  BY PlannedIsSpec, Invariance, PTL
<1> QED
  BY <1>1, <1>2, <1>3, StaysOnPlan, PTL
  DEF PlannedSpec, ImplementsSchedule, Schedule!Spec

\* Settings in which commands and plugins do not lead back to themselves, so
\* that each name has a height, and a stack that is as high as they need, are
\* enough for it.
THEOREM Refinement ==
  ASSUME \A s \in Configurations : \A line \in CommandLines : \E height :
           IsHeight(height, s, line) /\ HasRoom(height, line, 1)
  PROVE  PlannedSpec => ImplementsSchedule
BY StackSuffices, PlannedIsSpec, PlanIsExecuted, PTL


-----------------------------------------------------------------------------
(* What the refinement says of the end of a process *)

FollowsPlan ==
  \A i \in 1..Len(log) : i <= Len(plan.tasks) /\ log[i].task = plan.tasks[i]

Verdict ==
  process = "returned" =>
    /\ Len(log) = Len(plan.tasks)
    /\ exitCode = IF plan.ok THEN TaskStatus ELSE ExitFailure

ScheduleInv ==
  /\ plan.tasks \in Seq(Task) /\ plan.ok \in BOOLEAN
  /\ ExecutorTypeOK /\ Ledger
  /\ FollowsPlan /\ Verdict

LEMMA ScheduleInvInit == Schedule!Init => ScheduleInv
<1> SUFFICES ASSUME Schedule!Init PROVE ScheduleInv
  OBVIOUS
<1>1. ExecutorInit
  BY SameExecutor DEF Schedule!Init
<1>2. ExecutorTypeOK /\ Ledger
  BY <1>1, LedgerStarts
<1>3. FollowsPlan /\ Verdict
  BY <1>1 DEF ExecutorInit, FollowsPlan, Verdict
<1> QED
  BY <1>2, <1>3 DEF Schedule!Init, ScheduleInv

\* The executor gets the next task of the plan, and nothing else.
LEMMA ExecuteNextInv == ScheduleInv /\ Schedule!ExecuteNext => ScheduleInv'
<1> SUFFICES ASSUME ScheduleInv, Schedule!ExecuteNext PROVE ScheduleInv'
  OBVIOUS
<1> DEFINE task == plan.tasks[Len(log) + 1]
<1>1. /\ log \in Seq(Entry) /\ plan.tasks \in Seq(Task) /\ Len(log) \in Nat
      /\ Len(plan.tasks) \in Nat /\ Len(log) < Len(plan.tasks)
      /\ plan.tasks' = plan.tasks /\ plan.ok' = plan.ok
  BY DEF ScheduleInv, ExecutorTypeOK, Schedule!ExecuteNext
<1>2. task \in Task /\ process = "running"
  BY <1>1 DEF Schedule!ExecuteNext
<1>3. ExecuteTask(task)
  BY <1>2, SameExecutor DEF Schedule!ExecuteNext
<1>4. /\ ExecutorTypeOK' /\ Ledger'
      /\ process' \in {"running", "exited", "terminated"}
  BY <1>2, <1>3, LedgerAfterTask DEF ScheduleInv
<1>5. FollowsPlan'
  <2>1. CASE UNCHANGED log
    BY <1>1, <2>1 DEF FollowsPlan, ScheduleInv
  <2>2. ASSUME NEW entry \in Entry, entry.task = task, log' = Append(log, entry)
        PROVE  FollowsPlan'
    <3>1. Len(log') = Len(log) + 1 /\ log'[Len(log) + 1] = entry
      BY <1>1, <2>2
    <3>2. \A i \in 1..Len(log) : log'[i] = log[i]
      BY <1>1, <2>2
    <3> QED
      BY <1>1, <2>2, <3>1, <3>2 DEF FollowsPlan, ScheduleInv
  <2> QED
    BY <1>2, <1>3, <2>1, <2>2, TaskOutcomes DEF ScheduleInv
<1> QED
  BY <1>1, <1>4, <1>5 DEF ScheduleInv, Verdict

LEMMA FinishInv == ScheduleInv /\ Schedule!Finish => ScheduleInv'
<1> SUFFICES ASSUME ScheduleInv, Schedule!Finish PROVE ScheduleInv'
  OBVIOUS
<1>1. ReturnFromMain(plan.ok) /\ (process = "running" \/ process = "starting")
  BY SameExecutor DEF Schedule!Finish
<1>2. /\ ExecutorTypeOK' /\ Ledger'
      /\ exitCode' = IF plan.ok THEN TaskStatus' ELSE ExitFailure
  BY <1>1, LedgerAfterReturn DEF ScheduleInv
<1>3. /\ plan.tasks' = plan.tasks /\ plan.ok' = plan.ok /\ UNCHANGED log
      /\ Len(log) = Len(plan.tasks)
  BY <1>1 DEF Schedule!Finish, ReturnFromMain
<1> QED
  BY <1>2, <1>3 DEF ScheduleInv, FollowsPlan, Verdict

LEMMA ScheduleInvNext ==
  ScheduleInv /\ [Schedule!Next]_(Schedule!vars) => ScheduleInv'
<1> SUFFICES ASSUME ScheduleInv, [Schedule!Next]_(Schedule!vars)
             PROVE  ScheduleInv'
  OBVIOUS
<1>1. CASE Schedule!Start
  <2>1. ExecutorTypeOK' /\ Ledger'
    BY <1>1, LedgerKept DEF Schedule!Start, ScheduleInv, ExecutorTypeOK, Processes
  <2> QED
    BY <1>1, <2>1 DEF Schedule!Start, ScheduleInv, FollowsPlan, Verdict
<1>2. CASE Schedule!ExecuteNext
  BY <1>2, ExecuteNextInv
<1>3. CASE Schedule!Finish
  BY <1>3, FinishInv
<1>4. CASE UNCHANGED Schedule!vars
  <2>1. UNCHANGED executorState /\ plan.tasks' = plan.tasks /\ plan.ok' = plan.ok
    BY <1>4 DEF Schedule!vars, Schedule!executorVars, executorState
  <2>2. ExecutorTypeOK' /\ Ledger' /\ TaskStatus' = TaskStatus
    BY <2>1, LedgerUnchanged DEF ScheduleInv
  <2> QED
    BY <2>1, <2>2 DEF executorState, ScheduleInv, FollowsPlan, Verdict
<1> QED
  BY <1>1, <1>2, <1>3, <1>4 DEF Schedule!Next

\* What ScheduledRun promises, for plans of any length and any return codes:
\* tasks are executed in the order of the plan, the process returns the status
\* of the last failed one after the whole plan, or 1 for a bad verdict, and it
\* exits early only for a failure.
THEOREM OutcomeHolds == Schedule!Spec => []Schedule!Outcome
<1>1. ScheduleInv => Schedule!Outcome
  BY SameExecutor DEF ScheduleInv, Ledger, FollowsPlan, Verdict, Schedule!Outcome
<1> QED
  BY <1>1, ScheduleInvInit, ScheduleInvNext, PTL DEF Schedule!Spec

\* So the exit status of a process is that of the tasks its settings stand for,
\* and it has executed the first ones of them whenever it ends: the exit status
\* main documents, for plugins that do not report a failure as well.
THEOREM PlanOutcome ==
  ASSUME \A s \in Configurations : \A line \in CommandLines : \E height :
           IsHeight(height, s, line) /\ HasRoom(height, line, 1)
  PROVE  PlannedSpec => []Schedule!Outcome
BY Refinement, OutcomeHolds, PTL DEF ImplementsSchedule

-----------------------------------------------------------------------------
(* Rounds of lcov: what was handed to the executor in between. *)

\* names are, in the settings s, commands that execute command lines and
\* nothing else, in the end: a command-line-command, a valgrind that executes
\* such commands, a command of the settings that lists such commands, or a
\* name nothing knows; and lcov executes such commands only.
LeadsToLines(s, names, p) ==
  \/ PluginType[p] = "command-line-command"
  \/ /\ PluginType[p] = "valgrind"
     /\ \A c \in Name : IsSet(s.runCommand, p, c) =>
                          Variable(s.runCommand, p, c, <<>>) \in Seq(names)

Measured(s, names) ==
  /\ names \subseteq Name
  /\ \A p \in names \cap Plugin : LeadsToLines(s, names, p)
  /\ \A c \in (names \cap DOMAIN s.commands) \ Plugin :
       s.commands[c] \in Seq(names)
  /\ \A p \in Plugin, c \in Name :
       PluginType[p] = "lcov" /\ IsSet(s.runCommand, p, c) =>
         Variable(s.runCommand, p, c, <<>>) \in Seq(names)

MeasuredNames(s) == CHOOSE names \in SUBSET Name : Measured(s, names)
Names == MeasuredNames(settings)

LcovExecutesLines ==
  \A s \in Configurations : \E names \in SUBSET Name : Measured(s, names)

\* A call of some of those names.
Measures(names, step) ==
  /\ step.op = "execute" /\ step.otherwise = 0
  /\ step.commands \in NonEmptyLists(names)

MeasuredStep(names, step) ==
  \/ Measures(names, step)
  \/ step.op = "register" /\ step.otherwise = 0 /\ IsMeasured(step.task)
  \/ step.op = "fail" /\ step.otherwise = 0

MeasuredFrame(names, frame) ==
  IF frame.kind = "commands"
  THEN frame.commands \in NonEmptyLists(names)
  ELSE /\ frame.program # <<>>
       /\ \A j \in 1..Len(frame.program) : MeasuredStep(names, frame.program[j])

\* The steps of a program that are about the rounds of lcov have the steps
\* before them that they need.
Registers(step, tools) == step.op = "register" /\ ToolOf(step.task) \in tools

ZeroBefore(s, program, j) ==
  AsksForZero(s, program[j].task) =>
    /\ j > 2 /\ Registers(program[j - 2], {"zerocounters"})
    /\ SameRound(program[j].task, program[j - 2].task)

CapturesInOrder(s, names, program, j) ==
  Registers(program[j], {"capture"}) =>
    /\ j > 1 /\ Measures(names, program[j - 1])
    /\ ZeroBefore(s, program, j)

ReportsInOrder(program, j) ==
  Registers(program[j], {"remove", "genhtml"}) =>
    /\ j > 1 /\ Registers(program[j - 1], {"capture", "remove"})
    /\ SameRound(program[j].task, program[j - 1].task)

JumpsOverCalls(program, j) ==
  program[j].otherwise # 0 =>
    \A k \in 1..Len(program) : program[k].op # "register"

InOrder(s, names, program) ==
  \A j \in 1..Len(program) : /\ CapturesInOrder(s, names, program, j)
                             /\ ReportsInOrder(program, j)
                             /\ JumpsOverCalls(program, j)

\* What was handed to the executor last
LastIs(task) == log # <<>> /\ log[Len(log)].task = task
LastIsMeasured == log # <<>> /\ IsMeasured(log[Len(log)].task)

\* and since the counters were zeroed for a capture.
MeasuredSinceZero(task) ==
  AsksForZero(settings, task) =>
    \E q \in 1..Len(log) :
      /\ ToolOf(log[q].task) = "zerocounters" /\ SameRound(task, log[q].task)
      /\ \A m \in (q + 1)..Len(log) : IsMeasured(log[m].task)

\* The step of a plugin frame before or after the one it is at.
At(h, j) == stack[h].program[j]
IsStep(h, j) == stack[h].kind = "plugin" /\ j \in 1..Len(stack[h].program)
Position(h) == stack[h].position
AtTop(h) == h = Len(stack)

\* A frame between two steps: the task of the one before was the last.
AfterStep(h) ==
  AtTop(h) /\ ret = None /\ IsStep(h, Position(h) - 1)
  /\ At(h, Position(h) - 1).op = "register"
    => LastIs(At(h, Position(h) - 1).task)

\* A frame that has registered the task of the step it is at.
AfterRegister(h) ==
  AtTop(h) /\ ret = Ok /\ IsStep(h, Position(h))
  /\ At(h, Position(h)).op = "register" => LastIs(At(h, Position(h)).task)

\* A frame that waits for what it is going to capture: something has run, or
\* everything above it is at its very beginning.
WhileMeasuring(h) ==
  (~AtTop(h) \/ ret = Ok) /\ IsStep(h, Position(h) + 1)
  /\ Registers(At(h, Position(h) + 1), {"capture"})
    => /\ \A g \in (h + 1)..Len(stack) : MeasuredFrame(Names, stack[g])
       /\ MeasuredSinceZero(At(h, Position(h) + 1).task)
       /\ \/ LastIsMeasured
          \/ ret # Ok /\ \A g \in (h + 1)..Len(stack) : Position(g) = 1

\* A frame that is about to capture.
BeforeCapture(h) ==
  AtTop(h) /\ ret = None /\ IsStep(h, Position(h))
  /\ Registers(At(h, Position(h)), {"capture"})
    => MeasuredSinceZero(At(h, Position(h)).task) /\ LastIsMeasured

\* A frame below the top is at a call.
AtCall(h) ==
  ~AtTop(h) /\ IsStep(h, Position(h)) => At(h, Position(h)).op = "execute"

Rounds(h) ==
  /\ stack[h].kind = "plugin" => InOrder(settings, Names, stack[h].program)
  /\ AtCall(h) /\ AfterStep(h) /\ AfterRegister(h)
  /\ WhileMeasuring(h) /\ BeforeCapture(h)

\* A process that died in the middle of a task has nothing to rely on.
RoundsInv ==
  LcovRounds /\ (process = "running" => \A h \in 1..Len(stack) : Rounds(h))

-----------------------------------------------------------------------------
(* The programs are in order. *)

LEMMA OrdinaryInOrder ==
  ASSUME NEW s, NEW names, NEW program \in Seq(StraightStep),
         \A j \in 1..Len(program) :
           program[j].op = "register" => ToolOf(program[j].task) \in Types
  PROVE  InOrder(s, names, program)
<1>1. ASSUME NEW j \in 1..Len(program)
      PROVE  /\ ~Registers(program[j], {"capture"})
             /\ ~Registers(program[j], {"remove", "genhtml"})
             /\ program[j].otherwise = 0
  <2>1. program[j].otherwise = 0
    BY DEF StraightStep
  <2>2. Types \cap {"capture", "remove", "genhtml"} = {}
    BY DEF Types, Scripts
  <2> QED
    BY <2>1, <2>2 DEF Registers
<1> QED
  BY <1>1 DEF InOrder, CapturesInOrder, ReportsInOrder, JumpsOverCalls

LEMMA OwnInOrder ==
  ASSUME NEW s, NEW names, NEW tool \in Types,
         NEW program \in Seq(OwnStep(tool))
  PROVE  InOrder(s, names, program)
<1>1. program \in Seq(StraightStep)
  BY OwnIsStraight
<1>2. \A j \in 1..Len(program) :
        program[j].op = "register" => ToolOf(program[j].task) \in Types
  BY DEF OwnStep
<1> QED
  BY <1>1, <1>2, OrdinaryInOrder

\* A program that registers nothing.
LEMMA SilentInOrder ==
  ASSUME NEW s, NEW names, NEW program \in Seq(Step),
         \A j \in 1..Len(program) : program[j].op # "register"
  PROVE  InOrder(s, names, program)
BY DEF InOrder, CapturesInOrder, ReportsInOrder, JumpsOverCalls, Registers

LEMMA RunTargetInOrder ==
  ASSUME NEW s, IsSettings(s), NEW names, NEW p \in Plugin, NEW c \in Name,
         NEW task \in Task
  PROVE  InOrder(s, names, RunTargetProgram(s, p, c, task))
<1> DEFINE program == RunTargetProgram(s, p, c, task)
           n == Combinations(s, p, c)
<1>1. program \in Seq(Step)
  BY RunTargetSteps
<1>2. n \in Nat
  BY CombinationsBound, BoundAssumption
<1>3. \A j \in 1..Len(program) : program[j].op = "execute"
  BY <1>2 DEF RunTargetProgram, Execute
<1> HIDE DEF program
<1>4. InOrder(s, names, program)
  BY <1>1, <1>3, SilentInOrder
<1> QED
  BY <1>4 DEF program

LEMMA CallInOrder ==
  ASSUME NEW s, NEW names, NEW commands, NEW program \in Seq(CallOf(commands))
  PROVE  InOrder(s, names, program)
<1>1. program \in Seq(StraightStep) /\ Seq(StraightStep) \subseteq Seq(Step)
  <2>1. StraightStep \subseteq Step
    BY DEF StraightStep
  <2> QED
    BY <2>1, OwnIsStraight
<1>2. \A j \in 1..Len(program) : program[j].op # "register"
  BY DEF CallOf
<1> QED
  BY <1>1, <1>2, SilentInOrder

\* The steps of one turn of lcov: what is optional is asked for or not.
Asked(times, step) == IF times = 1 THEN <<step>> ELSE <<>>
TurnOf(zero, run, capture, remove, html, zeros, removes, htmls) ==
  Asked(zeros, zero) \o <<run, capture>> \o Asked(removes, remove)
  \o Asked(htmls, html)

LEMMA JoinedAt ==
  \A one, other \in Seq(StraightStep) :
    /\ one \o other \in Seq(StraightStep)
    /\ Len(one \o other) = Len(one) + Len(other)
    /\ \A i \in 1..Len(one) : (one \o other)[i] = one[i]
    /\ \A i \in 1..Len(other) : (one \o other)[Len(one) + i] = other[i]
OBVIOUS

LEMMA AskedStep ==
  \A step \in StraightStep, times \in {0, 1} :
    /\ Asked(times, step) \in Seq(StraightStep)
    /\ Len(Asked(times, step)) = times
    /\ times = 1 => Asked(times, step)[1] = step
BY DEF Asked

\* Where the steps of a turn are.
StepsAre(turn, z, e, c, r, h, a, x, y) ==
  /\ turn \in Seq(StraightStep) /\ Len(turn) = a + 2 + x + y
  /\ a = 1 => turn[1] = z
  /\ turn[a + 1] = e /\ turn[a + 2] = c
  /\ x = 1 => turn[a + 3] = r
  /\ y = 1 => turn[a + 2 + x + 1] = h

LEMMA TurnSteps ==
  ASSUME NEW z \in StraightStep, NEW e \in StraightStep,
         NEW c \in StraightStep, NEW r \in StraightStep,
         NEW h \in StraightStep,
         NEW a \in {0, 1}, NEW x \in {0, 1}, NEW y \in {0, 1}
  PROVE  StepsAre(TurnOf(z, e, c, r, h, a, x, y), z, e, c, r, h, a, x, y)
<1> DEFINE A == Asked(a, z)
           B == <<e, c>>
           R == Asked(x, r)
           H == Asked(y, h)
           Steps == Seq(StraightStep)
<1>1. /\ A \in Steps /\ Len(A) = a /\ (a = 1 => A[1] = z)
      /\ R \in Steps /\ Len(R) = x /\ (x = 1 => R[1] = r)
      /\ H \in Steps /\ Len(H) = y /\ (y = 1 => H[1] = h)
  BY AskedStep
<1>2. B \in Steps /\ Len(B) = 2 /\ B[1] = e /\ B[2] = c
  OBVIOUS
<1>3. TurnOf(z, e, c, r, h, a, x, y) = ((A \o B) \o R) \o H
  BY DEF TurnOf
<1> HIDE DEF A, B, R, H
<1> DEFINE AB == A \o B
           ABR == AB \o R
           turn == ABR \o H
<1>4. /\ AB \in Steps /\ Len(AB) = Len(A) + Len(B)
      /\ \A i \in 1..Len(A) : AB[i] = A[i]
      /\ \A i \in 1..Len(B) : AB[Len(A) + i] = B[i]
  BY <1>1, <1>2, JoinedAt
<1> HIDE DEF AB
<1>5. /\ ABR \in Steps /\ Len(ABR) = Len(AB) + Len(R)
      /\ \A i \in 1..Len(AB) : ABR[i] = AB[i]
      /\ \A i \in 1..Len(R) : ABR[Len(AB) + i] = R[i]
  BY <1>1, <1>4, JoinedAt
<1> HIDE DEF ABR
<1>6. /\ turn \in Steps /\ Len(turn) = Len(ABR) + Len(H)
      /\ \A i \in 1..Len(ABR) : turn[i] = ABR[i]
      /\ \A i \in 1..Len(H) : turn[Len(ABR) + i] = H[i]
  BY <1>1, <1>5, JoinedAt
<1> HIDE DEF turn
<1>7. /\ Len(AB) = a + 2
      /\ (a = 1 => AB[1] = z) /\ AB[a + 1] = e /\ AB[a + 2] = c
  BY <1>1, <1>2, <1>4
<1>8. /\ Len(ABR) = a + 2 + x
      /\ (a = 1 => ABR[1] = z) /\ ABR[a + 1] = e /\ ABR[a + 2] = c
      /\ (x = 1 => ABR[a + 3] = r)
  BY <1>1, <1>5, <1>7
<1>9. /\ Len(turn) = a + 2 + x + y
      /\ (a = 1 => turn[1] = z) /\ turn[a + 1] = e /\ turn[a + 2] = c
      /\ (x = 1 => turn[a + 3] = r) /\ (y = 1 => turn[a + 2 + x + 1] = h)
  BY <1>1, <1>6, <1>8
<1> QED
  BY <1>3, <1>6, <1>9 DEF turn, ABR, AB, StepsAre

\* A turn that zeroes the counters, if the round asks for it, that calls what is
\* measured, and whose steps belong to the same round, is in order.
IsTool(step, tool) == step.op = "register" /\ ToolOf(step.task) = tool
OfRound(step, capture) == SameRound(step.task, capture.task)

LEMMA ToolsApart ==
  ASSUME NEW step
  PROVE  /\ IsTool(step, "zerocounters") =>
              /\ ~Registers(step, {"capture"}) 
              /\ ~Registers(step, {"remove", "genhtml"})
         /\ IsTool(step, "capture") => ~Registers(step, {"remove", "genhtml"})
         /\ IsTool(step, "remove") => ~Registers(step, {"capture"})
         /\ IsTool(step, "genhtml") => ~Registers(step, {"capture"})
         /\ step.op = "execute" =>
              /\ ~Registers(step, {"capture"}) 
              /\ ~Registers(step, {"remove", "genhtml"})
BY DEF IsTool, Registers

LEMMA InOrderStepByStep ==
  ASSUME NEW s, NEW names, NEW program \in Seq(StraightStep),
         \A j \in 1..Len(program) :
           /\ Registers(program[j], {"capture"}) =>
                /\ j > 1 /\ Measures(names, program[j - 1])
                /\ ZeroBefore(s, program, j)
           /\ ReportsInOrder(program, j)
  PROVE  InOrder(s, names, program)
<1>1. \A j \in 1..Len(program) : program[j].otherwise = 0
  BY DEF StraightStep
<1> QED
  BY <1>1 DEF InOrder, CapturesInOrder, JumpsOverCalls

LEMMA TurnInOrder ==
  ASSUME NEW s, NEW names, NEW z \in StraightStep, NEW e \in StraightStep,
         NEW c \in StraightStep, NEW r \in StraightStep,
         NEW h \in StraightStep,
         NEW a \in {0, 1}, NEW x \in {0, 1}, NEW y \in {0, 1},
         IsTool(z, "zerocounters"), Measures(names, e), IsTool(c, "capture"),
         IsTool(r, "remove"), IsTool(h, "genhtml"),
         AsksForZero(s, c.task) => a = 1,
         SameRound(c.task, z.task), SameRound(r.task, c.task),
         SameRound(h.task, c.task), SameRound(h.task, r.task)
  PROVE  LET turn == TurnOf(z, e, c, r, h, a, x, y)
         IN /\ turn \in Seq(StraightStep) /\ Len(turn) \in 2..5
            /\ InOrder(s, names, turn)
<1> DEFINE turn == TurnOf(z, e, c, r, h, a, x, y)
           Fine(j) == /\ Registers(turn[j], {"capture"}) =>
                           /\ j > 1 /\ Measures(names, turn[j - 1])
                           /\ ZeroBefore(s, turn, j)
                      /\ ReportsInOrder(turn, j)
<1>1. /\ ~Registers(z, {"capture"}) /\ ~Registers(z, {"remove", "genhtml"})
      /\ ~Registers(e, {"capture"}) /\ ~Registers(e, {"remove", "genhtml"})
      /\ ~Registers(c, {"remove", "genhtml"}) /\ ~Registers(r, {"capture"})
      /\ ~Registers(h, {"capture"})
  BY ToolsApart DEF Measures
<1>2. /\ Registers(z, {"zerocounters"}) /\ Registers(c, {"capture", "remove"})
      /\ Registers(r, {"capture", "remove"})
  BY DEF IsTool, Registers
<1>3. /\ turn \in Seq(StraightStep)
      /\ Len(turn) = a + 2 + x + y
      /\ a = 1 => turn[1] = z
      /\ turn[a + 1] = e /\ turn[a + 2] = c
      /\ x = 1 => turn[a + 3] = r
      /\ y = 1 => turn[a + 2 + x + 1] = h
  <2>1. StepsAre(turn, z, e, c, r, h, a, x, y)
    BY TurnSteps
  <2> QED
    BY ONLY <2>1 DEF StepsAre
<1> HIDE DEF turn
<1>4. ASSUME NEW j \in 1..Len(turn)
      PROVE  Fine(j)
  <2>1. \/ j <= a \/ j = a + 1 \/ j = a + 2
        \/ x = 1 /\ j = a + 3
        \/ y = 1 /\ j = a + 2 + x + 1
    BY <1>3
  <2>2. CASE j <= a
    <3>1. turn[j] = z
      BY <1>3, <2>2
    <3> QED
      BY <1>1, <3>1 DEF ReportsInOrder
  <2>3. CASE j = a + 1
    <3>1. turn[j] = e
      BY <1>3, <2>3
    <3> QED
      BY <1>1, <3>1 DEF ReportsInOrder
  <2>4. CASE j = a + 2
    <3>1. turn[j] = c /\ j > 1 /\ j - 1 = a + 1 /\ turn[j - 1] = e
      BY <1>3, <2>4
    <3>2. a = 1 => j > 2 /\ j - 2 = 1 /\ turn[j - 2] = z
      BY <1>3, <2>4
    <3>3. ZeroBefore(s, turn, j)
      BY <1>2, <3>1, <3>2 DEF ZeroBefore
    <3> QED
      BY <1>1, <3>1, <3>3 DEF ReportsInOrder
  <2>5. CASE x = 1 /\ j = a + 3
    <3>1. turn[j] = r /\ j > 1 /\ j - 1 = a + 2 /\ turn[j - 1] = c
      BY <1>3, <2>5
    <3> QED
      BY <1>1, <1>2, <3>1 DEF ReportsInOrder
  <2>6. CASE y = 1 /\ j = a + 2 + x + 1
    <3>1. turn[j] = h /\ j > 1
      BY <1>3, <2>6
    <3>2. CASE x = 1
      <4>1. j - 1 = a + 3 /\ turn[j - 1] = r
        BY <1>3, <2>6, <3>2
      <4> QED
        BY <1>1, <1>2, <3>1, <4>1 DEF ReportsInOrder
    <3>3. CASE x = 0
      <4>1. j - 1 = a + 2 /\ turn[j - 1] = c
        BY <1>3, <2>6, <3>3
      <4> QED
        BY <1>1, <1>2, <3>1, <4>1 DEF ReportsInOrder
    <3> QED
      BY <3>2, <3>3
  <2> QED
    BY <2>1, <2>2, <2>3, <2>4, <2>5, <2>6
<1>5. InOrder(s, names, turn)
  BY <1>3, <1>4, InOrderStepByStep
<1>6. Len(turn) \in 2..5
  BY <1>3
<1> QED
  BY <1>3, <1>5, <1>6 DEF turn

LoopOf(body, n, m) ==
  [j \in 1..(n * m) |-> body[((j - 1) \div m) + 1][((j - 1) % m) + 1]]

\* Every turn being in order, so is the loop: a step looks back at the steps of
\* its own turn only.
LEMMA StepBefore ==
  ASSUME NEW m \in 2..5, NEW j \in Nat \ {0}, ((j - 1) % m) + 1 > 1
  PROVE  /\ j - 1 \in Nat \ {0}
         /\ (((j - 1) - 1) % m) + 1 = (((j - 1) % m) + 1) - 1
         /\ ((j - 1) - 1) \div m = (j - 1) \div m
<1>1. m = 2 \/ m = 3 \/ m = 4 \/ m = 5
  OBVIOUS
<1>2. CASE m = 2
  BY <1>2
<1>3. CASE m = 3
  BY <1>3
<1>4. CASE m = 4
  BY <1>4
<1>5. CASE m = 5
  BY <1>5
<1> QED
  BY <1>1, <1>2, <1>3, <1>4, <1>5

LEMMA LoopInOrder ==
  ASSUME NEW s, NEW names, NEW n \in Nat, NEW m \in 2..5,
         NEW body \in [Nat \ {0} -> [1..m -> StraightStep]],
         \A k \in Nat \ {0} : InOrder(s, names, body[k])
  PROVE  InOrder(s, names, LoopOf(body, n, m))
<1> DEFINE K(j) == ((j - 1) \div m) + 1
           R(j) == ((j - 1) % m) + 1
           loop == [j \in 1..(n * m) |-> body[K(j)][R(j)]]
<1>1. n * m \in Nat /\ m \in Nat \ {0}
  OBVIOUS
<1>2. loop \in Seq(StraightStep)
  BY <1>1, TurnsOfLoop
<1>3. Len(loop) = n * m /\ \A j \in 1..(n * m) : loop[j] = body[K(j)][R(j)]
  BY <1>1, <1>2
<1>4. \A j \in Nat \ {0} : K(j) \in Nat \ {0} /\ R(j) \in 1..m
  BY <1>1, PositionInTurn
<1>5. \A j \in Nat \ {0} :
        R(j) > 1 => j - 1 \in Nat \ {0} /\ R(j - 1) = R(j) - 1 /\ K(j - 1) = K(j)
  BY StepBefore
<1>6. \A k \in Nat \ {0} : Len(body[k]) = m
  BY <1>1
<1> HIDE DEF K, R, loop
<1>7. ASSUME NEW j \in 1..Len(loop)
      PROVE  /\ Registers(loop[j], {"capture"}) =>
                  /\ j > 1 /\ Measures(names, loop[j - 1])
                  /\ ZeroBefore(s, loop, j)
             /\ ReportsInOrder(loop, j)
  <2> DEFINE k == K(j)
             i == R(j)
  <2>1. j \in Nat \ {0} /\ j <= n * m
    BY <1>1, <1>3
  <2>2. k \in Nat \ {0} /\ i \in 1..Len(body[k]) /\ loop[j] = body[k][i]
    BY <1>3, <1>4, <1>6, <2>1
  <2>3. CapturesInOrder(s, names, body[k], i) /\ ReportsInOrder(body[k], i)
    BY <2>2 DEF InOrder
  <2>4. i > 1 => j > 1 /\ loop[j - 1] = body[k][i - 1]
    <3>1. SUFFICES ASSUME i > 1 PROVE j > 1 /\ loop[j - 1] = body[k][i - 1]
      OBVIOUS
    <3>2. j - 1 \in Nat \ {0} /\ R(j - 1) = i - 1 /\ K(j - 1) = k
      BY <1>5, <2>1, <3>1
    <3>3. j - 1 \in 1..(n * m)
      BY <1>1, <2>1, <3>2
    <3> QED
      BY <1>3, <2>1, <3>2, <3>3
  <2>5. i > 2 => j > 2 /\ loop[j - 2] = body[k][i - 2]
    <3>1. SUFFICES ASSUME i > 2 PROVE j > 2 /\ loop[j - 2] = body[k][i - 2]
      OBVIOUS
    <3>2. j - 1 \in Nat \ {0} /\ R(j - 1) = i - 1 /\ K(j - 1) = k
      BY <1>5, <2>1, <2>2, <3>1
    <3>3. R(j - 1) > 1
      BY <2>2, <3>1, <3>2
    <3>4. (j - 1) - 1 \in Nat \ {0} /\ R((j - 1) - 1) = R(j - 1) - 1
          /\ K((j - 1) - 1) = K(j - 1)
      BY <1>5, <3>2, <3>3
    <3>5. (j - 1) - 1 = j - 2 /\ (i - 1) - 1 = i - 2
      BY <2>1, <2>2
    <3>6. j - 2 \in 1..(n * m) /\ j > 2
      BY <1>1, <2>1, <3>4, <3>5
    <3>7. R(j - 2) = i - 2 /\ K(j - 2) = k
      BY <3>2, <3>4, <3>5
    <3> QED
      BY <1>3, <3>6, <3>7
  <2> HIDE DEF k, i
  <2>6. ZeroBefore(s, body[k], i) => ZeroBefore(s, loop, j)
    BY <2>2, <2>5 DEF ZeroBefore
  <2>7. ReportsInOrder(loop, j)
    BY <2>2, <2>3, <2>4 DEF ReportsInOrder
  <2>8. Registers(loop[j], {"capture"}) =>
          /\ j > 1 /\ Measures(names, loop[j - 1]) /\ ZeroBefore(s, loop, j)
    BY <2>2, <2>3, <2>4, <2>6 DEF CapturesInOrder
  <2> QED
    BY <2>7, <2>8
<1>8. InOrder(s, names, loop)
  BY <1>2, <1>7, InOrderStepByStep
<1> QED
  BY <1>8 DEF loop, K, R, LoopOf

\* The tools of lcov, for one round.
LcovStep(p, c, task, tool, k) ==
  Register(ReplacePatternCombinations(Extend(task, tool, c, 0), p, k))
LcovRun(s, p, c, task) == Execute(Variable(s.runCommand, p, c, <<>>), task, 0)
Times(f, p, c) == IF IsAsked(f, p, c) THEN 1 ELSE 0

LcovTurn(s, p, c, task, k) ==
  TurnOf(LcovStep(p, c, task, "zerocounters", k), LcovRun(s, p, c, task),
         LcovStep(p, c, task, "capture", k), LcovStep(p, c, task, "remove", k),
         LcovStep(p, c, task, "genhtml", k), Times(s.zeroCounters, p, c),
         Times(s.excludes, p, c), Times(s.genHtml, p, c))

LEMMA LcovIsLoop ==
  ASSUME NEW s, NEW p, NEW c, NEW task, IsSet(s.runCommand, p, c)
  PROVE  LcovProgram(s, p, c, task) =
           LET n == Combinations(s, p, c)
               m == Len(LcovTurn(s, p, c, task, 1))
           IN [j \in 1..(n * m) |->
                 LcovTurn(s, p, c, task, ((j - 1) \div m) + 1)
                   [((j - 1) % m) + 1]]
<1> DEFINE n == Combinations(s, p, c)
           run == Variable(s.runCommand, p, c, <<>>)
           Tool1(tool, k) == Register(ReplacePatternCombinations(
                               Extend(task, tool, c, 0), p, k))
           When(f, tool, k) ==
             IF IsAsked(f, p, c) THEN <<Tool1(tool, k)>> ELSE <<>>
           Body(k) == When(s.zeroCounters, "zerocounters", k)
                      \o <<Execute(run, task, 0), Tool1("capture", k)>>
                      \o When(s.excludes, "remove", k)
                      \o When(s.genHtml, "genhtml", k)
           m == Len(Body(1))
<1>1. LcovProgram(s, p, c, task)
        = [j \in 1..(n * m) |->
            Body(((j - 1) \div m) + 1)[((j - 1) % m) + 1]]
  BY DEF LcovProgram, ForEachCombination
<1>2. \A f, tool, k :
        When(f, tool, k) = Asked(Times(f, p, c), LcovStep(p, c, task, tool, k))
  BY DEF Asked, Times, LcovStep
<1>3. \A k : Tool1("capture", k) = LcovStep(p, c, task, "capture", k)
  BY DEF LcovStep
<1> HIDE DEF When, Tool1
<1>4. \A k : Body(k) = LcovTurn(s, p, c, task, k)
  BY <1>2, <1>3 DEF LcovTurn, LcovRun, TurnOf
<1> HIDE DEF Body, n
<1> QED
  BY <1>1, <1>4 DEF n

LEMMA LcovStepIs ==
  ASSUME NEW p \in Plugin, NEW c \in Name, NEW task \in Task,
         NEW tool \in {"zerocounters", "capture", "remove", "genhtml"},
         NEW k \in Nat
  PROVE  LET step == LcovStep(p, c, task, tool, k)
         IN /\ step \in StraightStep /\ IsTool(step, tool)
            /\ Registrar(step.task).owner = c
            /\ Combination(step.task)
                 = [tool |-> "patterns", owner |-> p, number |-> k]
<1> DEFINE t == ReplacePatternCombinations(Extend(task, tool, c, 0), p, k)
<1>1. tool \in Tool
  BY DEF Tool
<1>2. t \in Task /\ ToolOf(t) = tool /\ Registrar(t).owner = c
      /\ Combination(t) = [tool |-> "patterns", owner |-> p, number |-> k]
  BY <1>1, CombinedTask, CombinedArguments
<1> HIDE DEF t
<1>3. Register(t) \in StraightStep /\ Register(t).task = t
      /\ Register(t).op = "register"
  BY <1>2, StepsOfPlugins DEF Register
<1>4. LcovStep(p, c, task, tool, k) = Register(t)
  BY DEF LcovStep, t
<1> QED
  BY <1>2, <1>3, <1>4 DEF IsTool

LEMMA LcovTurnInOrder ==
  ASSUME NEW s, IsSettings(s), NEW names, Measured(s, names),
         NEW p \in Plugin, PluginType[p] = "lcov", NEW c \in Name,
         NEW task \in Task, IsSet(s.runCommand, p, c), NEW k \in Nat
  PROVE  /\ LcovTurn(s, p, c, task, k) \in Seq(StraightStep)
         /\ Len(LcovTurn(s, p, c, task, k)) \in 2..5
         /\ Len(LcovTurn(s, p, c, task, k))
              = Times(s.zeroCounters, p, c) + 2 + Times(s.excludes, p, c)
                  + Times(s.genHtml, p, c)
         /\ InOrder(s, names, LcovTurn(s, p, c, task, k))
<1> DEFINE z == LcovStep(p, c, task, "zerocounters", k)
           e == LcovRun(s, p, c, task)
           capture == LcovStep(p, c, task, "capture", k)
           r == LcovStep(p, c, task, "remove", k)
           h == LcovStep(p, c, task, "genhtml", k)
           a == Times(s.zeroCounters, p, c)
           x == Times(s.excludes, p, c)
           y == Times(s.genHtml, p, c)
           combination == [tool |-> "patterns", owner |-> p, number |-> k]
           run == Variable(s.runCommand, p, c, <<>>)
<1>1. /\ z \in StraightStep /\ IsTool(z, "zerocounters")
      /\ Combination(z.task) = combination
  BY LcovStepIs
<1>2. /\ capture \in StraightStep /\ IsTool(capture, "capture")
      /\ Combination(capture.task) = combination
      /\ Registrar(capture.task).owner = c
  BY LcovStepIs
<1>3. /\ r \in StraightStep /\ IsTool(r, "remove")
      /\ Combination(r.task) = combination
  BY LcovStepIs
<1>4. /\ h \in StraightStep /\ IsTool(h, "genhtml")
      /\ Combination(h.task) = combination
  BY LcovStepIs
<1>5. a \in {0, 1} /\ x \in {0, 1} /\ y \in {0, 1}
  BY DEF Times
<1>6. combination.owner = p
  OBVIOUS
<1>7. AsksForZero(s, capture.task) => a = 1
  BY <1>2, <1>6 DEF AsksForZero, Times
<1>8. e \in StraightStep /\ Measures(names, e)
  <2>1. run \in NonEmptyLists(Name) /\ run \in Seq(names)
    BY VariableInRange, PluginAssumption DEF IsSettings, Measured
  <2>2. run # <<>> /\ run \in Seq(Name)
    BY <2>1 DEF NonEmptyLists
  <2>3. Execute(run, task, 0) \in StraightStep
    BY <2>2, StepsOfPlugins
  <2> HIDE DEF run
  <2>4. Measures(names, Execute(run, task, 0))
    BY <2>1, <2>2 DEF Measures, Execute, NonEmptyLists
  <2> QED
    BY <2>3, <2>4 DEF LcovRun, run
<1>9. LcovTurn(s, p, c, task, k) = TurnOf(z, e, capture, r, h, a, x, y)
  BY DEF LcovTurn
<1> HIDE DEF z, e, capture, r, h, a, x, y, combination
<1>10. /\ SameRound(capture.task, z.task) /\ SameRound(r.task, capture.task)
       /\ SameRound(h.task, capture.task) /\ SameRound(h.task, r.task)
  BY <1>1, <1>2, <1>3, <1>4 DEF SameRound
<1>11. StepsAre(TurnOf(z, e, capture, r, h, a, x, y),
                z, e, capture, r, h, a, x, y)
  BY <1>1, <1>2, <1>3, <1>4, <1>5, <1>8, TurnSteps
<1>12. /\ TurnOf(z, e, capture, r, h, a, x, y) \in Seq(StraightStep)
       /\ Len(TurnOf(z, e, capture, r, h, a, x, y)) = a + 2 + x + y
  BY <1>11 DEF StepsAre
<1>13. InOrder(s, names, TurnOf(z, e, capture, r, h, a, x, y))
  BY <1>1, <1>2, <1>3, <1>4, <1>5, <1>7, <1>8, <1>10, TurnInOrder
<1>14. a + 2 + x + y \in 2..5
  BY <1>5
<1> QED
  BY <1>9, <1>12, <1>13, <1>14 DEF a, x, y

LEMMA LcovInOrder ==
  ASSUME NEW s, IsSettings(s), NEW names, Measured(s, names),
         NEW p \in Plugin, PluginType[p] = "lcov", NEW c \in Name,
         NEW task \in Task
  PROVE  InOrder(s, names, LcovProgram(s, p, c, task))
<1>1. CASE ~IsSet(s.runCommand, p, c)
  <2>1. LcovProgram(s, p, c, task) = <<Fail>>
    BY <1>1 DEF LcovProgram
  <2>2. <<Fail>> \in Seq(OwnStep("pmd")) /\ "pmd" \in Types
    BY FailIsOwn DEF Types
  <2> QED
    BY <2>1, <2>2, OwnInOrder
<1>2. CASE IsSet(s.runCommand, p, c)
  <2> DEFINE turn == [k \in Nat \ {0} |-> LcovTurn(s, p, c, task, k)]
             m == Len(LcovTurn(s, p, c, task, 1))
             n == Combinations(s, p, c)
  <2>1. ASSUME NEW k \in Nat
        PROVE  /\ LcovTurn(s, p, c, task, k) \in Seq(StraightStep)
               /\ Len(LcovTurn(s, p, c, task, k)) = m /\ m \in 2..5
               /\ InOrder(s, names, LcovTurn(s, p, c, task, k))
    BY <1>2, LcovTurnInOrder
  <2>2. n \in Nat
    BY CombinationsBound, BoundAssumption
  <2>3. LcovProgram(s, p, c, task) =
          [j \in 1..(n * m) |->
             LcovTurn(s, p, c, task, ((j - 1) \div m) + 1)[((j - 1) % m) + 1]]
    BY <1>2, LcovIsLoop
  <2>4. m \in 2..5
    BY <2>1
  <2> HIDE DEF m, n
  <2>5. turn \in [Nat \ {0} -> [1..m -> StraightStep]]
    <3>1. ASSUME NEW k \in Nat \ {0}
          PROVE  LcovTurn(s, p, c, task, k) \in [1..m -> StraightStep]
      BY <2>1
    <3> QED
      BY <3>1
  <2>6. \A k \in Nat \ {0} : InOrder(s, names, turn[k])
    BY <2>1
  <2>7. \A j \in 1..(n * m) : ((j - 1) \div m) + 1 \in Nat \ {0}
    <3>1. n * m \in Nat /\ m \in Nat \ {0}
      BY <2>2, <2>4
    <3>2. \A j \in 1..(n * m) : j \in Nat \ {0}
      BY <3>1
    <3> QED
      BY <3>1, <3>2, PositionInTurn
  <2>8. LcovProgram(s, p, c, task) =
          [j \in 1..(n * m) |->
             turn[((j - 1) \div m) + 1][((j - 1) % m) + 1]]
    BY <2>3, <2>7
  <2> HIDE DEF turn
  <2>9. InOrder(s, names, LoopOf(turn, n, m))
    BY <2>2, <2>4, <2>5, <2>6, LoopInOrder
  <2> QED
    BY <2>8, <2>9 DEF LoopOf
<1> QED
  BY <1>1, <1>2

\* Every program is in order,
LEMMA ProgramOf ==
  ASSUME NEW s, NEW line, NEW p, NEW c, NEW task
  PROVE  LET program == Program(s, line, p, c, task)
         IN /\ PluginType[p] = "commands" =>
                 program = CommandPluginProgram(s, line, task)
            /\ PluginType[p] = "command-line-command" =>
                 program = CommandLineCommandProgram(s, p, c, task)
            /\ PluginType[p] = "memory" => program = <<>>
            /\ PluginType[p] = "valgrind" =>
                 program = ValgrindProgram(s, p, c, task)
            /\ PluginType[p] = "lcov" => program = LcovProgram(s, p, c, task)
            /\ PluginType[p] = "pmd" =>
                 program = SingleTaskProgram(s, p, c, task)
            /\ PluginType[p] \in Scripts =>
                 program = ScriptProgram(s, p, c, task)
BY DEF Program, Scripts, MemoryProgram

LEMMA ProgramInOrder ==
  ASSUME NEW s, IsSettings(s), NEW names, Measured(s, names),
         NEW line \in Seq(Name), NEW p \in Plugin, NEW c \in Name,
         NEW task \in Task
  PROVE  InOrder(s, names, Program(s, line, p, c, task))
<1>1. PluginType[p] \in Types
  BY PluginAssumption
<1>2. InOrder(s, names, <<Fail>>) /\ InOrder(s, names, <<>>)
  <2>1. <<Fail>> \in Seq(OwnStep("pmd")) /\ "pmd" \in Types
        /\ <<>> \in Seq(OwnStep("pmd"))
    BY FailIsOwn DEF Types
  <2> QED
    BY <2>1, OwnInOrder
<1>3. InOrder(s, names, SingleTaskProgram(s, p, c, task))
  BY <1>1, SingleTaskSteps, OwnInOrder
<1>4. CASE PluginType[p] \in Scripts
  <2>1. \A tool \in Types : Extend(task, tool, c, 0) \in Task
    BY ExtendedTask DEF Tool
  <2>2. /\ InOrder(s, names, RunTargetProgram(s, p, c, task))
        /\ InOrder(s, names, RunTargetProgram(s, p, c,
                               Extend(task, "clang-static-analyzer", c, 0)))
        /\ InOrder(s, names, RunTargetProgram(s, p, c,
                               Extend(task, "docker", c, 0)))
    BY <2>1, RunTargetInOrder DEF Types, Scripts
  <2>3. InOrder(s, names, ScriptProgram(s, p, c, task))
    BY <1>2, <1>3, <1>4, <2>2
    DEF ScriptProgram, Scripts, ClangStaticAnalyzerProgram, DockerProgram,
        SelectorProgram
  <2>4. Program(s, line, p, c, task) = ScriptProgram(s, p, c, task)
    BY <1>4, ProgramOf
  <2> QED
    BY <2>3, <2>4
<1>5. CASE PluginType[p] = "commands"
  <2> DEFINE program == CommandPluginProgram(s, line, task)
  <2>1. program \in Seq(StraightStep)
    BY CommandPluginSteps
  <2>2. \A j \in 1..Len(program) : program[j].op = "execute"
    BY DEF CommandPluginProgram, Execute
  <2>3. program = Program(s, line, p, c, task)
    BY <1>5, ProgramOf
  <2> HIDE DEF program
  <2>4. InOrder(s, names, program)
    BY <2>1, <2>2, OrdinaryInOrder
  <2> QED
    BY <2>3, <2>4
<1>6. CASE PluginType[p] = "command-line-command"
  <2>1. InOrder(s, names, CommandLineCommandProgram(s, p, c, task))
    BY CommandLineCommandSteps, OwnInOrder DEF Types
  <2> QED
    BY <1>6, <2>1, ProgramOf
<1>7. CASE PluginType[p] = "valgrind"
  <2>1. InOrder(s, names, ValgrindProgram(s, p, c, task))
    BY ValgrindSteps, CallInOrder
  <2> QED
    BY <1>7, <2>1, ProgramOf
<1>8. CASE PluginType[p] = "lcov"
  BY <1>8, LcovInOrder, ProgramOf
<1>9. CASE PluginType[p] = "memory"
  BY <1>2, <1>9, ProgramOf
<1>10. CASE PluginType[p] = "pmd"
  BY <1>3, <1>10, ProgramOf
<1> QED
  BY <1>1, <1>4, <1>5, <1>6, <1>7, <1>8, <1>9, <1>10 DEF Types

\* and the programs of the commands that execute command lines do that.
LEMMA MeasuredProgram ==
  ASSUME NEW s, IsSettings(s), NEW names, Measured(s, names),
         NEW line \in Seq(Name), NEW p \in names \cap Plugin, NEW c \in Name,
         NEW task \in Task
  PROVE  MeasuredFrame(names, NewPluginFrame(Program(s, line, p, c, task)))
<1> DEFINE program == Program(s, line, p, c, task)
<1>1. SUFFICES /\ program # <<>>
               /\ \A j \in 1..Len(program) : MeasuredStep(names, program[j])
  BY DEF MeasuredFrame, NewPluginFrame
<1>2. Fail.op = "fail" /\ Fail.otherwise = 0
  BY DEF Fail
<1>3. CASE PluginType[p] = "command-line-command"
  <2>1. program \in Seq(OwnStep("command-line-command")) /\ program # <<>>
    BY <1>3, CommandLineCommandSteps, ProgramOf
  <2> HIDE DEF program
  <2>2. \A step \in OwnStep("command-line-command") : MeasuredStep(names, step)
    BY DEF OwnStep, StraightStep, MeasuredStep, IsMeasured
  <2> QED
    BY <2>1, <2>2
<1>4. CASE PluginType[p] = "valgrind" /\ ~IsSet(s.runCommand, p, c)
  <2>1. program = <<Fail>>
    BY <1>4, ValgrindSteps, ProgramOf
  <2> HIDE DEF program
  <2> QED
    BY <1>2, <2>1 DEF MeasuredStep
<1>5. CASE PluginType[p] = "valgrind" /\ IsSet(s.runCommand, p, c)
  <2> DEFINE run == Variable(s.runCommand, p, c, <<>>)
  <2>1. program \in Seq(CallOf(run)) /\ program # <<>>
    BY <1>5, ValgrindSteps, ProgramOf
  <2>2. run \in NonEmptyLists(names)
    <3>1. run \in NonEmptyLists(Name)
      BY <1>5, VariableInRange, PluginAssumption DEF IsSettings
    <3>2. LeadsToLines(s, names, p)
      BY DEF Measured
    <3>3. run \in Seq(names)
      BY <1>5, <3>2 DEF LeadsToLines
    <3> QED
      BY <3>1, <3>3 DEF NonEmptyLists
  <2> HIDE DEF program, run
  <2>3. \A step \in CallOf(run) : MeasuredStep(names, step)
    BY <2>2 DEF CallOf, StraightStep, MeasuredStep, Measures
  <2> QED
    BY <2>1, <2>3
<1>6. PluginType[p] \in {"command-line-command", "valgrind"}
  BY DEF Measured, LeadsToLines
<1> QED
  BY <1>3, <1>4, <1>5, <1>6

-----------------------------------------------------------------------------
(* The rounds, step by step. *)

LEMMA NamesMeasured ==
  ASSUME TypeOK, LcovExecutesLines
  PROVE  Measured(settings, Names)
<1>1. \E names \in SUBSET Name : Measured(settings, names)
  BY DEF TypeOK, LcovExecutesLines
<1> QED
  BY <1>1, Zenon DEF Names, MeasuredNames

LEMMA SameNames == UNCHANGED settings => Names' = Names
BY DEF Names

\* What is said of the log changes with the log only.
LEMMA SameLog ==
  ASSUME UNCHANGED <<log, settings>>
  PROVE  /\ \A task : LastIs(task)' <=> LastIs(task)
         /\ \A task : MeasuredSinceZero(task)' <=> MeasuredSinceZero(task)
         /\ LastIsMeasured' <=> LastIsMeasured
         /\ LcovRounds' <=> LcovRounds
<1>1. \A task : LastIs(task)' <=> LastIs(task)
  BY DEF LastIs
<1>2. \A task : MeasuredSinceZero(task)' <=> MeasuredSinceZero(task)
  BY DEF MeasuredSinceZero
<1>3. LastIsMeasured' <=> LastIsMeasured
  BY DEF LastIsMeasured
<1>4. LcovRounds' <=> LcovRounds
  BY DEF LcovRounds
<1> QED
  BY <1>1, <1>2, <1>3, <1>4

LEMMA SameFrame ==
  ASSUME NEW h, stack'[h] = stack[h]
  PROVE  /\ \A j : At(h, j)' = At(h, j) /\ (IsStep(h, j)' <=> IsStep(h, j))
         /\ Position(h)' = Position(h)
BY DEF At, IsStep, Position

LEMMA MeasuredFrameWork ==
  ASSUME NEW names, NEW frame \in Frame, MeasuredFrame(names, frame),
         frame.position = 1
  PROVE  ~AtEnd(frame)
<1>1. CASE frame.kind = "commands"
  <2>1. frame.commands # <<>> /\ Work(frame) = frame.commands
        /\ frame.commands \in Seq(Name)
    BY <1>1, FrameWork DEF MeasuredFrame, NonEmptyLists
  <2> QED
    BY <2>1 DEF AtEnd
<1>2. CASE frame.kind = "plugin"
  <2>1. frame.program # <<>> /\ Work(frame) = frame.program
        /\ frame.program \in Seq(Step)
    BY <1>2, FrameWork DEF MeasuredFrame
  <2> QED
    BY <2>1 DEF AtEnd
<1> QED
  BY <1>1, <1>2, FrameWork

\* What is going to be captured has a call before it.
LEMMA CallBeforeCapture ==
  ASSUME NEW h, Rounds(h), IsStep(h, Position(h) + 1),
         Registers(At(h, Position(h) + 1), {"capture"})
  PROVE  /\ Position(h) + 1 > 1 /\ Measures(Names, At(h, (Position(h) + 1) - 1))
         /\ ZeroBefore(settings, stack[h].program, Position(h) + 1)
<1>1. InOrder(settings, Names, stack[h].program)
  BY DEF Rounds, IsStep
<1>2. CapturesInOrder(settings, Names, stack[h].program, Position(h) + 1)
  BY <1>1 DEF InOrder, IsStep
<1> QED
  BY <1>2 DEF CapturesInOrder, At

LEMMA FrameOnStack ==
  ASSUME TypeOK, NEW h \in 1..Len(stack)
  PROVE  stack[h] \in Frame /\ Position(h) \in Nat \ {0} /\ h \in Nat
         /\ Len(stack) \in Nat
<1>1. stack \in Seq(Frame)
  BY DEF TypeOK
<1>2. stack[h] \in Frame
  BY <1>1
<1> QED
  BY <1>1, <1>2, FrameWork DEF Position

\* A call
LEMMA RoundsCall ==
  ASSUME Inv, RoundsInv, Running, ret = None, ~AtEnd(Top), NEW frame \in Frame,
         Call(frame), frame.position = 1,
         frame.kind = "plugin" => InOrder(settings, Names, frame.program),
         Top.kind = "plugin" => Current(Top).op = "execute",
         MeasuredFrame(Names, Top) => MeasuredFrame(Names, frame),
         Top.kind = "plugin" /\ Measures(Names, Current(Top))
           => MeasuredFrame(Names, frame)
  PROVE  RoundsInv'
<1>1. UNCHANGED <<settings, ret, log>> /\ Names' = Names
  BY SameNames DEF Call, executorState
<1>2. LcovRounds'
  BY <1>1, SameLog DEF RoundsInv
<1>3. CASE process' = "crashed"
  BY <1>2, <1>3 DEF RoundsInv
<1>4. CASE stack' = Append(stack, frame)
  <2>0. PICK n \in Nat \ {0} : n = Len(stack)
    BY TopFrame DEF Inv
  <2>1. n \in Nat \ {0} /\ n = Len(stack) /\ stack \in Seq(Frame)
    BY <2>0 DEF Inv, TypeOK
  <2>2. /\ Len(stack') = n + 1 /\ stack'[n + 1] = frame
        /\ \A h \in 1..n : stack'[h] = stack[h]
    BY <1>4, <2>1
  <2>3. ASSUME NEW h \in 1..n PROVE Rounds(h)'
    <3>0. h \in 1..Len(stack)
      BY <2>1
    <3>1. Rounds(h)
      BY <3>0 DEF RoundsInv, Running
    <3>2. /\ \A j : At(h, j)' = At(h, j) /\ (IsStep(h, j)' <=> IsStep(h, j))
          /\ Position(h)' = Position(h) /\ stack'[h] = stack[h]
      BY <2>2, SameFrame
    <3>3. ~AtTop(h)'
      BY <2>1, <2>2 DEF AtTop
    <3>4. Position(h) \in Nat \ {0} /\ stack[h] \in Frame
      BY <3>0, FrameOnStack DEF Inv
    <3>5. AtCall(h)'
      <4>1. CASE h = n
        <5>1. stack[h] = Top /\ (Top.kind = "plugin" =>
                                   Current(Top) = At(h, Position(h)))
          BY <2>1, <3>4, <4>1, FrameWork DEF Top, Current, At, Position
        <5> QED
          BY <3>2, <5>1 DEF AtCall, IsStep
      <4>2. CASE h # n
        BY <2>1, <3>1, <3>2, <4>2 DEF AtCall, AtTop, Rounds
      <4> QED
        BY <4>1, <4>2
    <3>6. ASSUME IsStep(h, Position(h) + 1),
                 Registers(At(h, Position(h) + 1), {"capture"})
          PROVE  /\ \A g \in (h + 1)..(n + 1) : MeasuredFrame(Names, stack'[g])
                 /\ MeasuredSinceZero(At(h, Position(h) + 1).task)
                 /\ \/ LastIsMeasured
                    \/ ret # Ok /\ \A g \in (h + 1)..(n + 1) : Position(g)' = 1
      <4>1. /\ Measures(Names, At(h, Position(h)))
            /\ ZeroBefore(settings, stack[h].program, Position(h) + 1)
        <5>1. (Position(h) + 1) - 1 = Position(h)
          BY <3>4
        <5> QED
          BY <3>1, <3>6, <5>1, CallBeforeCapture
      <4>2. Position(n + 1)' = 1 /\ ret # Ok
        BY <2>2 DEF Position, Ok, None
      <4>3. CASE h = n
        <5>1. stack[h] = Top /\ Top.kind = "plugin"
              /\ Current(Top) = At(h, Position(h))
          BY <2>1, <3>4, <3>6, <4>3, FrameWork DEF Top, Current, At, Position, IsStep
        <5>2. MeasuredFrame(Names, frame)
          BY <4>1, <5>1
        <5>3. \A g \in (h + 1)..(n + 1) : g = n + 1
          BY <2>1, <4>3
        <5>4. MeasuredSinceZero(At(h, Position(h) + 1).task)
          <6>1. SUFFICES ASSUME AsksForZero(settings, At(h, Position(h) + 1).task)
                PROVE  \E q \in 1..Len(log) :
                         /\ ToolOf(log[q].task) = "zerocounters"
                         /\ SameRound(At(h, Position(h) + 1).task, log[q].task)
                         /\ \A m \in (q + 1)..Len(log) : IsMeasured(log[m].task)
            BY DEF MeasuredSinceZero
          <6> DEFINE zero == stack[h].program[(Position(h) + 1) - 2]
          <6>2. /\ Position(h) + 1 > 2 /\ Registers(zero, {"zerocounters"})
                /\ SameRound(At(h, Position(h) + 1).task, zero.task)
            BY <4>1, <6>1 DEF ZeroBefore, At
          <6>3. zero = At(h, Position(h) - 1) /\ IsStep(h, Position(h) - 1)
            <7>1. (Position(h) + 1) - 2 = Position(h) - 1
              BY <3>4
            <7>2. Position(h) - 1 \in 1..Len(stack[h].program)
              BY <3>4, <3>6, <6>2, FrameWork DEF IsStep
            <7> QED
              BY <5>1, <7>1, <7>2 DEF At, IsStep
          <6>4. LastIs(zero.task)
            BY <2>1, <3>1, <4>3, <6>2, <6>3 DEF Rounds, AfterStep, AtTop, Registers
          <6>5. log \in Seq(Entry)
            BY DEF Inv, TypeOK, ExecutorTypeOK
          <6>6. Len(log) \in 1..Len(log) /\ (Len(log) + 1)..Len(log) = {}
            BY <6>4, <6>5 DEF LastIs
          <6>7. ToolOf(log[Len(log)].task) = "zerocounters"
                /\ SameRound(At(h, Position(h) + 1).task, log[Len(log)].task)
            BY <6>2, <6>4 DEF LastIs, Registers
          <6> QED
            BY <6>6, <6>7
        <5> QED
          BY <2>2, <4>2, <5>2, <5>3, <5>4
      <4>4. CASE h # n
        <5>1. ~AtTop(h) /\ n \in (h + 1)..n
          BY <2>1, <4>4 DEF AtTop
        <5>2. /\ \A g \in (h + 1)..n : MeasuredFrame(Names, stack[g])
              /\ MeasuredSinceZero(At(h, Position(h) + 1).task)
              /\ \/ LastIsMeasured
                 \/ ret # Ok /\ \A g \in (h + 1)..n : Position(g) = 1
          BY <2>1, <3>1, <3>6, <5>1 DEF Rounds, WhileMeasuring
        <5>3. MeasuredFrame(Names, frame)
          BY <2>1, <5>1, <5>2 DEF Top
        <5>4. \A g \in (h + 1)..(n + 1) :
                \/ g = n + 1
                \/ g \in (h + 1)..n /\ stack'[g] = stack[g]
          BY <2>1, <2>2
        <5>5. \A g \in (h + 1)..n : Position(g)' = Position(g)
          BY <5>4, <2>1 DEF Position
        <5> QED
          BY <2>2, <4>2, <5>2, <5>3, <5>4, <5>5
      <4> QED
        BY <4>3, <4>4
    <3>7. WhileMeasuring(h)'
      BY <1>1, <2>2, <3>2, <3>6, SameLog DEF WhileMeasuring
    <3>8. AfterStep(h)' /\ AfterRegister(h)' /\ BeforeCapture(h)'
      BY <3>3 DEF AfterStep, AfterRegister, BeforeCapture
    <3>9. (stack[h].kind = "plugin" =>
             InOrder(settings, Names, stack[h].program))'
      BY <1>1, <3>1, <3>2 DEF Rounds
    <3> QED
      BY <3>5, <3>7, <3>8, <3>9 DEF Rounds
  <2>4. Rounds(n + 1)'
    <3>1. /\ AtTop(n + 1)' /\ Position(n + 1)' = 1 /\ ret' = None /\ ret' # Ok
          /\ stack'[n + 1] = frame
      BY <1>1, <2>2 DEF AtTop, Position, None, Ok
    <3>2. (stack[n + 1].kind = "plugin" =>
             InOrder(settings, Names, stack[n + 1].program))'
      BY <1>1, <2>2
    <3>3. AtCall(n + 1)' /\ AfterRegister(n + 1)' /\ WhileMeasuring(n + 1)'
      BY <3>1 DEF AtCall, AfterRegister, WhileMeasuring
    <3>4. AfterStep(n + 1)'
      <4>1. ~IsStep(n + 1, Position(n + 1) - 1)'
        BY <3>1 DEF IsStep
      <4> QED
        BY <4>1 DEF AfterStep
    <3>5. BeforeCapture(n + 1)'
      <4>1. ~(IsStep(n + 1, 1) /\ Registers(At(n + 1, 1), {"capture"}))'
        <5>1. SUFFICES ASSUME frame.kind = "plugin",
                              1 \in 1..Len(frame.program),
                              Registers(frame.program[1], {"capture"})
                       PROVE  FALSE
          BY <3>1 DEF IsStep, At
        <5>2. CapturesInOrder(settings, Names, frame.program, 1)
          BY <5>1 DEF InOrder
        <5> QED
          BY <5>1, <5>2 DEF CapturesInOrder
      <4> QED
        BY <3>1, <4>1 DEF BeforeCapture
    <3> QED
      BY <3>2, <3>3, <3>4, <3>5 DEF Rounds
  <2>5. \A h \in 1..(n + 1) : h \in 1..n \/ h = n + 1
    BY <2>1
  <2> QED
    BY <1>2, <2>2, <2>3, <2>4, <2>5 DEF RoundsInv
<1> QED
  BY <1>3, <1>4 DEF Call

\* A return: what succeeded and is measured has registered something.
LEMMA RoundsReturn ==
  ASSUME Inv, RoundsInv, Running, NEW result \in {Ok, Failed}, Unwind(result),
         UNCHANGED <<settings, executorState>>, result = Ok => AtEnd(Top)
  PROVE  RoundsInv'
<1>1. UNCHANGED <<settings, log>> /\ Names' = Names /\ process = "running"
  BY SameNames DEF executorState, Running
<1>2. LcovRounds'
  BY <1>1, SameLog DEF RoundsInv
<1>3. PICK n \in Nat \ {0} : n = Len(stack)
  BY TopFrame DEF Inv
<1>4. ret' = result /\ ret' # None /\ (result = Ok \/ result # Ok)
  BY DEF Unwind, Ok, Failed, None
<1>5. /\ Len(stack') = n - 1
      /\ \A h \in 1..(n - 1) : stack'[h] = stack[h]
  BY <1>3, PoppedStack DEF Inv, Unwind
<1>6. ASSUME NEW h \in 1..(n - 1) PROVE Rounds(h)'
  <2>1. h \in 1..Len(stack) /\ h \in Nat /\ ~AtTop(h)
    BY <1>3 DEF AtTop
  <2>2. Rounds(h)
    BY <1>1, <2>1 DEF RoundsInv
  <2>3. /\ \A j : At(h, j)' = At(h, j) /\ (IsStep(h, j)' <=> IsStep(h, j))
        /\ Position(h)' = Position(h) /\ stack'[h] = stack[h]
    BY <1>5, SameFrame
  <2>4. IsStep(h, Position(h)) => At(h, Position(h)).op = "execute"
    BY <2>1, <2>2 DEF Rounds, AtCall
  <2>5. AtCall(h)'
    BY <2>3, <2>4 DEF AtCall
  <2>6. AfterRegister(h)'
    BY <2>3, <2>4 DEF AfterRegister
  <2>7. AfterStep(h)' /\ BeforeCapture(h)'
    BY <1>4 DEF AfterStep, BeforeCapture
  <2>8. ASSUME IsStep(h, Position(h) + 1),
               Registers(At(h, Position(h) + 1), {"capture"})
        PROVE  /\ \A g \in (h + 1)..(n - 1) : MeasuredFrame(Names, stack'[g])
               /\ MeasuredSinceZero(At(h, Position(h) + 1).task)
               /\ \/ LastIsMeasured
                  \/ ret' # Ok /\ \A g \in (h + 1)..(n - 1) : Position(g)' = 1
    <3>1. /\ \A g \in (h + 1)..n : MeasuredFrame(Names, stack[g])
          /\ MeasuredSinceZero(At(h, Position(h) + 1).task)
          /\ \/ LastIsMeasured
             \/ ret # Ok /\ \A g \in (h + 1)..n : Position(g) = 1
      BY <1>3, <2>1, <2>2, <2>8 DEF Rounds, WhileMeasuring
    <3>2. \A g \in (h + 1)..(n - 1) :
            g \in (h + 1)..n /\ stack'[g] = stack[g] /\ Position(g)' = Position(g)
      <4>1. \A g \in (h + 1)..(n - 1) : g \in (h + 1)..n /\ g \in 1..(n - 1)
        BY <2>1
      <4> QED
        BY <1>5, <4>1 DEF Position
    <3>3. CASE result # Ok
      BY <1>4, <3>1, <3>2, <3>3
    <3>4. CASE result = Ok
      <4>1. n \in (h + 1)..n /\ stack[n] = Top /\ Position(n) = Top.position
        BY <1>3, <2>1 DEF Top, Position
      <4>2. MeasuredFrame(Names, Top) /\ Top \in Frame /\ AtEnd(Top)
        BY <3>1, <3>4, <4>1, TopFrame DEF Inv
      <4>3. Position(n) # 1
        BY <4>1, <4>2, MeasuredFrameWork
      <4>4. LastIsMeasured
        BY <3>1, <4>1, <4>3
      <4> QED
        BY <3>1, <3>2, <4>4
    <3> QED
      BY <3>3, <3>4
  <2>9. WhileMeasuring(h)'
    BY <1>1, <1>5, <2>3, <2>8, SameLog DEF WhileMeasuring
  <2>10. (stack[h].kind = "plugin" =>
            InOrder(settings, Names, stack[h].program))'
    BY <1>1, <2>2, <2>3 DEF Rounds
  <2> QED
    BY <2>5, <2>6, <2>7, <2>9, <2>10 DEF Rounds
<1> QED
  BY <1>2, <1>5, <1>6 DEF RoundsInv

\* Moving on: the frames below the top stay as they are, and so does the log.
LEMMA RoundsBelow ==
  ASSUME Inv, RoundsInv, Running, ret # None, ret' = None,
         NEW position \in Nat \ {0}, Goto(position),
         UNCHANGED <<settings, executorState>>,
         MeasuredFrame(Names, Top) => ret = Ok
  PROVE  /\ Len(stack') = Len(stack)
         /\ \A h \in 1..(Len(stack) - 1) : Rounds(h)'
         /\ stack'[Len(stack)] = [Top EXCEPT !.position = position]
         /\ [Top EXCEPT !.position = position] \in Frame
<1>1. UNCHANGED <<settings, log>> /\ Names' = Names /\ process = "running"
  BY SameNames DEF executorState, Running
<1>2. PICK n \in Nat \ {0} : n = Len(stack)
  BY TopFrame DEF Inv
<1> DEFINE moved == [Top EXCEPT !.position = position]
<1>3. Top \in Frame /\ moved \in Frame /\ stack \in Seq(Frame)
  BY TopFrame, MovedFrame DEF Inv, TypeOK
<1>4. stack' = [stack EXCEPT ![Len(stack)] = moved]
  BY DEF Goto, Top
<1>5. MeasuredFrame(Names, moved) <=> MeasuredFrame(Names, Top)
  <2>1. /\ moved.kind = Top.kind
        /\ Top.kind = "commands" => moved.commands = Top.commands
        /\ Top.kind = "plugin" => moved.program = Top.program
        /\ Top.kind \in {"commands", "plugin"}
    BY <1>3, FrameWork DEF Frame, CommandsFrame, PluginFrame
  <2> QED
    BY <2>1 DEF MeasuredFrame
<1> HIDE DEF moved
<1>6. /\ Len(stack') = n /\ stack'[n] = moved
      /\ \A h \in 1..(n - 1) : stack'[h] = stack[h]
  BY <1>2, <1>3, <1>4
<1>7. ASSUME NEW h \in 1..(n - 1) PROVE Rounds(h)'
  <2>1. h \in 1..Len(stack) /\ h \in Nat /\ ~AtTop(h) /\ ~AtTop(h)'
    BY <1>2, <1>6 DEF AtTop
  <2>2. Rounds(h)
    BY <1>1, <2>1 DEF RoundsInv
  <2>3. /\ \A j : At(h, j)' = At(h, j) /\ (IsStep(h, j)' <=> IsStep(h, j))
        /\ Position(h)' = Position(h) /\ stack'[h] = stack[h]
    BY <1>6, SameFrame
  <2>4. AtCall(h)'
    BY <2>1, <2>2, <2>3 DEF AtCall, Rounds
  <2>5. AfterStep(h)' /\ AfterRegister(h)' /\ BeforeCapture(h)'
    BY <2>1 DEF AfterStep, AfterRegister, BeforeCapture
  <2>6. ASSUME IsStep(h, Position(h) + 1),
               Registers(At(h, Position(h) + 1), {"capture"})
        PROVE  /\ \A g \in (h + 1)..n : MeasuredFrame(Names, stack'[g])
               /\ MeasuredSinceZero(At(h, Position(h) + 1).task)
               /\ LastIsMeasured
    <3>1. /\ \A g \in (h + 1)..n : MeasuredFrame(Names, stack[g])
          /\ MeasuredSinceZero(At(h, Position(h) + 1).task)
          /\ LastIsMeasured \/ ret # Ok
      BY <1>2, <2>1, <2>2, <2>6 DEF Rounds, WhileMeasuring
    <3>2. n \in (h + 1)..n /\ stack[n] = Top
      BY <1>2, <2>1 DEF Top
    <3>3. MeasuredFrame(Names, moved)
      BY <1>5, <3>1, <3>2
    <3>4. \A g \in (h + 1)..n : g = n \/ stack'[g] = stack[g]
      BY <1>6, <2>1
    <3>5. LastIsMeasured
      BY <3>1, <3>2
    <3> QED
      BY <1>6, <3>1, <3>3, <3>4, <3>5
  <2>7. WhileMeasuring(h)'
    BY <1>1, <1>6, <2>3, <2>6, SameLog DEF WhileMeasuring
  <2>8. (stack[h].kind = "plugin" =>
            InOrder(settings, Names, stack[h].program))'
    BY <1>1, <2>2, <2>3 DEF Rounds
  <2> QED
    BY <2>4, <2>5, <2>7, <2>8 DEF Rounds
<1> QED
  BY <1>2, <1>3, <1>6, <1>7 DEF moved

\* The top after it has moved on: two of its conditions are left to show.
MayMoveTo(position) ==
  /\ Top.kind = "plugin" /\ position - 1 \in 1..Len(Top.program)
     /\ Top.program[position - 1].op = "register"
       => LastIs(Top.program[position - 1].task)
  /\ Top.kind = "plugin" /\ position \in 1..Len(Top.program)
     /\ Registers(Top.program[position], {"capture"})
       => MeasuredSinceZero(Top.program[position].task) /\ LastIsMeasured

LEMMA RoundsMoved ==
  ASSUME Inv, RoundsInv, Running, ret # None, ret' = None,
         NEW position \in Nat \ {0}, Goto(position),
         UNCHANGED <<settings, executorState>>,
         MeasuredFrame(Names, Top) => ret = Ok,
         MayMoveTo(position)
  PROVE  RoundsInv'
<1>1. UNCHANGED <<settings, log>> /\ Names' = Names /\ process = "running"
  BY SameNames DEF executorState, Running
<1>2. PICK n \in Nat \ {0} : n = Len(stack)
  BY TopFrame DEF Inv
<1> DEFINE moved == [Top EXCEPT !.position = position]
<1>3. /\ Len(stack') = n /\ \A h \in 1..(n - 1) : Rounds(h)'
      /\ stack'[n] = moved /\ moved \in Frame
  BY <1>2, RoundsBelow
<1>4. LcovRounds'
  BY <1>1, SameLog DEF RoundsInv
<1>5. Top \in Frame
  BY TopFrame DEF Inv
<1>6. /\ moved.kind = Top.kind /\ moved.position = position
      /\ Top.kind = "plugin" => moved.program = Top.program
  BY <1>5 DEF Frame, CommandsFrame, PluginFrame
<1> HIDE DEF moved
<1>7. AtTop(n)' /\ Position(n)' = position
  BY <1>3, <1>6 DEF AtTop, Position
<1>8. Rounds(n)
  BY <1>1, <1>2 DEF RoundsInv
<1>9. (stack[n].kind = "plugin" =>
         InOrder(settings, Names, stack[n].program))'
  BY <1>1, <1>2, <1>3, <1>6, <1>8 DEF Rounds, Top
<1>10. AtCall(n)' /\ AfterRegister(n)' /\ WhileMeasuring(n)'
  BY <1>7 DEF AtCall, AfterRegister, WhileMeasuring, None, Ok
<1>11. AfterStep(n)'
  <2>1. ASSUME IsStep(n, position - 1)', (At(n, position - 1).op = "register")'
        PROVE  LastIs(At(n, position - 1).task)'
    <3>1. Top.kind = "plugin" /\ At(n, position - 1)' = Top.program[position - 1]
          /\ position - 1 \in 1..Len(Top.program)
      BY <1>3, <1>6, <2>1 DEF IsStep, At
    <3>2. LastIs(Top.program[position - 1].task)
      BY <2>1, <3>1 DEF MayMoveTo
    <3> QED
      BY <1>1, <3>1, <3>2 DEF LastIs
  <2> QED
    BY <1>7, <2>1 DEF AfterStep
<1>12. BeforeCapture(n)'
  <2>1. ASSUME IsStep(n, position)', Registers(At(n, position), {"capture"})'
        PROVE  (MeasuredSinceZero(At(n, position).task) /\ LastIsMeasured)'
    <3>1. Top.kind = "plugin" /\ At(n, position)' = Top.program[position]
          /\ position \in 1..Len(Top.program)
      BY <1>3, <1>6, <2>1 DEF IsStep, At
    <3>2. MeasuredSinceZero(Top.program[position].task) /\ LastIsMeasured
      BY <2>1, <3>1 DEF MayMoveTo
    <3> QED
      BY <1>1, <3>1, <3>2 DEF MeasuredSinceZero, LastIsMeasured
  <2> QED
    BY <1>7, <2>1 DEF BeforeCapture
<1>13. Rounds(n)'
  BY <1>9, <1>10, <1>11, <1>12 DEF Rounds
<1>14. \A h \in 1..n : h \in 1..(n - 1) \/ h = n
  OBVIOUS
<1> QED
  BY <1>3, <1>4, <1>13, <1>14 DEF RoundsInv

\* The frame at the top, by its place on the stack.
LEMMA RoundsOfTop ==
  ASSUME Inv, RoundsInv, Running
  PROVE  /\ Rounds(Len(stack)) /\ AtTop(Len(stack)) /\ Top \in Frame
         /\ Top = stack[Len(stack)] /\ Position(Len(stack)) = Top.position
         /\ Top.position \in Nat \ {0}
         /\ Top.kind = "plugin" => InOrder(settings, Names, Top.program)
         /\ Top.kind = "plugin" =>
              /\ \A j : At(Len(stack), j) = Top.program[j]
              /\ \A j : IsStep(Len(stack), j) <=> j \in 1..Len(Top.program)
<1>1. Len(stack) \in 1..Len(stack) /\ Top \in Frame
  BY TopFrame DEF Inv
<1>2. Rounds(Len(stack))
  BY <1>1 DEF RoundsInv, Running
<1> QED
  BY <1>1, <1>2, FrameWork DEF Rounds, AtTop, Top, Position, At, IsStep

LEMMA RoundsCalleeSucceeded ==
  ASSUME Inv, RoundsInv, CalleeSucceeded
  PROVE  RoundsInv'
<1>1. Running /\ ret = Ok /\ ret # None /\ ret' = None
  BY DEF CalleeSucceeded, Ok, None
<1> DEFINE n == Len(stack)
           j == Top.position
<1>2. /\ Rounds(n) /\ AtTop(n) /\ Position(n) = j /\ j \in Nat \ {0}
      /\ Top = stack[n]
      /\ Top.kind = "plugin" =>
           /\ \A i : At(n, i) = Top.program[i]
           /\ \A i : IsStep(n, i) <=> i \in 1..Len(Top.program)
  BY <1>1, RoundsOfTop
<1>3. j + 1 \in Nat \ {0} /\ (j + 1) - 1 = j
  BY <1>2
<1> HIDE DEF n, j
<1>4. ASSUME Top.kind = "plugin", j \in 1..Len(Top.program),
             Top.program[j].op = "register"
      PROVE  LastIs(Top.program[j].task)
  BY <1>1, <1>2, <1>4 DEF Rounds, AfterRegister
<1>5. ASSUME Top.kind = "plugin", j + 1 \in 1..Len(Top.program),
             Registers(Top.program[j + 1], {"capture"})
      PROVE  MeasuredSinceZero(Top.program[j + 1].task) /\ LastIsMeasured
  BY <1>1, <1>2, <1>5 DEF Rounds, WhileMeasuring
<1>6. Goto(j + 1) /\ UNCHANGED <<settings, executorState>>
  BY DEF CalleeSucceeded, j
<1>7. MayMoveTo(j + 1)
  BY <1>3, <1>4, <1>5 DEF MayMoveTo
<1> QED
  BY <1>1, <1>3, <1>6, <1>7, RoundsMoved

LEMMA RoundsIgnoreFailure ==
  ASSUME Inv, RoundsInv, IgnoreFailure
  PROVE  RoundsInv'
<1>1. Running /\ ret = Failed /\ ret # None /\ ret' = None /\ ret # Ok
  BY DEF IgnoreFailure, Ok, None, Failed
<1> DEFINE n == Len(stack)
           j == Top.position
<1>2. /\ Top \in Frame /\ j \in Nat \ {0} /\ Top = stack[n]
      /\ Top.kind = "plugin" => InOrder(settings, Names, Top.program)
  BY <1>1, RoundsOfTop
<1>3. ~AtEnd(Top)
  BY <1>1, TopFrame DEF Inv, CallersWait, Top
<1>4. Top.kind = "plugin" /\ Current(Top).otherwise # 0
  BY DEF IgnoreFailure, Propagates
<1>5. Current(Top) = Top.program[j] /\ Current(Top) \in Step
      /\ j \in 1..Len(Top.program)
  BY <1>2, <1>3, <1>4, FrameWork, FrameCurrent DEF Current, AtEnd
<1>6. Current(Top).otherwise \in Nat \ {0}
  BY <1>4, <1>5 DEF Step
<1>7. \A i \in 1..Len(Top.program) : Top.program[i].op # "register"
  BY <1>2, <1>4, <1>5 DEF InOrder, JumpsOverCalls
<1>8. ~MeasuredFrame(Names, Top)
  <2>1. ~MeasuredStep(Names, Top.program[j])
    BY <1>4, <1>5 DEF MeasuredStep, Measures
  <2> QED
    BY <1>4, <1>5, <2>1 DEF MeasuredFrame
<1>9. Goto(Current(Top).otherwise) /\ UNCHANGED <<settings, executorState>>
  BY DEF IgnoreFailure
<1> HIDE DEF j
<1>10. MayMoveTo(Current(Top).otherwise)
  BY <1>7 DEF MayMoveTo, Registers
<1> QED
  BY <1>1, <1>6, <1>8, <1>9, <1>10, RoundsMoved

\* What follows what was registered before keeps the rounds.
LEMMA LcovRoundsAppend ==
  ASSUME LcovRounds, log \in Seq(Entry), UNCHANGED settings, NEW entry,
         log' = Append(log, entry), log' \in Seq(Entry),
         ToolOf(entry.task) = "capture" =>
           MeasuredSinceZero(entry.task) /\ LastIsMeasured,
         ToolOf(entry.task) \in {"remove", "genhtml"} =>
           /\ log # <<>> /\ ToolOf(log[Len(log)].task) \in {"capture", "remove"}
           /\ SameRound(entry.task, log[Len(log)].task)
  PROVE  LcovRounds'
<1>1. PICK n \in Nat : n = Len(log)
  OBVIOUS
<1>2. /\ Len(log') = n + 1 /\ log'[n + 1] = entry
      /\ \A i \in 1..n : log'[i] = log[i]
  BY <1>1
<1> DEFINE Task1(i) == log'[i].task
           Fine(i) ==
             /\ ToolOf(Task1(i)) = "capture" =>
                  \E j \in 0..(i - 2) :
                    /\ \A m \in (j + 1)..(i - 1) : IsMeasured(Task1(m))
                    /\ AsksForZero(settings, Task1(i)) =>
                         /\ j > 0 /\ ToolOf(Task1(j)) = "zerocounters"
                         /\ SameRound(Task1(i), Task1(j))
             /\ ToolOf(Task1(i)) \in {"remove", "genhtml"} =>
                  /\ i > 1 /\ ToolOf(Task1(i - 1)) \in {"capture", "remove"}
                  /\ SameRound(Task1(i), Task1(i - 1))
<1>3. SUFFICES \A i \in 1..(n + 1) : Fine(i)
  BY <1>2 DEF LcovRounds
<1>4. \A i \in 1..n : Task1(i) = log[i].task
  BY <1>2
<1>5. Task1(n + 1) = entry.task
  BY <1>2
<1> HIDE DEF Task1
<1>6. ASSUME NEW i \in 1..n PROVE Fine(i)
  <2>1. \A m \in 1..i : Task1(m) = log[m].task
    BY <1>4
  <2>2. /\ \A j \in 0..(i - 2) : j > 0 => Task1(j) = log[j].task
        /\ \A j \in 0..(i - 2) :
             \A m \in (j + 1)..(i - 1) : Task1(m) = log[m].task
        /\ i > 1 => Task1(i - 1) = log[i - 1].task
    BY <2>1
  <2>3. /\ ToolOf(log[i].task) = "capture" =>
             \E j \in 0..(i - 2) :
               /\ \A m \in (j + 1)..(i - 1) : IsMeasured(log[m].task)
               /\ AsksForZero(settings, log[i].task) =>
                    /\ j > 0 /\ ToolOf(log[j].task) = "zerocounters"
                    /\ SameRound(log[i].task, log[j].task)
        /\ ToolOf(log[i].task) \in {"remove", "genhtml"} =>
             /\ i > 1 /\ ToolOf(log[i - 1].task) \in {"capture", "remove"}
             /\ SameRound(log[i].task, log[i - 1].task)
    BY <1>1 DEF LcovRounds
  <2>4. Task1(i) = log[i].task
    BY <1>4
  <2>5. ToolOf(Task1(i)) \in {"remove", "genhtml"} =>
             /\ i > 1 /\ ToolOf(Task1(i - 1)) \in {"capture", "remove"}
             /\ SameRound(Task1(i), Task1(i - 1))
    BY <2>2, <2>3, <2>4
  <2>6. ASSUME ToolOf(Task1(i)) = "capture"
        PROVE  \E j \in 0..(i - 2) :
                 /\ \A m \in (j + 1)..(i - 1) : IsMeasured(Task1(m))
                 /\ AsksForZero(settings, Task1(i)) =>
                      /\ j > 0 /\ ToolOf(Task1(j)) = "zerocounters"
                      /\ SameRound(Task1(i), Task1(j))
    <3>1. PICK j \in 0..(i - 2) :
            /\ \A m \in (j + 1)..(i - 1) : IsMeasured(log[m].task)
            /\ AsksForZero(settings, log[i].task) =>
                 /\ j > 0 /\ ToolOf(log[j].task) = "zerocounters"
                 /\ SameRound(log[i].task, log[j].task)
      BY <2>3, <2>4, <2>6
    <3>2. \A m \in (j + 1)..(i - 1) : IsMeasured(Task1(m))
      BY <2>2, <3>1
    <3>3. AsksForZero(settings, Task1(i)) =>
            /\ j > 0 /\ ToolOf(Task1(j)) = "zerocounters"
            /\ SameRound(Task1(i), Task1(j))
      BY <2>2, <2>4, <3>1
    <3> QED
      BY <3>2, <3>3
  <2> QED
    BY <2>5, <2>6
<1>7. Fine(n + 1)
  <2>1. (n + 1) - 1 = n /\ (n + 1) - 2 = n - 1
    OBVIOUS
  <2>2. ASSUME ToolOf(entry.task) \in {"remove", "genhtml"}
        PROVE  /\ n + 1 > 1 /\ ToolOf(Task1(n)) \in {"capture", "remove"}
               /\ SameRound(entry.task, Task1(n))
    <3>1. log # <<>> /\ ToolOf(log[n].task) \in {"capture", "remove"}
          /\ SameRound(entry.task, log[n].task)
      BY <1>1, <2>2
    <3>2. n \in 1..n
      BY <1>1, <3>1
    <3> QED
      BY <1>4, <3>1, <3>2
  <2>3. ASSUME ToolOf(entry.task) = "capture"
        PROVE  \E j \in 0..(n - 1) :
                 /\ \A m \in (j + 1)..n : IsMeasured(Task1(m))
                 /\ AsksForZero(settings, entry.task) =>
                      /\ j > 0 /\ ToolOf(Task1(j)) = "zerocounters"
                      /\ SameRound(entry.task, Task1(j))
    <3>1. n \in 1..n /\ IsMeasured(log[n].task)
      BY <1>1, <2>3 DEF LastIsMeasured
    <3>2. CASE AsksForZero(settings, entry.task)
      <4>1. PICK q \in 1..n :
              /\ ToolOf(log[q].task) = "zerocounters"
              /\ SameRound(entry.task, log[q].task)
              /\ \A m \in (q + 1)..n : IsMeasured(log[m].task)
        BY <1>1, <2>3, <3>2 DEF MeasuredSinceZero
      <4>2. q # n
        BY <3>1, <4>1 DEF IsMeasured
      <4>3. q \in 0..(n - 1) /\ q > 0
        BY <4>1, <4>2
      <4>4. \A m \in (q + 1)..n : Task1(m) = log[m].task
        BY <1>4
      <4>5. Task1(q) = log[q].task
        BY <1>4
      <4> QED
        BY <4>1, <4>3, <4>4, <4>5
    <3>3. CASE ~AsksForZero(settings, entry.task)
      <4>1. n - 1 \in 0..(n - 1) /\ \A m \in ((n - 1) + 1)..n : m = n
        BY <3>1
      <4>2. IsMeasured(Task1(n))
        BY <1>4, <3>1
      <4> QED
        BY <3>3, <4>1, <4>2
    <3> QED
      BY <3>2, <3>3
  <2> QED
    BY <1>5, <2>1, <2>2, <2>3
<1>8. \A i \in 1..(n + 1) : i \in 1..n \/ i = n + 1
  OBVIOUS
<1> HIDE DEF Fine
<1> QED
  BY <1>6, <1>7, <1>8

LEMMA RoundsRegisterTask ==
  ASSUME Inv, RoundsInv, RegisterTask
  PROVE  RoundsInv'
<1>1. Running /\ ret = None /\ Top.kind = "plugin" /\ ~AtEnd(Top)
      /\ Current(Top).op = "register" /\ process = "running"
      /\ UNCHANGED <<settings, stack>> /\ Names' = Names
      /\ ret' = Ok /\ ret' # None
  BY SameNames DEF RegisterTask, Running, Ok, None
<1> DEFINE n == Len(stack)
           j == Top.position
           step == Top.program[j]
<1>2. /\ Rounds(n) /\ AtTop(n) /\ Position(n) = j /\ j \in Nat \ {0}
      /\ Top = stack[n] /\ Top \in Frame
      /\ InOrder(settings, Names, Top.program)
      /\ \A i : At(n, i) = Top.program[i]
      /\ \A i : IsStep(n, i) <=> i \in 1..Len(Top.program)
  BY <1>1, RoundsOfTop
<1>3. Current(Top) = step /\ j \in 1..Len(Top.program)
  BY <1>1, <1>2, FrameWork DEF Current, AtEnd
<1>4. step.op = "register"
  BY <1>1, <1>3
<1>5. log \in Seq(Entry) /\ Inv'
  BY RegisterTaskInv DEF Inv, TypeOK, ExecutorTypeOK
<1>6. log' \in Seq(Entry)
  BY <1>5 DEF Inv, TypeOK, ExecutorTypeOK
<1>7. \/ log' = log /\ process' # "running"
      \/ \E entry : entry.task = step.task /\ log' = Append(log, entry)
  <2>1. ExecuteTask(step.task)
    BY <1>3 DEF RegisterTask
  <2> HIDE DEF step
  <2>2. \A how, code : [task |-> step.task, how |-> how, code |-> code].task
                         = step.task
    OBVIOUS
  <2>3. \A how, code :
          Record(step.task, how, code) =>
            \E entry : entry.task = step.task /\ log' = Append(log, entry)
    BY <2>2 DEF Record
  <2> QED
    BY <2>1, <2>3
    DEF ExecuteTask, Report, RunSuccessfully, RunFailsAndGoesOn,
        RunFailsAndExits, BinaryNotFound
<1>8. CASE log' = log /\ process' # "running"
  <2>1. LcovRounds'
    BY <1>1, <1>8, SameLog DEF RoundsInv
  <2> QED
    BY <1>8, <2>1 DEF RoundsInv
<1>9. CASE \E entry : entry.task = step.task /\ log' = Append(log, entry)
  <2>1. PICK entry : entry.task = step.task /\ log' = Append(log, entry)
    BY <1>9
  <2>2. /\ Len(log') = Len(log) + 1 /\ log'[Len(log) + 1] = entry
        /\ \A i \in 1..Len(log) : log'[i] = log[i]
        /\ Len(log) \in Nat
    BY <1>5, <2>1
  <2> HIDE DEF n, j, step
  <2>3. LcovRounds'
    <3>1. ASSUME ToolOf(entry.task) = "capture"
          PROVE  MeasuredSinceZero(entry.task) /\ LastIsMeasured
      <4>1. Registers(step, {"capture"})
        BY <1>4, <2>1, <3>1 DEF Registers
      <4> QED
        BY <1>1, <1>2, <1>3, <2>1, <4>1 DEF Rounds, BeforeCapture, step
    <3>2. ASSUME ToolOf(entry.task) \in {"remove", "genhtml"}
          PROVE  /\ log # <<>>
                 /\ ToolOf(log[Len(log)].task) \in {"capture", "remove"}
                 /\ SameRound(entry.task, log[Len(log)].task)
      <4>1. Registers(step, {"remove", "genhtml"})
        BY <1>4, <2>1, <3>2 DEF Registers
      <4>2. /\ j > 1 /\ Registers(Top.program[j - 1], {"capture", "remove"})
            /\ SameRound(step.task, Top.program[j - 1].task)
        BY <1>2, <1>3, <4>1 DEF InOrder, ReportsInOrder, step
      <4>3. IsStep(n, j - 1) /\ At(n, j - 1) = Top.program[j - 1]
        <5>1. j - 1 \in 1..Len(Top.program)
          BY <1>2, <1>3, <4>2
        <5> QED
          BY <1>2, <5>1
      <4>4. LastIs(Top.program[j - 1].task)
        BY <1>1, <1>2, <4>2, <4>3 DEF Rounds, AfterStep, Registers
      <4> QED
        BY <2>1, <4>2, <4>4 DEF LastIs, Registers
    <3> QED
      BY <1>1, <1>5, <1>6, <2>1, <3>1, <3>2, LcovRoundsAppend DEF RoundsInv
  <2>4. log' # <<>> /\ log'[Len(log')] = entry
    BY <2>1, <2>2
  <2>5. ASSUME NEW h \in 1..n PROVE Rounds(h)'
    <3>0. h \in 1..Len(stack) /\ h \in Nat /\ n \in Nat /\ n = Len(stack)
      BY TopFrame, <1>1 DEF n, Inv
    <3>1. Rounds(h)
      BY <1>1, <3>0 DEF RoundsInv
    <3>2. /\ \A i : At(h, i)' = At(h, i) /\ (IsStep(h, i)' <=> IsStep(h, i))
          /\ Position(h)' = Position(h) /\ stack'[h] = stack[h]
          /\ (AtTop(h)' <=> AtTop(h))
      BY <1>1, SameFrame DEF AtTop
    <3>3. (stack[h].kind = "plugin" =>
              InOrder(settings, Names, stack[h].program))'
      BY <1>1, <3>1, <3>2 DEF Rounds
    <3>4. AtCall(h)'
      BY <3>1, <3>2 DEF Rounds, AtCall
    <3>5. AfterStep(h)' /\ BeforeCapture(h)'
      BY <1>1 DEF AfterStep, BeforeCapture
    <3>6. AfterRegister(h)'
      <4>1. SUFFICES ASSUME AtTop(h) PROVE AfterRegister(h)'
        BY <3>2 DEF AfterRegister
      <4>2. h = n
        BY <3>0, <4>1 DEF AtTop
      <4>3. At(h, Position(h)) = step
        BY <1>2, <4>2 DEF step
      <4>4. LastIs(step.task)'
        <5>1. step.task = entry.task /\ step' = step
          BY <1>1, <2>1 DEF step, j, Top
        <5> QED
          BY <2>4, <5>1 DEF LastIs
      <4>5. LastIs(At(h, Position(h)).task)'
        <5>1. step' = step
          BY <1>1 DEF step, j, Top
        <5> QED
          BY <3>2, <4>3, <4>4, <5>1 DEF LastIs
      <4> QED
        BY <4>5 DEF AfterRegister
    <3>7. ASSUME IsStep(h, Position(h) + 1),
                 Registers(At(h, Position(h) + 1), {"capture"})
          PROVE  /\ \A g \in (h + 1)..n : MeasuredFrame(Names, stack[g])
                 /\ h # n /\ IsMeasured(entry.task)
                 /\ MeasuredSinceZero(At(h, Position(h) + 1).task)
      <4>1. h # n
        <5>1. Measures(Names, At(h, (Position(h) + 1) - 1))
          BY <3>1, <3>7, CallBeforeCapture
        <5>2. SUFFICES ASSUME h = n PROVE FALSE
          OBVIOUS
        <5>3. At(h, (Position(h) + 1) - 1) = step
          BY <1>2, <5>2 DEF step
        <5> QED
          BY <1>4, <5>1, <5>3 DEF Measures
      <4>2. ~AtTop(h) /\ n \in (h + 1)..n
        BY <3>0, <4>1 DEF AtTop
      <4>3. /\ \A g \in (h + 1)..n : MeasuredFrame(Names, stack[g])
            /\ MeasuredSinceZero(At(h, Position(h) + 1).task)
        BY <3>0, <3>1, <3>7, <4>2 DEF Rounds, WhileMeasuring
      <4>4. MeasuredStep(Names, step)
        BY <1>1, <1>2, <1>3, <4>2, <4>3 DEF MeasuredFrame, step
      <4>5. IsMeasured(step.task)
        BY <1>4, <4>4 DEF MeasuredStep, Measures
      <4> QED
        BY <2>1, <4>1, <4>3, <4>5
    <3>8. WhileMeasuring(h)'
      <4>1. SUFFICES ASSUME IsStep(h, Position(h) + 1),
                            Registers(At(h, Position(h) + 1), {"capture"})
                     PROVE  /\ \A g \in (h + 1)..n :
                                 MeasuredFrame(Names, stack[g])
                            /\ MeasuredSinceZero(At(h, Position(h) + 1).task)'
                            /\ LastIsMeasured'
        BY <1>1, <3>0, <3>2 DEF WhileMeasuring
      <4>2. LastIsMeasured'
        BY <2>4, <3>7, <4>1 DEF LastIsMeasured
      <4>3. MeasuredSinceZero(At(h, Position(h) + 1).task)'
        <5> DEFINE t == At(h, Position(h) + 1).task
        <5>1. t' = t
          BY <3>2
        <5>2. MeasuredSinceZero(t) /\ IsMeasured(entry.task)
          BY <3>7, <4>1
        <5> HIDE DEF t
        <5>3. SUFFICES ASSUME AsksForZero(settings, t)
                       PROVE  \E q \in 1..Len(log') :
                                /\ ToolOf(log'[q].task) = "zerocounters"
                                /\ SameRound(t, log'[q].task)
                                /\ \A m \in (q + 1)..Len(log') :
                                     IsMeasured(log'[m].task)
          BY <1>1, <5>1 DEF MeasuredSinceZero, t
        <5>4. PICK q \in 1..Len(log) :
                /\ ToolOf(log[q].task) = "zerocounters"
                /\ SameRound(t, log[q].task)
                /\ \A m \in (q + 1)..Len(log) : IsMeasured(log[m].task)
          BY <5>2, <5>3 DEF MeasuredSinceZero
        <5>5. q \in 1..Len(log') /\ log'[q] = log[q]
          BY <2>2
        <5>6. ASSUME NEW m \in (q + 1)..Len(log') PROVE IsMeasured(log'[m].task)
          <6>1. m = Len(log) + 1 \/ m \in (q + 1)..Len(log)
            BY <2>2
          <6>2. CASE m = Len(log) + 1
            BY <2>2, <5>2, <6>2
          <6>3. CASE m \in (q + 1)..Len(log)
            <7>1. m \in 1..Len(log)
              BY <6>3
            <7> QED
              BY <2>2, <5>4, <6>3, <7>1
          <6> QED
            BY <6>1, <6>2, <6>3
        <5> QED
          BY <5>4, <5>5, <5>6
      <4> QED
        BY <3>7, <4>1, <4>2, <4>3
    <3> QED
      BY <3>3, <3>4, <3>5, <3>6, <3>8 DEF Rounds
  <2> QED
    BY <1>1, <2>3, <2>5 DEF RoundsInv, n
<1> QED
  BY <1>7, <1>8, <1>9

LEMMA RoundsStart ==
  ASSUME Inv, RoundsInv, Start
  PROVE  RoundsInv'
<1> DEFINE frame == NewCommandsFrame(commandLine, NoOwner, <<>>)
<1>1. UNCHANGED <<settings, log>> /\ stack' = <<frame>>
  BY DEF Start
<1>2. LcovRounds'
  BY <1>1, SameLog DEF RoundsInv
<1>3. frame.kind # "plugin"
  BY DEF NewCommandsFrame
<1> HIDE DEF frame
<1>4. \A h \in 1..Len(stack') : stack'[h].kind # "plugin"
  BY <1>1, <1>3
<1>5. ASSUME NEW h \in 1..Len(stack') PROVE Rounds(h)'
  <2>1. (stack[h].kind # "plugin")'
    BY <1>4
  <2> QED
    BY <2>1
    DEF Rounds, AtCall, AfterStep, AfterRegister, WhileMeasuring,
        BeforeCapture, IsStep
<1> QED
  BY <1>2, <1>5 DEF RoundsInv

LEMMA RoundsNext ==
  ASSUME LcovExecutesLines, Inv, RoundsInv, [Next]_vars
  PROVE  RoundsInv'
<1>1. Measured(settings, Names) /\ IsSettings(settings)
      /\ commandLine \in Seq(Name)
  BY NamesMeasured, SettingsOfProcess DEF Inv
<1>2. CASE Start
  BY <1>2, RoundsStart
<1>3. CASE StartWithoutCommands \/ Finish
  <2>1. UNCHANGED <<settings, log>> /\ process' # "running"
    BY <1>3 DEF StartWithoutCommands, Finish, ReturnFromMain
  <2> QED
    BY <2>1, SameLog DEF RoundsInv
<1>4. CASE ApplyPlugin
  <2>1. /\ Running /\ ret = None /\ Top.kind = "commands" /\ ~AtEnd(Top)
        /\ Current(Top) \in Plugin
    BY <1>4 DEF ApplyPlugin
  <2>2. Top \in Frame /\ Current(Top) \in Name /\ InitialCommand(Top) \in Name
        /\ Top.task \in Task
    BY <2>1, TopFrame, FrameCurrent, FrameWork DEF Inv
  <2> DEFINE program == Program(settings, commandLine, Current(Top),
                                InitialCommand(Top), Top.task)
             frame == NewPluginFrame(program)
  <2>3. frame \in Frame
    BY <1>1, <2>1, <2>2, ProgramSteps, NewFrames
  <2>4. InOrder(settings, Names, program)
    BY <1>1, <2>1, <2>2, ProgramInOrder
  <2>5. ASSUME MeasuredFrame(Names, Top) PROVE MeasuredFrame(Names, frame)
    <3>1. Current(Top) \in Names
      <4>1. Top.commands \in Seq(Names) /\ Top.position \in 1..Len(Top.commands)
        BY <2>1, <2>2, <2>5, FrameWork DEF MeasuredFrame, NonEmptyLists, AtEnd
      <4> QED
        BY <2>1, <4>1 DEF Current, Work
    <3> QED
      BY <1>1, <2>1, <2>2, <3>1, MeasuredProgram
  <2> HIDE DEF program
  <2>6. frame.position = 1 /\ frame.program = program
    BY DEF NewPluginFrame
  <2>7. Call(frame)
    BY <1>4 DEF ApplyPlugin, program
  <2> HIDE DEF frame
  <2> QED
    BY <2>1, <2>3, <2>4, <2>5, <2>6, <2>7, RoundsCall
<1>5. CASE ApplyCommand
  <2>1. /\ Running /\ ret = None /\ Top.kind = "commands" /\ ~AtEnd(Top)
        /\ Current(Top) \in DOMAIN settings.commands \ Plugin
    BY <1>5 DEF ApplyCommand
  <2>2. Top \in Frame /\ Current(Top) \in Name /\ Top.task \in Task
    BY <2>1, TopFrame, FrameCurrent, FrameWork DEF Inv
  <2> DEFINE commands == settings.commands[Current(Top)]
             frame == NewCommandsFrame(commands, Current(Top), Top.task)
  <2>3. commands \in NonEmptyLists(Name)
    BY <1>1, <2>1 DEF IsSettings, IsPartialFunction
  <2>4. commands \in Seq(Name) /\ commands # <<>>
    BY <2>3 DEF NonEmptyLists
  <2>5. ASSUME MeasuredFrame(Names, Top) PROVE MeasuredFrame(Names, frame)
    <3>1. Current(Top) \in Names
      <4>1. Top.commands \in Seq(Names) /\ Top.position \in 1..Len(Top.commands)
        BY <2>1, <2>2, <2>5, FrameWork DEF MeasuredFrame, NonEmptyLists, AtEnd
      <4> QED
        BY <2>1, <4>1 DEF Current, Work
    <3>2. commands \in Seq(Names)
      BY <1>1, <2>1, <3>1 DEF Measured
    <3> HIDE DEF commands
    <3> QED
      BY <2>4, <3>2 DEF MeasuredFrame, NewCommandsFrame, NonEmptyLists
  <2>6. Call(frame)
    BY <1>5 DEF ApplyCommand
  <2> HIDE DEF commands
  <2>7. frame \in Frame /\ frame.position = 1 /\ frame.kind = "commands"
    BY <2>2, <2>4, NewFrames DEF NewCommandsFrame
  <2> HIDE DEF frame
  <2> QED
    BY <2>1, <2>5, <2>6, <2>7, RoundsCall
<1>6. CASE ExecuteCommands
  <2>1. /\ Running /\ ret = None /\ Top.kind = "plugin" /\ ~AtEnd(Top)
        /\ Current(Top).op = "execute"
    BY <1>6 DEF ExecuteCommands
  <2>2. Top \in Frame /\ Current(Top) \in Step
    BY <2>1, TopFrame, FrameCurrent DEF Inv
  <2> DEFINE commands == Current(Top).commands
             frame == NewCommandsFrame(commands, NoOwner, Current(Top).task)
  <2>3. commands \in Seq(Name) /\ Current(Top).task \in Task
    BY <2>2 DEF Step
  <2>4. ASSUME Measures(Names, Current(Top)) PROVE MeasuredFrame(Names, frame)
    BY <2>4 DEF Measures, MeasuredFrame, NewCommandsFrame
  <2>5. ASSUME MeasuredFrame(Names, Top) PROVE Measures(Names, Current(Top))
    <3>1. Top.position \in 1..Len(Top.program)
          /\ Current(Top) = Top.program[Top.position]
      BY <2>1, <2>2, FrameWork DEF AtEnd, Current
    <3>2. MeasuredStep(Names, Current(Top))
      BY <2>1, <2>5, <3>1 DEF MeasuredFrame
    <3> QED
      BY <2>1, <3>2 DEF MeasuredStep
  <2>6. Call(frame)
    BY <1>6 DEF ExecuteCommands
  <2> HIDE DEF commands
  <2>7. frame \in Frame /\ frame.position = 1 /\ frame.kind = "commands"
    BY <2>3, NewFrames DEF NewCommandsFrame
  <2> HIDE DEF frame
  <2> QED
    BY <2>1, <2>4, <2>5, <2>6, <2>7, RoundsCall
<1>7. CASE UnknownCommand \/ InputError \/ ReturnFalse
  <2>1. Running /\ Unwind(Failed) /\ UNCHANGED <<settings, executorState>>
        /\ Failed # Ok
    BY <1>7 DEF UnknownCommand, InputError, ReturnFalse, Failed, Ok
  <2> QED
    BY <2>1, RoundsReturn
<1>8. CASE ReturnTrue
  BY <1>8, RoundsReturn DEF ReturnTrue
<1>9. CASE RegisterTask
  BY <1>9, RoundsRegisterTask
<1>10. CASE CalleeSucceeded
  BY <1>10, RoundsCalleeSucceeded
<1>11. CASE IgnoreFailure
  BY <1>11, RoundsIgnoreFailure
<1>12. CASE UNCHANGED vars
  <2>1. /\ UNCHANGED <<settings, log, stack, ret, process>> /\ Names' = Names
    BY <1>12, SameNames DEF vars, callVars, executorState
  <2>2. LcovRounds'
    BY <2>1, SameLog DEF RoundsInv
  <2>3. ASSUME NEW h, Rounds(h) PROVE Rounds(h)'
    BY <2>1, <2>3, SameLog, SameFrame
    DEF Rounds, AtCall, AfterStep, AfterRegister, WhileMeasuring,
        BeforeCapture, AtTop, IsStep, At, Position
  <2> QED
    BY <2>1, <2>2, <2>3 DEF RoundsInv
<1> QED
  BY <1>2, <1>3, <1>4, <1>5, <1>6, <1>7, <1>8, <1>9, <1>10, <1>11, <1>12
  DEF Next

LEMMA RoundsInit == Init => RoundsInv
<1> SUFFICES ASSUME Init PROVE RoundsInv
  OBVIOUS
<1>1. Len(log) = 0 /\ process # "running"
  BY DEF Init, ExecutorInit
<1>2. LcovRounds
  BY <1>1 DEF LcovRounds
<1> QED
  BY <1>1, <1>2 DEF RoundsInv

\* lcov measures what it says it measures, wherever it executes commands that
\* execute command lines only: it captures after its run commands have been
\* handed to the executor, with nothing else since the counters were zeroed,
\* and removes and reports right after that.
THEOREM RoundsHold ==
  ASSUME LcovExecutesLines
  PROVE  Spec => []LcovRounds
<1>1. Init => Inv /\ RoundsInv
  BY InitInv, RoundsInit
<1>2. (Inv /\ RoundsInv) /\ [Next]_vars => (Inv /\ RoundsInv)'
  BY NextInv, RoundsNext
<1>3. Inv /\ RoundsInv => LcovRounds
  BY DEF RoundsInv
<1> QED
  BY <1>1, <1>2, <1>3, PTL DEF Spec

=============================================================================
