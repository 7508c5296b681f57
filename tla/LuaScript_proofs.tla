--------------------------- MODULE LuaScript_proofs ---------------------------
(***************************************************************************)
(* What is executed is what the script said, for any sections, contexts    *)
(* and numbers of calls and combinations.                                  *)
(***************************************************************************)
EXTENDS LuaScript, SequenceFacts

-----------------------------------------------------------------------------
(* Calls and what they execute, when the tasks are from a set T *)

Operations == {"new", "copy", "add", "register", "target"}
CallsOn(T) == [op : Operations, task : T, rounds : Nat]
RoundsOf(T) == [task : T, combination : Nat]

LEMMA RoundsType ==
  ASSUME NEW T, NEW task \in T, NEW number \in Nat
  PROVE  Rounds(task, number) \in Seq(RoundsOf(T))
BY DEF Rounds, RoundsOf

LEMMA EffectsType ==
  ASSUME LuaScriptAssumption, NEW T, NEW call \in CallsOn(T)
  PROVE  /\ Executes(call) \in Seq(RoundsOf(T))
         /\ Registers(call) \in Seq(RoundsOf(T))
<1>1. call.task \in T /\ call.rounds \in Nat /\ Combinations \in Nat
  BY DEF CallsOn, LuaScriptAssumption
<1>2. <<>> \in Seq(RoundsOf(T))
  OBVIOUS
<1> QED
  BY <1>1, <1>2, RoundsType DEF Executes, Registers

\* Lists of calls and of tasks execute what a function makes of their elements.
Effect(T) == [call \in CallsOn(T) |-> Executes(call)]
LaterEffect(T) == [call \in CallsOn(T) |-> Registers(call)]
EveryRound(T) == [task \in T |-> Rounds(task, Combinations)]

LEMMA EffectTypes ==
  ASSUME LuaScriptAssumption, NEW T
  PROVE  /\ ListsOf(Effect(T), CallsOn(T), RoundsOf(T))
         /\ ListsOf(LaterEffect(T), CallsOn(T), RoundsOf(T))
         /\ ListsOf(EveryRound(T), T, RoundsOf(T))
BY EffectsType, RoundsType DEF Effect, LaterEffect, EveryRound, ListsOf, LuaScriptAssumption

LEMMA AreFlatMaps ==
  ASSUME NEW T
  PROVE  /\ \A calls \in Seq(CallsOn(T)) :
              /\ ExecutedBy(calls) = FlatMap(Effect(T), calls)
              /\ RegisteredBy(calls) = FlatMap(LaterEffect(T), calls)
         /\ \A list \in Seq(T) : AllRounds(list) = FlatMap(EveryRound(T), list)
<1> DEFINE C == CallsOn(T)
<1> HIDE DEF C
<1>1. ASSUME NEW calls \in Seq(C)
      PROVE  /\ [i \in DOMAIN calls |-> Executes(calls[i])]
                  = [i \in DOMAIN calls |-> Effect(T)[calls[i]]]
             /\ [i \in DOMAIN calls |-> Registers(calls[i])]
                  = [i \in DOMAIN calls |-> LaterEffect(T)[calls[i]]]
  <2>1. \A c \in C : Effect(T)[c] = Executes(c) /\ LaterEffect(T)[c] = Registers(c)
    BY DEF Effect, LaterEffect, C
  <2> QED
    BY <2>1
<1>2. ASSUME NEW list \in Seq(T)
      PROVE  [i \in DOMAIN list |-> Rounds(list[i], Combinations)]
               = [i \in DOMAIN list |-> EveryRound(T)[list[i]]]
  BY DEF EveryRound
<1> QED
  BY <1>1, <1>2 DEF ExecutedBy, RegisteredBy, AllRounds, FlatMap, C

LEMMA ExecutionTypes ==
  ASSUME LuaScriptAssumption, NEW T, NEW calls \in Seq(CallsOn(T))
  PROVE  /\ ExecutedBy(calls) \in Seq(RoundsOf(T))
         /\ RegisteredBy(calls) \in Seq(RoundsOf(T))
<1> DEFINE C == CallsOn(T)
           R == RoundsOf(T)
<1>1. ListsOf(Effect(T), C, R) /\ ListsOf(LaterEffect(T), C, R)
  BY EffectTypes
<1>2. /\ ExecutedBy(calls) = FlatMap(Effect(T), calls)
      /\ RegisteredBy(calls) = FlatMap(LaterEffect(T), calls)
  BY AreFlatMaps
<1>3. calls \in Seq(C)
  OBVIOUS
<1> HIDE DEF C, R
<1>4. FlatMap(Effect(T), calls) \in Seq(R) /\ FlatMap(LaterEffect(T), calls) \in Seq(R)
  BY <1>1, <1>3, FlatMapType
<1> QED
  BY <1>2, <1>4 DEF R

\* One more call
LEMMA CallAppended ==
  ASSUME LuaScriptAssumption, NEW T,
         NEW calls \in Seq(CallsOn(T)), NEW call \in CallsOn(T)
  PROVE  /\ ExecutedBy(Append(calls, call)) = ExecutedBy(calls) \o Executes(call)
         /\ RegisteredBy(Append(calls, call))
              = RegisteredBy(calls) \o Registers(call)
<1> DEFINE C == CallsOn(T)
           R == RoundsOf(T)
<1>1. ListsOf(Effect(T), C, R) /\ ListsOf(LaterEffect(T), C, R)
  BY EffectTypes
<1>2. Effect(T)[call] = Executes(call) /\ LaterEffect(T)[call] = Registers(call)
  BY DEF Effect, LaterEffect
<1>3. \A list \in Seq(C) : /\ ExecutedBy(list) = FlatMap(Effect(T), list)
                          /\ RegisteredBy(list) = FlatMap(LaterEffect(T), list)
  BY AreFlatMaps
<1>4. calls \in Seq(C) /\ call \in C
  OBVIOUS
<1> HIDE DEF C, R
<1>5. Append(calls, call) \in Seq(C)
  BY <1>4
<1>6. Joins(FlatMap(Effect(T), Append(calls, call)),
            FlatMap(Effect(T), calls), Effect(T)[call])
  BY <1>1, <1>4, FlatMapAppend
<1>7. Joins(FlatMap(LaterEffect(T), Append(calls, call)),
            FlatMap(LaterEffect(T), calls), LaterEffect(T)[call])
  BY <1>1, <1>4, FlatMapAppend
<1> QED
  BY <1>2, <1>3, <1>4, <1>5, <1>6, <1>7 DEF Joins

\* One more task
LEMMA TaskAppended ==
  ASSUME LuaScriptAssumption, NEW T, NEW list \in Seq(T), NEW task \in T
  PROVE  AllRounds(Append(list, task))
           = AllRounds(list) \o Rounds(task, Combinations)
<1> DEFINE R == RoundsOf(T)
<1>1. ListsOf(EveryRound(T), T, R)
  BY EffectTypes
<1>2. EveryRound(T)[task] = Rounds(task, Combinations)
  BY DEF EveryRound
<1>3. Append(list, task) \in Seq(T)
  OBVIOUS
<1> HIDE DEF R
<1>4. Joins(FlatMap(EveryRound(T), Append(list, task)),
            FlatMap(EveryRound(T), list), EveryRound(T)[task])
  BY <1>1, FlatMapAppend
<1> QED
  BY <1>2, <1>3, <1>4, AreFlatMaps DEF Joins

-----------------------------------------------------------------------------
(* The invariant *)

\* The calls and the tasks are lists, of tasks from some set.
Lists(T) == history \in Seq(CallsOn(T)) /\ tasks \in Seq(T)

\* The tasks that wait are those registered by a call, in the order of the calls.
TasksAreRegistered == AllRounds(tasks) = RegisteredBy(history)

Inv == (\E T : Lists(T)) /\ TasksAreRegistered /\ ExecutedAsCalled

LEMMA NothingYet ==
  ExecutedBy(<<>>) = <<>> /\ RegisteredBy(<<>>) = <<>> /\ AllRounds(<<>>) = <<>>
<1>1. \A f : f = [i \in DOMAIN <<>> |-> f[i]] => f = <<>>
  OBVIOUS
<1>2. /\ [i \in DOMAIN <<>> |-> Executes(<<>>[i])] = <<>>
      /\ [i \in DOMAIN <<>> |-> Registers(<<>>[i])] = <<>>
      /\ [i \in DOMAIN <<>> |-> Rounds(<<>>[i], Combinations)] = <<>>
  OBVIOUS
<1> QED
  BY <1>2, FlattenEmpty DEF ExecutedBy, RegisteredBy, AllRounds

LEMMA InitInv == ScriptInit => Inv
<1> SUFFICES ASSUME ScriptInit
             PROVE  Inv
  OBVIOUS
<1>1. Lists({})
  BY DEF ScriptInit, Lists
<1>2. TasksAreRegistered
  BY NothingYet DEF ScriptInit, TasksAreRegistered
<1>3. ExecutedAsCalled
  <2>1. <<>> \o <<>> = <<>>
    OBVIOUS
  <2> QED
    BY <2>1, NothingYet DEF ScriptInit, ExecutedAsCalled
<1> QED
  BY <1>1, <1>2, <1>3 DEF Inv

\* Lists of elements of a set are lists of elements of a larger one.
LEMMA ListsMono ==
  ASSUME NEW T, Lists(T), NEW task
  PROVE  Lists(T \cup {task})
<1> DEFINE C == CallsOn(T)
           D == CallsOn(T \cup {task})
<1>1. C \subseteq D
  BY DEF CallsOn
<1>2. history \in Seq(C) /\ tasks \in Seq(T)
  BY DEF Lists
<1> HIDE DEF C, D
<1>3. history \in Seq(D)
  BY <1>1, <1>2
<1>4. tasks \in Seq(T \cup {task})
  BY <1>2
<1> QED
  BY <1>3, <1>4 DEF Lists, D

CallOf(op, task, rounds) == [op |-> op, task |-> task, rounds |-> rounds]

\* A call that is logged: executed grows by what it executes, the tasks by what
\* it registers.
Makes(op, task, rounds) ==
  /\ op \in Operations /\ rounds \in Nat
  /\ history' = Append(history, CallOf(op, task, rounds))
  /\ executed' = executed \o Executes(CallOf(op, task, rounds))
  /\ op = "register" => tasks' = Append(tasks, task)
  /\ op # "register" => tasks' = tasks

LEMMA CallKeepsInv ==
  ASSUME LuaScriptAssumption, Inv, outcome = "running", outcome' = outcome,
         NEW op, NEW task, NEW rounds, Makes(op, task, rounds)
  PROVE  Inv'
<1> DEFINE call == CallOf(op, task, rounds)
<1>0. /\ op \in Operations /\ rounds \in Nat
      /\ call.op = op /\ call.task = task
      /\ call = [op |-> op, task |-> task, rounds |-> rounds]
      /\ history' = Append(history, call)
      /\ executed' = executed \o Executes(call)
  BY DEF CallOf, Makes
<1> HIDE DEF call
<1>1. PICK T : Lists(T) /\ task \in T
  <2>1. PICK S : Lists(S)
    BY DEF Inv
  <2>2. Lists(S \cup {task})
    BY <2>1, ListsMono
  <2> QED
    BY <2>2
<1>2. call \in CallsOn(T)
  BY <1>0, <1>1 DEF CallsOn
<1>3. /\ history \in Seq(CallsOn(T)) /\ tasks \in Seq(T)
  BY <1>1 DEF Lists
<1>4. Lists(T)'
  <2>1. history' \in Seq(CallsOn(T))
    <3> DEFINE C == CallsOn(T)
    <3>1. history \in Seq(C) /\ call \in C
      BY <1>2, <1>3
    <3> HIDE DEF C
    <3>2. Append(history, call) \in Seq(C)
      BY <3>1
    <3> QED
      BY <1>0, <3>2 DEF C
  <2>2. tasks' \in Seq(T)
    <3>1. Append(tasks, task) \in Seq(T)
      BY <1>1, <1>3
    <3> QED
      BY <1>3, <3>1 DEF Makes
  <2> QED
    BY <2>1, <2>2 DEF Lists
<1>5. /\ ExecutedBy(history) \in Seq(RoundsOf(T))
      /\ ExecutedBy(history') = ExecutedBy(history) \o Executes(call)
  BY <1>0, <1>2, <1>3, ExecutionTypes, CallAppended
<1>6. /\ RegisteredBy(history) \in Seq(RoundsOf(T))
      /\ RegisteredBy(history') = RegisteredBy(history) \o Registers(call)
  BY <1>0, <1>2, <1>3, ExecutionTypes, CallAppended
<1>7. Executes(call) \in Seq(RoundsOf(T))
  BY <1>2, EffectsType
<1>8. ExecutedAsCalled'
  <2>1. executed = ExecutedBy(history) \o <<>>
    BY DEF Inv, ExecutedAsCalled
  <2>2. ExecutedBy(history) \o Executes(call)
          = (ExecutedBy(history) \o <<>>) \o Executes(call)
    BY <1>5
  <2>3. ExecutedBy(history) \o Executes(call)
          = (ExecutedBy(history) \o Executes(call)) \o <<>>
    BY <1>5, <1>7
  <2> QED
    BY <1>0, <1>5, <2>1, <2>2, <2>3 DEF ExecutedAsCalled
<1>9. TasksAreRegistered'
  <2>1. CASE op = "register"
    <3>1. AllRounds(tasks') = AllRounds(tasks) \o Rounds(task, Combinations)
      BY <1>1, <1>3, <2>1, TaskAppended DEF Makes
    <3>2. Registers(call) = Rounds(task, Combinations)
      BY <1>0, <2>1 DEF Registers
    <3> QED
      BY <1>6, <3>1, <3>2 DEF Inv, TasksAreRegistered
  <2>2. CASE op # "register"
    <3>1. Registers(call) = <<>>
      BY <1>0, <2>2 DEF Registers
    <3>2. RegisteredBy(history) \o <<>> = RegisteredBy(history)
      BY <1>6
    <3> QED
      BY <1>6, <2>2, <3>1, <3>2 DEF Inv, Makes, TasksAreRegistered
  <2> QED
    BY <2>1, <2>2
<1> QED
  BY <1>4, <1>8, <1>9 DEF Inv

\* A step without a call that executes nothing
LEMMA QuietKeepsInv ==
  ASSUME Inv, UNCHANGED <<tasks, history, executed>>,
         outcome' = "done" <=> outcome = "done"
  PROVE  Inv'
BY DEF Inv, Lists, TasksAreRegistered, ExecutedAsCalled

\* Only a target executes anything at once.
LEMMA ExecutesOf ==
  ASSUME NEW op, NEW task, NEW rounds
  PROVE  Executes(CallOf(op, task, rounds)) =
           IF op = "target" THEN Rounds(task, rounds) ELSE <<>>
BY DEF Executes, CallOf

LEMMA NextInv ==
  ASSUME LuaScriptAssumption, Inv, [ScriptNext]_scriptVars
  PROVE  Inv'
<1> DEFINE Alike == outcome = "running" /\ outcome' = outcome
<1>1. PICK T : Lists(T)
  BY DEF Inv
<1>2. /\ ExecutedBy(history) \in Seq(RoundsOf(T))
      /\ RegisteredBy(history) \in Seq(RoundsOf(T))
  BY <1>1, ExecutionTypes DEF Lists
<1>3. ASSUME outcome = "running"
      PROVE  executed = ExecutedBy(history) /\ executed = executed \o <<>>
  <2>1. executed = ExecutedBy(history) \o <<>>
    BY <1>3 DEF Inv, ExecutedAsCalled
  <2> QED
    BY <2>1, <1>2
<1>4. CASE NewTask
  <2>1. Alike
    BY <1>4 DEF NewTask, Calls
  <2>2. Makes("new", objects["task"], 0)
    BY <1>3, <1>4, <2>1, ExecutesOf DEF Operations, NewTask, Log, Makes, CallOf
  <2> QED
    BY <2>1, <2>2, CallKeepsInv
<1>5. CASE CopyTask
  <2>1. Alike
    BY <1>5 DEF CopyTask, Calls
  <2>2. Makes("copy", objects["task"], 0)
    BY <1>3, <1>5, <2>1, ExecutesOf DEF Operations, CopyTask, Log, Makes, CallOf
  <2> QED
    BY <2>1, <2>2, CallKeepsInv
<1>6. CASE AddArgs
  <2>1. Alike
    BY <1>6 DEF AddArgs, Calls
  <2>2. PICK variable \in Variables : Makes("add", objects[variable], 0)
    BY <1>3, <1>6, <2>1, ExecutesOf DEF Operations, AddArgs, Log, Makes, CallOf
  <2> QED
    BY <2>1, <2>2, CallKeepsInv
<1>7. CASE RegisterTask
  <2>1. Alike
    BY <1>7 DEF RegisterTask, Calls
  <2>2. PICK variable \in Variables : Makes("register", objects[variable], 0)
    BY <1>3, <1>7, <2>1, ExecutesOf DEF Operations, RegisterTask, Log, Makes, CallOf
  <2> QED
    BY <2>1, <2>2, CallKeepsInv
<1>8. CASE RunTarget
  <2>1. Alike
    BY <1>8 DEF RunTarget, Calls
  <2>2. 1..Combinations \subseteq Nat
    BY DEF LuaScriptAssumption
  <2>3. PICK variable \in Variables, rounds \in Nat :
          Makes("target", objects[variable], rounds)
    BY <1>8, <2>2, ExecutesOf DEF Operations, RunTarget, Log, Makes, CallOf
  <2> QED
    BY <2>1, <2>3, CallKeepsInv
<1>9. CASE RaiseError \/ ReadUndefined \/ Fail
  <2>1. /\ UNCHANGED <<tasks, history, executed>>
        /\ outcome # "done" /\ outcome' # "done"
    BY <1>9 DEF RaiseError, ReadUndefined, Fail, Calls
  <2> QED
    BY <2>1, QuietKeepsInv
<1>10. CASE EndScript
  <2>1. /\ executed' = executed \o AllRounds(tasks)
        /\ outcome' = "done" /\ outcome = "running"
        /\ UNCHANGED <<tasks, history>>
    BY <1>10 DEF EndScript
  <2>2. executed' = ExecutedBy(history) \o RegisteredBy(history)
    BY <1>3, <2>1 DEF Inv, TasksAreRegistered
  <2>3. ExecutedAsCalled'
    BY <2>1, <2>2 DEF ExecutedAsCalled
  <2> QED
    BY <2>1, <2>3 DEF Inv, Lists, TasksAreRegistered
<1>11. CASE ScriptDone \/ UNCHANGED scriptVars
  <2>1. UNCHANGED <<tasks, history, executed, outcome>>
    BY <1>11 DEF ScriptDone, scriptVars
  <2> QED
    BY <2>1, QuietKeepsInv
<1> QED
  BY <1>4, <1>5, <1>6, <1>7, <1>8, <1>9, <1>10, <1>11 DEF ScriptNext

-----------------------------------------------------------------------------
\* Whatever a script does, what is executed is what its targets executed, and,
\* when it ended well, after that every task as it was when it was registered,
\* for every combination of the patterns (LuaPlugin::apply).
THEOREM ScriptIsExecutedAsCalled ==
  ASSUME LuaScriptAssumption
  PROVE  ScriptSpec => []ExecutedAsCalled
<1>1. Inv => ExecutedAsCalled
  BY DEF Inv
<1> QED
  BY <1>1, InitInv, NextInv, PTL DEF ScriptSpec

=============================================================================
