----------------------------- MODULE ScheduledRun -----------------------------
(***************************************************************************)
(* What exec-helper promises, without commands, plugins and call stack: an *)
(* invocation stands for a list of tasks, fixed when it starts, and for a  *)
(* verdict on the configuration.  The tasks are executed one at a time and *)
(* in order; the process ends early only in the executor; a process that   *)
(* has gone through the list returns with the status of the last failed    *)
(* task, or with 1 when the verdict is bad.                                *)
(***************************************************************************)
EXTENDS Executor

VARIABLES
  plan,     \* the tasks this invocation stands for
  verdict   \* whether every command and plugin is invoked properly

vars == <<plan, verdict, executorVars>>

Init ==
  /\ plan \in Seq(Tasks)
  /\ verdict \in BOOLEAN
  /\ ExecutorInit

Start ==
  /\ process = "starting"
  /\ process' = "running"
  /\ UNCHANGED <<plan, verdict, options, log, lastReturnCode, exitCode>>

ExecuteNext ==
  /\ process = "running"
  /\ Len(log) < Len(plan)
  /\ ExecuteTask(plan[Len(log) + 1])
  /\ UNCHANGED <<plan, verdict>>

Finish ==
  /\ process \in {"starting", "running"}
  /\ Len(log) = Len(plan)
  /\ ReturnFromMain(verdict)
  /\ UNCHANGED <<plan, verdict>>

Next == Start \/ ExecuteNext \/ Finish

Spec == Init /\ [][Next]_vars

-----------------------------------------------------------------------------
\* What an invocation leaves behind.  Whatever happens, the tasks handed to
\* the executor are the first ones of the plan, in order.  A process returns
\* from main only after the whole plan, and then with the status of the last
\* task that failed or with 1 for a bad verdict; it exits in the middle only
\* because the last task failed and nobody asked to keep going.
Outcome ==
  /\ \A i \in 1..Len(log) : i <= Len(plan) /\ log[i].task = plan[i]
  /\ process = "returned" =>
       /\ Len(log) = Len(plan)
       /\ exitCode = IF verdict THEN TaskStatus ELSE ExitFailure
  /\ process = "exited" =>
       /\ ~options.keepGoing /\ ~options.dryRun
       /\ Failures = {Len(log)}
       /\ exitCode = log[Len(log)].code

=============================================================================
