------------------------------- MODULE Executor -------------------------------
(***************************************************************************)
(* What happens to a registered task: the execute callback main installs,  *)
(* the executor it selected from the options, the shell, and the ways the  *)
(* process can end in the middle of it.                                    *)
(***************************************************************************)
EXTENDS Integers, Sequences

CONSTANTS
  Tasks,        \* the tasks that can be registered
  ReturnCodes   \* the codes the executed programs can return, in 0..255

VARIABLES
  options,        \* [dryRun, keepGoing]: the options main selects the executor by
  log,            \* history: the tasks handed to the executor and what became of them
  lastReturnCode, \* main's lastReturnCode, captured by the keep-going callback
  process,        \* where the process is in its life
  exitCode        \* its exit status, NoCode as long as it has none

executorVars == <<options, log, lastReturnCode, process, exitCode>>

NoCode == -1
PosixSuccess == 0
ExitFailure == 1

\* terminated: by std::terminate; crashed: by running out of stack
Processes == {"starting", "running", "returned", "exited", "terminated",
              "crashed"}

Entry == [task : Tasks, how : {"reported", "executed"}, code : 0..255]

ExecutorTypeOK ==
  /\ options \in [dryRun : BOOLEAN, keepGoing : BOOLEAN]
  /\ log \in Seq(Entry)
  /\ lastReturnCode \in 0..255
  /\ process \in Processes
  /\ exitCode \in 0..255 \cup {NoCode}

ExecutorInit ==
  /\ options \in [dryRun : BOOLEAN, keepGoing : BOOLEAN]
  /\ log = <<>>
  /\ lastReturnCode = PosixSuccess
  /\ process = "starting"
  /\ exitCode = NoCode

Record(task, how, code) ==
  log' = Append(log, [task |-> task, how |-> how, code |-> code])

-----------------------------------------------------------------------------
\* ReportingExecutor, which main prefers over keep-going: prints the task only.
Report(task) ==
  /\ options.dryRun
  /\ Record(task, "reported", PosixSuccess)
  /\ UNCHANGED <<lastReturnCode, process, exitCode>>

\* ImmediateExecutor: the shell ran the task.
RunSuccessfully(task) ==
  /\ ~options.dryRun
  /\ PosixSuccess \in ReturnCodes
  /\ Record(task, "executed", PosixSuccess)
  /\ UNCHANGED <<lastReturnCode, process, exitCode>>

\* Mutant: the status of the first failed task sticks.
RunFailsKeepingFirstCode(task, code) ==
  /\ ~options.dryRun
  /\ options.keepGoing
  /\ code # PosixSuccess
  /\ Record(task, "executed", code)
  /\ lastReturnCode' = IF lastReturnCode = PosixSuccess THEN code
                                                        ELSE lastReturnCode
  /\ UNCHANGED <<process, exitCode>>

\* The callback installed for --keep-going only remembers the return code.
RunFailsAndGoesOn(task, code) ==
  /\ ~options.dryRun
  /\ options.keepGoing
  /\ code # PosixSuccess
  /\ Record(task, "executed", code)
  /\ lastReturnCode' = code
  /\ UNCHANGED <<process, exitCode>>

\* Mutant: the default callback forgets to exit.
RunFailsUnnoticed(task, code) ==
  /\ ~options.dryRun
  /\ ~options.keepGoing
  /\ code # PosixSuccess
  /\ Record(task, "executed", code)
  /\ UNCHANGED <<process, exitCode, lastReturnCode>>

\* The default callback exits the process on the spot.
RunFailsAndExits(task, code) ==
  /\ ~options.dryRun
  /\ ~options.keepGoing
  /\ code # PosixSuccess
  /\ Record(task, "executed", code)
  /\ process' = "exited"
  /\ exitCode' = code
  /\ UNCHANGED lastReturnCode

\* PosixShell throws when it does not find the binary.  The exception cannot
\* leave ImmediateExecutor::execute, which is noexcept, so the handler in the
\* execute callback never sees it.
BinaryNotFound(task) ==
  /\ ~options.dryRun
  /\ process' = "terminated"
  /\ UNCHANGED <<log, lastReturnCode, exitCode>>

ExecuteTask(task) ==
  /\ \/ Report(task)
     \/ RunSuccessfully(task)
     \/ \E code \in ReturnCodes :
          RunFailsAndGoesOn(task, code) \/ RunFailsAndExits(task, code)
     \/ BinaryNotFound(task)
  /\ UNCHANGED options

\* main: the status of a process whose commands were all scheduled or not.
ReturnFromMain(successful) ==
  /\ process' = "returned"
  /\ exitCode' = IF successful THEN lastReturnCode ELSE ExitFailure
  /\ UNCHANGED <<options, log, lastReturnCode>>

-----------------------------------------------------------------------------
(* What the exit status is measured by. *)

Failures == {i \in 1..Len(log) : log[i].code # PosixSuccess}
LastFailure == CHOOSE i \in Failures : \A j \in Failures : j <= i

\* The status of a process in which everything was scheduled properly.
TaskStatus == IF Failures = {} THEN PosixSuccess ELSE log[LastFailure].code

=============================================================================
