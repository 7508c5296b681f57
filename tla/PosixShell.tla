------------------------------ MODULE PosixShell ------------------------------
(***************************************************************************)
(* PosixShell::execute under the plugins that register tasks with it: the  *)
(* words of a task are expanded while the global environment of the        *)
(* process points to that of the task, then its program is looked for and  *)
(* run with the environment of the process overlaid with that of the task. *)
(* Programs always succeed here (Executor says what becomes of others).    *)
(***************************************************************************)
EXTENDS TaskEnvironment

CONSTANTS
  Chains,              \* the nested sections an invocation may go through
  Programs,            \* the absolute paths of the programs there are
  PATH,                \* the name PATH; its value has one directory per token
  Reference,           \* function: the tokens $NAME -> the name they refer to
  Space,               \* the token wordexp separates words at
  Illegal              \* the tokens wordexp refuses

\* The token of a reference is none that is refused.
ASSUME ShellAssumption ==
  /\ \A sections \in Chains : IsChain(sections)
  /\ Illegal \cap DOMAIN Reference = {}

VARIABLES
  chain,      \* the sections of this invocation, outermost first
  work,       \* what is left to do, in order: plugins to apply, tasks to register
  environ,    \* the global variable environ
  shell,      \* [phase, task, cached, env, args]: PosixShell::execute
  children    \* history: the programs run

vars == <<chain, work, environ, shell, children>>

Phases == {"idle", "expanding", "expanded", "restored",
           "path not found", "process error", "undefined"}

Idle == [phase |-> "idle", cached |-> NoVariables, env |-> NoVariables,
         task |-> [words |-> <<>>, env |-> NoVariables, dir |-> <<>>],
         args |-> <<>>]

Init ==
  /\ chain \in Chains
  /\ work = <<Nested(1, FirstTask)>>
  /\ environ = ProcessEnvironment
  /\ shell = Idle
  /\ children = <<>>

-----------------------------------------------------------------------------
ApplyPlugin ==
  /\ shell.phase = "idle"
  /\ work # <<>> /\ Head(work).level # 0
  /\ work' = Apply(chain, Head(work).level, Head(work).task) \o Tail(work)
  /\ UNCHANGED <<chain, environ, shell, children>>

\* A task without words is a success.
ExecuteNothing ==
  /\ shell.phase = "idle"
  /\ work # <<>> /\ Head(work).level = 0
  /\ Head(work).task.words = <<>>
  /\ work' = Tail(work)
  /\ UNCHANGED <<chain, environ, shell, children>>

\* The environment of the child is copied before environ is redirected.
StartExpansion ==
  /\ shell.phase = "idle"
  /\ work # <<>> /\ Head(work).level = 0
  /\ Head(work).task.words # <<>>
  /\ shell' = [phase |-> "expanding", cached |-> environ, args |-> <<>>,
               task |-> Head(work).task,
               env |-> Overlay(environ, Head(work).task.env)]
  /\ environ' = Head(work).task.env
  /\ work' = Tail(work)
  /\ UNCHANGED <<chain, children>>

-----------------------------------------------------------------------------
(* wordexp, for a word without quotes *)

\* The fields of a text, empty ones left out.
Fields(text) ==
  LET after[n \in 0..Len(text)] ==
        IF n = 0 THEN <<>>
        ELSE LET fields == after[n - 1]
             IN IF text[n] = Space THEN fields
                ELSE IF n > 1 /\ text[n - 1] # Space
                THEN [fields EXCEPT ![Len(fields)] = Append(@, text[n])]
                ELSE Append(fields, <<text[n]>>)
  IN after[Len(text)]

Fails(word, env) ==
  \E i \in DOMAIN word :
    \/ word[i] \in Illegal
    \/ word[i] \in DOMAIN Reference /\ Reference[word[i]] \notin DOMAIN env

\* Words of a failed expansion are kept as they are.
WordExp(word, env) ==
  IF Fails(word, env) THEN <<word>>
  ELSE Fields(FlattenSeq([i \in DOMAIN word |->
         IF word[i] \in DOMAIN Reference THEN env[Reference[word[i]]]
                                         ELSE <<word[i]>>]))

\* Mutant: the variables of the process are visible, too.
ExpandWordsInChild ==
  /\ shell.phase = "expanding"
  /\ shell' = [shell EXCEPT !.phase = "expanded",
       !.args = FlattenSeq([w \in DOMAIN shell.task.words |->
                              WordExp(shell.task.words[w], shell.cached)])]
  /\ UNCHANGED <<chain, work, environ, children>>

ExpandWords ==
  /\ shell.phase = "expanding"
  /\ shell' = [shell EXCEPT !.phase = "expanded",
       !.args = FlattenSeq([w \in DOMAIN shell.task.words |->
                              WordExp(shell.task.words[w], environ)])]
  /\ UNCHANGED <<chain, work, environ, children>>

RestoreEnvironment ==
  /\ shell.phase = "expanded"
  /\ environ' = shell.cached
  /\ shell' = [shell EXCEPT !.phase = "restored"]
  /\ UNCHANGED <<chain, work, children>>

-----------------------------------------------------------------------------
\* args.front(), when the words expanded to nothing
NoArguments ==
  /\ shell.phase = "restored"
  /\ shell.args = <<>>
  /\ shell' = [shell EXCEPT !.phase = "undefined"]
  /\ UNCHANGED <<chain, work, environ, children>>

\* Mutant: the working directory comes last.
GetPathFirst(env, dir) ==
  (IF PATH \in DOMAIN env THEN [i \in DOMAIN env[PATH] |-> <<env[PATH][i]>>]
                          ELSE <<>>) \o <<Absolute(dir)>>

\* The process has no PATH either when env, which its variables are in, has not.
GetPath(env, dir) ==
  <<Absolute(dir)>> \o
  (IF PATH \in DOMAIN env THEN [i \in DOMAIN env[PATH] |-> <<env[PATH][i]>>]
                          ELSE <<>>)

\* search_path returns an empty path when it finds nothing, of which
\* absolute makes the current directory.
SearchPath(name, path) ==
  LET found == SelectInSeq(path, LAMBDA dir : dir \o name \in Programs)
  IN IF found = 0 THEN CurrentPath ELSE path[found] \o name

Binary ==
  LET name == Head(shell.args)
  IN IF Head(name) \in Roots THEN name
     ELSE SearchPath(name, GetPath(shell.env, shell.task.dir))

\* Mutant: the shell runs whatever it is given.
RunAnything ==
  /\ shell.phase = "restored"
  /\ shell.args # <<>>
  /\ children' = Append(children,
       [task |-> shell.task, program |-> Binary, args |-> shell.args,
        dir |-> Absolute(shell.task.dir), env |-> shell.env])
  /\ shell' = Idle
  /\ UNCHANGED <<chain, work, environ>>

\* args[0] is the name the program was given by.
RunProgram ==
  /\ shell.phase = "restored"
  /\ shell.args # <<>>
  /\ Binary \in Programs
  /\ children' = Append(children,
       [task |-> shell.task, program |-> Binary, args |-> shell.args,
        dir |-> Absolute(shell.task.dir), env |-> shell.env])
  /\ shell' = Idle
  /\ UNCHANGED <<chain, work, environ>>

\* PathNotFoundError is thrown when the path of the binary does not exist; a
\* directory exists, and running it is what fails.
ThrowError ==
  /\ shell.phase = "restored"
  /\ shell.args # <<>>
  /\ Binary \notin Programs
  /\ shell' = [shell EXCEPT !.phase = IF Binary = CurrentPath
                                      THEN "process error" ELSE "path not found"]
  /\ UNCHANGED <<chain, work, environ, children>>

Stopped == {"path not found", "process error", "undefined"}

\* The last task was run, or the process did not survive one.
Done ==
  /\ shell.phase \in Stopped \/ (shell.phase = "idle" /\ work = <<>>)
  /\ UNCHANGED vars

Next ==
  \/ ApplyPlugin \/ ExecuteNothing \/ StartExpansion \/ ExpandWords
  \/ RestoreEnvironment \/ NoArguments \/ RunProgram \/ ThrowError
  \/ Done

Spec == Init /\ [][Next]_vars

-----------------------------------------------------------------------------
(* Type correctness *)

IsTask(task) ==
  /\ DOMAIN task = {"words", "env", "dir"}
  /\ IsList(task.words) /\ \A w \in DOMAIN task.words : IsList(task.words[w])
  /\ IsEnvironment(task.env) /\ IsList(task.dir)

\* Every task has a place to run and the names of its variables are known.
TypeOK ==
  /\ \A i \in DOMAIN work : work[i].level \in 0..Len(chain)
                            /\ IsTask(work[i].task)
  /\ IsEnvironment(environ)
  /\ shell.phase \in Phases
  /\ IsTask(shell.task) /\ IsEnvironment(shell.env)
  /\ \A i \in DOMAIN children : children[i].program \in Programs

-----------------------------------------------------------------------------
(* Properties *)

\* PWD is the working directory of every program that is run, whatever the
\* configuration and the plugins on the way set it to (Task sets it, and
\* appendToEnvironment may overwrite it).
PwdIsWorkingDirectory ==
  \A i \in DOMAIN children : /\ PWD \in DOMAIN children[i].env
                             /\ children[i].env[PWD] = children[i].dir

\* What may be substituted at a level: a combination of the patterns of its
\* section, or nothing in the task that lcov hands on as it was given.
OfLevel(sections, level) ==
  {<<>>} \cup Range(CombinationsOf(sections[level].patterns))

Joined(first, second) == {a \o b : a \in first, b \in second}

\* What may have been substituted in a setting of a section when the plugins
\* down to a level are through with it, in the order of the levels.
Substituted(sections, level, last) ==
  LET upTo[l \in 0..Len(sections)] ==
        IF l < level THEN {<<>>} ELSE Joined(upTo[l - 1], OfLevel(sections, l))
  IN upTo[last]
Substitutions(level) == Substituted(chain, level, Len(chain))

\* The section had the task, with a substitution, if its words are among those
\* of the task.
Contributed(section, substitution, task) ==
  \A w \in DOMAIN section.words :
    Replace(section.words[w], substitution) \in Range(task.words)

Honours(section) == section.plugin \in {"script", "command-line-command"}

\* The manual of pmd has settings for the variables and the directory, pmd has
\* not.  Nothing is claimed of invocations with a section of pmd that uses them.
IsClaimed ==
  \A level \in DOMAIN chain :
    chain[level].plugin = "pmd" =>
      DOMAIN GetEnvironment(chain[level]) = {} /\ chain[level].dir = NotSet

KeysOf(section) == {section.patterns[p].key : p \in DOMAIN section.patterns}
Keys == UNION {KeysOf(chain[level]) : level \in DOMAIN chain}

\* The variable comes from the process (patterns are substituted in its name and
\* in its value, too).
IsOfProcess(name, value) ==
  \E s \in Substitutions(1) : \E n \in DOMAIN ProcessEnvironment :
    /\ ReplaceToken(n, s) = name
    /\ Replace(ProcessEnvironment[n], s) = value

\* It comes from a section that the task is configured in.
IsOfSections(name, value, task) ==
  \E level \in DOMAIN chain :
    /\ Honours(chain[level])
    /\ \E s \in Substitutions(level) :
         /\ Contributed(chain[level], s, task)
         /\ \E n \in DOMAIN GetEnvironment(chain[level]) :
              /\ ReplaceToken(n, s) = name
              /\ Replace(chain[level].env[n], s) = value

\* Of the sections that a task is configured in, those that set a variable under
\* that very name
Naming(name, task) ==
  {level \in DOMAIN chain :
     /\ Honours(chain[level]) /\ name \in DOMAIN GetEnvironment(chain[level])
     /\ \E s \in Substitutions(level) : Contributed(chain[level], s, task)}

\* The innermost of them has the last word, and the process when there is none.
IsOfInnermost(name, child) ==
  LET naming == Naming(name, child.task)
      innermost == Max(naming)
  IN IF naming # {}
     THEN /\ name \in DOMAIN child.env
          /\ \E s \in Substitutions(innermost) :
               /\ Contributed(chain[innermost], s, child.task)
               /\ child.env[name] = Replace(chain[innermost].env[name], s)
     ELSE name \in DOMAIN ProcessEnvironment =>
            /\ name \in DOMAIN child.env
            /\ \E s \in Substitutions(1) :
                 child.env[name] = Replace(ProcessEnvironment[name], s)

\* A program has a variable with the value of the innermost of its sections that
\* sets it by name, else with that of the process: a name that only becomes the
\* same by substitution, inside or outside, does not take its place.  No other
\* variable comes from anywhere but the process and the sections of the program,
\* for its combination: not from a command executed before, or a plugin inside.
EnvironmentIsItsOwn ==
  IsClaimed => \A i \in DOMAIN children :
    LET child == children[i]
    IN /\ \A name \in DOMAIN child.env \ {PWD} :
            \/ IsOfProcess(name, child.env[name])
            \/ IsOfSections(name, child.env[name], child.task)
       /\ \A name \in Range(NameOrder) \ (Keys \cup {PWD}) :
            IsOfInnermost(name, child)

\* The sections that set a directory and that a task is configured in.
Setting(task) ==
  {level \in DOMAIN chain :
     /\ Honours(chain[level]) /\ chain[level].dir # NotSet
     /\ \E s \in Substitutions(level) : Contributed(chain[level], s, task)}

IsAbsolute(dir) == dir # <<>> /\ Head(dir) \in Roots

\* What a directory of a section can mean: it is left open what a relative one
\* is relative to.
Meanings(dir) ==
  IF IsAbsolute(dir) THEN {dir} ELSE {CurrentPath \o dir, SettingsDirectory \o dir}

\* A program runs in the directory of the innermost of the sections that set
\* one, out of those it is configured in; else in that of the settings.
DirectoryOfInnermost ==
  IsClaimed => \A i \in DOMAIN children :
    LET task == children[i].task
        innermost == Max(Setting(task))
    IN IF Setting(task) = {} THEN children[i].dir = Absolute(SettingsDirectory)
       ELSE \E s \in Substitutions(innermost) :
              /\ Contributed(chain[innermost], s, task)
              /\ children[i].dir \in Meanings(Replace(chain[innermost].dir, s))

\* A relative working-dir is relative to the directory of the settings file
\* (docs/working-dir.rst:3).  It is not: Task makes it absolute with the directory
\* of the process.
RelativeToSettings ==
  IsClaimed => \A i \in DOMAIN children :
    LET task == children[i].task
        innermost == Max(Setting(task))
    IN Setting(task) # {} =>
         \E s \in Substitutions(innermost) :
           LET dir == Replace(chain[innermost].dir, s)
           IN /\ Contributed(chain[innermost], s, task)
              /\ children[i].dir = IF IsAbsolute(dir) THEN dir
                                   ELSE SettingsDirectory \o dir

\* A word that is $PWD reaches the program as the directory it runs in, and one
\* that is $NAME as the value of that variable in its own environment, with the
\* white space that separates words taken out.
WordsMatchEnvironment ==
  \A i \in DOMAIN children : \A w \in DOMAIN children[i].task.words :
    LET child == children[i]
        word == child.task.words[w]
        Tokens(text) == Range(text) \ {Space}
    IN Len(word) = 1 /\ word[1] \in DOMAIN Reference
       /\ Reference[word[1]] \in DOMAIN child.task.env =>
         Tokens(child.env[Reference[word[1]]])
           \subseteq UNION {Tokens(a) : a \in Range(child.args)}

\* A program given by name is the one in the directory the task runs in, when
\* there is one, and not one of that name found in a PATH.
ProgramOfDirectory ==
  \A i \in DOMAIN children :
    LET child == children[i]
        name == Head(child.args)
    IN Head(name) \notin Roots /\ child.dir \o name \in Programs =>
         child.program = child.dir \o name

=============================================================================
