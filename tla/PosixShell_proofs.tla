--------------------------- MODULE PosixShell_proofs ---------------------------
(***************************************************************************)
(* The environment, the directory and the program of what PosixShell runs, *)
(* for any sections, nested in any depth, and any patterns, environments   *)
(* and programs.  Inv says what a task looks like, Traced which sections   *)
(* it went through and what was substituted in it on the way.              *)
(***************************************************************************)
EXTENDS PosixShell, SequenceFacts

-----------------------------------------------------------------------------
(* Lists *)

LEMMA MadeLists ==
  /\ IsList(<<>>)
  /\ \A x : IsList(<<x>>)
  /\ \A x, y : IsList(<<x, y>>)
<1>1. \A S : <<>> \in Seq(S)
  OBVIOUS
<1>2. \A x : <<x>> \in Seq({x})
  OBVIOUS
<1>3. \A x, y : <<x, y>> \in Seq({x, y})
  OBVIOUS
<1> QED
  BY <1>1, <1>2, <1>3, ListOf DEF IsList

LEMMA AppendList ==
  ASSUME NEW list, IsList(list), NEW last
  PROVE  /\ IsList(Append(list, last))
         /\ \A i \in DOMAIN Append(list, last) :
              \/ i \in DOMAIN list /\ Append(list, last)[i] = list[i]
              \/ Append(list, last)[i] = last
BY ListAppended DEF IsList

LEMMA JoinLists ==
  ASSUME NEW a, NEW b, IsList(a), IsList(b)
  PROVE  /\ IsList(a \o b)
         /\ \A i \in DOMAIN (a \o b) :
              \/ i \in DOMAIN a /\ (a \o b)[i] = a[i]
              \/ \E j \in DOMAIN b : (a \o b)[i] = b[j]
BY ListsJoined DEF IsList

\* A list element by element
LEMMA MapList ==
  ASSUME NEW list, IsList(list), NEW image, DOMAIN image = DOMAIN list,
         image = [i \in DOMAIN image |-> image[i]]
  PROVE  IsList(image)
<1>1. DOMAIN image = 1..Len(list) /\ Len(list) \in Nat
  BY DEF IsList
<1>2. \A i \in DOMAIN image : image[i] \in Range(image)
  BY DEF Range
<1> QED
  BY <1>1, <1>2 DEF IsList

-----------------------------------------------------------------------------
(* Tasks *)

LEMMA AbsoluteIsText ==
  ASSUME TaskAssumption, NEW path, IsList(path)
  PROVE  IsList(Absolute(path))
<1>1. IsList(CurrentPath)
  BY ListOf DEF TaskAssumption, IsList
<1> QED
  BY <1>1, JoinLists DEF Absolute

LEMMA OverlayIsEnvironment ==
  ASSUME NEW env, NEW extra, IsEnvironment(env), IsEnvironment(extra)
  PROVE  IsEnvironment(Overlay(env, extra))
BY DEF IsEnvironment, Overlay

\* PWD is the working directory of the task.
HasPwd(task) ==
  PWD \in DOMAIN task.env /\ task.env[PWD] = Absolute(task.dir)

AreWords(words) == IsList(words) /\ \A w \in DOMAIN words : IsList(words[w])

\* The fields of a task, and its words
IsRecord(task) == DOMAIN task = {"words", "env", "dir"} /\ AreWords(task.words)

LEMMA WorkingDirectoryIsSet ==
  ASSUME TaskAssumption, NEW task, IsRecord(task), IsEnvironment(task.env),
         NEW dir, IsList(dir)
  PROVE  /\ IsTask(SetWorkingDirectory(task, dir))
         /\ HasPwd(SetWorkingDirectory(task, dir))
         /\ SetWorkingDirectory(task, dir).dir = dir
<1> DEFINE moved == [task EXCEPT !.dir = dir]
           pwd == [name \in {PWD} |-> Absolute(dir)]
           result == SetWorkingDirectory(task, dir)
<1>1. /\ DOMAIN moved = {"words", "env", "dir"} /\ moved.dir = dir
      /\ moved.env = task.env /\ moved.words = task.words
  BY DEF IsRecord
<1>2. result = [moved EXCEPT !.env = Overlay(task.env, pwd)]
  BY <1>1 DEF SetWorkingDirectory, AppendToEnvironment
<1>3. IsEnvironment(pwd)
  BY AbsoluteIsText DEF IsEnvironment, TaskAssumption
<1>4. IsEnvironment(Overlay(task.env, pwd))
  BY <1>3, OverlayIsEnvironment
<1>5. /\ PWD \in DOMAIN Overlay(task.env, pwd)
      /\ Overlay(task.env, pwd)[PWD] = Absolute(dir)
  BY DEF Overlay
<1> HIDE DEF moved, pwd, result
<1>6. /\ DOMAIN result = {"words", "env", "dir"} /\ result.dir = dir
      /\ result.env = Overlay(task.env, pwd) /\ result.words = task.words
  BY <1>1, <1>2
<1> QED
  BY <1>4, <1>5, <1>6 DEF IsTask, HasPwd, IsRecord, AreWords, result

LEMMA EnvironmentIsSet ==
  ASSUME TaskAssumption, NEW task, IsTask(task), NEW env, IsEnvironment(env)
  PROVE  /\ IsTask(SetEnvironment(task, env)) /\ HasPwd(SetEnvironment(task, env))
         /\ SetEnvironment(task, env).dir = task.dir
<1> DEFINE changed == [task EXCEPT !.env = env]
<1>1. IsRecord(changed) /\ changed.env = env /\ IsList(task.dir)
  BY DEF IsTask, IsRecord, AreWords
<1> HIDE DEF changed
<1> QED
  BY <1>1, WorkingDirectoryIsSet DEF SetEnvironment, changed

LEMMA WordsAreJoined ==
  ASSUME NEW a, NEW b, AreWords(a), AreWords(b)
  PROVE  AreWords(a \o b)
<1>1. IsList(a) /\ IsList(b)
  BY DEF AreWords
<1>2. /\ IsList(a \o b)
      /\ \A i \in DOMAIN (a \o b) :
           \/ i \in DOMAIN a /\ (a \o b)[i] = a[i]
           \/ \E j \in DOMAIN b : (a \o b)[i] = b[j]
  BY <1>1, JoinLists
<1> DEFINE both == a \o b
<1>3. /\ IsList(both)
      /\ \A i \in DOMAIN both :
           \/ i \in DOMAIN a /\ both[i] = a[i]
           \/ \E j \in DOMAIN b : both[i] = b[j]
  BY <1>2
<1> HIDE DEF both
<1>4. AreWords(both)
  BY <1>3 DEF AreWords
<1> QED
  BY <1>4 DEF both

LEMMA WordsAreAppended ==
  ASSUME NEW task, IsTask(task), NEW words, AreWords(words)
  PROVE  /\ IsTask(AppendWords(task, words))
         /\ HasPwd(task) => HasPwd(AppendWords(task, words))
<1>1. /\ DOMAIN AppendWords(task, words) = DOMAIN task
      /\ AppendWords(task, words).env = task.env
      /\ AppendWords(task, words).dir = task.dir
      /\ AppendWords(task, words).words = task.words \o words
  BY DEF AppendWords, IsTask
<1>2. AreWords(task.words)
  BY DEF IsTask, AreWords
<1>3. AreWords(task.words \o words)
  BY <1>2, WordsAreJoined
<1> QED
  BY <1>1, <1>3 DEF IsTask, HasPwd, AreWords

LEMMA EnvironmentIsAppended ==
  ASSUME NEW task, IsTask(task), NEW env, IsEnvironment(env)
  PROVE  IsTask(AppendToEnvironment(task, env))
<1>1. /\ DOMAIN AppendToEnvironment(task, env) = DOMAIN task
      /\ AppendToEnvironment(task, env).env = Overlay(task.env, env)
      /\ AppendToEnvironment(task, env).dir = task.dir
      /\ AppendToEnvironment(task, env).words = task.words
  BY DEF AppendToEnvironment, IsTask
<1> QED
  BY <1>1, OverlayIsEnvironment DEF IsTask

LEMMA TaskIsMade ==
  ASSUME TaskAssumption, NEW words, AreWords(words),
         NEW env, IsEnvironment(env), NEW dir, IsList(dir)
  PROVE  IsTask(Task(words, env, dir))
<1> DEFINE raw == [words |-> words, env |-> env, dir |-> dir]
<1>1. IsRecord(raw) /\ raw.env = env
  BY DEF IsRecord
<1> HIDE DEF raw
<1> QED
  BY <1>1, WorkingDirectoryIsSet DEF Task, raw

LEMMA FirstTasks ==
  ASSUME TaskAssumption
  PROVE  IsTask(NewTask) /\ IsTask(FirstTask) /\ IsTask(Idle.task)
<1>1. IsList(CurrentPath) /\ IsList(SettingsDirectory)
  BY ListOf DEF TaskAssumption, IsList
<1>2. IsEnvironment(NoVariables) /\ IsEnvironment(ProcessEnvironment)
  BY DEF TaskAssumption, IsEnvironment, NoVariables
<1>4. AreWords(<<>>)
  BY MadeLists DEF AreWords
<1>3. IsTask(Idle.task)
  BY <1>2, MadeLists DEF Idle, IsTask
<1> QED
  BY <1>1, <1>2, <1>3, <1>4, TaskIsMade DEF NewTask, FirstTask

-----------------------------------------------------------------------------
(* Patterns *)

\* A pattern of a combination, with one of its values.
IsCombination(combination) ==
  /\ IsList(combination)
  /\ \A i \in DOMAIN combination : combination[i].value \in Range(NameOrder)

\* A token is replaced pattern by pattern.
StepsOf(f, token, combination) ==
  /\ f[0] = token
  /\ \A n \in 1..Len(combination) :
       f[n] = IF f[n - 1] = combination[n].key THEN combination[n].value ELSE f[n - 1]

LEMMA ReplaceTokenSteps ==
  ASSUME NEW token, NEW combination, IsList(combination)
  PROVE  \E f : /\ StepsOf(f, token, combination)
               /\ ReplaceToken(token, combination) = f[Len(combination)]
<1> DEFINE N == Len(combination)
           next(n, t) == IF t = combination[n].key THEN combination[n].value ELSE t
           S == {token} \cup {combination[i].value : i \in DOMAIN combination}
           Unfolds(f) == f = [n \in 0..N |-> IF n = 0 THEN token
                               ELSE IF f[n - 1] = combination[n].key
                               THEN combination[n].value ELSE f[n - 1]]
           after == CHOOSE f : Unfolds(f)
           step == [n \in 1..N |-> [t \in S |-> next(n, t)]]
<1>1. N \in Nat /\ DOMAIN combination = 1..N
  BY DEF IsList
<1>2. ReplaceToken(token, combination) = after[N]
  BY Zenon DEF ReplaceToken
<1>0. token \in S /\ \A n \in 1..N : \A t \in S : next(n, t) \in S
  BY <1>1
<1> HIDE DEF N, S
<1>3. step \in [1..N -> [S -> S]]
  BY <1>0
<1>4. \A n \in 1..N : \A t \in S : step[n][t] = next(n, t)
  OBVIOUS
<1> HIDE DEF step
<1>5. PICK g : Recursive(g, N, S, token, step)
  BY <1>0, <1>1, <1>3, RecursionExists
<1>6. Unfolds(g)
  <2>1. g = [n \in 0..N |-> g[n]] /\ g[0] = token
    BY <1>5 DEF Recursive
  <2>2. \A n \in 1..N : n - 1 \in 0..N /\ n # 0
    BY <1>1
  <2>3. \A n \in 1..N : g[n] = next(n, g[n - 1])
    BY <1>4, <1>5, <2>2 DEF Recursive
  <2>4. \A n \in 0..N : n = 0 \/ n \in 1..N
    BY <1>1
  <2> QED
    BY <2>1, <2>2, <2>3, <2>4
<1>7. Unfolds(after)
  <2> HIDE DEF Unfolds
  <2> QED
    BY <1>6, Zenon
<1> HIDE DEF after
<1>8. StepsOf(after, token, combination)
  <2>1. after[0] = token
    BY <1>1, <1>7
  <2>2. \A n \in 1..N : n \in 0..N /\ n # 0
    BY <1>1
  <2>3. \A n \in 1..N : after[n] = next(n, after[n - 1])
    BY <1>7, <2>2
  <2> QED
    BY <2>1, <2>3 DEF StepsOf, N
<1> QED
  BY <1>2, <1>8 DEF N

\* What replaces a token that may be in a name may be in one.
LEMMA ReplaceTokenType ==
  ASSUME NEW S, NEW token \in S, NEW combination, IsList(combination),
         \A i \in DOMAIN combination : combination[i].value \in S
  PROVE  ReplaceToken(token, combination) \in S
<1> DEFINE N == Len(combination)
<1>1. PICK f : StepsOf(f, token, combination) /\ ReplaceToken(token, combination) = f[N]
  BY ReplaceTokenSteps
<1>2. N \in Nat /\ DOMAIN combination = 1..N
  BY DEF IsList
<1>3. f[0] \in S /\ \A n \in 1..N : f[n - 1] \in S => f[n] \in S
  BY <1>1, <1>2 DEF StepsOf
<1> HIDE DEF N
<1> DEFINE T == {n \in 0..N : f[n] \in S}
<1>4. 0 \in T
  BY <1>2, <1>3
<1>5. \A n \in 0..(N - 1) : n \in T => n + 1 \in T
  <2> TAKE n \in 0..(N - 1)
  <2>1. n + 1 \in 1..N /\ n + 1 \in 0..N /\ (n + 1) - 1 = n
    BY <1>2
  <2> QED
    BY <1>3, <2>1
<1> HIDE DEF T
<1>6. \A n \in 0..N : n \in T
  BY <1>2, <1>4, <1>5, InductionUpTo
<1>7. f[N] \in S
  BY <1>2, <1>6 DEF T
<1> QED
  BY <1>1, <1>7

\* One that is no pattern is left alone.
LEMMA ReplaceTokenSame ==
  ASSUME NEW token, NEW combination, IsList(combination),
         \A i \in DOMAIN combination : combination[i].key # token
  PROVE  ReplaceToken(token, combination) = token
<1> DEFINE N == Len(combination)
<1>1. PICK f : StepsOf(f, token, combination) /\ ReplaceToken(token, combination) = f[N]
  BY ReplaceTokenSteps
<1>2. N \in Nat /\ DOMAIN combination = 1..N
  BY DEF IsList
<1>3. f[0] = token /\ \A n \in 1..N : f[n - 1] = token => f[n] = token
  BY <1>1, <1>2 DEF StepsOf
<1> HIDE DEF N
<1> DEFINE T == {n \in 0..N : f[n] = token}
<1>4. 0 \in T
  BY <1>2, <1>3
<1>5. \A n \in 0..(N - 1) : n \in T => n + 1 \in T
  <2> TAKE n \in 0..(N - 1)
  <2>1. n + 1 \in 1..N /\ n + 1 \in 0..N /\ (n + 1) - 1 = n
    BY <1>2
  <2> QED
    BY <1>3, <2>1
<1> HIDE DEF T
<1>6. \A n \in 0..N : n \in T
  BY <1>2, <1>4, <1>5, InductionUpTo
<1>7. f[N] = token
  BY <1>2, <1>6 DEF T
<1> QED
  BY <1>1, <1>7

\* The patterns of two combinations are replaced one after the other.
LEMMA ReplaceTokenJoined ==
  ASSUME NEW token, NEW a, NEW b, IsList(a), IsList(b)
  PROVE  ReplaceToken(token, a \o b) = ReplaceToken(ReplaceToken(token, a), b)
<1> DEFINE both == a \o b
           M == Len(a)
           N == Len(b)
<1>1. /\ IsList(both) /\ Len(both) = M + N /\ M \in Nat /\ N \in Nat
      /\ \A n \in 1..M : both[n] = a[n]
      /\ \A n \in 1..N : both[M + n] = b[n]
  <2>1. IsList(both)
    BY JoinLists
  <2> DEFINE S == Range(a) \cup Range(b)
  <2>2. a \in Seq(S) /\ b \in Seq(S)
    BY DEF IsList, Range
  <2> HIDE DEF S
  <2>3. /\ Len(both) = M + N /\ M \in Nat /\ N \in Nat
        /\ \A n \in 1..M : both[n] = a[n]
    BY <2>2
  <2>4. \A n \in 1..N : both[M + n] = b[n]
    BY <2>2
  <2> QED
    BY <2>1, <2>3, <2>4
<1> HIDE DEF both
<1>2. PICK f : StepsOf(f, token, a) /\ ReplaceToken(token, a) = f[M]
  BY ReplaceTokenSteps
<1>3. PICK g : StepsOf(g, f[M], b) /\ ReplaceToken(f[M], b) = g[N]
  BY ReplaceTokenSteps
<1>4. PICK h : StepsOf(h, token, both) /\ ReplaceToken(token, both) = h[M + N]
  <2>1. \E h : StepsOf(h, token, both) /\ ReplaceToken(token, both) = h[Len(both)]
    BY <1>1, ReplaceTokenSteps
  <2> HIDE DEF M, N
  <2> QED
    BY <1>1, <2>1
<1> HIDE DEF M, N
<1>5. h[M] = f[M]
  <2> DEFINE T == {n \in 0..M : h[n] = f[n]}
  <2>1. 0 \in T
    BY <1>1, <1>2, <1>4 DEF StepsOf
  <2>2. \A n \in 0..(M - 1) : n \in T => n + 1 \in T
    <3> SUFFICES ASSUME NEW n \in 0..(M - 1), h[n] = f[n] PROVE h[n + 1] = f[n + 1]
      BY <1>1
    <3>1. n + 1 \in 1..M /\ n + 1 \in 1..(M + N) /\ (n + 1) - 1 = n
      BY <1>1
    <3> DEFINE m == n + 1
    <3>2. m \in 1..M /\ m \in 1..(M + N) /\ m - 1 = n
      BY <3>1
    <3> HIDE DEF m
    <3>3. f[m] = IF f[n] = a[m].key THEN a[m].value ELSE f[n]
      BY <1>2, <3>2 DEF StepsOf, M
    <3>4. h[m] = IF h[n] = both[m].key THEN both[m].value ELSE h[n]
      BY <1>1, <1>4, <3>2 DEF StepsOf
    <3>5. both[m] = a[m]
      BY <1>1, <3>2
    <3>6. h[m] = f[m]
      BY <3>3, <3>4, <3>5
    <3> QED
      BY <3>6 DEF m
  <2> HIDE DEF T
  <2>3. \A n \in 0..M : n \in T
    BY <1>1, <2>1, <2>2, InductionUpTo
  <2> QED
    BY <1>1, <2>3 DEF T
<1>6. h[M + N] = g[N]
  <2> DEFINE T == {n \in 0..N : h[M + n] = g[n]}
  <2>1. 0 \in T
    BY <1>1, <1>3, <1>5 DEF StepsOf
  <2>2. \A n \in 0..(N - 1) : n \in T => n + 1 \in T
    <3> SUFFICES ASSUME NEW n \in 0..(N - 1), h[M + n] = g[n]
                 PROVE  h[M + (n + 1)] = g[n + 1]
      BY <1>1
    <3> DEFINE m == n + 1
               k == M + m
    <3>2. m \in 1..N /\ k \in 1..(M + N) /\ m - 1 = n /\ k - 1 = M + n
      BY <1>1
    <3> HIDE DEF m
    <3>3. g[m] = IF g[n] = b[m].key THEN b[m].value ELSE g[n]
      BY <1>3, <3>2 DEF StepsOf, N
    <3>5. both[k] = b[m]
      BY <1>1, <3>2
    <3> HIDE DEF k
    <3>4. h[k] = IF h[M + n] = both[k].key THEN both[k].value ELSE h[M + n]
      BY <1>1, <1>4, <3>2 DEF StepsOf
    <3>6. h[k] = g[m]
      BY <3>3, <3>4, <3>5
    <3> QED
      BY <3>6 DEF m, k
  <2> HIDE DEF T
  <2>3. \A n \in 0..N : n \in T
    BY <1>1, <2>1, <2>2, InductionUpTo
  <2> QED
    BY <1>1, <2>3 DEF T
<1> QED
  BY <1>2, <1>3, <1>4, <1>6 DEF both

LEMMA ReplaceJoined ==
  ASSUME NEW text, NEW a, NEW b, IsList(a), IsList(b)
  PROVE  Replace(text, a \o b) = Replace(Replace(text, a), b)
BY ReplaceTokenJoined DEF Replace

LEMMA ReplaceTextSame ==
  ASSUME NEW text, IsList(text), NEW combination, IsList(combination),
         \A i \in DOMAIN combination : combination[i].key \notin Range(text)
  PROVE  Replace(text, combination) = text
<1>1. text = [i \in DOMAIN text |-> text[i]]
  BY DEF IsList
<1>2. \A i \in DOMAIN text : ReplaceToken(text[i], combination) = text[i]
  <2> TAKE i \in DOMAIN text
  <2>1. text[i] \in Range(text)
    BY DEF Range
  <2> QED
    BY <2>1, ReplaceTokenSame
<1> QED
  BY <1>1, <1>2 DEF Replace

LEMMA ReplaceText ==
  ASSUME NEW text, IsList(text), NEW combination
  PROVE  IsList(Replace(text, combination))
BY MapList DEF Replace

\* A variable has the value of one that gets its name.
LEMMA VariablesAreReplaced ==
  ASSUME TaskAssumption, NEW env, IsEnvironment(env), NEW combination
  PROVE  LET result == ReplacePatternsInEnvironment(env, combination)
         IN /\ DOMAIN result = {ReplaceToken(name, combination) : name \in DOMAIN env}
            /\ \A new \in DOMAIN result : \E name \in DOMAIN env :
                 /\ ReplaceToken(name, combination) = new
                 /\ result[new] = Replace(env[name], combination)
<1> DEFINE NewName(name) == ReplaceToken(name, combination)
           Names == {NewName(name) : name \in DOMAIN env}
           Chosen(new) == {i \in 1..Len(NameOrder) :
                             NameOrder[i] \in DOMAIN env /\ NewName(NameOrder[i]) = new}
           First(new) == IF Chosen(new) # {} THEN Min(Chosen(new)) ELSE 0
           result == ReplacePatternsInEnvironment(env, combination)
<1>1. result = [new \in Names |-> Replace(env[NameOrder[First(new)]], combination)]
  BY DEF ReplacePatternsInEnvironment, SelectInSeq
<1>3. \A new \in Names : /\ NameOrder[First(new)] \in DOMAIN env
                         /\ NewName(NameOrder[First(new)]) = new
  <2> TAKE new \in Names
  <2>1. PICK name \in DOMAIN env : NewName(name) = new
    OBVIOUS
  <2>2. PICK i \in DOMAIN NameOrder : NameOrder[i] = name
    BY <2>1 DEF IsEnvironment, Range
  <2>3. DOMAIN NameOrder = 1..Len(NameOrder) /\ Len(NameOrder) \in Nat
    BY DEF TaskAssumption, IsList
  <2>4. Chosen(new) \in SUBSET Nat /\ Chosen(new) # {}
    BY <2>1, <2>2, <2>3
  <2>5. Min(Chosen(new)) \in Chosen(new)
    <3> HIDE DEF Chosen
    <3>1. \E x \in Chosen(new) : \A y \in Chosen(new) : x <= y
      BY <2>4, LeastNat
    <3> QED
      BY <3>1 DEF Min
  <2> QED
    BY <2>4, <2>5
<1> HIDE DEF First, result
<1>4. DOMAIN result = Names
  BY <1>1
<1>5. \A new \in Names : result[new] = Replace(env[NameOrder[First(new)]], combination)
  BY <1>1
<1>6. \A new \in DOMAIN result : \E name \in DOMAIN env :
        NewName(name) = new /\ result[new] = Replace(env[name], combination)
  BY <1>3, <1>4, <1>5
<1> QED
  BY <1>4, <1>6 DEF result

\* Patterns come after the names they can be replaced by that are no patterns.
ComeLast(keys, values) ==
  \A i, j \in DOMAIN NameOrder :
    NameOrder[i] \in keys /\ NameOrder[j] \in values \ keys => j < i

\* A variable that is not named like a pattern keeps its value when others get
\* its name, if patterns come last in the order of the map.
LEMMA NamedIsReplaced ==
  ASSUME TaskAssumption, NEW env, IsEnvironment(env),
         NEW combination, IsList(combination), NEW keys, NEW values, ComeLast(keys, values),
         \A i \in DOMAIN combination :
           combination[i].key \in keys /\ combination[i].value \in values,
         NEW name \in DOMAIN env, name \notin keys
  PROVE  LET result == ReplacePatternsInEnvironment(env, combination)
         IN /\ name \in DOMAIN result
            /\ result[name] = Replace(env[name], combination)
<1> DEFINE NewName(n) == ReplaceToken(n, combination)
           Names == {NewName(n) : n \in DOMAIN env}
           chosen == {i \in 1..Len(NameOrder) :
                        NameOrder[i] \in DOMAIN env /\ NewName(NameOrder[i]) = name}
           first == IF chosen # {} THEN Min(chosen) ELSE 0
           result == ReplacePatternsInEnvironment(env, combination)
<1>1. \A n : n \notin keys => NewName(n) = n
  BY ReplaceTokenSame
<1>2. name \in Names
  BY <1>1
<1>3. name \in DOMAIN result /\ result[name] = Replace(env[NameOrder[first]], combination)
  BY <1>2 DEF ReplacePatternsInEnvironment, SelectInSeq
<1>4. DOMAIN NameOrder = 1..Len(NameOrder) /\ Len(NameOrder) \in Nat
  BY DEF TaskAssumption, IsList
<1>5. PICK p \in DOMAIN NameOrder : NameOrder[p] = name
  BY DEF IsEnvironment, Range
<1>6. p \in chosen /\ chosen \in SUBSET Nat
  BY <1>1, <1>4, <1>5
<1>7. Min(chosen) \in chosen /\ \A y \in chosen : Min(chosen) <= y
  <2> HIDE DEF chosen
  <2>1. \E x \in chosen : \A y \in chosen : x <= y
    BY <1>6, LeastNat
  <2> QED
    BY <2>1 DEF Min
<1>8. first \in chosen /\ first <= p
  BY <1>6, <1>7
<1> HIDE DEF first
<1>9. NameOrder[first] = name
  <2>1. first \in DOMAIN NameOrder /\ NewName(NameOrder[first]) = name
    BY <1>4, <1>8
  <2>2. CASE NameOrder[first] \notin keys
    BY <1>1, <2>1, <2>2
  <2>3. CASE NameOrder[first] \in keys
    <3> DEFINE S == values \cup {NameOrder[first]}
    <3>1. NewName(NameOrder[first]) \in S
      BY ReplaceTokenType
    <3>2. name \in values
      BY <2>1, <2>3, <3>1
    <3>3. p < first
      BY <1>5, <2>1, <2>3, <3>2 DEF ComeLast
    <3> QED
      BY <1>4, <1>8, <2>1, <3>3
  <2> QED
    BY <2>2, <2>3
<1> QED
  BY <1>3, <1>9

\* Names are replaced by names, and values by texts.
LEMMA EnvironmentIsReplaced ==
  ASSUME TaskAssumption, NEW env, IsEnvironment(env),
         NEW combination, IsCombination(combination)
  PROVE  IsEnvironment(ReplacePatternsInEnvironment(env, combination))
<1> DEFINE result == ReplacePatternsInEnvironment(env, combination)
<1>1. /\ DOMAIN result = {ReplaceToken(name, combination) : name \in DOMAIN env}
      /\ \A new \in DOMAIN result : \E name \in DOMAIN env :
           result[new] = Replace(env[name], combination)
  BY VariablesAreReplaced
<1> HIDE DEF result
<1>2. DOMAIN result \subseteq Range(NameOrder)
  BY <1>1, ReplaceTokenType DEF IsCombination, IsEnvironment
<1>3. \A new \in DOMAIN result : IsList(result[new])
  BY <1>1, ReplaceText DEF IsEnvironment
<1> QED
  BY <1>2, <1>3 DEF IsEnvironment, result

LEMMA TaskIsReplaced ==
  ASSUME TaskAssumption, NEW task, IsTask(task),
         NEW combination, IsCombination(combination)
  PROVE  /\ IsTask(ReplacePatternCombinations(task, combination))
         /\ HasPwd(ReplacePatternCombinations(task, combination))
<1> DEFINE env == ReplacePatternsInEnvironment(task.env, combination)
           dir == Replace(task.dir, combination)
           named == SetEnvironment(NewTask, env)
           moved == SetWorkingDirectory(named, dir)
           words == [w \in DOMAIN task.words |-> Replace(task.words[w], combination)]
<1>1. IsEnvironment(env) /\ IsList(dir)
  BY EnvironmentIsReplaced, ReplaceText DEF IsTask
<1> HIDE DEF env, dir
<1>2. IsTask(named)
  BY <1>1, FirstTasks, EnvironmentIsSet
<1> HIDE DEF named
<1>3. IsTask(moved) /\ HasPwd(moved)
  BY <1>1, <1>2, WorkingDirectoryIsSet DEF IsTask, IsRecord, AreWords
<1>5. AreWords(words)
  BY MapList, ReplaceText DEF IsTask, AreWords
<1> HIDE DEF moved, words
<1>4. IsTask(AppendWords(moved, words)) /\ HasPwd(AppendWords(moved, words))
  BY <1>3, <1>5, WordsAreAppended
<1> QED
  BY <1>4 DEF ReplacePatternCombinations, moved, words, named, env, dir

LEMMA ExtendType ==
  ASSUME NEW P, NEW combinations \in Seq(Seq(P)), NEW pattern,
         IsList(pattern.values),
         \A v \in DOMAIN pattern.values :
           [key |-> pattern.key, value |-> pattern.values[v]] \in P
  PROVE  Extend(combinations, pattern) \in Seq(Seq(P))
<1> DEFINE C == Seq(P)
           L == Seq(C)
           row(combination) == [v \in DOMAIN pattern.values |->
             Append(combination,
                    [key |-> pattern.key, value |-> pattern.values[v]])]
           rows == [c \in DOMAIN combinations |-> row(combinations[c])]
<1>1. \A combination \in C : row(combination) \in L
  <2> TAKE combination \in C
  <2>1. \A v \in DOMAIN pattern.values :
          Append(combination,
                 [key |-> pattern.key, value |-> pattern.values[v]]) \in C
    BY SMTT(30)
  <2>2. DOMAIN pattern.values = 1..Len(pattern.values) /\ Len(pattern.values) \in Nat
    BY DEF IsList
  <2> HIDE DEF C
  <2> QED
    BY <2>1, <2>2
<1>2. rows \in Seq(L)
  <2> HIDE DEF row, L
  <2>1. combinations \in Seq(C)
    OBVIOUS
  <2> HIDE DEF C
  <2> QED
    BY <1>1, <2>1
<1> HIDE DEF C
<1>3. FlattenSeq(rows) \in Seq(C)
  BY <1>2, FlattenType
<1> QED
  BY <1>3 DEF Extend, C

LEMMA CombinationsType ==
  ASSUME NEW P, NEW patterns, IsList(patterns),
         \A p \in DOMAIN patterns :
           /\ IsList(patterns[p].values)
           /\ \A v \in DOMAIN patterns[p].values :
                [key |-> patterns[p].key, value |-> patterns[p].values[v]] \in P
  PROVE  CombinationsOf(patterns) \in Seq(Seq(P))
<1> DEFINE N == Len(patterns)
           S == Seq(Seq(P))
           base == << <<>> >>
           Unfolds(f) == f = [n \in 0..N |-> IF n = 0 THEN << <<>> >>
                                ELSE Extend(f[n - 1], patterns[n])]
           after == CHOOSE f : Unfolds(f)
           step == [n \in 1..N |-> [c \in S |-> Extend(c, patterns[n])]]
<1>1. N \in Nat /\ DOMAIN patterns = 1..N
  BY DEF IsList
<1>2. CombinationsOf(patterns) = after[N]
  BY Zenon DEF CombinationsOf
<1>3. base \in S
  <2> DEFINE C == Seq(P)
  <2>1. <<>> \in C
    OBVIOUS
  <2> HIDE DEF C
  <2>2. << <<>> >> \in Seq(C)
    BY <2>1
  <2> QED
    BY <2>2 DEF C
<1>4. \A n \in 1..N : \A c \in S : Extend(c, patterns[n]) \in S
  BY <1>1, ExtendType
<1> HIDE DEF N, S, base
<1>5. step \in [1..N -> [S -> S]]
  BY <1>4
<1>6. \A n \in 1..N : \A c \in S : step[n][c] = Extend(c, patterns[n])
  OBVIOUS
<1> HIDE DEF step
<1>7. PICK g : Recursive(g, N, S, base, step)
  BY <1>1, <1>3, <1>5, RecursionExists
<1>8. Unfolds(g)
  <2>1. g = [n \in 0..N |-> g[n]] /\ g[0] = base
    BY <1>7 DEF Recursive
  <2>2. \A n \in 1..N : n - 1 \in 0..N /\ n # 0
    BY <1>1
  <2>3. \A n \in 1..N : g[n] = Extend(g[n - 1], patterns[n])
    BY <1>6, <1>7, <2>2 DEF Recursive
  <2>4. \A n \in 0..N : n = 0 \/ n \in 1..N
    BY <1>1
  <2> QED
    BY <2>1, <2>2, <2>3, <2>4 DEF base
<1>9. Unfolds(after)
  <2> HIDE DEF Unfolds
  <2> QED
    BY <1>8, Zenon
<1> HIDE DEF after
<1> DEFINE T == {n \in 0..N : after[n] \in S}
<1>10. 0 \in T
  <2>1. 0 \in 0..N
    BY <1>1
  <2>2. after[0] = base
    BY <1>9, <2>1 DEF base
  <2> QED
    BY <1>3, <2>1, <2>2
<1>11. \A n \in 0..(N - 1) : n \in T => n + 1 \in T
  <2> SUFFICES ASSUME NEW n \in 0..(N - 1), n \in T
               PROVE  after[n + 1] \in S
    BY <1>1
  <2>1. n + 1 \in 1..N /\ n + 1 \in 0..N /\ n + 1 # 0 /\ (n + 1) - 1 = n
    BY <1>1
  <2>2. after[n + 1] = Extend(after[n], patterns[n + 1])
    BY <1>9, <2>1
  <2> QED
    BY <1>4, <2>1, <2>2
<1> HIDE DEF T
<1>12. \A n \in 0..N : n \in T
  BY <1>1, <1>10, <1>11, InductionUpTo
<1>13. after[N] \in S
  BY <1>1, <1>12 DEF T
<1> QED
  BY <1>2, <1>13 DEF S

ValuesOf(section) ==
  UNION {Range(section.patterns[p].values) : p \in DOMAIN section.patterns}

\* A list of patterns of a section, each with one of its values.
IsCombinationOf(section, combination) ==
  /\ IsList(combination)
  /\ \A i \in DOMAIN combination : /\ combination[i].key \in KeysOf(section)
                                   /\ combination[i].value \in ValuesOf(section)

LEMMA CombinationsOfPatterns ==
  ASSUME NEW section, IsSection(section)
  PROVE  /\ IsList(CombinationsOf(section.patterns))
         /\ \A c \in DOMAIN CombinationsOf(section.patterns) :
              IsCombinationOf(section, CombinationsOf(section.patterns)[c])
<1> DEFINE patterns == section.patterns
           P == [key : KeysOf(section), value : ValuesOf(section)]
           C == Seq(P)
<1>1. /\ IsList(patterns)
      /\ \A p \in DOMAIN patterns : IsList(patterns[p].values)
      /\ \A p \in DOMAIN patterns : \A v \in DOMAIN patterns[p].values :
           patterns[p].values[v] \in ValuesOf(section)
      /\ \A p \in DOMAIN patterns : patterns[p].key \in KeysOf(section)
  BY DEF IsSection, IsPattern, Range, KeysOf, ValuesOf
<1>2. \A p \in DOMAIN patterns : \A v \in DOMAIN patterns[p].values :
        [key |-> patterns[p].key, value |-> patterns[p].values[v]] \in P
  BY <1>1
<1> HIDE DEF patterns
<1>3. CombinationsOf(patterns) \in Seq(C)
  <2> HIDE DEF P
  <2> QED
    BY <1>1, <1>2, CombinationsType
<1>4. \A combination \in C : IsCombinationOf(section, combination)
  <2> TAKE combination \in C
  <2>1. IsList(combination)
    BY ListOf DEF IsList
  <2>2. \A i \in DOMAIN combination : combination[i] \in P
    <3> HIDE DEF P
    <3> QED
      OBVIOUS
  <2> QED
    BY <2>1, <2>2 DEF IsCombinationOf
<1> HIDE DEF C
<1>5. IsList(CombinationsOf(patterns))
  BY <1>3, ListOf DEF IsList
<1>6. \A c \in DOMAIN CombinationsOf(patterns) : CombinationsOf(patterns)[c] \in C
  BY <1>3
<1> QED
  BY <1>4, <1>5, <1>6 DEF patterns

\* The combinations of a section are lists of its patterns.
LEMMA CombinationsOfSection ==
  ASSUME NEW section, IsSection(section)
  PROVE  /\ IsList(CombinationsOf(section.patterns))
         /\ \A c \in DOMAIN CombinationsOf(section.patterns) :
              IsCombination(CombinationsOf(section.patterns)[c])
<1>1. ValuesOf(section) \subseteq Range(NameOrder)
  BY DEF ValuesOf, IsSection, IsPattern
<1>2. \A c : IsCombinationOf(section, c) => IsCombination(c)
  BY <1>1 DEF IsCombinationOf, IsCombination
<1> QED
  BY <1>2, CombinationsOfPatterns

-----------------------------------------------------------------------------
(* What is left to do *)

\* A plugin of the chain with its task, or a task to register with its PWD.
IsItem(sections, item) ==
  /\ item.level \in 0..Len(sections) /\ IsTask(item.task)
  /\ item.level = 0 => HasPwd(item.task)

\* A list of items
IsWork(sections, list) ==
  IsList(list) /\ \A i \in DOMAIN list : IsItem(sections, list[i])

LEMMA TaskIsConfigured ==
  ASSUME TaskAssumption, NEW section, IsSection(section), NEW task, IsTask(task)
  PROVE  IsTask(Configure(task, section))
<1>1. \A t : IsTask(t) => IsTask(ApplyWorkingDirectory(t, section))
  BY WorkingDirectoryIsSet DEF ApplyWorkingDirectory, IsSection, IsTask, IsRecord, AreWords
<1>2. IsEnvironment(GetEnvironment(section))
  BY DEF GetEnvironment, IsEnvironment, IsSection
<1>3. \A t : IsTask(t) => IsTask(ApplyEnvironment(t, section))
  BY <1>2, EnvironmentIsAppended DEF ApplyEnvironment
<1>4. \/ section.plugin = "script"
      \/ section.plugin = "command-line-command"
      \/ section.plugin \in {"pmd", "valgrind", "lcov"}
  BY DEF IsSection
<1>5. CASE section.plugin = "script"
  BY <1>1, <1>3, <1>5 DEF Configure
<1>6. CASE section.plugin = "command-line-command"
  BY <1>1, <1>3, <1>6 DEF Configure
<1>7. CASE section.plugin \in {"pmd", "valgrind", "lcov"}
  BY <1>7 DEF Configure
<1> QED
  BY <1>4, <1>5, <1>6, <1>7

\* One level down from one that is not the last
LEMMA NextLevel ==
  \A N \in Nat : \A level \in 1..N :
    level # N => level + 1 \in 0..N /\ level + 1 # 0
OBVIOUS

LEMMA CombinationIsWork ==
  ASSUME TaskAssumption, NEW sections, IsChain(sections),
         NEW level \in 1..Len(sections), NEW task, IsTask(task),
         NEW combination, IsCombination(combination)
  PROVE  IsWork(sections, ForCombination(sections, level, task, combination))
<1> DEFINE section == sections[level]
           own == AppendWords(Configure(task, section), section.words)
           replaced == ReplacePatternCombinations(own, combination)
<1>1. Len(sections) \in Nat /\ DOMAIN sections = 1..Len(sections)
  BY DEF IsChain, IsList
<1>2. IsSection(section)
  BY <1>1 DEF IsChain
<1>3. IsTask(own)
  <2>1. AreWords(section.words)
    BY <1>2 DEF IsSection, AreWords
  <2> QED
    BY <1>2, <2>1, TaskIsConfigured, WordsAreAppended
<1> HIDE DEF own
<1>4. IsTask(replaced) /\ HasPwd(replaced)
  BY <1>3, TaskIsReplaced
<1> HIDE DEF replaced
<1>5. IsItem(sections, Register(replaced))
  BY <1>1, <1>4 DEF IsItem, Register
<1>6. level # Len(sections) => /\ IsItem(sections, Nested(level + 1, task))
                               /\ IsItem(sections, Nested(level + 1, replaced))
  <2>1. level # Len(sections) => level + 1 \in 0..Len(sections) /\ level + 1 # 0
    BY <1>1, NextLevel
  <2>2. \A t : Nested(level + 1, t).level = level + 1 /\ Nested(level + 1, t).task = t
    BY DEF Nested
  <2> QED
    BY <1>4, <2>1, <2>2 DEF IsItem
<1> DEFINE result == ForCombination(sections, level, task, combination)
<1>7. CASE level = Len(sections)
  <2>1. result = <<Register(replaced)>>
    BY <1>7 DEF ForCombination, replaced, own
  <2> QED
    BY <1>5, <2>1, MadeLists DEF IsWork
<1>8. CASE level # Len(sections) /\ section.plugin = "lcov"
  <2>1. result = <<Nested(level + 1, task), Register(replaced)>>
    BY <1>8 DEF ForCombination, replaced, own
  <2> QED
    BY <1>5, <1>6, <1>8, <2>1, MadeLists DEF IsWork
<1>9. CASE level # Len(sections) /\ section.plugin # "lcov"
  <2>1. result = <<Nested(level + 1, replaced)>>
    BY <1>9 DEF ForCombination, replaced, own
  <2> QED
    BY <1>6, <1>9, <2>1, MadeLists DEF IsWork
<1> QED
  BY <1>7, <1>8, <1>9

LEMMA ApplyIsWork ==
  ASSUME TaskAssumption, NEW sections, IsChain(sections),
         NEW level \in 1..Len(sections), NEW task, IsTask(task)
  PROVE  IsWork(sections, Apply(sections, level, task))
<1> DEFINE combinations == CombinationsOf(sections[level].patterns)
           each == [c \in DOMAIN combinations |->
                      ForCombination(sections, level, task, combinations[c])]
<1>1. IsSection(sections[level])
  BY DEF IsChain, IsList
<1>2. /\ IsList(combinations)
      /\ \A c \in DOMAIN combinations : IsCombination(combinations[c])
  BY <1>1, CombinationsOfSection
<1> HIDE DEF combinations
<1>3. IsList(each)
  BY <1>2, MapList
<1>4. \A c \in DOMAIN each : IsWork(sections, each[c])
  BY <1>2, CombinationIsWork
<1>5. Apply(sections, level, task) = FlattenSeq(each)
  BY DEF Apply, combinations
<1> HIDE DEF each
<1>6. /\ FlattenSeq(each) \in Seq(Range(FlattenSeq(each)))
      /\ \A i \in DOMAIN FlattenSeq(each) : \E j \in DOMAIN each :
           \E k \in DOMAIN each[j] : FlattenSeq(each)[i] = each[j][k]
  BY <1>3, <1>4, FlattenLists DEF IsWork, IsList
<1> QED
  BY <1>4, <1>5, <1>6 DEF IsWork, IsList

LEMMA MoreWork ==
  ASSUME NEW sections, NEW a, NEW b, IsWork(sections, a), IsWork(sections, b)
  PROVE  IsWork(sections, a \o b)
<1>1. IsList(a) /\ IsList(b)
  BY DEF IsWork
<1>2. /\ IsList(a \o b)
      /\ \A i \in DOMAIN (a \o b) :
           \/ i \in DOMAIN a /\ (a \o b)[i] = a[i]
           \/ \E j \in DOMAIN b : (a \o b)[i] = b[j]
  BY <1>1, JoinLists
<1> DEFINE both == a \o b
<1>3. /\ IsList(both)
      /\ \A i \in DOMAIN both :
           \/ i \in DOMAIN a /\ both[i] = a[i]
           \/ \E j \in DOMAIN b : both[i] = b[j]
  BY <1>2
<1> HIDE DEF both
<1>4. IsWork(sections, both)
  BY <1>3 DEF IsWork
<1> QED
  BY <1>4 DEF both

LEMMA LessWork ==
  ASSUME NEW sections, NEW list, IsWork(sections, list), list # <<>>
  PROVE  IsWork(sections, Tail(list)) /\ IsItem(sections, Head(list))
BY ListsTail DEF IsWork, IsList

-----------------------------------------------------------------------------
(* The words of a task *)

Tokens(text) == Range(text) \ {Space}

\* The tokens are in the fields, each in some one.
Holds(fields, tokens) ==
  \A t \in tokens : \E j \in DOMAIN fields : t \in Range(fields[j])

\* A token is appended to the last field.
Grown(more, fields, t) ==
  more = [fields EXCEPT ![Len(fields)] = Append(@, t)]

LEMMA GrownType ==
  ASSUME NEW X, NEW fields \in Seq(Seq(X)), NEW t \in X, NEW more,
         Grown(more, fields, t)
  PROVE  more \in Seq(Seq(X)) /\ Len(more) = Len(fields)
<1> DEFINE Texts == Seq(X)
           N == Len(fields)
<1>1. N \in Nat /\ DOMAIN fields = 1..N /\ \A j \in 1..N : fields[j] \in Texts
  <2>1. fields \in Seq(Texts)
    OBVIOUS
  <2> HIDE DEF Texts
  <2> QED
    BY <2>1
<1>2. \A j \in 1..N : Append(fields[j], t) \in Texts
  BY <1>1
<1>3. more = [j \in 1..N |-> IF j = N THEN Append(fields[j], t) ELSE fields[j]]
  BY <1>1 DEF Grown
<1> HIDE DEF Texts
<1>4. \A j \in 1..N : more[j] \in Texts
  BY <1>1, <1>2, <1>3
<1> HIDE DEF N
<1>5. DOMAIN more = 1..N /\ more = [j \in 1..N |-> more[j]]
  BY <1>3
<1>6. more \in Seq(Texts) /\ Len(more) = N
  <2>1. N \in Nat
    BY <1>1
  <2>2. more \in [1..N -> Texts]
    BY <1>4, <1>5
  <2> QED
    BY <2>1, <2>2
<1> QED
  BY <1>6 DEF N, Texts

LEMMA GrownHolds ==
  ASSUME NEW X, NEW fields \in Seq(Seq(X)), fields # <<>>, NEW t \in X, NEW more,
         Grown(more, fields, t), NEW tokens, Holds(fields, tokens)
  PROVE  Holds(more, tokens \cup {t})
<1> DEFINE N == Len(fields)
<1>1. N \in Nat /\ N \in DOMAIN fields /\ DOMAIN more = DOMAIN fields
  BY DEF Grown
<1>2. \A j \in DOMAIN fields : fields[j] \in Seq(X)
  <2> DEFINE Texts == Seq(X)
  <2>1. fields \in Seq(Texts)
    OBVIOUS
  <2> HIDE DEF Texts
  <2>2. \A j \in DOMAIN fields : fields[j] \in Texts
    BY <2>1
  <2> QED
    BY <2>2 DEF Texts
<1>3. \A text \in Seq(X) : Range(text) \cup {t} \subseteq Range(Append(text, t))
  <2> TAKE text \in Seq(X)
  <2>1. \A i \in DOMAIN text :
          i \in DOMAIN Append(text, t) /\ Append(text, t)[i] = text[i]
    OBVIOUS
  <2>2. Len(text) + 1 \in DOMAIN Append(text, t) /\ Append(text, t)[Len(text) + 1] = t
    OBVIOUS
  <2> QED
    BY <2>1, <2>2 DEF Range
<1>4. /\ more[N] = Append(fields[N], t)
      /\ \A j \in DOMAIN fields : j # N => more[j] = fields[j]
  BY <1>1 DEF Grown
<1>5. \A j \in DOMAIN fields : Range(fields[j]) \subseteq Range(more[j])
  BY <1>2, <1>3, <1>4
<1>6. t \in Range(more[N])
  BY <1>1, <1>2, <1>3, <1>4
<1> QED
  BY <1>1, <1>5, <1>6 DEF Holds

LEMMA FieldAdded ==
  ASSUME NEW X, NEW fields \in Seq(Seq(X)), NEW t \in X
  PROVE  /\ Append(fields, <<t>>) \in Seq(Seq(X))
         /\ \A tokens : Holds(fields, tokens) =>
                        Holds(Append(fields, <<t>>), tokens \cup {t})
         /\ Append(fields, <<t>>) # <<>>
<1> DEFINE Texts == Seq(X)
           field == <<t>>
           more == Append(fields, field)
<1>1. field \in Texts /\ t \in Range(field)
  <2>1. 1 \in DOMAIN field /\ field[1] = t
    OBVIOUS
  <2> QED
    BY <2>1 DEF Range
<1>2. fields \in Seq(Texts)
  OBVIOUS
<1> HIDE DEF Texts, field
<1>3. more \in Seq(Texts) /\ more # <<>>
  BY <1>1, <1>2
<1>4. /\ \A j \in DOMAIN fields : j \in DOMAIN more /\ more[j] = fields[j]
      /\ Len(fields) + 1 \in DOMAIN more /\ more[Len(fields) + 1] = field
  BY <1>1, <1>2
<1> HIDE DEF more
<1>5. \A tokens : Holds(fields, tokens) => Holds(more, tokens \cup {t})
  BY <1>1, <1>4 DEF Holds
<1> QED
  BY <1>3, <1>5 DEF Texts, field, more

\* No token but white space is lost.
LEMMA FieldsHold ==
  ASSUME NEW text, IsList(text)
  PROVE  /\ AreWords(Fields(text))
         /\ Holds(Fields(text), Tokens(text))
<1> DEFINE N == Len(text)
           X == Range(text)
           S == Seq(Seq(X))
           grown(fields, n) == [fields EXCEPT ![Len(fields)] = Append(@, text[n])]
           next(fields, n) ==
             IF text[n] = Space THEN fields
             ELSE IF n > 1 /\ text[n - 1] # Space THEN grown(fields, n)
             ELSE Append(fields, <<text[n]>>)
           Unfolds(f) == f = [n \in 0..N |-> IF n = 0 THEN <<>>
                               ELSE LET fields == f[n - 1] IN next(fields, n)]
           after == CHOOSE f : Unfolds(f)
           step == [n \in 1..N |-> [fields \in S |-> next(fields, n)]]
           seen(n) == {text[i] : i \in 1..n} \ {Space}
<1>1. N \in Nat /\ DOMAIN text = 1..N
  BY DEF IsList
<1>2. Fields(text) = after[N]
  BY Zenon DEF Fields
<1>3. \A n \in 1..N : text[n] \in X
  BY <1>1 DEF Range
<1> HIDE DEF N, X
<1>4. \A fields \in S : \A n \in 1..N : next(fields, n) \in S
  <2> TAKE fields \in S
  <2> TAKE n \in 1..N
  <2>1. grown(fields, n) \in S
    <3>1. Grown(grown(fields, n), fields, text[n])
      BY DEF Grown
    <3> HIDE DEF grown
    <3> QED
      BY <1>3, <3>1, GrownType
  <2>2. Append(fields, <<text[n]>>) \in S
    BY <1>3, FieldAdded
  <2> HIDE DEF S, grown
  <2> QED
    BY <2>1, <2>2
<1>5. <<>> \in S
  <2> DEFINE Texts == Seq(X)
  <2> HIDE DEF Texts
  <2>1. <<>> \in Seq(Texts)
    OBVIOUS
  <2> QED
    BY <2>1 DEF Texts
<1> HIDE DEF S, grown
<1>6. step \in [1..N -> [S -> S]]
  <2> HIDE DEF next
  <2> QED
    BY <1>4
<1>7. \A n \in 1..N : \A fields \in S : step[n][fields] = next(fields, n)
  <2> HIDE DEF next
  <2> QED
    OBVIOUS
<1> HIDE DEF step
<1>8. PICK g : Recursive(g, N, S, <<>>, step)
  BY <1>1, <1>5, <1>6, RecursionExists
<1>9. Unfolds(g)
  <2>1. g = [n \in 0..N |-> g[n]] /\ g[0] = <<>>
    BY <1>8 DEF Recursive
  <2>2. \A n \in 1..N : n - 1 \in 0..N /\ n # 0
    BY <1>1
  <2> HIDE DEF next
  <2>3. \A n \in 1..N : g[n] = next(g[n - 1], n)
    BY <1>7, <1>8, <2>2 DEF Recursive
  <2>4. \A n \in 0..N : n = 0 \/ n \in 1..N
    BY <1>1
  <2> QED
    BY <2>1, <2>2, <2>3, <2>4
<1>10. Unfolds(after)
  <2> HIDE DEF Unfolds
  <2> QED
    BY <1>9, Zenon
<1> HIDE DEF after
<1> DEFINE Good(n) == /\ after[n] \in S /\ Holds(after[n], seen(n))
                      /\ n > 0 /\ text[n] # Space => after[n] # <<>>
           T == {n \in 0..N : Good(n)}
<1>11. 0 \in T
  <2>1. 0 \in 0..N /\ ~(0 > 0) /\ seen(0) = {}
    BY <1>1
  <2>2. after[0] = <<>>
    BY <1>10, <2>1
  <2>3. Holds(<<>>, {})
    BY DEF Holds
  <2>4. Good(0)
    BY <1>5, <2>1, <2>2, <2>3
  <2> HIDE DEF Good
  <2> QED
    BY <2>1, <2>4
<1>12. \A n \in 0..(N - 1) : n \in T => n + 1 \in T
  <2>0. \A n \in 0..(N - 1) : n + 1 \in 0..N
    BY <1>1
  <2> SUFFICES ASSUME NEW n \in 0..(N - 1), n \in T
               PROVE  Good(n + 1)
    <3> HIDE DEF Good
    <3> QED
      BY <2>0
  <2> DEFINE fields == after[n]
             t == text[n + 1]
  <2>1. n + 1 \in 1..N /\ n + 1 \in 0..N /\ n + 1 # 0 /\ (n + 1) - 1 = n
    BY <1>1
  <2>2. after[n + 1] = next(fields, n + 1)
    <3> HIDE DEF next
    <3> QED
      BY <1>10, <2>1
  <2>3. fields \in S /\ Holds(fields, seen(n)) /\ t \in X
    BY <1>3, <2>1
  <2>4. seen(n + 1) = (seen(n) \cup {t}) \ {Space}
    <3>1. \A i \in 1..(n + 1) : i \in 1..n \/ i = n + 1
      OBVIOUS
    <3>2. \A i \in 1..n : i \in 1..(n + 1)
      OBVIOUS
    <3>3. n + 1 \in 1..(n + 1)
      OBVIOUS
    <3> QED
      BY <3>1, <3>2, <3>3
  <2>5. n > 0 /\ text[n] # Space => fields # <<>>
    OBVIOUS
  <2>6. after[n + 1] \in S
    <3> HIDE DEF next
    <3> QED
      BY <1>4, <2>1, <2>2, <2>3
  <2>7. CASE t = Space
    <3>1. after[n + 1] = fields
      BY <2>2, <2>7
    <3>2. Holds(fields, seen(n + 1))
      BY <2>3, <2>4, <2>7 DEF Holds
    <3> QED
      BY <2>6, <2>7, <3>1, <3>2
  <2>8. CASE t # Space /\ n > 0 /\ text[n] # Space
    <3>1. after[n + 1] = grown(fields, n + 1)
      BY <2>1, <2>2, <2>8
    <3>2. Grown(after[n + 1], fields, t)
      BY <3>1 DEF Grown, grown
    <3>3. fields # <<>>
      BY <2>5, <2>8
    <3> HIDE DEF fields, t, seen
    <3>4. Holds(after[n + 1], seen(n) \cup {t})
      BY <2>3, <3>2, <3>3, GrownHolds DEF S
    <3>5. Holds(after[n + 1], seen(n + 1))
      BY <2>4, <3>4 DEF Holds
    <3>6. after[n + 1] # <<>>
      <4>1. t \in seen(n) \cup {t}
        OBVIOUS
      <4>2. DOMAIN after[n + 1] # {}
        BY <3>4, <4>1 DEF Holds
      <4> QED
        BY <4>2
    <3> QED
      BY <2>6, <3>5, <3>6
  <2>9. CASE t # Space /\ ~(n > 0 /\ text[n] # Space)
    <3>1. after[n + 1] = Append(fields, <<t>>)
      BY <2>1, <2>2, <2>9
    <3> HIDE DEF fields, t, seen
    <3>2. /\ Holds(after[n + 1], seen(n) \cup {t}) /\ after[n + 1] # <<>>
      BY <2>3, <3>1, FieldAdded, ZenonT(30) DEF S
    <3>3. Holds(after[n + 1], seen(n + 1))
      BY <2>4, <3>2 DEF Holds
    <3> QED
      BY <2>6, <3>2, <3>3
  <2> QED
    BY <2>7, <2>8, <2>9
<1> HIDE DEF T
<1>13. \A n \in 0..N : n \in T
  BY <1>1, <1>11, <1>12, InductionUpTo
<1>14. after[N] \in S /\ Holds(after[N], seen(N))
  <2>1. N \in 0..N /\ N \in T
    BY <1>1, <1>13
  <2>2. Good(N)
    <3> HIDE DEF Good
    <3> QED
      BY <2>1 DEF T
  <2> QED
    BY <2>2
<1>15. Tokens(text) = seen(N)
  BY <1>1 DEF Tokens, Range
<1>16. \A fields \in S : AreWords(fields)
  <2> DEFINE Texts == Seq(X)
  <2> TAKE fields \in S
  <2>1. fields \in Seq(Texts)
    BY DEF S
  <2>2. \A word \in Texts : IsList(word)
    BY ListOf DEF IsList
  <2> HIDE DEF Texts
  <2>3. IsList(fields)
    BY <2>1, ListOf DEF IsList
  <2> QED
    BY <2>1, <2>2, <2>3 DEF AreWords
<1> QED
  BY <1>2, <1>14, <1>15, <1>16

\* A word with the values of the variables in it
Referred(word, env) ==
  [i \in DOMAIN word |-> IF word[i] \in DOMAIN Reference
                         THEN env[Reference[word[i]]] ELSE <<word[i]>>]

LEMMA ReferredIsWords ==
  ASSUME NEW word, IsList(word), NEW env, IsEnvironment(env), ~Fails(word, env)
  PROVE  AreWords(Referred(word, env))
<1>1. \A i \in DOMAIN word : IsList(Referred(word, env)[i])
  BY MadeLists DEF Fails, IsEnvironment, Referred
<1>2. DOMAIN Referred(word, env) = DOMAIN word
  BY DEF Referred
<1>3. IsList(Referred(word, env))
  BY MapList DEF Referred
<1> QED
  BY <1>1, <1>2, <1>3 DEF AreWords

LEMMA WordExpIsWords ==
  ASSUME NEW word, IsList(word), NEW env, IsEnvironment(env)
  PROVE  AreWords(WordExp(word, env))
<1>1. CASE Fails(word, env)
  BY <1>1, MadeLists DEF WordExp, AreWords
<1>2. CASE ~Fails(word, env)
  <2> DEFINE pieces == Referred(word, env)
  <2>1. WordExp(word, env) = Fields(FlattenSeq(pieces))
    BY <1>2 DEF WordExp, Referred
  <2>2. AreWords(pieces)
    BY <1>2, ReferredIsWords
  <2> HIDE DEF pieces
  <2>3. IsList(FlattenSeq(pieces))
    BY <2>2, FlattenLists DEF AreWords, IsList
  <2> QED
    BY <2>1, <2>3, FieldsHold
<1> QED
  BY <1>1, <1>2

\* A word that is a reference reaches the program as what it refers to.
Reaches(word, env, args) ==
  /\ Len(word) = 1 /\ word[1] \in DOMAIN Reference
  /\ Reference[word[1]] \in DOMAIN env
  => Holds(args, Tokens(env[Reference[word[1]]]))

LEMMA ReferenceReaches ==
  ASSUME ShellAssumption, NEW word, IsList(word), NEW env, IsEnvironment(env)
  PROVE  Reaches(word, env, WordExp(word, env))
<1> SUFFICES ASSUME Len(word) = 1, word[1] \in DOMAIN Reference,
                    Reference[word[1]] \in DOMAIN env
             PROVE  Holds(WordExp(word, env), Tokens(env[Reference[word[1]]]))
  BY DEF Reaches
<1> DEFINE value == env[Reference[word[1]]]
           pieces == Referred(word, env)
           text == FlattenSeq(pieces)
<1>1. DOMAIN word = {1}
  BY DEF IsList
<1>2. ~Fails(word, env)
  BY <1>1 DEF Fails, ShellAssumption
<1>3. WordExp(word, env) = Fields(text)
  BY <1>2 DEF WordExp, Referred
<1>4. pieces[1] = value /\ DOMAIN pieces = {1}
  BY <1>1 DEF Referred
<1>5. AreWords(pieces)
  BY <1>2, ReferredIsWords
<1> HIDE DEF pieces, value
<1>6. IsList(text) /\ Range(value) \subseteq Range(text)
  BY <1>4, <1>5, FlattenLists, FlattenHolds DEF AreWords, IsList
<1> HIDE DEF text
<1>7. Holds(Fields(text), Tokens(text))
  BY <1>6, FieldsHold
<1>8. Holds(Fields(text), Tokens(value))
  BY <1>6, <1>7 DEF Holds, Tokens
<1> QED
  BY <1>3, <1>8 DEF value

\* The arguments are what the words of the task are expanded to.
IsExpanded(task, args) ==
  \A w \in DOMAIN task.words : Reaches(task.words[w], task.env, args)

LEMMA WordsAreExpanded ==
  ASSUME ShellAssumption, NEW task, IsTask(task)
  PROVE  IsExpanded(task, FlattenSeq([w \in DOMAIN task.words |->
                                        WordExp(task.words[w], task.env)]))
<1> DEFINE each == [w \in DOMAIN task.words |-> WordExp(task.words[w], task.env)]
           args == FlattenSeq(each)
<1>1. \A w \in DOMAIN task.words : AreWords(each[w])
  BY WordExpIsWords DEF IsTask
<1>2. \A w \in DOMAIN task.words : Reaches(task.words[w], task.env, each[w])
  BY ReferenceReaches DEF IsTask
<1>3. IsList(each) /\ DOMAIN each = DOMAIN task.words
  BY MapList DEF IsTask
<1> HIDE DEF each
<1>4. \A w \in DOMAIN each : Range(each[w]) \subseteq Range(args)
  BY <1>1, <1>3, FlattenHolds DEF AreWords, IsList
<1> HIDE DEF args
<1>5. \A w \in DOMAIN each : \A tokens : Holds(each[w], tokens) => Holds(args, tokens)
  BY <1>4 DEF Holds, Range
<1>6. \A w \in DOMAIN task.words : Reaches(task.words[w], task.env, args)
  BY <1>2, <1>3, <1>5 DEF Reaches
<1> QED
  BY <1>6 DEF IsExpanded, args, each

-----------------------------------------------------------------------------
(* The invariant *)

\* The variables of a task have their values in an environment.
Covers(env, extra) ==
  \A name \in DOMAIN extra : name \in DOMAIN env /\ env[name] = extra[name]

\* The shell is executing a task: the environment of its program is the one of
\* the task where that has a variable, of which PWD is one.
Executing(s) ==
  /\ s.phase \in {"expanding", "expanded", "restored"} =>
       /\ PWD \in DOMAIN s.env /\ s.env[PWD] = Absolute(s.task.dir)
       /\ Covers(s.env, s.task.env)
  /\ s.phase \in {"expanded", "restored"} => IsExpanded(s.task, s.args)

IsShell(s) ==
  /\ DOMAIN s = {"phase", "cached", "env", "task", "args"}
  /\ s.phase \in Phases
  /\ IsTask(s.task) /\ IsEnvironment(s.cached) /\ IsEnvironment(s.env)
  /\ Executing(s)

\* The program is the one of the directory, when there is one.
IsOfDirectory(program, args, dir) ==
  Head(Head(args)) \notin Roots /\ dir \o Head(args) \in Programs =>
    program = dir \o Head(args)

IsChild(child) ==
  /\ child.program \in Programs
  /\ PWD \in DOMAIN child.env /\ child.env[PWD] = child.dir
  /\ IsOfDirectory(child.program, child.args, child.dir)
  /\ Covers(child.env, child.task.env) /\ IsExpanded(child.task, child.args)

IsHistory(list) == IsList(list) /\ \A i \in DOMAIN list : IsChild(list[i])

Inv ==
  /\ IsChain(chain) /\ IsWork(chain, work)
  /\ IsEnvironment(environ) /\ IsShell(shell)
  /\ shell.phase = "expanding" => environ = shell.task.env
  /\ IsHistory(children)

LEMMA IdleIsShell ==
  ASSUME TaskAssumption
  PROVE  IsShell(Idle)
<1>1. IsTask(Idle.task)
  BY FirstTasks
<1>2. IsEnvironment(NoVariables)
  BY DEF IsEnvironment, NoVariables
<1>3. /\ DOMAIN Idle = {"phase", "cached", "env", "task", "args"}
      /\ Idle.phase = "idle" /\ Idle.cached = NoVariables /\ Idle.env = NoVariables
  BY DEF Idle
<1> QED
  BY <1>1, <1>2, <1>3 DEF IsShell, Executing, Phases

LEMMA InitInv ==
  ASSUME TaskAssumption, ShellAssumption
  PROVE  Init => Inv
<1> SUFFICES ASSUME Init PROVE Inv
  OBVIOUS
<1>1. IsChain(chain)
  BY DEF Init, ShellAssumption
<1>2. IsWork(chain, work)
  <2>1. 1 \in 0..Len(chain)
    BY <1>1 DEF IsChain, IsList
  <2>2. IsItem(chain, Nested(1, FirstTask))
    BY <2>1, FirstTasks DEF IsItem, Nested
  <2> QED
    BY <2>2, MadeLists DEF Init, IsWork
<1>3. IsEnvironment(environ)
  BY DEF Init, TaskAssumption
<1>4. IsHistory(children)
  BY MadeLists DEF Init, IsHistory
<1> QED
  BY <1>1, <1>2, <1>3, <1>4, IdleIsShell DEF Init, Inv, Idle

-----------------------------------------------------------------------------
(* The steps *)

LEMMA ApplyPluginInv ==
  ASSUME TaskAssumption, Inv, ApplyPlugin
  PROVE  Inv'
<1> DEFINE item == Head(work)
<1>1. IsItem(chain, item) /\ IsWork(chain, Tail(work))
  BY LessWork DEF Inv, ApplyPlugin
<1>2. item.level \in 1..Len(chain) /\ IsTask(item.task)
  <2>1. item.level \in 0..Len(chain) /\ item.level # 0
    BY <1>1 DEF IsItem, ApplyPlugin
  <2>2. Len(chain) \in Nat
    BY DEF Inv, IsChain, IsList
  <2> HIDE DEF item
  <2> QED
    BY <1>1, <2>1, <2>2 DEF IsItem
<1>3. IsWork(chain, Apply(chain, item.level, item.task))
  BY <1>2, ApplyIsWork DEF Inv
<1>4. IsWork(chain, work')
  BY <1>1, <1>3, MoreWork DEF ApplyPlugin
<1> QED
  BY <1>4 DEF Inv, ApplyPlugin

LEMMA ExecuteNothingInv ==
  ASSUME Inv, ExecuteNothing
  PROVE  Inv'
BY LessWork DEF Inv, ExecuteNothing

LEMMA StartExpansionInv ==
  ASSUME Inv, StartExpansion
  PROVE  Inv'
<1> DEFINE item == Head(work)
<1>1. IsItem(chain, item) /\ IsWork(chain, Tail(work))
  BY LessWork DEF Inv, StartExpansion
<1>2. IsTask(item.task) /\ HasPwd(item.task)
  BY <1>1 DEF IsItem, StartExpansion
<1> DEFINE env == Overlay(environ, item.task.env)
<1>3. IsEnvironment(item.task.env) /\ IsEnvironment(environ) /\ IsEnvironment(env)
  BY <1>2, OverlayIsEnvironment DEF Inv, IsTask
<1>4. /\ PWD \in DOMAIN env /\ env[PWD] = Absolute(item.task.dir)
      /\ Covers(env, item.task.env)
  BY <1>2 DEF HasPwd, Overlay, Covers
<1>5. shell' = [phase |-> "expanding", cached |-> environ, args |-> <<>>,
                task |-> item.task, env |-> env]
  BY DEF StartExpansion
<1> HIDE DEF env, item
<1>6. /\ DOMAIN shell' = {"phase", "cached", "env", "task", "args"}
      /\ shell'.phase = "expanding" /\ shell'.cached = environ
      /\ shell'.task = item.task /\ shell'.env = env
  BY <1>5
<1>7. IsShell(shell')
  BY <1>2, <1>3, <1>4, <1>6 DEF IsShell, Executing, Phases
<1>8. IsEnvironment(environ')
  BY <1>3 DEF StartExpansion, item
<1>9. IsWork(chain, work')
  BY <1>1 DEF StartExpansion
<1>10. environ' = item.task.env
  BY DEF StartExpansion, item
<1> QED
  BY <1>6, <1>7, <1>8, <1>9, <1>10 DEF Inv, StartExpansion

\* The shell goes on with its task, or is done with it.
LEMMA NextPhase ==
  ASSUME NEW s, NEW next, IsShell(s), DOMAIN next = DOMAIN s,
         next.task = s.task, next.env = s.env, next.cached = s.cached,
         next.phase \in Phases,
         \/ s.phase \in {"expanding", "expanded", "restored"}
         \/ next.phase \notin {"expanding", "expanded", "restored"},
         next.phase \in {"expanded", "restored"} => IsExpanded(next.task, next.args)
  PROVE  IsShell(next)
BY DEF IsShell, Executing

LEMMA ExpandWordsInv ==
  ASSUME ShellAssumption, Inv, ExpandWords
  PROVE  Inv'
<1>1. /\ DOMAIN shell' = DOMAIN shell /\ shell'.phase = "expanded"
      /\ shell'.task = shell.task /\ shell'.env = shell.env
      /\ shell'.cached = shell.cached
  BY DEF ExpandWords, Inv, IsShell
<1> DEFINE args == FlattenSeq([w \in DOMAIN shell.task.words |->
                                WordExp(shell.task.words[w], shell.task.env)])
<1>2. IsExpanded(shell.task, args)
  BY WordsAreExpanded DEF Inv, IsShell
<1>3. shell'.args = args
  <2>1. environ = shell.task.env
    BY DEF Inv, ExpandWords
  <2>2. shell' = [shell EXCEPT !.phase = "expanded", !.args = args]
    BY <2>1 DEF ExpandWords
  <2> HIDE DEF args
  <2> QED
    BY <2>2 DEF Inv, IsShell
<1> HIDE DEF args
<1>4. IsShell(shell')
  BY <1>1, <1>2, <1>3, NextPhase DEF Inv, ExpandWords, Phases
<1> QED
  BY <1>1, <1>4 DEF Inv, ExpandWords

LEMMA RestoreEnvironmentInv ==
  ASSUME Inv, RestoreEnvironment
  PROVE  Inv'
<1>1. /\ DOMAIN shell' = DOMAIN shell /\ shell'.phase = "restored"
      /\ shell'.task = shell.task /\ shell'.env = shell.env
      /\ shell'.cached = shell.cached
  BY DEF RestoreEnvironment, Inv, IsShell
<1>4. IsExpanded(shell'.task, shell'.args)
  BY DEF Inv, IsShell, Executing, RestoreEnvironment
<1>2. IsShell(shell')
  BY <1>1, <1>4, NextPhase DEF Inv, RestoreEnvironment, Phases
<1>3. IsEnvironment(environ')
  BY DEF Inv, IsShell, RestoreEnvironment
<1> QED
  BY <1>1, <1>2, <1>3 DEF Inv, RestoreEnvironment

LEMMA NoArgumentsInv ==
  ASSUME Inv, NoArguments
  PROVE  Inv'
<1>1. /\ DOMAIN shell' = DOMAIN shell /\ shell'.phase = "undefined"
      /\ shell'.task = shell.task /\ shell'.env = shell.env
      /\ shell'.cached = shell.cached
  BY DEF NoArguments, Inv, IsShell
<1>2. IsShell(shell')
  BY <1>1, NextPhase DEF Inv, NoArguments, Phases
<1> QED
  BY <1>1, <1>2 DEF Inv, NoArguments

LEMMA ThrowErrorInv ==
  ASSUME Inv, ThrowError
  PROVE  Inv'
<1> DEFINE phase == IF Binary = CurrentPath THEN "process error" ELSE "path not found"
<1>0. phase \in {"process error", "path not found"}
  OBVIOUS
<1>3. shell' = [shell EXCEPT !.phase = phase]
  BY DEF ThrowError
<1> HIDE DEF phase
<1>1. /\ DOMAIN shell' = DOMAIN shell
      /\ shell'.phase \in {"process error", "path not found"}
      /\ shell'.task = shell.task /\ shell'.env = shell.env
      /\ shell'.cached = shell.cached
  BY <1>0, <1>3 DEF Inv, IsShell
<1>2. IsShell(shell')
  BY <1>1, NextPhase DEF Inv, ThrowError, Phases
<1> QED
  BY <1>1, <1>2 DEF Inv, ThrowError

\* search_path finds the first directory that has the program.
LEMMA FirstDirectory ==
  ASSUME NEW path, IsList(path), path # <<>>, NEW name,
         path[1] \o name \in Programs
  PROVE  SearchPath(name, path) = path[1] \o name
<1> DEFINE I == {i \in 1..Len(path) : path[i] \o name \in Programs}
           found == IF I # {} THEN Min(I) ELSE 0
<1>1. SearchPath(name, path) = IF found = 0 THEN CurrentPath ELSE path[found] \o name
  BY DEF SearchPath, SelectInSeq
<1>2. 1 \in I /\ \A i \in I : i \in Nat /\ 1 <= i
  BY DEF IsList
<1> HIDE DEF I
<1>3. Min(I) = 1
  <2>1. \E x \in I : \A y \in I : x <= y
    BY <1>2
  <2>2. Min(I) \in I /\ \A y \in I : Min(I) <= y
    BY <2>1 DEF Min
  <2> QED
    BY <1>2, <2>2
<1>4. found = 1
  BY <1>2, <1>3
<1> HIDE DEF found
<1> QED
  BY <1>1, <1>4

LEMMA DirectoryFirst ==
  ASSUME NEW env, IsEnvironment(env), NEW dir
  PROVE  /\ IsList(GetPath(env, dir)) /\ GetPath(env, dir) # <<>>
         /\ GetPath(env, dir)[1] = Absolute(dir)
<1> DEFINE rest == IF PATH \in DOMAIN env
                   THEN [i \in DOMAIN env[PATH] |-> <<env[PATH][i]>>] ELSE <<>>
<1>1. IsList(rest)
  <2>1. CASE PATH \in DOMAIN env
    BY <2>1, MapList DEF IsEnvironment
  <2>2. CASE PATH \notin DOMAIN env
    BY <2>2, MadeLists
  <2> QED
    BY <2>1, <2>2
<1>2. GetPath(env, dir) = <<Absolute(dir)>> \o rest
  BY DEF GetPath
<1> HIDE DEF rest
<1>3. \A x : /\ IsList(<<x>> \o rest) /\ <<x>> \o rest # <<>>
             /\ (<<x>> \o rest)[1] = x
  <2> TAKE x
  <2>1. IsList(<<x>> \o rest)
    BY <1>1, MadeLists, JoinLists
  <2> DEFINE S == Range(rest) \cup {x}
  <2>2. rest \in Seq(S) /\ x \in S
    BY <1>1 DEF IsList, Range
  <2> HIDE DEF S
  <2>3. <<x>> \o rest # <<>> /\ (<<x>> \o rest)[1] = x
    BY <2>2
  <2> QED
    BY <2>1, <2>3
<1> QED
  BY <1>2, <1>3

LEMMA RunProgramInv ==
  ASSUME TaskAssumption, Inv, RunProgram
  PROVE  Inv'
<1> DEFINE dir == Absolute(shell.task.dir)
           child == [task |-> shell.task, program |-> Binary, args |-> shell.args,
                     dir |-> dir, env |-> shell.env]
           path == GetPath(shell.env, shell.task.dir)
           name == Head(shell.args)
<1>1. /\ PWD \in DOMAIN shell.env /\ shell.env[PWD] = dir
      /\ Covers(shell.env, shell.task.env) /\ IsExpanded(shell.task, shell.args)
  BY DEF Inv, RunProgram, IsShell, Executing
<1>2. IsOfDirectory(Binary, shell.args, dir)
  <2> SUFFICES ASSUME Head(name) \notin Roots, dir \o name \in Programs
               PROVE  Binary = dir \o name
    BY DEF IsOfDirectory
  <2>1. Binary = SearchPath(name, path)
    BY DEF Binary
  <2>2. IsList(path) /\ path # <<>> /\ path[1] = dir
    BY DirectoryFirst DEF Inv, IsShell
  <2> HIDE DEF path, dir, name
  <2> QED
    BY <2>1, <2>2, FirstDirectory
<1>3. Binary \in Programs /\ children' = Append(children, child)
  BY DEF RunProgram
<1> HIDE DEF dir
<1>4. IsChild(child)
  BY <1>1, <1>2, <1>3 DEF IsChild
<1> HIDE DEF child
<1>5. IsHistory(children')
  BY <1>3, <1>4, AppendList DEF Inv, IsHistory
<1>6. IsShell(shell')
  BY IdleIsShell DEF RunProgram
<1> QED
  BY <1>5, <1>6 DEF Inv, RunProgram, Idle

LEMMA NextInv ==
  ASSUME TaskAssumption, ShellAssumption, Inv, [Next]_vars
  PROVE  Inv'
<1>1. CASE UNCHANGED vars
  BY <1>1 DEF Inv, vars
<1>2. CASE ApplyPlugin
  BY <1>2, ApplyPluginInv
<1>3. CASE ExecuteNothing
  BY <1>3, ExecuteNothingInv
<1>4. CASE StartExpansion
  BY <1>4, StartExpansionInv
<1>5. CASE ExpandWords
  BY <1>5, ExpandWordsInv
<1>6. CASE RestoreEnvironment
  BY <1>6, RestoreEnvironmentInv
<1>7. CASE NoArguments
  BY <1>7, NoArgumentsInv
<1>8. CASE RunProgram
  BY <1>8, RunProgramInv
<1>9. CASE ThrowError
  BY <1>9, ThrowErrorInv
<1>10. CASE Done
  BY <1>1, <1>10 DEF Done
<1> QED
  BY <1>1, <1>2, <1>3, <1>4, <1>5, <1>6, <1>7, <1>8, <1>9, <1>10 DEF Next

-----------------------------------------------------------------------------
(* What is substituted on the way of a task *)

\* A list of patterns of some of the sections, each with one of its values
IsSubstitution(sections, s) ==
  /\ IsList(s)
  /\ \A i \in DOMAIN s :
       /\ \E l \in DOMAIN sections : s[i].key \in KeysOf(sections[l])
       /\ \E l \in DOMAIN sections : s[i].value \in ValuesOf(sections[l])

LEMMA LevelsSubstitute ==
  ASSUME NEW sections, IsChain(sections), NEW l \in DOMAIN sections
  PROVE  \A c \in OfLevel(sections, l) : IsSubstitution(sections, c)
<1>1. IsSection(sections[l])
  BY DEF IsChain
<1>2. \A c \in Range(CombinationsOf(sections[l].patterns)) :
        IsCombinationOf(sections[l], c)
  BY <1>1, CombinationsOfPatterns DEF Range
<1>3. \A c : IsCombinationOf(sections[l], c) => IsSubstitution(sections, c)
  BY DEF IsCombinationOf, IsSubstitution
<1>4. IsSubstitution(sections, <<>>)
  BY MadeLists DEF IsSubstitution
<1> QED
  BY <1>2, <1>3, <1>4 DEF OfLevel

LEMMA SubstitutionsJoined ==
  ASSUME NEW sections, NEW a, NEW b,
         IsSubstitution(sections, a), IsSubstitution(sections, b)
  PROVE  IsSubstitution(sections, a \o b)
<1>0. IsList(a) /\ IsList(b)
  BY DEF IsSubstitution
<1>1. /\ IsList(a \o b)
      /\ \A i \in DOMAIN (a \o b) :
           \/ i \in DOMAIN a /\ (a \o b)[i] = a[i]
           \/ \E j \in DOMAIN b : (a \o b)[i] = b[j]
  BY <1>0, JoinLists
<1> DEFINE both == a \o b
<1>2. /\ IsList(both)
      /\ \A i \in DOMAIN both :
           \/ i \in DOMAIN a /\ both[i] = a[i]
           \/ \E j \in DOMAIN b : both[i] = b[j]
  BY <1>1
<1> HIDE DEF both
<1>3. IsSubstitution(sections, both)
  BY <1>2 DEF IsSubstitution
<1> QED
  BY <1>3 DEF both

\* Level by level
StepOf(sections, level, l, before) ==
  IF l < level THEN {<<>>}
  ELSE Joined(before, OfLevel(sections, l))

LEMMA JoinedPairs ==
  ASSUME NEW first, NEW second
  PROVE  \A a \in first : \A b \in second : a \o b \in Joined(first, second)
BY DEF Joined

LEMMA JoinedWithin ==
  ASSUME NEW first, NEW second, NEW S,
         \A a \in first : \A b \in second : a \o b \in S
  PROVE  Joined(first, second) \subseteq S
<1> DEFINE F(a, b) == a \o b
<1>1. \A a \in first : \A b \in second : F(a, b) \in S
  OBVIOUS
<1>2. Joined(first, second) = {F(a, b) : a \in first, b \in second}
  BY DEF Joined
<1> HIDE DEF F
<1> QED
  BY <1>1, <1>2

LEMMA SubstitutedIsRecursive ==
  ASSUME NEW sections, IsChain(sections), NEW level \in DOMAIN sections
  PROVE  /\ Substituted(sections, level, 0) = {<<>>}
         /\ \A l \in DOMAIN sections :
              Substituted(sections, level, l)
                = StepOf(sections, level, l, Substituted(sections, level, l - 1))
         /\ \A l \in 0..Len(sections) : \A s \in Substituted(sections, level, l) :
              IsSubstitution(sections, s)
<1> DEFINE N == Len(sections)
           P == UNION {Range(c) : c \in UNION {OfLevel(sections, l) : l \in DOMAIN sections}}
           S == {s \in Seq(P) : IsSubstitution(sections, s)}
           Sets == SUBSET S
           Unfolds(f) == f = [l \in 0..N |->
             IF l < level THEN {<<>>} ELSE Joined(f[l - 1], OfLevel(sections, l))]
           upTo == CHOOSE f : Unfolds(f)
           next(l, before) == StepOf(sections, level, l, before)
           step == [l \in 1..N |-> [before \in Sets |-> next(l, before)]]
           base == {<<>>}
<1>1. N \in Nat /\ DOMAIN sections = 1..N /\ level \in 1..N
  BY DEF IsChain, IsList
<1>2. ASSUME NEW l PROVE Substituted(sections, level, l) = upTo[l]
  BY Zenon DEF Substituted
<1>3. \A l \in 1..N : \A c \in OfLevel(sections, l) : c \in S
  <2> TAKE l \in 1..N
  <2> TAKE c \in OfLevel(sections, l)
  <2>1. IsSubstitution(sections, c)
    BY <1>1, LevelsSubstitute
  <2>2. Range(c) \subseteq P
    BY <1>1
  <2> HIDE DEF P
  <2>3. c \in Seq(P)
    BY <2>1, <2>2, ListOfMore DEF IsSubstitution, IsList
  <2> QED
    BY <2>1, <2>3
<1>4. \A s, c \in S : s \o c \in S
  <2> TAKE s, c \in S
  <2> HIDE DEF P
  <2>1. s \o c \in Seq(P)
    OBVIOUS
  <2>2. IsSubstitution(sections, s \o c)
    BY SubstitutionsJoined
  <2> QED
    BY <2>1, <2>2
<1>5. <<>> \in S
  <2>1. <<>> \in OfLevel(sections, level)
    BY DEF OfLevel
  <2> QED
    BY <1>1, <1>3, <2>1
<1>6. \A s \in S : IsSubstitution(sections, s)
  OBVIOUS
<1> HIDE DEF S
<1>7. base \in Sets /\ \A l \in 1..N : \A before \in Sets : next(l, before) \in Sets
  <2>1. base \in Sets
    BY <1>5
  <2>2. ASSUME NEW l \in 1..N, NEW before \in Sets
        PROVE  Joined(before, OfLevel(sections, l)) \in Sets
    <3>1. \A s \in before : \A c \in OfLevel(sections, l) : s \o c \in S
      <4>1. \A s \in before : s \in S
        OBVIOUS
      <4> HIDE DEF Sets
      <4> QED
        BY <1>3, <1>4, <4>1
    <3>2. Joined(before, OfLevel(sections, l)) \subseteq S
      BY <3>1, JoinedWithin
    <3> QED
      BY <3>2
  <2>3. ASSUME NEW l \in 1..N, NEW before \in Sets
        PROVE  next(l, before) \in Sets
    BY <2>1, <2>2 DEF StepOf
  <2> QED
    BY <2>1, <2>3
<1> HIDE DEF N, Sets, base, next
<1>8. step \in [1..N -> [Sets -> Sets]]
  BY <1>7
<1>9. \A l \in 1..N : \A before \in Sets : step[l][before] = next(l, before)
  OBVIOUS
<1> HIDE DEF step
<1>10. PICK g : Recursive(g, N, Sets, base, step)
  BY <1>1, <1>7, <1>8, RecursionExists
<1>11. \A n \in 1..N : n - 1 \in 0..N /\ n # 0 /\ n \in 0..N
  BY <1>1
<1>12. \A n \in 0..N : n = 0 \/ n \in 1..N
  BY <1>1
<1>13. Unfolds(g)
  <2>1. g = [n \in 0..N |-> g[n]] /\ g[0] = base
    BY <1>10 DEF Recursive
  <2>2. \A l \in 1..N : g[l] = next(l, g[l - 1])
    BY <1>9, <1>10, <1>11 DEF Recursive
  <2>3. \A l \in 1..N :
          g[l] = IF l < level THEN {<<>>} ELSE Joined(g[l - 1], OfLevel(sections, l))
    BY <2>2 DEF StepOf, next
  <2>4. 0 < level
    BY <1>1
  <2> QED
    BY <1>12, <2>1, <2>3, <2>4 DEF base
<1>14. Unfolds(upTo)
  <2> HIDE DEF Unfolds
  <2> QED
    BY <1>13, Zenon
<1> HIDE DEF upTo
<1>15. upTo[0] = base
  <2>1. 0 \in 0..N /\ 0 < level
    BY <1>1
  <2> QED
    BY <1>14, <2>1 DEF base
<1>16. \A l \in 1..N : upTo[l] = next(l, upTo[l - 1])
  <2> TAKE l \in 1..N
  <2>1. l \in 0..N
    BY <1>11
  <2>2. upTo[l] = IF l < level THEN {<<>>} ELSE Joined(upTo[l - 1], OfLevel(sections, l))
    BY <1>14, <2>1
  <2> QED
    BY <2>2 DEF StepOf, next
<1> DEFINE T == {l \in 0..N : upTo[l] \in Sets}
<1>17. 0 \in T
  BY <1>1, <1>7, <1>15
<1>18. \A n \in 0..(N - 1) : n \in T => n + 1 \in T
  <2> SUFFICES ASSUME NEW n \in 0..(N - 1), upTo[n] \in Sets
               PROVE  n + 1 \in 0..N /\ upTo[n + 1] \in Sets
    OBVIOUS
  <2>1. n + 1 \in 1..N /\ n + 1 \in 0..N /\ (n + 1) - 1 = n
    BY <1>1
  <2> DEFINE m == n + 1
  <2>2. m \in 1..N /\ m \in 0..N /\ m - 1 = n
    BY <2>1
  <2> HIDE DEF m, next
  <2>3. upTo[m] = next(m, upTo[n])
    BY <1>16, <2>2
  <2>4. upTo[m] \in Sets
    BY <1>7, <2>2, <2>3
  <2> QED
    BY <2>2, <2>4 DEF m
<1> HIDE DEF T
<1>19. \A l \in 0..N : l \in T
  BY <1>1, <1>17, <1>18, InductionUpTo
<1>20. \A l \in 0..N : upTo[l] \in Sets
  BY <1>19 DEF T
<1>21. \A l \in 0..N : \A s \in upTo[l] : IsSubstitution(sections, s)
  BY <1>6, <1>20 DEF Sets
<1> QED
  BY <1>1, <1>2, <1>15, <1>16, <1>21 DEF base, N, next

\* What was substituted down to a level, when the task passes one more
LEMMA SubstitutedMore ==
  ASSUME NEW sections, IsChain(sections), NEW level \in DOMAIN sections,
         NEW l \in DOMAIN sections, level <= l,
         NEW s \in Substituted(sections, level, l - 1), NEW c \in OfLevel(sections, l)
  PROVE  s \o c \in Substituted(sections, level, l)
<1>1. Substituted(sections, level, l)
        = StepOf(sections, level, l, Substituted(sections, level, l - 1))
  BY SubstitutedIsRecursive
<1>2. ~(l < level)
  BY DEF IsChain, IsList
<1> QED
  BY <1>1, <1>2 DEF StepOf, Joined

\* A section substitutes a combination of its own, when nothing was before.
LEMMA SubstitutedFirst ==
  ASSUME NEW sections, IsChain(sections), NEW l \in DOMAIN sections,
         NEW c \in OfLevel(sections, l)
  PROVE  c \in Substituted(sections, l, l)
<1>1. l \in 1..Len(sections) /\ Len(sections) \in Nat
  BY DEF IsChain, IsList
<1>2. <<>> \in Substituted(sections, l, l - 1)
  <2>1. CASE l = 1
    BY <2>1, SubstitutedIsRecursive
  <2>2. CASE l # 1
    <3>1. l - 1 \in DOMAIN sections /\ l - 1 < l
      BY <1>1, <2>2 DEF IsChain, IsList
    <3> DEFINE k == l - 1
    <3>2. k \in DOMAIN sections /\ k < l
      BY <3>1
    <3> HIDE DEF k
    <3>3. Substituted(sections, l, k)
            = StepOf(sections, l, k, Substituted(sections, l, k - 1))
      BY <3>2, SubstitutedIsRecursive
    <3>4. <<>> \in Substituted(sections, l, k)
      BY <3>2, <3>3 DEF StepOf
    <3> QED
      BY <3>4 DEF k
  <2> QED
    BY <2>1, <2>2
<1>3. <<>> \o c \in Substituted(sections, l, l)
  <2>1. l <= l
    BY <1>1
  <2> QED
    BY <1>2, <2>1, SubstitutedMore
<1>4. <<>> \o c = c
  <2>1. IsSubstitution(sections, c)
    BY LevelsSubstitute
  <2> QED
    BY <2>1 DEF IsSubstitution, IsList
<1> QED
  BY <1>3, <1>4

\* Nothing has to be substituted further inside.
LEMMA SubstitutedGrows ==
  ASSUME NEW sections, IsChain(sections), NEW level \in DOMAIN sections,
         NEW last \in 0..Len(sections)
  PROVE  Substituted(sections, level, last)
           \subseteq Substituted(sections, level, Len(sections))
<1> DEFINE N == Len(sections)
           Sub(l) == Substituted(sections, level, l)
           T == {n \in 0..N : last <= n => Sub(last) \subseteq Sub(n)}
<1>1. N \in Nat /\ DOMAIN sections = 1..N /\ level \in 1..N
  BY DEF IsChain, IsList
<1>2. 0 \in T
  <2>1. last <= 0 => last = 0
    BY <1>1
  <2> HIDE DEF Sub
  <2> QED
    BY <1>1, <2>1
<1>3. \A n \in 0..(N - 1) : n \in T => n + 1 \in T
  <2> SUFFICES ASSUME NEW n \in 0..(N - 1), last <= n => Sub(last) \subseteq Sub(n),
                      last <= n + 1
               PROVE  Sub(last) \subseteq Sub(n + 1)
    BY <1>1
  <2> DEFINE m == n + 1
  <2>1. m \in 1..N /\ m - 1 = n /\ (last = m \/ last <= n)
    BY <1>1
  <2> HIDE DEF m, T
  <2>2. Sub(m) = StepOf(sections, level, m, Sub(n))
    BY <1>1, <2>1, SubstitutedIsRecursive
  <2>3. CASE last = m
    BY <2>3 DEF m
  <2>4. CASE last <= n
    <3>1. n \in 0..N /\ Sub(last) \subseteq Sub(n)
      BY <1>1, <2>4
    <3>2. Sub(n) \subseteq Sub(m)
      <4>1. CASE m < level
        <5>1. n = 0 \/ (n \in DOMAIN sections /\ n < level)
          <6>1. n = 0 \/ (n \in 1..N /\ n < level)
            BY <1>1, <2>1, <4>1
          <6> QED
            BY <1>1, <6>1
        <5>2. Sub(n) = {<<>>}
          BY <5>1, SubstitutedIsRecursive DEF StepOf
        <5> QED
          BY <2>2, <4>1, <5>2 DEF StepOf
      <4>2. CASE ~(m < level)
        <5> SUFFICES ASSUME NEW s \in Sub(n) PROVE s \in Sub(m)
          OBVIOUS
        <5>1. IsSubstitution(sections, s)
          BY <3>1, SubstitutedIsRecursive
        <5>2. s \o <<>> = s
          BY <5>1 DEF IsSubstitution, IsList
        <5>3. s \o <<>> \in Sub(m)
          <6>1. <<>> \in OfLevel(sections, m)
            BY DEF OfLevel
          <6>2. Sub(m) = Joined(Sub(n), OfLevel(sections, m))
            BY <2>2, <4>2 DEF StepOf
          <6> HIDE DEF Sub
          <6>3. s \o <<>> \in Joined(Sub(n), OfLevel(sections, m))
            BY <6>1, JoinedPairs
          <6> QED
            BY <6>2, <6>3
        <5> QED
          BY <5>2, <5>3
      <4> QED
        BY <4>1, <4>2
    <3> QED
      BY <3>1, <3>2 DEF m
  <2> QED
    BY <2>1, <2>3, <2>4
<1> HIDE DEF T
<1>4. \A n \in 0..N : n \in T
  BY <1>1, <1>2, <1>3, InductionUpTo
<1> QED
  BY <1>1, <1>4 DEF T

-----------------------------------------------------------------------------
(* Where a task comes from *)

\* A variable of a task is one of the process, or of a section the task went
\* through, with what was substituted since.
IsFromProcess(sections, last, name, value) ==
  \E s \in Substituted(sections, 1, last) : \E n \in DOMAIN ProcessEnvironment :
    ReplaceToken(n, s) = name /\ Replace(ProcessEnvironment[n], s) = value

IsFromSection(sections, last, task, name, value) ==
  \E level \in 1..last :
    /\ Honours(sections[level])
    /\ \E s \in Substituted(sections, level, last) :
         /\ Contributed(sections[level], s, task)
         /\ \E n \in DOMAIN GetEnvironment(sections[level]) :
              /\ ReplaceToken(n, s) = name
              /\ Replace(sections[level].env[n], s) = value

HasOwnVariables(sections, last, task) ==
  \A name \in DOMAIN task.env \ {PWD} :
    \/ IsFromProcess(sections, last, name, task.env[name])
    \/ IsFromSection(sections, last, task, name, task.env[name])

\* The sections down to a level that set a directory
Setters(sections, last) ==
  {level \in 1..last : Honours(sections[level]) /\ sections[level].dir # NotSet}

\* They have all contributed to the task, and the last one has set its directory.
HasOwnDirectory(sections, last, task) ==
  /\ Setters(sections, last) = {} => task.dir = SettingsDirectory
  /\ \A level \in Setters(sections, last) :
       \E s \in Substituted(sections, level, last) :
         /\ Contributed(sections[level], s, task)
         /\ (\A k \in Setters(sections, last) : k <= level) =>
              task.dir = Replace(sections[level].dir, s)

\* The sections down to a level that set a variable under that very name
Namers(sections, last, name) ==
  {level \in 1..last :
     Honours(sections[level]) /\ name \in DOMAIN GetEnvironment(sections[level])}

\* They have all contributed to the task, and the last one has set the variable,
\* or else the process.
HasNamed(sections, last, task, name) ==
  /\ Namers(sections, last, name) = {} /\ name \in DOMAIN ProcessEnvironment =>
       /\ name \in DOMAIN task.env
       /\ \E s \in Substituted(sections, 1, last) :
            task.env[name] = Replace(ProcessEnvironment[name], s)
  /\ \A level \in Namers(sections, last, name) :
       \E s \in Substituted(sections, level, last) :
         /\ Contributed(sections[level], s, task)
         /\ (\A k \in Namers(sections, last, name) : k <= level) =>
              /\ name \in DOMAIN task.env
              /\ task.env[name] = Replace(sections[level].env[name], s)

KeysIn(sections) == UNION {KeysOf(sections[level]) : level \in DOMAIN sections}

PatternsLast(sections) ==
  ComeLast(KeysIn(sections),
           UNION {ValuesOf(sections[level]) : level \in DOMAIN sections})

\* A name that no pattern has
IsPlain(sections, name) == name \notin KeysIn(sections) \cup {PWD}

HasNamedVariables(sections, last, task) ==
  PatternsLast(sections) =>
    \A name : IsPlain(sections, name) => HasNamed(sections, last, task, name)

TokensOf(section) ==
  UNION {Range(section.words[w]) : w \in DOMAIN section.words}

\* What the words of a task may consist of
Given(sections, last) ==
  (UNION {TokensOf(sections[level]) : level \in 1..last})
    \cup (UNION {ValuesOf(sections[level]) : level \in DOMAIN sections})

HasGivenWords(sections, last, task) ==
  \A w \in DOMAIN task.words : Range(task.words[w]) \subseteq Given(sections, last)

\* The task of the plugins down to a level
IsTraced(sections, last, task) ==
  /\ HasOwnVariables(sections, last, task)
  /\ HasNamedVariables(sections, last, task)
  /\ HasOwnDirectory(sections, last, task)
  /\ HasGivenWords(sections, last, task)

\* A plugin that has no other inside, or lcov, has registered the task.
IsComplete(sections, task) ==
  \E last \in DOMAIN sections :
    /\ last = Len(sections) \/ sections[last].plugin = "lcov"
    /\ IsTraced(sections, last, task)

IsTracedItem(sections, item) ==
  IF item.level = 0 THEN IsComplete(sections, item.task)
  ELSE IsTraced(sections, item.level - 1, item.task)

-----------------------------------------------------------------------------
(* The first task, and what the plugins make of one *)

\* But for PWD, the variables of an environment are those of another.
SameVariables(env, other) ==
  \A name \in DOMAIN env \ {PWD} : name \in DOMAIN other /\ env[name] = other[name]

LEMMA MovedTask ==
  ASSUME NEW task, DOMAIN task = {"words", "env", "dir"}, NEW dir
  PROVE  /\ DOMAIN SetWorkingDirectory(task, dir) = {"words", "env", "dir"}
         /\ SetWorkingDirectory(task, dir).words = task.words
         /\ SetWorkingDirectory(task, dir).dir = dir
         /\ SameVariables(SetWorkingDirectory(task, dir).env, task.env)
         /\ SameVariables(task.env, SetWorkingDirectory(task, dir).env)
<1> DEFINE moved == [task EXCEPT !.dir = dir]
           pwd == [name \in {PWD} |-> Absolute(dir)]
           result == SetWorkingDirectory(task, dir)
<1>1. /\ DOMAIN moved = {"words", "env", "dir"} /\ moved.dir = dir
      /\ moved.env = task.env /\ moved.words = task.words
  OBVIOUS
<1>2. result = [moved EXCEPT !.env = Overlay(task.env, pwd)]
  BY <1>1 DEF SetWorkingDirectory, AppendToEnvironment
<1>3. /\ SameVariables(Overlay(task.env, pwd), task.env)
      /\ SameVariables(task.env, Overlay(task.env, pwd))
  BY DEF SameVariables, Overlay
<1> HIDE DEF moved, pwd, result
<1>4. /\ DOMAIN result = {"words", "env", "dir"} /\ result.dir = dir
      /\ result.env = Overlay(task.env, pwd) /\ result.words = task.words
  BY <1>1, <1>2
<1> QED
  BY <1>3, <1>4 DEF result

LEMMA AppendedTask ==
  ASSUME NEW task, DOMAIN task = {"words", "env", "dir"}, NEW env
  PROVE  /\ DOMAIN AppendToEnvironment(task, env) = {"words", "env", "dir"}
         /\ AppendToEnvironment(task, env).words = task.words
         /\ AppendToEnvironment(task, env).dir = task.dir
         /\ AppendToEnvironment(task, env).env = Overlay(task.env, env)
BY DEF AppendToEnvironment

LEMMA ConfiguredTask ==
  ASSUME NEW section, IsSection(section), NEW task, DOMAIN task = {"words", "env", "dir"}
  PROVE  /\ DOMAIN Configure(task, section) = {"words", "env", "dir"}
         /\ Configure(task, section).words = task.words
         /\ Configure(task, section).dir = IF Honours(section) /\ section.dir # NotSet
                                           THEN section.dir ELSE task.dir
         /\ \A name \in DOMAIN Configure(task, section).env \ {PWD} :
              \/ /\ name \in DOMAIN task.env
                 /\ Configure(task, section).env[name] = task.env[name]
              \/ /\ Honours(section) /\ name \in DOMAIN GetEnvironment(section)
                 /\ Configure(task, section).env[name] = section.env[name]
<1> DEFINE extra == GetEnvironment(section)
           IsFields(t) == DOMAIN t = {"words", "env", "dir"}
           Moved(t) == ApplyWorkingDirectory(t, section)
           Set(t) == ApplyEnvironment(t, section)
           OfBoth(env) == \A name \in DOMAIN env \ {PWD} :
              \/ name \in DOMAIN task.env /\ env[name] = task.env[name]
              \/ name \in DOMAIN extra /\ env[name] = section.env[name]
<1>1. \A name \in DOMAIN extra : extra[name] = section.env[name]
  BY DEF GetEnvironment
<1>2. ASSUME NEW t, IsFields(t)
      PROVE  /\ IsFields(Moved(t)) /\ Moved(t).words = t.words
             /\ Moved(t).dir = IF section.dir # NotSet THEN section.dir ELSE t.dir
             /\ SameVariables(Moved(t).env, t.env)
  <2>1. CASE section.dir = NotSet
    BY <1>2, <2>1 DEF ApplyWorkingDirectory, SameVariables
  <2>2. CASE section.dir # NotSet
    BY <1>2, <2>2, MovedTask DEF ApplyWorkingDirectory
  <2> QED
    BY <2>1, <2>2
<1>3. ASSUME NEW t, IsFields(t)
      PROVE  /\ IsFields(Set(t)) /\ Set(t).words = t.words /\ Set(t).dir = t.dir
             /\ Set(t).env = Overlay(t.env, extra)
  BY <1>3, AppendedTask DEF ApplyEnvironment
<1> HIDE DEF extra, Moved, Set
<1>4. ASSUME NEW env, SameVariables(env, task.env)
      PROVE  OfBoth(Overlay(env, extra))
  BY <1>1, <1>4 DEF Overlay, SameVariables
<1>5. ASSUME NEW env, NEW other, OfBoth(other), SameVariables(env, other)
      PROVE  OfBoth(env)
  BY <1>5 DEF SameVariables
<1>6. SameVariables(task.env, task.env)
  BY DEF SameVariables
<1> DEFINE Result(t) ==
      /\ IsFields(t) /\ t.words = task.words /\ OfBoth(t.env)
      /\ t.dir = IF section.dir # NotSet THEN section.dir ELSE task.dir
<1>7. Result(Set(Moved(task)))
  <2>1. /\ IsFields(Moved(task)) /\ Moved(task).words = task.words
        /\ Moved(task).dir = IF section.dir # NotSet THEN section.dir ELSE task.dir
        /\ SameVariables(Moved(task).env, task.env)
    BY <1>2
  <2>2. OfBoth(Overlay(Moved(task).env, extra))
    BY <1>4, <2>1
  <2> HIDE DEF OfBoth
  <2> QED
    BY <1>3, <2>1, <2>2
<1>8. Result(Moved(Set(task)))
  <2>1. /\ IsFields(Set(task)) /\ Set(task).words = task.words
        /\ Set(task).dir = task.dir /\ Set(task).env = Overlay(task.env, extra)
    BY <1>3
  <2>2. /\ IsFields(Moved(Set(task))) /\ Moved(Set(task)).words = Set(task).words
        /\ Moved(Set(task)).dir = IF section.dir # NotSet THEN section.dir ELSE task.dir
        /\ SameVariables(Moved(Set(task)).env, Set(task).env)
    BY <1>2, <2>1
  <2>3. OfBoth(Set(task).env)
    BY <1>4, <1>6, <2>1
  <2>4. OfBoth(Moved(Set(task)).env)
    BY <1>5, <2>2, <2>3
  <2> HIDE DEF OfBoth
  <2> QED
    BY <2>1, <2>2, <2>4
<1>9. CASE Honours(section)
  <2>1. /\ section.plugin \in {"script", "command-line-command"}
        /\ Configure(task, section) \in {Set(Moved(task)), Moved(Set(task))}
    BY <1>9 DEF Honours, Configure, Set, Moved
  <2>2. Result(Configure(task, section))
    BY <1>7, <1>8, <2>1
  <2> QED
    BY <1>9, <2>2 DEF extra
<1>10. CASE ~Honours(section)
  <2>1. Configure(task, section) = task
    BY <1>10 DEF Honours, Configure, IsSection
  <2> QED
    BY <1>10, <2>1
<1> QED
  BY <1>9, <1>10

\* A plugin sets the variables of its section and leaves the others alone.
LEMMA ConfiguredNames ==
  ASSUME NEW section, IsSection(section), NEW task, DOMAIN task = {"words", "env", "dir"},
         NEW name, name # PWD
  PROVE  LET env == Configure(task, section).env
         IN /\ Honours(section) /\ name \in DOMAIN GetEnvironment(section) =>
                 name \in DOMAIN env /\ env[name] = section.env[name]
            /\ name \in DOMAIN task.env
               /\ ~(Honours(section) /\ name \in DOMAIN GetEnvironment(section)) =>
                 name \in DOMAIN env /\ env[name] = task.env[name]
<1> DEFINE extra == GetEnvironment(section)
           IsFields(t) == DOMAIN t = {"words", "env", "dir"}
           Moved(t) == ApplyWorkingDirectory(t, section)
           Set(t) == ApplyEnvironment(t, section)
           IsSet(env) ==
             /\ name \in DOMAIN extra => name \in DOMAIN env /\ env[name] = section.env[name]
             /\ name \in DOMAIN task.env /\ name \notin DOMAIN extra =>
                  name \in DOMAIN env /\ env[name] = task.env[name]
<1>1. name \in DOMAIN extra => extra[name] = section.env[name]
  BY DEF GetEnvironment
<1>2. ASSUME NEW t, IsFields(t)
      PROVE  IsFields(Moved(t)) /\ SameVariables(t.env, Moved(t).env)
  <2>1. CASE section.dir = NotSet
    BY <1>2, <2>1 DEF ApplyWorkingDirectory, SameVariables
  <2>2. CASE section.dir # NotSet
    BY <1>2, <2>2, MovedTask DEF ApplyWorkingDirectory
  <2> QED
    BY <2>1, <2>2
<1>3. ASSUME NEW t, IsFields(t)
      PROVE  IsFields(Set(t)) /\ Set(t).env = Overlay(t.env, extra)
  BY <1>3, AppendedTask DEF ApplyEnvironment
<1> HIDE DEF extra, Moved, Set
<1>4. ASSUME NEW env, SameVariables(task.env, env)
      PROVE  IsSet(Overlay(env, extra))
  BY <1>1, <1>4 DEF Overlay, SameVariables
<1>5. ASSUME NEW env, NEW other, IsSet(other), SameVariables(other, env)
      PROVE  IsSet(env)
  BY <1>5 DEF SameVariables
<1>6. SameVariables(task.env, task.env)
  BY DEF SameVariables
<1>7. IsSet(Set(Moved(task)).env)
  <2>1. IsSet(Overlay(Moved(task).env, extra))
    BY <1>2, <1>4
  <2> HIDE DEF IsSet
  <2> QED
    BY <1>2, <1>3, <2>1
<1>8. IsSet(Moved(Set(task)).env)
  <2>1. IsSet(Set(task).env)
    BY <1>3, <1>4, <1>6
  <2>2. SameVariables(Set(task).env, Moved(Set(task)).env)
    BY <1>2, <1>3
  <2> QED
    BY <1>5, <2>1, <2>2
<1>9. CASE Honours(section)
  <2>1. Configure(task, section) \in {Set(Moved(task)), Moved(Set(task))}
    BY <1>9 DEF Honours, Configure, Set, Moved
  <2>2. IsSet(Configure(task, section).env)
    <3> HIDE DEF IsSet
    <3> QED
      BY <1>7, <1>8, <2>1
  <2> QED
    BY <1>9, <2>2 DEF extra
<1>10. CASE ~Honours(section)
  <2>1. Configure(task, section) = task
    BY <1>10 DEF Honours, Configure, IsSection
  <2> QED
    BY <1>10, <2>1
<1> QED
  BY <1>9, <1>10

LEMMA ReplacedTask ==
  ASSUME TaskAssumption, NEW task, IsTask(task), NEW combination
  PROVE  LET replaced == ReplacePatternCombinations(task, combination)
         IN /\ replaced.words
                 = [w \in DOMAIN task.words |-> Replace(task.words[w], combination)]
            /\ replaced.dir = Replace(task.dir, combination)
            /\ SameVariables(replaced.env,
                             ReplacePatternsInEnvironment(task.env, combination))
            /\ SameVariables(ReplacePatternsInEnvironment(task.env, combination),
                             replaced.env)
<1> DEFINE env == ReplacePatternsInEnvironment(task.env, combination)
           dir == Replace(task.dir, combination)
           fresh == [NewTask EXCEPT !.env = env]
           named == SetEnvironment(NewTask, env)
           moved == SetWorkingDirectory(named, dir)
           words == [w \in DOMAIN task.words |-> Replace(task.words[w], combination)]
           replaced == ReplacePatternCombinations(task, combination)
<1>1. DOMAIN NewTask = {"words", "env", "dir"} /\ NewTask.words = <<>>
  <2> DEFINE raw == [words |-> <<>>, env |-> NoVariables, dir |-> CurrentPath]
  <2>1. DOMAIN raw = {"words", "env", "dir"} /\ raw.words = <<>>
    OBVIOUS
  <2> HIDE DEF raw
  <2> QED
    BY <2>1, MovedTask DEF NewTask, Task, raw
<1>2. DOMAIN fresh = {"words", "env", "dir"} /\ fresh.words = <<>> /\ fresh.env = env
  BY <1>1
<1> HIDE DEF fresh
<1>3. /\ DOMAIN named = {"words", "env", "dir"} /\ named.words = <<>>
      /\ SameVariables(named.env, env) /\ SameVariables(env, named.env)
  BY <1>2, MovedTask DEF SetEnvironment, fresh
<1> HIDE DEF named
<1>4. /\ DOMAIN moved = {"words", "env", "dir"} /\ moved.words = <<>>
      /\ moved.dir = dir /\ SameVariables(moved.env, named.env)
      /\ SameVariables(named.env, moved.env)
  BY <1>3, MovedTask
<1>5. SameVariables(moved.env, env) /\ SameVariables(env, moved.env)
  BY <1>3, <1>4 DEF SameVariables
<1>6. replaced = AppendWords(moved, words)
  BY DEF ReplacePatternCombinations, moved, named
<1>7. <<>> \o words = words
  <2>1. IsList(words)
    BY MapList DEF IsTask
  <2> HIDE DEF words
  <2> QED
    BY <2>1 DEF IsList
<1> HIDE DEF moved, words, env, dir, replaced
<1>8. /\ replaced.words = <<>> \o words /\ replaced.dir = dir
      /\ replaced.env = moved.env
  BY <1>4, <1>6 DEF AppendWords
<1> QED
  BY <1>5, <1>7, <1>8 DEF words, env, dir, replaced

\* Nothing is substituted before the first level.
LEMMA FirstTaskTraced ==
  ASSUME TaskAssumption, NEW sections, IsChain(sections)
  PROVE  IsTraced(sections, 0, FirstTask)
<1> DEFINE raw == [words |-> <<>>, env |-> ProcessEnvironment, dir |-> SettingsDirectory]
<1>1. /\ DOMAIN raw = {"words", "env", "dir"} /\ raw.words = <<>>
      /\ raw.env = ProcessEnvironment
  OBVIOUS
<1> HIDE DEF raw
<1>2. /\ FirstTask.words = <<>> /\ FirstTask.dir = SettingsDirectory
      /\ SameVariables(FirstTask.env, ProcessEnvironment)
      /\ SameVariables(ProcessEnvironment, FirstTask.env)
  BY <1>1, MovedTask DEF FirstTask, Task, raw
<1>3. 1 \in DOMAIN sections
  BY DEF IsChain, IsList
<1>4. <<>> \in Substituted(sections, 1, 0)
  BY <1>3, SubstitutedIsRecursive
<1>5. HasOwnVariables(sections, 0, FirstTask)
  <2> SUFFICES ASSUME NEW name \in DOMAIN FirstTask.env \ {PWD}
               PROVE  IsFromProcess(sections, 0, name, FirstTask.env[name])
    BY DEF HasOwnVariables
  <2>1. /\ name \in DOMAIN ProcessEnvironment
        /\ FirstTask.env[name] = ProcessEnvironment[name]
    BY <1>2 DEF SameVariables
  <2>2. IsList(<<>>) /\ DOMAIN <<>> = {}
    BY MadeLists
  <2>3. ReplaceToken(name, <<>>) = name
    BY <2>2, ReplaceTokenSame
  <2>4. Replace(ProcessEnvironment[name], <<>>) = ProcessEnvironment[name]
    <3>1. IsList(ProcessEnvironment[name])
      BY <2>1 DEF TaskAssumption, IsEnvironment
    <3> QED
      BY <2>2, <3>1, ReplaceTextSame
  <2> QED
    BY <1>4, <2>1, <2>3, <2>4 DEF IsFromProcess
<1>6. 1..0 = {}
  OBVIOUS
<1>9. HasNamedVariables(sections, 0, FirstTask)
  <2> SUFFICES ASSUME NEW name, name # PWD
               PROVE  HasNamed(sections, 0, FirstTask, name)
    BY DEF HasNamedVariables, IsPlain
  <2>1. Namers(sections, 0, name) = {}
    BY <1>6 DEF Namers
  <2>2. ASSUME name \in DOMAIN ProcessEnvironment
        PROVE  /\ name \in DOMAIN FirstTask.env
               /\ FirstTask.env[name] = Replace(ProcessEnvironment[name], <<>>)
    <3>1. name \in DOMAIN FirstTask.env /\ FirstTask.env[name] = ProcessEnvironment[name]
      BY <1>2, <2>2 DEF SameVariables
    <3>2. IsList(<<>>) /\ DOMAIN <<>> = {}
      BY MadeLists
    <3>3. IsList(ProcessEnvironment[name])
      BY <2>2 DEF TaskAssumption, IsEnvironment
    <3> QED
      BY <3>1, <3>2, <3>3, ReplaceTextSame
  <2> QED
    BY <1>4, <2>1, <2>2 DEF HasNamed
<1>7. HasOwnDirectory(sections, 0, FirstTask)
  BY <1>2, <1>6 DEF HasOwnDirectory, Setters
<1>8. HasGivenWords(sections, 0, FirstTask)
  BY <1>2 DEF HasGivenWords
<1> QED
  BY <1>5, <1>7, <1>8, <1>9 DEF IsTraced

\* What a section contributed to a task, it has contributed to the task with
\* more substituted in it.
LEMMA ContributedMore ==
  ASSUME NEW section, NEW task, NEW next, NEW s, NEW c, IsList(s), IsList(c),
         \A w \in DOMAIN task.words : Replace(task.words[w], c) \in Range(next.words),
         Contributed(section, s, task)
  PROVE  Contributed(section, s \o c, next)
<1> SUFFICES ASSUME NEW w \in DOMAIN section.words
             PROVE  Replace(section.words[w], s \o c) \in Range(next.words)
  BY DEF Contributed
<1>1. PICK v \in DOMAIN task.words :
        task.words[v] = Replace(section.words[w], s)
  BY DEF Contributed, Range
<1>2. Replace(section.words[w], s \o c) = Replace(task.words[v], c)
  BY <1>1, ReplaceJoined
<1> QED
  BY <1>2

\* The level of a task that is handed on, and the one before
LEMMA LevelBefore ==
  ASSUME NEW sections, IsChain(sections), NEW l \in DOMAIN sections
  PROVE  /\ l - 1 \in 0..Len(sections) /\ l \in 1..l /\ l <= l
         /\ \A k \in 1..(l - 1) : k \in 1..l /\ k \in DOMAIN sections /\ k < l /\ k <= l
         /\ \A k \in 1..l : (k = l \/ k \in 1..(l - 1)) /\ k \in DOMAIN sections
         /\ 1 \in DOMAIN sections /\ 1 <= l
<1>1. Len(sections) \in Nat /\ DOMAIN sections = 1..Len(sections)
  BY DEF IsChain, IsList
<1> QED
  BY <1>1

\* lcov hands on the task it was given.
LEMMA HandedOn ==
  ASSUME NEW sections, IsChain(sections), NEW l \in DOMAIN sections,
         ~Honours(sections[l]), NEW task, IsTraced(sections, l - 1, task)
  PROVE  IsTraced(sections, l, task)
<1>1. /\ l - 1 \in 0..Len(sections)
      /\ \A k \in 1..(l - 1) : k \in 1..l /\ k \in DOMAIN sections /\ k <= l
      /\ \A k \in 1..l : (k = l \/ k \in 1..(l - 1)) /\ k \in DOMAIN sections
      /\ 1 \in DOMAIN sections /\ 1 <= l
  BY LevelBefore
<1>2. ASSUME NEW level \in DOMAIN sections, level <= l,
             NEW s \in Substituted(sections, level, l - 1)
      PROVE  s \in Substituted(sections, level, l)
  <2>1. IsSubstitution(sections, s)
    BY <1>1, SubstitutedIsRecursive
  <2>2. <<>> \in OfLevel(sections, l)
    BY DEF OfLevel
  <2>3. s \o <<>> \in Substituted(sections, level, l)
    BY <1>2, <2>2, SubstitutedMore
  <2>4. s \o <<>> = s
    BY <2>1 DEF IsSubstitution, IsList
  <2> QED
    BY <2>3, <2>4
<1>3. HasOwnVariables(sections, l, task)
  <2> SUFFICES ASSUME NEW name \in DOMAIN task.env \ {PWD}
               PROVE  \/ IsFromProcess(sections, l, name, task.env[name])
                      \/ IsFromSection(sections, l, task, name, task.env[name])
    BY DEF HasOwnVariables
  <2>1. CASE IsFromProcess(sections, l - 1, name, task.env[name])
    BY <1>1, <1>2, <2>1 DEF IsFromProcess
  <2>2. CASE IsFromSection(sections, l - 1, task, name, task.env[name])
    BY <1>1, <1>2, <2>2 DEF IsFromSection
  <2> QED
    BY <2>1, <2>2 DEF IsTraced, HasOwnVariables
<1>4. Setters(sections, l) = Setters(sections, l - 1)
  BY <1>1 DEF Setters
<1>5. HasOwnDirectory(sections, l, task)
  <2>1. HasOwnDirectory(sections, l - 1, task)
    BY DEF IsTraced
  <2>2. \A level \in Setters(sections, l - 1) : level \in DOMAIN sections /\ level <= l
    BY <1>1 DEF Setters
  <2> QED
    BY <1>2, <1>4, <2>1, <2>2 DEF HasOwnDirectory
<1>6. Given(sections, l - 1) \subseteq Given(sections, l)
  BY <1>1 DEF Given
<1>7. HasGivenWords(sections, l, task)
  BY <1>6 DEF IsTraced, HasGivenWords
<1>8. HasNamedVariables(sections, l, task)
  <2> SUFFICES ASSUME NEW name, HasNamed(sections, l - 1, task, name)
               PROVE  HasNamed(sections, l, task, name)
    BY DEF IsTraced, HasNamedVariables
  <2> DEFINE namers == Namers(sections, l, name)
  <2>1. namers = Namers(sections, l - 1, name)
    BY <1>1 DEF Namers
  <2>2. \A level \in namers : level \in DOMAIN sections /\ level <= l
    BY <1>1 DEF Namers
  <2> HIDE DEF namers
  <2>3. namers = {} /\ name \in DOMAIN ProcessEnvironment =>
          /\ name \in DOMAIN task.env
          /\ \E s \in Substituted(sections, 1, l) :
               task.env[name] = Replace(ProcessEnvironment[name], s)
    BY <1>1, <1>2, <2>1 DEF HasNamed
  <2>4. \A level \in namers :
          \E s \in Substituted(sections, level, l) :
            /\ Contributed(sections[level], s, task)
            /\ (\A k \in namers : k <= level) =>
                 /\ name \in DOMAIN task.env
                 /\ task.env[name] = Replace(sections[level].env[name], s)
    BY <1>2, <2>1, <2>2 DEF HasNamed
  <2> QED
    BY <2>3, <2>4 DEF HasNamed, namers
<1> QED
  BY <1>3, <1>5, <1>7, <1>8 DEF IsTraced

\* No pattern is named like what a path begins with, nor like PWD.
LEMMA KeysAreApart ==
  ASSUME NEW sections, IsChain(sections), NEW s, IsSubstitution(sections, s)
  PROVE  \A i \in DOMAIN s : s[i].key \notin Roots \cup {PWD}
<1> SUFFICES ASSUME NEW i \in DOMAIN s PROVE s[i].key \notin Roots \cup {PWD}
  OBVIOUS
<1>1. PICK l \in DOMAIN sections : s[i].key \in KeysOf(sections[l])
  BY DEF IsSubstitution
<1>2. PICK p \in DOMAIN sections[l].patterns : s[i].key = sections[l].patterns[p].key
  BY <1>1 DEF KeysOf
<1>3. IsSection(sections[l])
  BY DEF IsChain
<1> QED
  BY <1>2, <1>3 DEF IsSection, IsPattern

\* Both lists are in the one they make.
LEMMA BothListed ==
  ASSUME NEW a, NEW b, IsList(a), IsList(b)
  PROVE  /\ \A i \in DOMAIN a : a[i] \in Range(a \o b)
         /\ \A i \in DOMAIN b : b[i] \in Range(a \o b)
<1> DEFINE S == Range(a) \cup Range(b)
<1>1. a \in Seq(S) /\ b \in Seq(S)
  BY DEF IsList, Range
<1> HIDE DEF S
<1>2. Range(a) \subseteq Range(a \o b) /\ Range(b) \subseteq Range(a \o b)
  BY <1>1, BothHeld DEF Joins
<1> QED
  BY <1>2 DEF Range

\* What a plugin makes of its task, for a combination of its patterns
Made(sections, l, task, c) ==
  ReplacePatternCombinations(
    AppendWords(Configure(task, sections[l]), sections[l].words), c)

LEMMA MadeTask ==
  ASSUME TaskAssumption, NEW sections, IsChain(sections), NEW l \in DOMAIN sections,
         NEW task, IsTask(task), NEW c, ReplaceToken(PWD, c) = PWD
  PROVE  LET next == Made(sections, l, task, c)
             section == sections[l]
         IN /\ \A w \in DOMAIN next.words :
                 \/ \E v \in DOMAIN task.words :
                      next.words[w] = Replace(task.words[v], c)
                 \/ \E v \in DOMAIN section.words :
                      next.words[w] = Replace(section.words[v], c)
            /\ \A w \in DOMAIN task.words :
                 Replace(task.words[w], c) \in Range(next.words)
            /\ \A w \in DOMAIN section.words :
                 Replace(section.words[w], c) \in Range(next.words)
            /\ next.dir = Replace(IF Honours(section) /\ section.dir # NotSet
                                  THEN section.dir ELSE task.dir, c)
            /\ \A name \in DOMAIN next.env \ {PWD} :
                 \/ \E n \in DOMAIN task.env :
                      /\ ReplaceToken(n, c) = name
                      /\ next.env[name] = Replace(task.env[n], c)
                      /\ n # PWD
                 \/ /\ Honours(section)
                    /\ \E n \in DOMAIN GetEnvironment(section) :
                         /\ ReplaceToken(n, c) = name
                         /\ next.env[name] = Replace(section.env[n], c)
<1> DEFINE section == sections[l]
           conf == Configure(task, section)
           own == AppendWords(conf, section.words)
           next == Made(sections, l, task, c)
<1>1. IsSection(section)
  BY DEF IsChain
<1>2. /\ DOMAIN conf = {"words", "env", "dir"} /\ conf.words = task.words
      /\ conf.dir = IF Honours(section) /\ section.dir # NotSet
                    THEN section.dir ELSE task.dir
      /\ \A name \in DOMAIN conf.env \ {PWD} :
           \/ name \in DOMAIN task.env /\ conf.env[name] = task.env[name]
           \/ /\ Honours(section) /\ name \in DOMAIN GetEnvironment(section)
              /\ conf.env[name] = section.env[name]
  BY <1>1, ConfiguredTask DEF IsTask
<1>3. IsTask(conf)
  BY <1>1, TaskIsConfigured
<1>4. AreWords(section.words) /\ AreWords(task.words)
  BY <1>1 DEF IsSection, AreWords, IsTask
<1> HIDE DEF section, conf
<1>5. IsTask(own)
  BY <1>3, <1>4, WordsAreAppended
<1>6. own.words = task.words \o section.words /\ own.env = conf.env /\ own.dir = conf.dir
  BY <1>2 DEF AppendWords
<1> HIDE DEF own
<1>7. /\ next.words = [w \in DOMAIN own.words |-> Replace(own.words[w], c)]
      /\ next.dir = Replace(own.dir, c)
      /\ SameVariables(next.env, ReplacePatternsInEnvironment(own.env, c))
  BY <1>5, ReplacedTask DEF Made, own, conf, section
<1> HIDE DEF next
<1>8. /\ \A w \in DOMAIN own.words :
           \/ \E v \in DOMAIN task.words : own.words[w] = task.words[v]
           \/ \E v \in DOMAIN section.words : own.words[w] = section.words[v]
      /\ \A v \in DOMAIN task.words : task.words[v] \in Range(own.words)
      /\ \A v \in DOMAIN section.words : section.words[v] \in Range(own.words)
  <2>1. \A i \in DOMAIN (task.words \o section.words) :
          \/ i \in DOMAIN task.words
             /\ (task.words \o section.words)[i] = task.words[i]
          \/ \E j \in DOMAIN section.words :
               (task.words \o section.words)[i] = section.words[j]
    <3> DEFINE a == task.words
               b == section.words
    <3>1. IsList(a) /\ IsList(b)
      BY <1>4 DEF AreWords
    <3> HIDE DEF a, b
    <3>2. /\ IsList(a \o b)
          /\ \A i \in DOMAIN (a \o b) :
               \/ i \in DOMAIN a /\ (a \o b)[i] = a[i]
               \/ \E j \in DOMAIN b : (a \o b)[i] = b[j]
      BY <3>1, JoinLists
    <3> QED
      BY <3>2 DEF a, b
  <2>2. /\ \A v \in DOMAIN task.words :
             task.words[v] \in Range(task.words \o section.words)
        /\ \A v \in DOMAIN section.words :
             section.words[v] \in Range(task.words \o section.words)
    BY <1>4, BothListed DEF AreWords
  <2> DEFINE both == task.words \o section.words
  <2>3. own.words = both
    BY <1>6
  <2>4. \A i \in DOMAIN both :
          \/ i \in DOMAIN task.words /\ both[i] = task.words[i]
          \/ \E j \in DOMAIN section.words : both[i] = section.words[j]
    BY <2>1
  <2>5. /\ \A v \in DOMAIN task.words : task.words[v] \in Range(both)
        /\ \A v \in DOMAIN section.words : section.words[v] \in Range(both)
    BY <2>2
  <2> HIDE DEF both
  <2> QED
    BY <2>3, <2>4, <2>5
<1>9. \A w \in DOMAIN next.words :
        \/ \E v \in DOMAIN task.words : next.words[w] = Replace(task.words[v], c)
        \/ \E v \in DOMAIN section.words : next.words[w] = Replace(section.words[v], c)
  BY <1>7, <1>8
<1>10. \A word \in Range(own.words) : Replace(word, c) \in Range(next.words)
  BY <1>7 DEF Range
<1>11. next.dir = Replace(IF Honours(section) /\ section.dir # NotSet
                          THEN section.dir ELSE task.dir, c)
  BY <1>2, <1>6, <1>7
<1>12. ASSUME NEW name \in DOMAIN next.env \ {PWD}
       PROVE  \/ \E n \in DOMAIN task.env :
                   /\ ReplaceToken(n, c) = name
                   /\ next.env[name] = Replace(task.env[n], c)
                   /\ n # PWD
              \/ /\ Honours(section)
                 /\ \E n \in DOMAIN GetEnvironment(section) :
                      /\ ReplaceToken(n, c) = name
                      /\ next.env[name] = Replace(section.env[n], c)
  <2> DEFINE result == ReplacePatternsInEnvironment(own.env, c)
  <2>1. IsEnvironment(own.env)
    BY <1>5 DEF IsTask
  <2>2. \A new \in DOMAIN result : \E n \in DOMAIN own.env :
          ReplaceToken(n, c) = new /\ result[new] = Replace(own.env[n], c)
    BY <2>1, VariablesAreReplaced
  <2>3. name \in DOMAIN result /\ next.env[name] = result[name]
    BY <1>7, <1>12 DEF SameVariables
  <2> HIDE DEF result
  <2>4. PICK n \in DOMAIN own.env :
          ReplaceToken(n, c) = name /\ next.env[name] = Replace(own.env[n], c)
    BY <2>2, <2>3
  <2>5. n # PWD
    BY <1>12, <2>4
  <2> QED
    BY <1>2, <1>6, <2>4, <2>5
<1> QED
  BY <1>8, <1>9, <1>10, <1>11, <1>12 DEF next, section

\* It sets the variables that its section names like no pattern, for its
\* combination, and leaves the others that have such a name as they were.
LEMMA MadeNames ==
  ASSUME TaskAssumption, NEW sections, IsChain(sections), NEW l \in DOMAIN sections,
         NEW task, IsTask(task), NEW c, IsSubstitution(sections, c),
         PatternsLast(sections), NEW name, IsPlain(sections, name)
  PROVE  LET next == Made(sections, l, task, c)
             section == sections[l]
         IN /\ Honours(section) /\ name \in DOMAIN GetEnvironment(section) =>
                 /\ name \in DOMAIN next.env
                 /\ next.env[name] = Replace(section.env[name], c)
            /\ name \in DOMAIN task.env
               /\ ~(Honours(section) /\ name \in DOMAIN GetEnvironment(section)) =>
                 /\ name \in DOMAIN next.env
                 /\ next.env[name] = Replace(task.env[name], c)
<1> DEFINE section == sections[l]
           conf == Configure(task, section)
           own == AppendWords(conf, section.words)
           next == Made(sections, l, task, c)
           keys == KeysIn(sections)
           values == UNION {ValuesOf(sections[level]) : level \in DOMAIN sections}
           IsNamed == Honours(section) /\ name \in DOMAIN GetEnvironment(section)
<1>1. IsSection(section)
  BY DEF IsChain
<1>2. /\ IsNamed => name \in DOMAIN conf.env /\ conf.env[name] = section.env[name]
      /\ name \in DOMAIN task.env /\ ~IsNamed =>
           name \in DOMAIN conf.env /\ conf.env[name] = task.env[name]
  BY <1>1, ConfiguredNames DEF IsTask, IsPlain
<1>3. IsTask(conf) /\ DOMAIN conf = {"words", "env", "dir"}
  BY <1>1, TaskIsConfigured DEF IsTask
<1>4. AreWords(section.words)
  BY <1>1 DEF IsSection, AreWords
<1> HIDE DEF section, conf, IsNamed
<1>5. IsTask(own) /\ own.env = conf.env
  BY <1>3, <1>4, WordsAreAppended DEF AppendWords
<1> HIDE DEF own
<1> DEFINE result == ReplacePatternsInEnvironment(own.env, c)
<1>6. SameVariables(result, next.env)
  BY <1>5, ReplacedTask DEF Made, own, conf, section
<1> HIDE DEF next
<1>7. /\ IsList(c) /\ \A i \in DOMAIN c : c[i].key \in keys /\ c[i].value \in values
      /\ name \notin keys /\ name # PWD
  BY DEF IsSubstitution, KeysIn, IsPlain
<1>8. ASSUME name \in DOMAIN conf.env
      PROVE  name \in DOMAIN result /\ result[name] = Replace(conf.env[name], c)
  <2>1. IsEnvironment(own.env) /\ name \in DOMAIN own.env
    BY <1>5, <1>8 DEF IsTask
  <2>2. ComeLast(keys, values)
    BY DEF PatternsLast
  <2> HIDE DEF keys, values
  <2> QED
    BY <1>5, <1>7, <2>1, <2>2, NamedIsReplaced
<1> HIDE DEF result
<1>9. name \in DOMAIN conf.env =>
        name \in DOMAIN next.env /\ next.env[name] = Replace(conf.env[name], c)
  BY <1>6, <1>7, <1>8 DEF SameVariables
<1> QED
  BY <1>2, <1>9 DEF next, section, IsNamed

LEMMA GivenTokens ==
  ASSUME NEW sections, NEW l, l \in 1..l
  PROVE  /\ \A w \in DOMAIN sections[l].words :
              Range(sections[l].words[w]) \subseteq Given(sections, l)
         /\ \A k \in DOMAIN sections : ValuesOf(sections[k]) \subseteq Given(sections, l)
<1> DEFINE allWords == UNION {TokensOf(sections[level]) : level \in 1..l}
           allValues == UNION {ValuesOf(sections[level]) : level \in DOMAIN sections}
<1>1. \A w \in DOMAIN sections[l].words :
        Range(sections[l].words[w]) \subseteq TokensOf(sections[l])
  BY DEF TokensOf
<1>2. Given(sections, l) = allWords \cup allValues
  BY DEF Given
<1>3. \A k \in DOMAIN sections : ValuesOf(sections[k]) \subseteq allValues
  OBVIOUS
<1>4. TokensOf(sections[l]) \subseteq allWords
  OBVIOUS
<1> HIDE DEF allWords, allValues
<1> QED
  BY <1>1, <1>2, <1>3, <1>4

LEMMA MadeIsTraced ==
  ASSUME TaskAssumption, NEW sections, IsChain(sections), NEW l \in DOMAIN sections,
         NEW task, IsTask(task), IsTraced(sections, l - 1, task),
         NEW c \in Range(CombinationsOf(sections[l].patterns))
  PROVE  IsTraced(sections, l, Made(sections, l, task, c))
<1> DEFINE section == sections[l]
           next == Made(sections, l, task, c)
<1>1. /\ l - 1 \in 0..Len(sections) /\ l \in 1..l /\ l <= l
      /\ \A k \in 1..(l - 1) : k \in 1..l /\ k \in DOMAIN sections /\ k < l /\ k <= l
      /\ \A k \in 1..l : (k = l \/ k \in 1..(l - 1)) /\ k \in DOMAIN sections
      /\ 1 \in DOMAIN sections /\ 1 <= l
  BY LevelBefore
<1>2. c \in OfLevel(sections, l) /\ IsSubstitution(sections, c) /\ IsList(c)
  <2>1. c \in OfLevel(sections, l)
    BY DEF OfLevel
  <2> QED
    BY <2>1, LevelsSubstitute DEF IsSubstitution
<1>3. ReplaceToken(PWD, c) = PWD
  BY <1>2, KeysAreApart, ReplaceTokenSame
<1>4. /\ \A w \in DOMAIN next.words :
           \/ \E v \in DOMAIN task.words : next.words[w] = Replace(task.words[v], c)
           \/ \E v \in DOMAIN section.words : next.words[w] = Replace(section.words[v], c)
      /\ \A w \in DOMAIN task.words : Replace(task.words[w], c) \in Range(next.words)
      /\ \A w \in DOMAIN section.words : Replace(section.words[w], c) \in Range(next.words)
      /\ next.dir = Replace(IF Honours(section) /\ section.dir # NotSet
                            THEN section.dir ELSE task.dir, c)
      /\ \A name \in DOMAIN next.env \ {PWD} :
           \/ \E n \in DOMAIN task.env :
                /\ ReplaceToken(n, c) = name
                /\ next.env[name] = Replace(task.env[n], c)
                /\ n # PWD
           \/ /\ Honours(section)
              /\ \E n \in DOMAIN GetEnvironment(section) :
                   /\ ReplaceToken(n, c) = name
                   /\ next.env[name] = Replace(section.env[n], c)
  BY <1>3, MadeTask
<1> HIDE DEF next
<1>5. Contributed(section, c, next) /\ c \in Substituted(sections, l, l)
  BY <1>2, <1>4, SubstitutedFirst DEF Contributed
<1>6. ASSUME NEW level \in 1..l, NEW s \in Substituted(sections, level, l - 1)
      PROVE  /\ IsList(s) /\ s \o c \in Substituted(sections, level, l)
             /\ Contributed(sections[level], s, task)
                  => Contributed(sections[level], s \o c, next)
  <2>1. level \in DOMAIN sections /\ level <= l
    BY <1>1
  <2>2. IsList(s)
    BY <1>1, <2>1, SubstitutedIsRecursive DEF IsSubstitution
  <2>3. s \o c \in Substituted(sections, level, l)
    BY <1>2, <2>1, SubstitutedMore
  <2>4. Contributed(sections[level], s, task)
          => Contributed(sections[level], s \o c, next)
    BY <1>2, <1>4, <2>2, ContributedMore
  <2> QED
    BY <2>2, <2>3, <2>4
<1>7. HasOwnVariables(sections, l, next)
  <2> SUFFICES ASSUME NEW name \in DOMAIN next.env \ {PWD}
               PROVE  \/ IsFromProcess(sections, l, name, next.env[name])
                      \/ IsFromSection(sections, l, next, name, next.env[name])
    BY DEF HasOwnVariables
  <2>1. ASSUME NEW n \in DOMAIN task.env, ReplaceToken(n, c) = name,
               next.env[name] = Replace(task.env[n], c), n # PWD
        PROVE  \/ IsFromProcess(sections, l, name, next.env[name])
               \/ IsFromSection(sections, l, next, name, next.env[name])
    <3>1. CASE IsFromProcess(sections, l - 1, n, task.env[n])
      <4>1. PICK s \in Substituted(sections, 1, l - 1), m \in DOMAIN ProcessEnvironment :
              ReplaceToken(m, s) = n /\ Replace(ProcessEnvironment[m], s) = task.env[n]
        BY <3>1 DEF IsFromProcess
      <4>2. IsList(s) /\ s \o c \in Substituted(sections, 1, l)
        BY <1>1, <1>6
      <4>3. ReplaceToken(m, s \o c) = name
        BY <1>2, <2>1, <4>1, <4>2, ReplaceTokenJoined
      <4>4. Replace(ProcessEnvironment[m], s \o c) = next.env[name]
        BY <1>2, <2>1, <4>1, <4>2, ReplaceJoined
      <4> QED
        BY <4>2, <4>3, <4>4 DEF IsFromProcess
    <3>2. CASE IsFromSection(sections, l - 1, task, n, task.env[n])
      <4>0. PICK level \in 1..(l - 1) :
              /\ Honours(sections[level])
              /\ \E s \in Substituted(sections, level, l - 1) :
                   /\ Contributed(sections[level], s, task)
                   /\ \E m \in DOMAIN GetEnvironment(sections[level]) :
                        /\ ReplaceToken(m, s) = n
                        /\ Replace(sections[level].env[m], s) = task.env[n]
        BY <3>2 DEF IsFromSection
      <4>1. PICK s \in Substituted(sections, level, l - 1),
                 m \in DOMAIN GetEnvironment(sections[level]) :
              /\ Contributed(sections[level], s, task)
              /\ ReplaceToken(m, s) = n
              /\ Replace(sections[level].env[m], s) = task.env[n]
        BY <4>0
      <4>2. level \in 1..l
        BY <1>1
      <4>3. /\ IsList(s) /\ s \o c \in Substituted(sections, level, l)
            /\ Contributed(sections[level], s \o c, next)
        BY <1>6, <4>1, <4>2
      <4>4. ReplaceToken(m, s \o c) = name
        BY <1>2, <2>1, <4>1, <4>3, ReplaceTokenJoined
      <4>5. Replace(sections[level].env[m], s \o c) = next.env[name]
        BY <1>2, <2>1, <4>1, <4>3, ReplaceJoined
      <4> QED
        BY <4>0, <4>1, <4>2, <4>3, <4>4, <4>5 DEF IsFromSection
    <3> QED
      BY <2>1, <3>1, <3>2 DEF IsTraced, HasOwnVariables
  <2>2. ASSUME Honours(section), NEW n \in DOMAIN GetEnvironment(section),
               ReplaceToken(n, c) = name, next.env[name] = Replace(section.env[n], c)
        PROVE  IsFromSection(sections, l, next, name, next.env[name])
    BY <1>1, <1>5, <2>2 DEF IsFromSection
  <2> QED
    BY <1>4, <2>1, <2>2
<1>8. HasOwnDirectory(sections, l, next)
  <2>1. \A k \in Setters(sections, l) : k = l \/ k \in Setters(sections, l - 1)
    BY <1>1 DEF Setters
  <2>2. \A k \in Setters(sections, l - 1) : k \in Setters(sections, l) /\ k \in 1..l /\ k < l
    BY <1>1 DEF Setters
  <2>3. l \in Setters(sections, l) <=> Honours(section) /\ section.dir # NotSet
    BY <1>1 DEF Setters
  <2>4. Setters(sections, l) = {} => next.dir = SettingsDirectory
    <3> SUFFICES ASSUME Setters(sections, l) = {} PROVE next.dir = SettingsDirectory
      OBVIOUS
    <3>1. task.dir = SettingsDirectory
      BY <2>2 DEF IsTraced, HasOwnDirectory
    <3>2. next.dir = Replace(SettingsDirectory, c)
      BY <1>4, <2>3, <3>1
    <3>3. SettingsDirectory \in Seq(Roots)
      BY DEF TaskAssumption
    <3>4. IsList(SettingsDirectory) /\ Range(SettingsDirectory) \subseteq Roots
      BY <3>3, ListOf DEF IsList, Range
    <3>5. \A i \in DOMAIN c : c[i].key \notin Range(SettingsDirectory)
      BY <1>2, <3>4, KeysAreApart
    <3> QED
      BY <1>2, <3>2, <3>4, <3>5, ReplaceTextSame
  <2>5. ASSUME NEW level \in Setters(sections, l)
        PROVE  \E s \in Substituted(sections, level, l) :
                 /\ Contributed(sections[level], s, next)
                 /\ (\A k \in Setters(sections, l) : k <= level) =>
                      next.dir = Replace(sections[level].dir, s)
    <3>1. CASE level = l
      BY <1>4, <1>5, <2>3, <2>5, <3>1
    <3>2. CASE level \in Setters(sections, l - 1)
      <4>1. level \in 1..l /\ level < l
        BY <2>2, <3>2
      <4>2. PICK s \in Substituted(sections, level, l - 1) :
              /\ Contributed(sections[level], s, task)
              /\ (\A k \in Setters(sections, l - 1) : k <= level) =>
                   task.dir = Replace(sections[level].dir, s)
        BY <3>2 DEF IsTraced, HasOwnDirectory
      <4>3. /\ IsList(s) /\ s \o c \in Substituted(sections, level, l)
            /\ Contributed(sections[level], s \o c, next)
        BY <1>6, <4>1, <4>2
      <4>4. ASSUME \A k \in Setters(sections, l) : k <= level
            PROVE  next.dir = Replace(sections[level].dir, s \o c)
        <5>1. l \notin Setters(sections, l)
          <6>1. ~(l <= level)
            BY <4>1 DEF IsChain, IsList
          <6> QED
            BY <4>4, <6>1
        <5>2. next.dir = Replace(task.dir, c)
          BY <1>4, <2>3, <5>1
        <5>3. task.dir = Replace(sections[level].dir, s)
          BY <2>2, <4>2, <4>4
        <5> QED
          BY <1>2, <4>3, <5>2, <5>3, ReplaceJoined
      <4> QED
        BY <4>3, <4>4
    <3> QED
      BY <2>1, <3>1, <3>2
  <2> QED
    BY <2>4, <2>5 DEF HasOwnDirectory
<1>9. HasGivenWords(sections, l, next)
  <2> DEFINE S == Given(sections, l)
  <2>1. \A v \in DOMAIN task.words : Range(task.words[v]) \subseteq S
    <3>1. Given(sections, l - 1) \subseteq Given(sections, l)
      BY <1>1 DEF Given
    <3> QED
      BY <3>1 DEF IsTraced, HasGivenWords
  <2>2. /\ \A v \in DOMAIN section.words : Range(section.words[v]) \subseteq S
        /\ \A k \in DOMAIN sections : ValuesOf(sections[k]) \subseteq S
    BY <1>1, GivenTokens
  <2>3. \A i \in DOMAIN c : c[i].value \in S
    <3> HIDE DEF S
    <3> QED
      BY <1>2, <2>2 DEF IsSubstitution
  <2> HIDE DEF S
  <2>4. ASSUME NEW word, Range(word) \subseteq S
        PROVE  Range(Replace(word, c)) \subseteq S
    <3>1. \A i \in DOMAIN word : word[i] \in S
      BY <2>4 DEF Range
    <3>2. \A i \in DOMAIN word : ReplaceToken(word[i], c) \in S
      BY <1>2, <2>3, <3>1, ReplaceTokenType
    <3> QED
      BY <3>2 DEF Replace, Range
  <2>5. \A w \in DOMAIN next.words : Range(next.words[w]) \subseteq S
    BY <1>4, <2>1, <2>2, <2>4
  <2> QED
    BY <2>5 DEF HasGivenWords, S
<1>10. HasNamedVariables(sections, l, next)
  <2> SUFFICES ASSUME PatternsLast(sections), NEW name, IsPlain(sections, name),
                      HasNamed(sections, l - 1, task, name)
               PROVE  HasNamed(sections, l, next, name)
    BY DEF IsTraced, HasNamedVariables
  <2> DEFINE namers == Namers(sections, l, name)
             before == Namers(sections, l - 1, name)
             IsNamed == Honours(section) /\ name \in DOMAIN GetEnvironment(section)
  <2>1. /\ IsNamed => name \in DOMAIN next.env
                      /\ next.env[name] = Replace(section.env[name], c)
        /\ name \in DOMAIN task.env /\ ~IsNamed =>
             name \in DOMAIN next.env /\ next.env[name] = Replace(task.env[name], c)
    BY <1>2, MadeNames DEF next
  <2>2. \A k \in namers : k = l \/ k \in before
    BY <1>1 DEF Namers
  <2>3. \A k \in before : k \in namers /\ k \in 1..l /\ k < l
    BY <1>1 DEF Namers
  <2>4. l \in namers <=> IsNamed
    BY <1>1 DEF Namers
  <2>5. /\ before = {} /\ name \in DOMAIN ProcessEnvironment =>
             /\ name \in DOMAIN task.env
             /\ \E s \in Substituted(sections, 1, l - 1) :
                  task.env[name] = Replace(ProcessEnvironment[name], s)
        /\ \A level \in before :
             \E s \in Substituted(sections, level, l - 1) :
               /\ Contributed(sections[level], s, task)
               /\ (\A k \in before : k <= level) =>
                    /\ name \in DOMAIN task.env
                    /\ task.env[name] = Replace(sections[level].env[name], s)
    BY DEF HasNamed
  <2> HIDE DEF namers, before
  <2>6. ASSUME namers = {}, name \in DOMAIN ProcessEnvironment
        PROVE  /\ name \in DOMAIN next.env
               /\ \E s \in Substituted(sections, 1, l) :
                    next.env[name] = Replace(ProcessEnvironment[name], s)
    <3>1. before = {} /\ ~IsNamed
      BY <2>3, <2>4, <2>6
    <3>2. PICK s \in Substituted(sections, 1, l - 1) :
            task.env[name] = Replace(ProcessEnvironment[name], s)
      BY <2>5, <2>6, <3>1
    <3>3. IsList(s) /\ s \o c \in Substituted(sections, 1, l)
      <4>1. 1 \in 1..l
        BY <1>1
      <4> QED
        BY <1>6, <4>1
    <3>4. /\ name \in DOMAIN next.env
          /\ next.env[name] = Replace(task.env[name], c)
      BY <2>1, <2>5, <2>6, <3>1
    <3>5. next.env[name] = Replace(ProcessEnvironment[name], s \o c)
      BY <1>2, <3>2, <3>3, <3>4, ReplaceJoined
    <3> QED
      BY <3>3, <3>4, <3>5
  <2>7. ASSUME NEW level \in namers
        PROVE  \E s \in Substituted(sections, level, l) :
                 /\ Contributed(sections[level], s, next)
                 /\ (\A k \in namers : k <= level) =>
                      /\ name \in DOMAIN next.env
                      /\ next.env[name] = Replace(sections[level].env[name], s)
    <3>1. CASE level = l
      BY <1>5, <2>1, <2>4, <2>7, <3>1
    <3>2. CASE level \in before
      <4>1. level \in 1..l /\ level < l
        BY <2>3, <3>2
      <4>2. PICK s \in Substituted(sections, level, l - 1) :
              /\ Contributed(sections[level], s, task)
              /\ (\A k \in before : k <= level) =>
                   /\ name \in DOMAIN task.env
                   /\ task.env[name] = Replace(sections[level].env[name], s)
        BY <2>5, <3>2
      <4>3. /\ IsList(s) /\ s \o c \in Substituted(sections, level, l)
            /\ Contributed(sections[level], s \o c, next)
        BY <1>6, <4>1, <4>2
      <4>4. ASSUME \A k \in namers : k <= level
            PROVE  /\ name \in DOMAIN next.env
                   /\ next.env[name] = Replace(sections[level].env[name], s \o c)
        <5>1. l \notin namers
          <6>1. ~(l <= level)
            BY <4>1 DEF IsChain, IsList
          <6> QED
            BY <4>4, <6>1
        <5>2. /\ name \in DOMAIN task.env
              /\ task.env[name] = Replace(sections[level].env[name], s)
          BY <2>3, <4>2, <4>4
        <5>3. /\ name \in DOMAIN next.env
              /\ next.env[name] = Replace(task.env[name], c)
          BY <2>1, <2>4, <5>1, <5>2
        <5>4. Replace(sections[level].env[name], s \o c)
                = Replace(Replace(sections[level].env[name], s), c)
          BY <1>2, <4>3, ReplaceJoined
        <5> QED
          BY <5>2, <5>3, <5>4
      <4> QED
        BY <4>3, <4>4
    <3> QED
      BY <2>2, <3>1, <3>2
  <2> QED
    BY <2>6, <2>7 DEF HasNamed, namers
<1> QED
  BY <1>7, <1>8, <1>9, <1>10 DEF IsTraced, next

-----------------------------------------------------------------------------
(* Traces along the steps *)

AreTraced(sections, list) == \A i \in DOMAIN list : IsTracedItem(sections, list[i])

LEMMA CombinationIsTraced ==
  ASSUME TaskAssumption, NEW sections, IsChain(sections), NEW l \in DOMAIN sections,
         NEW task, IsTask(task), IsTraced(sections, l - 1, task),
         NEW c \in Range(CombinationsOf(sections[l].patterns))
  PROVE  AreTraced(sections, ForCombination(sections, l, task, c))
<1> DEFINE made == Made(sections, l, task, c)
           result == ForCombination(sections, l, task, c)
<1>1. IsTraced(sections, l, made)
  BY MadeIsTraced
<1> HIDE DEF made
<1>2. l + 1 # 0 /\ (l + 1) - 1 = l
  BY DEF IsChain, IsList
<1>3. \A t : IsTraced(sections, l, t) => IsTracedItem(sections, Nested(l + 1, t))
  <2> DEFINE inner == l + 1
  <2>1. inner # 0 /\ inner - 1 = l
    BY <1>2
  <2> HIDE DEF inner
  <2>2. \A t : Nested(inner, t).level = inner /\ Nested(inner, t).task = t
    BY DEF Nested
  <2>3. \A t : IsTraced(sections, l, t) => IsTracedItem(sections, Nested(inner, t))
    BY <2>1, <2>2 DEF IsTracedItem
  <2> QED
    BY <2>3 DEF inner
<1>4. ASSUME l = Len(sections) \/ sections[l].plugin = "lcov"
      PROVE  IsTracedItem(sections, Register(made))
  BY <1>1, <1>4 DEF IsTracedItem, IsComplete, Register
<1>5. CASE l = Len(sections)
  <2>1. result = <<Register(made)>>
    BY <1>5 DEF ForCombination, made, Made
  <2> QED
    BY <1>4, <1>5, <2>1 DEF AreTraced
<1>6. CASE l # Len(sections) /\ sections[l].plugin = "lcov"
  <2>1. result = <<Nested(l + 1, task), Register(made)>>
    BY <1>6 DEF ForCombination, made, Made
  <2>2. IsTraced(sections, l, task)
    BY <1>6, HandedOn DEF Honours
  <2>3. /\ IsTracedItem(sections, Nested(l + 1, task))
        /\ IsTracedItem(sections, Register(made))
    BY <1>3, <1>4, <1>6, <2>2
  <2> QED
    BY <2>1, <2>3 DEF AreTraced
<1>7. CASE l # Len(sections) /\ sections[l].plugin # "lcov"
  <2>1. result = <<Nested(l + 1, made)>>
    BY <1>7 DEF ForCombination, made, Made
  <2> QED
    BY <1>1, <1>3, <2>1 DEF AreTraced
<1> QED
  BY <1>5, <1>6, <1>7

LEMMA ApplyIsTraced ==
  ASSUME TaskAssumption, NEW sections, IsChain(sections), NEW l \in DOMAIN sections,
         NEW task, IsTask(task), IsTraced(sections, l - 1, task)
  PROVE  AreTraced(sections, Apply(sections, l, task))
<1> DEFINE combinations == CombinationsOf(sections[l].patterns)
           each == [c \in DOMAIN combinations |->
                      ForCombination(sections, l, task, combinations[c])]
<1>1. IsSection(sections[l]) /\ l \in 1..Len(sections)
  BY DEF IsChain, IsList
<1>2. /\ IsList(combinations)
      /\ \A c \in DOMAIN combinations : IsCombination(combinations[c])
      /\ \A c \in DOMAIN combinations : combinations[c] \in Range(combinations)
  BY <1>1, CombinationsOfSection DEF Range
<1>3. \A c \in DOMAIN combinations :
        AreTraced(sections, ForCombination(sections, l, task, combinations[c]))
  BY <1>2, CombinationIsTraced
<1> HIDE DEF combinations
<1>4. IsList(each)
  BY <1>2, MapList
<1>5. \A c \in DOMAIN each : IsWork(sections, each[c]) /\ AreTraced(sections, each[c])
  BY <1>1, <1>2, <1>3, CombinationIsWork
<1>6. Apply(sections, l, task) = FlattenSeq(each)
  BY DEF Apply, combinations
<1> HIDE DEF each
<1>7. \A i \in DOMAIN FlattenSeq(each) : \E j \in DOMAIN each :
        \E k \in DOMAIN each[j] : FlattenSeq(each)[i] = each[j][k]
  BY <1>4, <1>5, FlattenLists DEF IsWork, IsList
<1> QED
  BY <1>5, <1>6, <1>7 DEF AreTraced

LEMMA MoreTraced ==
  ASSUME NEW sections, NEW a, NEW b, IsList(a), IsList(b),
         AreTraced(sections, a), AreTraced(sections, b)
  PROVE  AreTraced(sections, a \o b)
<1> DEFINE both == a \o b
<1>1. /\ IsList(both)
      /\ \A i \in DOMAIN both :
           \/ i \in DOMAIN a /\ both[i] = a[i]
           \/ \E j \in DOMAIN b : both[i] = b[j]
  BY JoinLists
<1> HIDE DEF both
<1>2. AreTraced(sections, both)
  BY <1>1 DEF AreTraced
<1> QED
  BY <1>2 DEF both

LEMMA LessTraced ==
  ASSUME NEW sections, NEW list, IsList(list), list # <<>>, AreTraced(sections, list)
  PROVE  AreTraced(sections, Tail(list)) /\ IsTracedItem(sections, Head(list))
BY ListsTail DEF AreTraced, IsList

\* A variable of a program is one of its task or of the process.
IsUnion(env, task) ==
  \A name \in DOMAIN env :
    \/ name \in DOMAIN task.env /\ env[name] = task.env[name]
    \/ name \in DOMAIN ProcessEnvironment /\ env[name] = ProcessEnvironment[name]

IsTracedChild(sections, child) ==
  /\ IsComplete(sections, child.task) /\ IsUnion(child.env, child.task)
  /\ child.dir = Absolute(child.task.dir)

Traced ==
  /\ chain \in Chains
  /\ AreTraced(chain, work)
  /\ shell.phase = "idle" => environ = ProcessEnvironment
  /\ shell.phase \in {"expanding", "expanded", "restored"} =>
       /\ IsComplete(chain, shell.task) /\ IsUnion(shell.env, shell.task)
       /\ shell.cached = ProcessEnvironment
       /\ shell.phase = "restored" => environ = ProcessEnvironment
  /\ \A i \in DOMAIN children : IsTracedChild(chain, children[i])

\* A word of a section inside of lcov has a token that comes from nowhere else.
IsToldApart(sections, level, inner) ==
  \E w \in DOMAIN sections[inner].words :
    \E token \in Range(sections[inner].words[w]) :
      /\ token \notin Given(sections, level)
      /\ \A l \in DOMAIN sections : token \notin KeysOf(sections[l])

\* The task of lcov is not mistaken for that of a section inside that sets a
\* directory, or variables.
ToldApart ==
  \A sections \in Chains : \A level \in DOMAIN sections :
    \A inner \in Setters(sections, Len(sections)) :
      sections[level].plugin = "lcov" /\ level < inner =>
        IsToldApart(sections, level, inner)

NamesToldApart ==
  \A sections \in Chains : \A level \in DOMAIN sections :
    \A name : \A inner \in Namers(sections, Len(sections), name) :
      sections[level].plugin = "lcov" /\ level < inner =>
        IsToldApart(sections, level, inner)

\* std::map has the patterns, which are between braces, after the names that
\* start with a letter.
PatternsComeLast == \A sections \in Chains : PatternsLast(sections)

LEMMA InitTraced ==
  ASSUME TaskAssumption, ShellAssumption
  PROVE  Init => Traced
<1> SUFFICES ASSUME Init PROVE Traced
  OBVIOUS
<1>1. chain \in Chains /\ IsChain(chain)
  BY DEF Init, ShellAssumption
<1>2. IsTracedItem(chain, Nested(1, FirstTask))
  BY <1>1, FirstTaskTraced DEF IsTracedItem, Nested
<1>3. AreTraced(chain, work)
  BY <1>2 DEF Init, AreTraced
<1> QED
  BY <1>1, <1>3 DEF Init, Traced, Idle

LEMMA ApplyPluginTraced ==
  ASSUME TaskAssumption, Inv, Traced, ApplyPlugin
  PROVE  Traced'
<1> DEFINE item == Head(work)
<1>1. IsItem(chain, item) /\ IsWork(chain, Tail(work))
  BY LessWork DEF Inv, ApplyPlugin
<1>2. IsTracedItem(chain, item) /\ AreTraced(chain, Tail(work))
  BY LessTraced DEF Inv, IsWork, Traced, ApplyPlugin
<1>3. /\ item.level \in 1..Len(chain) /\ IsTask(item.task)
      /\ item.level \in DOMAIN chain /\ IsTraced(chain, item.level - 1, item.task)
  <2>1. item.level \in 0..Len(chain) /\ item.level # 0
    BY <1>1 DEF IsItem, ApplyPlugin
  <2>2. Len(chain) \in Nat /\ DOMAIN chain = 1..Len(chain)
    BY DEF Inv, IsChain, IsList
  <2> HIDE DEF item
  <2> QED
    BY <1>1, <1>2, <2>1, <2>2 DEF IsItem, IsTracedItem
<1>4. /\ IsWork(chain, Apply(chain, item.level, item.task))
      /\ AreTraced(chain, Apply(chain, item.level, item.task))
  BY <1>3, ApplyIsWork, ApplyIsTraced DEF Inv
<1>5. AreTraced(chain, work')
  BY <1>1, <1>2, <1>4, MoreTraced DEF ApplyPlugin, IsWork
<1> QED
  BY <1>5 DEF Traced, ApplyPlugin

LEMMA StartExpansionTraced ==
  ASSUME Inv, Traced, StartExpansion
  PROVE  Traced'
<1> DEFINE item == Head(work)
           env == Overlay(environ, item.task.env)
<1>1. IsTracedItem(chain, item) /\ AreTraced(chain, Tail(work))
  BY LessTraced DEF Inv, IsWork, Traced, StartExpansion
<1>2. IsComplete(chain, item.task)
  BY <1>1 DEF IsTracedItem, StartExpansion
<1>3. environ = ProcessEnvironment
  BY DEF Traced, StartExpansion
<1>4. IsUnion(env, item.task)
  BY <1>3 DEF IsUnion, Overlay
<1>5. shell' = [phase |-> "expanding", cached |-> environ, args |-> <<>>,
                task |-> item.task, env |-> env]
  BY DEF StartExpansion
<1> HIDE DEF env, item
<1>6. /\ shell'.phase = "expanding" /\ shell'.cached = ProcessEnvironment
      /\ shell'.task = item.task /\ shell'.env = env
  BY <1>3, <1>5
<1>7. AreTraced(chain, work')
  BY <1>1 DEF StartExpansion
<1> QED
  BY <1>2, <1>4, <1>6, <1>7 DEF Traced, StartExpansion

LEMMA RunProgramTraced ==
  ASSUME Inv, Traced, RunProgram
  PROVE  Traced'
<1> DEFINE child == [task |-> shell.task, program |-> Binary, args |-> shell.args,
                     dir |-> Absolute(shell.task.dir), env |-> shell.env]
<1>1. IsTracedChild(chain, child)
  BY DEF Traced, RunProgram, IsTracedChild
<1>2. children' = Append(children, child)
  BY DEF RunProgram
<1> HIDE DEF child
<1>3. IsList(children)
  BY DEF Inv, IsHistory
<1>4. \A i \in DOMAIN children' : IsTracedChild(chain, children'[i])
  BY <1>1, <1>2, <1>3, AppendList DEF Traced
<1>5. environ' = ProcessEnvironment /\ shell'.phase = "idle" /\ UNCHANGED <<chain, work>>
  BY DEF Traced, RunProgram, Idle
<1> QED
  BY <1>4, <1>5 DEF Traced

LEMMA NextTraced ==
  ASSUME TaskAssumption, ShellAssumption, Inv, Traced, [Next]_vars
  PROVE  Traced'
<1> USE DEF Traced
<1>0. DOMAIN shell = {"phase", "cached", "env", "task", "args"}
  BY DEF Inv, IsShell
<1>1. CASE UNCHANGED vars
  BY <1>1 DEF vars
<1>2. CASE ApplyPlugin
  BY <1>2, ApplyPluginTraced
<1>3. CASE ExecuteNothing
  <2>1. AreTraced(chain, Tail(work))
    BY <1>3, LessTraced DEF Inv, IsWork, ExecuteNothing
  <2> QED
    BY <1>3, <2>1 DEF ExecuteNothing
<1>4. CASE StartExpansion
  BY <1>4, StartExpansionTraced
<1>5. CASE ExpandWords
  <2>1. /\ shell.phase = "expanding" /\ shell'.phase = "expanded"
        /\ shell'.task = shell.task /\ shell'.env = shell.env
        /\ shell'.cached = shell.cached /\ UNCHANGED <<chain, work, environ, children>>
    BY <1>0, <1>5 DEF ExpandWords
  <2> QED
    BY <2>1
<1>6. CASE RestoreEnvironment
  <2>1. /\ shell.phase = "expanded" /\ shell'.phase = "restored"
        /\ shell'.task = shell.task /\ shell'.env = shell.env
        /\ shell'.cached = shell.cached /\ environ' = shell.cached
        /\ UNCHANGED <<chain, work, children>>
    BY <1>0, <1>6 DEF RestoreEnvironment
  <2> QED
    BY <2>1
<1>7. CASE NoArguments
  <2>1. shell'.phase = "undefined" /\ UNCHANGED <<chain, work, environ, children>>
    BY <1>0, <1>7 DEF NoArguments
  <2> QED
    BY <2>1
<1>8. CASE RunProgram
  BY <1>8, RunProgramTraced
<1>9. CASE ThrowError
  <2>1. /\ shell'.phase \in {"process error", "path not found"}
        /\ UNCHANGED <<chain, work, environ, children>>
    BY <1>0, <1>9 DEF ThrowError
  <2> QED
    BY <2>1
<1>10. CASE Done
  BY <1>1, <1>10 DEF Done
<1> QED
  BY <1>1, <1>2, <1>3, <1>4, <1>5, <1>6, <1>7, <1>8, <1>9, <1>10 DEF Next

\* What was substituted down to the plugin that registered a task was
\* substituted down to the last one.
LEMMA TracedVariables ==
  ASSUME NEW sections, IsChain(sections), NEW task, IsComplete(sections, task)
  PROVE  HasOwnVariables(sections, Len(sections), task)
<1>1. PICK last \in DOMAIN sections : IsTraced(sections, last, task)
  BY DEF IsComplete
<1>2. /\ last \in 0..Len(sections) /\ 1 \in DOMAIN sections
      /\ \A k \in 1..last : k \in 1..Len(sections) /\ k \in DOMAIN sections
  BY DEF IsChain, IsList
<1>3. \A level \in DOMAIN sections :
        Substituted(sections, level, last)
          \subseteq Substituted(sections, level, Len(sections))
  BY <1>2, SubstitutedGrows
<1> SUFFICES ASSUME NEW name \in DOMAIN task.env \ {PWD}
             PROVE  \/ IsFromProcess(sections, Len(sections), name, task.env[name])
                    \/ IsFromSection(sections, Len(sections), task, name, task.env[name])
  BY DEF HasOwnVariables
<1>4. CASE IsFromProcess(sections, last, name, task.env[name])
  BY <1>2, <1>3, <1>4 DEF IsFromProcess
<1>5. CASE IsFromSection(sections, last, task, name, task.env[name])
  BY <1>2, <1>3, <1>5 DEF IsFromSection
<1> QED
  BY <1>1, <1>4, <1>5 DEF IsTraced, HasOwnVariables

LEMMA TracedOrigin ==
  ASSUME TaskAssumption, Inv, Traced,
         NEW i \in DOMAIN children, NEW name \in DOMAIN children[i].env \ {PWD}
  PROVE  LET value == children[i].env[name]
         IN IsOfProcess(name, value) \/ IsOfSections(name, value, children[i].task)
<1> SUFFICES LET value == children[i].env[name]
             IN \/ IsFromProcess(chain, Len(chain), name, value)
                \/ IsFromSection(chain, Len(chain), children[i].task, name, value)
  <2>1. DOMAIN chain = 1..Len(chain)
    BY DEF Inv, IsChain, IsList
  <2> QED
    BY <2>1 DEF IsFromProcess, IsFromSection, IsOfProcess, IsOfSections, Substitutions
<1> DEFINE child == children[i]
<1>1. IsTracedChild(chain, child)
  BY DEF Traced
<1> HIDE DEF child
<1>2. HasOwnVariables(chain, Len(chain), child.task)
  BY <1>1, TracedVariables DEF IsTracedChild, Inv
<1>3. name \in DOMAIN child.env \ {PWD}
  BY DEF child
<1>4. CASE name \in DOMAIN child.task.env /\ child.env[name] = child.task.env[name]
  BY <1>2, <1>3, <1>4 DEF HasOwnVariables, child
<1>5. CASE name \in DOMAIN ProcessEnvironment /\ child.env[name] = ProcessEnvironment[name]
  <2>1. IsList(<<>>) /\ DOMAIN <<>> = {}
    BY MadeLists
  <2>2. ReplaceToken(name, <<>>) = name
    BY <2>1, ReplaceTokenSame
  <2>3. IsList(ProcessEnvironment[name])
    BY <1>5 DEF TaskAssumption, IsEnvironment
  <2>4. Replace(ProcessEnvironment[name], <<>>) = child.env[name]
    BY <1>5, <2>1, <2>3, ReplaceTextSame
  <2>5. <<>> \in Substituted(chain, 1, Len(chain))
    <3>1. 1 \in DOMAIN chain /\ 0 \in 0..Len(chain)
      BY DEF Inv, IsChain, IsList
    <3> QED
      BY <3>1, SubstitutedIsRecursive, SubstitutedGrows DEF Inv
  <2> QED
    BY <1>5, <2>2, <2>4, <2>5 DEF IsFromProcess, child
<1> QED
  BY <1>1, <1>3, <1>4, <1>5 DEF IsTracedChild, IsUnion

\* A set of levels has an innermost one.
LEMMA InnermostOf ==
  ASSUME NEW N \in Nat, NEW S \in SUBSET (1..N), S # {}
  PROVE  Max(S) \in S /\ \A k \in S : k <= Max(S)
<1> DEFINE T == {N - k : k \in S}
<1>1. T \in SUBSET Nat /\ T # {}
  <2>1. \A k \in S : k \in 1..N
    OBVIOUS
  <2>2. \A k \in 1..N : N - k \in Nat
    OBVIOUS
  <2>3. \A t \in T : t \in Nat
    BY <2>1, <2>2
  <2>4. T # {}
    OBVIOUS
  <2> QED
    BY <2>3, <2>4
<1>2. PICK n \in T : \A m \in T : n <= m
  <2> HIDE DEF T
  <2> QED
    BY <1>1, LeastNat
<1>3. PICK j \in S : n = N - j
  BY <1>2
<1>4. \A k \in S : j >= k
  <2> TAKE k \in S
  <2>1. N - k \in T
    OBVIOUS
  <2>2. n <= N - k
    BY <1>2, <2>1
  <2>3. k \in 1..N /\ j \in 1..N
    OBVIOUS
  <2> QED
    BY <1>3, <2>2, <2>3
<1>5. \E x \in S : \A y \in S : x >= y
  BY <1>4
<1>6. Max(S) \in S /\ \A y \in S : Max(S) >= y
  BY <1>5, Zenon DEF Max
<1> DEFINE max == Max(S)
<1>7. max \in S /\ \A y \in S : max >= y
  BY <1>6
<1> HIDE DEF max
<1>8. max \in S /\ \A y \in S : y <= max
  BY <1>7
<1> QED
  BY <1>8 DEF max

\* A section inside of lcov that is told apart, and that the task of lcov never
\* reached, has not contributed to it.
LEMMA InsideOfLcov ==
  ASSUME Inv, Traced, NEW last \in DOMAIN chain,
         NEW inner \in DOMAIN chain, IsToldApart(chain, last, inner),
         NEW task, HasGivenWords(chain, last, task),
         NEW s \in Substitutions(inner)
  PROVE  ~Contributed(chain[inner], s, task)
<1> SUFFICES ASSUME Contributed(chain[inner], s, task) PROVE FALSE
  OBVIOUS
<1>1. chain \in Chains /\ IsChain(chain)
  BY DEF Inv, Traced
<1>2. DOMAIN chain = 1..Len(chain) /\ Len(chain) \in Nat
  BY <1>1 DEF IsChain, IsList
<1>4. PICK w \in DOMAIN chain[inner].words :
        \E token \in Range(chain[inner].words[w]) :
            /\ token \notin Given(chain, last)
            /\ \A l \in DOMAIN chain : token \notin KeysOf(chain[l])
  BY DEF IsToldApart
<1> DEFINE word == chain[inner].words[w]
<1>5. PICK token \in Range(word) :
            /\ token \notin Given(chain, last)
            /\ \A l \in DOMAIN chain : token \notin KeysOf(chain[l])
  BY <1>4
<1>6. Replace(word, s) \in Range(task.words)
  BY <1>4 DEF Contributed
<1> HIDE DEF word
<1>7. PICK i \in DOMAIN word : word[i] = token
  BY <1>5 DEF Range
<1>8. IsSubstitution(chain, s)
  <2>1. Len(chain) \in 0..Len(chain)
    BY <1>2
  <2> QED
    BY <1>1, <2>1, SubstitutedIsRecursive DEF Substitutions
<1>9. ReplaceToken(token, s) = token
  <2>1. \A j \in DOMAIN s : s[j].key # token
    BY <1>5, <1>8 DEF IsSubstitution
  <2>2. IsList(s)
    BY <1>8 DEF IsSubstitution
  <2> QED
    BY <2>1, <2>2, ReplaceTokenSame
<1>10. token \in Range(Replace(word, s))
  <2>1. i \in DOMAIN Replace(word, s) /\ Replace(word, s)[i] = token
    BY <1>7, <1>9 DEF Replace
  <2> QED
    BY <2>1 DEF Range
<1>11. PICK v \in DOMAIN task.words : task.words[v] = Replace(word, s)
  BY <1>6 DEF Range
<1>12. token \in Given(chain, last)
  BY <1>10, <1>11 DEF HasGivenWords
<1> QED
  BY <1>5, <1>12

\* The sections that a task is configured in, told by its words, are the ones
\* it went through.
LEMMA SettingIsSetters ==
  ASSUME ToldApart, Inv, Traced,
         NEW last \in DOMAIN chain, last = Len(chain) \/ chain[last].plugin = "lcov",
         NEW task, HasGivenWords(chain, last, task), HasOwnDirectory(chain, last, task)
  PROVE  Setting(task) = Setters(chain, last)
<1>1. IsChain(chain) /\ DOMAIN chain = 1..Len(chain) /\ Len(chain) \in Nat
  BY DEF Inv, IsChain, IsList
<1>2. ASSUME NEW level \in Setting(task) PROVE level \in Setters(chain, last)
  <2>1. /\ level \in 1..Len(chain)
        /\ Honours(chain[level]) /\ chain[level].dir # NotSet
        /\ \E s \in Substitutions(level) : Contributed(chain[level], s, task)
    BY <1>1 DEF Setting
  <2>2. level \in Setters(chain, Len(chain))
    BY <2>1 DEF Setters
  <2>3. CASE level <= last
    <3>1. level \in 1..last
      BY <1>1, <2>1, <2>3
    <3> QED
      BY <2>1, <3>1 DEF Setters
  <2>4. CASE last < level
    <3>1. chain[last].plugin = "lcov"
      BY <1>1, <2>1, <2>4
    <3>2. IsToldApart(chain, last, level)
      BY <2>2, <2>4, <3>1 DEF ToldApart, Traced
    <3> QED
      BY <1>1, <2>1, <3>2, InsideOfLcov
  <2> QED
    BY <1>1, <2>1, <2>3, <2>4
<1>3. ASSUME NEW level \in Setters(chain, last) PROVE level \in Setting(task)
  <2>1. /\ level \in 1..last
        /\ Honours(chain[level]) /\ chain[level].dir # NotSet
    BY DEF Setters
  <2>2. level \in DOMAIN chain /\ last \in 0..Len(chain)
    BY <1>1, <2>1
  <2>3. PICK s \in Substituted(chain, level, last) : Contributed(chain[level], s, task)
    BY DEF HasOwnDirectory
  <2>4. s \in Substitutions(level)
    BY <1>1, <2>2, <2>3, SubstitutedGrows DEF Substitutions
  <2> QED
    BY <2>1, <2>2, <2>3, <2>4 DEF Setting
<1> QED
  BY <1>2, <1>3

\* The same for those that set a variable
LEMMA NamingIsNamers ==
  ASSUME NamesToldApart, Inv, Traced,
         NEW last \in DOMAIN chain, last = Len(chain) \/ chain[last].plugin = "lcov",
         NEW task, HasGivenWords(chain, last, task),
         NEW name, HasNamed(chain, last, task, name)
  PROVE  Naming(name, task) = Namers(chain, last, name)
<1>1. IsChain(chain) /\ DOMAIN chain = 1..Len(chain) /\ Len(chain) \in Nat
  BY DEF Inv, IsChain, IsList
<1>2. ASSUME NEW level \in Naming(name, task) PROVE level \in Namers(chain, last, name)
  <2>1. /\ level \in 1..Len(chain)
        /\ Honours(chain[level]) /\ name \in DOMAIN GetEnvironment(chain[level])
        /\ \E s \in Substitutions(level) : Contributed(chain[level], s, task)
    BY <1>1 DEF Naming
  <2>2. level \in Namers(chain, Len(chain), name)
    BY <2>1 DEF Namers
  <2>3. CASE level <= last
    <3>1. level \in 1..last
      BY <1>1, <2>1, <2>3
    <3> QED
      BY <2>1, <3>1 DEF Namers
  <2>4. CASE last < level
    <3>1. chain[last].plugin = "lcov"
      BY <1>1, <2>1, <2>4
    <3>2. IsToldApart(chain, last, level)
      BY <2>2, <2>4, <3>1 DEF NamesToldApart, Traced
    <3> QED
      BY <1>1, <2>1, <3>2, InsideOfLcov
  <2> QED
    BY <1>1, <2>1, <2>3, <2>4
<1>3. ASSUME NEW level \in Namers(chain, last, name) PROVE level \in Naming(name, task)
  <2>1. /\ level \in 1..last
        /\ Honours(chain[level]) /\ name \in DOMAIN GetEnvironment(chain[level])
    BY DEF Namers
  <2>2. level \in DOMAIN chain /\ last \in 0..Len(chain)
    BY <1>1, <2>1
  <2>3. PICK s \in Substituted(chain, level, last) : Contributed(chain[level], s, task)
    BY DEF HasNamed
  <2>4. s \in Substitutions(level)
    BY <1>1, <2>2, <2>3, SubstitutedGrows DEF Substitutions
  <2> QED
    BY <2>1, <2>2, <2>3, <2>4 DEF Naming
<1> QED
  BY <1>2, <1>3

\* A variable that is named like no pattern is that of the innermost section.
LEMMA TracedNames ==
  ASSUME NamesToldApart, PatternsComeLast, Inv, Traced,
         NEW i \in DOMAIN children, NEW name, IsPlain(chain, name)
  PROVE  IsOfInnermost(name, children[i])
<1> DEFINE child == children[i]
           task == child.task
           naming == Naming(name, task)
           innermost == Max(naming)
<1>1. IsChain(chain) /\ DOMAIN chain = 1..Len(chain) /\ Len(chain) \in Nat
      /\ 1 \in DOMAIN chain
  BY DEF Inv, IsChain, IsList
<1>2. IsTracedChild(chain, child) /\ IsChild(child)
  BY DEF Traced, Inv, IsHistory
<1>3. PICK last \in DOMAIN chain :
        /\ last = Len(chain) \/ chain[last].plugin = "lcov"
        /\ IsTraced(chain, last, task)
  BY <1>2 DEF IsTracedChild, IsComplete
<1>4. Covers(child.env, task.env)
  BY <1>2 DEF IsChild
<1> HIDE DEF child
<1>5. HasGivenWords(chain, last, task) /\ HasNamed(chain, last, task, name)
  <2>1. PatternsLast(chain)
    BY DEF PatternsComeLast, Traced
  <2> QED
    BY <1>3, <2>1 DEF IsTraced, HasNamedVariables
<1>6. naming = Namers(chain, last, name)
  BY <1>3, <1>5, NamingIsNamers
<1>7. \A n \in DOMAIN task.env : n \in DOMAIN child.env /\ child.env[n] = task.env[n]
  BY <1>4 DEF Covers
<1> HIDE DEF task
<1>8. last \in 0..Len(chain)
  BY <1>1
<1>9. \A level \in DOMAIN chain : \A s \in Substituted(chain, level, last) :
        s \in Substitutions(level)
  BY <1>1, <1>8, SubstitutedGrows DEF Substitutions
<1>10. CASE naming = {}
  <2>1. ASSUME name \in DOMAIN ProcessEnvironment
        PROVE  /\ name \in DOMAIN child.env
               /\ \E s \in Substitutions(1) :
                    child.env[name] = Replace(ProcessEnvironment[name], s)
    BY <1>1, <1>5, <1>6, <1>7, <1>9, <1>10, <2>1 DEF HasNamed
  <2> QED
    BY <1>10, <2>1 DEF IsOfInnermost, child, task
<1>11. CASE naming # {}
  <2> HIDE DEF naming
  <2>1. naming \in SUBSET (1..Len(chain))
    BY <1>1, <1>6, <1>8 DEF Namers
  <2>2. innermost \in naming /\ \A k \in naming : k <= innermost
    BY <1>1, <1>11, <2>1, InnermostOf
  <2> HIDE DEF innermost
  <2>3. PICK s \in Substituted(chain, innermost, last) :
          /\ Contributed(chain[innermost], s, task)
          /\ name \in DOMAIN task.env
          /\ task.env[name] = Replace(chain[innermost].env[name], s)
    BY <1>5, <1>6, <2>2 DEF HasNamed
  <2>4. s \in Substitutions(innermost)
    BY <1>1, <1>9, <2>1, <2>2
  <2>5. /\ name \in DOMAIN child.env
        /\ \E t \in Substitutions(innermost) :
             /\ Contributed(chain[innermost], t, task)
             /\ child.env[name] = Replace(chain[innermost].env[name], t)
    BY <1>7, <2>3, <2>4
  <2> QED
    BY <1>11, <2>5 DEF IsOfInnermost, innermost, naming, task, child
<1> QED
  BY <1>10, <1>11

LEMMA TracedEnvironment ==
  ASSUME TaskAssumption, NamesToldApart, PatternsComeLast, Inv, Traced
  PROVE  EnvironmentIsItsOwn
<1>1. ASSUME NEW i \in DOMAIN children, NEW name \in DOMAIN children[i].env \ {PWD}
      PROVE  \/ IsOfProcess(name, children[i].env[name])
             \/ IsOfSections(name, children[i].env[name], children[i].task)
  BY TracedOrigin
<1>2. ASSUME NEW i \in DOMAIN children, NEW name, name \notin Keys \cup {PWD}
      PROVE  IsOfInnermost(name, children[i])
  BY <1>2, TracedNames DEF IsPlain, KeysIn, Keys
<1> QED
  BY <1>1, <1>2 DEF EnvironmentIsItsOwn

LEMMA TracedDirectory ==
  ASSUME ToldApart, Inv, Traced
  PROVE  DirectoryOfInnermost
<1>1. IsChain(chain) /\ DOMAIN chain = 1..Len(chain) /\ Len(chain) \in Nat
  BY DEF Inv, IsChain, IsList
<1>2. ASSUME NEW child, IsTracedChild(chain, child)
      PROVE  IF Setting(child.task) = {} THEN child.dir = Absolute(SettingsDirectory)
             ELSE \E s \in Substitutions(Max(Setting(child.task))) :
                    /\ Contributed(chain[Max(Setting(child.task))], s, child.task)
                    /\ child.dir
                         \in Meanings(Replace(chain[Max(Setting(child.task))].dir, s))
  <2> DEFINE task == child.task
             setting == Setting(task)
             innermost == Max(setting)
  <2>1. PICK last \in DOMAIN chain :
          /\ last = Len(chain) \/ chain[last].plugin = "lcov"
          /\ IsTraced(chain, last, task)
    BY <1>2 DEF IsTracedChild, IsComplete
  <2>2. child.dir = Absolute(task.dir)
    BY <1>2 DEF IsTracedChild
  <2> HIDE DEF task
  <2>3. HasGivenWords(chain, last, task) /\ HasOwnDirectory(chain, last, task)
    BY <2>1 DEF IsTraced
  <2>4. setting = Setters(chain, last)
    BY <2>1, <2>3, SettingIsSetters
  <2>5. CASE setting = {}
    BY <2>2, <2>3, <2>4, <2>5 DEF HasOwnDirectory, task
  <2>6. CASE setting # {}
    <3> HIDE DEF setting
    <3>1. setting \in SUBSET (1..Len(chain)) /\ last \in 0..Len(chain)
      BY <1>1, <2>4 DEF Setters
    <3>2. innermost \in setting /\ \A k \in setting : k <= innermost
      BY <1>1, <2>6, <3>1, InnermostOf
    <3> HIDE DEF innermost
    <3>3. PICK s \in Substituted(chain, innermost, last) :
            /\ Contributed(chain[innermost], s, task)
            /\ task.dir = Replace(chain[innermost].dir, s)
      BY <2>3, <2>4, <3>2 DEF HasOwnDirectory
    <3>4. s \in Substitutions(innermost)
      BY <1>1, <3>1, <3>2, <3>3, SubstitutedGrows DEF Substitutions
    <3>5. \A dir : Absolute(dir) \in Meanings(dir)
      BY DEF Absolute, Meanings, IsAbsolute
    <3>6. \E t \in Substitutions(innermost) :
            /\ Contributed(chain[innermost], t, task)
            /\ child.dir \in Meanings(Replace(chain[innermost].dir, t))
      BY <2>2, <3>3, <3>4, <3>5
    <3> QED
      BY <2>6, <3>6 DEF innermost, setting, task
  <2> QED
    BY <2>5, <2>6 DEF task
<1>3. \A i \in DOMAIN children : IsTracedChild(chain, children[i])
  BY DEF Traced
<1> QED
  BY <1>2, <1>3 DEF DirectoryOfInnermost

-----------------------------------------------------------------------------
(* The theorems *)

\* What PosixShell::execute and the plugins hand to one another is well formed.
THEOREM ShellTypeCorrect ==
  ASSUME TaskAssumption, ShellAssumption
  PROVE  Spec => []TypeOK
<1>1. Inv => TypeOK
  BY DEF Inv, IsWork, IsItem, IsShell, IsHistory, IsChild, TypeOK
<1> QED
  BY <1>1, InitInv, NextInv, PTL DEF Spec

\* Every program has the directory it runs in as PWD, for any nesting of
\* sections and any patterns in the names of variables.
THEOREM PwdIsTheDirectory ==
  ASSUME TaskAssumption, ShellAssumption
  PROVE  Spec => []PwdIsWorkingDirectory
<1>1. Inv => PwdIsWorkingDirectory
  BY DEF Inv, IsHistory, IsChild, PwdIsWorkingDirectory
<1> QED
  BY <1>1, InitInv, NextInv, PTL DEF Spec

\* A program given by name is looked for in the directory of the task first.
THEOREM DirectoryBeforePath ==
  ASSUME TaskAssumption, ShellAssumption
  PROVE  Spec => []ProgramOfDirectory
<1>1. Inv => ProgramOfDirectory
  BY DEF Inv, IsHistory, IsChild, IsOfDirectory, ProgramOfDirectory
<1> QED
  BY <1>1, InitInv, NextInv, PTL DEF Spec

LEMMA HeldTokens ==
  ASSUME NEW args, NEW text, Holds(args, Tokens(text))
  PROVE  Range(text) \ {Space} \subseteq UNION {Range(a) \ {Space} : a \in Range(args)}
BY DEF Holds, Tokens, Range

\* A word of a task that refers to a variable of the task reaches the program
\* with all the tokens of its value, whatever other words expand to.
THEOREM WordsReachTheProgram ==
  ASSUME TaskAssumption, ShellAssumption
  PROVE  Spec => []WordsMatchEnvironment
<1>1. Inv => WordsMatchEnvironment
  <2>1. ASSUME Inv, NEW i \in DOMAIN children,
               NEW w \in DOMAIN children[i].task.words
        PROVE  LET child == children[i]
                   word == child.task.words[w]
               IN Len(word) = 1 /\ word[1] \in DOMAIN Reference
                  /\ Reference[word[1]] \in DOMAIN child.task.env =>
                    Range(child.env[Reference[word[1]]]) \ {Space}
                      \subseteq UNION {Range(a) \ {Space} : a \in Range(child.args)}
    <3> DEFINE child == children[i]
               word == child.task.words[w]
               value == child.env[Reference[word[1]]]
    <3>1. IsChild(child)
      BY <2>1 DEF Inv, IsHistory
    <3>2. Reaches(word, child.task.env, child.args)
      BY <3>1 DEF IsChild, IsExpanded
    <3>3. Covers(child.env, child.task.env)
      BY <3>1 DEF IsChild
    <3> HIDE DEF child, word
    <3>4. ASSUME Len(word) = 1, word[1] \in DOMAIN Reference,
                 Reference[word[1]] \in DOMAIN child.task.env
          PROVE  Holds(child.args, Tokens(value))
      BY <3>2, <3>3, <3>4 DEF Reaches, Covers
    <3> HIDE DEF value
    <3>5. Holds(child.args, Tokens(value)) =>
            Range(value) \ {Space}
              \subseteq UNION {Range(a) \ {Space} : a \in Range(child.args)}
      BY HeldTokens
    <3>6. Len(word) = 1 /\ word[1] \in DOMAIN Reference
          /\ Reference[word[1]] \in DOMAIN child.task.env =>
            Range(value) \ {Space}
              \subseteq UNION {Range(a) \ {Space} : a \in Range(child.args)}
      BY <3>4, <3>5
    <3> QED
      BY <3>6 DEF child, word, value
  <2> QED
    BY <2>1 DEF WordsMatchEnvironment
<1> QED
  BY <1>1, InitInv, NextInv, PTL DEF Spec

\* PosixShell::execute leaves environ as it found it and the plugins hand on
\* their own copies of a task: a program has its variables from the process and
\* from the sections that its task went through, whatever was executed before,
\* and under each name the value of the innermost section that sets it by name.
THEOREM VariablesComeFromItsSections ==
  ASSUME TaskAssumption, ShellAssumption, NamesToldApart, PatternsComeLast
  PROVE  Spec => []EnvironmentIsItsOwn
<1>1. Inv /\ Traced => EnvironmentIsItsOwn
  BY TracedEnvironment
<1> QED
  BY <1>1, InitInv, NextInv, InitTraced, NextTraced, PTL DEF Spec

\* A program runs where the innermost section of its task that sets a directory
\* says, with what is substituted in it from there on, whatever a relative one is
\* relative to, if the words of a task tell which sections it is configured in.
THEOREM InnermostDirectoryWins ==
  ASSUME TaskAssumption, ShellAssumption, ToldApart
  PROVE  Spec => []DirectoryOfInnermost
<1>1. Inv /\ Traced => DirectoryOfInnermost
  BY TracedDirectory
<1> QED
  BY <1>1, InitInv, NextInv, InitTraced, NextTraced, PTL DEF Spec

=============================================================================
