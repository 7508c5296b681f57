------------------------------ MODULE SettingsTree ------------------------------
(***************************************************************************)
(* Two settings trees in the hands of the program: the settings, which are *)
(* added to, cleared and replaced, and the variables of a plugin, which    *)
(* take over values from them.  Any order of calls is possible.            *)
(***************************************************************************)
EXTENDS SettingsNode, FiniteSets

CONSTANTS
  Keys,          \* the keys and values
  Lists,         \* function: whether values are unique -> the lists of them
                 \*   that are passed to add and replace
  WritePaths,    \* the paths that are passed to add, replace and clear
  MaxDepth,      \* bound: the longest path that exists
  MaxWrites      \* bound: the number of calls that write

Path == UNION {[1..n -> Keys] : n \in 0..MaxDepth}

SettingsTreeAssumption ==
  /\ Unset \notin Keys
  /\ Lists \in [BOOLEAN -> SUBSET Seq(Keys)]
  /\ MaxDepth \in Nat /\ MaxWrites \in Nat
  /\ \A path \in WritePaths : path \in Path /\ Len(path) < MaxDepth

VARIABLES
  settings,     \* the root of the settings
  variables,    \* the root of the variables
  unique,       \* whether no value is added to a node that has it already
  writes        \* the number of calls so far

vars == <<settings, variables, unique, writes>>

Init ==
  /\ settings = NewNode("exec-helper")
  /\ variables = NewNode("variables")
  /\ unique \in BOOLEAN
  /\ writes = 0

MayWrite == writes < MaxWrites /\ writes' = writes + 1 /\ UNCHANGED unique

\* Whether the values are new to the node, and to each other
AreNew(values, node) ==
  /\ \A i, j \in DOMAIN values : values[i] = values[j] => i = j
  /\ \A i \in DOMAIN values : ~ContainsKey(node, values[i])

AddAction(path, values) ==
  /\ MayWrite
  /\ unique => AreNew(values, At(CreatePath(settings, path), path))
  /\ settings' = Add(settings, path, values)
  /\ UNCHANGED variables

ClearAction(path) ==
  /\ MayWrite
  /\ path # <<>>
  /\ settings' = Clear(settings, path)
  /\ UNCHANGED variables

ReplaceAction(path, values) ==
  /\ MayWrite
  /\ path # <<>>
  /\ unique => AreNew(values, NewNode(Last(path)))
  /\ settings' = Replace(settings, path, values)
  /\ UNCHANGED variables

\* variables[key] = settings[key], the second of which is const
AssignAction(key) ==
  /\ MayWrite
  /\ ContainsKey(settings, key)
  /\ variables' =
       OnChild(variables, key,
               LAMBDA child : CopyAssign(child, AtKey(settings, key)))
  /\ UNCHANGED settings

\* variables.overwrite(settings)
OverwriteAction ==
  /\ MayWrite
  /\ variables' = Overwrite(variables, settings)
  /\ UNCHANGED settings

\* settings.swap(variables), which is also what a move assignment does
SwapAction ==
  /\ MayWrite
  /\ settings' = variables
  /\ variables' = settings

Next ==
  \/ \E path \in WritePaths, values \in Lists[unique] :
       AddAction(path, values) \/ ReplaceAction(path, values)
  \/ \E path \in WritePaths : ClearAction(path)
  \/ \E key \in Keys : AssignAction(key)
  \/ OverwriteAction
  \/ SwapAction

Spec == Init /\ [][Next]_vars

-----------------------------------------------------------------------------
\* Only the first of several children with the same key ever has values of its
\* own (everything written along the path finds the first one), so nothing
\* comes to light when it is removed.
NamesakesAreLeaves ==
  \A tree \in {settings, variables} :
    \A path \in {p \in Path : ContainsPath(tree, p)} :
      LET node == At(tree, path)
      IN \A i, j \in DOMAIN Children(node) :
           i < j /\ node.values[i].key = node.values[j].key
             => node.values[j].values = Unset

\* What was written last is what is read, and nothing is read of what was
\* cleared: with duplicates too, although clear() removes the first child
\* with the key only.
LastWriteIsRead ==
  [][\A path \in WritePaths :
       /\ ClearAction(path) => Get(settings', path) = Unset
       /\ \A values \in Lists[unique] :
            ReplaceAction(path, values) => Get(settings', path) = values]_vars

\* Without duplicates, a tree is a map from paths to values.
Dictionary(tree) ==
  [path \in {p \in Path : ContainsPath(tree, p)} |-> Values(At(tree, path))]

MapOf(tree) == IF unique THEN Dictionary(tree) ELSE Dictionary(NewNode(Unset))

Map == INSTANCE SettingsMap WITH
         Paths <- WritePaths,
         Lists <- Lists[TRUE],
         settings <- MapOf(settings),
         variables <- MapOf(variables)

ImplementsMap == Map!Spec

=============================================================================
