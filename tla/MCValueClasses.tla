----------------------------- MODULE MCValueClasses -----------------------------
(***************************************************************************)
(* The classes that manage memory, under any sequence of calls: the        *)
(* vectors behind argv and envp, and the settings tree.  They do not know  *)
(* of each other, so that a behaviour calls either one or the other.       *)
(*                                                                         *)
(* Vectors: three objects with up to two strings each, on a heap with just *)
(* enough addresses, so that those of freed strings are used again.        *)
(* Trees: two keys, paths of up to two of them that are written to, lists  *)
(* with and without values, and with the same value twice where that is    *)
(* allowed.                                                                *)
(***************************************************************************)
EXTENDS OwnedStrings, TLC

CONSTANTS
  o1, o2, o3, a1, a2, a3, a4, a5,              \* objects and addresses
  a, b,                                        \* keys
  Unset, MaxDepth, MaxWrites                   \* of the trees

VARIABLES settings, variables, unique, writes

MCObjects == {o1, o2, o3}
MCStrings == {"x", "y"}
MCLists == { <<>>, <<"x">>, <<"x", "y">> }
MCAddresses == {a1, a2, a3, a4, a5}
Symmetric == Permutations(MCAddresses)

Trees == INSTANCE SettingsEquality
  WITH Keys <- {a, b},
       WritePaths <- {<<>>, <<a>>, <<b>>, <<a, b>>},
       Lists <- [distinct \in BOOLEAN |->
                   IF distinct THEN {<<>>, <<a>>, <<b, a>>}
                   ELSE {<<>>, <<b>>, <<a, a>>}]

ASSUME TreesAssumption == Trees!SettingsTreeAssumption

treeVars == <<settings, variables, unique, writes>>

ValuesInit == Init /\ Trees!Init

ValuesNext ==
  \/ Trees!Init /\ unique /\ Next /\ UNCHANGED treeVars
  \/ Init /\ Trees!Next /\ UNCHANGED vars

ValuesSpec == ValuesInit /\ [][ValuesNext]_<<vars, treeVars>>

-----------------------------------------------------------------------------
\* Trees without duplicates are equal exactly when they are the same map from
\* paths to values, up to the order of the values at a path.
EqualityIsContent == Trees!EqualityIsContent

\* Only the first of several children with the same key has values of its own,
\* whatever is added, replaced, assigned and cleared.
NamesakesAreLeaves == Trees!NamesakesAreLeaves

\* The tree and the variables of a plugin are maps from paths to values
\* (SettingsMap) that every call changes as promised.
ImplementsMap == Trees!ImplementsMap

\* What was written last is read, and nothing that was cleared.
LastWriteIsRead == Trees!LastWriteIsRead

=============================================================================
