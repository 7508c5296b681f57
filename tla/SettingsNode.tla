------------------------------ MODULE SettingsNode ------------------------------
(***************************************************************************)
(* config::SettingsNode, the tree of keys all settings are kept in.  A     *)
(* node has a key and either no collection of children at all or a list of *)
(* them, in which a key may occur more than once: reading and writing      *)
(* follow the first child with the key.  An empty list is not the same as  *)
(* no list.                                                                *)
(***************************************************************************)
EXTENDS Integers, SequencesExt

CONSTANT Unset   \* a node without a collection of children, an empty optional

\* SettingsNode(key)
NewNode(key) == [key |-> key, values |-> Unset]

\* Op(x).  TLC evaluates x once, however often Op uses it.
With(x, Op(_)) == CHOOSE result \in {Op(y) : y \in {x}} : TRUE

Children(node) == IF node.values = Unset THEN <<>> ELSE node.values

-----------------------------------------------------------------------------
\* Reading

ContainsKey(node, key) ==
  \E i \in DOMAIN Children(node) : node.values[i].key = key

\* Mutant: the last child with the key is taken.
LastIndex(node, key) ==
  CHOOSE i \in DOMAIN node.values :
    /\ node.values[i].key = key
    /\ \A j \in DOMAIN node.values : j > i => node.values[j].key # key

FirstIndex(node, key) ==
  CHOOSE i \in DOMAIN node.values :
    /\ node.values[i].key = key
    /\ \A j \in 1..(i - 1) : node.values[j].key # key

AtKey(node, key) == node.values[FirstIndex(node, key)]

At(node, path) ==
  LET below[i \in 0..Len(path)] ==
        IF i = 0 THEN node
        ELSE With(below[i - 1], LAMBDA parent : AtKey(parent, path[i]))
  IN below[Len(path)]

ContainsPath(node, path) ==
  \A i \in 1..Len(path) :
    ContainsKey(At(node, SubSeq(path, 1, i - 1)), path[i])

Values(node) ==
  IF node.values = Unset THEN Unset
  ELSE [i \in DOMAIN node.values |-> node.values[i].key]

Get(node, path) ==
  IF ContainsPath(node, path) THEN Values(At(node, path)) ELSE Unset

GetOr(node, path, default) ==
  IF Get(node, path) = Unset THEN default ELSE Get(node, path)

-----------------------------------------------------------------------------
\* Writing.  Every operation yields the tree afterwards.

\* The tree in which the first node along the path is replaced by another.
Rebuild(tree, path, node) ==
  LET rebuilt[i \in 0..Len(path)] ==
        IF i = Len(path) THEN node
        ELSE With(At(tree, SubSeq(path, 1, i)), LAMBDA parent :
               [parent EXCEPT
                 !.values[FirstIndex(parent, path[i + 1])] = rebuilt[i + 1]])
  IN rebuilt[0]

\* add(newValue), for one value and for a list of them
AddValue(node, value) ==
  [node EXCEPT !.values = Append(Children(node), NewNode(value))]
AddValues(node, values) ==
  [node EXCEPT !.values =
    Children(node) \o [i \in DOMAIN values |-> NewNode(values[i])]]

\* operator[], which creates the child that is not there
CreateKey(node, key) ==
  IF ContainsKey(node, key) THEN node ELSE AddValue(node, key)

\* operator[] on the left of an assignment: the first child with the key,
\* created if there is none, becomes Op of what it is.
OnChild(node, key, Op(_)) ==
  LET grown == CreateKey(node, key)
  IN [grown EXCEPT !.values[FirstIndex(grown, key)] = Op(@)]

\* A tree after one operation for each of the keys, each of them applied to
\* the value of the tree after the ones before it.
ForEachKey(Op(_, _), tree, keys) ==
  FoldLeft(LAMBDA before, key : With(before, LAMBDA t : Op(t, key)), tree, keys)

\* The parents add() creates on its way
CreatePath(tree, path) ==
  LET Grow(grown, i) ==
        LET parent == SubSeq(path, 1, i - 1)
        IN Rebuild(grown, parent, CreateKey(At(grown, parent), path[i]))
  IN ForEachKey(Grow, tree, [i \in DOMAIN path |-> i])

\* add(key, newValues)
Add(tree, path, values) ==
  With(CreatePath(tree, path), LAMBDA grown :
    Rebuild(grown, path, AddValues(At(grown, path), values)))

\* Mutant: the node is emptied instead of removed.
EmptyPath(tree, path) ==
  IF path = <<>> \/ ~ContainsPath(tree, path) THEN tree
  ELSE Rebuild(tree, path, [At(tree, path) EXCEPT !.values = <<>>])

\* clear(keys): the first child with the key goes, its namesakes stay.
Clear(tree, path) ==
  IF path = <<>> \/ ~ContainsPath(tree, path) THEN tree
  ELSE LET parent == At(tree, Front(path))
       IN Rebuild(tree, Front(path),
                  [parent EXCEPT
                    !.values = RemoveAt(@, FirstIndex(parent, Last(path)))])

\* Mutant: the old values are kept.
ReplaceWithoutClear(tree, path, values) == Add(tree, path, values)

\* replace(key, values)
Replace(tree, path, values) == Add(Clear(tree, path), path, values)

\* deepCopy(other): a node without a collection changes nothing.
DeepCopy(node, other) ==
  IF other.values = Unset THEN node ELSE [node EXCEPT !.values = other.values]

\* operator=(other)
CopyAssign(node, other) == DeepCopy([node EXCEPT !.key = other.key], other)

\* overwrite(newSettings): for each key of the new node in turn
Overwrite(tree, new) ==
  LET Write(t, key) ==
        OnChild(t, key, LAMBDA child : DeepCopy(child, AtKey(new, key)))
  IN ForEachKey(Write, tree, GetOr(new, <<>>, <<>>))

=============================================================================
