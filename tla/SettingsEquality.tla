---------------------------- MODULE SettingsEquality ----------------------------
(***************************************************************************)
(* SettingsNode::operator==, which compares the children of one node, in   *)
(* its order, with the first child of the other that has the same key.     *)
(***************************************************************************)
EXTENDS SettingsTree

RECURSIVE EqualNodes(_, _)

\* Mutant: the numbers of children are not compared.
RECURSIVE EqualUpToMore(_, _)
EqualUpToMore(node, other) ==
  /\ node.key = other.key
  /\ (node.values = Unset) = (other.values = Unset)
  /\ \A i \in DOMAIN Children(node) :
       /\ ContainsKey(other, node.values[i].key)
       /\ EqualUpToMore(node.values[i], AtKey(other, node.values[i].key))

EqualNodes(node, other) ==
  /\ node.key = other.key
  /\ (node.values = Unset) = (other.values = Unset)
  /\ Len(Children(node)) = Len(Children(other))
  /\ \A i \in DOMAIN Children(node) :
       /\ ContainsKey(other, node.values[i].key)
       /\ EqualNodes(node.values[i], AtKey(other, node.values[i].key))

\* Trees without duplicates that are equal are the same map from paths to
\* values, up to the order of the values at a path; trees that are not equal
\* differ at some path that can be read.
SameContent(tree, other) ==
  /\ DOMAIN Dictionary(tree) = DOMAIN Dictionary(other)
  /\ \A path \in DOMAIN Dictionary(tree) :
       (Get(tree, path) = Unset) = (Get(other, path) = Unset)

EqualityIsContent ==
  unique =>
    (EqualNodes([settings EXCEPT !.key = variables.key], variables)
       <=> SameContent(settings, variables))

=============================================================================
