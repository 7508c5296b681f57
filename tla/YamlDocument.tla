------------------------------ MODULE YamlDocument ------------------------------
(***************************************************************************)
(* Documents as the YAML library hands them out: nothing, a text, a list   *)
(* of documents, or a list of pairs of a key and a document.  A document   *)
(* is read along a path of keys through all its lists and maps.            *)
(***************************************************************************)
EXTENDS SettingsNode

CONSTANT NotScalar   \* a key that is not a text

Null == [kind |-> "null"]
Scalar(text) == [kind |-> "scalar", text |-> text]
Pair(key, value) == [kind |-> "pair", key |-> key, value |-> value]
Map(pairs) == [kind |-> "map", elements |-> pairs]
Sequence(nodes) == [kind |-> "sequence", elements |-> nodes]

\* YAML::Node::size()
NodeSize(node) ==
  IF node.kind \in {"map", "sequence"} THEN Len(node.elements) ELSE 0

RECURSIVE Flat(_)
Flat(node) ==
  IF node.kind = "sequence"
  THEN FlattenSeq([i \in DOMAIN node.elements |-> Flat(node.elements[i])])
  ELSE <<node>>

Entries(node) ==
  With(SelectSeq(Flat(node), LAMBDA n : n.kind = "map"), LAMBDA maps :
    FlattenSeq([i \in DOMAIN maps |-> maps[i].elements]))

TextsOf(node) ==
  CASE node.kind = "scalar" -> <<node.text>>
    [] node.kind = "map" -> [i \in DOMAIN node.elements |-> node.elements[i].key]
    [] OTHER -> <<>>

RECURSIVE NodesAt(_, _)
NodesAt(node, path) ==
  IF path = <<>> THEN Flat(node)
  ELSE With(SelectSeq(Entries(node), LAMBDA e : e.key = path[1]), LAMBDA named :
         FlattenSeq([i \in DOMAIN named |-> NodesAt(named[i].value, Tail(path))]))

\* What a document says at a path, in the order in which it says it
DocumentValues(node, path) ==
  With(NodesAt(node, path), LAMBDA nodes :
    FlattenSeq([i \in DOMAIN nodes |-> TextsOf(nodes[i])]))

RECURSIVE HasBadKey(_)
HasBadKey(node) ==
  CASE node.kind = "pair" -> node.key = NotScalar \/ HasBadKey(node.value)
    [] node.kind \in {"map", "sequence"} ->
         \E i \in DOMAIN node.elements : HasBadKey(node.elements[i])
    [] OTHER -> FALSE

=============================================================================
