------------------------------ MODULE SettingsFile ------------------------------
(***************************************************************************)
(* config::parseSettingsFile: a document is translated into a settings     *)
(* tree by adding its keys and texts one at a time, the patterns are made  *)
(* of the section of that name, and the section is removed.  The patterns  *)
(* are then registered with a PatternsHandler.                             *)
(*                                                                         *)
(* The recursion of getSubTree is the list of the nodes that are left to   *)
(* visit, each with the keys that lead to it.                              *)
(***************************************************************************)
EXTENDS YamlDocument

CONSTANTS
  Documents,    \* what the settings file may contain
  Malformed,    \* a file the library cannot load
  Characters,   \* the texts of one character
  Keys,         \* the texts of the documents
  ReadPaths     \* bound: the paths that are read

SettingsFileAssumption ==
  /\ Characters \subseteq Keys
  /\ Unset \notin Keys
  /\ ReadPaths \subseteq Seq(Keys) \ {<<>>}

VARIABLES
  file,            \* the document
  configuration,   \* the settings tree
  pending,         \* the nodes of the document that are left
  left,            \* the keys of patterns that are left
  patterns,        \* the patterns made so far
  handler,         \* PatternsHandler::m_patterns
  outcome          \* where the parsing is, or how it ended

vars == <<file, configuration, pending, left, patterns, handler, outcome>>

Init ==
  /\ file \in Documents \cup {Malformed}
  /\ configuration = NewNode("exec-helper")
  /\ pending = <<>> /\ left = <<>> /\ patterns = <<>>
  /\ handler = <<>>
  /\ outcome = "loading"

\* The constructor of Yaml throws out of a function that is noexcept.
LoadFails ==
  /\ outcome = "loading" /\ file = Malformed
  /\ outcome' = "terminated"
  /\ UNCHANGED <<file, configuration, pending, left, patterns, handler>>

GetTree ==
  /\ outcome = "loading" /\ file # Malformed
  /\ IF NodeSize(file) = 0
     THEN outcome' = "refused" /\ UNCHANGED pending
     ELSE outcome' = "reading" /\ pending' = << [keys |-> <<>>, node |-> file] >>
  /\ UNCHANGED <<file, configuration, left, patterns, handler>>

-----------------------------------------------------------------------------
Visits(kinds) ==
  /\ outcome = "reading" /\ pending # <<>>
  /\ Head(pending).node.kind \in kinds
  /\ UNCHANGED <<file, left, patterns, handler>>

Below(item) ==
  [i \in DOMAIN item.node.elements |->
    [keys |-> item.keys, node |-> item.node.elements[i]]]

ReadNull ==
  /\ Visits({"null"})
  /\ pending' = Tail(pending)
  /\ UNCHANGED <<configuration, outcome>>

ReadScalar ==
  /\ Visits({"scalar"})
  /\ configuration' =
       Add(configuration, Head(pending).keys, <<Head(pending).node.text>>)
  /\ pending' = Tail(pending)
  /\ UNCHANGED outcome

ReadElements ==
  /\ Visits({"map", "sequence"})
  /\ pending' = Below(Head(pending)) \o Tail(pending)
  /\ UNCHANGED <<configuration, outcome>>

\* Mutant: a key that is there already is not followed.
ReadNewPair ==
  /\ Visits({"pair"})
  /\ Head(pending).node.key # NotScalar
  /\ LET keys == Append(Head(pending).keys, Head(pending).node.key)
     IN IF ContainsPath(configuration, keys)
        THEN pending' = Tail(pending) /\ UNCHANGED configuration
        ELSE /\ configuration' = Add(configuration, Front(keys), <<Last(keys)>>)
             /\ pending' = <<[keys |-> keys, node |-> Head(pending).node.value]>>
                           \o Tail(pending)
  /\ UNCHANGED outcome

ReadPair ==
  /\ Visits({"pair"})
  /\ Head(pending).node.key # NotScalar
  /\ LET keys == Append(Head(pending).keys, Head(pending).node.key)
     IN /\ configuration' = Add(configuration, Front(keys), <<Last(keys)>>)
        /\ pending' = <<[keys |-> keys, node |-> Head(pending).node.value]>>
                      \o Tail(pending)
  /\ UNCHANGED outcome

\* Mutant: the key is skipped.
SkipBadKey ==
  /\ Visits({"pair"})
  /\ Head(pending).node.key = NotScalar
  /\ pending' = Tail(pending)
  /\ UNCHANGED <<configuration, outcome>>

\* The bad conversion ends the recursion; the tree is left as it is.
ReadBadKey ==
  /\ Visits({"pair"})
  /\ Head(pending).node.key = NotScalar
  /\ outcome' = "refused"
  /\ pending' = <<>>
  /\ UNCHANGED configuration

-----------------------------------------------------------------------------
ProcessPatterns ==
  /\ outcome = "reading" /\ pending = <<>>
  /\ outcome' = "patterns"
  /\ left' = GetOr(configuration, <<"patterns">>, <<>>)
  /\ UNCHANGED <<file, configuration, pending, patterns, handler>>

\* The last of the values of an option, Cast<char> and Cast<string> of them
LastOf(values) == IF values = <<>> THEN Unset ELSE Last(values)
CastCharacter(values) ==
  IF LastOf(values) \in Characters THEN LastOf(values) ELSE Unset

\* Mutant: the options of all patterns are mixed.
SharedPatternMap(key) ==
  Overwrite(NewNode(key), AtKey(AtKey(configuration, "patterns"),
                                GetOr(configuration, <<"patterns">>, <<>>)[1]))

PatternMap(key) ==
  Overwrite(NewNode(key), AtKey(AtKey(configuration, "patterns"), key))

ToPattern(key, map) ==
  [key |-> key,
   values |-> GetOr(map, <<"default-values">>, <<>>),
   shortOption |-> CastCharacter(GetOr(map, <<"short-option">>, <<>>)),
   longOption |-> LastOf(GetOr(map, <<"long-option">>, <<>>))]

\* A pattern without default values is dropped.
MakePattern ==
  /\ outcome = "patterns" /\ left # <<>>
  /\ LET pattern == ToPattern(Head(left), PatternMap(Head(left)))
     IN patterns' = IF pattern.values = <<>> THEN patterns
                    ELSE Append(patterns, pattern)
  /\ left' = Tail(left)
  /\ UNCHANGED <<file, configuration, pending, handler, outcome>>

ClearPatterns ==
  /\ outcome = "patterns" /\ left = <<>>
  /\ configuration' = Clear(configuration, <<"patterns">>)
  /\ outcome' = "parsed"
  /\ left' = patterns
  /\ UNCHANGED <<file, pending, patterns, handler>>

\* PatternsHandler(patterns): of several patterns with a key, the first stays.
AddPattern ==
  /\ outcome = "parsed" /\ left # <<>>
  /\ handler' = IF Head(left).key \in DOMAIN handler THEN handler
                ELSE handler @@ (Head(left).key :> Head(left))
  /\ left' = Tail(left)
  /\ UNCHANGED <<file, configuration, pending, patterns, outcome>>

Parsed == outcome = "parsed"
Registered == Parsed /\ left = <<>>

\* Nothing is left to do.
Done ==
  /\ Registered \/ outcome \in {"refused", "terminated"}
  /\ UNCHANGED vars

Next ==
  \/ LoadFails \/ GetTree
  \/ ReadNull \/ ReadScalar \/ ReadElements \/ ReadPair \/ ReadBadKey
  \/ ProcessPatterns \/ MakePattern \/ ClearPatterns \/ AddPattern
  \/ Done

Spec == Init /\ [][Next]_vars

-----------------------------------------------------------------------------
\* The settings say at every path what the file says there, in its order and
\* whatever lists and maps it is spread over, only the patterns are gone.
TreeIsFile ==
  Parsed =>
    /\ \A path \in ReadPaths :
         GetOr(configuration, path, <<>>) =
           IF path[1] = "patterns" THEN <<>> ELSE DocumentValues(file, path)
    /\ GetOr(configuration, <<>>, <<>>) =
         LET keys == DocumentValues(file, <<>>)
         IN RemoveFirst(keys, "patterns")

\* The patterns that are registered are those the file gives default values
\* for, each with what the file says of it and of no other pattern.
PatternsAsDeclared ==
  Registered =>
    LET Said(key, option) == DocumentValues(file, <<"patterns", key, option>>)
        declared == {key \in ToSet(DocumentValues(file, <<"patterns">>)) :
                       Said(key, "default-values") # <<>>}
    IN /\ DOMAIN handler = declared
       /\ \A key \in declared :
            handler[key] =
              [key |-> key,
               values |-> Said(key, "default-values"),
               shortOption |-> CastCharacter(Said(key, "short-option")),
               longOption |-> LastOf(Said(key, "long-option"))]

\* A document is translated as a whole or not at all: it is refused if it is
\* empty or one of its keys, however deep, is not a text.
RefusedForAReason ==
  /\ outcome = "refused" => NodeSize(file) = 0 \/ HasBadKey(file)
  /\ Parsed => NodeSize(file) # 0 /\ ~HasBadKey(file)

=============================================================================
