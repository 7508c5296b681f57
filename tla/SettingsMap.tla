------------------------------ MODULE SettingsMap ------------------------------
(***************************************************************************)
(* What a settings tree promises to its users, as long as no value is      *)
(* added twice: a map from the paths that exist to the values there, in    *)
(* the order they were added, or to Unset when there never were any.       *)
(***************************************************************************)
EXTENDS Integers, SequencesExt

CONSTANTS
  Keys,      \* the keys and values
  Unset,     \* no values
  Lists,     \* the lists of values that are added at once
  Paths      \* the paths that are written to, the empty one included

VARIABLES
  settings,    \* the map that is written to
  variables    \* another one, that takes over values from it

mapVars == <<settings, variables>>

EmptyMap == [path \in {<<>>} |-> Unset]

Listed(values) == IF values = Unset THEN <<>> ELSE values
Below(map, path) == {p \in DOMAIN map : IsPrefix(path, p)}

\* The values added at each node along a path by adding values at its end:
\* what is missing of the path, and the values.
AddedAt(map, p, path, values) ==
  IF p = path THEN values
  ELSE IF SubSeq(path, 1, Len(p) + 1) \in DOMAIN map THEN <<>>
  ELSE <<path[Len(p) + 1]>>

MapAdd(map, path, values) ==
  LET along == {SubSeq(path, 1, i) : i \in 0..Len(path)}
      new == along \cup {Append(path, v) : v \in ToSet(values)}
      Old(p) == IF p \in DOMAIN map THEN map[p] ELSE Unset
  IN [p \in DOMAIN map \cup new |->
       IF p \notin along THEN Old(p)
       ELSE IF p # path /\ AddedAt(map, p, path, values) = <<>> THEN Old(p)
       ELSE Listed(Old(p)) \o AddedAt(map, p, path, values)]

MapClear(map, path) ==
  IF path \notin DOMAIN map THEN map
  ELSE [p \in DOMAIN map \ Below(map, path) |->
         IF p = Front(path)
         THEN SelectSeq(map[p], LAMBDA v : v # Last(path)) ELSE map[p]]

\* The value of a key of another map takes the place of what is there.  Where
\* the other map has the key without values, two outcomes are allowed: nothing
\* is left of what was there, as in a copy of the content, or all of it is.
MapTakes(map, other, key) ==
  LET path == <<key>>
      kept == MapAdd(map, <<>>, IF path \in DOMAIN map THEN <<>> ELSE <<key>>)
      replaced ==
        [p \in (DOMAIN kept \ Below(kept, path)) \cup Below(other, path) |->
          IF IsPrefix(path, p) THEN other[p] ELSE kept[p]]
  IN {replaced} \cup {taken \in {kept} : other[path] = Unset}

MapTakesAll(map, other) ==
  LET Take(maps, key) == UNION {MapTakes(taken, other, key) : taken \in maps}
  IN FoldLeft(Take, {map}, Listed(other[<<>>]))

Init == settings = EmptyMap /\ variables = EmptyMap

\* Calls that change nothing come first, for they are the cheapest to recognise.
Next ==
  \/ UNCHANGED mapVars
  \/ /\ \E path \in Paths, values \in Lists :
          settings' = MapAdd(settings, path, values)
     /\ UNCHANGED variables
  \/ /\ \E path \in Paths \ {<<>>} : settings' = MapClear(settings, path)
     /\ UNCHANGED variables
  \/ /\ \E path \in Paths \ {<<>>}, values \in Lists :
          settings' = MapAdd(MapClear(settings, path), path, values)
     /\ UNCHANGED variables
  \/ /\ \E key \in Keys : <<key>> \in DOMAIN settings
                          /\ variables' \in MapTakes(variables, settings, key)
     /\ UNCHANGED settings
  \/ /\ variables' \in MapTakesAll(variables, settings)
     /\ UNCHANGED settings
  \/ settings' = variables /\ variables' = settings

Spec == Init /\ [][Next]_mapVars

=============================================================================
