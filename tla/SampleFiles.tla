------------------------------ MODULE SampleFiles ------------------------------
(***************************************************************************)
(* Values for the constants of VariablesOverlay: documents with sections a *)
(* and b, in maps and in lists of maps, with keys that occur twice; with   *)
(* one or two patterns, p and b, declared in one section or two; and with  *)
(* options p and q of the plugin a, executed for b, each absent, named, a  *)
(* list or a map in the section and in the subsection.                     *)
(***************************************************************************)
EXTENDS YamlDocument

SampleKeys == {"a", "b", "p", "q", "patterns", "default-values", "short-option", "long-option"}
SampleReadPaths == {<<k>> : k \in SampleKeys} \cup ({"a", "b", "patterns"} \X {"a", "b"})
SampleCharacters == {"a"}

Leaves == {Null, Scalar("a"), Sequence(<<>>),
           Sequence(<<Scalar("b"), Null, Scalar("a")>>),
           Map(<<Pair("a", Null), Pair("b", Scalar("p"))>>)}

Commands ==
  {Map(<<Pair(k, v), Pair(l, w)>>) :
     k \in {"a", NotScalar}, l \in {"a", "b"}, v \in Leaves, w \in Leaves}
SomeCommands == {Map(<<Pair(k, Scalar("b"))>>) : k \in {"a", "b"}}

Listed(S) == {Sequence(<<d, e>>) : d \in S, e \in S}

PatternMaps ==
  {Map(fields) : fields \in
    {v \o <<Pair("long-option", Scalar("b"))>> \o s :
       v \in {<<>>, <<Pair("default-values", Scalar("a"))>>,
              <<Pair("default-values", Sequence(<<Scalar("b"), Scalar("a")>>))>>},
       s \in {<<>>, <<Pair("short-option", Scalar("p"))>>,
              <<Pair("short-option", Scalar("a"))>>}}}
    \cup {Scalar("b"), Null}

PatternSections ==
  {Map(<<Pair("p", m), Pair("b", n)>>) : m \in PatternMaps, n \in PatternMaps}
SomePatternSections ==
  {Map(<<Pair(k, m)>>) : k \in {"p", "b"}, m \in PatternMaps}

\* Option p is a list where it has values, q a map.
Sayings == {<<>>, <<Null>>, <<Sequence(<<Scalar("a"), Scalar("p")>>)>>,
            <<Map(<<Pair("p", Scalar("a"))>>)>>}
SaidOf(key, saying) == IF saying = <<>> THEN <<>> ELSE <<Pair(key, saying[1])>>
SectionsOf(S) ==
  {Map(SaidOf("p", x) \o SaidOf("q", y) \o sub) : x \in Sayings, y \in Sayings, sub \in S}
Subsections == {<<>>} \cup {<<Pair("b", section)>> : section \in SectionsOf({<<>>})}
PluginSections == {Map(<<Pair("a", section)>>) : section \in SectionsOf(Subsections)}

SampleOptions == {"p", "q"}
SampleDefaults ==
  {Add(NewNode("a"), <<"p">>, <<"b">>),
   Add(Add(NewNode("a"), <<"q">>, <<"b">>), <<"q", "b">>, <<"p">>)}

SampleDocuments ==
  PluginSections
  \cup {Null, Scalar("a"), Map(<<>>), Sequence(<<Scalar("a"), Scalar("a")>>)}
  \cup Commands \cup Listed(SomeCommands \cup {Scalar("a")})
  \cup {Map(<<Pair("patterns", s), Pair("a", Scalar("b"))>>) : s \in PatternSections}
  \cup {Sequence(<<Map(<<Pair("patterns", s)>>), Scalar("a"), Map(<<Pair("patterns", t)>>)>>) :
          s \in SomePatternSections, t \in SomePatternSections}
  \cup {Map(<<Pair("b", Null), Pair("patterns", d)>>) : d \in Listed(SomePatternSections)}

=============================================================================
