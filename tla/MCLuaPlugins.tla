------------------------------ MODULE MCLuaPlugins ------------------------------
(***************************************************************************)
(* Where plugins are found, with the settings file that may name their     *)
(* directories, and what the script of one does.  Neither changes anything *)
(* the other reads, so that a behaviour is one of the search or one of a   *)
(* script.                                                                 *)
(*                                                                         *)
(* Search: the settings file may be anywhere between the current directory *)
(* and the root, and in the home directory, which is one of those or       *)
(* beside them; the same plugins are found in several of the search paths, *)
(* some of which do not exist.                                             *)
(* Scripts: sections with and without values, with a list, with a map,     *)
(* with a map in which a value is missing, and with two of the ways to say *)
(* yes.                                                                    *)
(***************************************************************************)
EXTENDS Discovery, LuaScript

MCCurrentPaths == { <<>>, <<"a", "b">> }
MCHomes == { <<"h">>, <<"a">> }
MCSettingsIn == SUBSET { <<>>, <<"a">>, <<"a", "b">>, <<"h">> }
MCDenied == {{}, {<<"h">>}}
MCInstallPath == <<"usr">>

Relative(name) == [absolute |-> FALSE, names |-> <<name>>]
Absolute(name) == [absolute |-> TRUE, names |-> <<name>>]
MCPathLists == { <<>>, << Relative("p"), Absolute("q") >>,
                 << Absolute("q"), Relative("p") >>,
                 << Relative("none"), Absolute("q") >> }

Script(stem) == [stem |-> stem, extension |-> ".lua", regular |-> TRUE]
MCContent ==
  <<"usr">> :> {Script("make"), Script("docker"),
                [stem |-> "make", extension |-> "", regular |-> TRUE]}
  @@ <<"q">> :> {Script("make"), Script("pmd")}
  @@ <<"a", "p">> :> {Script("make"), Script("docker")}
  @@ <<"a", "b", "p">> :> {[stem |-> "make", extension |-> ".lua",
                           regular |-> FALSE]}
  @@ <<"p">> :> {Script("pmd")}

Names(names) == [i \in DOMAIN names |-> [name |-> names[i], value |-> Nil]]
Entry(name, value) == [name |-> name, value |-> value]

MapValues == << Entry("A", "a"), Entry("B", "b") >>
PartialValues == << Entry("A", "a"), Entry("B", Nil) >>

MCNoSection == [key \in {} |-> <<>>]

MCSections ==
  { MCNoSection,
    "directory" :> Names(<<"build">>),
    "directory" :> <<>>,
    "directory" :> MapValues,
    "directory" :> PartialValues,
    "command-line" :> Names(<<"-k", "-n">>),
    "verbose" :> Names(<<"yes">>) @@ "command-line" :> Names(<<"-k">>),
    "verbose" :> Names(<<"true">>) }

MCContext == <<"prefix">>

\* Where one of the two is while the other runs
SearchRests ==
  /\ Init
  /\ world = [cwd |-> <<>>, home |-> NotSet, files |-> {}, denied |-> {}]
  /\ asked = [commandLine |-> <<>>, settings |-> NotSet]
ScriptRests == ScriptInit /\ section = MCNoSection /\ ~flag

PluginsInit == Init /\ ScriptInit /\ (SearchRests \/ ScriptRests)

PluginsNext ==
  \/ ScriptRests /\ Next /\ UNCHANGED scriptVars
  \/ SearchRests /\ ScriptNext /\ UNCHANGED vars

PluginsSpec == PluginsInit /\ [][PluginsNext]_<<vars, scriptVars>>

=============================================================================
