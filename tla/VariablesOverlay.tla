---------------------------- MODULE VariablesOverlay ----------------------------
(***************************************************************************)
(* From the settings file to the variables of a plugin.  When the file is  *)
(* parsed, ExecutePlugin::apply takes the default variables of the plugin  *)
(* and overlays them with the section of the settings that is named like   *)
(* the plugin, and with the subsection in it that is named like the        *)
(* command the plugin is executed for.                                     *)
(***************************************************************************)
EXTENDS SettingsFile

CONSTANTS
  Command,         \* the plugin
  InitialCommand,  \* the command it is executed for
  Options,         \* the names of options
  Defaults         \* the variables a plugin may start with

OverlayAssumption ==
  {Command, InitialCommand} \cup Options \subseteq Keys

VARIABLES
  defaults,     \* what Plugin::getVariablesMap returned
  variables,    \* newVariablesMap
  sections,     \* the keys left to index
  application   \* "not yet", "running", "done", or "undefined" behaviour

overlayVars == <<defaults, variables, sections, application>>

OverlayInit ==
  /\ Init
  /\ defaults \in Defaults
  /\ variables = defaults
  /\ sections = <<>>
  /\ application = "not yet"

\* One turn of the loop in apply
Apply ==
  /\ Registered /\ application = "not yet"
  /\ sections' = << <<Command>>, <<Command, InitialCommand>> >>
  /\ application' = "running"
  /\ UNCHANGED <<vars, defaults, variables>>

\* The loop at the end of index(): variables[key] = section[key], for each key.
TakeOver(map, section) ==
  LET Take(taken, key) ==
        OnChild(taken, key,
                LAMBDA child : CopyAssign(child, AtKey(section, key)))
  IN ForEachKey(Take, map, GetOr(section, <<>>, <<>>))

\* Mutant: an option that is there already is left alone.
IndexNewOnly(map, key) ==
  LET section == At(configuration, key)
  IN [map EXCEPT !.values = Children(map) \o
       SelectSeq(Children(section), LAMBDA n : ~ContainsKey(map, n.key))]

\* index(), for a key that has values
Index(map, key) ==
  TakeOver(Replace(map, <<Last(key)>>, Get(configuration, key)),
           At(configuration, key))

Advance ==
  /\ application = "running" /\ sections # <<>>
  /\ sections' = Tail(sections)
  /\ UNCHANGED <<vars, defaults>>

SkipKey ==
  /\ Advance
  /\ ~ContainsPath(configuration, Head(sections))
  /\ UNCHANGED <<variables, application>>

IndexKey ==
  /\ Advance
  /\ Get(configuration, Head(sections)) # Unset
  /\ variables' = Index(variables, Head(sections))
  /\ UNCHANGED application

\* The key exists and has no values: an optional without a value is
\* dereferenced.
IndexKeyWithoutValues ==
  /\ Advance
  /\ ContainsPath(configuration, Head(sections))
  /\ Get(configuration, Head(sections)) = Unset
  /\ application' = "undefined"
  /\ UNCHANGED variables

FinishOverlay ==
  /\ application = "running" /\ sections = <<>>
  /\ application' = "done"
  /\ UNCHANGED <<vars, defaults, variables, sections>>

OverlayNext ==
  \/ /\ Registered => application \in {"done", "undefined"}
     /\ Next /\ UNCHANGED overlayVars
  \/ Apply \/ SkipKey \/ IndexKey \/ IndexKeyWithoutValues \/ FinishOverlay

OverlaySpec == OverlayInit /\ [][OverlayNext]_<<vars, overlayVars>>

-----------------------------------------------------------------------------
Said(path) == DocumentValues(file, path)

\* The most specific place of the file that has values for an option
Place(option) ==
  IF Said(<<Command, InitialCommand, option>>) # <<>>
  THEN <<Command, InitialCommand>>
  ELSE IF Said(<<Command, option>>) # <<>> THEN <<Command>> ELSE <<>>

\* A plugin that is applied sees, for each of its options, all that the most
\* specific place of the file says and nothing of any other: lists are not
\* merged and maps are not mixed.  Defaults only count where the file is
\* silent.  Names of plugins and commands are not names of options.
MostSpecificWins ==
  application = "done" =>
    \A option \in Options \ {Command, InitialCommand} :
      LET place == Place(option)
      IN \A path \in {<<option>>} \cup {<<option, key>> : key \in Keys} :
           GetOr(variables, path, <<>>) =
             IF place = <<>> THEN GetOr(defaults, path, <<>>)
             ELSE Said(place \o path)

=============================================================================
