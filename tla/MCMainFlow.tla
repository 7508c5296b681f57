------------------------------- MODULE MCMainFlow -------------------------------
(***************************************************************************)
(* What execHelperMain makes of a command line, and what the settings file *)
(* it reads becomes, from the document to the variables of a plugin.  A    *)
(* behaviour is one or the other: the main flow takes the patterns of a    *)
(* file as they are.                                                       *)
(*                                                                         *)
(* Command lines: one or two words, up to two options after them, and a    *)
(* settings file with no, one or two patterns, the default one or another. *)
(* Settings files: those of SampleFiles.                                   *)
(***************************************************************************)
EXTENDS MainFlow

CONSTANTS NotScalar, Broken

VARIABLES
  file, configuration, pending, leftToRead, patternsRead, handler, outcome,
  defaults, variables, sections, application

MCNumbers == [n \in {"0", "3", "-1", "17"} |->
               CASE n = "0" -> 0 [] n = "3" -> 3 [] n = "-1" -> -1 [] OTHER -> 17]
MCAbbreviations ==
  {<<"ver", "version">>, <<"ver", "verbose">>, <<"he", "help">>, <<"mo", "mode">>,
   <<"auto", "auto-complete">>}
MCFiles == {".exec-helper", "other"}

Use(option, values) == [option |-> option, values |-> values]
Pattern(key, values, long, short) ==
  [key |-> key, values |-> values, longOption |-> long, shortOption |-> short]

Words == {<<>>, <<Use(NoOption, <<"build">>)>>, <<Use(NoOption, <<"build", "run">>)>>}
Flagged == {Use(f, <<>>) : f \in {"help", "version", "list-plugins", "dry-run", "n",
                                  "keep-going", "ver", "he"}}
           \cup {Use("k", <<"run">>)}
Valued == {Use("jobs", <<"auto">>), Use("j", <<"3">>), Use("j", <<"17", "run">>),
           Use("j", <<"-1">>), Use("j", <<"0">>), Use("jobs", <<"many">>),
           Use("settings-file", <<"other">>), Use("auto-complete", <<"b">>),
           Use("z", <<"run", "build">>), Use("additional-search-path", <<"here">>)}
Patterned == {Use("mode", <<"debug", "release">>), Use("m", <<"debug">>),
              Use("mo", <<"release">>)}
Uses == Flagged \cup Valued \cup Patterned

MCCommandLines ==
  {w \o u : w \in Words, u \in {<<>>} \cup {<<x>> : x \in Uses}}
  \cup {w \o <<x, y>> : w \in Words \ {<<>>}, x \in Uses, y \in Uses}

Mode == Pattern("MODE", <<"default">>, "mode", "m")
MCContents ==
  {NoFile, Malformed,
   Settings(<<Mode, Pattern("OTHER", <<"x", "y">>, Unset, "o")>>),
   Settings(<<Mode, Pattern("ALSO", <<"z">>, "mode", Unset)>>)}
MCConcurrency == {0, 4}

-----------------------------------------------------------------------------
Samples == INSTANCE SampleFiles
MCKeys == Samples!SampleKeys
MCDocuments == Samples!SampleDocuments
MCDefaults == Samples!SampleDefaults

Reading == INSTANCE VariablesOverlay
  WITH Malformed <- Broken,
       Keys <- MCKeys,
       Documents <- MCDocuments,
       Defaults <- MCDefaults,
       Characters <- Samples!SampleCharacters,
       ReadPaths <- Samples!SampleReadPaths,
       Options <- Samples!SampleOptions,
       Command <- "a",
       InitialCommand <- "b",
       left <- leftToRead,
       patterns <- patternsRead

ASSUME ReadingAssumption ==
  Reading!SettingsFileAssumption /\ Reading!OverlayAssumption

fileVars == <<file, configuration, pending, leftToRead, patternsRead, handler,
              outcome, defaults, variables, sections, application>>

\* Where one of the two is while the other goes on.  The values come first, so
\* that TLC does not combine all of one with all of the other.
MainRests ==
  /\ args = <<>> /\ concurrency = 0
  /\ files = [name \in Files |-> NoFile]
  /\ Init
FileRests ==
  /\ file = Broken
  /\ defaults = CHOOSE map \in MCDefaults : TRUE
  /\ Reading!OverlayInit

StartInit == (FileRests /\ Init) \/ (MainRests /\ Reading!OverlayInit)

StartNext ==
  \/ FileRests /\ Next /\ UNCHANGED fileVars
  \/ MainRests /\ Reading!OverlayNext /\ UNCHANGED vars

StartSpec == StartInit /\ [][StartNext]_<<vars, fileVars>>

\* The settings say at every path what the file says there, only the patterns
\* are gone.
TreeIsFile == Reading!TreeIsFile

\* The patterns that are registered are those the file gives default values for,
\* each with what the file says of it and of no other pattern.
PatternsAsDeclared == Reading!PatternsAsDeclared

\* A document is translated as a whole or not at all.
RefusedForAReason == Reading!RefusedForAReason

\* A plugin sees, for each of its options, all that the most specific place of
\* the file that has values for it says, and nothing of any other.
MostSpecificWins == Reading!MostSpecificWins

=============================================================================
