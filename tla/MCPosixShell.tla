----------------------------- MODULE MCPosixShell -----------------------------
(***************************************************************************)
(* Small instances of PosixShell: one section, or two nested ones, with    *)
(* the settings that interact: variables named like a pattern, PWD and     *)
(* PATH, values that are empty or have spaces, relative and absolute       *)
(* directories, and programs that are found in several places or nowhere.  *)
(***************************************************************************)
EXTENDS PosixShell

MCCurrentPath == <<"/c">>
MCSettingsDirectory == <<"/s">>
MCRoots == {"/c", "/s", "/usr"}
MCNameOrder == <<"A", "B", "PATH", "PWD", "sub", "{K}", "{L}">>
MCProcessEnvironment == "PATH" :> <<"/usr">> @@ "B" :> <<"b", "{K}">> @@ "PWD" :> <<"/c">>
MCPrograms == {<<"/s", "cc">>, <<"/c", "sub", "cc">>, <<"/usr", "cc">>,
               <<"/usr", "ls">>}
MCReference == "$A" :> "A" @@ "$B" :> "B" @@ "$PWD" :> "PWD"
MCIllegal == {"&"}

Words == { <<>>,
           << <<"cc">>, <<"$PWD">> >>,
           << <<"ls">>, <<"{K}">>, <<"$A">> >>,
           << <<"ls">>, <<"&">>, <<"$B">> >>,
           << <<"$A">> >>,
           << <<"/usr", "no">> >>,
           << <<"no">> >> }

NoPatterns == <<>>
Environments ==
  { NoVariables, "A" :> <<>>, "A" :> <<"x", "_", "y">>, "B" :> NotSet,
    "A" :> <<"1">> @@ "{K}" :> <<"2">>,
    "{K}" :> <<"{K}">>, "{L}" :> <<"1">> @@ "{K}" :> <<"2">>,
    "PWD" :> <<"/usr">>, "PATH" :> <<"/s">> @@ "{K}" :> <<"{L}">> }

Dirs == {NotSet, <<"sub">>, <<"/usr">>, <<"{K}">>}

Pattern(key, values) == [key |-> key, values |-> values]
Patterns == { NoPatterns,
              << Pattern("{K}", <<"A", "PWD">>) >>,
              << Pattern("{K}", <<"B", "{L}">>), Pattern("{L}", <<"A", "sub">>) >> }

Sections(plugins, words, envs, dirs, patterns) ==
  [plugin : plugins, words : words, env : envs, dir : dirs, patterns : patterns]

MCSingle ==
  {<<s>> : s \in {t \in Sections({"script", "command-line-command", "pmd"},
                                 Words, Environments, Dirs, Patterns) :
                    t.plugin = "script" \/ t.words # <<>>}}

Outer ==
  Sections({"script", "valgrind", "lcov"}, {<< <<"cc">>, <<"{K}">> >>},
           {NoVariables, "A" :> <<"o">> @@ "B" :> <<"o">>, "{K}" :> <<"{L}">>},
           {NotSet, <<"sub">>},
           { NoPatterns, << Pattern("{K}", <<"B", "sub">>) >> })
Inner ==
  Sections({"script", "command-line-command"},
           {<< <<"$A">>, <<"ls">>, <<"in">> >>},
           {NoVariables, "A" :> <<"i">>, "{K}" :> <<"i">>, "{L}" :> <<"{K}">>,
            "PWD" :> <<"i">>},
           {NotSet, <<"/usr">>, <<"{K}">>},
           { NoPatterns, << Pattern("{K}", <<"A", "B">>) >>,
             << Pattern("{L}", <<"A">>) >> })

MCChains == MCSingle \cup {<<o, i>> : o \in Outer, i \in Inner}

=============================================================================
