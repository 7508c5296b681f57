---------------------------- MODULE MCExecutePlugin ----------------------------
(***************************************************************************)
(* Settings trees for model-checking ExecutePlugin: every command list up  *)
(* to a small length over a few names, with plugins of every type.         *)
(***************************************************************************)
EXTENDS ExecutePlugin, TLC

MCName == {"all", "build", "tool", "check", "cover", "tidy", "pick", "box",
           "scan", "mem", "commands", "ghost"}

MCPluginType ==
  "tool" :> "command-line-command" @@ "check" :> "valgrind" @@
  "cover" :> "lcov" @@ "tidy" :> "script" @@ "pick" :> "selector" @@
  "box" :> "docker" @@ "scan" :> "clang-static-analyzer" @@
  "mem" :> "memory" @@ "commands" :> "commands"

Unset == <<>>
NoSettings ==
  [commands |-> Unset, combinations |-> Unset, commandLines |-> Unset,
   runCommand |-> Unset, targets |-> Unset, zeroCounters |-> Unset,
   excludes |-> Unset, genHtml |-> Unset, invalid |-> {}]

Lists(S, n) == UNION {[1..m -> S] : m \in 1..n}
Optional(key, value) == IF value = <<>> THEN Unset ELSE key :> value

-----------------------------------------------------------------------------
\* all -> build -> tool, with a plugin that executes build or tool in between
\* and a name nobody configured; tool has command lines for build only.
NestedSettings ==
  {[NoSettings EXCEPT
      !.commands = "all" :> all @@ Optional("build", build)
                  @@ "commands" :> <<"all">>
                  @@ "mem" :> <<"mem">>,  \* means the plugin
      !.commandLines = <<"tool", "build">> :> 1 @@ <<"tool", "tool">> :> 1,
      !.combinations = <<"check">> :> 2,
      !.runCommand = <<"check">> :> run]
    : all \in Lists({"build", "check", "ghost"}, 2),
      build \in {<<>>, <<"tool">>, <<"ghost">>, <<"mem", "tool">>,
                <<"tool", "ghost">>},
      run \in {<<"build">>, <<"tool", "build">>}}

NestedCommandLines == {<<>>, <<"tool", "all">>, <<"commands">>}

\* lcov and the other plugins with optional steps; cover is executed for the
\* command all, whose subsection can override the section of the plugin.
PluginSettings ==
  {[NoSettings EXCEPT
      !.commands = "all" :> <<"cover", "tidy">> @@ "commands" :> <<"all">>,
      !.commandLines = <<"tool">> :> 1,
      !.runCommand = run,
      !.combinations = <<"cover", "all">> :>
                         (IF html \/ excludes # Unset THEN 1 ELSE 2),
      !.zeroCounters = zero, !.excludes = excludes,
      !.genHtml = <<"cover">> :> html,
      !.targets = <<"pick">> :> [k \in 1..2 |-> <<"tool", "mem">>],
      !.invalid = IF html THEN {} ELSE invalid]
    : run \in {Unset, <<"cover">> :> <<"tool">>, <<"cover">> :> <<"pick">>,
               <<"cover">> :> <<"ghost">>
                 @@ <<"cover", "all">> :> <<"tool", "tool">>},
      zero \in {Unset, <<"cover">> :> TRUE @@ <<"cover", "all">> :> FALSE},
      excludes \in {Unset, <<"cover", "all">> :> TRUE},
      html \in BOOLEAN, invalid \in {{}, {<<"tidy", "all">>}}}

\* The plugins that execute targets: one target list per combination.
TargetLists == {<<>>, <<"tool">>, <<"ghost">>, <<"tool", "ghost">>,
                <<"tidy", "tool">>}
TargetPairs == {pair \in TargetLists \X TargetLists :
                  Len(pair[1]) = Len(pair[2])}
TargetSettings ==
  UNION {
    {[NoSettings EXCEPT
        !.commands = "all" :> <<plugin, "tool">> @@ "commands" :> <<"all">>,
        !.commandLines = <<"tool">> :> 1,
        !.combinations = <<plugin>> :> 2 @@ <<"tidy">> :> 2,
        !.targets = targets,
        !.invalid = invalid]
      : targets \in {Unset} \cup {<<plugin>> :> pair : pair \in TargetPairs},
        invalid \in {{}, {<<plugin, "all">>}, {<<"tidy", "tidy">>}}}
    : plugin \in {"pick", "box", "scan"}}

TargetCommandLines == {<<"all">>}

\* A command that leads back to itself, directly or through a plugin; the
\* commands plugin leads back to itself when there is no commands key.
CyclicSettings ==
  {[NoSettings EXCEPT
      !.commands = "all" :> <<"tool", next>> @@ "build" :> <<last>>,
      !.commandLines = <<"tool">> :> 1,
      !.runCommand = <<"check">> :> <<"all">>,
      !.targets = <<"pick">> :> <<<<"build">>, <<"all">>>>]
    : next \in {"all", "build", "check", "pick", "commands"},
      last \in {"all", "tool", "pick"}}

\* A target that nobody configured, by a plugin that does not report it, before
\* a command that nobody configured either and is reported.
UnknownTargetSettings ==
  {[NoSettings EXCEPT
      !.commands = "all" :> <<plugin, "ghost">>,
      !.combinations = <<plugin>> :> 2,
      !.targets = <<plugin>> :> <<<<"ghost">>, <<"ghost">>>>]
    : plugin \in {"pick", "box", "scan"}}

\* Settings of all kinds, but for targets whose failure is the only one
ReportingSettings ==
  {s \in NestedSettings : s.runCommand[<<"check">>] = <<"build">>}
  \cup PluginSettings \cup CyclicSettings \cup UnknownTargetSettings
ReportingCommandLines ==
  {<<>>, <<"all">>, <<"build", "commands">>, <<"cover">>}

=============================================================================
