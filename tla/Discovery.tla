------------------------------- MODULE Discovery -------------------------------
(***************************************************************************)
(* Where exec-helper looks for things: for the settings file in the        *)
(* current directory, those above it and the home directory, and for       *)
(* plugins in the directories of the installation, of the settings file    *)
(* and of the command line.  A directory is the sequence of the names that *)
(* lead to it from the root.  It may disappear, or become unreadable, at   *)
(* any time plugins are read from it.                                      *)
(***************************************************************************)
EXTENDS Integers, Sequences, SequencesExt

CONSTANTS
  CurrentPaths,  \* the directories exec-helper may be called in
  Homes,         \* values HOME may have
  NotSet,        \* no HOME, no such key in the settings, no settings file found
  SettingsIn,    \* the sets of directories that may have a settings file
  Denied,        \* the sets of directories that may not be searched
  PathLists,     \* lists of additional search paths
  InstallPath,   \* the directory plugins are installed in
  Content,       \* function: the directories to look for plugins in that exist
                 \*   -> their entries, [stem, extension, regular]
  BuiltIn        \* the names of the plugins in C++

\* What stands for nothing is no directory, directories and lists of search
\* paths are sequences, and a directory has no two entries of one name.
ASSUME DiscoveryAssumption ==
  /\ NotSet \notin DOMAIN Content
  /\ \A files \in SettingsIn : NotSet \notin files
  /\ \A cwd \in CurrentPaths : cwd \in Seq(Range(cwd))
  /\ \A paths \in PathLists : paths \in Seq(Range(paths))
  /\ \A dir \in DOMAIN Content : \A entry, other \in Content[dir] :
       (entry.stem = other.stem /\ entry.extension = other.extension)
         => entry = other

VARIABLES
  world,        \* [cwd, home, files, denied]: what there is outside
  asked,        \* [commandLine, settings]: the additional search paths
  phase,        \* where the search is
  at,           \* the directory getAllParentDirectories is at
  searchPaths,  \* the directories to look for the settings file in
  settingsFile, \* the directory it was found in
  pluginPath,   \* the directories left to look for plugins in
  unread,       \* the entries left of the one that is being read
  plugins,      \* function: names of plugins -> where they come from
  failed        \* history: the positions, from the end, of those that failed

vars == <<world, asked, phase, at, searchPaths, settingsFile, pluginPath,
          unread, plugins, failed>>

Phases == {"walking", "searching", "discovering", "reading", "done",
           "terminated"}

\* The parent path of the root is the root.
ParentPath(dir) == IF dir = <<>> THEN dir ELSE Front(dir)

Init ==
  /\ world \in [cwd : CurrentPaths, home : Homes \cup {NotSet},
                files : SettingsIn, denied : Denied]
  /\ asked \in [commandLine : PathLists, settings : PathLists \cup {NotSet}]
  /\ phase = "walking"
  /\ at = world.cwd
  /\ searchPaths = <<>>
  /\ settingsFile = NotSet
  /\ pluginPath = <<>>
  /\ unread = {}
  /\ plugins = [name \in BuiltIn |-> "built in"]
  /\ failed = {}

-----------------------------------------------------------------------------
(* The settings file *)

\* Mutant: the root itself is not searched.
WalkToRoot ==
  /\ phase = "walking"
  /\ at = ParentPath(at)
  /\ searchPaths' = searchPaths
       \o (IF world.home = NotSet THEN <<>> ELSE <<world.home>>)
  /\ phase' = "searching"
  /\ UNCHANGED <<world, asked, at, settingsFile, pluginPath, unread, plugins,
                 failed>>

\* getAllParentDirectories
WalkUp ==
  /\ phase = "walking"
  /\ at # ParentPath(at)
  /\ searchPaths' = Append(searchPaths, at)
  /\ at' = ParentPath(at)
  /\ UNCHANGED <<world, asked, phase, settingsFile, pluginPath, unread, plugins,
                 failed>>

\* The root is added last, and the home directory after it.
ReachRoot ==
  /\ phase = "walking"
  /\ at = ParentPath(at)
  /\ searchPaths' = Append(searchPaths, at)
       \o (IF world.home = NotSet THEN <<>> ELSE <<world.home>>)
  /\ phase' = "searching"
  /\ UNCHANGED <<world, asked, at, settingsFile, pluginPath, unread, plugins,
                 failed>>

\* A path is relative to the directory of the settings file, or to the current
\* directory when there is none.
Resolve(path, base) == IF path.absolute THEN path.names ELSE base \o path.names

\* Mutant: the paths are added in the order they are listed in.
AddInOrder(paths, toAdd, base) ==
  paths \o [i \in DOMAIN toAdd |-> Resolve(toAdd[i], base)]

\* The paths come from the one of the lowest priority to that of the highest.
AddAdditionalSearchPaths(paths, toAdd, base) ==
  paths \o Reverse([i \in DOMAIN toAdd |-> Resolve(toAdd[i], base)])

GetAdditionalSearchPaths(settings, base) ==
  LET configured == IF settings = NotSet THEN <<InstallPath>>
                    ELSE AddAdditionalSearchPaths(<<InstallPath>>, settings, base)
  IN AddAdditionalSearchPaths(configured, asked.commandLine, base)

\* Nothing below a directory that may not be searched can be asked for.
Forbidden(dir) == \E denied \in world.denied : IsPrefix(denied, dir)

FindSettingsFile ==
  /\ phase = "searching"
  /\ searchPaths # <<>>
  /\ Head(searchPaths) \in world.files /\ ~Forbidden(Head(searchPaths))
  /\ settingsFile' = Head(searchPaths)
  /\ pluginPath' = GetAdditionalSearchPaths(asked.settings, Head(searchPaths))
  /\ phase' = "discovering"
  /\ UNCHANGED <<world, asked, at, searchPaths, unread, plugins, failed>>

TryNext ==
  /\ phase = "searching"
  /\ searchPaths # <<>>
  /\ Head(searchPaths) \notin world.files /\ ~Forbidden(Head(searchPaths))
  /\ searchPaths' = Tail(searchPaths)
  /\ UNCHANGED <<world, asked, phase, at, settingsFile, pluginPath, unread,
                 plugins, failed>>

\* filesystem::exists throws, in a function that may not throw.
MayNotSearch ==
  /\ phase = "searching"
  /\ searchPaths # <<>>
  /\ Forbidden(Head(searchPaths))
  /\ phase' = "terminated"
  /\ UNCHANGED <<world, asked, at, searchPaths, settingsFile, pluginPath, unread,
                 plugins, failed>>

\* Without a settings file plugins are only looked for in order to list them.
FindNothing ==
  /\ phase = "searching"
  /\ searchPaths = <<>>
  /\ pluginPath' = GetAdditionalSearchPaths(NotSet, world.cwd)
  /\ phase' = "discovering"
  /\ UNCHANGED <<world, asked, at, searchPaths, settingsFile, unread, plugins,
                 failed>>

-----------------------------------------------------------------------------
(* discoverPlugins *)

OpenDirectory ==
  /\ phase = "discovering"
  /\ pluginPath # <<>>
  /\ Head(pluginPath) \in DOMAIN Content
  /\ unread' = Content[Head(pluginPath)]
  /\ phase' = "reading"
  /\ UNCHANGED <<world, asked, at, searchPaths, settingsFile, pluginPath,
                 plugins, failed>>

IsPlugin(entry) == entry.regular /\ entry.extension = ".lua"

\* The plugins with one more, which replaces the one of its name.
WithPlugin(name) ==
  [other \in DOMAIN plugins \cup {name} |->
     IF other = name THEN Head(pluginPath) ELSE plugins[other]]

\* Mutant: the name decides alone.
ReadAnyEntry ==
  /\ phase = "reading"
  /\ \E entry \in unread :
       /\ unread' = unread \ {entry}
       /\ plugins' = IF entry.extension = ".lua"
                     THEN WithPlugin(entry.stem) ELSE plugins
  /\ UNCHANGED <<world, asked, phase, at, searchPaths, settingsFile, pluginPath,
                 failed>>

\* The entries come in any order.  A plugin that is there already is replaced.
ReadEntry ==
  /\ phase = "reading"
  /\ \E entry \in unread :
       /\ unread' = unread \ {entry}
       /\ plugins' = IF IsPlugin(entry)
                     THEN WithPlugin(entry.stem) ELSE plugins
  /\ UNCHANGED <<world, asked, phase, at, searchPaths, settingsFile, pluginPath,
                 failed>>

CloseDirectory ==
  /\ phase = "reading"
  /\ unread = {}
  /\ pluginPath' = Tail(pluginPath)
  /\ phase' = "discovering"
  /\ UNCHANGED <<world, asked, at, searchPaths, settingsFile, unread, plugins,
                 failed>>

\* The directory cannot be opened, or not be read on: the rest of it is skipped.
SkipDirectory ==
  /\ \/ phase = "discovering" /\ pluginPath # <<>>
     \/ phase = "reading"
  /\ pluginPath' = Tail(pluginPath)
  /\ unread' = {}
  /\ phase' = "discovering"
  /\ failed' = failed \cup {Len(pluginPath)}
  /\ UNCHANGED <<world, asked, at, searchPaths, settingsFile, plugins>>

FinishDiscovery ==
  /\ phase = "discovering"
  /\ pluginPath = <<>>
  /\ phase' = "done"
  /\ UNCHANGED <<world, asked, at, searchPaths, settingsFile, pluginPath, unread,
                 plugins, failed>>

Done == phase \in {"done", "terminated"} /\ UNCHANGED vars

Next ==
  \/ WalkUp \/ ReachRoot
  \/ FindSettingsFile \/ TryNext \/ MayNotSearch \/ FindNothing
  \/ OpenDirectory \/ ReadEntry \/ CloseDirectory \/ SkipDirectory
  \/ FinishDiscovery \/ Done

Spec == Init /\ [][Next]_vars

-----------------------------------------------------------------------------
(* Properties *)

\* The directories of exec-helper.rst, the best first.
Preferred ==
  [i \in 1..(Len(world.cwd) + 1) |-> SubSeq(world.cwd, 1, Len(world.cwd) + 1 - i)]
  \o (IF world.home = NotSet THEN <<>> ELSE <<world.home>>)

\* The position of the first directory that is one of these, or zero.
FirstOf(dirs, files) == SelectInSeq(dirs, LAMBDA dir : dir \in files)

\* The settings file that is used is the one in the nearest directory: the
\* current one, its parents up to the root, and the home directory.
NearestSettingsFile ==
  phase \in {"discovering", "reading", "done"} =>
    LET first == FirstOf(Preferred, world.files)
    IN settingsFile = IF first = 0 THEN NotSet ELSE Preferred[first]

\* The search paths of exec-helper-custom-plugins.rst, the best first, when the
\* settings that were read list these ones.
RankedFrom(settings, base) ==
  LET All(paths) == [i \in DOMAIN paths |-> Resolve(paths[i], base)]
  IN All(asked.commandLine) \o All(IF settings = NotSet THEN <<>> ELSE settings)
       \o <<InstallPath>>

Ranked ==
  IF settingsFile = NotSet THEN RankedFrom(NotSet, world.cwd)
  ELSE RankedFrom(asked.settings, settingsFile)

ScriptsOf(dir) == {entry.stem : entry \in {e \in Content[dir] : IsPlugin(e)}}

\* Every script of a directory that could be read is a plugin, or has given way
\* to one of a better directory; a directory that fails costs its own only.
PluginsByPrecedence ==
  phase = "done" =>
    \A i \in DOMAIN Ranked :
      (i \notin failed /\ Ranked[i] \in DOMAIN Content) =>
        \A name \in ScriptsOf(Ranked[i]) :
          /\ name \in DOMAIN plugins
          /\ plugins[name] \in {Ranked[j] : j \in 1..i}

\* A plugin is a script of the directory it comes from, and the ones built in
\* are there in any case.
PluginsAreScripts ==
  /\ BuiltIn \subseteq DOMAIN plugins
  /\ \A name \in DOMAIN plugins :
       \/ name \in BuiltIn /\ plugins[name] = "built in"
       \/ name \in ScriptsOf(plugins[name])

=============================================================================
