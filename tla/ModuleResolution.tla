-------------------------- MODULE ModuleResolution --------------------------
(***************************************************************************)
(* A workspace on the standard platform: the configurations read from the  *)
(* directories of its modules and cached, the modules that the frontend    *)
(* knows with what their requires resolved to, and what follows when files *)
(* and configurations are written, deleted and renamed behind its back.    *)
(***************************************************************************)
EXTENDS FileRequires, RequireGraph

CONSTANTS
    Paths,          \* the files there may be
    Requirable,     \* the strings a file may require
    Aliases,        \* the aliases a configuration may have: lower case names to
                    \*   records of the value and the name as it is written
    Settable,       \* the configurations written: <<directory, kind>>
    Renamable,      \* the renamings: <<old path, new path>>
    Deletable,      \* the directories that may be deleted
    InitialDisks,   \* what is on disk at first: files to what they require
    MaxChanges      \* bound: how often something on disk changes

\* Where a file may ever be.
Locations == Paths \cup {r[2] : r \in Renamable}

Kinds == {".config.luau", ".luaurc", ".robloxrc"}
Directories == UNION {DirectoriesOf(p) : p \in Locations}

ASSUME PathsAssumption == \A p \in Locations : p \in Seq(STRING \X STRING) /\ p # <<>>
ASSUME NamesAssumption == \A p \in Locations : \A i \in DOMAIN p : p[i][1] \notin {"", ".", "..", "/", "@"}
\* The only dot in a name is that of a source file's extension.
PlainNames(path) == \A i \in DOMAIN path : path[i][1] = "@" \/ path[i][2] \in {""} \cup ToSet(SourceExtensions)
ASSUME ExtensionsAssumption ==
    /\ \A p \in Locations \cup Requirable : PlainNames(p)
    /\ \A a \in Aliases : \A n \in DOMAIN a : PlainNames(a[n].value)
ASSUME AliasesAssumption ==
    /\ Lower("self") = "self" /\ Lower("self") \in STRING
    /\ \A a \in Aliases : /\ IsFiniteSet(DOMAIN a) /\ DOMAIN a \subseteq STRING
                          /\ \A n \in DOMAIN a : /\ Lower(a[n].originalCase) = n
                                                  /\ a[n].value \in Seq(STRING \X STRING)
                                                  /\ \A i \in DOMAIN a[n].value : Lower(a[n].value[i][2]) \in STRING
ASSUME DisksAssumption ==
    /\ \A d \in Deletable : d # <<>> /\ ~IsSourceFile(d)
    /\ \A files \in InitialDisks : /\ DOMAIN files \subseteq Locations /\ IsFiniteSet(DOMAIN files)
                                     /\ \A f \in DOMAIN files : ~IsDirectory(DOMAIN files, f)
ASSUME ChangesAssumption ==
    /\ Settable \subseteq Directories \X Kinds
    /\ MaxChanges \in Nat

NoFile == [aliases |-> [n \in {} |-> n], broken |-> FALSE, there |-> FALSE]
Settings == {NoFile} \cup [aliases : Aliases, broken : BOOLEAN, there : {TRUE}]
NoRequire == <<>>

VARIABLES
    disk,                   \* the files there are, to the string each requires
    settings,               \* the configuration files of each directory
    configCache,            \* directories to the configuration read for each
    languageConfigCache,    \* <<directory, language>> to the configuration
    reported,               \* the configuration files the client shows an error of
    sourceNodes,            \* the modules known to what their requires resolved to
    dirty,                  \* the known modules that are parsed before they are used
    events,                 \* the watched files changed that the server is not told of
    changes,                \* how often something on disk has changed
    outdated                \* history: the modules parsed before a file was created, or
                            \*   before a directory is gone that a file was hidden by, or
                            \*   before the server is told of a configuration written
vars == <<disk, settings, configCache, languageConfigCache, reported, sourceNodes, dirty, events, changes, outdated>>

Files == DOMAIN disk

\* Where a file may be written: what is above it are directories.
IsFree(path) == ~IsDirectory(Files, path) /\ DirectoriesOf(path) \cap Files = {}

-----------------------------------------------------------------------------
(* Configurations.                                                            *)

DefaultConfig == [aliases |-> [n \in {} |-> n], language |-> "luwu"]
EmptyCache == [d \in {} |-> DefaultConfig]

\* What is read before an error stays; an alias keeps where it was written.
ParseConfig(config, file, directory) ==
    [aliases |-> [n \in DOMAIN file.aliases \cup DOMAIN config.aliases |->
        IF n \in DOMAIN file.aliases
        THEN [value |-> file.aliases[n].value, originalCase |-> file.aliases[n].originalCase, location |-> directory]
        ELSE config.aliases[n]],
     language |-> config.language]

\* The files of a directory that are read, .config.luau before one of the others.
IsRead(files, kind) == files[kind].there /\ (kind = ".robloxrc" => ~files[".luaurc"].there)

ReadDirectory(config, directory) ==
    LET files == settings[directory]
        first == IF IsRead(files, ".config.luau") THEN ParseConfig(config, files[".config.luau"], directory) ELSE config
    IN IF IsRead(files, ".luaurc") THEN ParseConfig(first, files[".luaurc"], directory)
       ELSE IF IsRead(files, ".robloxrc") THEN ParseConfig(first, files[".robloxrc"], directory)
       ELSE first

\* An error of .config.luau is shown at .luaurc's place; each reading replaces
\* what was shown at its place.
ReportRead(shown, directory) ==
    LET files == settings[directory]
        Show(places, place, kind) == IF files[kind].broken THEN places \cup {<<directory, place>>}
                                     ELSE places \ {<<directory, place>>}
        first == IF IsRead(files, ".config.luau") THEN Show(shown, ".luaurc", ".config.luau") ELSE shown
    IN IF IsRead(files, ".luaurc") THEN Show(first, ".luaurc", ".luaurc")
       ELSE IF IsRead(files, ".robloxrc") THEN Show(first, ".robloxrc", ".robloxrc")
       ELSE first

\* The caches and the errors shown, and the configuration of a directory.
CacheState(configs, languages, shown) == [configs |-> configs, languages |-> languages, reported |-> shown]
State == CacheState(configCache, languageConfigCache, reported)

With(cache, key, config) == [k \in DOMAIN cache \cup {key} |-> IF k = key THEN config ELSE cache[k]]

\* A directory that was not cached is read after the one above it.
ReadConfig(state, above, directory) ==
    IF directory \in DOMAIN state.configs THEN state
    ELSE LET inherited == IF directory = <<>> THEN DefaultConfig ELSE above.configs[Front(directory)]
         IN CacheState(With(above.configs, directory, ReadDirectory(inherited, directory)),
                       above.languages, ReportRead(above.reported, directory))

ReadConfigRec(state, directory) ==
    LET read[n \in 0..Len(directory)] ==
            ReadConfig(state, IF n = 0 THEN state ELSE read[n - 1], SubSeq(directory, 1, n))
    IN read[Len(directory)]

Language(path) == IF Extension(path) \in {"luau", "lua"} THEN Extension(path) ELSE "luwu"
ConfigDirectory(path) == IF IsInitFile(path) THEN Parent(Parent(path)) ELSE Parent(path)

\* The caches after the configuration of a module is asked for.
LoadConfig(state, path) ==
    LET directory == ConfigDirectory(path)
        read == IF directory = NoUri THEN state ELSE ReadConfigRec(state, directory)
        config == IF directory = NoUri THEN DefaultConfig ELSE read.configs[directory]
        key == <<directory, Language(path)>>
    IN IF config.language = Language(path) \/ key \in DOMAIN read.languages THEN read
       ELSE CacheState(read.configs, With(read.languages, key, [config EXCEPT !.language = Language(path)]),
                       read.reported)

\* The configuration of a module that is loaded.
GetConfig(state, path) ==
    LET directory == ConfigDirectory(path)
        config == IF directory = NoUri THEN DefaultConfig ELSE state.configs[directory]
    IN IF config.language = Language(path) THEN config ELSE state.languages[<<directory, Language(path)>>]

\* Where an alias is written in a directory: the last file that is read and has it.
WrittenIn(directory, name) ==
    {k \in Kinds : IsRead(settings[directory], k) /\ name \in DOMAIN settings[directory][k].aliases}
AliasIn(directory, name) ==
    LET kind == IF ".luaurc" \in WrittenIn(directory, name) THEN ".luaurc"
                ELSE IF ".robloxrc" \in WrittenIn(directory, name) THEN ".robloxrc" ELSE ".config.luau"
        alias == settings[directory][kind].aliases[name]
    IN [value |-> alias.value, originalCase |-> alias.originalCase, location |-> directory]

\* What a directory's configuration is by its files and those above: of each
\* alias the one that is written nearest.
NamesIn(directory) == UNION {DOMAIN settings[directory][k].aliases : k \in {j \in Kinds : IsRead(settings[directory], j)}}
Above(directory) == {SubSeq(directory, 1, n) : n \in 0..Len(directory)}
Holders(directory, name) == {d \in Above(directory) : name \in NamesIn(d)}
Nearest(directory, name) ==
    CHOOSE d \in Holders(directory, name) : \A e \in Holders(directory, name) : Len(e) <= Len(d)
ConfigOnDisk(directory) ==
    [aliases |-> [n \in UNION {NamesIn(d) : d \in Above(directory)} |-> AliasIn(Nearest(directory, n), n)],
     language |-> DefaultConfig.language]

\* Mutant: the configurations that only differ in their language stay.
ClearsDirectories(state) == CacheState(EmptyCache, state.languages, state.reported)

ClearConfigCache(state) == CacheState(EmptyCache, EmptyCache, state.reported)

Caches(state) ==
    /\ configCache' = state.configs
    /\ languageConfigCache' = state.languages
    /\ reported' = state.reported

-----------------------------------------------------------------------------
(* The frontend.                                                              *)

ResolveRequire(state, path, required) ==
    IF required = NoRequire THEN NoUri
    ELSE ResolveStringRequire(Files, GetConfig(state, path).aliases, FALSE, path, required)

\* The modules, those that are dirty, the caches, and what was looked at so far.
Graph(nodes, unread, state, seen) == [nodes |-> nodes, dirty |-> unread, state |-> state, seen |-> seen]

\* A module is read again when it is dirty or not known, and then what it requires;
\* a module without a file is not known.
Read(graph, path, state) ==
    Graph(With(graph.nodes, path, ResolveRequire(state, path, disk[path])),
          graph.dirty \ {path}, state, graph.seen \cup {path})

ReadIfDirty(graph, path) ==
    IF path \in DOMAIN graph.nodes /\ path \notin graph.dirty
    THEN Graph(graph.nodes, graph.dirty, graph.state, graph.seen \cup {path})
    ELSE Read(graph, path, LoadConfig(graph.state, path))

FollowRequire(reading) ==
    IF reading.next \in reading.graph.seen \/ reading.next \notin Files THEN reading
    ELSE LET graph == ReadIfDirty(reading.graph, reading.next)
         IN [graph |-> graph, next |-> graph.nodes[reading.next]]

\* A module requires one other at most.
Parsed(graph, path) ==
    LET read[n \in 0..Cardinality(Files)] ==
            IF n = 0 THEN [graph |-> graph, next |-> path] ELSE FollowRequire(read[n - 1])
    IN read[Cardinality(Files)].graph

ParsedAll(graph, paths) ==
    LET parsed[n \in 0..Len(paths)] == IF n = 0 THEN graph ELSE Parsed(parsed[n - 1], paths[n])
    IN parsed[Len(paths)]

\* What was read again.
Reread(graph) == {m \in graph.seen : m \in dirty \/ m \notin DOMAIN sourceNodes}

Frontend(state) == Graph(sourceNodes, dirty, state, {})
Take(graph) ==
    /\ sourceNodes' = graph.nodes
    /\ dirty' = graph.dirty
    /\ Caches(graph.state)
    /\ outdated' = outdated \ Reread(graph)

\* What requires a module, directly or not, is dirty with it.
Reaches(nodes, m, paths) ==
    LET required[n \in 0..Cardinality(DOMAIN nodes)] ==
            IF n = 0 THEN m
            ELSE IF required[n - 1] \in DOMAIN nodes THEN nodes[required[n - 1]] ELSE NoUri
    IN \E n \in 1..Cardinality(DOMAIN nodes) : required[n] \in paths
Dependents(nodes, paths) == paths \cup {m \in DOMAIN nodes : Reaches(nodes, m, paths)}

MarkDirty(nodes, path) == IF path \in DOMAIN nodes THEN Dependents(nodes, {path}) ELSE {}

-----------------------------------------------------------------------------
(* The server: a module is parsed for a request, or a .config.luau read for   *)
(* it runs into the time limit and is given up.                               *)

Parse(path) ==
    /\ path \in Files
    /\ Take(Parsed(Frontend(State), path))
    /\ UNCHANGED <<disk, settings, events, changes>>

ParseInterrupted(path, directory) ==
    /\ path \in Files
    /\ path \notin DOMAIN sourceNodes \/ path \in dirty
    /\ ConfigDirectory(path) # NoUri /\ IsPrefix(directory, ConfigDirectory(path))
    /\ directory \notin DOMAIN configCache
    /\ settings[directory][".config.luau"].there
    /\ Caches(IF directory = <<>> THEN State ELSE ReadConfigRec(State, Front(directory)))
    /\ UNCHANGED <<disk, settings, sourceNodes, dirty, events, changes, outdated>>

\* The modules an event is about: its file's, or all below its directory.
Concerned(event) ==
    IF event.kind = "file" THEN {event.path}
    ELSE {m \in DOMAIN sourceNodes : event.kind = "directory" /\ IsAncestorOf(event.path, m)}

\* A module that was written again after it was deleted is not deleted.
DeletedModules ==
    {m \in UNION {Concerned(events[i]) : i \in DOMAIN events} :
        \E i \in DOMAIN events :
            /\ m \in Concerned(events[i])
            /\ \A j \in DOMAIN events : j >= i /\ m \in Concerned(events[j]) => events[j].deleted}

MarkedDirty == UNION {UNION {MarkDirty(sourceNodes, m) : m \in Concerned(events[i])} : i \in DOMAIN events}

\* Mutant: what required a deleted module is not told of it.
OnlyLeaves(done) == (done.dirty \cap dirty) \ done.deleted

Cleared(done) == (done.dirty \cup Dependents(sourceNodes, done.deleted)) \ done.deleted

OnDidChangeWatchedFiles ==
    LET done == [dirty |-> dirty \cup MarkedDirty, deleted |-> DeletedModules]
        told == \E i \in DOMAIN events : events[i].kind = "config"
        nodes == [m \in DOMAIN sourceNodes \ done.deleted |-> sourceNodes[m]]
    IN /\ events # <<>>
       /\ Caches(IF told THEN ClearConfigCache(State) ELSE State)
       /\ sourceNodes' = nodes
       /\ dirty' = Cleared(done)
       /\ events' = <<>>
       /\ outdated' = IF told THEN DOMAIN nodes ELSE outdated \cap DOMAIN nodes
       /\ UNCHANGED <<disk, settings, changes>>

-----------------------------------------------------------------------------
(* Renaming: the files that require a renamed one follow it, the client       *)
(* makes the changes and renames, and says so as it does of any change.       *)

\* Mutant: only the files that require a renamed one are looked at.
OnlyDependents(renames) == {m \in DOMAIN sourceNodes : sourceNodes[m] \in DOMAIN renames}

RewrittenModules(renames) ==
    {m \in DOMAIN sourceNodes : sourceNodes[m] \in DOMAIN renames} \cup (DOMAIN renames \cap Files)

\* Each of them parsed in turn; then what each of them requires afterwards.
WillRenameFiles(graph, renames) ==
    [m \in RewrittenModules(renames) \cap DOMAIN graph.nodes \cap Files |->
        LET target == graph.nodes[m]
        IN IF disk[m] = NoRequire \/ (Moved(renames, m) = m /\ Moved(renames, target) = target) THEN disk[m]
           ELSE RewriteRelativeRequire(Moved(renames, m), Moved(renames, target), disk[m])]

TextsAfter(rewritten) == [f \in Files |-> IF f \in DOMAIN rewritten THEN rewritten[f] ELSE disk[f]]
Written(path, deleted) == [kind |-> "file", path |-> path, deleted |-> deleted]

MoveFile(old, new, texts, edited) ==
    /\ disk' = [f \in (Files \ {old}) \cup {new} |-> IF f = new THEN texts[old] ELSE texts[f]]
    /\ events' = events \o SetToSeq({Written(f, FALSE) : f \in edited}) \o <<Written(old, TRUE), Written(new, FALSE)>>
    /\ outdated' = (outdated \cup DOMAIN sourceNodes') \ edited

RewriteAndMove(old, new, texts) == MoveFile(old, new, texts, {f \in Files \ {old} : texts[f] # disk[f]})

WillRename(graph, old, new) ==
    /\ sourceNodes' = graph.nodes
    /\ dirty' = graph.dirty
    /\ Caches(graph.state)
    /\ RewriteAndMove(old, new, TextsAfter(WillRenameFiles(graph, Renaming(old, new))))

RenameFiles(old, new) ==
    /\ changes < MaxChanges
    /\ old \in Files /\ new \notin Files /\ IsFree(new)
    /\ WillRename(ParsedAll(Frontend(State), SetToSeq(RewrittenModules(Renaming(old, new)) \cap Files)), old, new)
    /\ changes' = changes + 1
    /\ UNCHANGED settings

-----------------------------------------------------------------------------
(* The world outside: files and configurations are written and deleted.       *)

Server == <<configCache, languageConfigCache, reported, sourceNodes, dirty>>

WriteFile(path, required) ==
    /\ changes < MaxChanges
    /\ IsFree(path)
    /\ disk' = With(disk, path, required)
    /\ disk' # disk
    /\ events' = Append(events, [kind |-> "file", path |-> path, deleted |-> FALSE])
    /\ changes' = changes + 1
    /\ outdated' = IF path \in Files THEN outdated ELSE outdated \cup DOMAIN sourceNodes
    /\ UNCHANGED <<Server, settings>>

\* A directory that is gone with what was in it hid a file of its name: what
\* requires that name leads to the file now.
Uncovers(kept) ==
    \E gone \in Files \ kept, f \in kept :
        /\ Len(f) < Len(gone)
        /\ ~IsDirectory(kept, SubSeq(gone, 1, Len(f)))
        /\ WithExtension(SubSeq(gone, 1, Len(f)), "") = WithExtension(f, "")

Delete(gone) ==
    /\ disk' = [f \in Files \ gone |-> disk[f]]
    /\ outdated' = IF Uncovers(Files \ gone) THEN DOMAIN sourceNodes ELSE outdated

DeleteFile(path) ==
    /\ changes < MaxChanges
    /\ path \in Files
    /\ Delete({path})
    /\ events' = Append(events, [kind |-> "file", path |-> path, deleted |-> TRUE])
    /\ changes' = changes + 1
    /\ UNCHANGED <<Server, settings>>

\* One event for the directory, and none for what was in it.
DeleteDirectory(path) ==
    /\ changes < MaxChanges
    /\ IsDirectory(Files, path)
    /\ Delete({f \in Files : IsPrefix(path, f)})
    /\ settings' = [d \in Directories |-> IF IsPrefix(path, d) THEN [k \in Kinds |-> NoFile] ELSE settings[d]]
    /\ events' = Append(events, [kind |-> "directory", path |-> path, deleted |-> TRUE])
    /\ changes' = changes + 1
    /\ UNCHANGED Server

WriteSetting(directory, kind, setting) ==
    /\ changes < MaxChanges
    /\ settings[directory][kind] # setting
    /\ settings' = [settings EXCEPT ![directory][kind] = setting]
    /\ events' = Append(events, [kind |-> "config", path |-> directory, deleted |-> ~setting.there])
    /\ changes' = changes + 1
    /\ UNCHANGED <<Server, disk, outdated>>

-----------------------------------------------------------------------------
Init ==
    /\ disk \in InitialDisks
    /\ settings = [d \in Directories |-> [k \in Kinds |-> NoFile]]
    /\ configCache = EmptyCache
    /\ languageConfigCache = EmptyCache
    /\ reported = {}
    /\ sourceNodes = [m \in {} |-> NoUri]
    /\ dirty = {}
    /\ events = <<>>
    /\ changes = 0
    /\ outdated = {}

Next ==
    \/ \E p \in Locations : Parse(p)
    \/ \E p \in Locations, d \in Directories : ParseInterrupted(p, d)
    \/ OnDidChangeWatchedFiles
    \/ \E r \in Renamable : RenameFiles(r[1], r[2])
    \/ \E p \in Paths, s \in Requirable : WriteFile(p, s)
    \/ \E p \in Paths : DeleteFile(p)
    \/ \E d \in Deletable : DeleteDirectory(d)
    \/ \E w \in Settable, s \in Settings : WriteSetting(w[1], w[2], s)

Spec == Init /\ [][Next]_vars
-----------------------------------------------------------------------------
(* What the caches, the frontend and the client show.                         *)

TypeOK ==
    /\ Files \subseteq Locations
    /\ settings \in [Directories -> [Kinds -> Settings]]
    /\ events \in Seq([kind : {"file", "directory", "config"}, path : Locations \cup Directories \cup Deletable,
                       deleted : BOOLEAN])
    /\ DOMAIN configCache \subseteq Directories
    /\ \A key \in DOMAIN languageConfigCache : key[2] \in {"luau", "lua", "luwu"}
    /\ reported \subseteq Directories \X Kinds
    /\ dirty \cup outdated \subseteq DOMAIN sourceNodes
    /\ changes \in 0..MaxChanges

SettingsTold == \A i \in DOMAIN events : events[i].kind # "config"

\* Once the server is told of every configuration written, what it has cached
\* is what the files say now, in every directory and language
\* (WorkspaceFileResolver::readConfigRec, getConfig, clearConfigCache).
CachedConfigurationsAreCurrent ==
    SettingsTold =>
        /\ \A d \in DOMAIN configCache : configCache[d] = ConfigOnDisk(d)
        /\ \A key \in DOMAIN languageConfigCache :
             languageConfigCache[key] =
                 [IF key[1] = NoUri THEN DefaultConfig ELSE ConfigOnDisk(key[1]) EXCEPT !.language = key[2]]

\* The client shows an error of a .luaurc that was read exactly when the file
\* is broken; only a .config.luau next to it shares its place.
BrokenSettingsAreShown ==
    SettingsTold => \A d \in DOMAIN configCache :
        settings[d][".luaurc"].there => (<<d, ".luaurc">> \in reported <=> settings[d][".luaurc"].broken)

Fresh(m) == LET state == LoadConfig(State, m) IN ResolveRequire(state, m, disk[m])

\* Once it is told of every change, what a module's require resolved to is what
\* it resolves to now, or both are no file: deleting and editing files reaches
\* every module it should, and only a file created, a file that a directory hid
\* or a configuration written does not (WorkspaceFolder::onDidChangeWatchedFiles).
CleanRequiresAreCurrent ==
    events = <<>> => \A m \in DOMAIN sourceNodes \ (dirty \cup outdated) :
        /\ m \in Files
        /\ \/ sourceNodes[m] = Fresh(m)
           \/ sourceNodes[m] \notin Files /\ Fresh(m) \notin Files

\* No other file and no directory answers to what names the module.
Unambiguous(files, path) ==
    LET stem == WithExtension(path, "")
        bare == IF IsInitFile(path) THEN Parent(path) ELSE stem
    IN /\ ~\E f \in files \ {path} : IsSourceFile(f) /\ WithExtension(f, "") \in {bare, stem}
       /\ ~\E f \in files : Len(f) > Len(path) /\ WithExtension(SubSeq(f, 1, Len(path)), "") = stem

Styles == {"Auto", "AlwaysRelative", "AlwaysAbsolute"}

\* A string can name the module: it is a source file, and if it is named by its
\* directory then that has no source file's extension.
Nameable(path) == IsSourceFile(path) /\ ~(IsInitFile(path) /\ IsSourceFile(Parent(path)))

\* A string can lead from the file to others by its aliases: none of them hides an
\* init file's "@self", and one that names another does not go up from there.
LeadsByAliases(from, aliases) ==
    /\ RequireBase(from, FALSE) # NoUri
    /\ ~(IsInitFile(from) /\ "self" \in DOMAIN aliases)
    /\ \A n \in DOMAIN aliases : IsAliased(aliases[n].value) =>
          \A i \in 2..Len(aliases[n].value) : aliases[n].value[i] \notin {Up, Slash}

\* The string offered to require a module resolves to that module, from every
\* file and in every style (StringRequireAutoImporter, against resolveStringRequire).
OfferedRequiresResolve ==
    LET known == DOMAIN sourceNodes \cap Files
        named == {to \in known : Nameable(to) /\ Unambiguous(Files, to)}
    IN \A from \in known :
        LET aliases == GetConfig(LoadConfig(State, from), from).aliases
        IN LeadsByAliases(from, aliases) =>
             \A to \in named \ {from}, style \in Styles :
                \A s \in ComputeRequirePaths(from, to, aliases, style) :
                    ResolveStringRequire(Files, aliases, FALSE, from, s) = to

\* What a completion lists after a string is what the string with it resolves to,
\* and where the completion continues (FileRequireNode, against resolveStringRequire);
\* of a name only what is before its last dot is listed.
CompletionsResolve ==
    \A from \in DOMAIN sourceNodes \cap Files :
        LET aliases == GetConfig(LoadConfig(State, from), from).aliases
        IN \A typed \in {<<Here>>, <<Up>>, <<Self>>} \cup {<< <<"@", aliases[n].originalCase>> >> : n \in DOMAIN aliases} :
             LET node == ResolvePathToNode(aliases, from, typed)
             IN RequireBase(from, FALSE) # NoUri /\ node # NoUri => \A child \in Children(Files, node) :
                  LET s == Append(typed, PathComponent(child))
                  IN IF IsDirectory(Files, child)
                     THEN Extension(child) = "" => ResolvePathToNode(aliases, from, s) = child
                     ELSE IsSourceFile(child) /\ Unambiguous(Files, child)
                            => ResolveStringRequire(Files, aliases, FALSE, from, s) = child

Follows(old, new, m) ==
    LET renames == Renaming(old, new)
        moved == Moved(renames, m)
        target == Moved(renames, sourceNodes[m])
        aliases == GetConfig(LoadConfig(State, m), m).aliases
    IN /\ sourceNodes[m] \in Files /\ IsRelativeRequire(disk[m])
       /\ IsSourceFile(target) /\ Unambiguous(DOMAIN disk', target)
       => ResolveStringRequire(DOMAIN disk', aliases, FALSE, moved, disk'[moved]) = target

\* A file renamed while the server knows everything: the relative requires of
\* it, and its own, still reach the files that they reached
\* (WorkspaceFolder::willRenameFiles), but for those of init files.
RenamedRequiresFollow ==
    [][\A r \in Renamable : RenameFiles(r[1], r[2]) /\ events = <<>> =>
          \A m \in DOMAIN sourceNodes \ (dirty \cup outdated) :
             IsInitFile(m) \/ IsInitFile(Moved(Renaming(r[1], r[2]), m)) \/ Follows(r[1], r[2], m)]_vars

Required == [m \in DOMAIN sourceNodes |-> IF sourceNodes[m] = NoUri THEN {} ELSE {sourceNodes[m]}]

\* The graph from a document draws exactly the requires that are reached from
\* it, between the modules they are between (RequireGraph.cpp); so does that of
\* the whole workspace while every module that is required is known.
GraphDrawsRequires ==
    /\ \A root \in DOMAIN sourceNodes :
          LET graph == GraphFromRoot(Required, root)
          IN /\ Labels(graph) = graph.edges
             /\ Len(graph.nodes) = Cardinality(ToSet(graph.nodes))
             /\ \A e \in Edges(Required, DOMAIN Required) : e[1] \in ToSet(graph.nodes) => e \in Labels(graph)
    /\ UNION Range(Required) \subseteq DOMAIN sourceNodes => Labels(FullGraph(Required)) = FullGraph(Required).edges

\* What the server keeps of the configuration files and shows of their errors is
\* what they hold.
ConfigurationsAreCurrent == TypeOK /\ CachedConfigurationsAreCurrent /\ BrokenSettingsAreShown

\* A require the server writes or completes is one it resolves as it was meant.
SuggestedRequiresResolve == OfferedRequiresResolve /\ CompletionsResolve

\* Where requires were resolved to, in the type checker and in the graph that is
\* drawn of it, is where they lead.
RequiresAreCurrent == CleanRequiresAreCurrent /\ GraphDrawsRequires
=============================================================================
