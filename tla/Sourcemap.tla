------------------------------ MODULE Sourcemap ------------------------------
(* The Roblox platform of one workspace folder: the instance tree it loads     *)
(* from sourcemap.json and merges with what the studio plugin sends, the maps  *)
(* between files and instances, the types it generates from the tree, and the  *)
(* file it writes the merged tree back to. A tool (Rojo) writes the file, the  *)
(* editor reports its changes while it watches it, and the plugin comes and    *)
(* goes.                                                                       *)
EXTENDS Instances

CONSTANTS
    Sourcemaps,      \* what the tool writes to sourcemap.json: JSON, or Malformed
    DataModels,      \* the trees the plugin sends
    ServiceClasses,  \* the classes the definitions register as services
    Modules,         \* the names modules may have: paths of instances and files
    Trees,           \* these and all that is below them in one
    MaxChanges
ASSUME MaxChangesAssumption == MaxChanges \in Nat

VARIABLES
    disk,       \* sourcemap.json: JSON, Malformed or Absent
    event,      \* the editor has a change of the file to report
    config,     \* the folder's settings: enabled, autogenerate
    watching,   \* the file is watched
    pluginInfo, \* what the plugin sent, or NoPlugin
    platform,   \* heap, root, virtual and real: the tree and the maps
    checked,    \* what the type checker keeps of each module
    changes     \* bounds the tool, the plugin and the settings

vars == <<disk, event, config, watching, pluginInfo, platform, checked, changes>>

\* What stands where no tree does.
NoTree(what) == Json(what, "", NoFile, FALSE, <<>>)
Absent == NoTree("absent")
Malformed == NoTree("malformed")
NoPlugin == NoTree("none")

\* Trees are made of trees.
ASSUME TreesAssumption ==
    /\ (Sourcemaps \ {Malformed}) \cup DataModels \subseteq Trees
    /\ Trees \subseteq [name : STRING, className : STRING, file : STRING,
                       pluginManaged : BOOLEAN, children : Seq(Trees)]

NoMap == [x \in {} |-> Null]
EmptyPlatform == [heap |-> <<>>, root |-> Null, virtual |-> NoMap, real |-> NoMap]

\* A module whose types are those of a tree that is gone may still be looked at
\* while it is dirty, unless it is marked invalid.
Unchecked == [dirty |-> TRUE, invalid |-> FALSE, types |-> "none", node |-> Null]

-----------------------------------------------------------------------------
(* Types.                                                                   *)

Typed(heap, S) == [n \in 1..Len(heap) |-> IF n \in S THEN [heap[n] EXCEPT !.types = "live"]
                                         ELSE heap[n]]

Freed(types) == IF types = "live" THEN "freed" ELSE types

\* Mutant: modules are told of the types that are gone, but not checked again.
StaysClean(module) == [module EXCEPT !.invalid = TRUE, !.types = Freed(@)]

\* A module when the types it may hold are freed.
Invalidated(module) == [module EXCEPT !.dirty = TRUE, !.invalid = TRUE, !.types = Freed(@)]

\* instanceTypes is cleared: what nodes out of the tree still hold is freed.
ClearSourcemapTypes(p) ==
    LET freed == [n \in 1..Len(p.heap) |-> [p.heap[n] EXCEPT !.types = Freed(@)]]
    IN [p EXCEPT !.heap = IF p.root = Null THEN freed ELSE ClearCachedTypes(freed, {p.root})]

\* The nodes that get types at once: the root, and under a DataModel the services
\* and, for those of a registered class, their children. (The containers that
\* Player shares with services are among these.)
TypedAtOnce(p) ==
    IF p.root = Null THEN {}
    ELSE {p.root} \cup
         IF p.heap[p.root].className # "DataModel" THEN {}
         ELSE LET services == Range(p.heap[p.root].children)
              IN services \cup UNION {Range(p.heap[s].children) :
                    s \in {t \in services : p.heap[t].className \in ServiceClasses}}

\* The handlers below end with this, on the platform they have made.
UpdateSourcemapTypes(p) ==
    LET cleared == ClearSourcemapTypes(p)
    IN /\ platform' = [cleared EXCEPT !.heap = Typed(@, TypedAtOnce(cleared))]
       /\ checked' = [m \in Modules |-> Invalidated(checked[m])]

-----------------------------------------------------------------------------
(* The tree.                                                                *)

\* Mutant: the entries of nodes that left the tree stay.
MapsKept(p) == [heap |-> p.heap, virtual |-> p.virtual, real |-> p.real]

MapsCleared(p) == [heap |-> p.heap, virtual |-> NoMap, real |-> NoMap]

RebuildPathMaps(p) ==
    IF p.root = Null THEN [p EXCEPT !.virtual = NoMap, !.real = NoMap]
    ELSE LET written == WritePathsToMap(MapsCleared(p), p.root)
         IN [heap |-> written.heap, root |-> p.root,
             virtual |-> written.virtual, real |-> written.real]

\* The platform once the plugin's tree is merged into its own, and whether that
\* changed it; a root that is no DataModel is left alone.
Hydrate(p, info) ==
    LET rooted == IF p.root # Null THEN p
                  ELSE [p EXCEPT !.heap = Append(@, Node("game", "DataModel", NoFile, FALSE)),
                                 !.root = Len(p.heap) + 1]
        mutated == Mutate(rooted.heap, rooted.root, info)
    IN IF info = NoPlugin THEN [platform |-> p, updated |-> FALSE]
       ELSE IF rooted.heap[rooted.root].className # "DataModel"
       THEN [platform |-> rooted, updated |-> FALSE]
       ELSE [platform |-> [rooted EXCEPT !.heap = mutated.heap], updated |-> mutated.updated]

\* Mutant: the file is written whenever there is something to write.
WrittenAlways(contents) == TRUE

IsModified(contents) == disk # contents

\* The merged tree is saved where it is generated from the plugin; "pending" is
\* whether the editor has another change of the file to report.
WriteSourcemap(hydrated, settings, pending) ==
    LET contents == ToJson(hydrated.platform.heap, hydrated.platform.root)
    IN IF hydrated.updated /\ settings.enabled /\ settings.autogenerate /\ IsModified(contents)
       THEN disk' = contents /\ event' = (pending \/ watching)
       ELSE disk' = disk /\ event' = pending

DefaultContents == Json("Default", "DataModel", NoFile, FALSE, <<>>)

\* Parses the contents into an empty allocator and merges what the plugin sent.
Loaded(contents, info) ==
    IF contents = Malformed THEN [platform |-> EmptyPlatform, updated |-> FALSE]
    ELSE Hydrate([EmptyPlatform EXCEPT !.heap = FromJson(contents), !.root = 1], info)

\* Nothing is read when there is neither a file nor a plugin.
UpdateSourceMap(settings, pending) ==
    LET contents == IF disk = Absent THEN DefaultContents ELSE disk
        loaded == Loaded(contents, pluginInfo)
    IN IF disk = Absent /\ pluginInfo = NoPlugin
       THEN disk' = disk /\ event' = pending /\ UNCHANGED <<platform, checked>>
       ELSE /\ WriteSourcemap(loaded, settings, pending)
            /\ UpdateSourcemapTypes(RebuildPathMaps(loaded.platform))

Change == changes < MaxChanges /\ changes' = changes + 1

-----------------------------------------------------------------------------
(* The tool, the editor and the plugin.                                     *)

Watched(new) == new.enabled

\* Nothing is read as long as the sourcemap is disabled.
SetupWithConfiguration(new) ==
    /\ new # config
    /\ Change
    /\ config' = new
    /\ watching' = Watched(new)
    /\ IF new.enabled THEN UpdateSourceMap(new, event)
       ELSE UNCHANGED <<disk, event, platform, checked>>
    /\ UNCHANGED pluginInfo

\* The tool, or the user, writes or deletes the file.
SourcemapChanges(contents) ==
    /\ contents # disk
    /\ Change
    /\ disk' = contents
    /\ event' = (event \/ watching)
    /\ UNCHANGED <<config, watching, pluginInfo, platform, checked>>

OnDidChangeWatchedFiles ==
    /\ event
    /\ UpdateSourceMap(config, FALSE)
    /\ UNCHANGED <<config, watching, pluginInfo, changes>>

OnStudioPluginFullChange(dataModel) ==
    /\ Change
    /\ pluginInfo' = dataModel
    /\ LET hydrated == Hydrate(platform, dataModel)
       IN /\ WriteSourcemap(hydrated, config, event)
          /\ UpdateSourcemapTypes(RebuildPathMaps(hydrated.platform))
    /\ UNCHANGED <<config, watching>>

OnStudioPluginClear ==
    /\ pluginInfo # NoPlugin
    /\ Change
    /\ pluginInfo' = NoPlugin
    /\ IF platform.root = Null THEN UNCHANGED <<platform, checked>>
       ELSE UpdateSourcemapTypes(RebuildPathMaps([platform EXCEPT
                !.heap = ClearPluginManaged(@, platform.root)]))
    /\ UNCHANGED <<disk, event, config, watching>>

\* The node a module is an instance of: by its path, or by its file.
NodeOf(p, name) ==
    IF name \in DOMAIN p.virtual THEN p.virtual[name]
    ELSE IF Len(name) = 1 /\ name[1] \in DOMAIN p.real THEN p.real[name[1]] ELSE Null

\* A module is checked: its script has the type of its node, and the check may
\* look at the nodes next to it, which get theirs.
CheckModule(name) ==
    LET n == NodeOf(platform, name)
        node == platform.heap[n]
        near == IF n = Null THEN {}
                ELSE Range(node.children) \cup ({node.parent} \ {Null})
    IN /\ checked[name].dirty
       /\ \E S \in {{}, near} :
            platform' = IF n = Null THEN platform
                        ELSE [platform EXCEPT !.heap = Typed(@, S \cup {n})]
       /\ checked' = [checked EXCEPT ![name] =
                        [dirty |-> FALSE, invalid |-> FALSE, node |-> n,
                         types |-> IF n = Null THEN "none" ELSE "live"]]
       /\ UNCHANGED <<disk, event, config, watching, pluginInfo, changes>>

-----------------------------------------------------------------------------
Settings == [enabled : BOOLEAN, autogenerate : BOOLEAN]

Init ==
    /\ disk \in Sourcemaps \cup {Absent}
    /\ event = FALSE
    /\ config = [enabled |-> FALSE, autogenerate |-> FALSE]
    /\ watching = FALSE
    /\ pluginInfo = NoPlugin
    /\ platform = EmptyPlatform
    /\ checked = [m \in Modules |-> Unchecked]
    /\ changes = 0

Next ==
    \/ \E new \in Settings : SetupWithConfiguration(new)
    \/ \E contents \in Sourcemaps \cup {Absent} : SourcemapChanges(contents)
    \/ OnDidChangeWatchedFiles
    \/ \E dataModel \in DataModels : OnStudioPluginFullChange(dataModel)
    \/ OnStudioPluginClear
    \/ \E name \in Modules : CheckModule(name)

Spec == Init /\ [][Next]_vars

\* The server handles what the editor reports: weak fairness of the handler, which
\* is enabled while there is an event.
FairSpec == Spec /\ ([]<>~event \/ []<><<OnDidChangeWatchedFiles>>_vars)

-----------------------------------------------------------------------------
(* Properties.                                                             *)

Nodes == Tree(platform.heap, platform.root)
At(n) == platform.heap[n]
IsPlace == platform.root # Null /\ At(platform.root).className = "DataModel"

TypeOK ==
    /\ event \in BOOLEAN
    /\ config \in Settings /\ watching = config.enabled
    /\ pluginInfo \in DataModels \cup {NoPlugin}
    /\ platform.root \in DOMAIN platform.heap \cup {Null}
    /\ \A n \in DOMAIN platform.heap :
         /\ Range(At(n).children) \cup {At(n).parent} \subseteq DOMAIN platform.heap \cup {Null}
         /\ At(n).types \in {"none", "live", "freed"}
    /\ Range(platform.virtual) \cup Range(platform.real) \subseteq DOMAIN platform.heap
    /\ checked \in [Modules -> [dirty : BOOLEAN, invalid : BOOLEAN,
                                types : {"none", "live", "freed"}, node : Nat]]
    /\ changes \in 0..MaxChanges

\* Types of a tree that is gone are freed. No node a lookup can reach still has
\* one, and a module that does is marked so that nothing looks into it
\* (clearSourcemapTypes, clearCachedTypes of pruned nodes, rebuildPathMaps).
NoFreedTypes ==
    /\ \A n \in Nodes \cup Range(platform.virtual) \cup Range(platform.real) :
         At(n).types # "freed"
    /\ \A m \in Modules : checked[m].types = "freed" => checked[m].invalid

\* A module that is not dirty was checked as the instance it is now.
CleanModulesSeeTheTree ==
    \A m \in Modules : ~checked[m].dirty =>
        /\ checked[m].node = NodeOf(platform, m)
        /\ checked[m].node # Null => At(checked[m].node).types = "live"

\* The maps have exactly the instances of the tree, under the paths and files
\* they have now, and parents are those who list them (rebuildPathMaps).
PathMapsMatchTree ==
    /\ DOMAIN platform.virtual = {At(n).virtualPath : n \in Nodes}
    /\ \A path \in DOMAIN platform.virtual :
         platform.virtual[path] \in Nodes /\ At(platform.virtual[path]).virtualPath = path
    /\ DOMAIN platform.real = {At(n).file : n \in Nodes} \ {NoFile}
    /\ \A file \in DOMAIN platform.real :
         platform.real[file] \in Nodes /\ At(platform.real[file]).file = file
    /\ \A n \in Nodes : \A c \in Range(At(n).children) : At(c).parent = n

\* No two instances next to each other have one name, in the file or the plugin's tree.
NamesApart(tree) ==
    \A i, j \in 1..Len(tree.children) : tree.children[i].name = tree.children[j].name => i = j
SiblingsHaveNames == \A tree \in Trees : NamesApart(tree)

\* A file that is an instance is the file of the module it is called as
\* (resolveToVirtualPath, then resolveToRealPath), whoever added instances.
FilesRoundTrip ==
    \A file \in DOMAIN platform.real :
        At(platform.virtual[At(platform.real[file]).virtualPath]).file = file

\* What the server writes itself, and then is told of, comes to an end.
EventsSettle == []<>~event

\* Types made of the tree are neither freed nor of an older tree.
TypesFollowTheTree == NoFreedTypes /\ CleanModulesSeeTheTree

\* The maps from paths and files to nodes are those of the tree.
MapsFollowTheTree == TypeOK /\ PathMapsMatchTree /\ FilesRoundTrip
=============================================================================
