----------------------------- MODULE MCSourcemap -----------------------------
(* A finite instance of Sourcemap: a place with a shared and a server side, and *)
(* a package whose root is no DataModel; the plugin adds instances with and     *)
(* without files, changes and removes them.                                     *)
EXTENDS Sourcemap, RobloxRequires

Module(name, file) == Json(name, "ModuleScript", file, FALSE, <<>>)
Class(name, className, children) == Json(name, className, NoFile, FALSE, children)

Place == Class("Place", "DataModel",
    <<Class("RS", "RS", <<Module("A", "a")>>),
      Class("ServerStorage", "ServerStorage", <<Json("Main", "Script", "main", FALSE, <<>>)>>)>>)
Package == Json("Package", "ModuleScript", "init", FALSE,
    <<Class("Lib", "Folder", <<Module("A", "a")>>), Module("B", "b")>>)
MCSourcemaps == {Place, Package, Malformed}

\* A module B and a folder C with a module C in the shared side, that has a
\* module of its own; the second lacks C, and B is a folder without files.
Full == Class("Place", "DataModel",
    <<Class("RS", "RS", <<Module("A", NoFile), Module("B", "b"),
        Class("C", "Folder", <<Json("C", "ModuleScript", "d", FALSE, <<Module("A", "e")>>)>>)>>)>>)
Less == Class("Place", "DataModel",
    <<Class("RS", "RS", <<Class("B", "Folder", <<Module("E", NoFile)>>)>>)>>)
MCDataModels == {Full, Less}

\* A tree and all that is below it in one.
RECURSIVE Parts(_)
Parts(tree) == {tree} \cup UNION {Parts(child) : child \in Range(tree.children)}
MCTrees == UNION {Parts(tree) : tree \in MCSourcemaps \cup MCDataModels}

ASSUME MCTreesNameSiblings == SiblingsHaveNames

\* .luaurc has one alias, and two files are below it.
MCAliased == [file \in {"b", "d"} |-> <<"@lib", file>>]

MCModules == {<<"game", "RS", "A">>, <<"game", "RS", "B">>, <<"b">>}

-----------------------------------------------------------------------------
(* Properties.                                                             *)

RECURSIVE PathsIn(_, _)
PathsIn(info, base) ==
    {base} \cup UNION {PathsIn(c, Append(base, c.name)) : c \in Range(info.children)}

\* As long as the plugin is connected the tree has every instance of the plugin,
\* and none is there on behalf of the plugin that it does not have
\* (mutateSourceNodeWithPluginInfo).
ManagedNodesFollowPlugin ==
    pluginInfo # NoPlugin /\ IsPlace =>
        LET known == PathsIn(pluginInfo, <<"game">>)
        IN /\ known \subseteq DOMAIN platform.virtual
           /\ \A n \in Nodes : At(n).pluginManaged => At(n).virtualPath \in known

\* What a platform knows of the instances that have files.
Shape(p) ==
    {[path |-> p.heap[n].virtualPath, className |-> p.heap[n].className, file |-> p.heap[n].file,
      pluginManaged |-> p.heap[n].pluginManaged] :
        n \in {m \in Tree(p.heap, p.root) : ContainsFilePaths(p.heap, m)}}

\* The saved file holds what the folder knows: reading it again, as the next
\* start of the server does, gives the same instances (toJson, fromJson).
SettledTreeIsReloadable ==
    watching /\ ~event /\ pluginInfo # NoPlugin /\ disk \notin {Absent, Malformed} =>
        Shape(platform) = Shape(RebuildPathMaps(Loaded(disk, pluginInfo).platform))

\* What is offered to require an instance with is resolved to it: the string, the
\* node its completion shows, and the expression. (Absolute strings name places:
\* with a root that is no DataModel they do not resolve. Who requires through an
\* alias has a file: it is being edited.)
RequirePathsResolve ==
    \A from, target \in Nodes, style \in {"AlwaysAbsolute", "AlwaysRelative", "Auto"} :
        LET required == ComputeSourcemapRequirePath(platform, from, target, style)
            path == At(target).virtualPath
        IN /\ IsScript(At(from)) /\ from # target /\ required # NoPath
           /\ required[1] = "@game" => IsPlace
           /\ IsAliased(required) => At(from).file # NoFile
           =>
            /\ ResolveStringRequire(platform, At(from).virtualPath, required) = path
            /\ required[1] = "@self" \/ ResolvePathToNode(platform, from, required) = target

\* The same of expressions. (The module a model project is rooted at is the
\* exception: its absolute require names a service that is none.)
InstanceRequiresResolve ==
    \A from \in DOMAIN platform.virtual, style \in {"AlwaysAbsolute", "AlwaysRelative", "Auto"} :
        \A offered \in InstanceRequires(platform, from, style) :
            \/ ResolveModule(from, offered.require) = offered.target
            \/ style = "AlwaysAbsolute" /\ offered.target = <<"ProjectRoot">>

\* FindFirstAncestor is looked up in the text of a path where a module is
\* required, and in the tree where its type is asked for: both find the same.
AncestorLookupsAgree ==
    \A n \in Nodes : \A name \in {At(m).name : m \in Nodes \ {platform.root}} :
        LET a == FindAncestor(platform.heap, n, name)
        IN GetAncestorPath(platform, At(n).virtualPath, name)
             = IF a = Null THEN NoPath ELSE At(a).virtualPath

\* MaxNodes is enough for every tree there is, the merged ones that are written
\* among them.
TreesFit ==
    \A tree \in {disk, pluginInfo} \ {Absent, Malformed, NoPlugin} : Reading(tree).calls = <<>>

\* The tree holds what the plugin sent, and so does the file it is written to.
PluginInstancesAreKept == ManagedNodesFollowPlugin /\ SettledTreeIsReloadable /\ TreesFit

\* Requires written from the tree and ancestors looked up in it resolve back.
WrittenPathsResolve == RequirePathsResolve /\ InstanceRequiresResolve /\ AncestorLookupsAgree
=============================================================================
