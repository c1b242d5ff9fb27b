--------------------------- MODULE RobloxRequires ---------------------------
(* How requires of instances are written and resolved (RobloxFileResolver,    *)
(* InstanceRequireAutoImporter, RobloxStringRequireSuggester). A path is the  *)
(* sequence of its components; "tree" has the heap, the root and the map from *)
(* paths to nodes that a lookup uses.                                         *)
EXTENDS Instances

\* The files below an alias of .luaurc, each with the string of its best alias
\* (computeBestAliasedPath; FileRequires has how it is found and resolved).
CONSTANT Aliased

RECURSIVE Ancestors(_, _)
Ancestors(heap, n) ==
    IF heap[n].parent = Null THEN <<>>
    ELSE <<heap[n].parent>> \o Ancestors(heap, heap[n].parent)

FindAncestor(heap, n, name) ==
    LET above == Ancestors(heap, n)
        i == SelectInSeq(above, LAMBDA a : heap[a].name = name)
    IN IF i = 0 THEN Null ELSE above[i]

IsAncestorOf(heap, a, n) == a \in Range(Ancestors(heap, n))

NoPath == <<"nowhere">>

\* Paths as texts: the parent of a single component is the empty path, which has
\* none.
GetParentPath(path) == IF path \in {<<>>, NoPath} THEN NoPath ELSE Front(path)
Joined(path, name) == IF path = NoPath THEN NoPath
                      ELSE IF path = <<>> THEN <<"", name>> ELSE Append(path, name)

IsDataModel(path) == path # <<>> /\ path[1] = "game" /\ Len(path) > 1

LastOf(at) == CHOOSE i \in at : \A j \in at : j <= i

\* The path of the nearest ancestor of that name, found in the text of the path.
GetAncestorPath(tree, path, name) ==
    LET parent == GetParentPath(path)
        at == {i \in DOMAIN parent : parent[i] = name}
    IN IF parent = NoPath THEN NoPath
       ELSE IF at # {} THEN SubSeq(parent, 1, LastOf(at))
       ELSE IF /\ tree.root # Null
               /\ ~(parent # <<>> /\ parent[1] = "game")
               /\ name = tree.heap[tree.root].name
            THEN <<"ProjectRoot">> ELSE NoPath

\* From a node along a relative path, or Null.
Walk(heap, from, path) ==
    FoldLeft(LAMBDA n, name : CASE n = Null \/ name = "." -> n
                                [] n # Null /\ name = ".." -> heap[n].parent
                                [] OTHER -> FindChild(heap, n, name), from, path)

IsAliased(required) == \E file \in DOMAIN Aliased : Aliased[file] = required

\* Strings below an alias name files, which know their instance: Null if there is
\* none. An alias is looked up from the file of the script that requires.
AliasedNode(tree, from, required) ==
    LET file == CHOOSE f \in DOMAIN Aliased : Aliased[f] = required
    IN IF tree.heap[from].file # NoFile /\ file \in DOMAIN tree.real
       THEN tree.real[file] ELSE Null

\* A required string is the sequence of its components; an alias comes first.
ResolveStringRequire(tree, context, required) ==
    IF required # <<>> /\ required[1] = "@self" THEN context \o Tail(required)
    ELSE IF IsAliased(required)
    THEN LET n == AliasedNode(tree, tree.virtual[context], required)
         IN IF n = Null THEN NoPath ELSE tree.heap[n].virtualPath
    ELSE IF required # <<>> /\ required[1] = "@game"
    THEN IF tree.root = Null THEN NoPath
         ELSE tree.heap[tree.root].virtualPath \o Tail(required)
    ELSE FoldLeft(LAMBDA base, name : CASE name = "." -> base
                                        [] name = ".." -> GetParentPath(base)
                                        [] OTHER -> Joined(base, name),
                  GetParentPath(context), required)

\* The node a completion of the string shows (resolvePathToNode); of an aliased
\* file, its instance.
ResolvePathToNode(tree, n, required) ==
    IF IsAliased(required) THEN AliasedNode(tree, n, required)
    ELSE IF required # <<>> /\ required[1] = "@game"
    THEN Walk(tree.heap, tree.root, Tail(required))
    ELSE IF tree.heap[n].parent = Null THEN Null
    ELSE Walk(tree.heap, tree.heap[n].parent, required)

IsScriptContextCompatible(from, target) ==
    from = "Shared" \/ target = "Shared" \/ from = target

GetServiceNode(heap, n) ==
    LET above == Ancestors(heap, n)
    IN IF Len(above) < 2 THEN n ELSE above[Len(above) - 1]

\* The way down from an ancestor.
NamesDown(heap, a, n) ==
    LET below == SelectSeq(<<n>> \o Ancestors(heap, n), LAMBDA m : IsAncestorOf(heap, a, m))
    IN [i \in DOMAIN below |-> heap[below[Len(below) + 1 - i]].name]

\* Mutant: steps are counted from the script instead of its parent.
CountedFromScript(heap, a, from) == Len(NamesDown(heap, a, from))

HopsUp(heap, a, from) == Len(NamesDown(heap, a, from)) - 1

Absolute(tree, target) ==
    LET path == tree.heap[target].virtualPath
        file == tree.heap[target].file
    IN IF file \in DOMAIN Aliased THEN Aliased[file]
       ELSE <<"@game">> \o (IF IsDataModel(path) THEN Tail(path) ELSE path)

\* The string a script is offered to require another with, or NoPath; styles are
\* the settings AlwaysAbsolute, AlwaysRelative and Auto.
ComputeSourcemapRequirePath(tree, from, target, style) ==
    LET heap == tree.heap
        common == SelectInSeq(<<target>> \o Ancestors(heap, target),
                              LAMBDA m : IsAncestorOf(heap, m, from))
        ancestor == (<<target>> \o Ancestors(heap, target))[common]
        hops == HopsUp(heap, ancestor, from)
        relative == (IF hops = 0 THEN <<".">> ELSE [i \in 1..hops |-> ".."])
                    \o NamesDown(heap, ancestor, target)
    IN CASE \/ ~IsScript(heap[target])
            \/ ~IsScriptContextCompatible(heap[from].scriptContext, heap[target].scriptContext)
                -> NoPath
         [] OTHER ->
            IF style = "AlwaysAbsolute" THEN Absolute(tree, target)
            ELSE IF IsAncestorOf(heap, from, target)
            THEN <<"@self">> \o NamesDown(heap, from, target)
            ELSE IF common = 0 THEN Absolute(tree, target)
            ELSE IF \/ style = "AlwaysRelative"
                    \/ GetServiceNode(heap, from) = GetServiceNode(heap, target)
            THEN relative ELSE Absolute(tree, target)

-----------------------------------------------------------------------------
(* Requires of expressions: script.Parent.Module, Service.Module.           *)

\* The player's copies stand for what they are copied from.
MapContext(path) ==
    CASE path = <<"game", "Players", "LocalPlayer", "PlayerScripts">>
                -> <<"game", "StarterPlayer", "StarterPlayerScripts">>
      [] path = <<"game", "Players", "LocalPlayer", "PlayerGui">> -> <<"game", "StarterGui">>
      [] path = <<"game", "Players", "LocalPlayer", "StarterGear">> -> <<"game", "StarterPack">>
      [] OTHER -> path

\* The steps of an expression: a global, then indexing.
ResolveIndex(context, name) ==
    IF name = "Parent" THEN GetParentPath(context) ELSE Joined(MapContext(context), name)

ResolveModule(context, expression) ==
    FoldLeft(ResolveIndex,
             IF expression[1] = "script" THEN context
             ELSE IF expression[1] = "game" THEN <<"game">>
             ELSE <<"game", expression[1]>>,      \* game:GetService
             Tail(expression))

UpFrom(from, common) == Len(from) - common

\* lexicallyRelative and convertToScriptPath.
RelativeExpression(from, path) ==
    LET common == Cardinality({i \in 1..Len(from) : i <= Len(path)
                                  /\ SubSeq(from, 1, i) = SubSeq(path, 1, i)})
    IN <<"script">> \o [i \in 1..UpFrom(from, common) |-> "Parent"]
                    \o SubSeq(path, common + 1, Len(path))

\* Whether an instance is required relative to the script. The code compares the
\* paths as texts; no name of the instances is a prefix of another.
IsRelative(from, path, style) ==
    \/ style = "AlwaysRelative"
    \/ path[1] = "ProjectRoot" /\ Len(path) > 1
    \/ /\ style # "AlwaysAbsolute"
       /\ \/ IsPrefix(from, path) \/ IsPrefix(path, from)
          \/ GetParentPath(from) = GetParentPath(path)

OptimiseAbsoluteRequire(path) == IF IsDataModel(path) /\ Len(path) > 2 THEN Tail(path) ELSE path

\* The instances offered to a script, and the expressions.
InstanceRequires(tree, from, style) ==
    LET caller == IF from \in DOMAIN tree.virtual
                  THEN tree.heap[tree.virtual[from]].scriptContext ELSE "Shared"
    IN {[target |-> path,
         require |-> IF IsRelative(from, path, style) THEN RelativeExpression(from, path)
                     ELSE OptimiseAbsoluteRequire(path)] :
            path \in {p \in DOMAIN tree.virtual \ {from} :
                /\ tree.heap[tree.virtual[p]].className = "ModuleScript"
                /\ IsScriptContextCompatible(caller, tree.heap[tree.virtual[p]].scriptContext)}}
=============================================================================
