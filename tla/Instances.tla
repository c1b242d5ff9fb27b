------------------------------ MODULE Instances ------------------------------
(* The instance tree of a sourcemap (SourceNode in RobloxPlatform.hpp) in the *)
(* allocator it lives in: "heap" is the sequence of the nodes that were       *)
(* allocated, and their addresses are their places in it. A sourcemap.json    *)
(* and what the studio plugin sends are trees of JSON objects. Of the files   *)
(* of an instance only the one of its script is kept.                         *)
EXTENDS Naturals, FiniteSets, Sequences, SequencesExt

CONSTANT MaxNodes    \* bounds the instances of a tree that is read or merged
ASSUME MaxNodesAssumption == MaxNodes \in Nat

Null == 0
NoFile == ""

Scripts == {"ModuleScript", "Script", "LocalScript"}

Node(name, className, file, managed) ==
    [name |-> name, className |-> className, file |-> file, children |-> <<>>,
     pluginManaged |-> managed, parent |-> Null, virtualPath |-> <<>>,
     scriptContext |-> "Shared", types |-> "none"]

IsScript(node) == node.className \in Scripts

\* A node is allocated and becomes the last child of n.
AddChild(heap, n, node) ==
    Append([heap EXCEPT ![n].children = Append(@, Len(heap) + 1)], node)

ChildrenOf(heap, n) == Range(heap[n].children)

\* The first child of that name, or Null.
FindChild(heap, n, name) ==
    LET at == {i \in 1..Len(heap[n].children) : heap[heap[n].children[i]].name = name}
    IN IF at = {} THEN Null
       ELSE heap[n].children[CHOOSE i \in at : \A j \in at : i <= j]

\* The nodes of S and all below them.
Descendants(heap, S) ==
    LET Reached[T \in SUBSET (1..Len(heap))] ==
            LET more == T \cup UNION {ChildrenOf(heap, n) : n \in T}
            IN IF more = T THEN T ELSE Reached[more]
    IN Reached[S]

Subtree(heap, n) == Descendants(heap, {n})

Tree(heap, root) == IF root = Null THEN {} ELSE Subtree(heap, root)

\* The elements of a sequence that stay.
Kept(seq, stay) ==
    LET Prefix[i \in 0..Len(seq)] ==
            IF i = 0 THEN <<>>
            ELSE IF seq[i] \in stay THEN Append(Prefix[i - 1], seq[i]) ELSE Prefix[i - 1]
    IN Prefix[Len(seq)]

\* The types of the nodes of S and of all below them are forgotten.
ClearCachedTypes(heap, S) ==
    LET below == Descendants(heap, S)
    IN [n \in 1..Len(heap) |-> IF n \in below THEN [heap[n] EXCEPT !.types = "none"] ELSE heap[n]]

\* What a recursive function leaves when it is called with "first": s.calls are
\* the calls still to be made, and Make makes the first of them, whose own calls
\* come before the others.
Recursion(Make(_), first, most) ==
    LET After[k \in 0..most] ==
            IF k = 0 THEN first
            ELSE LET s == After[k - 1] IN IF s.calls = <<>> THEN s ELSE Make(s)
    IN After[most]

-----------------------------------------------------------------------------
(* Reading and writing sourcemap.json.                                      *)

Json(name, className, file, managed, children) ==
    [name |-> name, className |-> className, file |-> file,
     pluginManaged |-> managed, children |-> children]

\* The calls for what is below an instance, whose node is n.
ChildCalls(n, json) ==
    [i \in 1..Len(json.children) |-> [parent |-> n, json |-> json.children[i]]]

ReadNode(json) == Node(json.name, json.className, json.file, json.pluginManaged)

ReadChild(s) ==
    LET call == Head(s.calls)
    IN [heap |-> AddChild(s.heap, call.parent, ReadNode(call.json)),
        calls |-> ChildCalls(Len(s.heap) + 1, call.json) \o Tail(s.calls)]

\* The heap of a tree that was read into an empty allocator. Its root is 1 (the
\* code allocates it last, which only shows in the addresses).
Reading(json) ==
    Recursion(ReadChild, [heap |-> <<ReadNode(json)>>, calls |-> ChildCalls(1, json)], MaxNodes)
FromJson(json) == Reading(json).heap

ContainsFilePaths(heap, n) == \E m \in Subtree(heap, n) : heap[m].file # NoFile

Persisted(node) == node.pluginManaged

\* Instances without files are left out. A tree is no deeper than it has nodes.
ToJson(heap, n) ==
    LET nodes == 1..Len(heap)
        filed == {m \in nodes : ContainsFilePaths(heap, m)}
        Written[depth \in 0..Len(heap)] ==
            [m \in nodes |->
                LET kept == IF depth = 0 THEN <<>> ELSE Kept(heap[m].children, filed)
                IN Json(heap[m].name, heap[m].className, heap[m].file, Persisted(heap[m]),
                        [i \in 1..Len(kept) |-> Written[depth - 1][kept[i]]])]
    IN Written[Len(heap)][n]

-----------------------------------------------------------------------------
(* The studio plugin's instances.                                           *)

\* Mutant: children the plugin no longer names stay.
PrunesNothing(heap, c, names) == FALSE

IsPruned(heap, c, names) == heap[c].pluginManaged /\ heap[c].name \notin names

\* Node n follows what the plugin says of it. A child that is taken out of the
\* tree stays allocated, without types.
Hydrated(heap, n, info) ==
    LET node == heap[n]
        names == {info.children[i].name : i \in 1..Len(info.children)}
        gone == {c \in ChildrenOf(heap, n) : IsPruned(heap, c, names)}
    IN [ClearCachedTypes(heap, gone) EXCEPT
            ![n].file = IF node.pluginManaged \/ info.file # NoFile THEN info.file ELSE @,
            ![n].className = IF node.pluginManaged THEN info.className ELSE @,
            ![n].children = Kept(@, ChildrenOf(heap, n) \ gone)]

\* A child of the plugin's instance is merged into the one of its name, or into
\* a new one. (What is pruned of a node is named by none of its calls: it may go
\* before they are made.)
MutateChild(s) ==
    LET call == Head(s.calls)
        info == call.json
        existing == FindChild(s.heap, call.parent, info.name)
        child == IF existing = Null THEN Len(s.heap) + 1 ELSE existing
        found == IF existing # Null THEN s.heap
                 ELSE AddChild(s.heap, call.parent,
                               Node(info.name, info.className, NoFile, TRUE))
        after == Hydrated(found, child, info)
    IN [heap |-> after, updated |-> s.updated \/ after # s.heap,
        calls |-> ChildCalls(child, info) \o Tail(s.calls)]

\* The heap once the tree follows the plugin's, and whether anything changed.
Mutate(heap, root, info) ==
    LET self == Hydrated(heap, root, info)
    IN Recursion(MutateChild, [heap |-> self, updated |-> self # heap,
                               calls |-> ChildCalls(root, info)], MaxNodes)

\* Everything the plugin added leaves the tree, with all below it.
ClearPluginManaged(heap, root) ==
    LET own == {n \in 1..Len(heap) : ~heap[n].pluginManaged}
        kept == [n \in 1..Len(heap) |-> [heap[n] EXCEPT !.children = Kept(@, own)]]
        stay == Subtree(kept, root)
        before == Subtree(heap, root)
    IN [n \in 1..Len(heap) |->
            IF n \in stay THEN kept[n]
            ELSE IF n \in before THEN [heap[n] EXCEPT !.types = "none"] ELSE heap[n]]

-----------------------------------------------------------------------------
(* Paths.                                                                   *)

\* Where scripts under an instance of that name run.
ServerNames == {"ServerScriptService", "ServerStorage"}
ClientNames == {"StarterPlayer", "StarterGui", "StarterPack", "ReplicatedFirst"}

OwnContext(node, above) ==
    CASE node.className = "Script" -> "Server"
      [] node.className = "LocalScript" -> "Client"
      [] OTHER -> above
ChildContext(node, above) ==
    CASE node.name \in ServerNames -> "Server"
      [] node.name \in ClientNames -> "Client"
      [] OTHER -> above

\* The map with an entry that replaces the one of its key.
Put(map, key, n) == [k \in DOMAIN map \cup {key} |-> IF k = key THEN n ELSE map[k]]

\* Of nodes with one path, or one file, the last one stays in the maps.
WriteNode(s) ==
    LET call == Head(s.calls)
        n == call.node
        node == s.heap[n]
        below == [i \in 1..Len(node.children) |->
                    [node |-> node.children[i], parent |-> n,
                     path |-> Append(call.path, s.heap[node.children[i]].name),
                     context |-> ChildContext(node, call.context)]]
    IN [heap |-> [s.heap EXCEPT ![n].virtualPath = call.path, ![n].parent = call.parent,
                                ![n].scriptContext = OwnContext(node, call.context)],
        virtual |-> Put(s.virtual, call.path, n),
        real |-> IF node.file = NoFile THEN s.real ELSE Put(s.real, node.file, n),
        calls |-> below \o Tail(s.calls)]

RootPath(heap, root) ==
    IF heap[root].className = "DataModel" THEN <<"game">> ELSE <<"ProjectRoot">>

\* The heap and the maps once the tree was written to them.
WritePathsToMap(paths, root) ==
    LET call == [node |-> root, parent |-> paths.heap[root].parent,
                 path |-> RootPath(paths.heap, root), context |-> "Shared"]
    IN Recursion(WriteNode, [heap |-> paths.heap, virtual |-> paths.virtual,
                             real |-> paths.real, calls |-> <<call>>], Len(paths.heap))
=============================================================================
