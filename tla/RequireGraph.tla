---------------------------- MODULE RequireGraph ----------------------------
(***************************************************************************)
(* The graph of requires that is shown: from a function of the modules     *)
(* known to the sets of what they require.                                 *)
(***************************************************************************)
EXTENDS Integers, Sequences, FiniteSets, SequencesExt

Edges(requires, nodes) == UNION {{<<m, t>> : t \in requires[m]} : m \in nodes \cap DOMAIN requires}

FullGraph(requires) ==
    [nodes |-> SetToSeq(DOMAIN requires), edges |-> Edges(requires, DOMAIN requires)]

\* The first module of the queue is looked at, if it has not been, and what it
\* requires is put at the end.
Visit(requires, search) ==
    IF search.queue = <<>> THEN search
    ELSE LET m == Head(search.queue)
         IN IF m \in ToSet(search.seen) THEN [seen |-> search.seen, queue |-> Tail(search.queue)]
            ELSE [seen |-> Append(search.seen, m),
                  queue |-> Tail(search.queue) \o (IF m \in DOMAIN requires THEN SetToSeq(requires[m]) ELSE <<>>)]

\* The modules in the order they are reached, breadth first: the root and each
\* require are in the queue once at most.
Search(requires, root) ==
    LET visits == 1 + Cardinality(Edges(requires, DOMAIN requires))
        search[n \in 0..visits] ==
            IF n = 0 THEN [seen |-> <<>>, queue |-> <<root>>] ELSE Visit(requires, search[n - 1])
    IN search[visits].seen

GraphFromRoot(requires, root) ==
    LET nodes == Search(requires, root)
    IN [nodes |-> nodes, edges |-> Edges(requires, ToSet(nodes))]

\* A module that is no node has the identity of the first.
NodeId(graph, m) ==
    IF m \in ToSet(graph.nodes) THEN CHOOSE i \in DOMAIN graph.nodes : graph.nodes[i] = m ELSE 1

Drawn(graph) == {<<NodeId(graph, e[1]), NodeId(graph, e[2])>> : e \in graph.edges}
Labels(graph) == {<<graph.nodes[d[1]], graph.nodes[d[2]]>> : d \in Drawn(graph)}
=============================================================================
