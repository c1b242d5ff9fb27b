------------------------------- MODULE Syntax -------------------------------
(* Luau programs as the features of the server see them: the tree that the    *)
(* parser gives them, what each name in it is bound to, and what a program    *)
(* does when it runs. The parser and the language are not part of this        *)
(* repository: these are the facts of them that the source relies on.         *)
(*                                                                            *)
(* A tree is [kind, names, kids]. A program is the sequence of its nodes in   *)
(* the order of the text, so that a node is a number, and a position of the   *)
(* text is the number of the node written there.                              *)
EXTENDS Naturals, Sequences, SequencesExt, FiniteSetsExt

Tree(kind, names, kids) == [kind |-> kind, names |-> names, kids |-> kids]

\* The nodes of a tree whose first node is at and whose parent is up, and those
\* of trees that follow one another.
RECURSIVE NodesFrom(_, _, _), NodesOfAll(_, _, _)
NodesFrom(tree, at, up) ==
    LET below == NodesOfAll(tree.kids, at + 1, at)
    IN << [kind |-> tree.kind, names |-> tree.names, parent |-> up, kids |-> below.kids,
           last |-> at + Len(below.nodes)] >> \o below.nodes

NodesOfAll(trees, at, up) ==
    IF trees = <<>> THEN [nodes |-> <<>>, kids |-> <<>>]
    ELSE LET first == NodesFrom(Head(trees), at, up)
             rest == NodesOfAll(Tail(trees), at + Len(first), up)
         IN [nodes |-> first \o rest.nodes, kids |-> <<at>> \o rest.kids]

Program(tree) == NodesFrom(tree, 1, 0)

RECURSIVE TreeAt(_, _)
TreeAt(p, n) == Tree(p[n].kind, p[n].names, [i \in DOMAIN p[n].kids |-> TreeAt(p, p[n].kids[i])])

Encloses(p, n, m) == n <= m /\ m <= p[n].last

\* findAstAncestryOfPosition, innermost last.
Ancestry(p, at) == {n \in DOMAIN p : Encloses(p, n, at)}

Innermost(nodes) == IF nodes = {} THEN 0 ELSE Max(nodes)

StatementKinds == {"block", "local", "localfunction", "assign", "compound", "expr", "return", "give",
                   "if", "while", "repeat", "for", "forin", "break", "continue"}
LoopKinds == {"while", "repeat", "for", "forin"}
IsStatement(p, n) == p[n].kind \in StatementKinds
IsExpression(p, n) == p[n].kind \notin StatementKinds

-----------------------------------------------------------------------------
(* Names. A local is the node that declares it and its name; a global is      *)
(* declared by node 0.                                                        *)

DeclaringKinds == {"local", "localfunction", "function", "for", "forin"}
LocalsOf(p, n) == IF p[n].kind \in DeclaringKinds THEN {<<n, p[n].names[i]>> : i \in DOMAIN p[n].names} ELSE {}
Locals(p) == UNION {LocalsOf(p, n) : n \in DOMAIN p}

\* A block's locals reach to its end, which for repeat is after its condition.
BlockScope(p, n) ==
    LET block == p[n].parent
    IN IF block # 1 /\ p[p[block].parent].kind = "repeat" THEN p[block].parent ELSE block

InScope(p, d, at) ==
    CASE p[d].kind = "local" -> Encloses(p, BlockScope(p, d), at) /\ at > p[d].last
      [] p[d].kind = "localfunction" -> Encloses(p, BlockScope(p, d), at) /\ at > d
      [] p[d].kind = "function" -> Encloses(p, d, at) /\ at > d
      [] OTHER -> Encloses(p, Last(p[d].kids), at)

\* What a name means at a position: the nearest declaration in scope.
Meant(p, name, at) ==
    LET declared == {d \in 1..at : p[d].kind \in DeclaringKinds /\ name \in ToSet(p[d].names) /\ InScope(p, d, at)}
    IN <<Innermost(declared), name>>

IsName(p, n) == p[n].kind = "name"
Binding(p, n) == Meant(p, p[n].names[1], n)
IsLocalName(p, n) == IsName(p, n) /\ Binding(p, n)[1] # 0
ReferencesTo(p, local) == {n \in DOMAIN p : IsName(p, n) /\ Binding(p, n) = local}
-----------------------------------------------------------------------------
(* Edits: a tree written before a node, or in its place.                      *)

Insert(at, trees) == [at |-> at, inPlace |-> FALSE, trees |-> trees]
Replace(at, trees) == [at |-> at, inPlace |-> TRUE, trees |-> trees]

\* What is written for nodes that follow one another.
RECURSIVE EditedTrees(_, _, _)
EditedTrees(p, ns, edits) ==
    LET n == Head(ns)
        Written(inPlace) == {e \in edits : e.at = n /\ e.inPlace = inPlace}
        TreesOf(found) == IF found = {} THEN <<>> ELSE (CHOOSE e \in found : TRUE).trees
    IN IF ns = <<>> THEN <<>>
       ELSE TreesOf(Written(FALSE)) \o
            (IF Written(TRUE) # {} THEN TreesOf(Written(TRUE))
             ELSE <<Tree(p[n].kind, p[n].names, EditedTrees(p, p[n].kids, edits))>>) \o
            EditedTrees(p, Tail(ns), edits)

EditedTree(p, edits) == EditedTrees(p, <<1>>, edits)[1]

\* A client refuses edits of which one is inside another, or two at one place.
Disjoint(p, edits) ==
    /\ \A e, f \in edits : e # f => e.at # f.at \/ e.inPlace # f.inPlace
    /\ \A e, f \in edits : e.inPlace /\ e.at # f.at => ~Encloses(p, e.at, f.at)

\* What can be called and indexed as it stands, what stands as an operand, and
\* no function with a name where a value is meant.
PrefixKinds == {"name", "index", "call", "group"}
Parses(p) ==
    \A n \in DOMAIN p :
        /\ p[n].kind = "binary" => \A i \in DOMAIN p[n].kids : p[p[n].kids[i]].kind # "binary"
        /\ p[n].kind \in {"call", "index"} => p[p[n].kids[1]].kind \in PrefixKinds
        /\ p[n].kind \in {"assign", "compound"} => p[p[n].kids[1]].kind \in {"name", "index"}
        /\ p[n].kind = "expr" => p[p[n].kids[1]].kind = "call"
        /\ p[n].kind = "localfunction" => p[p[n].kids[1]].kind = "function"
        /\ p[n].kind # "named function"
-----------------------------------------------------------------------------
(* Running a program. A value is a tag and the function it is, if any. The    *)
(* run keeps what each variable holds, the calls of globals made so far (what *)
(* can be seen of a program) and how the statement run last ended. A loop     *)
(* runs at most twice; a global that is called answers with its name and      *)
(* changes nothing.                                                           *)

Tag(tag) == [tag |-> tag, function |-> 0]
Nil == Tag("nil")
IsTruthy(value) == value.tag \notin {"nil", "false"}
Start == [vars |-> <<>>, seen |-> <<>>, end |-> "go", value |-> Nil, returned |-> <<>>]

Holds(run, var) == IF \E i \in DOMAIN run.vars : run.vars[i].var = var
                   THEN (CHOOSE b \in ToSet(run.vars) : b.var = var).value
                   ELSE Tag(var[2])
Store(run, var, value) ==
    [run EXCEPT !.vars = Append(SelectSeq(@, LAMBDA b : b.var # var), [var |-> var, value |-> value])]

StoreAll(run, vars, values) ==
    FoldLeft(LAMBDA r, i : Store(r, vars[i], IF i \in DOMAIN values THEN values[i] ELSE Nil),
             run, [i \in 1..Len(vars) |-> i])
Ended(run, ends) == IF run.end \in ends THEN [run EXCEPT !.end = "go"] ELSE run

RECURSIVE Run(_, _, _)
\* Runs nodes one after the other, as long as none of them ends the statement.
RECURSIVE RunAll(_, _, _)
AndThen(first, rest) == [run |-> rest.run, values |-> <<first.value>> \o rest.values]
RunRest(p, ns, first) == AndThen(first, RunAll(p, ns, first))
RunAll(p, ns, start) ==
    IF ns = <<>> \/ start.end # "go" THEN [run |-> start, values |-> <<>>]
    ELSE RunRest(p, Tail(ns), Run(p, Head(ns), start))

Then(run, More(_)) == IF run.end = "go" THEN More(run) ELSE run

VarsOf(p, n) == [i \in DOMAIN p[n].names |-> <<n, p[n].names[i]>>]

AnswerOfGlobal(run, callee, values) ==
    [run EXCEPT !.seen = Append(@, [i \in DOMAIN values |-> values[i].tag]),
                !.value = Tag(callee.tag \o "()"), !.returned = <<Tag(callee.tag \o "()")>>]
AnswerOf(called) ==
    IF called.end = "return" THEN Ended(called, {"return"}) ELSE [called EXCEPT !.value = Nil, !.returned = <<>>]
RunBody(p, f, args) == Run(p, p[f].kids[1], StoreAll(args.run, VarsOf(p, f), Tail(args.values)))
RunCall(p, args) ==
    IF args.run.end # "go" THEN args.run
    ELSE IF args.values[1].function = 0 THEN AnswerOfGlobal(args.run, args.values[1], args.values)
    ELSE AnswerOf(RunBody(p, args.values[1].function, args))

RunLoopBody(p, n, run) == Ended(Run(p, CHOOSE k \in ToSet(p[n].kids) : p[k].kind = "block", run), {"continue"})
RunTest(p, n, run) == Run(p, CHOOSE k \in ToSet(p[n].kids) : p[k].kind # "block", run)
BreakIf(run, condition) == IF run.end = "go" /\ IsTruthy(run.value) = condition THEN [run EXCEPT !.end = "break"] ELSE run
WhileOnce(p, n, run) == Then(BreakIf(RunTest(p, n, run), FALSE), LAMBDA r : RunLoopBody(p, n, r))
RepeatOnce(p, n, run) == Then(RunLoopBody(p, n, run), LAMBDA r : BreakIf(RunTest(p, n, r), TRUE))
ForOnce(p, n, run, tag) == RunLoopBody(p, n, StoreAll(run, VarsOf(p, n), <<Tag(tag)>>))
RunLoop(p, n, start) ==
    CASE p[n].kind = "while" -> Then(WhileOnce(p, n, start), LAMBDA r : WhileOnce(p, n, r))
      [] p[n].kind = "repeat" -> Then(RepeatOnce(p, n, start), LAMBDA r : RepeatOnce(p, n, r))
      [] OTHER -> Then(RunAll(p, Front(p[n].kids), start).run,
                       LAMBDA r : Then(ForOnce(p, n, r, "1"), LAMBDA q : ForOnce(p, n, q, "2")))

\* The branch that is run when the test before it holds.
RunWhenTrue(p, n, test) == IF test.end = "go" /\ IsTruthy(test.value) THEN Run(p, n, test) ELSE test

\* What a node does once its operands have run, with their values.
Sum(values) == Tag(values[1].tag \o "+" \o values[2].tag)
Given(run, values, vars) == IF Len(values) = 1 /\ Len(vars) > 1 THEN run.returned ELSE values
Finish(p, n, run, values) ==
    LET node == p[n]
    IN CASE node.kind = "do" -> Ended(run, {"give"})
         [] node.kind = "localfunction" -> StoreAll(run, VarsOf(p, n), values)
         [] run.end # "go" -> run
         [] node.kind = "binary" -> [run EXCEPT !.value = Sum(values)]
         [] node.kind = "index" -> [run EXCEPT !.value = Tag(@.tag \o "." \o node.names[1])]
         [] node.kind = "local" -> StoreAll(run, VarsOf(p, n), Given(run, values, node.names))
         [] node.kind = "assign" -> Store(run, Binding(p, node.kids[1]), run.value)
         [] node.kind = "compound" -> Store(run, Binding(p, node.kids[1]), Sum(values))
         [] node.kind \in {"return", "give"} ->
                [run EXCEPT !.end = node.kind, !.returned = values,
                            !.value = IF node.kids = <<>> THEN Nil ELSE values[1]]
         [] OTHER -> run  \* block, expr, group
FinishAfter(p, n, kids) == Finish(p, n, kids.run, kids.values)

IsBranch(node) == node.kind = "if" \/ (node.kind = "binary" /\ node.names = <<"and">>)
Run(p, n, start) ==
    LET node == p[n]
    IN CASE node.kind = "name" -> [start EXCEPT !.value = Holds(start, Binding(p, n))]
         [] node.kind = "const" -> [start EXCEPT !.value = Tag(node.names[1])]
         [] node.kind = "function" -> [start EXCEPT !.value = [tag |-> "function", function |-> n]]
         [] IsBranch(node) -> RunWhenTrue(p, node.kids[2], Run(p, node.kids[1], start))
         [] node.kind = "call" -> RunCall(p, RunAll(p, node.kids, start))
         [] node.kind \in LoopKinds -> Ended(RunLoop(p, n, start), {"break"})
         [] node.kind \in {"break", "continue"} -> [start EXCEPT !.end = node.kind]
         [] OTHER -> FinishAfter(p, n, RunAll(p, IF node.kind = "assign" THEN <<node.kids[2]>> ELSE node.kids, start))

\* What can be seen of a program; a text that does not parse does nothing.
Outcome(p) == IF Parses(p) THEN Run(p, 1, Start).seen ELSE <<<<"syntax error">>>>
Behaviour(tree) == Outcome(Program(tree))
=============================================================================
