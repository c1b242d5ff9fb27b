---------------------------- MODULE Refactorings ----------------------------
(* The refactorings of statements and expressions (operations/Refactoring.cpp *)
(* and what References.cpp finds for them): extract to a local variable,      *)
(* extract to a function, inline a variable, inline a function. Each is       *)
(* offered from a range of the text and resolved to edits; statements have    *)
(* lines of their own, so that edits of whole lines are edits of statements.  *)
EXTENDS Syntax

\* A selection, from the node it starts in to the node it ends in.
Selection(first, last) == [first |-> first, last |-> last]
EnclosesRange(p, n, range) == Encloses(p, n, range.first) /\ Encloses(p, n, range.last)

\* The name of a local function is written inside its function.
IsOnFunctionName(p, range) ==
    range.last = range.first /\ range.first \in DOMAIN p /\ p[range.first].kind = "localfunction"

FindExprCoveringRange(p, range) ==
    IF IsOnFunctionName(p, range) THEN p[range.first].kids[1]
    ELSE Innermost({n \in Ancestry(p, range.first) : IsExpression(p, n) /\ EnclosesRange(p, n, range)})

FindEnclosingBlock(p, at) == Innermost({n \in Ancestry(p, at) : p[n].kind = "block"})
FindEnclosingStatement(p, expr) ==
    Innermost({n \in Ancestry(p, expr) : IsStatement(p, n) /\ p[n].kind # "block"})

\* The statements of the block that the selection overlaps.
FindStatementsInRange(p, block, range) ==
    SelectSeq(p[block].kids, LAMBDA s : s <= range.last /\ range.first <= p[s].last)

\* The nodes of the statements, but for what is inside the functions there.
Selected(p, statements) == UNION {s..p[s].last : s \in ToSet(statements)}
Seen(p, statements) ==
    LET all == Selected(p, statements)
    IN {n \in all : ~\E f \in all : p[f].kind = "function" /\ Encloses(p, f, n)}

Defined(p, statements) == UNION {LocalsOf(p, n) : n \in Seen(p, statements)}

HasControlFlowEscape(p, statements) ==
    LET seen == Seen(p, statements)
        InLoop(n) == \E loop \in seen : p[loop].kind \in LoopKinds /\ Encloses(p, loop, n)
    IN \E n \in seen : p[n].kind = "return" \/ (p[n].kind \in {"break", "continue"} /\ ~InLoop(n))

\* In the order in which they are first read.
FreeVariables(p, statements) ==
    LET read == {Binding(p, n) : n \in {m \in Seen(p, statements) : IsLocalName(p, m)}}
        FirstRead(local) == Min({n \in Seen(p, statements) : IsName(p, n) /\ Binding(p, n) = local})
    IN SetToSortSeq(read \ Defined(p, statements), LAMBDA a, b : FirstRead(a) < FirstRead(b))

ReturnVariables(p, statements) ==
    SetToSortSeq({l \in Defined(p, statements) : \E n \in ReferencesTo(p, l) : n > p[Last(statements)].last},
                 LAMBDA a, b : a[1] < b[1])

NamesOf(locals) == [i \in DOMAIN locals |-> locals[i][2]]
Reads(names) == [i \in DOMAIN names |-> Tree("name", <<names[i]>>, <<>>)]
Name(name) == Tree("name", <<name>>, <<>>)

None == {}

\* The function of "local function k" begins with its keyword: its text has the
\* name in it, and what is put in its place comes to stand behind "local".
IsNamedFunction(p, expr) == p[p[expr].parent].kind = "localfunction"
TextOf(p, expr) ==
    IF IsNamedFunction(p, expr)
    THEN Tree("named function", p[p[expr].parent].names, <<TreeAt(p, expr)>>) ELSE TreeAt(p, expr)
ReplaceText(p, expr, name) ==
    IF IsNamedFunction(p, expr)
    THEN Replace(p[expr].parent, <<Tree("local", <<name>>, <<>>)>>) ELSE Replace(expr, <<Name(name)>>)

ComputeExtractVariableEdit(p, range) ==
    LET expr == FindExprCoveringRange(p, range)
        statement == FindEnclosingStatement(p, expr)
    IN IF expr = 0 \/ IsName(p, expr) \/ statement = 0 THEN None
       ELSE {Insert(statement, <<Tree("local", <<"extracted">>, <<TextOf(p, expr)>>)>>),
             ReplaceText(p, expr, "extracted")}

ComputeExtractFunctionEdit(p, range) ==
    LET block == FindEnclosingBlock(p, range.first)
        statements == FindStatementsInRange(p, block, range)
        params == NamesOf(FreeVariables(p, statements))
        returned == NamesOf(ReturnVariables(p, statements))
        body == [i \in DOMAIN statements |-> TreeAt(p, statements[i])] \o
                (IF returned = <<>> THEN <<>> ELSE <<Tree("return", <<>>, Reads(returned))>>)
        function == Tree("function", params, <<Tree("block", <<>>, body)>>)
        call == Tree("call", <<>>, <<Name("extracted")>> \o Reads(params))
        site == IF returned = <<>> THEN Tree("expr", <<>>, <<call>>) ELSE Tree("local", returned, <<call>>)
    IN IF block = 0 \/ statements = <<>> \/ HasControlFlowEscape(p, statements) THEN None
       ELSE {Replace(statements[1], <<Tree("localfunction", <<"extracted">>, <<function>>), site>>)}
            \cup {Replace(statements[i], <<>>) : i \in 2..Len(statements)}
-----------------------------------------------------------------------------
(* Inline variable.                                                           *)

IsReassigned(p, local) ==
    \E n \in DOMAIN p : p[n].kind \in {"assign", "compound"} /\ IsName(p, p[n].kids[1]) /\ Binding(p, p[n].kids[1]) = local

\* The local at a position, by its name where it is read or declared: a
\* declaration stands at the first of its names.
LocalAt(p, at) ==
    CASE at \notin DOMAIN p -> <<0, "">>
      [] IsLocalName(p, at) -> Binding(p, at)
      [] p[at].kind \in DeclaringKinds /\ p[at].names # <<>> -> <<at, p[at].names[1]>>
      [] OTHER -> <<0, "">>

NeedsParentheses(tree) == tree.kind \in {"binary", "unary", "ifelse", "assertion"}
Parenthesized(tree) == Tree("group", <<>>, <<tree>>)

ComputeInlineVariableEdit(p, range) ==
    LET local == LocalAt(p, range.first)
        declaration == p[local[1]]
        initializer == TreeAt(p, declaration.kids[1])
        text == IF NeedsParentheses(initializer) THEN Parenthesized(initializer) ELSE initializer
    IN IF \/ local[1] = 0 \/ declaration.kind # "local" \/ Len(declaration.names) # 1
          \/ declaration.kids = <<>> \/ IsReassigned(p, local)
       THEN None
       ELSE {Replace(n, <<text>>) : n \in ReferencesTo(p, local)} \cup {Replace(local[1], <<>>)}
-----------------------------------------------------------------------------
(* Inline function.                                                           *)

\* The function of a local: declared as one, or the only value of it.
FunctionOf(p, local) ==
    LET declaration == p[local[1]]
    IN IF local[1] = 0 \/ declaration.kind \notin {"local", "localfunction"} THEN 0
       ELSE IF /\ Len(declaration.names) = 1 /\ Len(declaration.kids) = 1
               /\ p[declaration.kids[1]].kind = "function"
            THEN declaration.kids[1] ELSE 0

\* What FunctionBodyFacts finds in the body of function f.
Body(p, f) == p[f].kids[1]
BodyNodes(p, f) == Body(p, f)..p[f].last
IsParameter(p, f, local) == local[1] = f
Between(p, f, n, kinds) == \E m \in BodyNodes(p, f) : m < n /\ Encloses(p, m, n) /\ p[m].kind \in kinds
Returns(p, f) == {n \in BodyNodes(p, f) : p[n].kind = "return" /\ ~Between(p, f, n, {"function"})}
ReturnsFromDoExpression(p, f) == \E n \in Returns(p, f) : Between(p, f, n, {"do"})
NamesRead(p, f) == {n \in BodyNodes(p, f) : IsName(p, n)}
DeclaredNames(p, f) == {l[2] : l \in UNION {LocalsOf(p, n) : n \in BodyNodes(p, f)}}
OuterLocals(p, f) == {Binding(p, n) : n \in {m \in NamesRead(p, f) : Binding(p, m)[1] \in 1..(f - 1)}}
GlobalsOf(p, f) == {p[n].names[1] : n \in {m \in NamesRead(p, f) : Binding(p, m)[1] = 0}}
ParameterReads(p, f) == {n \in NamesRead(p, f) : IsParameter(p, f, Binding(p, n))}

\* What the source takes each name to mean at a position: the locals before it
\* in the blocks around it, loop variables and parameters, the inner ones first.
LocalsInScopeAt(p, at) ==
    LET BoundBy(n) ==
            CASE p[n].kind = "block" ->
                     UNION {LocalsOf(p, s) : s \in {s \in ToSet(p[n].kids) :
                         IF Encloses(p, s, at) THEN p[s].kind = "localfunction"
                         ELSE p[s].last < at /\ p[s].kind \in {"local", "localfunction"}}}
              [] p[n].kind \in {"for", "forin"} -> IF Encloses(p, Last(p[n].kids), at) THEN LocalsOf(p, n) ELSE {}
              [] p[n].kind = "function" -> LocalsOf(p, n)
              [] OTHER -> {}
        bound == UNION {BoundBy(n) : n \in Ancestry(p, at)}
    IN {l \in bound : \A k \in bound : k[2] = l[2] => k[1] <= l[1]}

ConstantKinds == {"const"}
IsRepeatable(p, n) == IsName(p, n) \/ p[n].kind \in ConstantKinds
ArgumentNames(p, n) == IF IsName(p, n) THEN {p[n].names[1]} ELSE {}
ReadNames(p, n) == {p[m].names[1] : m \in {k \in n..p[n].last : IsName(p, k)}}

\* What is replaced for each parameter: the tree for its reads, or nothing when
\* a const binds it first.
Substitutions(p, f, call) ==
    LET args == Tail(p[call].kids)
        taken == DeclaredNames(p, f) \cup GlobalsOf(p, f) \cup {l[2] : l \in OuterLocals(p, f)}
    IN [i \in DOMAIN p[f].names |->
          IF i > Len(args) THEN <<Tree("const", <<"nil">>, <<>>)>>
          ELSE IF IsRepeatable(p, args[i]) /\ ArgumentNames(p, args[i]) \cap taken = {}
          THEN <<TreeAt(p, args[i])>> ELSE <<>>]

\* The call whose callee's name is at the position.
CallAt(p, at) ==
    Innermost({n \in Ancestry(p, at) : p[n].kind = "call" /\ p[n].kids[1] = at /\ IsLocalName(p, at)})

SimpleCall(p, f, call) ==
    LET args == Tail(p[call].kids)
    IN /\ "..." \notin ToSet(p[f].names)
       /\ Len(args) <= Len(p[f].names)
       /\ Len(args) \in 1..(Len(p[f].names) - 1) => p[Last(args)].kind \notin {"call", "varargs"}

\* Mutant: a local of the caller may shadow a global of the body.
MeansTheSameLocals(p, f, call, local) ==
    \A outer \in OuterLocals(p, f) : outer # local /\ outer \in LocalsInScopeAt(p, call)

\* The body must mean the same names at the call: no recursion, and nothing
\* there shadowing what it uses.
MeansTheSameAt(p, f, call, local) ==
    LET inScope == LocalsInScopeAt(p, call)
    IN /\ \A outer \in OuterLocals(p, f) : outer # local /\ outer \in inScope
       /\ \A global \in GlobalsOf(p, f) : \A l \in inScope : l[2] # global

IsSingleReturn(p, f) ==
    LET body == p[Body(p, f)].kids
    IN Len(body) = 1 /\ p[body[1]].kind = "return" /\ Len(p[body[1]].kids) = 1
AsExpression(p, f, subs) == (\A i \in DOMAIN subs : subs[i] # <<>>) /\ IsSingleReturn(p, f)

IsWholeValueOf(p, statement, call) ==
    \/ p[statement].kind = "local" /\ Len(p[statement].names) = 1 /\ p[statement].kids = <<call>>
    \/ p[statement].kind = "assign" /\ p[statement].kids[2] = call

\* A const binding a parameter comes before the arguments after it and the
\* substituted ones, which must not read its name.
BoundNamesAreFree(p, f, call, subs) ==
    LET args == Tail(p[call].kids)
        Bound(i) == {p[f].names[j] : j \in {k \in 1..i : subs[k] = <<>>}}
    IN \A i \in DOMAIN args :
         /\ ReadNames(p, args[i]) \cap Bound(i - 1) = {}
         /\ subs[i] # <<>> => ArgumentNames(p, args[i]) \cap Bound(Len(subs)) = {}

AsDoExpression(p, f, call, subs) ==
    /\ ~ReturnsFromDoExpression(p, f)
    /\ \A n \in Returns(p, f) : Len(p[n].kids) <= 1
    /\ IsWholeValueOf(p, FindEnclosingStatement(p, call), call)
    /\ BoundNamesAreFree(p, f, call, subs)

FindInlinableCall(p, at) ==
    LET call == CallAt(p, at)
        local == LocalAt(p, at)
        f == FunctionOf(p, local)
        subs == Substitutions(p, f, call)
    IN /\ call # 0 /\ f # 0
       /\ SimpleCall(p, f, call)
       /\ ~IsReassigned(p, local)
       /\ MeansTheSameAt(p, f, call, local)
       /\ AsExpression(p, f, subs) \/ AsDoExpression(p, f, call, subs)

SubstitutionEdits(p, f, subs) ==
    LET Sub(n) == subs[CHOOSE i \in DOMAIN p[f].names : p[f].names[i] = p[n].names[1]]
    IN {Replace(n, Sub(n)) : n \in {m \in ParameterReads(p, f) : Sub(m) # <<>>}}

InlinedExpression(p, f, call, subs) ==
    LET value == p[p[Body(p, f)].kids[1]].kids[1]
        text == EditedTrees(p, <<value>>, SubstitutionEdits(p, f, subs))[1]
        parent == p[p[call].parent]
        indexedOrCalled == parent.kind \in {"index", "call"} /\ parent.kids[1] = call
        operand == parent.kind \in {"binary", "unary", "assertion"}
    IN IF \/ operand /\ NeedsParentheses(TreeAt(p, value))
          \/ indexedOrCalled /\ p[value].kind \notin PrefixKinds
       THEN Parenthesized(text) ELSE text

InlinedDoExpression(p, f, call, subs) ==
    LET args == Tail(p[call].kids)
        Give(kids) == Tree("give", <<>>, kids)
        nil == Tree("const", <<"nil">>, <<>>)
        unbound == SelectSeq([i \in DOMAIN subs |-> i], LAMBDA i : subs[i] = <<>>)
        consts == [i \in DOMAIN unbound |-> Tree("local", <<p[f].names[unbound[i]]>>, <<TreeAt(p, args[unbound[i]])>>)]
        edits == SubstitutionEdits(p, f, subs)
        Kept(n) == EditedTrees(p, <<n>>, edits)
        Gives(n) == Replace(n, <<IF p[n].kids = <<>> THEN Give(<<nil>>) ELSE Give(Kept(p[n].kids[1]))>>)
        body == EditedTrees(p, <<Body(p, f)>>, edits \cup {Gives(n) : n \in Returns(p, f)})[1].kids
        stats == p[Body(p, f)].kids
        ends == stats # <<>> /\ p[Last(stats)].kind = "return"
    IN Tree("do", <<>>, <<Tree("block", <<>>, consts \o body \o (IF ends THEN <<>> ELSE <<Give(<<nil>>)>>))>>)

Inlined(p, f, call, subs) ==
    IF AsExpression(p, f, subs) THEN InlinedExpression(p, f, call, subs) ELSE InlinedDoExpression(p, f, call, subs)
ComputeInlineFunctionEdit(p, range) ==
    LET call == CallAt(p, range.first)
        local == LocalAt(p, range.first)
        f == FunctionOf(p, local)
        subs == Substitutions(p, f, call)
        text == Inlined(p, f, call, subs)
    IN IF ~FindInlinableCall(p, range.first) THEN None
       ELSE {Replace(call, <<text>>)} \cup
            (IF Cardinality(ReferencesTo(p, local)) = 1 THEN {Replace(local[1], <<>>)} ELSE {})
-----------------------------------------------------------------------------
(* A client asks for the code actions of a range, holds one that is offered,  *)
(* and has it resolved to edits, which it makes. The offer keeps its kind and *)
(* range; resolving takes them to the document as it is by then.              *)

CONSTANT Documents    \* the documents that may be opened

VARIABLES
    tree,    \* the document
    held,    \* the code action that the client holds
    stale,   \* the document has changed since it was offered
    made     \* the refactoring made last, with the document it was made of

session == <<tree, held, stale, made>>
NoAction == [type |-> "none", range |-> Selection(0, 0)]
Action(type, range) == [type |-> type, range |-> range]
Refactoring(action, before) == [action |-> action, before |-> before]

SelectsAnExpression(p, range) ==
    LET expr == FindExprCoveringRange(p, range)
    IN expr # 0 /\ ~IsName(p, expr) /\ FindEnclosingStatement(p, expr) # 0

ComputeRefactorings(p, range) ==
    LET block == FindEnclosingBlock(p, range.first)
        statements == FindStatementsInRange(p, block, range)
        local == LocalAt(p, range.first)
        Offered(type, condition) == IF condition THEN {Action(type, range)} ELSE {}
    IN Offered("extractVariable", SelectsAnExpression(p, range))
       \cup Offered("extractFunction", block # 0 /\ statements # <<>> /\ ~HasControlFlowEscape(p, statements))
       \cup Offered("inlineVariable", local[1] # 0 /\ FunctionOf(p, local) = 0)
       \cup Offered("inlineFunction", FindInlinableCall(p, range.first))

ResolveRefactoring(p, action) ==
    CASE action.type = "extractVariable" -> ComputeExtractVariableEdit(p, action.range)
      [] action.type = "extractFunction" -> ComputeExtractFunctionEdit(p, action.range)
      [] action.type = "inlineVariable" -> ComputeInlineVariableEdit(p, action.range)
      [] action.type = "inlineFunction" -> ComputeInlineFunctionEdit(p, action.range)

Init ==
    /\ tree \in Documents
    /\ held = NoAction
    /\ stale = FALSE
    /\ made = Refactoring(NoAction, Tree("block", <<>>, <<>>))

\* What the client selects: a node, two statements that follow one another,
\* or nothing, at the position of a name.
Selections(p) ==
    {Selection(n, p[n].last) : n \in DOMAIN p}
    \cup {Selection(n, n) : n \in {m \in DOMAIN p : p[m].names # <<>>}}
    \cup UNION {{Selection(p[n].kids[i], p[p[n].kids[i + 1]].last) : i \in 1..(Len(p[n].kids) - 1)} : n \in {m \in DOMAIN p : p[m].kind = "block"}}

CodeActions(p) == UNION {ComputeRefactorings(p, range) : range \in Selections(p)}

RequestCodeAction ==
    /\ held = NoAction
    /\ held' \in CodeActions(Program(tree))
    /\ stale' = FALSE
    /\ UNCHANGED <<tree, made>>

\* The user deletes a statement of the document.
DeleteStatement(i) ==
    /\ held # NoAction /\ ~stale
    /\ tree' = [tree EXCEPT !.kids = RemoveAt(@, i)]
    /\ stale' = TRUE
    /\ UNCHANGED <<held, made>>

\* What the client makes of the answer: nothing, when there is no edit.
Refactored(document, action) ==
    EditedTree(Program(document), ResolveRefactoring(Program(document), action))

ResolveAndMake ==
    /\ held # NoAction
    /\ tree' = Refactored(tree, held)
    /\ made' = IF tree' = tree THEN made ELSE Refactoring(held, tree)
    /\ held' = NoAction
    /\ stale' = FALSE

\* One refactoring is made of each document.
Next ==
    /\ made.action = NoAction
    /\ \/ RequestCodeAction
       \/ \E i \in DOMAIN tree.kids : DeleteStatement(i)
       \/ ResolveAndMake

Spec == Init /\ [][Next]_session
-----------------------------------------------------------------------------
(* What the refactorings do not look at. They keep what a program does where  *)
(* this is no matter.                                                         *)

HasCall(p, n) == \E m \in n..p[n].last : p[m].kind = "call"
IsTarget(p, n) == p[p[n].parent].kind \in {"assign", "compound"} /\ p[p[n].parent].kids[1] = n
AssignmentsTo(p, locals) == {n \in DOMAIN p : IsName(p, n) /\ IsTarget(p, n) /\ Binding(p, n) \in locals}

\* The expression is evaluated once, when its statement begins, and for a value.
EvaluatedFirst(p, range) ==
    LET expr == FindExprCoveringRange(p, range)
        statement == FindEnclosingStatement(p, expr)
        MayBeSkipped(n) == p[n].kind = "binary" /\ p[n].names = <<"and">> /\ Encloses(p, p[n].kids[2], expr)
    IN /\ p[statement].kind \notin {"while", "repeat"}
       /\ \A n \in Ancestry(p, expr) : ~MayBeSkipped(n)
       /\ \A n \in statement..(expr - 1) : p[n].kind = "call" => p[n].last >= expr
       /\ p[statement].kind = "expr" => p[expr].parent # statement

\* The text that is copied is that of a value: it is not, for the function of a
\* local function, and the document that extracting it makes does not parse.
TextIsAnExpression(p, range) == ~IsNamedFunction(p, FindExprCoveringRange(p, range))

\* No variable that the statements share with the code around them is assigned.
SharesNoAssignment(p, range) ==
    LET block == FindEnclosingBlock(p, range.first)
        statements == FindStatementsInRange(p, block, range)
        locals == ToSet(FreeVariables(p, statements)) \cup Defined(p, statements)
    IN \A n \in AssignmentsTo(p, locals) : n < statements[1]

\* The value is the same where the variable is read.
InitializerKeepsItsValue(p, range) ==
    LET local == LocalAt(p, range.first)
        reads == {n \in (local[1] + 1)..p[local[1]].last : IsName(p, n)}
    IN /\ ~HasCall(p, local[1])
       /\ \A n \in reads : /\ ~IsReassigned(p, Binding(p, n))
                           /\ \A r \in ReferencesTo(p, local) : Meant(p, p[n].names[1], r) = Binding(p, n)
       /\ \A r \in ReferencesTo(p, local) :
              p[p[r].parent].kind \in {"call", "index"} /\ p[p[r].parent].kids[1] = r =>
                  p[p[local[1]].kids[1]].kind \in PrefixKinds

\* The call stands for a value, and the parameters keep theirs and are used as
\* values alone.
ParametersAreValues(p, range) ==
    LET call == CallAt(p, range.first)
        f == FunctionOf(p, LocalAt(p, range.first))
    IN /\ p[p[call].parent].kind # "expr"
       /\ \A n \in ParameterReads(p, f) :
              ~IsTarget(p, n) /\ (p[p[n].parent].kind \in {"call", "index"} => p[p[n].parent].kids[1] # n)

MeetsItsAssumptions(p, action) ==
    CASE action.type = "extractVariable" ->
             TextIsAnExpression(p, action.range) /\ EvaluatedFirst(p, action.range)
      [] action.type = "extractFunction" -> SharesNoAssignment(p, action.range)
      [] action.type = "inlineVariable" -> InitializerKeepsItsValue(p, action.range)
      [] action.type = "inlineFunction" -> ParametersAreValues(p, action.range)
-----------------------------------------------------------------------------
\* A refactoring changes nothing that can be seen of a run of the program,
\* whatever range of whatever document it is asked for, and also when the
\* document has changed since it was offered: what decides whether it is sound
\* (escaping control flow, shadowed and reassigned variables, the values that
\* are needed outside) is looked at again in the document that it is made of.
RefactoringsKeepBehaviour ==
    made.action # NoAction /\ MeetsItsAssumptions(Program(made.before), made.action) =>
        Behaviour(tree) = Behaviour(made.before)

\* Inlining an extracted variable gives back the document that it was
\* extracted from: the declaration goes in front of the statement that reads
\* it, in its block, and what is put in its place is what was taken.
ExtractedVariablesInlineBack ==
    made.action.type = "extractVariable" /\ TextIsAnExpression(Program(made.before), made.action.range) =>
        LET p == Program(tree)
            declaration == CHOOSE n \in DOMAIN p : p[n].kind = "local" /\ p[n].names = <<"extracted">>
            back == EditedTree(p, ComputeInlineVariableEdit(p, Selection(declaration, declaration)))
        IN NeedsParentheses(p[p[declaration].kids[1]]) \/ back = made.before

Resolves(p, edits) == edits # None /\ Disjoint(p, edits)

\* What is offered is made: the checks of the offer are no weaker than those of
\* resolving it. Only inlining a variable is offered before it is checked.
OfferedRefactoringsResolve ==
    held # NoAction /\ ~stale /\ held.type # "inlineVariable" =>
        LET p == Program(tree)
        IN Resolves(p, ResolveRefactoring(p, held))
=============================================================================
