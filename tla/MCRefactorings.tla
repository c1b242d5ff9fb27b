--------------------------- MODULE MCRefactorings ---------------------------
(* A document is a program, a class, a text of lint fixes or the block of a   *)
(* string that a loop appends to. The programs of                             *)
(* the checked instance: two statements of a list between a local and a call  *)
(* that reads another, and calls of a function with one of a list of bodies,  *)
(* with arguments and between declarations of a list.                         *)
EXTENDS Refactorings, Traits

Const(tag) == Tree("const", <<tag>>, <<>>)
Call(name, args) == Tree("call", <<>>, <<Name(name)>> \o args)
Block(statements) == Tree("block", <<>>, statements)
Function(params, statements) == Tree("function", params, <<Block(statements)>>)
Local(name, value) == Tree("local", <<name>>, <<value>>)
LocalFunction(name, function) == Tree("localfunction", <<name>>, <<function>>)
Assign(name, value) == Tree("assign", <<>>, <<Name(name), value>>)
Return(value) == Tree("return", <<>>, <<value>>)
Expr(call) == Tree("expr", <<>>, <<call>>)
Log(value) == Expr(Call("log", <<value>>))
Plus(a, b) == Tree("binary", <<"+">>, <<a, b>>)
And(a, b) == Tree("binary", <<"and">>, <<a, b>>)
If(condition, statements) == Tree("if", <<>>, <<condition, Block(statements)>>)

Statements == {
    Local("x", Name("y")), Local("x", Call("h", <<>>)), Local("z", Plus(Name("x"), Name("g"))),
    Log(Name("x")), Assign("x", Call("h", <<Name("y")>>)),
    If(Name("y"), <<Local("x", Const("4")), Log(Name("x"))>>),
    Tree("while", <<>>, <<Call("h", <<>>), Block(<<Log(Name("x")), Tree("break", <<>>, <<>>)>>)>>),
    Tree("repeat", <<>>, <<Block(<<Local("x", Name("z"))>>), Name("x")>>),
    LocalFunction("k", Function(<<"x">>, <<Return(Plus(Name("x"), Name("y")))>>)),
    Log(And(Name("x"), Call("k", <<Name("y")>>)))}

Extracts == {Block(<<Local("y", Const("1")), s[1], s[2], Log(Name("x"))>>) : s \in [1..2 -> Statements]}

Bodies == {
    <<Return(Plus(Name("a"), Name("g")))>>, <<Return(Call("h", <<Name("b")>>))>>,
    <<Local("z", Name("a")), Return(Name("z"))>>,
    <<If(Name("b"), <<Return(Name("a"))>>), Return(Name("y"))>>, <<Log(Name("b"))>>}
Arguments == {<<Name("y")>>, <<Call("h", <<>>), Name("a")>>, <<Plus(Name("z"), Const("7")), Call("h", <<>>)>>}
Declarations == {<<Local("y", Const("2"))>>, <<Local("g", Const("3"))>>}
Uses(call) == {<<Local("r", call), Log(Name("r"))>>, <<Log(Plus(call, Const("8"))), Log(Name("f"))>>}
Closure(call) == <<Local("w", Function(<<"y">>, <<Return(call)>>)), Log(Call("w", <<Const("w")>>))>>
Calls(call) == {Closure(call)} \cup {e \o u : e \in Declarations, u \in Uses(call)}

Inlines == {Block(<<Local("y", Const("1")), LocalFunction("f", Function(<<"a", "b">>, b))>> \o u) :
            b \in Bodies, u \in UNION {Calls(Call("f", a)) : a \in Arguments}}

Programs == Extracts \cup Inlines
-----------------------------------------------------------------------------
Member(kind, name, modifiers, uses) ==
    [kind |-> kind, name |-> name, modifiers |-> modifiers, hasDefault |-> name = "d",
     uses |-> uses, first |-> 0, last |-> 0]

\* Classes without specifiers, with all of them and with some; f and d are
\* fields, d with a default, and p is a parameter of the constructor.
MemberLists == {
    <<Member("field", "f", <<>>, {}), Member("function", "m", <<>>, {"f", "n", "p"}),
      Member("function", "n", <<"final">>, {"m"})>>,
    <<Member("field", "d", <<"private", "const">>, {}), Member("function", "__init", <<"public">>, {"d", "f"}),
      Member("function", "m", <<"private">>, {"d", "f"}), Member("field", "f", <<"public", "const">>, {})>>,
    <<Member("function", "m", <<>>, {}), Member("field", "f", <<"private">>, {}),
      Member("function", "n", <<"public", "final">>, {"f", "m"})>>,
    <<Member("function", "m", <<"public">>, {"n"}), Member("function", "n", <<"public", "final">>, {"p"}),
      Member("field", "d", <<"public", "const">>, {})>>}

\* A member has a line, m has two; gap says which have a blank line above (that
\* of the first is not used).
Height(member) == IF member.name = "m" THEN 2 ELSE 1
Top(list, gap, i) == 2 + FoldSet(LAMBDA j, lines : lines + Height(list[j]) + gap[j + 1], 0, 1..(i - 1))
ClassOf(list, gap, params) ==
    LET members == [i \in DOMAIN list |-> [list[i] EXCEPT !.first = Top(list, gap, i),
                                                          !.last = Top(list, gap, i) + Height(list[i]) - 1]]
    IN [isTrait |-> FALSE, header |-> 1, end |-> Last(members).last + 1, params |-> params,
        members |-> members, traits |-> <<>>]

Tidy == UNION {{ClassOf(list, gap, params) : gap \in [DOMAIN list -> {0, 1}],
                                             params \in {<<>>, <<Member("field", "p", <<>>, {})>>,
                                                          <<Member("field", "p", <<"public">>, {})>>}} :
                 list \in MemberLists}

\* And some whose first members share a line.
Sharing(c) == [c EXCEPT !.members = [@ EXCEPT ![2] = [@ EXCEPT !.first = c.members[1].last]]]
AllClasses == Tidy \cup {Sharing(c) : c \in Tidy}

NoClass == [isTrait |-> FALSE, header |-> 1, end |-> 2, params |-> <<>>, members |-> <<>>, traits |-> <<>>]
NoProgram == Block(<<>>)

MCDocuments == Programs \cup {NoProgram}
MCClasses == AllClasses \cup {NoClass}

-----------------------------------------------------------------------------
\* A string that a loop appends to, between other uses of it, and a statement of
\* a list with the append.
Part(op, kids) == [op |-> op, text |-> "", kids |-> kids]
Literal(value) == [op |-> "text", text |-> value, kids |-> <<>>]
ReadString == Part("read", <<>>)
SomeCall == Part("call", <<>>)
Inside == Part("interpolated", <<Literal("i")>>)
Concatenation(a, b) == Part("concat", <<a, b>>)
WriteOut(value) == Part("write", <<value>>)

Appends == {Part("append", <<v>>) : v \in {Literal("x"), SomeCall, Part("group", <<SomeCall>>), ReadString,
                                           Concatenation(Literal("y"), Part("otherParts", <<>>))}}
           \cup {Part("assign", <<Concatenation(ReadString, SomeCall)>>)}
OtherUses == {Part("assign", <<v>>) : v \in {Literal(""), Literal("r"), Inside, Concatenation(Literal("p"), ReadString)}}
             \cup {Part("assignBoth", <<Literal("q")>>), Part("compound", <<ReadString, Literal("k")>>),
                   Part("compound", <<Literal("t"), ReadString>>), Part("function", <<WriteOut(ReadString)>>),
                   WriteOut(ReadString), WriteOut(Part("interpolated", <<ReadString>>))}
Loops == UNION {{Part("loop", <<a, o>>), Part("loop", <<o, a>>), Part("if", <<o, Part("loop", <<a>>)>>)} :
                  a \in Appends, o \in OtherUses}
UsesAfter == {<<>>, <<WriteOut(ReadString)>>, <<Part("append", <<Literal("e")>>), Part("run", <<>>)>>}

LoopPrograms ==
    {[block |-> <<Part("declare", <<s>>)>> \o b \o <<l>> \o a, until |-> u] :
        s \in {Literal(""), Part("group", <<Literal("s")>>), Inside, SomeCall}, l \in Loops, a \in UsesAfter,
        b \in {<<>>, <<WriteOut(ReadString)>>}, u \in {<<>>, <<ReadString>>}}
NoLoop == [block |-> <<>>, until |-> <<>>]
-----------------------------------------------------------------------------
VARIABLES text, fixed, count, program, original
lint == <<text, fixed, count>>
loop == <<program, original>>

Listed == INSTANCE LintTexts
Lint == INSTANCE LintFixes WITH Texts <- Listed!Texts, MaxFixes <- 2
Loop == INSTANCE LoopConcat WITH Programs <- LoopPrograms

\* A refactoring keeps what a program does, is undone by its inverse, and what is
\* offered can be resolved.
RefactoringsAreSound == RefactoringsKeepBehaviour /\ ExtractedVariablesInlineBack /\ OfferedRefactoringsResolve

\* Every member that was moved into a trait is there once, with its lines and what
\* the trait needs to be checked alone.
ExtractedTraitsAreSound == MembersAreMoved /\ TraitsStandAlone /\ LinesMoveWithMembers

\* A fix changes the meaning of a text as its title says, alone or among all, and
\* a table of parts gives the string it stands for.
FixesAreSound ==
    Lint!FixesKeepMeaning /\ Lint!FixesChangeWhatTheySay /\ Lint!FixAllSettles /\ Loop!PartsGiveTheString

\* A text is fixed when there is neither a program nor a class, a block when there
\* is no text either.
NoText == <<>>
Unfixed == text = NoText /\ fixed = Lint!Nothing /\ count = 0
Unlooped == program = NoLoop /\ original = NoLoop

MCInit ==
    /\ Init /\ ClassInit
    /\ tree = NoProgram \/ opened = NoClass
    /\ \/ Lint!Init /\ Unlooped /\ tree = NoProgram /\ opened = NoClass
       \/ Loop!Init /\ Unfixed /\ tree = NoProgram /\ opened = NoClass
       \/ Unfixed /\ Unlooped

MCNext ==
    \/ Next /\ UNCHANGED <<classSession, lint, loop>>
    \/ ClassNext /\ UNCHANGED <<session, lint, loop>>
    \/ Lint!Next /\ UNCHANGED <<session, classSession, loop>>
    \/ Loop!Next /\ UNCHANGED <<session, classSession, lint>>

MCSpec == MCInit /\ [][MCNext]_<<session, classSession, lint, loop>>
=============================================================================
