---------------------------- MODULE LoopConcat -----------------------------
(* The quick fix of the LoopConcat warning (operations/LintFixes.cpp): a      *)
(* string that a loop appends to becomes a table of parts that is joined      *)
(* after the statement with the loop. The edits are made from the syntax      *)
(* tree, so the document is the block that declares the string, as a tree.    *)
EXTENDS Naturals, Sequences, SequencesExt

CONSTANTS Programs  \* the documents: a block, and the condition after it if a repeat ends with it

VARIABLES
    program,  \* the document
    original  \* the document as it was opened

vars == <<program, original>>
-----------------------------------------------------------------------------
(* A tree. The statements about the string: declare, append (s ..= v),        *)
(* assign, assignBoth (s and something else); about the table: parts, insert, *)
(* restart. A read is of the string and a join of the table.                  *)

Tree(op, text, kids) == [op |-> op, text |-> text, kids |-> kids]
Text(text) == Tree("text", text, <<>>)
Read == Tree("read", "", <<>>)
Group(e) == Tree("group", "", <<e>>)
Kid(tree) == tree.kids[1]

RECURSIVE UnwrapGroup(_), Within(_)
UnwrapGroup(e) == IF e.op = "group" THEN UnwrapGroup(Kid(e)) ELSE e
Within(tree) == {tree} \cup UNION {Within(kid) : kid \in ToSet(tree.kids)}

Uses(tree) == \E t \in Within(tree) : t.op \in {"read", "append", "assign", "assignBoth"}

\* What a statement appends to the string, also as s = s .. v.
IsConcat(e) == e.op = "concat" /\ UnwrapGroup(Kid(e)) = Read
Appended(stat) ==
    CASE stat.op = "append" -> {Kid(stat)}
      [] stat.op = "assign" /\ IsConcat(UnwrapGroup(Kid(stat))) -> {UnwrapGroup(Kid(stat)).kids[2]}
      [] OTHER -> {}
IsAppend(tree) == Appended(tree) # {}

AppendsInALoop(tree) == \E loop \in Within(tree) : loop.op = "loop" /\ \E t \in Within(loop) : IsAppend(t)
-----------------------------------------------------------------------------
(* Where the string is declared and which statement of the block appends.     *)

DeclarationsIn(block) == {i \in DOMAIN block : block[i].op = "declare"}
StartsAsLiteral(declaration) == UnwrapGroup(Kid(declaration)).op \in {"text", "interpolated"}

OwnersIn(block, declared) ==
    {i \in declared + 1 .. Len(block) :
        /\ AppendsInALoop(block[i])
        /\ \A j \in declared + 1 .. i - 1 : ~Uses(block[j])}
IsUsedAfter(block, owner) == \E i \in owner + 1 .. Len(block) : Uses(block[i])

\* Uses of the string that the table can't stand for.
RECURSIVE IsUnsupported(_)
IsUnsupported(tree) ==
    CASE IsAppend(tree) -> \E value \in Appended(tree) : Uses(value)
      [] tree.op = "assign" /\ ~IsAppend(tree) -> UnwrapGroup(Kid(tree)).op # "text"
      [] tree.op = "assignBoth" -> TRUE
      [] tree.op = "compound" /\ Uses(Kid(tree)) -> TRUE
      [] tree.op = "function" -> Uses(tree)
      [] OTHER -> \E kid \in ToSet(tree.kids) : IsUnsupported(kid)

\* The name the table would have is in the document already.
PartsAreTaken(p) == \E tree \in ToSet(p.block) \cup ToSet(p.until) : \E t \in Within(tree) : t.op = "otherParts"
-----------------------------------------------------------------------------
(* The rewrite.                                                               *)

StartingTable(op, literal) == Tree(op, "", IF literal = Text("") THEN <<>> ELSE <<literal>>)
AppendTo(value) == Tree("insert", "", <<IF value.op = "call" THEN Group(value) ELSE value>>)
Join == Tree("join", "", <<>>)

RECURSIVE SortedUses(_)
SortedUses(tree) ==
    CASE IsAppend(tree) -> AppendTo(CHOOSE value \in Appended(tree) : TRUE)
      [] tree.op = "assign" /\ ~IsAppend(tree) -> StartingTable("restart", UnwrapGroup(Kid(tree)))
      [] tree.op = "read" -> Join
      [] OTHER -> [tree EXCEPT !.kids = [i \in DOMAIN tree.kids |-> SortedUses(tree.kids[i])]]

Joined(block, owner) == IF IsUsedAfter(block, owner) THEN <<Tree("declare", "", <<Join>>)>> ELSE <<>>

WithParts(block, declared, owner) ==
    SubSeq(block, 1, declared - 1) \o <<StartingTable("parts", UnwrapGroup(Kid(block[declared])))>>
    \o SubSeq(block, declared + 1, owner - 1) \o <<SortedUses(block[owner])>>
    \o Joined(block, owner) \o SubSeq(block, owner + 1, Len(block))

FixLoopConcat(p) ==
    {[p EXCEPT !.block = WithParts(@, d, o)] :
        <<d, o>> \in {pair \in DeclarationsIn(p.block) \X DOMAIN p.block :
                        /\ StartsAsLiteral(p.block[pair[1]])
                        /\ pair[2] \in OwnersIn(p.block, pair[1])
                        /\ ~IsUnsupported(p.block[pair[2]])
                        /\ ~PartsAreTaken(p)}}
-----------------------------------------------------------------------------
(* What a document does. Each declaration of the string makes a cell of its   *)
(* own, which the functions written after it keep.                            *)

Start == [cells |-> <<>>, scope |-> 0, parts |-> <<>>, declared |-> FALSE, kept |-> <<>>, scopeOfKept |-> 0,
          out |-> <<>>]

Concatenated(texts) == FoldLeft(LAMBDA a, b : a \o b, "", texts)

RECURSIVE Values(_, _)
First(e, state) == Head(Values(e, state))
Values(e, state) ==
    CASE e.op = "text" -> <<e.text>>
      [] e.op = "interpolated" -> <<"<" \o Concatenated([i \in DOMAIN e.kids |-> First(e.kids[i], state)]) \o ">">>
      [] e.op = "call" -> <<"c", "d">>
      [] e.op = "read" -> <<IF state.scope = 0 THEN "nil" ELSE state.cells[state.scope]>>
      [] e.op = "join" -> <<Concatenated(state.parts)>>
      [] e.op = "otherParts" -> <<IF state.declared THEN "table" ELSE "other">>
      [] e.op = "group" -> <<First(Kid(e), state)>>
      [] e.op = "concat" -> <<First(Kid(e), state) \o First(e.kids[2], state)>>

Written(state, text) == [state EXCEPT !.out = Append(@, text)]
Set(state, text) ==
    IF state.scope = 0 THEN Written(state, "global") ELSE [state EXCEPT !.cells[state.scope] = text]
Declared(state, text) == [state EXCEPT !.cells = Append(@, text), !.scope = Len(state.cells) + 1]
Inserted(state, values) ==
    IF Len(values) # 1 THEN Written(state, "error") ELSE [state EXCEPT !.parts = @ \o values]
WithTable(state, texts) == [state EXCEPT !.parts = texts, !.declared = TRUE]

RECURSIVE Run(_, _), RunOne(_, _)
Run(block, state) == FoldLeft(LAMBDA s, stat : RunOne(stat, s), state, block)
RunOne(stat, state) ==
    CASE stat.op = "declare" -> Declared(state, First(Kid(stat), state))
      [] stat.op = "append" -> Set(state, First(Read, state) \o First(Kid(stat), state))
      [] stat.op \in {"assign", "assignBoth"} -> Set(state, First(Kid(stat), state))
      [] stat.op = "compound" -> Written(state, First(Kid(stat), state) \o First(stat.kids[2], state))
      [] stat.op = "write" -> Written(state, First(Kid(stat), state))
      [] stat.op = "if" -> Run(stat.kids, state)
      [] stat.op = "loop" -> Run(stat.kids, Run(stat.kids, state))
      [] stat.op = "function" -> [state EXCEPT !.kept = stat.kids, !.scopeOfKept = state.scope]
      [] stat.op = "run" -> [Run(state.kept, [state EXCEPT !.scope = state.scopeOfKept]) EXCEPT !.scope = state.scope]
      [] stat.op \in {"parts", "restart"} -> WithTable(state, [i \in DOMAIN stat.kids |-> First(stat.kids[i], state)])
      [] stat.op = "insert" -> Inserted(state, Values(Kid(stat), state))

Outcome(p) == Run([i \in DOMAIN p.until |-> Tree("write", "", <<p.until[i]>>)], Run(p.block, Start)).out
-----------------------------------------------------------------------------
Init == program \in Programs /\ original = program

\* The client applies the fix of a warning.
FixWarning == program' \in FixLoopConcat(program) /\ UNCHANGED original

Next == FixWarning
-----------------------------------------------------------------------------
\* Neither the search for a use after the loop nor the rewrite sees the condition
\* that ends the block of a repeat.
ConditionReadsTheString(p) == \E condition \in ToSet(p.until) : Uses(condition)

\* The table of parts gives the text the string gave, wherever it is read, reset
\* or kept: what the document writes stays (LintFixes.cpp:1104).
PartsGiveTheString == ~ConditionReadsTheString(original) => Outcome(program) = Outcome(original)
=============================================================================
