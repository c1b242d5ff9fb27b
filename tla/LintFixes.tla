----------------------------- MODULE LintFixes -----------------------------
(* The quick fixes of lint warnings and the rewrites that share their code:   *)
(* operations/LintFixes.cpp, the and-or and guard rewrites of                 *)
(* operations/CodeAction.cpp. A fix is text edits of the document, whose      *)
(* replacements are copied from its text, so what it means then is up to the  *)
(* precedence of the operators around it and to the lines above and below.    *)
(*                                                                            *)
(* A place is 2i at the start of token i and 2i + 1 at its end: an insertion  *)
(* after a token is not at the place of one before the next.                  *)
EXTENDS Expressions, FiniteSets

CONSTANTS
    Texts,    \* the documents, as sequences of tokens
    MaxFixes  \* bound: how many fixes the client applies

VARIABLES
    text,     \* the document
    fixed,    \* the last change: what it fixed, the document before, its edits
    count     \* how many there were

vars == <<text, fixed, count>>
-----------------------------------------------------------------------------
(* Edits of a text. *)

Edit(from, to, new) == [from |-> from, to |-> to, new |-> new]
Start(node) == 2 * node.first
End(node) == 2 * node.last + 1
ReplaceNode(node, new) == Edit(Start(node), End(node), new)
TextOf(ts, node) == SubSeq(ts, node.first, node.last)

RECURSIVE InsertedAt(_, _)
InsertedAt(edits, place) ==
    IF edits = <<>> THEN <<>>
    ELSE (IF Head(edits).from = place THEN Head(edits).new ELSE <<>>) \o InsertedAt(Tail(edits), place)

RECURSIVE EditedFrom(_, _, _)
EditedFrom(ts, edits, i) ==
    IF i > Len(ts) THEN <<>>
    ELSE InsertedAt(edits, 2 * i)
         \o (IF \E e \in ToSet(edits) : e.from <= 2 * i /\ 2 * i + 1 <= e.to THEN <<>> ELSE <<ts[i]>>)
         \o InsertedAt(edits, 2 * i + 1) \o EditedFrom(ts, edits, i + 1)

ApplyEdits(ts, edits) == EditedFrom(ts, edits, 1)

Overlaps(a, b) == a.from = b.from \/ (a.from < b.to /\ b.from < a.to)

\* Nodes in the order of their text, those that enclose others first.
RECURSIVE SortNodes(_)
SortNodes(nodes) ==
    IF nodes = {} THEN <<>>
    ELSE LET outermost == CHOOSE m \in nodes :
                              \A n \in nodes : m.first < n.first \/ (m.first = n.first /\ m.last >= n.last)
         IN <<outermost>> \o SortNodes(nodes \ {outermost})

RECURSIVE UnwrapGroup(_)
UnwrapGroup(node) == IF node.op = "group" THEN UnwrapGroup(node.kids[1]) ELSE node

\* The place of the operator of a node: between its operands.
TokenBetween(left, right, t, ts) == CHOOSE i \in left.last + 1 .. right.first - 1 : ts[i] = t
ReplaceToken(i, new) == Edit(2 * i, 2 * i + 1, new)
-----------------------------------------------------------------------------
(* a and b or c becomes if a then b else c. *)

IsAndOr(node) == node.op = "or" /\ node.kids[1].op = "and"

NeedsParentheses(nodes) ==
    UNION {CASE n.op \in BinaryOps -> {n.kids[1], n.kids[2]}
             [] n.op \in {"not", "minus", "index", "call", "ifelse"} -> {n.kids[1]}
             [] OTHER -> {} : n \in nodes}
Bracketed(written, needed) == IF needed THEN <<"(">> \o written \o <<")">> ELSE written

RECURSIVE RewriteRange(_, _, _), RewriteFrom(_, _, _, _, _), RewriteNode(_, _, _)

RewriteRange(ts, found, range) == RewriteFrom(ts, found, found, range.first, range)

IsInside(node, range) ==
    range.first <= node.first /\ node.last <= range.last /\ ~(node.first = range.first /\ node.last = range.last)

RewriteFrom(ts, found, rest, cursor, range) ==
    IF rest = <<>> THEN SubSeq(ts, cursor, range.last)
    ELSE IF ~IsInside(Head(rest), range) \/ Head(rest).first < cursor
    THEN RewriteFrom(ts, found, Tail(rest), cursor, range)
    ELSE SubSeq(ts, cursor, Head(rest).first - 1) \o RewriteNode(ts, found, Head(rest))
         \o RewriteFrom(ts, found, Tail(rest), Head(rest).last + 1, range)

AsIf(condition, yes, no) == <<"if">> \o condition \o <<"then">> \o yes \o <<"else">> \o no

RewriteNode(ts, found, node) ==
    Bracketed(AsIf(RewriteRange(ts, found, node.kids[1].kids[1]), RewriteRange(ts, found, node.kids[1].kids[2]),
                   RewriteRange(ts, found, node.kids[2])),
              node \in NeedsParentheses(NodesOf(ts)))

RECURSIVE AndOrEditsFrom(_, _, _, _)
AndOrEditsFrom(ts, found, rest, covered) ==
    IF rest = <<>> THEN <<>>
    ELSE IF Head(rest).first < covered THEN AndOrEditsFrom(ts, found, Tail(rest), covered)
    ELSE <<ReplaceNode(Head(rest), RewriteNode(ts, found, Head(rest)))>>
         \o AndOrEditsFrom(ts, found, Tail(rest), Head(rest).last + 1)

AndOrEdits(ts, found) == AndOrEditsFrom(ts, found, found, 0)
ComputeAndOrEdits(ts, targets) == AndOrEdits(ts, SortNodes(targets))
-----------------------------------------------------------------------------
(* math.floor(a / b) becomes a // b. *)

NeedsParenthesesAsFloorDivision(ts, call) ==
    \E n \in NodesOf(ts) :
        \/ n.op \in {"not", "minus", "index", "call"} /\ n.kids[1] = call
        \/ n.op = "^" /\ call \in ToSet(n.kids)
        \/ n.op \in {"*", "/", "//"} /\ n.kids[2] = call

TextWith(ts, node, i, new) == SubSeq(ts, node.first, i - 1) \o new \o SubSeq(ts, i + 1, node.last)
AsFloorDivision(ts, division) ==
    TextWith(ts, division, TokenBetween(division.kids[1], division.kids[2], "/", ts), <<"//">>)
FixFloorDivision(ts, call) ==
    IF UnwrapGroup(call.kids[1]).op # "/" THEN {}
    ELSE {<<ReplaceNode(call, Bracketed(AsFloorDivision(ts, UnwrapGroup(call.kids[1])),
                                        NeedsParenthesesAsFloorDivision(ts, call)))>>}
-----------------------------------------------------------------------------
(* if a or not b then return v end becomes a guard for each condition:        *)
(* "a and return v" and "b or return v".                                      *)

RECURSIVE ContinuesLineAbove(_), EndsWithIfElse(_), Disjuncts(_)
ContinuesLineAbove(node) ==
    IF node.op \in BinaryOps \cup {"call", "index"} THEN ContinuesLineAbove(node.kids[1])
    ELSE node.op \in {"minus", "group"}

EndsWithIfElse(node) ==
    IF node.op \in BinaryOps \cup {"not", "minus"} THEN EndsWithIfElse(Last(node.kids)) ELSE node.op = "ifelse"

Disjuncts(condition) ==
    LET node == UnwrapGroup(condition)
    IN IF node.op = "or" THEN Disjuncts(node.kids[1]) \o Disjuncts(node.kids[2]) ELSE <<node>>

Tested(disjunct) == IF disjunct.op = "not" THEN UnwrapGroup(disjunct.kids[1]) ELSE disjunct

RECURSIVE Guards(_, _, _)
Guards(ts, disjuncts, leave) ==
    IF disjuncts = <<>> THEN <<>>
    ELSE TextOf(ts, Tested(Head(disjuncts))) \o <<IF Head(disjuncts).op = "not" THEN "or" ELSE "and">> \o leave
         \o Guards(ts, Tail(disjuncts), leave)

LeaveText(ts, leave) ==
    CASE Len(leave.kids) = 0 -> <<"return", ";">>
      [] Len(leave.kids) = 1 -> TextOf(ts, leave)
      [] OTHER -> <<"(">> \o TextOf(ts, leave) \o <<")">>

FixLuaGuard(ts, guard) ==
    LET conditions == Disjuncts(guard.kids[1])
    IN IF \E d \in ToSet(conditions) : ContinuesLineAbove(Tested(d)) \/ EndsWithIfElse(Tested(d)) THEN {}
       ELSE {<<ReplaceNode(guard, Guards(ts, conditions, LeaveText(ts, guard.kids[2])))>>}
-----------------------------------------------------------------------------
(* A guard that leaves on every useful value is flipped in place. *)

FlipEdits(ts, condition, ofIf) ==
    LET node == UnwrapGroup(condition)
    IN CASE node.op \in {"==", "~="} ->
                {<<ReplaceToken(TokenBetween(node.kids[1], node.kids[2], node.op, ts),
                                <<IF node.op = "==" THEN "~=" ELSE "==">>)>>}
         [] node.op \in BinaryOps \ {"==", "~="} -> {}
         [] node.op = "not" -> {<<ReplaceNode(node, TextOf(ts, UnwrapGroup(node.kids[1])))>>}
         [] OTHER -> IF ofIf THEN {<<ReplaceNode(node, <<"not">> \o TextOf(ts, node))>>} ELSE {}

FixUnflippedGuard(ts, guard) ==
    CASE guard.op = "and" -> {<<ReplaceToken(TokenBetween(guard.kids[1], guard.kids[2], "and", ts), <<"or">>)>>}
      [] guard.op = "or" -> FlipEdits(ts, guard.kids[1], FALSE)
      [] guard.op = "guard" -> FlipEdits(ts, guard.kids[1], TRUE)
-----------------------------------------------------------------------------
(* local a = b or return v, c: the return is of v alone. *)

LeaveOfItem(item) == IF item.op = "or" THEN item.kids[2] ELSE item.kids[3]
IsOrReturnItem(item) == item.op \in {"or", "ifelse"} /\ LeaveOfItem(item).op = "return"
Inserted(place, t) == Edit(place, place, <<t>>)

ReturnBoth(item, next) == <<Inserted(Start(LeaveOfItem(item)), "("), Inserted(End(next), ")")>>
KeepReturn(item) == <<Inserted(Start(item), "("), Inserted(End(item), ")")>>

\* b or return, and on the next line a value that return takes; the return of a
\* do expression is put in parentheses with its do.
FixReturnOnNextLine(leave) ==
    IF leave.op = "do" THEN {<<Inserted(Start(leave), "("), Inserted(2 * leave.kids[1].first + 1, ")")>>}
    ELSE {<<ReplaceToken(leave.first, <<"(", "return", ")">>)>>}
-----------------------------------------------------------------------------
(* The warnings, as the linter gives them: what is fixed, the place the       *)
(* warning is at and the fixes there are for it, the first of them the one    *)
(* that fixes all use.                                                        *)

FixedBy(ts, code, node) ==
    CASE code = "LuaAndOr" -> {ComputeAndOrEdits(ts, {node})}
      [] code = "FloorDivision" -> FixFloorDivision(ts, node)
      [] code = "LuaGuard" -> FixLuaGuard(ts, node)
      [] code = "UnflippedGuard" -> FixUnflippedGuard(ts, node)
      [] code = "OrReturnComma" -> {ReturnBoth(node.kids[1], node.kids[2])}
      [] code = "KeepReturn" -> {KeepReturn(node.kids[1])}
      [] code = "ReturnOnNextLine" -> FixReturnOnNextLine(node)

IsLeaveGuard(node) == node.op \in {"and", "or"} /\ UnwrapGroup(node.kids[2]).op = "return"
LeavesOfGuards(statements) == {UnwrapGroup(s.kids[2]) : s \in {t \in ToSet(statements) : IsLeaveGuard(t)}}
ReturningDos(statements) ==
    {s.kids[2] : s \in {t \in ToSet(statements) : t.op \in {"and", "or"} /\ t.kids[2].op = "do"}}

\* An item of a list with the one after it.
ListItems(nodes) ==
    UNION {{Node("item", <<n.kids[k], n.kids[k + 1]>>, n.kids[k + 1].first, n.kids[k + 1].last) :
                k \in 1 .. Len(n.kids) - 1} : n \in {m \in nodes : m.op = "local"}}

WarnedAmong(statements, nodes, code) ==
    CASE code = "LuaAndOr" -> {n \in nodes : IsAndOr(n)}
      [] code = "FloorDivision" -> {n \in nodes : n.op = "floor" /\ UnwrapGroup(n.kids[1]).op = "/"}
      [] code = "LuaGuard" -> {n \in nodes : n.op = "guard"}
      [] code = "UnflippedGuard" -> {s \in ToSet(statements) : s.op = "guard" \/ IsLeaveGuard(s)}
      [] code \in {"OrReturnComma", "KeepReturn"} -> {n \in ListItems(nodes) : IsOrReturnItem(n.kids[1])}
      [] code = "ReturnOnNextLine" -> {l \in LeavesOfGuards(statements) : Len(l.kids) = 1}
             \cup {d \in ReturningDos(statements) : Len(d.kids[1].kids) = 1}
Warned(ts, code) == WarnedAmong(Statements(ts), NodesOf(ts), code)

Codes == {"LuaAndOr", "FloorDivision", "LuaGuard", "UnflippedGuard", "OrReturnComma", "KeepReturn", "ReturnOnNextLine"}
-----------------------------------------------------------------------------
(* Every warning's first fix at once, those that would overlap one taken      *)
(* already left out.                                                          *)

\* The edits of each warning that has a fix, in the order they start.
RECURSIVE SortFixes(_)
SortFixes(fixes) ==
    IF fixes = {} THEN <<>>
    ELSE LET first == CHOOSE a \in fixes : \A b \in fixes : a[1].from <= b[1].from
         IN <<first>> \o SortFixes(fixes \ {first})

FirstFixes(ts, code) == SortFixes(UNION {FixedBy(ts, code, n) : n \in Warned(ts, code)})

Clash(fix, taken) == \E e \in ToSet(fix), t \in ToSet(taken) : Overlaps(e, t)
RECURSIVE TakeFixes(_, _)
TakeFixes(taken, fixes) ==
    IF fixes = <<>> THEN taken
    ELSE TakeFixes(IF Clash(Head(fixes), taken) THEN taken ELSE taken \o Head(fixes), Tail(fixes))

\* Mutant: fixes that overlap are all taken.
ComputeFixAllEditsUnchecked(ts, code) == FlattenSeq(FirstFixes(ts, code))

ComputeFixAllEdits(ts, code) == TakeFixes(<<>>, FirstFixes(ts, code))

ComputeModuleFixAll(ts, code) ==
    IF code = "LuaAndOr" THEN ComputeAndOrEdits(ts, Warned(ts, code)) ELSE ComputeFixAllEdits(ts, code)
-----------------------------------------------------------------------------
Nothing == [code |-> "none", all |-> FALSE, before |-> <<>>, edits |-> <<>>]
Made(code, all, edits) == [code |-> code, all |-> all, before |-> text, edits |-> edits]

Init == text \in Texts /\ fixed = Nothing /\ count = 0

MakeEdits(code, all, edits) ==
    /\ count < MaxFixes
    /\ count' = count + 1
    /\ text' = ApplyEdits(text, edits)
    /\ fixed' = Made(code, all, edits)

\* The client applies a fix of one warning, as it got it with the warning's
\* code actions.
FixWarning(code) ==
    \E node \in Warned(text, code) : \E edits \in FixedBy(text, code, node) : MakeEdits(code, FALSE, edits)

\* ... or the action that fixes every warning of the code.
FixAll(code) ==
    /\ code # "KeepReturn"
    /\ \E edits \in {ComputeModuleFixAll(text, code)} : edits # <<>> /\ MakeEdits(code, TRUE, edits)

Next == \E code \in Codes : FixWarning(code) \/ FixAll(code)

Spec == Init /\ [][Next]_vars
-----------------------------------------------------------------------------
\* What an and-or gives when its middle is nil is what its rewrite is for.
GivesAValue(result) == result.leaves \/ IsTruthy(result)
MiddlesAreTruthy(nodes, holds) ==
    \A n \in nodes : IsAndOr(n) => GivesAValue(Evaluate(n.kids[1].kids[2], holds))

AtomsOf(ts) == Atoms \cap ToSet(ts)

SameOutcomes(before, after, andors) ==
    \A holds \in DOMAIN before : MiddlesAreTruthy(andors, holds) => after[holds] = before[holds]

\* A fix that only writes the code in another way - an and-or as an if, a
\* division as //, an if that leaves as guards, the parentheses that keep a
\* return to its value - leaves what the document does and returns as it was,
\* whatever operators and statements are around it
\* (LintFixes.cpp:374, 964, 1403, CodeAction.cpp:1645).
FixesKeepMeaning ==
    fixed.code \in {"LuaAndOr", "FloorDivision", "LuaGuard", "KeepReturn"} =>
        SameOutcomes(Outcomes(fixed.before, AtomsOf(fixed.before)), Outcomes(text, AtomsOf(fixed.before)),
                     IF fixed.code = "LuaAndOr" THEN NodesOf(fixed.before) ELSE {})

\* What a flipped guard tests without its not neither takes in the or return
\* nor goes on from the line above: what guardConditions checks of a guard, and
\* the flip doesn't.
StandsAlone(tested) == ~ContinuesLineAbove(tested) /\ ~EndsWithIfElse(tested)
TestStandsAlone(guard) == guard.op = "or" => StandsAlone(Tested(UnwrapGroup(guard.kids[1])))

SaysOtherwise(code, before, after) ==
    CASE code = "UnflippedGuard" -> after.leaves # before.leaves
      [] code = "OrReturnComma" ->
             /\ after.leaves = before.leaves
             /\ after.leaves => /\ Len(after.values) = Len(before.values) + 1
                                /\ IsPrefix(before.values, after.values)
      [] code = "ReturnOnNextLine" -> before.leaves => after = Leaves(<<>>)
OutcomesChange(before, after) ==
    \A holds \in DOMAIN before : SaysOtherwise(fixed.code, before[holds], after[holds])

\* A flipped guard leaves where it didn't and doesn't where it did; a return of
\* both values returns them where it returned one; a return with a value of the
\* next line leaves with none (LintFixes.cpp:846, 1038, 1470).
FixesChangeWhatTheySay ==
    /\ fixed.code \in {"UnflippedGuard", "OrReturnComma", "ReturnOnNextLine"}
    /\ Cardinality({n \in NodesOf(fixed.before) : n.op = "return"}) = 1
    /\ fixed.code = "UnflippedGuard" => \A g \in Warned(fixed.before, "UnflippedGuard") : TestStandsAlone(g)
    => OutcomesChange(Outcomes(fixed.before, AtomsOf(fixed.before)), Outcomes(text, AtomsOf(fixed.before)))

\* The edits of an action can be applied together, and fixing everything gets
\* somewhere: no and-or is left, and fewer of the other warnings
\* (CodeAction.cpp:1689, LintFixes.cpp:1702).
FixAllSettles ==
    /\ \A i, j \in DOMAIN fixed.edits : i # j => ~Overlaps(fixed.edits[i], fixed.edits[j])
    /\ (fixed.all /\ fixed.code = "LuaAndOr") => Warned(text, "LuaAndOr") = {}
    /\ (fixed.all /\ fixed.code \in {"FloorDivision", "LuaGuard", "OrReturnComma", "ReturnOnNextLine"}) =>
            Cardinality(Warned(text, fixed.code)) < Cardinality(Warned(fixed.before, fixed.code))
=============================================================================
