---------------------------- MODULE Expressions ----------------------------
(* The text of Luau expressions and guards, read by the precedence of their   *)
(* operators, and what they evaluate to. A text is a sequence of tokens, the  *)
(* lines of it included: nothing but the grammar ends a statement. Parser and *)
(* language are not part of this repository: these are the facts of them that *)
(* the rewrites of texts rely on.                                             *)
(*                                                                            *)
(* A node is [op, kids, first, last] with the place of its first and its last *)
(* token. The leave of a guard, "or return v", is an expression here, as it   *)
(* is in the source; several values of it are in parentheses with it. Of do    *)
(* expressions only "or do return v" is read.                                 *)
EXTENDS Naturals, Sequences, SequencesExt

Node(op, kids, first, last) == [op |-> op, kids |-> kids, first |-> first, last |-> last]

LeftPriority == [op \in {"or", "and", "==", "~=", "+", "-", "*", "/", "//", "^"} |->
    CASE op = "or" -> 1 [] op = "and" -> 2 [] op \in {"==", "~="} -> 3 [] op \in {"+", "-"} -> 6
      [] op \in {"*", "/", "//"} -> 7 [] op = "^" -> 10]
RightPriority == [LeftPriority EXCEPT !["^"] = 9]
BinaryOps == DOMAIN LeftPriority
UnaryPriority == 8
Atoms == {"a", "b", "c", "d", "v", "w"}

TokenAt(ts, i) == IF i \in DOMAIN ts THEN ts[i] ELSE ";"
Error(i) == Node("error", <<>>, i, i)
EndsValue == {";", "end", ")", ",", "then", "else"}

RECURSIVE ParseExpr(_, _, _), ParseRest(_, _, _), ParseSuffix(_, _), ParseList(_, _)

\* The expression that starts at a token, of operators that bind more tightly
\* than the limit.
ParseExpr(ts, i, limit) ==
    LET t == TokenAt(ts, i)
        operand == ParseExpr(ts, i + 1, IF t \in {"not", "-"} THEN UnaryPriority ELSE 0)
        then == ParseExpr(ts, operand.last + 2, 0)
        else == ParseExpr(ts, then.last + 2, 0)
        Closed(node) == IF TokenAt(ts, node.last + 1) = ")" THEN [node EXCEPT !.last = @ + 1] ELSE Error(i)
        values == IF TokenAt(ts, i + 2) = ")" THEN <<>> ELSE ParseList(ts, i + 2)
        leave == Node("return", values, i + 1, IF values = <<>> THEN i + 1 ELSE Last(values).last)
    IN CASE t \in {"not", "-"} ->
                ParseRest(ts, Node(IF t = "-" THEN "minus" ELSE t, <<operand>>, i, operand.last), limit)
         [] t = "if" ->
                IF TokenAt(ts, operand.last + 1) = "then" /\ TokenAt(ts, then.last + 1) = "else"
                THEN Node("ifelse", <<operand, then, else>>, i, else.last) ELSE Error(i)
         [] t = "return" ->
                IF TokenAt(ts, i + 1) \in EndsValue THEN Node("return", <<>>, i, i)
                ELSE Node("return", <<operand>>, i, operand.last)
         [] t = "do" /\ TokenAt(ts, i + 1) = "return" -> Node("do", <<operand>>, i, operand.last)
         [] t = "(" /\ TokenAt(ts, i + 1) = "return" ->
                ParseRest(ts, Closed(Node("group", <<leave>>, i, leave.last)), limit)
         [] t = "(" -> ParseRest(ts, ParseSuffix(ts, Closed(Node("group", <<operand>>, i, operand.last))), limit)
         [] t = "floor" ->
                LET argument == ParseExpr(ts, i + 2, 0)
                IN ParseRest(ts, ParseSuffix(ts, Closed(Node("floor", <<argument>>, i, argument.last))), limit)
         [] t \in Atoms -> ParseRest(ts, ParseSuffix(ts, Node(t, <<>>, i, i)), limit)
         [] OTHER -> Error(i)

\* An index and a call end with the token that makes them.
ParseSuffix(ts, node) ==
    LET argument == ParseExpr(ts, node.last + 2, 0)
    IN CASE TokenAt(ts, node.last + 1) = ".x" ->
                ParseSuffix(ts, Node("index", <<node>>, node.first, node.last + 1))
         [] TokenAt(ts, node.last + 1) = "(" ->
                IF TokenAt(ts, argument.last + 1) # ")" THEN Error(node.first)
                ELSE ParseSuffix(ts, Node("call", <<node, argument>>, node.first, argument.last + 1))
         [] OTHER -> node

ParseRest(ts, left, limit) ==
    LET op == TokenAt(ts, left.last + 1)
        right == ParseExpr(ts, left.last + 2, RightPriority[op])
    IN IF op \in BinaryOps /\ left.op # "error" THEN
            IF LeftPriority[op] > limit
            THEN ParseRest(ts, Node(op, <<left, right>>, left.first, right.last), limit) ELSE left
       ELSE left

ParseList(ts, i) ==
    LET value == ParseExpr(ts, i, 0)
    IN <<value>> \o (IF TokenAt(ts, value.last + 1) = "," THEN ParseList(ts, value.last + 2) ELSE <<>>)

\* A statement is a guard written with if, a local with its values, or an
\* expression.
IsGuardTest(ts, test) == TokenAt(ts, test.last + 1) = "then" /\ TokenAt(ts, test.last + 2) = "return"
EndOf(values, none) == IF values = <<>> THEN none ELSE Last(values).last
GuardOf(i, test, leave) == Node("guard", <<test, leave>>, i, leave.last + 1)
LeaveOf(i, values) == Node("return", values, i, EndOf(values, i))
LeaveAt(ts, i) == LeaveOf(i, IF TokenAt(ts, i + 1) = "end" THEN <<>> ELSE ParseList(ts, i + 1))
LocalOf(i, list) == Node("local", list, i, EndOf(list, i))

ParseIf(ts, i, test) ==
    IF IsGuardTest(ts, test) THEN GuardOf(i, test, LeaveAt(ts, test.last + 2)) ELSE ParseExpr(ts, i, 0)
ParseStatement(ts, i) ==
    CASE TokenAt(ts, i) = "if" -> ParseIf(ts, i, ParseExpr(ts, i + 1, 0))
      [] TokenAt(ts, i) = "local" -> LocalOf(i, ParseList(ts, i + 1))
      [] OTHER -> ParseExpr(ts, i, 0)

RECURSIVE StatementsFrom(_, _), AndThose(_, _)
StatementsFrom(ts, i) == IF i > Len(ts) THEN <<>> ELSE AndThose(ts, ParseStatement(ts, i))
AndThose(ts, s) ==
    <<s>> \o (IF s.op = "error" THEN <<>>
              ELSE StatementsFrom(ts, IF TokenAt(ts, s.last + 1) = ";" THEN s.last + 2 ELSE s.last + 1))

Statements(ts) == StatementsFrom(ts, 1)

RECURSIVE Nodes(_)
Nodes(node) == {node} \cup UNION {Nodes(kid) : kid \in ToSet(node.kids)}
NodesIn(statements) == UNION {Nodes(s) : s \in ToSet(statements)}
NodesOf(ts) == NodesIn(Statements(ts))
-----------------------------------------------------------------------------
(* Evaluation, with what each atom holds: nil or a value of its own. A leave  *)
(* ends the evaluation with the values it returns.                            *)

Value(v) == [leaves |-> FALSE, values |-> <<v>>]
Leaves(vs) == [leaves |-> TRUE, values |-> vs]
IsTruthy(result) == result.values[1] \notin {"nil", "false"}

RECURSIVE Evaluate(_, _), EvaluateAll(_, _)
EvaluateRest(first, rest) ==
    IF first.leaves THEN first
    ELSE IF rest.leaves THEN rest ELSE [leaves |-> FALSE, values |-> first.values \o rest.values]
EvaluateAll(nodes, holds) ==
    IF nodes = <<>> THEN [leaves |-> FALSE, values |-> <<>>]
    ELSE EvaluateRest(Evaluate(Head(nodes), holds), EvaluateAll(Tail(nodes), holds))

Written(op, values) == Value("(" \o FoldLeft(LAMBDA text, v : text \o op \o v, "", values) \o ")")

\* The operators that may leave their other operands alone.
EvaluateAfter(node, first, holds) ==
    CASE first.leaves \/ node.op = "group" -> first
      [] node.op = "and" -> IF IsTruthy(first) THEN Evaluate(node.kids[2], holds) ELSE first
      [] node.op = "or" -> IF IsTruthy(first) THEN first ELSE Evaluate(node.kids[2], holds)
      [] node.op = "ifelse" -> Evaluate(node.kids[IF IsTruthy(first) THEN 2 ELSE 3], holds)

EvaluateWith(node, all, holds) ==
    CASE node.op = "return" -> Leaves(all.values)
      [] all.leaves -> all
      [] node.op = "not" -> Value(IF IsTruthy(all) THEN "false" ELSE "true")
      [] node.op \in {"==", "~="} ->
             Value(IF (all.values[1] = all.values[2]) = (node.op = "==") THEN "true" ELSE "false")
      [] OTHER -> Written(node.op, all.values)

EvaluateFloor(node, argument, holds) ==
    CASE argument.op = "/" -> Evaluate([argument EXCEPT !.op = "//"], holds)
      [] argument.op = "group" -> Evaluate([node EXCEPT !.kids = argument.kids], holds)
      [] OTHER -> EvaluateWith(node, EvaluateAll(node.kids, holds), holds)

Evaluate(node, holds) ==
    CASE node.op \in Atoms -> Value(holds[node.op])
      [] node.op \in {"group", "and", "or", "ifelse"} -> EvaluateAfter(node, Evaluate(node.kids[1], holds), holds)
      [] node.op = "floor" -> EvaluateFloor(node, node.kids[1], holds)
      [] OTHER -> EvaluateWith(node, EvaluateAll(node.kids, holds), holds)

\* What a document does: the values of its locals, and those it returns if it
\* leaves before its end.
RECURSIVE RunFrom(_, _, _)
RunAfter(s, result, rest, holds, seen) ==
    IF result.leaves THEN result
    ELSE IF s.op = "guard" /\ IsTruthy(result) THEN Evaluate(s.kids[2], holds)
    ELSE RunFrom(rest, holds, IF s.op = "local" THEN seen \o result.values ELSE seen)
RunStatement(s, holds) ==
    CASE s.op = "guard" -> Evaluate(s.kids[1], holds)
      [] s.op = "local" -> EvaluateAll(s.kids, holds)
      [] OTHER -> Evaluate(s, holds)
RunFrom(statements, holds, seen) ==
    IF statements = <<>> THEN [leaves |-> FALSE, values |-> seen]
    ELSE RunAfter(Head(statements), RunStatement(Head(statements), holds), Tail(statements), holds, seen)

\* The outcome of a document for whatever its atoms hold.
Parses(statements) == \A n \in NodesIn(statements) : n.op # "error"
OutcomesOf(statements, parses, atoms) ==
    [holds \in [atoms -> {"nil", "1"}] |->
        IF parses THEN RunFrom(statements, holds, <<>>) ELSE Leaves(<<"syntax error">>)]
Outcomes(ts, atoms) == OutcomesOf(Statements(ts), Parses(Statements(ts)), atoms)
=============================================================================
