----------------------------- MODULE LintTexts -----------------------------
(* The documents of the checked instance of LintFixes: every nesting of       *)
(* and-ors, divisions, guards and leaves up to the operands listed here.      *)
EXTENDS Sequences


Group(e) == <<"(">> \o e \o <<")">>
Op(x, op, y) == x \o <<op>> \o y
IfElse(a, b, c) == <<"if">> \o a \o <<"then">> \o b \o <<"else">> \o c
AndOr(x, y, z) == x \o <<"and">> \o y \o <<"or">> \o z
Floor(e) == <<"floor", "(">> \o e \o <<")">>
Guard(test, leave) == <<"if">> \o test \o <<"then">> \o leave \o <<"end">>

A == <<"a">>
B == <<"b">>
C == <<"c">>
D == <<"d">>
V == <<"v">>
W == <<"w">>

\* and-ors in and-ors, and where an and-or is an operand.
Inner == Group(AndOr(B, V, C))
AndOrs == {AndOr(x, y, z) : x \in {A, Op(A, "and", B), Inner, Op(A, "==", B)},
                            y \in {V, Inner, IfElse(B, V, W)},
                            z \in {C, Inner, Op(C, "==", D), IfElse(C, V, W)}}
InPlaces(e) == {<<"local">> \o e \o <<",", "d">>, Op(e, "or", D), Op(Group(e), "==", D), <<"not">> \o Group(e),
                Op(Op(D, "==", Group(e)), "and", e), Group(e) \o <<".x">>, <<"a", "(">> \o e \o <<")">>,
                IfElse(e, D, e), Op(D, "or", e), Guard(e, <<"return">> \o e)}
AndOrTexts == UNION {InPlaces(e) : e \in AndOrs}

\* Divisions as operands of everything.
Divisions == {Floor(Op(x, "/", y)) : x \in {A, Op(A, "*", B), Floor(Op(A, "/", B))},
                                     y \in {B, Group(Op(B, "+", C)), Floor(Op(B, "/", C))}}
             \cup {Floor(Group(Op(A, "/", B))), Floor(Op(Op(A, "/", B), "+", C))}
FloorTexts == UNION {{<<"local">> \o e,
                      <<"local", "-">> \o e, <<"local">> \o Op(e, "^", D), <<"local">> \o Op(D, "^", e),
                      <<"local">> \o Op(e, "*", D), <<"local">> \o Op(D, "/", e), <<"local">> \o Op(D, "+", e),
                      <<"local">> \o Op(D, "-", e),
                      <<"local">> \o e \o <<".x">>, <<"local">> \o e \o <<"(", "d", ")">>,
                      <<"local">> \o Op(e, "//", e)} : e \in Divisions}

\* Guards between other statements.
Conditions == {A, <<"a", ".x">>, <<"-", "a">>, Group(A) \o <<".x">>, Op(A, "==", <<"-", "b">>), Op(A, "and", B),
               IfElse(A, B, C), Group(IfElse(A, B, C)), Op(A, "==", Group(IfElse(B, C, D))), Op(Group(A), "==", B)}
Negations == {<<"not">> \o Group(c) : c \in Conditions} \cup {<<"not">> \o A, <<"not", "not", "a">>}
Chains == {Op(x, "or", y) : x \in Conditions \ {IfElse(A, B, C)}, y \in Negations \cup {C}}
          \cup {Op(A, "or", Group(Op(<<"not">> \o B, "or", C))), Group(Op(A, "or", B))}
LeaveLists == {<<"return">>, <<"return", "v">>, <<"return", "v", ",", "w">>}
LinesBefore == {<<>>, <<"local", "d">>}
LinesAfter == {<<>>, <<"w">>, <<"local", "w">>}
GuardTexts == {b \o Guard(c, l) \o f : b \in LinesBefore, c \in Conditions \cup Negations \cup Chains, l \in LeaveLists,
                                       f \in LinesAfter}

\* Leaves in expressions.
LeaveTexts == {b \o c \o <<j>> \o l \o <<"return", "v">> \o f : l \in {<<>>, <<"do">>}, b \in LinesBefore, f \in {<<>>, <<";", "w">>}, j \in {"and", "or"},
                    c \in {A, <<"a", ".x">>, Op(A, "==", B), <<"not", "a">>, <<"not">> \o Group(Op(A, "and", B)),
                           <<"not">> \o Group(IfElse(A, B, C)), <<"not", "-", "a">>}}
ListTexts == {<<"local">> \o x \o <<",">> \o y : x \in {Op(B, "or", <<"return", "v">>),
                                                        Op(Op(A, "and", B), "or", <<"return", "v">>),
                                                        IfElse(A, B, <<"return", "v">>)},
                                                 y \in {C, Op(C, "or", D), <<"c", ",", "d">>}}

Texts == AndOrTexts \cup FloorTexts \cup GuardTexts \cup LeaveTexts \cup ListTexts
=============================================================================
