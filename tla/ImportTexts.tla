------------------------------ MODULE ImportTexts ------------------------------
(* The documents whose imports are edited in the checked instance, and the     *)
(* modules they read.                                                          *)
EXTENDS Naturals, Sequences, FiniteSets, TLC

Target(name, pattern, fields) == [name |-> name, annotated |-> FALSE, pattern |-> pattern, fields |-> fields]
Plain(name) == Target(name, FALSE, <<>>)
As(key, name) == [key |-> key, target |-> Plain(name)]
Same(key) == As(key, key)
Inside(key, fields) == [key |-> key, target |-> Target(key, TRUE, fields)]
Use(number, kind, block, path) ==
    [kind |-> kind, block |-> block, path |-> path, number |-> number, assigned |-> FALSE]
Const(target, required, path) ==
    [kind |-> "local", block |-> "", target |-> target, required |-> required, path |-> path,
     comment |-> FALSE, ownsLines |-> TRUE]
Ui == <<"ui">>
Require(name) == Const(Plain(name), TRUE, Ui)
Destructuring(name, fields, required, path) == Const(Target(name, TRUE, fields), required, path)

Assign(number, path) == [Use(number, "use", "", path) EXCEPT !.assigned = TRUE]
Typed(number, block, wants) == [kind |-> "typed", block |-> block, wants |-> wants, number |-> number]
Alias(name) == [kind |-> "alias", path |-> <<name>>]

TextFields == (<<"ui">> :> <<"Button", "Card", "elements">>) @@ (<<"ui", "elements">> :> <<"Card", "Heading">>)
              @@ (<<"std">> :> <<"fs", "Task">>) @@ (<<"std", "fs">> :> <<"Heading", "read">>)
TextClasses == {<<"ui", "Card">>, <<"ui", "elements", "Card">>, <<"std", "Task">>}
TextRequirable == <<<<"std">>, <<"std", "fs">>, <<"ui">>>>

Imports == {
    <<Require("ui")>>,
    <<[Require("ui") EXCEPT !.target.annotated = TRUE]>>,
    <<Require("ui"), Const(Plain("elements"), FALSE, <<"ui", "elements">>)>>,
    <<Require("ui"), Destructuring(".", <<Same("Button")>>, FALSE, <<"ui">>)>>,
    <<Require("ui"), Use(9, "use", "", <<"ui", "Card">>), Destructuring(".", <<Same("Button")>>, FALSE, <<"ui">>)>>,
    <<Require("ui"), [Destructuring(".", <<Same("Button")>>, FALSE, <<"ui">>) EXCEPT !.block = "inner"]>>,
    <<Require("ui"), [Destructuring(".", <<Same("Button")>>, FALSE, <<"ui">>) EXCEPT !.comment = TRUE]>>,
    <<Destructuring("ui", <<Same("Card")>>, TRUE, Ui)>>,
    <<[Destructuring("ui", <<Same("Button")>>, TRUE, Ui) EXCEPT !.ownsLines = FALSE]>>,
    <<Destructuring("ui", <<As("Card", "C"), Inside("elements", <<Same("Heading")>>)>>, TRUE, Ui)>>,
    <<Destructuring(".", <<Inside("elements", <<Same("Heading")>>)>>, TRUE, Ui)>>,
    <<Destructuring(".", <<Same("elements"), Same("Button")>>, TRUE, Ui)>>}

Uses == {
    <<Use(1, "use", "", <<"ui", "Card">>), Use(2, "type", "", <<"ui", "Card">>), Typed(3, "", "use")>>,
    <<Use(1, "use", "inner", <<"ui", "elements", "Heading">>), Use(2, "use", "", <<"elements", "Heading">>),
      Typed(3, "inner", "use")>>,
    <<Const(Plain("box"), FALSE, <<"ui", "Button">>), Use(1, "use", "", <<"box">>), Use(2, "use", "", <<"ui", "elements">>)>>,
    <<[Const(Plain("Card"), FALSE, <<"given">>) EXCEPT !.block = "inner"], Use(1, "use", "inner", <<"Card">>),
      Use(2, "use", "", <<"ui", "Card">>), Typed(3, "inner", "type")>>,
    <<Assign(1, <<"ui", "Button">>), Use(2, "use", "", <<"ui", "Card">>), Use(3, "use", "", <<"Button">>)>>,
    <<Assign(1, <<"Button">>), Assign(2, <<"ui", "elements", "Card">>), Typed(3, "", "use")>>,
    <<Alias("Card"), Use(1, "type", "", <<"Card">>), Use(2, "use", "", <<"ui", "Card">>), Typed(3, "", "type")>>,
    <<Typed(1, "", "type"), Use(2, "use", "", <<"Task">>), Use(3, "use", "", <<"ui", "Card">>)>>}

TextDocuments == {imports \o uses : imports \in Imports, uses \in Uses}
                 \cup {<<Typed(1, "", "use")>>, <<Use(1, "use", "", <<"Task">>), Typed(2, "", "use")>>,
                       <<Use(1, "use", "", <<"ui", "Card">>), Require("ui"), Use(2, "use", "", <<"ui", "Card">>),
                         Typed(3, "", "use")>>}
=============================================================================
