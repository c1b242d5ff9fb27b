------------------------- MODULE MCModuleResolution -------------------------
(* A finite instance of ModuleResolution: files next to each other, an init   *)
(* file, a directory below another, one with a file's name, chained aliases.  *)
EXTENDS ModuleResolution

F(stem, ext) == <<stem, ext>>
D(name) == <<name, "">>
At(name) == <<"@", name>>

Main == <<F("a", "luau")>>
Other == <<F("b", "luau")>>
Init1 == <<D("lib"), F("init", "luau")>>
Deep == <<D("lib"), D("sub"), F("c", "luwu")>>
Near == <<D("lib"), F("b", "luwu")>>
NewOther == <<F("b", "luwu")>>
Hidden == <<F("lib", "luau")>>

MCLower(name) == IF name = "Sub" THEN "sub" ELSE name

MCPaths == {Main, Other, Init1, Deep, NewOther}
MCRequirable == {<<Here, F("b", "")>>}
MCAliases == {"sub" :> [value |-> <<Here, D("lib"), D("sub")>>, originalCase |-> "Sub"],
              ("sub" :> [value |-> <<At("l"), D("sub")>>, originalCase |-> "Sub"]) @@
              ("l" :> [value |-> <<D("lib")>>, originalCase |-> "l"])}
MCSettable == { << <<>>, ".luaurc">>, << <<D("lib")>>, ".config.luau">> }
MCRenamable == {<<Other, Near>>, <<Main, <<D("lib"), F("a", "luau")>> >>, <<Deep, Hidden>>}
MCDeletable == {<<D("lib"), D("sub")>>}
MCDisks == { (Main :> <<Here, F("b", "")>>) @@ (Other :> <<Here, D("lib")>>) @@
             (Init1 :> <<Self, D("sub"), F("c", "")>>) @@ (Deep :> <<Up, Up, F("b", "luau")>>),
             (Main :> <<Here, F("lib", "")>>) @@ (Hidden :> <<At("Sub"), F("c", "")>>) @@
             (Deep :> <<Up, Up, F("a", "")>>)}
=============================================================================
