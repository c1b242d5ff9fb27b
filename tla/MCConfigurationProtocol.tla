------------------------ MODULE MCConfigurationProtocol ------------------------
(* Model values and small sets for checking ConfigurationProtocol.         *)
EXTENDS ConfigurationProtocol

Uri(p) == [scheme |-> "file", path |-> p]

App    == Uri(<<"/", "work", "/", "app">>)
AppLib == Uri(<<"/", "work", "/", "app", "/", "lib">>)

MCNullUri == [scheme |-> "", path |-> <<>>]

\* A nested pair.
NestedRoots   == {App, AppLib}
MCNameOf == (App :> "app") @@ (AppLib :> "lib")

MCFileUris == {
    Uri(<<"/", "work", "/", "app", "/", "x">>),
    [scheme |-> "untitled",
     path |-> <<"/", "work", "/", "app", "/", "lib", "/", "x">>],
    Uri(<<"/", "tmp", "/", "x">>),
    App}

MCConfigs == {"c0", "c1"}

OpenApp     == {<<App>>}
OpenBoth    == {<<App, AppLib>>, <<AppLib, App>>}
OpenAny     == {<<>>, <<App>>, <<App, AppLib>>}
AddNone     == {<<>>}
AddOne      == {<<App>>, <<AppLib>>}
AddSome     == {<<>>, <<App>>, <<AppLib>>}
===============================================================================
