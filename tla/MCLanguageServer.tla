--------------------------- MODULE MCLanguageServer ---------------------------
(* Model values and small sets for checking LanguageServer.                *)
EXTENDS LanguageServer

App    == [scheme |-> "file", path |-> <<"/", "app">>]
Lib    == [scheme |-> "file", path |-> <<"/", "lib">>]
InApp  == [scheme |-> "file", path |-> <<"/", "app", "/", "x">>]

MCFolderUris == {App, Lib}
MCFileUris   == {InApp}
MCNullUri    == [scheme |-> "", path |-> <<>>]
MCNameOf     == (App :> "app") @@ (Lib :> "lib")
MCFolders    == {<<App>>}
AddLib       == {<<{}, <<Lib>>>>}

AllMethods    == {"textDocument/didChange", "$/setTrace",
                  "workspace/didChangeConfiguration",
                  "workspace/didChangeWorkspaceFolders"}
EditsAndFolders == {"textDocument/didChange",
                    "workspace/didChangeWorkspaceFolders"}
===============================================================================
