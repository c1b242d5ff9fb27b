---------------------------- MODULE MCDiagnostics ----------------------------
(* A finite instance of Diagnostics: a module, one it requires and one that *)
(* one requires, so that a change reaches a file through another.           *)
EXTENDS Diagnostics

MCFiles == {"main", "lib", "base"}
MCRequires == [f \in MCFiles |-> CASE f = "main" -> {"main", "lib", "base"}
                                   [] f = "lib" -> {"lib", "base"}
                                   [] f = "base" -> {"base"}]
MCDisks == {[f \in MCFiles |-> IF f = "main" THEN "fine" ELSE "broken"]}
Setting(workspace, includeDependents) ==
    [workspace |-> workspace, includeDependents |-> includeDependents]
MCConfigs == {Setting(TRUE, TRUE), Setting(FALSE, TRUE)}
=============================================================================
