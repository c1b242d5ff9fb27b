----------------------------- MODULE MCDocuments -----------------------------
(* Finite instances of Documents: a plugin script and two modules, one of   *)
(* which is in a directory that may be deleted as a whole.                  *)
EXTENDS Documents

MCFiles == {"plugin", "main", "lib"}
MCFilesIn == {"lib"}
MCScripts == {"plugin"}
MCRequires == [file \in MCFiles |-> IF file = "main" THEN {"lib"} ELSE {}]

\* Everything is there, and the plugin loads; or it does not, and a module is missing.
MCDisks ==
  {[file \in MCFiles |-> "old"],
   [file \in MCFiles |-> IF file = "plugin" THEN "new" ELSE IF file = "lib" THEN "absent" ELSE "old"]}

Setting(plugins, showHelp, index) ==
  [plugins |-> plugins, showHelp |-> showHelp, index |-> index]
\* The plugin is configured, and the settings that matter to modules change.
PluginSettings == {Setting(TRUE, TRUE, FALSE), Setting(TRUE, FALSE, TRUE)}
=============================================================================
