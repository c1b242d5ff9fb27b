------------------------------ MODULE Documents ------------------------------
(***************************************************************************)
(* The documents of one workspace folder: what src/Workspace.cpp,          *)
(* src/WorkspaceFileResolver.cpp and src/Plugin/PluginManager.cpp keep     *)
(* between messages, and the files and buffers it is derived from.         *)
(*                                                                         *)
(* A file's content is a member of Texts. What the type checker reads is a *)
(* *source*: a text and the code of the plugins that transformed it. The   *)
(* type checker itself (Frontend, a submodule) is external: it keeps the   *)
(* source each module was parsed from and a dirty mark, marks a module     *)
(* together with some of those that may require it, and parses a module    *)
(* together with some of those it may require. Which ones depends on the   *)
(* texts and is left open.                                                 *)
(***************************************************************************)
EXTENDS Integers, Sequences, FiniteSets

CONSTANTS
  Files,        \* source files, by uri; a module has the name of its file
  FilesIn,      \* the files of one directory that may be deleted as a whole
  Directory,    \* the uri of that directory
  External,     \* files outside the folder, each in a directory of its own
  Requires,     \* for each file, the modules it may require, directly or not
  Openable,     \* files the client opens as documents
  Scripts,      \* files the settings name as plugins
  UserSettings, \* settings the user may choose
  Texts,        \* contents of files and buffers
  Loads,        \* the contents that load as a plugin
  InitialDisks, \* contents the disk may start with
  MaxPending,   \* bound: file events on their way
  MaxEdits,     \* bound: changes of the disk and of buffers
  VersionsRestart,    \* does a document that is opened again restart its versions?
  TogglesPlugins,     \* may new settings change the plugins of a folder in use?
  EditorClosesFirst   \* are documents closed before their deletion is reported?

ASSUME DocumentsAssumption ==
  /\ IsFiniteSet(Files)
  /\ FilesIn \subseteq Files
  /\ External \subseteq Files \ FilesIn
  /\ Requires \in [Files -> SUBSET Files]
  /\ Openable \subseteq Files
  /\ Scripts \subseteq Files
  /\ UserSettings \subseteq [plugins : BOOLEAN, showHelp : BOOLEAN, index : BOOLEAN]
  /\ Loads \subseteq Texts
  /\ InitialDisks \subseteq [Files -> Texts \cup {"absent"}]
  /\ Directory \notin Files
  /\ "absent" \notin Texts
  /\ "failed" \notin Texts
  /\ MaxPending \in Nat
  /\ MaxEdits \in Nat
  /\ VersionsRestart \in BOOLEAN
  /\ TogglesPlugins \in BOOLEAN
  /\ EditorClosesFirst \in BOOLEAN

VARIABLES
  disk,      \* content of every file
  changes,   \* file events the client has yet to report, oldest first
  edits,     \* number of changes of the disk and of buffers so far
  pull,      \* does the client pull diagnostics?
  folder     \* the server's WorkspaceFolder, a record

vars == <<disk, changes, edits, pull, folder>>

Nothing == [x \in {} |-> x]
Without(f, S) == [x \in DOMAIN f \ S |-> f[x]]

IsPartial(f, S, T) == DOMAIN f \subseteq S /\ f \in [DOMAIN f -> T]

IsSource(source) ==
  /\ DOMAIN source = {"text", "by"}
  /\ source.text \in Texts
  /\ IsPartial(source.by, Scripts, Texts)

InitialSettings == [plugins |-> FALSE, showHelp |-> TRUE, index |-> FALSE]
Settings == UserSettings \cup {InitialSettings}
Events == [uri : Files \cup {Directory}, type : {"Created", "Changed", "Deleted"}]

FolderOK(w) ==
  /\ DOMAIN w = {"isReady", "settings", "managedFiles", "pluginDocuments", "plugins",
                 "sourceNodes", "dirty", "watchedExternalDirectories",
                 "externalModulesScanSize"}
  /\ w.isReady \in BOOLEAN
  /\ w.settings \in Settings
  /\ IsPartial(w.managedFiles, Files, [version : Nat, text : Texts])
  /\ DOMAIN w.pluginDocuments \subseteq Files
  /\ \A file \in DOMAIN w.pluginDocuments :
       /\ w.pluginDocuments[file].version \in Nat
       /\ IsSource(w.pluginDocuments[file].source)
  /\ IsPartial(w.plugins, Scripts, Texts \cup {"failed"})
  /\ DOMAIN w.sourceNodes \subseteq Files
  /\ \A file \in DOMAIN w.sourceNodes : IsSource(w.sourceNodes[file])
  /\ w.dirty \subseteq DOMAIN w.sourceNodes
  /\ w.watchedExternalDirectories \subseteq External
  /\ w.externalModulesScanSize \in Nat

TypeOK ==
  /\ disk \in [Files -> Texts \cup {"absent"}]
  /\ changes \in Seq(Events)
  /\ edits \in 0..MaxEdits
  /\ pull \in BOOLEAN
  /\ FolderOK(folder)

-----------------------------------------------------------------------------
(* Plugins (src/Plugin/PluginManager.cpp). folder.plugins is the manager's  *)
(* list: the code each of its scripts runs, "failed" if reloading it failed.*)

Managed(w) == DOMAIN w.managedFiles
Modules(w) == DOMAIN w.sourceNodes
HasPlugins(w) == DOMAIN w.plugins # {}
IsPluginFile(w, file) == file \in DOMAIN w.plugins

\* PluginRuntime::load: what the script's file holds now, if it loads.
Load(script) == IF disk[script] \in Loads THEN disk[script] ELSE "failed"

\* PluginManager::configure: only scripts that load are listed.
Configured(settings) ==
  [script \in {s \in Scripts : settings.plugins /\ Load(s) # "failed"} |-> Load(script)]

\* A plugin file is never transformed; a failed plugin returns no edits.
Transformed(w, file, text) ==
  [text |-> text,
   by |-> [s \in {s \in DOMAIN w.plugins :
                    ~IsPluginFile(w, file) /\ w.plugins[s] # "failed"} |-> w.plugins[s]]]

-----------------------------------------------------------------------------
(* Reading (src/WorkspaceFileResolver.cpp).                                 *)

IsCached(w, file) ==
  /\ file \in DOMAIN w.pluginDocuments
  /\ w.pluginDocuments[file].version = w.managedFiles[file].version

FreshDocument(w, file) == Transformed(w, file, w.managedFiles[file].text)

\* The source of an open document.
GetTextDocument(w, file) ==
  IF HasPlugins(w) /\ IsCached(w, file)
  THEN w.pluginDocuments[file].source
  ELSE FreshDocument(w, file)

\* The open documents among S that getTextDocument transforms and remembers.
Remembered(w, S) ==
  {file \in S \cap Managed(w) :
     /\ HasPlugins(w)
     /\ ~IsCached(w, file)
     /\ DOMAIN FreshDocument(w, file).by # {}}

DocumentsRead(w, S) ==
  [file \in DOMAIN w.pluginDocuments \cup Remembered(w, S) |->
     IF file \in Remembered(w, S)
     THEN [version |-> w.managedFiles[file].version, source |-> FreshDocument(w, file)]
     ELSE w.pluginDocuments[file]]

IsReadable(w, file) == file \in Managed(w) \/ disk[file] # "absent"

ReadSource(w, file) ==
  IF file \in Managed(w)
  THEN GetTextDocument(w, file)
  ELSE Transformed(w, file, disk[file])

-----------------------------------------------------------------------------
(* The type checker, as the folder uses it.                                 *)

Required == UNION {Requires[file] : file \in Files}
Dependents(file) == {module \in Files : file \in Requires[module]}

MarkDirty(w, S) == [w EXCEPT !.dirty = @ \cup (S \cap Modules(w))]

\* Mutant: open documents that are no modules yet are marked as well.
MarkAllDocumentsDirty(w) == [w EXCEPT !.dirty = Modules(w) \cup Managed(w)]

MarkAllDirty(w) == MarkDirty(w, Modules(w))

\* Modules that are unknown or dirty are read; one that cannot be read stays
\* as it is.
Parse(w, S) ==
  LET stale == {file \in S : file \notin Modules(w) \/ file \in w.dirty}
      read == {file \in stale : IsReadable(w, file)}
  IN [w EXCEPT !.pluginDocuments = DocumentsRead(w, stale),
               !.sourceNodes = [file \in Modules(w) \cup read |->
                                  IF file \in read THEN ReadSource(w, file)
                                  ELSE w.sourceNodes[file]],
               !.dirty = @ \ read]

ClearModules(w, S) ==
  [w EXCEPT !.sourceNodes = Without(@, S), !.dirty = @ \ S]

\* Nothing is scanned when the number of modules is what it was (nor when no
\* module is outside the folder: the number is used for nothing else).
WatchExternalModules(w) ==
  IF External = {} \/ Cardinality(Modules(w)) = w.externalModulesScanSize
  THEN w
  ELSE [w EXCEPT !.watchedExternalDirectories = @ \cup (Modules(w) \cap External),
                 !.externalModulesScanSize = Cardinality(Modules(w))]

Check(w, S) == WatchExternalModules(Parse(w, S))

\* Modules come with some of those they require.
WithRequired(S, required) == IF S = {} THEN {} ELSE S \cup required

-----------------------------------------------------------------------------
(* Files and buffers change.                                                *)

\* The client has yet to report a change of the file.
Pending(file) ==
  \E i \in DOMAIN changes :
    changes[i].uri = file \/ (changes[i].uri = Directory /\ file \in FilesIn)

\* Without a report, the change of an external file goes unnoticed.
Report(uri, type) ==
  IF uri \in External \ folder.watchedExternalDirectories
  THEN UNCHANGED changes
  ELSE /\ Len(changes) < MaxPending
       /\ changes' = Append(changes, [uri |-> uri, type |-> type])

Edit ==
  /\ edits < MaxEdits
  /\ edits' = edits + 1

WriteFile(file, text) ==
  /\ Edit
  /\ disk' = [disk EXCEPT ![file] = text]
  /\ Report(file, IF disk[file] = "absent" THEN "Created" ELSE "Changed")
  /\ UNCHANGED <<pull, folder>>

DeleteFile(file) ==
  /\ Edit
  /\ disk[file] # "absent"
  /\ disk' = [disk EXCEPT ![file] = "absent"]
  /\ Report(file, "Deleted")
  /\ UNCHANGED <<pull, folder>>

\* One event for the directory, none for the files in it.
DeleteDirectory ==
  /\ Edit
  /\ \E file \in FilesIn : disk[file] # "absent"
  /\ disk' = [file \in Files |-> IF file \in FilesIn THEN "absent" ELSE disk[file]]
  /\ Report(Directory, "Deleted")
  /\ UNCHANGED <<pull, folder>>

-----------------------------------------------------------------------------
(* Requests and notifications about documents.                              *)

\* The version the client gives a document it opens or changes.
NextVersion(file) ==
  IF ~VersionsRestart THEN edits + 1
  ELSE IF file \in Managed(folder) THEN folder.managedFiles[file].version + 1
  ELSE 1

ReadDocuments(w, S) == [w EXCEPT !.pluginDocuments = DocumentsRead(w, S)]

\* A request reads the document and has its module checked; checkStrict marks
\* a module without a type graph first. Saving a document does the same.
Request(file, again, required) ==
  /\ folder.isReady
  /\ folder' = Check(MarkDirty(ReadDocuments(folder, {file}), again), {file} \cup required)
  /\ UNCHANGED <<disk, changes, edits, pull>>

\* Some requests need no types: folding ranges, symbols, links, ...
ParseRequest(file, required) ==
  /\ folder.isReady
  /\ folder' = Parse(ReadDocuments(folder, {file}), {file} \cup required)
  /\ UNCHANGED <<disk, changes, edits, pull>>

\* With a client that does not pull, diagnostics are computed right away.
Push(w, S) == IF pull \/ S = {} THEN w ELSE Check(w, S)

\* The modules that marking a file's module marks.
Marked(w, file, dependents) ==
  IF file \in Modules(w) THEN {file} \cup (dependents \cap Modules(w)) ELSE {}

MarkDirtyWithDependents(w, file, dependents) == MarkDirty(w, Marked(w, file, dependents))

OpenTextDocument(file, text, dependents, required) ==
  /\ folder.isReady
  /\ file \in Openable \ Managed(folder)
  /\ EditorClosesFirst => disk[file] # "absent"
  /\ Edit
  /\ LET document == [version |-> NextVersion(file), text |-> text]
         opened == [folder EXCEPT !.managedFiles =
                      [f \in DOMAIN @ \cup {file} |-> IF f = file THEN document ELSE @[f]]]
     IN folder' = Push(MarkDirtyWithDependents(opened, file, dependents), {file} \cup required)
  /\ UNCHANGED <<disk, changes, pull>>

\* The setting diagnostics.includeDependents has the marked modules checked too.
UpdateTextDocument(file, text, dependents, required) ==
  /\ folder.isReady
  /\ file \in Managed(folder)
  /\ Edit
  /\ LET document == [version |-> NextVersion(file), text |-> text]
         updated == [folder EXCEPT !.managedFiles[file] = document,
                                   !.pluginDocuments = Without(@, {file})]
         marked == MarkDirtyWithDependents(updated, file, dependents)
     IN \E included \in {{}, Marked(updated, file, dependents)} :
          folder' = Push(marked, {file} \cup required \cup included)
  /\ UNCHANGED <<disk, changes, pull>>

\* Mutant: the module keeps what was parsed from the buffer.
CloseWithoutMarking(file, dependents) ==
  /\ folder.isReady
  /\ file \in Managed(folder)
  /\ folder' = [folder EXCEPT !.managedFiles = Without(@, {file})]
  /\ UNCHANGED <<disk, changes, edits, pull>>

CloseTextDocument(file, dependents) ==
  /\ folder.isReady
  /\ file \in Managed(folder)
  /\ folder' = MarkDirtyWithDependents(
                 [folder EXCEPT !.managedFiles = Without(@, {file})], file, dependents)
  /\ UNCHANGED <<disk, changes, edits, pull>>

-----------------------------------------------------------------------------
(* Settings (WorkspaceFolder::setupWithConfiguration).                      *)

SetupWithConfiguration(w, settings, required) ==
  LET helped == IF w.settings.showHelp # settings.showHelp THEN MarkAllDirty(w) ELSE w
      plugged == [helped EXCEPT !.settings = settings,
                                !.plugins = Configured(settings),
                                !.pluginDocuments = Nothing]
      indexed == WithRequired({file \in Files \ External : disk[file] # "absent"}, required)
  IN IF settings.index THEN Parse(plugged, indexed) ELSE plugged

\* The open documents are checked again, or the client asks for diagnostics.
RecomputeDiagnostics(w, required) == Push(w, WithRequired(Managed(w), required))

LazyInitialize(settings, required) ==
  /\ ~folder.isReady
  /\ folder' = [SetupWithConfiguration(folder, settings, required) EXCEPT !.isReady = TRUE]
  /\ UNCHANGED <<disk, changes, edits, pull>>

ChangeConfiguration(settings, required) ==
  /\ folder.isReady
  /\ TogglesPlugins \/ Configured(settings) = folder.plugins
  /\ folder' = RecomputeDiagnostics(SetupWithConfiguration(folder, settings, required), required)
  /\ UNCHANGED <<disk, changes, edits, pull>>

-----------------------------------------------------------------------------
(* Watched files (WorkspaceFolder::onDidChangeWatchedFiles).                *)

\* An event belongs to the folder that holds the file or knows its module; a
\* deleted directory takes the modules in it along.
Concerns(w, event, file) ==
  IF event.uri = Directory
  THEN file \in FilesIn \cap Modules(w)
  ELSE event.uri = file /\ (file \notin External \/ file \in Modules(w))

Touched(w) == {file \in Files : \E i \in DOMAIN changes : Concerns(w, changes[i], file)}

\* Mutant: the events of a deleted directory are left to the files in it.
DeletedFiles(w) ==
  {file \in Files : \E i \in DOMAIN changes :
     /\ changes[i] = [uri |-> file, type |-> "Deleted"]
     /\ \A j \in DOMAIN changes : j > i => ~Concerns(w, changes[j], file)}

\* The files whose last event says that they are gone.
DeletedModules(w) ==
  {file \in Files : \E i \in DOMAIN changes :
     /\ Concerns(w, changes[i], file)
     /\ changes[i].type = "Deleted"
     /\ \A j \in DOMAIN changes : j > i => ~Concerns(w, changes[j], file)}

\* Mutant: a plugin file that comes back is taken for a new file.
PluginFileWritten(w) ==
  \E i \in DOMAIN changes :
    changes[i].type = "Changed" /\ IsPluginFile(w, changes[i].uri)

PluginFileChanged(w) == \E i \in DOMAIN changes : IsPluginFile(w, changes[i].uri)

ReloadPlugins(w) ==
  MarkAllDirty([w EXCEPT !.plugins = [script \in DOMAIN @ |-> Load(script)],
                         !.pluginDocuments = Nothing])

\* A module the client does not have open changed, or one is gone.
RefreshDiagnostics(w) ==
  \/ \E i \in DOMAIN changes : changes[i].uri \in Modules(w) \ Managed(w)
  \/ DeletedModules(w) # {}

OnDidChangeWatchedFiles(dependents, required) ==
  /\ folder.isReady
  /\ changes # <<>>
  /\ EditorClosesFirst => \A file \in Managed(folder) : disk[file] # "absent"
  /\ LET known == Touched(folder) \cap Modules(folder)
         dirtyFiles == known \cup (dependents \cap Modules(folder))
         deleted == DeletedModules(folder)
         looked == ReadDocuments(folder, {changes[i].uri : i \in DOMAIN changes} \cap Modules(folder))
         marked == MarkDirty(looked, dirtyFiles)
         reloaded == IF PluginFileChanged(folder) THEN ReloadPlugins(marked) ELSE marked
         cleared == ClearModules(reloaded, deleted)
         indexed == IF folder.settings.index
                    THEN Parse(cleared, WithRequired(dirtyFiles \ deleted, required)) ELSE cleared
     IN /\ dependents \subseteq UNION {Dependents(file) : file \in known}
        /\ folder' = IF RefreshDiagnostics(folder)
                     THEN RecomputeDiagnostics(indexed, required) ELSE indexed
  /\ changes' = <<>>
  /\ UNCHANGED <<disk, edits, pull>>

\* Events are dropped while the folder is not in use.
IgnoreWatchedFiles ==
  /\ ~folder.isReady
  /\ changes # <<>>
  /\ changes' = <<>>
  /\ UNCHANGED <<disk, edits, pull, folder>>

-----------------------------------------------------------------------------
Init ==
  /\ disk \in InitialDisks
  /\ changes = <<>>
  /\ edits = 0
  /\ pull \in BOOLEAN
  /\ folder = [isReady |-> FALSE,
               settings |-> InitialSettings,
               managedFiles |-> Nothing,
               pluginDocuments |-> Nothing,
               plugins |-> Nothing,
               sourceNodes |-> Nothing,
               dirty |-> {},
               watchedExternalDirectories |-> {},
               externalModulesScanSize |-> 0]

Client ==
  \/ \E file \in Files, text \in Texts : WriteFile(file, text)
  \/ \E file \in Files : DeleteFile(file)
  \/ DeleteDirectory

Server ==
  \/ \E file \in Files :
     \E dependents \in SUBSET Dependents(file), required \in SUBSET Requires[file] :
       \/ ParseRequest(file, required)
       \/ Request(file, {}, required)
       \/ Request(file, {file} \cup dependents, required)
       \/ \E text \in Texts :
            \/ OpenTextDocument(file, text, dependents, required)
            \/ UpdateTextDocument(file, text, dependents, required)
       \/ CloseTextDocument(file, dependents)
  \/ \E settings \in UserSettings, required \in SUBSET Required :
       LazyInitialize(settings, required) \/ ChangeConfiguration(settings, required)
  \/ \E dependents \in SUBSET Files, required \in SUBSET Required :
       OnDidChangeWatchedFiles(dependents, required)
  \/ IgnoreWatchedFiles

Next == Client \/ Server

Spec == Init /\ [][Next]_vars

-----------------------------------------------------------------------------
(* Properties                                                               *)

\* A module that is not marked dirty was parsed from what reading it would
\* give now: from the buffer while its document is open, from the disk
\* otherwise (unless the change is yet to be reported), transformed by the
\* plugins as they are loaded now. Opening, changing and closing documents,
\* file events, reloading plugins and new settings each have to mark what
\* they change (Workspace.cpp:43, :70, :158, :247, :381).
CleanModuleIsCurrent ==
  \A file \in Modules(folder) \ folder.dirty :
    file \in Managed(folder) \/ ~Pending(file) =>
      IsReadable(folder, file) /\ folder.sourceNodes[file] = ReadSource(folder, file)

\* The transformed text getTextDocument answers with is the transformation of
\* the document's text by the loaded plugins, remembered or not
\* (WorkspaceFileResolver.cpp:57-90).
PluginDocumentIsCurrent ==
  \A file \in Managed(folder) :
    GetTextDocument(folder, file) = FreshDocument(folder, file)

\* Both: whoever reads a document, the type checker or a handler, reads what its
\* buffer or its file holds now.
TextsReadAreCurrent == CleanModuleIsCurrent /\ PluginDocumentIsCurrent

\* A listed plugin runs the code its file holds, unless the change is yet to
\* be reported: plugins are reloaded when their file changes
\* (Workspace.cpp:242, :370; Plugin/README.md:52). No event names the plugins
\* in a directory that is deleted as a whole, so none of them is in FilesIn.
LoadedPluginIsCurrent ==
  \A script \in DOMAIN folder.plugins :
    Pending(script) \/ folder.plugins[script] = Load(script)

\* "A deleted file's module has to actually leave the frontend"
\* (Workspace.cpp:283): a file that is gone, and reported, and not open, is no
\* module any more.
DeletedModuleIsGone ==
  \A file \in Modules(folder) :
    IsReadable(folder, file) \/ Pending(file)

=============================================================================
