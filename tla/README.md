# A TLA+ verification of luwu-lsp

luwu-lsp is a language server (C++17) for Luau and Luwu. An editor (the *client*)
starts it as a process and talks JSON-RPC to it over a pipe or the standard
streams. This directory models the parts of the server that keep state across
messages and the algorithms that rewrite the user's text, model-checks them on
small instances with TLC, and proves the properties of the core with TLAPS for
every instance.

All paths below are relative to the repository root (`src/LanguageServer.cpp` is
`src/src/LanguageServer.cpp` in `PROJECT.json`).

## 1. The system

### Components

| component | source | state it keeps | operations |
|---|---|---|---|
| Message loop | `src/LanguageServer.cpp`, `src/Thread.cpp`, `src/main.cpp` | the message queue, cancellation tokens, `shutdownRequested`, `configPostponedMessages`, `isInitialized` | read a message, queue, cancel, shut down, exit; pop, handle, postpone, replay, answer |
| Workspace folders and configuration | `src/LanguageServer.cpp`, `src/Client.cpp` | `workspaceFolders`, `nullWorkspace`, each folder's `hasConfiguration`, `isReady`; `configStore`, `globalConfig`, `responseHandler` | initialize, initialized, didChangeConfiguration, didChangeWorkspaceFolders, configuration response, first use of a folder |
| Diagnostics | `src/operations/Diagnostics.cpp`, `src/Client.cpp` | `workspaceDiagnosticsToken`, `workspaceDiagnosticsRequestId` | document and workspace pull, push, save, terminate and refresh |
| Documents of a workspace | `src/Workspace.cpp`, `src/WorkspaceFileResolver.cpp` | `managedFiles`, `pluginDocuments`, the type checker's dirty marks | open, change, save, close, watched files, read source, plugins on and off |
| Text documents | `src/TextDocument.cpp` | content, version, cached line offsets | full and incremental update, position and offset conversion |
| Plugins | `src/Plugin/*.cpp` | loaded plugins, their VMs, source mappings | configure, reload, transform, map positions |
| Module resolution | `src/platform/LSPPlatform.cpp`, `src/WorkspaceFileResolver.cpp` | `configCache`, `languageConfigCache` | read `.luaurc` files up the tree, resolve requires, offer them, follow renamed files |
| Roblox platform | `src/platform/roblox/*` | the sourcemap tree, real-path and virtual-path maps, plugin nodes, instance types | load a sourcemap, merge plugin data, write the file back, resolve and write requires |
| Refactorings and fixes | `src/operations/Refactoring.cpp`, `CodeAction.cpp`, `LintFixes.cpp`, `src/Destructure.cpp` | none; an action is offered, then resolved when it is taken | extract, inline, move to traits, rewrite guards and and-ors, import fields, lay out lists |
| References | `src/operations/References.cpp`, `Rename.cpp`, `GotoDefinition.cpp`, `CallHierarchy.cpp`, `src/LuauExt.cpp` | none | references, rename, definition, incoming and outgoing calls |
| Uris and files | `src/Uri.cpp`, `src/LuauFileUtils.cpp`, `src/Utils.cpp` | none | parse, print, resolve, compare, ignore globs |
| Other language features | `src/operations/*` | none | hover, completion, tokens, hints, folding, ... |
| Transport | `src/JsonRpc.cpp`, `src/transport/*` | the streams | read and write framed messages |
| Command line tools, editor extensions, vendored code | `src/AnalyzeCli.cpp`, `editors/`, `extern/`, `plugin/`, `scripts/` | - | - |

### How they interact

- The **main thread** reads messages (`processInputLoop`). It answers `shutdown`,
  handles `$/cancelRequest` and `exit` itself, and queues everything else. The
  **worker thread** pops one message at a time and handles it to the end. The two
  share the queue, the token map and the shutdown flag (under `messagesMutex`,
  except for two reads of the flag by the worker).
- A handler for a document finds the workspace folder of the document's uri and
  *lazily initialises* it: the folder is set up with the configuration the store
  has for it at that moment.
- Configuration is *pulled*: the server sends `workspace/configuration` with a
  list of folders, registers a response handler that captured the list, and the
  client's answer is matched to the list by position. While any folder has not
  received its configuration, requests and document and workspace notifications
  are postponed.
- A configuration answer re-initialises the folder if it is in use, and asks for
  diagnostics and inlay hints again.
- Files change behind the server's back: the editor reports them in batches
  (`workspace/didChangeWatchedFiles`), and caches, modules, diagnostics, plugins
  and the sourcemap are brought up to date from the events alone.
- Every position the client sends passes through the document's line offsets and,
  if a plugin transformed the document, through its source mapping, and back.
- A code action is computed twice: when it is offered and when it is resolved, on
  the text as it is then.

### What is hard here

Interleavings of the two threads around cancellation and shutdown; answers that
arrive late, out of order, in part or not at all, for folders that are gone;
postponement and replay that must neither lose nor reorder messages; caches
(configuration, plugin documents, line offsets, resolved requires, instance types)
that must follow what they are derived from, through events that arrive late and in
batches; a stream of diagnostics that is kept open across all of this; a file that
is written by the server, a tool and a plugin; everything waiting on a
configuration that may never come; and text edits that are put together from
pieces of text, whose meaning depends on what surrounds them. `PROJECT.json` lists
each hazard at its line with the properties that cover it.

## 2. The modules

| module | models | extends / composes |
|---|---|---|
| `WorkspaceConfiguration` | the configuration handlers and the store, one action per handler | - |
| `ConfigurationProtocol` | those handlers driven by a client that opens and closes folders, edits settings and answers | `WorkspaceConfiguration` |
| `LanguageServer` | the two threads, with the same handlers behind the real queue | `WorkspaceConfiguration` |
| `RequestContract` | the abstract promise about requests; `LanguageServer` implements it | instantiated by `LanguageServer` |
| `Documents` | one folder: open documents, plugins, modules of the type checker, watched files, and the disk | - |
| `Diagnostics` | who is told what: pushed, pulled and streamed diagnostics of one folder and what the client shows | - |
| `FileRequires` | paths, the strings that require them, resolved, offered, completed and rewritten | - |
| `RequireGraph` | the graph drawn of the modules' requires | - |
| `ModuleResolution` | configuration caches, known modules and their requires over a changing disk | `FileRequires`, `RequireGraph` |
| `Instances` | the heap of sourcemap nodes, loading, merging, pruning, writing paths | - |
| `RobloxRequires` | requires resolved in the tree and written from it | `Instances` |
| `Sourcemap` | the platform's state: tree, maps, types, the file, the tool and the plugin | `Instances` |
| `TextDocument` | the content and line offsets of an open document | - |
| `SourceMapping` | a plugin's edits and the mapping they give | - |
| `PluginTextDocument` | a document, its transformation and positions through both | `TextDocument`, `SourceMapping` |
| `Uris` | uris and paths on three platforms | - |
| `Syntax` | Luau trees, bindings and what programs do: the facts about the language the refactorings rely on | - |
| `Refactorings` | extract and inline, variables and functions, offered and resolved | `Syntax` |
| `Traits` | members moved into a new trait; access specifiers written and removed | - |
| `Expressions` | texts of expressions read by precedence, and evaluated | - |
| `LintFixes` | the rewrites of and-ors, guards, negations and divisions, alone and as fix-all | `Expressions` |
| `LoopConcat` | the rewrite of a string that a loop appends to into a table of parts | - |
| `References` | references and renames over the modules of a workspace | - |
| `Navigation` | going to a definition, over the same workspaces | `References` |
| `CallHierarchy` | incoming and outgoing calls | - |
| `Destructure` | importing fields into patterns, qualifying, removing, completing | - |
| `Layouts` | lists put on one line and apart | - |
| `MC...` | the finite values for TLC; `MCText`, `MCRefactorings` and `MCReferences` put pure components side by side in one state space; `MCSourcemap` also has the properties that walk the plugin's trees and that compose `Sourcemap` with `RobloxRequires` | their modules |
| `LintTexts`, `ImportTexts` | the documents of two of the instances | - |
| `WorkspaceConfiguration_proofs` | lemmas about the handlers and helpers, used by the next two | `WorkspaceConfiguration` |
| `ConfigurationProtocol_proofs` | types, and the theorems about folders and settings | `WorkspaceConfiguration_proofs` |
| `LanguageServer_proofs` | types, and that no request is answered twice | `WorkspaceConfiguration_proofs` |
| `Documents_proofs` | types, lemmas about the handlers of documents, and the safety theorems about documents, plugins and deleted modules | `Documents` |
| `LanguageServerSafety_proofs` | no message is lost, messages take effect in order, and the refinement of `RequestContract` | `LanguageServer_proofs` |
| `Diagnostics_proofs` | the theorems about what a client is shown | `Diagnostics` |
| `ModuleResolution_proofs` | that cached configurations and resolved requires are current, that requires follow a rename, and that what is offered and completed resolves | `ModuleResolution` |
| `Sourcemap_proofs` | that types and maps are those of the tree, and what each function on the tree does for trees of any size | `Sourcemap` |

`PROJECT.json` (`map`) gives the source lines of every definition. The
correspondence in short:

**WorkspaceConfiguration.** A handler runs on the worker thread to its end, so it
is one action: `OnInitialize`, `OnInitialized`, `OnDidChangeConfiguration`,
`OnDidChangeWorkspaceFolders`, `HandleResponse` (the response handler of
`LSPClient::requestConfiguration` and the callback it calls for every folder,
`StoreConfigurations` then `ReceiveConfigurations`) and `TouchDocument` (any
handler that begins with `findWorkspace`). `configStore`, `globalConfig`,
`responseHandler` and `nextRequestId` are the fields of `LSPClient`; a folder is a
record of its uri, `hasConfiguration`, `isReady` and `applied`, the configuration
it was last set up with. A configuration is one of a few values. A uri keeps its
scheme and its text as a sequence of fragments, so that the raw prefix test of
`findWorkspace` is what it is in the code. Using the iterator that `erase` returned
for the last folder is undefined behaviour: the model lets the process crash, or
erase nothing, or erase what the freed folder still says.

**LanguageServer.** `messages`, `cancellationTokens`, `shutdownRequested` and
`configPostponedMessages` are the variables of the class; `reader` and `worker` are
the program counters of the two threads. A step is a critical section of
`messagesMutex` or what a thread does between two of them: `PopMessage`,
`MustWait`/`Postpone`, `AcceptRequest` (the unlocked read of the flag),
`LookupToken`, `RunRequest`, `ClearCancellationToken`, ... The loop over the
postponed messages is `ReplayNext`/`ReplayEnd`. `inbox`, `replies`, `done`,
`cancelledEarly`, `shutdowns` and `shutdownReplies` are history: no guard of the
server reads them (the client's guards do, a client knows what it sent); so is `behind`,
the messages that were postponed while an addition of folders was waiting. `RunRequest`
answers every request; the one that may be left open, `workspace/diagnostic`, is in
`Diagnostics`.

**Documents.** `folder` is the `WorkspaceFolder` with its resolver and its plugin
manager; `sourceNodes` (what each module was parsed from) and `dirty` stand for the
`Frontend`, which is not part of the repository and marked external. What a parse
reads is modelled by what `readSource`, `getTextDocument` and
`applyPluginTransformation` do: a text together with the code of the plugins that
transformed it, and a memory of transformed documents keyed by version. `disk` and
`changes` are the files and the events the editor has yet to send. Which modules
depend on which follows from texts; any subset of the declared dependents may be
marked and any subset of the required ones parsed along. `OnDidChangeWatchedFiles`
is the whole handler: looking up documents, marking, reloading plugins, clearing,
indexing and recomputing diagnostics, in this order.

**Diagnostics.** What a report says is abstracted to whether it is current; the
module is about who is told. `stream` is the server's `workspaceDiagnosticsToken` and
`...RequestId`, `shown` what the client displays. `WorkspaceDiagnostic`,
`DocumentDiagnostic`, `OnDidSaveTextDocument`, `UpdateTextDocument`,
`OnDidChangeWatchedFiles` and the settings' handlers are one action each with
everything they send, the error that ends the stream included. `refreshes` says whether
the client supports `workspace/diagnostic/refresh`: without it the error is the only
way to tell it to ask again (`src/Client.cpp:238`).

**ModuleResolution, FileRequires, RequireGraph.** `disk` holds files and
configurations, `configCache` is what `readConfigRec` left, a module has what its
requires resolved to when it was parsed. Writing and deleting are the environment;
`Parse`, `OnDidChangeWatchedFiles` and `RenameFiles` (`willRenameFiles`, whose edits
the client makes) are the server's. `outdated` is history: modules no event reaches,
because a file was created, a configuration written, or a directory deleted that hid
a file of its name. A path is a sequence of components, a component a stem and an
extension, so that what `.luau`/`.lua`/`init` endings do is kept and spelling is not
(a name has no dot but that of a source file's extension: `ExtensionsAssumption`).
Following `..`, names and absolute paths (`ResolvePath`) and aliases that name others
(`ResolveAliasFrom`, each name once at most) are recursive functions over numbers.

**Instances, RobloxRequires, Sourcemap.** Nodes live in a heap, a
sequence whose places are their addresses; the typed allocator only appends, and when
it is cleared the addresses are handed out again, so that a dangling pointer is one in
the model. The functions that walk a tree depth first (`fromJson`, `writePathsToMap`,
`mutateSourceNodeWithPluginInfo`) are a list of calls still to be made, of which the
first is made and replaced by its own (`Recursion`): the same order, and a recursion
over a number, which can be proved about. `MaxNodes` bounds how many calls reading and
merging make; `TreesFit` (part of `PluginInstancesAreKept`) says that the trees of the
run are merged in full. `platform.real` and `platform.virtual` are `realPathsToSourceNodes` and
`virtualPathsToSourceNodes`; `checked` is what the type checker keeps of a module,
with the addresses its types hold. `OnDidChangeWatchedFiles` (which loads the file),
`OnStudioPluginFullChange` and `OnStudioPluginClear` are whole handlers, with the
types they make and the file they write back; the tool that writes the file and the
events are the environment.

**TextDocument, SourceMapping, PluginTextDocument.** Texts are sequences of bytes,
positions are counted in UTF-8, UTF-16 or UTF-32 units; offsets, columns and the
incremental adjustment of the offsets are computed as in the code, and compared with
the offsets of the new text.

**Uris.** A string is a sequence of bytes; percent-encoding, drive letters, UNC hosts
and `.`/`..` are handled byte by byte as in `Uri.cpp`.

**Refactorings, Traits, LintFixes, LoopConcat.** The source works on syntax trees and copies text.
`Syntax` and `Expressions` give the trees, bindings, precedences and an evaluator
(facts of the language, external); the refactorings compute what is offered for a
selection and the edits of the resolved action, as `Refactoring.cpp` does; the
property compares what the program does before and after. An action may be resolved
after an edit made it stale.

**References, Navigation, CallHierarchy.** A workspace is a set of places with what
they are bound to; the searches follow the AST visitors and the type walks of
`References.cpp` and `LuauExt.cpp` case by case. `names` changes with each rename, so
that renames are made on the results of others.

**Destructure, Layouts.** A document is a list of statements with targets and
patterns (`Destructure`) or of tokens and line breaks (`Layouts`); each action is one
code action or completion.

## 3. The runs

| run | asks | distinct states |
|---|---|---|
| `config_growing` | a client that opens folders, edits settings and answers in any order, in full, in part, malformed or with an error: does a folder only count as configured by its own configuration, do the store and the folders in use follow the client's settings (`SettingsAreCurrent`), does every folder get configured? | 40 188 |
| `config_closing` | a client that also closes folders while answers are on their way: are the server's folders the client's, and does nothing wait for an answer nobody owes (`OpenFoldersAreServed`)? | 20 564 |
| `server_safety` | reader and worker in all interleavings, two requests with cancellation, edits, folder changes, shutdown, exit, end of input, clients with and without `workspace/configuration`: is no token left over and no message lost but those a replay loses behind an addition of folders (`OpenRequestsAreKept`), do messages take effect in order and up to the shutdown's answer (`WorkFollowsTheMessages`), and do the two threads implement `RequestContract` (`KeepsContract`)? | 278 425 |
| `server_liveness` | with fair threads: are requests answered, and does joining the worker end? | 144 221 |
| `documents` | documents, files, directory deletion, plugins that break and come back, settings, pushing and pulling diagnostics: is everything that is read what the buffers, the disk and the plugins give now? | 279 591 |
| `diagnostics` | a client with push or with pull diagnostics, streams, cancellation, settings, file events: is what it shows of every file current, or has it been told to ask again; is the open request one open request's? | 2 183 532 |
| `resolution` | two projects whose files and configurations change and are renamed while modules are parsed: are the caches, the resolved requires and the graph those of the disk, do offered and completed strings resolve to what they were offered for, do requires follow a rename? | 48 520 |
| `sourcemap` | a tool that writes `sourcemap.json`, a plugin that comes, changes and goes: do types and maps follow the tree, is the plugin's part kept, do written requires resolve back, does the server's own writing come to an end? | 48 580 |
| `text` | edits in three encodings, a plugin's edits, uris on three platforms, list layouts: is the server's copy the client's text, does a position come back through all conversions, is the mapping exact, does a uri name one file, do layouts keep the code? | 22 467 |
| `refactorings` | every selection in some hundred programs, every sequence of trait extractions and specifier changes, every fix of some thousand texts and of a string that a loop builds: is what the program does unchanged, do classes keep their members, are fixes what their title says? | 184 495 |
| `renames` | every sequence of renames from any place over three modules; imports edited in every order; every program of four functions: does every name keep its meaning, does qualifying undo importing, does a name lead to what it means, are callers found from callees? | 14 271 |
| `renames_generic` (violation) | a type parameter renamed from an annotation in the body of its function: the declaration is left behind (`src/operations/References.cpp:1155`) | - |

`MCText`, `MCRefactorings` and `MCReferences` put several components without common
state into one state space: the initial state chooses which of them moves, the others
rest in a fixed state, and a property of one holds of the rest state by a guard. That
changes nothing about each component's behaviours.

### Findings without a run

The other findings of `PROJECT.json` were met in the same models. For most of those
that concern the core, a constant keeps the client of the passing runs away from the
situation; setting it, or dropping the condition named here, shows the behaviour as a
counterexample:

| finding | shown by |
|---|---|
| closing a folder erases the configuration of the folder *behind* it (`src/LanguageServer.cpp:924-927`) | `MayRemoveFolders` in a growing instance |
| old and new configuration are the same object, so hints are refreshed only for a first configuration (`src/Client.cpp:204`) | `refreshedInlayHints` in `ConfigurationProtocol`: it stays false when a known folder's setting changes |
| a folder added while messages are postponed makes the replay lose the messages behind it (`src/LanguageServer.cpp:575-577`) | an empty `behind` in `LanguageServer`: the passing runs do add folders whenever the client likes, and `behind` names the messages that wait behind a postponed addition |
| a function that is extracted from `local function` takes keyword and name along (`src/operations/Refactoring.cpp:319`) | `TextIsAnExpression` left out |
| renaming an alias also renames the type parameters of its name (`src/operations/References.cpp:320`) | a workspace of `MCReferences` in which a type parameter has the name of an alias |
| new plugin settings leave parsed modules clean (`src/Workspace.cpp:833`) | `TogglesPlugins` |
| a file deleted while open comes back as a module and stays (`src/Workspace.cpp:158`) | `EditorClosesFirst = FALSE` |
| a document opened again with a version it had is answered with the old text (`src/WorkspaceFileResolver.cpp:70`) | `VersionsRestart` |
| a new external module is not watched when another left (`src/Workspace.cpp:450`) | `External` not empty |
| an open file deleted and written again in one batch loses its diagnostics (`src/Workspace.cpp:308`) | `Rewrites` |

What `resolution`, `sourcemap`, `refactorings`, `renames` and `text` leave out for the
same reason is a named operator in the antecedent of a property:
`IsAliased` (`RobloxRequires`: a module that requires through an alias has a file);
`Unambiguous`, `Nameable`, `LeadsByAliases` and the init files of
`RenamedRequiresFollow` (`ModuleResolution`); `EvaluatedFirst`,
`TextIsAnExpression`, `SharesNoAssignment`, `InitializerKeepsItsValue`, `ParametersAreValues`
(`Refactorings`); `TestStandsAlone`, `MiddlesAreTruthy` (`LintFixes`);
`ConditionReadsTheString` (`LoopConcat`);
`PrefixesStayBound`, `ImportedBeforeRead` (`Destructure`); `HasParametersAsWritten`
(`Layouts`). Section 6 says what each of them excludes.

### Bounds

- *Configuration*: two nested roots (a nested pair is where lookups, removal and
  stale answers interact), four documents (inside, an `untitled:` one in the inner
  folder, one outside, and a root itself), two configurations, three requests: the
  one after `initialized` and two that overlap with it or each other. A request that
  the settings still owe is reserved, so the bound never hides an announced change.
- *Threads*: two request ids, four requests and notifications besides `initialized`
  (three with liveness), one shutdown (two with liveness: the second joins a joined
  thread). Four messages are the handshake's request, one that adds a folder, and two
  that are postponed behind it, which replay, cancellation and order need. The
  configuration requests need no bound (`MaxRequests` is not reached).
- *Documents*: a plugin script and two modules, one requiring the other and in a
  directory that may be deleted as a whole; two contents (only one loads as a
  plugin), three changes of disk and buffers, two events in one batch. Writing,
  deleting and writing again needs two events in one batch; opening, changing and
  deleting needs three changes.
- *Diagnostics*: a chain of three modules, so that a change reaches a file through
  another; two edits, two workspace requests (the second ends the first) and two
  events in a batch.
- *Resolution*: files with both extensions, an init file, a directory below another and
  one with a file's name, an alias that names another one, two places of configuration
  files, three renames; two changes, which together make every order of one change, its
  event, a parse and a second change. The theorems about the same properties are for
  files, aliases and changes of any number.
- *Sourcemap*: a place, a package whose root is no DataModel and a malformed file; two
  trees from the plugin that add, change and remove instances; four changes: the tool,
  the plugin, the tool again and the plugin gone. `MaxNodes = 20` is more than any of
  these trees has (`TreesFit`). The theorems are for trees of any size, any number of
  them and any number of changes.
- *Texts*: buffers of up to three characters out of one-, two- and four-byte ones and
  both line breaks: the shortest in which a range may begin before, in and after a
  line break and a character that counts differently in each encoding. A plugin makes
  up to two edits. Uris have two names below each kind of root, with the bytes that
  are escaped. Layouts: documents of nested lists of every kind.
- *Refactorings*: two statements out of ten between a declaration and a use, and five
  function bodies with three argument lists, used after a declaration that shadows a
  name of the body or inside another function: every pair of constructs that interacts by scope, order or value. Two
  extracted traits, the second from the rest of the first. Two fixes, or all at once.
  Strings built in a loop: every kind of start, an append and another use before, in
  or after it, read again after the loop, kept by a function, or in a `repeat`.
- *Renames*: two new names, which are interchangeable (the symmetry set): one place
  may be renamed to one and its neighbour to the other. Call hierarchy: every
  program of four functions and two calls.

### Fairness

`ConfigurationProtocol!FairSpec`: the client completes the handshake and announces
changed settings, and each configuration request is answered (in full or not).
`LanguageServer!FairSpec`: the worker thread runs whenever it can (it blocks only on
an empty queue, and the shutdown flag wakes it), the join ends once the worker has,
the client answers configuration requests and completes the handshake it began.
Nothing says that the client ever sends a request, cancels, shuts down or exits.
`Sourcemap!FairSpec`: an event that is there is reported sooner or later; nothing is
assumed of the tool and the plugin but that they change things finitely often, which
the bound says. The other components have no liveness property: nothing in them waits.

## 4. What is proved

With TLAPS, for every value of the constants that satisfies the assumptions of the
modules:

| theorem | says | assumes |
|---|---|---|
| `ConfigurationTypeCorrect` | `Spec => []TypeOK` of `ConfigurationProtocol` | - |
| `OpenFoldersServed` | `OpenFoldersAreServed`: the server's folders are the client's, and who waits for a configuration is owed one | folders that may be closed have different names |
| `ConfiguredFoldersHaveTheirOwn` | `ConfiguredFolderHasOwnConfiguration` | no folder is closed |
| `SettingsStayCurrent` | `SettingsAreCurrent`: folders in use follow the store, the store follows the client | no folder is closed, the client supports `workspace/configuration` |
| `ServerTypeCorrect` | `Spec => []TypeOK` of `LanguageServer` | - |
| `EveryRequestAnsweredAtMostOnce` | no request is answered twice | - (also when ids are reused and folders change while messages are postponed) |
| `MessagesTakeEffectInOrder` | `WorkFollowsTheMessages`: effects in the order of sending, none after the shutdown's answer | - |
| `NothingIsForgotten` | `OpenRequestsAreKept`: no message, token or early cancellation is lost, but what waits behind a postponed addition of folders | ids are not reused |
| `ThreadsKeepContract` | `KeepsContract`: `LanguageServer` implements `RequestContract` | the same |
| `DocumentsTypeCorrect` | `Spec => []TypeOK` of `Documents` | - |
| `DocumentsAreCurrent` | `TextsReadAreCurrent`: clean modules and remembered documents are current | no module outside the folder, versions grow, plugin settings stay while in use |
| `LoadedPluginsAreCurrent` | listed plugins run what their files hold | no module outside the folder, no plugin in a directory deleted as a whole |
| `DeletedModulesAreGone` | deleted, reported, unopened files are no modules | no module outside the folder, documents closed before their deletion is reported |
| `OneOpenRequestIsKept` | `OpenRequestIsKept`: the open `workspace/diagnostic` and the streamed token are one request's | - |
| `GoneFilesShowNothing` | `UnreportedFilesShowNothing`: nothing is pushed, or left, of files that are gone or ignored and not open | no other program writes open files (`Rewrites`) |
| `PushedDiagnosticsStayCurrent` | `PublishedDiagnosticsAreCurrent` | that, and no `OpensEarly`, `Creates`, `Discards` |
| `StreamedDiagnosticsStayCurrent` | `WorkspaceDiagnosticsAreCurrent` | the same four |
| `CachedConfigurationsStayCurrent` | `ConfigurationsAreCurrent`: types, cached configurations and the errors shown of them | no directory with a configuration in it is deleted as a whole |
| `ResolvedRequiresStayCurrent` | `RequiresAreCurrent`: what requires resolved to is what they resolve to, and the graph draws it | the same |
| `RenamedRequiresAreFollowed` | `RenamedRequiresFollow`: the requires of a renamed file, and its own, reach what they reached | the same |
| `SuggestedRequiresAlwaysResolve` | `SuggestedRequiresResolve`: what is offered resolves to the module, what is completed to what was listed | the same |
| `TypesAreOfTheTree` | `TypesFollowTheTree`: no type in use was freed, clean modules know the instance the tree has now | - |
| `MapsAreOfTheTree` | the path maps have exactly the paths and files of the tree's instances (`PathMapsMatchTree`), and types | - |
| `MapsOfNamedSiblings` | `MapsFollowTheTree`: that, and files lead to their instance and back | no two siblings have one name (`SiblingsHaveNames`) |

The assumptions are the negations of findings and observations (sections 3 and 6):
each is needed, and a finding or a line shows why.

- Folders are closed by display name, so two with one name go together
  (`src/LanguageServer.cpp:917`); closing erases the configuration of the folder
  *behind* the closed one (`:924`), and an answer on its way then sets up another.
- A client without `workspace/configuration` sends its settings in
  `workspace/didChangeConfiguration`, where they reach `globalConfig` but no folder
  that is in use (`:903`).
- An id that is used again between its answer and `clearCancellationToken` loses the
  token of the second request (`:601`).
- `External = {}` is assumed because a change of an external file that is not watched
  is never reported. For the four flags of `Diagnostics`, see section 6.
- Siblings of one name have one virtual path, which leads to the last of them, so the
  files of the others do not come back (`src/platform/roblox/RobloxSourcemap.cpp:482`).
  The instance's trees have none (`MCTreesNameSiblings`). Only the round trip of files
  needs this.
- A directory that is deleted as a whole is one event, which looks for modules below
  it (`src/Workspace.cpp:258`) but clears no configuration: what was cached of its
  configuration files stays (`ConfigurationsStay` excludes it, and so do the values
  of *Resolution*).

What an editor is in the first place (it lists a folder once, its uris are those of
files and folders) is in the `ASSUME`s of the modules, and so is what paths are
(`ModuleResolution`): no component is empty, `.`, `..` or `/`, and none begins with the
`@` of aliases (`NamesAssumption`); a disk begins with files that are no directories
(`DisksAssumption`); an alias is kept under its name in lower case, and `self` is in
lower case (`AliasesAssumption`). Of the trees of `Sourcemap` only the shape is assumed:
what is below a tree is a tree (`TreesAssumption`), and the bounds are numbers.

*Configuration.* `TypeOK` alone is not inductive: an answer is only typed if the
handler of every request to be answered is still registered. The invariant adds
that (`AskedHaveHandlers`). `ServedInv` adds that the roots of the folders differ
(or erasing one would leave its double) and that nothing is asked before
`initialized`. `OwnInv` adds that every registered handler asks about folders the
server has (`HandlersNameFolders`): an answer about a folder that is gone would be
applied to the one its uri is found in. `SettingsInv` adds `StoreFollows`: until the
store has what the client set for a folder, an answer that will say so is on its way,
or the client refused. The proofs rest on what each handler does to the folders
(`KeptFolders`, a recursive function, is unfolded once and by well-founded induction
in `WorkspaceConfiguration_proofs`).

*At most one answer.* The invariant says that the messages that wait to be
replayed, the one in the worker's hand and those in the queue carry increasing
numbers in the order the worker will take them, so that none is in two of these
places, and that none of them is answered (`QueuesInOrder`, `HandInOrder`). The
message in hand counts until its answer is sent. What a replay has already taken
from `configPostponedMessages`, or what the loop drops, no longer counts, which is
why the theorem also covers a folder that is added while messages are postponed:
what is lost there is not answered twice.

*Order.* `DoneInOrder` says that what was done was sent before what is still ahead, of
the messages that need a workspace. It is inductive only with `PostponedWait`: as long
as something is postponed outside of a replay, some folder has no configuration and
the worker runs nothing that needs one; and with `OneHandshake`: no message that needs
a workspace lies between `initialize` and `initialized`. The part about the shutdown
needs only that the worker has stopped when it was joined.

*Nothing forgotten.* Every message that was sent is done, answered, or ahead of the
worker: queued, postponed or in hand (`Accounted`), or it was postponed while an
addition of folders was waiting in front of it (`behind`). Nothing is assumed of when
folders are added: the replay of such an addition may leave a folder without a
configuration, so that what is behind it is postponed again, into the vector that is
cleared after the loop (`src/LanguageServer.cpp:575-577`). The proof is that this is
the only way to be lost: the rest of a replay is postponed again only if a message in
front of it added folders, and then it is `behind`. Tokens are split by who still needs them: what is
ahead of the worker has the token of its own number under its id (`TokensAreKept`,
which needs `IdsDiffer`), and every token left belongs to a request without an answer
(`TokensAreOfOpenRequests`, with the one step between answer and clearing,
`ClearsAnswered`).

*The contract.* The refinement mapping `ContractState` reads a request's state off
replies, queue, worker and tokens. `StatesAreKnown` says that it is one of the three
cases *answered*, *waits* (queued, or doomed by an early cancellation) and *runs*, and
in particular never lost, unless it is `behind`. `RequestContract` says the same to a
client: a request that comes to wait behind an addition of folders is waived while it
is queued, and only a waived one may be forgotten. Each step of the threads then moves one request along
`RequestContract` or none.

*Documents are current.* `CurrencyInvariant` speaks of a folder, a disk, the number
of edits and the set of files whose change is unreported: no version is from the
future (so the next one is new), a remembered document with the current version is
the transformation of the current text, and a clean module has the source a fresh
read gives. A lemma for each operator the handlers are built from (`Parse`,
`MarkDirty`, `ClearModules`, `ReloadPlugins`, setting up, opening, changing, closing)
shows that it keeps this; the handler of watched files is where the order matters:
between looking documents up and marking, modules of pending files may be wrong, and
`WatchGood` shows that all of them are marked or cleared when the handler ends, for
an empty set of unreported files.

*Plugins* need, besides the property, only that a folder which is not in use lists
none (events are dropped then). *Deleted modules* need that the *last* unreported
event about the file of an absent module or document is a deletion: events about
other files keep that, a new event about the file is a deletion or the file is
there again, and the handler's own computation of the last event agrees with it.

*Diagnostics.* `StreamInv` (a request that was not made has no answer) closes
`OpenRequestIsKept`. `GoneInv`: what is shown of a file that is gone will be cleared by
an event that is there (`ClearedInTime`), which needs that open documents are of files
that are there. For ignored files the property itself is inductive (`IgnoredAreCleared`):
each way to be shown passes over those that are not open. A report depends on the file's own text and on those of the modules it
requires, and a change only reaches the file if the type checker knows the modules in
between; so currency of pushed reports needs that everything an open document requires
is known (`OpenRequiresKnown`), that unchanged documents hold what their files hold
(`FilesMatch`), and the property with its excuse: an event about a file a known module
was checked with is on its way (`PushedAreCurrent`). Files and edits are arbitrary, so
is the graph of requires, cycles included: what a change affects is the set of files
whose report depends on it, and each handler's lemma says which of these it renews.
Streamed reports are renewed by events and saves, not by edits, so their invariant
(`WatchedAreCurrent`) excuses files that require a document with unsaved changes, and
has a part for what nobody streams: ignored and unwatched files show nothing unless
they are open (`OthersShowNothing`). That the client is told when its stream is ended
needs more of one without `workspace/diagnostic/refresh`: the error is all it can be
told with, so the stream has to be that of its last request (`RestartTells`).

*Cached configurations.* `ConfigOnDisk` says what a directory's configuration is
without recursion: each alias as the nearest directory above has it.
`ReadsWhatIsOnDisk` is the step of `readConfigRec`: reading a directory's files over
the configuration of the one above gives that of the directory. `CachesGood` speaks of
any caches, not only those of the state: each of `readConfigRec`, `getConfig`, reading
one module, following requires and parsing a list of modules takes good caches to good
ones. All of these are recursive functions, each unfolded by well-founded induction up
to the length or number it recurs over (`UpTo`). The invariant adds that only settable
places have configuration files (`SettingsInv`), which a deleted directory needs, and
that the files are finitely many. A written configuration makes the claim void until
the server is told, and the event that tells it empties both caches.

*Resolved requires.* The property speaks of the moment when the server has been told of
everything; the invariant `RequiresInv` says what holds in between. Of each module that
is neither marked nor in `outdated`: an event about it is on its way (`Pending`), or it
is there and its target is known (`Known`), and what it requires leads where it led when
it was parsed (`Current`) or an event about that target is on its way
(`TargetPending`). "Leads" is read off the disk alone (`LeadsTo`), which
`ResolvesAsOnDisk` connects to the code's way through the caches. Deleting is where it
is delicate: a file that is gone may let another one of its name be found, so the events
that are left have to reach who required the one that is gone, and what a directory hid
is excused by `outdated`. Parsing follows requires from module to module, as far as the
graph goes (`Following`, a recursive function over a number).

*Strings and paths.* `ResolvesTo` says where a string of `.`s, `..`s and then names
leads, for any length of each, and `LexicallyRelativeIs` that the string computed for a
path is of that form: up from the base to what the two share, and down again. A path
found by its name is the only file that has it (`FoundByName`, from `Unambiguous`), and
what was found among some files is found among others (`FoundAgain`). So a rewritten
require reaches the renamed file (`RewrittenResolves`), also when only one of the two
was moved, or nothing had to be rewritten. `LeavesInv`, that no file is a directory of
another one, is what a disk guarantees and resolving relies on.

*Offered and completed strings.* An alias, followed through others, leads to one path,
whatever is required behind it (`AliasStart`, over `found`, unfolded as above). An alias
that names another one and does not go up from there is never above a file
(`ChainedStays`: lexically it has a component that begins with `@`), so that the one
that is offered is the one that is resolved (`AliasedNames`). `FromInitResolves` has the
four ways in which the string depends on whether the file is an init file, and
`SuggestedLeads` what cutting off the extension does to where it leads.
`ReachedGoesOn` is the same for completions: a name behind `.`, `..`, `@self` or an alias
is one step from where these lead.

*Trees.* The heart is that the nodes of the heap are a forest (`Forest`): the tree has
a root that is no child, every node is the child of one node at most, and is listed
there once. A tree that is read is one (`FromJsonForest`), merging and clearing the
plugin's instances keep it (`MutateForest`, `ClearedForest`): a node that is pruned
leaves its parent's list, a new one was in none. What is below a node is the least set
that is closed under children (`DescendantsAreLeast`), whichever way the set was grown.

*Paths.* Writing the paths makes a call for every child; the invariant of that walk
(`Wrote`) is that what was written and what is waited for are disjoint, and that the
children of what was written are among the two. In a forest no node is waited for twice, so the walk
makes at most as many calls as there are nodes and ends with every node of the tree
written once (`PathsAreWritten`). An entry that is replaced by a later node with the
same path or file leaves a map that leads to a node of the tree with that path, which
is what `PathMapsMatchTree` says without any assumption on names. With names apart, two
nodes with one path are one node (`PlacesApart`, by the length of the path and its last
name), and what the platform writes back keeps names apart (`SavedIsTree`), because
what is read back after a restart has to be such a tree again.

*Types.* `SourcemapInv` adds to that what is on the disk (a tree, or nothing that can
be read), and for each module the type checker keeps: what it knows is the instance the
maps lead to, with live types, or it is marked (`CheckedOf`). Every handler that changes
the tree ends with the maps rebuilt and then the types made anew; `updateSourcemapTypes`
takes any platform with the maps of its tree to one in which no node of the tree holds a
freed type (`NoneFreed`, `RetypedPlatform`), and marks every module that was checked.
That a module which is checked later only adds live types to nodes of the tree closes
the invariant.

### Only model-checked

Liveness and everything that needs `ENABLED` (`EveryFolderGetsConfigured`,
`RequestsAreAnswered`, `ShutdownIsAnswered`, `EventsSettle`) are out of the prover's
reach. Every safety property of the other runs of the core, and of `resolution`, is a
theorem, and so are the two of `sourcemap` that speak of the server's state alone.
`PluginInstancesAreKept` and `WrittenPathsResolve` compare the tree with what the plugin
sent or with requires that are put together and read again, along paths that recur over
JSON trees and over nodes (`RECURSIVE` operators of `MCSourcemap` and
`RobloxRequires`); those of `text`, `refactorings` and `renames` walk texts and syntax
trees in the same way. What such a definition computes for every input is induction over
data, which the installed provers cannot do. A recursion over a number, as those of
paths, aliases, requires and the calls of a walk, can be unfolded (`UpTo`); that is why
`Instances` states its walks so.

## 5. What is not modelled

- The type checker and the parser (a git submodule whose directory is empty). What
  the source relies on is stated as external definitions: `Frontend` in `Documents`
  and `ModuleResolution`, trees and meanings in `Syntax` and `Expressions`.
- Hover, completion (but for imports, requires and their children), semantic tokens,
  inlay hints, signature help and the Roblox extensions of the type checker: they
  print what was inferred, so there is nothing here to check them against.
- Byte-level transport, framing and parsing; a send is one step. Reading JSON, TOML
  and YAML, `Uri`'s hash, directory traversal, read failures of the sourcemap.
- Refactorings: hidden destructure locals and pattern fields, generics, attributes,
  comments; leaves that are `break` or `continue`; the lint fixes of strings, of
  loops but for concatenation, and of table truthiness. References: doc comments, `@[deprecated]`, references through
  returned symbols, union receivers, extern classes; `gotoTypeDefinition`.
- Destructuring: offered type aliases, `for ... in` and positional patterns, where a
  new require goes. Layouts: where the action is offered among others, long strings,
  padding spaces. Requires: `computeAllStringRequires`, the command line's graph.
- Capability registration, definition files, the plugins' VM and API, related
  documents of a pulled report.
- Command-line tools, editor extensions and vendored code, which are not part of the
  running server. `PROJECT.json` lists every component with its status.

## 6. Observations without a run

Met while modelling; either nothing in the repository promises otherwise, or a run
would repeat what a finding shows. The models keep the behaviour; where a property
would be false, its antecedent names the case.

**Messages and configuration.**

- The null workspace is set up from `globalConfig` although the client's answer for
  the null scope went to `configStore` (`src/Workspace.cpp:785`).
- A uri equal to a folder's root finds the folder without setting it up
  (`src/LanguageServer.cpp:60-63`).
- A configuration answer for a folder that was closed is applied to the workspace its
  uri is then found in, and sets it up again (`src/LanguageServer.cpp:782-789`).
- New settings of a client without `workspace/configuration` reach `globalConfig` and
  the features that read it, but folders in use stay set up with the old ones
  (`src/LanguageServer.cpp:903`); `Capabilities = {FALSE}` shows it.
- Folders are removed by display name: two folders with one name go together
  (`:917`). The instances use different names, so no run sees this.
- A raw prefix decides which folder a file belongs to: a file of `/work/app-old`
  without a folder of its own goes to `/work/app` (`:76`).
- A malformed setting in an answer leaves the later folders unconfigured
  (`src/Client.cpp:202`); with a client that does not support
  `workspace/configuration`, folders added later stay unconfigured
  (`src/LanguageServer.cpp:942`, against the comment at `:845`).
- Requests that are queued or postponed when shutdown is requested are never answered
  (`:628`).
- An id that is used again before its token is cleared loses the token (`:521-529`).
- A second shutdown request joins a joined thread; the exception escapes the input
  loop (`:650`, `src/Thread.cpp:61`).

**Documents, plugins and diagnostics.**

- A plugin that does not load when it is configured is not listed, so saving the
  corrected file reloads nothing (`src/Plugin/PluginManager.cpp:23`; compare
  `src/Plugin/README.md:52`). A plugin in a directory that is deleted as a whole keeps
  running (`src/Workspace.cpp:241`).
- A created file is not told to modules that failed to require it (`Creates`); a file
  opened before its event arrives (`OpensEarly`) and a document closed with unsaved
  changes (`Discards`) leave reports of dependents as they were.
- A streamed report of a deleted file stays when two deletions follow each other and
  there is no stream at the second. In push mode, turning `diagnostics.workspace` off
  leaves the reports.
- A lone `\r` that an edit joins with or parts from its `\n` leaves wrong line offsets
  (`src/TextDocument.cpp:327`); a range that ends on the line behind the last one
  writes past the offsets (`:330`).
- `SourceMapping` knows only `\n` as the end of a line, `TextDocument` also `\r`.
  Columns behind a plugin's edit of several lines are not followed
  (`src/Plugin/SourceMapping.cpp:236`; `EndsMultiLineEdit`).

**Module resolution.**

- An event marks who requires a module that is known already
  (`src/Workspace.cpp:219-300`). A file that is created, or one that a directory of its
  name hid until that was deleted, may be what a require leads to now, and no module
  hears of it: `outdated`.
- A directory deleted with its `.luaurc` is one event that names no configuration
  file, so the cache stays. A module parsed between the writing of a configuration and
  its event, and every module at a changed configuration (`src/Workspace.cpp:224`),
  keeps its requires: `outdated`.
- The error of a broken `.luaurc` stays when the file is deleted. Errors of
  `.config.luau` are shown in the place of `.luaurc` and hidden by a clean one.
- An edge to a module that is not known is drawn to node 0
  (`src/operations/RequireGraph.cpp:158`).
- Auto imports and completions do not look at `useOriginalRequireByStringSemantics`;
  the extension is also cut off directories; a shorter string that is ambiguous may
  resolve elsewhere (`Unambiguous`). A directory whose name ends like a source file's
  cannot be named (`Nameable`), and what is listed of any name ends at its last dot
  (`src/platform/StringRequireSuggester.cpp:13-19`).
- An alias called `self` hides an init file's own `@self`, which is what is offered
  there (`src/platform/LSPPlatform.cpp:94-108`). An alias that names another one is
  offered where its text leads, as if it named none
  (`src/platform/StringRequireAutoImporter.cpp:24-50`): with a `..` or a second `/` in it
  that may be above a module. An init file in the root resolves nothing
  (`src/platform/LSPPlatform.cpp:149-154`). `LeadsByAliases` leaves out these three.
- Renames miss modules edited since they were parsed, modules not known, `@self` and
  aliases; with several workspaces only the first one's edits are kept.

**Roblox.**

- `@game/ProjectRoot/...` does not resolve when the root is no DataModel; an absolute
  require of a module-project's root names a service that is none
  (`src/platform/roblox/InstanceRequireAutoImporter.cpp:65`), as does one of a module
  directly below `game`.
- What an alias names is resolved on the disk, so from an instance without a file it
  leads nowhere (`RequirePathsResolve` asks for a file).
- A malformed `$/plugin/full` leaves the pointer to the old plugin tree; after the
  plugin was cleared, the written file still has its nodes and brings them back;
  an unmanaged node keeps the plugin's file paths; a deleted `sourcemap.json` leaves
  the old tree when there is no plugin.
- Siblings of one name break the way from file to instance and back, and
  `FindFirstAncestor` of the root's name differs between texts and trees.

**Refactorings and fixes.**

- The function of a `local function` is offered for extraction, and its text is copied
  with keyword and name: `local extracted = function k() ... end` does not parse
  (`src/operations/Refactoring.cpp:319-333`, offered at `:1741-1757`). The model does the
  same, `Parses` says so, and `TextIsAnExpression` leaves it out.
- Extracting a variable from a loop's condition, from the right of `and`, or behind a
  call changes when it is evaluated (`EvaluatedFirst`); an extracted function gets the
  variables it shares by value (`SharesNoAssignment`); an inlined variable is read
  where its parts have changed, and a call is made once per use
  (`InitializerKeepsItsValue`); an inlined function may assign its parameter, index a
  constant, or be a whole statement (`ParametersAreValues`). The name `extracted` is
  not looked up.
- A specifier of a `final` field goes behind `final`, and removing it removes `final`
  (`src/operations/CodeAction.cpp:1142`). What a moved method uses of other traits is
  not expected by the new trait.
- Flipping a guard does not look for an expression that goes on, which the other
  rewrites do (`src/operations/LintFixes.cpp:1094-1096`; `TestStandsAlone`). A rewritten
  guard is continued by a next line that begins with `(` or `-`, and a division at the
  start of a statement begins the line with `(`. All fixes of "Return both values" at
  once interleave the parentheses of two returns in one another. An and-or with a
  falsy middle changes (`MiddlesAreTruthy`), which its rewrite is for.
- The fix of a string built in a loop does not look at the condition of the `repeat`
  whose body declares the string: `until` may read a name that is gone
  (`src/operations/LintFixes.cpp:1226-1229`; `ConditionReadsTheString`).

**References.**

- Renaming an alias also renames the type parameters of that name, and their uses, in
  other declarations (`src/operations/References.cpp:320`). In the workspaces no type
  parameter has the name of an alias in scope.
- An exported alias renamed from a use in its own module leaves the other modules.
  Class renames miss `M.Dog` in other modules and break shorthand keys. A table's
  property that overrides one of `__index` is renamed with it. A rename on a prefix
  renames the type. A trait's expected member that another trait fulfils is not in the
  family. Nobody asks whether the new name is taken.
- `findAllTypeReferences` knows the first import's name only.
- A type parameter with the name of an alias leads to the alias; from a string index
  there is no definition.

**Imports and layouts.**

- Qualifying and removing do not see that a local is the prefix of a type
  (`PrefixesStayBound`); an import of a type alias binds a field that is none; removing
  an unused local removes its siblings and the calls of its value; `_` inside a pattern
  changes the key.
- A list with `->` is split one bracket off (`src/Destructure.cpp:52`;
  `HasParametersAsWritten`); a wrapped list's indentation is taken for the unit and
  grows (`:106`); trait lists do not look for comments
  (`src/operations/CodeAction.cpp:628`), so those of the instance hold none.

**Uris.**

- `/` is no ancestor of anything (`src/Uri.cpp:648`), so ignore globs fail for a
  workspace at the root; a relative path below it is `../a`. `\\server` alone loses its
  name. On Linux a backslash in a name separates, and `/x:...` loses its slash. Hosts
  are lowered by `toString`; other letters than ASCII keep their case.

## 7. Plan

In the order of what is hardest to test:

1. `TextDocument`: that the adjusted line offsets are those of the new text, as a
   theorem about one edit.
2. `Diagnostics` behind the real queue of `LanguageServer`: cancellation of the open
   request by the reader thread.
3. `Destructure`: positional patterns, and where a new require is inserted.
4. `Refactorings`: pattern fields and attributes; the remaining lint fixes.
