--------------------------- MODULE Documents_proofs ---------------------------
(***************************************************************************)
(* Proofs about Documents: types; that what is remembered about documents  *)
(* and what the type checker keeps as clean is what reading would give     *)
(* now; that plugins run what their files hold, and that deleted files are *)
(* no modules.                                                             *)
(***************************************************************************)
EXTENDS Documents, FiniteSetTheorems, TLAPS

-----------------------------------------------------------------------------
(* The operators on the folder keep its type; each changes a few fields.    *)

\* The fields only settings, documents and file events change.
SameSetup(v, w) ==
  /\ v.isReady = w.isReady
  /\ v.settings = w.settings
  /\ v.managedFiles = w.managedFiles
  /\ v.plugins = w.plugins

\* What the plugins make of a text is a source.
LEMMA TransformedIsSource ==
  ASSUME NEW w, FolderOK(w), NEW file, NEW text \in Texts
  PROVE  IsSource(Transformed(w, file, text))
<1> DEFINE S == {s \in DOMAIN w.plugins : ~IsPluginFile(w, file) /\ w.plugins[s] # "failed"}
           by == [s \in S |-> w.plugins[s]]
<1>1. S \subseteq Scripts
  BY DEF FolderOK, IsPartial
<1>2. \A s \in S : w.plugins[s] \in Texts
  BY DEF FolderOK, IsPartial
<1>3. by \in [S -> Texts] /\ DOMAIN by = S
  BY <1>2
<1>4. Transformed(w, file, text) = [text |-> text, by |-> by]
  BY DEF Transformed
<1> HIDE DEF by
<1>5. QED
  BY <1>1, <1>3, <1>4 DEF IsSource, IsPartial

\* Marking modules changes their marks only.
LEMMA MarkDirtyFields ==
  ASSUME NEW w, FolderOK(w), NEW S
  PROVE  /\ FolderOK(MarkDirty(w, S))
         /\ SameSetup(MarkDirty(w, S), w)
         /\ MarkDirty(w, S).dirty = w.dirty \cup (S \cap Modules(w))
         /\ MarkDirty(w, S).sourceNodes = w.sourceNodes
         /\ MarkDirty(w, S).pluginDocuments = w.pluginDocuments
  BY DEF FolderOK, MarkDirty, Modules, SameSetup, IsPartial

\* What reading documents remembers has the type of remembered documents.
LEMMA DocumentsReadType ==
  ASSUME NEW w, FolderOK(w), NEW S,
         NEW file \in DOMAIN DocumentsRead(w, S)
  PROVE  /\ file \in Files
         /\ DocumentsRead(w, S)[file].version \in Nat
         /\ IsSource(DocumentsRead(w, S)[file].source)
<1>1. CASE file \in Remembered(w, S)
  <2>1. file \in Managed(w) /\ file \in Files
    BY <1>1 DEF Remembered, FolderOK, Managed, IsPartial
  <2>2. w.managedFiles[file].version \in Nat /\ w.managedFiles[file].text \in Texts
    BY <2>1 DEF FolderOK, Managed, IsPartial
  <2>3. IsSource(FreshDocument(w, file))
    BY <2>2, TransformedIsSource DEF FreshDocument
  <2>4. DocumentsRead(w, S)[file]
          = [version |-> w.managedFiles[file].version, source |-> FreshDocument(w, file)]
    BY <1>1 DEF DocumentsRead
  <2> QED
    BY <2>1, <2>2, <2>3, <2>4
<1>2. CASE file \notin Remembered(w, S)
  <2>1. file \in DOMAIN w.pluginDocuments
    BY <1>2 DEF DocumentsRead
  <2>2. DocumentsRead(w, S)[file] = w.pluginDocuments[file]
    BY <1>2, <2>1 DEF DocumentsRead
  <2> QED
    BY <2>1, <2>2 DEF FolderOK
<1> QED
  BY <1>1, <1>2

\* Reading documents changes what is remembered only.
LEMMA ReadDocumentsFields ==
  ASSUME NEW w, FolderOK(w), NEW S
  PROVE  /\ FolderOK(ReadDocuments(w, S))
         /\ SameSetup(ReadDocuments(w, S), w)
         /\ ReadDocuments(w, S).dirty = w.dirty
         /\ ReadDocuments(w, S).sourceNodes = w.sourceNodes
         /\ ReadDocuments(w, S).pluginDocuments = DocumentsRead(w, S)
<1> DEFINE docs == DocumentsRead(w, S)
<1>1. ReadDocuments(w, S) = [w EXCEPT !.pluginDocuments = docs]
  BY DEF ReadDocuments
<1>2. \A file \in DOMAIN docs :
        file \in Files /\ docs[file].version \in Nat /\ IsSource(docs[file].source)
  BY DocumentsReadType
<1> HIDE DEF docs
<1>3. FolderOK([w EXCEPT !.pluginDocuments = docs])
  BY <1>2 DEF FolderOK, IsPartial
<1>4. QED
  BY <1>1, <1>3 DEF FolderOK, SameSetup, docs

\* The modules among S that parsing reads.
Read(w, S) ==
  {file \in S : (file \notin Modules(w) \/ file \in w.dirty) /\ IsReadable(w, file)}

\* A file that can be read is read as a source.
LEMMA ReadSourceIsSource ==
  ASSUME TypeOK, NEW w, FolderOK(w), NEW file \in Files, IsReadable(w, file)
  PROVE  IsSource(ReadSource(w, file))
<1>1. CASE file \in Managed(w)
  <2>1. w.managedFiles[file].text \in Texts
    BY <1>1 DEF FolderOK, Managed, IsPartial
  <2>2. IsSource(FreshDocument(w, file))
    BY <2>1, TransformedIsSource DEF FreshDocument
  <2>3. IsSource(GetTextDocument(w, file))
    BY <2>2 DEF GetTextDocument, IsCached, FolderOK
  <2> QED
    BY <1>1, <2>3 DEF ReadSource
<1>2. CASE file \notin Managed(w)
  <2>1. disk[file] \in Texts
    BY <1>2 DEF IsReadable, TypeOK
  <2>2. IsSource(Transformed(w, file, disk[file]))
    BY <2>1, TransformedIsSource
  <2> QED
    BY <1>2, <2>2 DEF ReadSource
<1> QED
  BY <1>1, <1>2

\* Parsing gives the modules it reads their source and clears their mark.
LEMMA ParseFields ==
  ASSUME TypeOK, NEW w, FolderOK(w), NEW S \in SUBSET Files
  PROVE  /\ FolderOK(Parse(w, S))
         /\ SameSetup(Parse(w, S), w)
         /\ Parse(w, S).dirty = w.dirty \ Read(w, S)
         /\ Modules(Parse(w, S)) = Modules(w) \cup Read(w, S)
         /\ \A file \in Read(w, S) : Parse(w, S).sourceNodes[file] = ReadSource(w, file)
         /\ \A file \in Modules(w) \ Read(w, S) :
              Parse(w, S).sourceNodes[file] = w.sourceNodes[file]
         /\ \E T : Parse(w, S).pluginDocuments = DocumentsRead(w, T)
<1> DEFINE stale == {file \in S : file \notin Modules(w) \/ file \in w.dirty}
           docs == DocumentsRead(w, stale)
           R == Read(w, S)
           nodes == [file \in Modules(w) \cup R |->
                       IF file \in R THEN ReadSource(w, file) ELSE w.sourceNodes[file]]
<1>1. {file \in stale : IsReadable(w, file)} = R
  BY DEF Read
<1>2. Parse(w, S) = [w EXCEPT !.pluginDocuments = docs,
                              !.sourceNodes = nodes,
                              !.dirty = @ \ R]
  BY <1>1 DEF Parse
<1>3. \A file \in DOMAIN docs :
        file \in Files /\ docs[file].version \in Nat /\ IsSource(docs[file].source)
  BY DocumentsReadType
<1>4. \A file \in R : IsSource(ReadSource(w, file))
  BY ReadSourceIsSource DEF Read
<1>5. R \subseteq Files /\ Modules(w) \subseteq Files /\ w.dirty \subseteq Modules(w)
  BY DEF Read, FolderOK, Modules
<1>6. DOMAIN nodes = Modules(w) \cup R
  OBVIOUS
<1>7. \A file \in R : nodes[file] = ReadSource(w, file)
  OBVIOUS
<1>8. \A file \in Modules(w) \ R : nodes[file] = w.sourceNodes[file]
  OBVIOUS
<1>9. \A file \in DOMAIN nodes : file \in Files /\ IsSource(nodes[file])
  BY <1>4, <1>5, <1>6, <1>7, <1>8 DEF FolderOK, Modules
<1>10. \E T : docs = DocumentsRead(w, T)
  OBVIOUS
<1> HIDE DEF docs, nodes, R, stale
<1> DEFINE p == [w EXCEPT !.pluginDocuments = docs, !.sourceNodes = nodes, !.dirty = @ \ R]
<1>11. FolderOK(p)
  BY <1>3, <1>5, <1>6, <1>9 DEF FolderOK, IsPartial
<1>12. /\ p.pluginDocuments = docs /\ p.sourceNodes = nodes /\ p.dirty = w.dirty \ R
       /\ SameSetup(p, w)
  BY DEF FolderOK, SameSetup
<1>13. QED
  BY <1>2, <1>6, <1>7, <1>8, <1>10, <1>11, <1>12 DEF Modules, R

\* Clearing modules forgets them and their marks.
LEMMA ClearModulesFields ==
  ASSUME NEW w, FolderOK(w), NEW S
  PROVE  /\ FolderOK(ClearModules(w, S))
         /\ SameSetup(ClearModules(w, S), w)
         /\ ClearModules(w, S).dirty = w.dirty \ S
         /\ Modules(ClearModules(w, S)) = Modules(w) \ S
         /\ \A file \in Modules(w) \ S :
              ClearModules(w, S).sourceNodes[file] = w.sourceNodes[file]
         /\ ClearModules(w, S).pluginDocuments = w.pluginDocuments
<1> DEFINE nodes == Without(w.sourceNodes, S)
<1>1. DOMAIN nodes = Modules(w) \ S /\ \A file \in DOMAIN nodes : nodes[file] = w.sourceNodes[file]
  BY DEF Without, Modules
<1>2. ClearModules(w, S) = [w EXCEPT !.sourceNodes = nodes, !.dirty = @ \ S]
  BY DEF ClearModules
<1> HIDE DEF nodes
<1> DEFINE c == [w EXCEPT !.sourceNodes = nodes, !.dirty = @ \ S]
<1>3. FolderOK(c)
  BY <1>1 DEF FolderOK, Modules, IsPartial
<1>4. c.sourceNodes = nodes /\ c.dirty = w.dirty \ S /\ SameSetup(c, w)
        /\ c.pluginDocuments = w.pluginDocuments
  BY DEF FolderOK, SameSetup
<1>5. QED
  BY <1>1, <1>2, <1>3, <1>4 DEF Modules

\* Looking for external modules changes no module.
LEMMA WatchFields ==
  ASSUME NEW w, FolderOK(w), Cardinality(Modules(w)) \in Nat
  PROVE  /\ FolderOK(WatchExternalModules(w))
         /\ SameSetup(WatchExternalModules(w), w)
         /\ WatchExternalModules(w).dirty = w.dirty
         /\ WatchExternalModules(w).sourceNodes = w.sourceNodes
         /\ WatchExternalModules(w).pluginDocuments = w.pluginDocuments
  BY DEF FolderOK, WatchExternalModules, Modules, SameSetup, IsPartial

\* Checking is parsing, as far as modules are concerned.
LEMMA CheckFields ==
  ASSUME TypeOK, NEW w, FolderOK(w), NEW S \in SUBSET Files
  PROVE  /\ FolderOK(Check(w, S))
         /\ SameSetup(Check(w, S), w)
         /\ Check(w, S).dirty = Parse(w, S).dirty
         /\ Check(w, S).sourceNodes = Parse(w, S).sourceNodes
         /\ Check(w, S).pluginDocuments = Parse(w, S).pluginDocuments
<1>1. FolderOK(Parse(w, S)) /\ SameSetup(Parse(w, S), w)
  BY ParseFields
<1>2. Modules(Parse(w, S)) \subseteq Files
  BY <1>1 DEF FolderOK, Modules
<1>3. Cardinality(Modules(Parse(w, S))) \in Nat
  BY <1>2, DocumentsAssumption, FS_Subset, FS_CardinalityType
<1>4. QED
  BY <1>1, <1>3, WatchFields DEF Check, SameSetup

LEMMA PushType ==
  ASSUME TypeOK, NEW w, FolderOK(w), NEW S \in SUBSET Files
  PROVE  FolderOK(Push(w, S)) /\ SameSetup(Push(w, S), w)
  BY CheckFields DEF Push, SameSetup

LEMMA RecomputeType ==
  ASSUME TypeOK, NEW w, FolderOK(w), NEW required \in SUBSET Files
  PROVE  /\ FolderOK(RecomputeDiagnostics(w, required))
         /\ SameSetup(RecomputeDiagnostics(w, required), w)
<1>1. WithRequired(Managed(w), required) \in SUBSET Files
  BY DEF WithRequired, Managed, FolderOK, IsPartial
<1>2. QED
  BY <1>1, PushType DEF RecomputeDiagnostics

LEMMA MarkDependentsType ==
  ASSUME NEW w, FolderOK(w), NEW file, NEW dependents
  PROVE  /\ FolderOK(MarkDirtyWithDependents(w, file, dependents))
         /\ SameSetup(MarkDirtyWithDependents(w, file, dependents), w)
  BY MarkDirtyFields DEF MarkDirtyWithDependents

\* What the settings configure is a list of plugins.
LEMMA ConfiguredType ==
  ASSUME TypeOK, NEW settings \in Settings
  PROVE  IsPartial(Configured(settings), Scripts, Texts \cup {"failed"})
<1>1. \A s \in Scripts : Load(s) \in Texts \cup {"failed"}
  BY DocumentsAssumption DEF Load
<1>2. QED
  BY <1>1 DEF Configured, IsPartial

\* The folder with other plugins and no remembered documents.
Plugged(w, settings, plugins) ==
  [w EXCEPT !.settings = settings, !.plugins = plugins, !.pluginDocuments = Nothing]

LEMMA PluggedFields ==
  ASSUME NEW w, FolderOK(w), NEW settings \in Settings,
         NEW plugins, IsPartial(plugins, Scripts, Texts \cup {"failed"})
  PROVE  /\ FolderOK(Plugged(w, settings, plugins))
         /\ Plugged(w, settings, plugins).isReady = w.isReady
         /\ Plugged(w, settings, plugins).settings = settings
         /\ Plugged(w, settings, plugins).managedFiles = w.managedFiles
         /\ Plugged(w, settings, plugins).plugins = plugins
         /\ Plugged(w, settings, plugins).pluginDocuments = Nothing
         /\ Plugged(w, settings, plugins).sourceNodes = w.sourceNodes
         /\ Plugged(w, settings, plugins).dirty = w.dirty
<1>1. DOMAIN Nothing = {}
  BY DEF Nothing
<1>2. QED
  BY <1>1 DEF FolderOK, Plugged, IsPartial

\* The folder before its files are indexed.
Helped(w, settings) ==
  IF w.settings.showHelp # settings.showHelp THEN MarkAllDirty(w) ELSE w

LEMMA HelpedFields ==
  ASSUME NEW w, FolderOK(w), NEW settings
  PROVE  /\ FolderOK(Helped(w, settings))
         /\ SameSetup(Helped(w, settings), w)
         /\ Helped(w, settings).sourceNodes = w.sourceNodes
         /\ Helped(w, settings).pluginDocuments = w.pluginDocuments
         /\ w.dirty \subseteq Helped(w, settings).dirty
  BY MarkDirtyFields DEF Helped, MarkAllDirty, SameSetup

\* Setting a folder up: plugging in, then possibly parsing.
LEMMA SetupSteps ==
  ASSUME TypeOK, NEW w, NEW settings \in Settings, NEW required \in SUBSET Files
  PROVE  LET plugged == Plugged(Helped(w, settings), settings, Configured(settings))
         IN \/ SetupWithConfiguration(w, settings, required) = plugged
            \/ \E S \in SUBSET Files :
                 SetupWithConfiguration(w, settings, required) = Parse(plugged, S)
<1> DEFINE S == WithRequired({file \in Files \ External : disk[file] # "absent"}, required)
<1>1. S \in SUBSET Files
  BY DEF WithRequired
<1>2. QED
  BY <1>1 DEF SetupWithConfiguration, Plugged, Helped

LEMMA SetupType ==
  ASSUME TypeOK, NEW w, FolderOK(w), NEW settings \in Settings,
         NEW required \in SUBSET Files
  PROVE  /\ FolderOK(SetupWithConfiguration(w, settings, required))
         /\ SetupWithConfiguration(w, settings, required).isReady = w.isReady
         /\ SetupWithConfiguration(w, settings, required).managedFiles = w.managedFiles
         /\ SetupWithConfiguration(w, settings, required).plugins = Configured(settings)
<1> DEFINE helped == Helped(w, settings)
           plugged == Plugged(helped, settings, Configured(settings))
<1>1. FolderOK(helped) /\ SameSetup(helped, w)
  BY HelpedFields
<1>2. IsPartial(Configured(settings), Scripts, Texts \cup {"failed"})
  BY ConfiguredType
<1>3. /\ FolderOK(plugged) /\ plugged.isReady = w.isReady
      /\ plugged.managedFiles = w.managedFiles /\ plugged.plugins = Configured(settings)
  BY <1>1, <1>2, PluggedFields DEF SameSetup
<1> HIDE DEF plugged
<1>4. \A S \in SUBSET Files : FolderOK(Parse(plugged, S)) /\ SameSetup(Parse(plugged, S), plugged)
  BY <1>3, ParseFields
<1>5. QED
  BY <1>3, <1>4, SetupSteps DEF SameSetup, plugged

\* The plugins of w, loaded again.
Reloaded(w) == [script \in DOMAIN w.plugins |-> Load(script)]

LEMMA ReloadFields ==
  ASSUME TypeOK, NEW w, FolderOK(w)
  PROVE  /\ FolderOK(ReloadPlugins(w))
         /\ ReloadPlugins(w).isReady = w.isReady
         /\ ReloadPlugins(w).settings = w.settings
         /\ ReloadPlugins(w).managedFiles = w.managedFiles
         /\ ReloadPlugins(w).plugins = Reloaded(w)
         /\ ReloadPlugins(w).pluginDocuments = Nothing
         /\ ReloadPlugins(w).sourceNodes = w.sourceNodes
         /\ ReloadPlugins(w).dirty = Modules(w)
<1> DEFINE r == [w EXCEPT !.plugins = Reloaded(w), !.pluginDocuments = Nothing]
<1>1. IsPartial(Reloaded(w), Scripts, Texts \cup {"failed"})
  <2>1. \A s \in Scripts : Load(s) \in Texts \cup {"failed"}
    BY DocumentsAssumption DEF Load
  <2> QED
    BY <2>1 DEF Reloaded, IsPartial, FolderOK
<1>2. DOMAIN Nothing = {}
  BY DEF Nothing
<1>3. FolderOK(r)
  BY <1>1, <1>2 DEF FolderOK, IsPartial
<1>4. /\ r.isReady = w.isReady /\ r.settings = w.settings /\ r.managedFiles = w.managedFiles
      /\ r.plugins = Reloaded(w) /\ r.pluginDocuments = Nothing
      /\ r.sourceNodes = w.sourceNodes /\ r.dirty = w.dirty
  BY DEF FolderOK
<1>5. ReloadPlugins(w) = MarkDirty(r, Modules(r))
  BY DEF ReloadPlugins, MarkAllDirty, Reloaded
<1>6. Modules(r) = Modules(w) /\ r.dirty \subseteq Modules(w)
  BY <1>3, <1>4 DEF Modules, FolderOK
<1> HIDE DEF r
<1>7. MarkDirty(r, Modules(r)).dirty = Modules(w)
  <2>1. MarkDirty(r, Modules(r)).dirty = r.dirty \cup (Modules(r) \cap Modules(r))
    BY <1>3, MarkDirtyFields
  <2> QED
    BY <2>1, <1>6
<1>8. QED
  BY <1>3, <1>4, <1>5, <1>7, MarkDirtyFields DEF SameSetup

\* A folder with one more, or one other, document.
WithDocument(w, file, document) ==
  [w EXCEPT !.managedFiles =
     [f \in DOMAIN @ \cup {file} |-> IF f = file THEN document ELSE @[f]]]

LEMMA WithDocumentFields ==
  ASSUME NEW w, FolderOK(w), NEW file \in Files,
         NEW document \in [version : Nat, text : Texts]
  PROVE  /\ FolderOK(WithDocument(w, file, document))
         /\ WithDocument(w, file, document).isReady = w.isReady
         /\ WithDocument(w, file, document).plugins = w.plugins
         /\ WithDocument(w, file, document).sourceNodes = w.sourceNodes
         /\ WithDocument(w, file, document).dirty = w.dirty
         /\ WithDocument(w, file, document).pluginDocuments = w.pluginDocuments
         /\ Managed(WithDocument(w, file, document)) = Managed(w) \cup {file}
         /\ WithDocument(w, file, document).managedFiles[file] = document
         /\ \A f \in Managed(w) \ {file} :
              WithDocument(w, file, document).managedFiles[f] = w.managedFiles[f]
<1> DEFINE managed == [f \in Managed(w) \cup {file} |->
                         IF f = file THEN document ELSE w.managedFiles[f]]
           v == [w EXCEPT !.managedFiles = managed]
<1>1. WithDocument(w, file, document) = v
  BY DEF WithDocument, Managed
<1>2. IsPartial(managed, Files, [version : Nat, text : Texts])
  <2>1. \A f \in Managed(w) : w.managedFiles[f] \in [version : Nat, text : Texts]
    BY DEF FolderOK, Managed, IsPartial
  <2>2. Managed(w) \subseteq Files
    BY DEF FolderOK, Managed, IsPartial
  <2> QED
    BY <2>1, <2>2 DEF IsPartial
<1>3. /\ DOMAIN managed = Managed(w) \cup {file} /\ managed[file] = document
      /\ \A f \in Managed(w) \ {file} : managed[f] = w.managedFiles[f]
  OBVIOUS
<1> HIDE DEF managed
<1>4. FolderOK(v)
  BY <1>2 DEF FolderOK
<1>5. v.managedFiles = managed /\ v.isReady = w.isReady /\ v.plugins = w.plugins
        /\ v.sourceNodes = w.sourceNodes /\ v.dirty = w.dirty
        /\ v.pluginDocuments = w.pluginDocuments
  BY DEF FolderOK
<1>6. QED
  BY <1>1, <1>3, <1>4, <1>5 DEF Managed

\* A folder that remembers nothing about a document.
Forgetting(w, file) == [w EXCEPT !.pluginDocuments = Without(@, {file})]

LEMMA ForgettingFields ==
  ASSUME NEW w, FolderOK(w), NEW file
  PROVE  /\ FolderOK(Forgetting(w, file))
         /\ SameSetup(Forgetting(w, file), w)
         /\ Forgetting(w, file).sourceNodes = w.sourceNodes
         /\ Forgetting(w, file).dirty = w.dirty
         /\ Forgetting(w, file).pluginDocuments = Without(w.pluginDocuments, {file})
<1> DEFINE docs == Without(w.pluginDocuments, {file})
<1>1. DOMAIN docs = DOMAIN w.pluginDocuments \ {file}
        /\ \A f \in DOMAIN docs : docs[f] = w.pluginDocuments[f]
  BY DEF Without
<1>2. Forgetting(w, file) = [w EXCEPT !.pluginDocuments = docs]
  BY DEF Forgetting
<1> HIDE DEF docs
<1>3. FolderOK([w EXCEPT !.pluginDocuments = docs])
  BY <1>1 DEF FolderOK, IsPartial
<1>4. QED
  BY <1>2, <1>3 DEF FolderOK, SameSetup, docs

\* An update is another document of which nothing is remembered.
LEMMA UpdateIsWithDocument ==
  ASSUME NEW w, FolderOK(w), NEW file \in Managed(w), NEW document
  PROVE  [w EXCEPT !.managedFiles[file] = document, !.pluginDocuments = Without(@, {file})]
           = Forgetting(WithDocument(w, file, document), file)
<1>1. [w.managedFiles EXCEPT ![file] = document]
        = [f \in DOMAIN w.managedFiles \cup {file} |->
             IF f = file THEN document ELSE w.managedFiles[f]]
  BY DEF Managed
<1>2. QED
  BY <1>1 DEF Forgetting, WithDocument, FolderOK

\* A folder without a document.
Closing(w, file) == [w EXCEPT !.managedFiles = Without(@, {file})]

LEMMA ClosingFields ==
  ASSUME NEW w, FolderOK(w), NEW file
  PROVE  /\ FolderOK(Closing(w, file))
         /\ Closing(w, file).isReady = w.isReady
         /\ Closing(w, file).plugins = w.plugins
         /\ Closing(w, file).sourceNodes = w.sourceNodes
         /\ Closing(w, file).dirty = w.dirty
         /\ Closing(w, file).pluginDocuments = w.pluginDocuments
         /\ Managed(Closing(w, file)) = Managed(w) \ {file}
         /\ \A f \in Managed(w) \ {file} : Closing(w, file).managedFiles[f] = w.managedFiles[f]
<1> DEFINE managed == Without(w.managedFiles, {file})
<1>1. DOMAIN managed = Managed(w) \ {file}
        /\ \A f \in DOMAIN managed : managed[f] = w.managedFiles[f]
  BY DEF Without, Managed
<1>2. IsPartial(managed, Files, [version : Nat, text : Texts])
  <2>1. managed = [f \in DOMAIN managed |-> managed[f]]
    BY DEF Without
  <2>2. \A f \in DOMAIN managed : f \in Files /\ managed[f] \in [version : Nat, text : Texts]
    BY <1>1 DEF FolderOK, Managed, IsPartial
  <2> HIDE DEF managed
  <2> QED
    BY <2>1, <2>2 DEF IsPartial
<1>3. Closing(w, file) = [w EXCEPT !.managedFiles = managed]
  BY DEF Closing
<1> HIDE DEF managed
<1>4. FolderOK([w EXCEPT !.managedFiles = managed])
  BY <1>2 DEF FolderOK
<1>5. QED
  BY <1>1, <1>3, <1>4 DEF FolderOK, Managed

-----------------------------------------------------------------------------
(* Type correctness.                                                        *)

\* A version the client gives is a number.
LEMMA NextVersionType ==
  ASSUME TypeOK, NEW file
  PROVE  NextVersion(file) \in Nat
<1>1. edits + 1 \in Nat
  BY DocumentsAssumption DEF TypeOK
<1>2. ASSUME file \in Managed(folder)
      PROVE  folder.managedFiles[file].version + 1 \in Nat
  BY <1>2 DEF TypeOK, FolderOK, Managed, IsPartial
<1>3. QED
  BY <1>1, <1>2 DEF NextVersion

LEMMA RequestType ==
  ASSUME TypeOK, NEW file \in Files, NEW again, NEW required \in SUBSET Files,
         Request(file, again, required) \/ ParseRequest(file, required)
  PROVE  FolderOK(folder')
<1> DEFINE read == ReadDocuments(folder, {file})
           marked == MarkDirty(read, again)
<1>1. FolderOK(read)
  BY ReadDocumentsFields DEF TypeOK
<1>2. FolderOK(marked)
  BY <1>1, MarkDirtyFields
<1>3. {file} \cup required \in SUBSET Files
  OBVIOUS
<1>4. FolderOK(Check(marked, {file} \cup required))
  BY <1>2, <1>3, CheckFields
<1>5. FolderOK(Parse(read, {file} \cup required))
  BY <1>1, <1>3, ParseFields
<1>6. QED
  BY <1>4, <1>5 DEF Request, ParseRequest

LEMMA OpenType ==
  ASSUME TypeOK, NEW file \in Files, NEW text \in Texts, NEW dependents,
         NEW required \in SUBSET Files, OpenTextDocument(file, text, dependents, required)
  PROVE  FolderOK(folder')
<1> DEFINE document == [version |-> NextVersion(file), text |-> text]
           opened == WithDocument(folder, file, document)
           marked == MarkDirtyWithDependents(opened, file, dependents)
<1>1. document \in [version : Nat, text : Texts]
  BY NextVersionType
<1>2. FolderOK(opened)
  BY <1>1, WithDocumentFields DEF TypeOK
<1>3. FolderOK(marked)
  BY <1>2, MarkDependentsType
<1>4. FolderOK(Push(marked, {file} \cup required))
  BY <1>3, PushType
<1>5. QED
  BY <1>4 DEF OpenTextDocument, WithDocument

LEMMA UpdateType ==
  ASSUME TypeOK, NEW file \in Files, NEW text \in Texts, NEW dependents \in SUBSET Files,
         NEW required \in SUBSET Files, UpdateTextDocument(file, text, dependents, required)
  PROVE  FolderOK(folder')
<1> DEFINE document == [version |-> NextVersion(file), text |-> text]
           updated == Forgetting(WithDocument(folder, file, document), file)
           marked == MarkDirtyWithDependents(updated, file, dependents)
<1>1. document \in [version : Nat, text : Texts]
  BY NextVersionType
<1>2. FolderOK(updated)
  BY <1>1, WithDocumentFields, ForgettingFields DEF TypeOK
<1>3. FolderOK(marked)
  BY <1>2, MarkDependentsType
<1>4. file \in Managed(folder)
  BY DEF UpdateTextDocument
<1>5. [folder EXCEPT !.managedFiles[file] = document,
                     !.pluginDocuments = Without(@, {file})] = updated
  BY <1>4, UpdateIsWithDocument DEF TypeOK
<1>6. PICK included \in {{}, Marked(updated, file, dependents)} :
        folder' = Push(marked, {file} \cup required \cup included)
  BY <1>5 DEF UpdateTextDocument
<1>7. {file} \cup required \cup included \in SUBSET Files
  BY DEF Marked
<1>8. QED
  BY <1>3, <1>6, <1>7, PushType

LEMMA CloseType ==
  ASSUME TypeOK, NEW file, NEW dependents, CloseTextDocument(file, dependents)
  PROVE  FolderOK(folder')
<1>1. FolderOK(Closing(folder, file))
  BY ClosingFields DEF TypeOK
<1>2. FolderOK(MarkDirtyWithDependents(Closing(folder, file), file, dependents))
  BY <1>1, MarkDependentsType
<1>3. QED
  BY <1>2 DEF CloseTextDocument, Closing

LEMMA InitializeType ==
  ASSUME TypeOK, NEW settings \in Settings, NEW required \in SUBSET Files,
         LazyInitialize(settings, required)
  PROVE  FolderOK(folder')
<1> DEFINE set == SetupWithConfiguration(folder, settings, required)
<1>1. FolderOK(set)
  BY SetupType DEF TypeOK
<1> HIDE DEF set
<1>2. FolderOK([set EXCEPT !.isReady = TRUE])
  BY <1>1 DEF FolderOK, IsPartial
<1>3. QED
  BY <1>2 DEF LazyInitialize, set

LEMMA ChangeConfigurationType ==
  ASSUME TypeOK, NEW settings \in Settings, NEW required \in SUBSET Files,
         ChangeConfiguration(settings, required)
  PROVE  FolderOK(folder')
<1>1. FolderOK(SetupWithConfiguration(folder, settings, required))
  BY SetupType DEF TypeOK
<1>2. QED
  BY <1>1, RecomputeType DEF ChangeConfiguration

(* Handling file events, in stages.                                         *)

Known(w) == Touched(w) \cap Modules(w)
Looked(w) == ReadDocuments(w, {changes[i].uri : i \in DOMAIN changes} \cap Modules(w))
LookedAndMarked(w, S) == MarkDirty(Looked(w), S)
PossiblyReloaded(w, S) ==
  IF PluginFileChanged(w) THEN ReloadPlugins(LookedAndMarked(w, S)) ELSE LookedAndMarked(w, S)
Cleared(w, S) == ClearModules(PossiblyReloaded(w, S), DeletedModules(w))

LEMMA RecomputeSteps ==
  ASSUME NEW w, FolderOK(w), NEW required \in SUBSET Files
  PROVE  \/ RecomputeDiagnostics(w, required) = w
         \/ \E S \in SUBSET Files : RecomputeDiagnostics(w, required) = Check(w, S)
<1>1. WithRequired(Managed(w), required) \in SUBSET Files
  BY DEF WithRequired, Managed, FolderOK, IsPartial
<1>2. QED
  BY <1>1 DEF RecomputeDiagnostics, Push

LEMMA ClearedFields ==
  ASSUME TypeOK, NEW w, FolderOK(w), NEW S
  PROVE  /\ FolderOK(LookedAndMarked(w, S))
         /\ FolderOK(PossiblyReloaded(w, S))
         /\ FolderOK(Cleared(w, S))
         /\ Cleared(w, S).isReady = w.isReady
         /\ Cleared(w, S).managedFiles = w.managedFiles
<1>1. FolderOK(Looked(w)) /\ SameSetup(Looked(w), w)
  BY ReadDocumentsFields DEF Looked
<1>2. FolderOK(LookedAndMarked(w, S)) /\ SameSetup(LookedAndMarked(w, S), w)
  BY <1>1, MarkDirtyFields DEF LookedAndMarked, SameSetup
<1>3. /\ FolderOK(PossiblyReloaded(w, S))
      /\ PossiblyReloaded(w, S).isReady = w.isReady
      /\ PossiblyReloaded(w, S).managedFiles = w.managedFiles
  BY <1>2, ReloadFields DEF PossiblyReloaded, SameSetup
<1>4. QED
  BY <1>2, <1>3, ClearModulesFields DEF Cleared, SameSetup

\* The handler looks, marks what the events concern, reloads, clears, and may
\* then parse and check.
LEMMA WatchSteps ==
  ASSUME TypeOK, NEW dependents \in SUBSET Files, NEW required \in SUBSET Files,
         OnDidChangeWatchedFiles(dependents, required)
  PROVE  \E D \in SUBSET Files : \E indexed :
           /\ Known(folder) \subseteq D
           /\ \/ indexed = Cleared(folder, D)
              \/ \E S \in SUBSET Files : indexed = Parse(Cleared(folder, D), S)
           /\ folder' = indexed \/ \E S \in SUBSET Files : folder' = Check(indexed, S)
<1> DEFINE D == Known(folder) \cup (dependents \cap Modules(folder))
           S == WithRequired(D \ DeletedModules(folder), required)
           indexed == IF folder.settings.index THEN Parse(Cleared(folder, D), S)
                      ELSE Cleared(folder, D)
<1>1. D \in SUBSET Files
  BY DEF Known, Touched
<1>2. S \in SUBSET Files
  BY <1>1 DEF WithRequired
<1>3. FolderOK(Cleared(folder, D))
  BY ClearedFields DEF TypeOK
<1>4. FolderOK(Parse(Cleared(folder, D), S))
  BY <1>2, <1>3, ParseFields
<1>5. FolderOK(indexed)
  BY <1>3, <1>4
<1>6. folder' = IF RefreshDiagnostics(folder)
                THEN RecomputeDiagnostics(indexed, required) ELSE indexed
  BY DEF OnDidChangeWatchedFiles, Known, Looked, LookedAndMarked, PossiblyReloaded, Cleared
<1>7. \/ indexed = Cleared(folder, D)
      \/ \E T \in SUBSET Files : indexed = Parse(Cleared(folder, D), T)
  BY <1>2
<1> HIDE DEF indexed
<1>8. folder' = indexed \/ \E T \in SUBSET Files : folder' = Check(indexed, T)
  BY <1>5, <1>6, RecomputeSteps
<1>9. Known(folder) \subseteq D
  OBVIOUS
<1> HIDE DEF D
<1>10. QED
  BY <1>1, <1>7, <1>8, <1>9

LEMMA WatchType ==
  ASSUME TypeOK, NEW dependents \in SUBSET Files, NEW required \in SUBSET Files,
         OnDidChangeWatchedFiles(dependents, required)
  PROVE  FolderOK(folder')
<1>1. PICK D \in SUBSET Files : \E indexed :
           /\ Known(folder) \subseteq D
           /\ \/ indexed = Cleared(folder, D)
              \/ \E S \in SUBSET Files : indexed = Parse(Cleared(folder, D), S)
           /\ folder' = indexed \/ \E S \in SUBSET Files : folder' = Check(indexed, S)
  BY WatchSteps
<1>2. PICK indexed :
           /\ \/ indexed = Cleared(folder, D)
              \/ \E S \in SUBSET Files : indexed = Parse(Cleared(folder, D), S)
           /\ folder' = indexed \/ \E S \in SUBSET Files : folder' = Check(indexed, S)
  BY <1>1
<1>3. FolderOK(Cleared(folder, D))
  BY ClearedFields DEF TypeOK
<1>4. FolderOK(indexed)
  BY <1>2, <1>3, ParseFields
<1>5. QED
  BY <1>2, <1>4, CheckFields

\* A reported event is an event.
LEMMA ReportType ==
  ASSUME TypeOK, NEW uri \in Files \cup {Directory},
         NEW type \in {"Created", "Changed", "Deleted"}, Report(uri, type)
  PROVE  changes' \in Seq(Events)
<1>1. [uri |-> uri, type |-> type] \in Events
  BY DEF Events
<1>2. QED
  BY <1>1 DEF Report, TypeOK

\* Documents, the disk and the type checker's modules keep their types.
THEOREM DocumentsTypeCorrect == Spec => []TypeOK
<1>1. Init => TypeOK
  <2> SUFFICES ASSUME Init PROVE TypeOK
    OBVIOUS
  <2>1. DOMAIN Nothing = {}
    BY DEF Nothing
  <2>2. InitialSettings \in Settings
    BY DEF Settings
  <2>3. IsPartial(Nothing, Files, [version : Nat, text : Texts])
          /\ IsPartial(Nothing, Scripts, Texts \cup {"failed"})
    BY <2>1 DEF Nothing, IsPartial
  <2>4. FolderOK(folder)
    BY <2>1, <2>2, <2>3 DEF Init, FolderOK
  <2>5. disk \in [Files -> Texts \cup {"absent"}] /\ 0 \in 0..MaxEdits
    BY DocumentsAssumption DEF Init
  <2> QED
    BY <2>4, <2>5 DEF Init, TypeOK
<1>2. TypeOK /\ [Next]_vars => TypeOK'
  <2> SUFFICES ASSUME TypeOK, [Next]_vars PROVE TypeOK'
    OBVIOUS
  <2> DEFINE Rest == /\ disk' \in [Files -> Texts \cup {"absent"}]
                     /\ changes' \in Seq(Events)
                     /\ edits' \in 0..MaxEdits
                     /\ pull' \in BOOLEAN
  <2>1. ASSUME FolderOK(folder'), Rest PROVE TypeOK'
    BY <2>1 DEF TypeOK, FolderOK, IsSource, IsPartial, Settings, Events
  <2>2. Edit => edits' \in 0..MaxEdits
    BY DocumentsAssumption DEF Edit, TypeOK
  <2>3. ASSUME NEW file \in Files, NEW text \in Texts, WriteFile(file, text) PROVE TypeOK'
    <3>1. changes' \in Seq(Events)
      BY <2>3, ReportType DEF WriteFile
    <3>2. disk' \in [Files -> Texts \cup {"absent"}]
      BY <2>3 DEF WriteFile, TypeOK
    <3> QED
      BY <2>1, <2>2, <2>3, <3>1, <3>2 DEF WriteFile, TypeOK
  <2>4. ASSUME NEW file \in Files, DeleteFile(file) PROVE TypeOK'
    <3>1. changes' \in Seq(Events)
      BY <2>4, ReportType DEF DeleteFile
    <3>2. disk' \in [Files -> Texts \cup {"absent"}]
      BY <2>4 DEF DeleteFile, TypeOK
    <3> QED
      BY <2>1, <2>2, <2>4, <3>1, <3>2 DEF DeleteFile, TypeOK
  <2>5. CASE DeleteDirectory
    <3>1. changes' \in Seq(Events)
      BY <2>5, ReportType DEF DeleteDirectory
    <3>2. disk' \in [Files -> Texts \cup {"absent"}]
      BY <2>5 DEF DeleteDirectory, TypeOK
    <3> QED
      BY <2>1, <2>2, <2>5, <3>1, <3>2 DEF DeleteDirectory, TypeOK
  <2>6. ASSUME NEW file \in Files, NEW again, NEW required \in SUBSET Files,
               Request(file, again, required) \/ ParseRequest(file, required)
        PROVE  TypeOK'
    BY <2>1, <2>6, RequestType DEF Request, ParseRequest, TypeOK
  <2>7. ASSUME NEW file \in Files, NEW text \in Texts, NEW dependents \in SUBSET Files,
               NEW required \in SUBSET Files,
               \/ OpenTextDocument(file, text, dependents, required)
               \/ UpdateTextDocument(file, text, dependents, required)
        PROVE  TypeOK'
    <3>1. FolderOK(folder')
      BY <2>7, OpenType, UpdateType
    <3>2. Rest
      BY <2>2, <2>7 DEF OpenTextDocument, UpdateTextDocument, TypeOK
    <3> QED
      BY <2>1, <3>1, <3>2
  <2>8. ASSUME NEW file \in Files, NEW dependents, CloseTextDocument(file, dependents)
        PROVE  TypeOK'
    BY <2>1, <2>8, CloseType DEF CloseTextDocument, TypeOK
  <2>9. ASSUME NEW settings \in Settings, NEW required \in SUBSET Files,
               LazyInitialize(settings, required) \/ ChangeConfiguration(settings, required)
        PROVE  TypeOK'
    <3>1. FolderOK(folder')
      BY <2>9, InitializeType, ChangeConfigurationType
    <3> QED
      BY <2>1, <2>9, <3>1 DEF LazyInitialize, ChangeConfiguration, TypeOK
  <2>10. ASSUME NEW dependents \in SUBSET Files, NEW required \in SUBSET Files,
                OnDidChangeWatchedFiles(dependents, required)
         PROVE  TypeOK'
    <3>1. FolderOK(folder')
      BY <2>10, WatchType
    <3>2. <<>> \in Seq(Events)
      OBVIOUS
    <3> QED
      BY <2>1, <2>10, <3>1, <3>2 DEF OnDidChangeWatchedFiles, TypeOK
  <2>11. CASE IgnoreWatchedFiles
    <3>1. <<>> \in Seq(Events)
      OBVIOUS
    <3> QED
      BY <2>1, <2>11, <3>1 DEF IgnoreWatchedFiles, TypeOK
  <2>12. CASE UNCHANGED vars
    BY <2>1, <2>12 DEF vars, TypeOK
  <2>13. \A file \in Files : Dependents(file) \subseteq Files /\ Requires[file] \subseteq Files
    BY DocumentsAssumption DEF Dependents
  <2>14. Required \subseteq Files /\ UserSettings \subseteq Settings
    BY DocumentsAssumption DEF Required, Settings
  <2>15. Client => TypeOK'
    BY <2>3, <2>4, <2>5 DEF Client
  <2>16. Server => TypeOK'
    <3>1. ASSUME NEW file \in Files, NEW dependents \in SUBSET Dependents(file),
                 NEW required \in SUBSET Requires[file],
                 \/ ParseRequest(file, required)
                 \/ Request(file, {}, required)
                 \/ Request(file, {file} \cup dependents, required)
                 \/ \E text \in Texts :
                      \/ OpenTextDocument(file, text, dependents, required)
                      \/ UpdateTextDocument(file, text, dependents, required)
                 \/ CloseTextDocument(file, dependents)
          PROVE  TypeOK'
      <4>1. dependents \in SUBSET Files /\ required \in SUBSET Files
        BY <2>13
      <4> QED
        BY <2>6, <2>7, <2>8, <3>1, <4>1
    <3>2. ASSUME NEW settings \in UserSettings, NEW required \in SUBSET Required,
                 LazyInitialize(settings, required) \/ ChangeConfiguration(settings, required)
          PROVE  TypeOK'
      <4>1. settings \in Settings /\ required \in SUBSET Files
        BY <2>14
      <4> QED
        BY <2>9, <3>2, <4>1
    <3>3. ASSUME NEW dependents \in SUBSET Files, NEW required \in SUBSET Required,
                 OnDidChangeWatchedFiles(dependents, required)
          PROVE  TypeOK'
      <4>1. required \in SUBSET Files
        BY <2>14
      <4> QED
        BY <2>10, <3>3, <4>1
    <3> QED
      BY <2>11, <3>1, <3>2, <3>3 DEF Server
  <2> QED
    BY <2>12, <2>15, <2>16 DEF Next
<1>3. QED
  BY <1>1, <1>2, PTL DEF Spec

-----------------------------------------------------------------------------
(* The inductive invariant, as a property of a folder w, a disk d, the number n  *)
(* of edits so far and a set S of files whose change is yet to be reported.  *)

\* What reading a file gives, nothing being remembered.
FreshSource(w, d, file) ==
  IF file \in Managed(w) THEN FreshDocument(w, file)
  ELSE Transformed(w, file, d[file])

\* With the disk d, a file can be read.
Readable(w, d, file) == file \in Managed(w) \/ d[file] # "absent"

\* No version is from the future, so the next one is new.
Versions(w, n) ==
  /\ \A file \in Managed(w) : w.managedFiles[file].version <= n
  /\ \A file \in DOMAIN w.pluginDocuments : w.pluginDocuments[file].version <= n

Remembering(w) ==
  \A file \in Managed(w) :
    HasPlugins(w) /\ IsCached(w, file) =>
      w.pluginDocuments[file].source = FreshDocument(w, file)

Current(w, d, S) ==
  \A file \in Modules(w) \ w.dirty :
    file \notin S => Readable(w, d, file) /\ w.sourceNodes[file] = FreshSource(w, d, file)

Good(w, d, n, S) == Versions(w, n) /\ Remembering(w) /\ Current(w, d, S)

\* Fresh sources depend on the plugins and the documents only.
LEMMA SameFresh ==
  ASSUME NEW v, NEW d, NEW w, v.plugins = w.plugins, v.managedFiles = w.managedFiles
  PROVE  /\ HasPlugins(v) <=> HasPlugins(w)
         /\ Managed(v) = Managed(w)
         /\ \A file : /\ FreshDocument(v, file) = FreshDocument(w, file)
                      /\ FreshSource(v, d, file) = FreshSource(w, d, file)
                      /\ Readable(v, d, file) <=> Readable(w, d, file)
<1>1. Managed(v) = Managed(w) /\ (HasPlugins(v) <=> HasPlugins(w))
  BY DEF Managed, HasPlugins
<1>2. \A file, text : Transformed(v, file, text) = Transformed(w, file, text)
  BY DEF Transformed, IsPluginFile
<1>3. \A file : FreshDocument(v, file) = FreshDocument(w, file)
  BY <1>2 DEF FreshDocument
<1>4. QED
  BY <1>1, <1>2, <1>3 DEF FreshSource, Readable

\* While what is remembered is right, reading gives fresh sources.
LEMMA ReadSourceIsFresh ==
  ASSUME NEW w, Remembering(w), NEW file
  PROVE  ReadSource(w, file) = FreshSource(w, disk, file)
  BY DEF ReadSource, FreshSource, GetTextDocument, Remembering

\* Remembering what was read keeps it right.
LEMMA DocumentsReadGood ==
  ASSUME NEW w, FolderOK(w), NEW n \in Nat, Versions(w, n), Remembering(w),
         NEW v, v.plugins = w.plugins, v.managedFiles = w.managedFiles,
         NEW T, v.pluginDocuments = DocumentsRead(w, T)
  PROVE  Versions(v, n) /\ Remembering(v)
<1> DEFINE docs == DocumentsRead(w, T)
<1>1. DOMAIN docs = DOMAIN w.pluginDocuments \cup Remembered(w, T)
  BY DEF DocumentsRead
<1>2. \A file \in Remembered(w, T) :
        /\ docs[file].version = w.managedFiles[file].version
        /\ docs[file].source = FreshDocument(w, file)
  BY DEF DocumentsRead
<1>3. \A file \in DOMAIN docs : file \notin Remembered(w, T) => docs[file] = w.pluginDocuments[file]
  BY DEF DocumentsRead
<1>4. Remembered(w, T) \subseteq Managed(w) /\ v.pluginDocuments = docs
  BY DEF Remembered
<1> HIDE DEF docs
<1>5. Versions(v, n)
  <2>1. \A file \in DOMAIN docs : docs[file].version <= n
    BY <1>1, <1>2, <1>3, <1>4 DEF Versions
  <2> QED
    BY <1>4, <2>1 DEF Versions, Managed
<1>6. Remembering(v)
  <2> SUFFICES ASSUME NEW file \in Managed(v), HasPlugins(v), IsCached(v, file)
               PROVE  v.pluginDocuments[file].source = FreshDocument(v, file)
    BY DEF Remembering
  <2>1. FreshDocument(v, file) = FreshDocument(w, file) /\ HasPlugins(w) /\ file \in Managed(w)
    BY SameFresh
  <2>2. CASE file \in Remembered(w, T)
    BY <1>2, <1>4, <2>1, <2>2
  <2>3. CASE file \notin Remembered(w, T)
    <3>1. file \in DOMAIN docs /\ docs[file].version = w.managedFiles[file].version
      BY <1>4 DEF IsCached
    <3>2. IsCached(w, file)
      BY <1>1, <1>3, <2>3, <3>1 DEF IsCached
    <3> QED
      BY <1>3, <1>4, <2>1, <2>3, <3>1, <3>2 DEF Remembering
  <2> QED
    BY <2>2, <2>3
<1>7. QED
  BY <1>5, <1>6

LEMMA ReadGood ==
  ASSUME NEW d, NEW w, FolderOK(w), NEW n \in Nat, NEW S, Good(w, d, n, S), NEW T
  PROVE  Good(ReadDocuments(w, T), d, n, S)
<1> DEFINE v == ReadDocuments(w, T)
<1>1. /\ v.plugins = w.plugins /\ v.managedFiles = w.managedFiles
      /\ v.pluginDocuments = DocumentsRead(w, T)
      /\ v.sourceNodes = w.sourceNodes /\ v.dirty = w.dirty
  BY ReadDocumentsFields DEF SameSetup
<1> HIDE DEF v
<1>2. Versions(v, n) /\ Remembering(v)
  BY <1>1, DocumentsReadGood DEF Good
<1>3. Current(v, d, S)
  BY <1>1, SameFresh DEF Good, Current, Modules
<1>4. QED
  BY <1>2, <1>3 DEF Good, v

LEMMA ParseGood ==
  ASSUME TypeOK, NEW w, FolderOK(w), NEW n \in Nat, NEW S, Good(w, disk, n, S),
         NEW T \in SUBSET Files
  PROVE  Good(Parse(w, T), disk, n, S)
<1> DEFINE v == Parse(w, T)
<1>1. /\ v.plugins = w.plugins /\ v.managedFiles = w.managedFiles
      /\ v.dirty = w.dirty \ Read(w, T)
      /\ Modules(v) = Modules(w) \cup Read(w, T)
      /\ \A file \in Read(w, T) : v.sourceNodes[file] = ReadSource(w, file)
      /\ \A file \in Modules(w) \ Read(w, T) : v.sourceNodes[file] = w.sourceNodes[file]
  BY ParseFields DEF SameSetup
<1>2. PICK U : v.pluginDocuments = DocumentsRead(w, U)
  BY ParseFields
<1>3. \A file : /\ FreshSource(v, disk, file) = FreshSource(w, disk, file)
                /\ Readable(v, disk, file) <=> Readable(w, disk, file)
  BY <1>1, SameFresh
<1> HIDE DEF v
<1>4. Versions(v, n) /\ Remembering(v)
  BY <1>1, <1>2, DocumentsReadGood DEF Good
<1>5. Current(v, disk, S)
  <2> SUFFICES ASSUME NEW file \in Modules(v) \ v.dirty, file \notin S
               PROVE  Readable(v, disk, file) /\ v.sourceNodes[file] = FreshSource(v, disk, file)
    BY DEF Current
  <2>1. CASE file \in Read(w, T)
    <3>1. Readable(w, disk, file)
      BY <2>1 DEF Read, IsReadable, Readable
    <3>2. ReadSource(w, file) = FreshSource(w, disk, file)
      BY ReadSourceIsFresh DEF Good
    <3> QED
      BY <1>1, <1>3, <2>1, <3>1, <3>2
  <2>2. CASE file \notin Read(w, T)
    <3>1. file \in Modules(w) \ w.dirty
      BY <1>1, <2>2
    <3>2. Readable(w, disk, file) /\ w.sourceNodes[file] = FreshSource(w, disk, file)
      BY <3>1 DEF Good, Current
    <3> QED
      BY <1>1, <1>3, <2>2, <3>1, <3>2
  <2> QED
    BY <2>1, <2>2
<1>6. QED
  BY <1>4, <1>5 DEF Good, v

\* Only these fields matter to Good.
LEMMA SameGood ==
  ASSUME NEW d, NEW w, NEW n, NEW S, Good(w, d, n, S), NEW v,
         v.plugins = w.plugins, v.managedFiles = w.managedFiles,
         v.pluginDocuments = w.pluginDocuments,
         v.sourceNodes = w.sourceNodes, w.dirty \subseteq v.dirty
  PROVE  Good(v, d, n, S)
<1>1. Versions(v, n)
  BY DEF Good, Versions, Managed
<1>2. Remembering(v)
  BY SameFresh DEF Good, Remembering, IsCached
<1>3. Current(v, d, S)
  BY SameFresh DEF Good, Current, Modules
<1>4. QED
  BY <1>1, <1>2, <1>3 DEF Good

LEMMA MarkGood ==
  ASSUME NEW d, NEW w, FolderOK(w), NEW n, NEW S, Good(w, d, n, S), NEW D
  PROVE  Good(MarkDirty(w, D), d, n, S)
<1> DEFINE v == MarkDirty(w, D)
<1>1. /\ v.plugins = w.plugins /\ v.managedFiles = w.managedFiles
      /\ v.pluginDocuments = w.pluginDocuments
      /\ v.sourceNodes = w.sourceNodes /\ w.dirty \subseteq v.dirty
  BY MarkDirtyFields DEF SameSetup
<1> HIDE DEF v
<1>2. Good(v, d, n, S)
  BY <1>1, SameGood
<1>3. QED
  BY <1>2 DEF v

LEMMA CheckGood ==
  ASSUME TypeOK, NEW w, FolderOK(w), NEW n \in Nat, NEW S, Good(w, disk, n, S),
         NEW T \in SUBSET Files
  PROVE  Good(Check(w, T), disk, n, S)
<1> DEFINE p == Parse(w, T)
           v == Check(w, T)
<1>1. Good(p, disk, n, S)
  BY ParseGood
<1>2. /\ v.plugins = p.plugins /\ v.managedFiles = p.managedFiles
      /\ v.pluginDocuments = p.pluginDocuments
      /\ v.sourceNodes = p.sourceNodes /\ v.dirty = p.dirty
  BY CheckFields, ParseFields DEF SameSetup
<1> HIDE DEF p, v
<1>3. Good(v, disk, n, S)
  BY <1>1, <1>2, SameGood
<1>4. QED
  BY <1>3 DEF v

LEMMA PushGood ==
  ASSUME TypeOK, NEW w, FolderOK(w), NEW n \in Nat, NEW S, Good(w, disk, n, S),
         NEW T \in SUBSET Files
  PROVE  Good(Push(w, T), disk, n, S)
  BY CheckGood DEF Push

LEMMA ClearGood ==
  ASSUME NEW d, NEW w, FolderOK(w), NEW n, NEW S, Good(w, d, n, S), NEW D
  PROVE  Good(ClearModules(w, D), d, n, S)
<1> DEFINE v == ClearModules(w, D)
<1>1. /\ v.plugins = w.plugins /\ v.managedFiles = w.managedFiles
      /\ v.pluginDocuments = w.pluginDocuments
      /\ v.dirty = w.dirty \ D /\ Modules(v) = Modules(w) \ D
      /\ \A file \in Modules(w) \ D : v.sourceNodes[file] = w.sourceNodes[file]
  BY ClearModulesFields DEF SameSetup
<1> HIDE DEF v
<1>2. Versions(v, n)
  BY <1>1 DEF Good, Versions, Managed
<1>3. Remembering(v)
  BY <1>1, SameFresh DEF Good, Remembering, IsCached
<1>4. Current(v, d, S)
  BY <1>1, SameFresh DEF Good, Current
<1>5. QED
  BY <1>2, <1>3, <1>4 DEF Good, v

\* A folder that remembers nothing and has no clean module is good.
LEMMA FreshStartGood ==
  ASSUME NEW d, NEW w, NEW v, NEW n, NEW S, Versions(w, n),
         v.managedFiles = w.managedFiles, v.pluginDocuments = Nothing,
         Modules(v) \subseteq v.dirty
  PROVE  Good(v, d, n, S)
<1>1. DOMAIN v.pluginDocuments = {}
  BY DEF Nothing
<1>2. Versions(v, n)
  BY <1>1 DEF Versions, Managed
<1>3. Remembering(v)
  BY <1>1 DEF Remembering, IsCached
<1>4. Current(v, d, S)
  BY DEF Current
<1>5. QED
  BY <1>2, <1>3, <1>4 DEF Good

LEMMA ReloadGood ==
  ASSUME TypeOK, NEW d, NEW w, FolderOK(w), NEW n, NEW S, Versions(w, n)
  PROVE  Good(ReloadPlugins(w), d, n, S)
<1> DEFINE v == ReloadPlugins(w)
<1>1. /\ v.managedFiles = w.managedFiles /\ v.pluginDocuments = Nothing
      /\ v.dirty = Modules(w) /\ Modules(v) = Modules(w)
  BY ReloadFields DEF Modules
<1> HIDE DEF v
<1>2. Good(v, d, n, S)
  BY <1>1, FreshStartGood
<1>3. QED
  BY <1>2 DEF v

\* Another text of one document, which has a new version and is forgotten or
\* was remembered with an older one: the module of that file alone is not
\* current any more.
LEMMA WithDocumentGood ==
  ASSUME NEW d, NEW w, FolderOK(w), NEW n \in Nat, NEW S, Good(w, d, n, S), NEW file,
         NEW v, FolderOK(v), v.plugins = w.plugins, v.sourceNodes = w.sourceNodes,
         w.dirty \subseteq v.dirty,
         file \in Modules(v) => file \in v.dirty,
         Managed(v) = Managed(w) \cup {file},
         v.managedFiles[file].version = n + 1,
         \A f \in Managed(w) \ {file} : v.managedFiles[f] = w.managedFiles[f],
         DOMAIN v.pluginDocuments \subseteq DOMAIN w.pluginDocuments,
         \A f \in DOMAIN v.pluginDocuments : v.pluginDocuments[f] = w.pluginDocuments[f],
         NEW S2, S \ {file} \subseteq S2
  PROVE  Good(v, d, n + 1, S2)
<1>1. \A f \in Managed(w) : w.managedFiles[f].version \in Nat
  BY DEF FolderOK, Managed, IsPartial
<1>2. \A f \in DOMAIN w.pluginDocuments : w.pluginDocuments[f].version \in Nat
  BY DEF FolderOK
<1>3. Versions(v, n + 1)
  BY <1>1, <1>2 DEF Good, Versions
<1>4. \A f, text : Transformed(v, f, text) = Transformed(w, f, text)
  BY DEF Transformed, IsPluginFile
<1>5. \A f \in Managed(w) \ {file} : FreshDocument(v, f) = FreshDocument(w, f)
  BY <1>4 DEF FreshDocument
<1>6. Remembering(v)
  <2> SUFFICES ASSUME NEW f \in Managed(v), HasPlugins(v), IsCached(v, f)
               PROVE  v.pluginDocuments[f].source = FreshDocument(v, f)
    BY DEF Remembering
  <2>1. f # file
    <3> SUFFICES ASSUME f = file PROVE FALSE
      OBVIOUS
    <3>1. w.pluginDocuments[file].version = n + 1 /\ file \in DOMAIN w.pluginDocuments
      BY DEF IsCached
    <3> QED
      BY <1>2, <3>1 DEF Good, Versions
  <2>2. HasPlugins(w) /\ IsCached(w, f) /\ f \in Managed(w)
    BY <2>1 DEF HasPlugins, IsCached
  <2> QED
    BY <1>5, <2>1, <2>2 DEF Good, Remembering, IsCached
<1>7. Current(v, d, S2)
  <2> SUFFICES ASSUME NEW f \in Modules(v) \ v.dirty, f \notin S2
               PROVE  Readable(v, d, f) /\ v.sourceNodes[f] = FreshSource(v, d, f)
    BY DEF Current
  <2>1. f # file /\ f \in Modules(w) \ w.dirty /\ f \notin S
    BY DEF Modules
  <2>2. Readable(w, d, f) /\ w.sourceNodes[f] = FreshSource(w, d, f)
    BY <2>1 DEF Good, Current
  <2>3. FreshSource(v, d, f) = FreshSource(w, d, f) /\ (Readable(v, d, f) <=> Readable(w, d, f))
    BY <1>4, <1>5, <2>1 DEF FreshSource, Readable
  <2> QED
    BY <2>2, <2>3
<1>8. QED
  BY <1>3, <1>6, <1>7 DEF Good

\* Marking a module with those that may require it.
LEMMA MarkDependentsFields ==
  ASSUME NEW w, FolderOK(w), NEW file, NEW dependents
  PROVE  LET v == MarkDirtyWithDependents(w, file, dependents)
         IN /\ FolderOK(v)
            /\ SameSetup(v, w)
            /\ v.sourceNodes = w.sourceNodes
            /\ v.pluginDocuments = w.pluginDocuments
            /\ w.dirty \subseteq v.dirty
            /\ file \in Modules(v) => file \in v.dirty
<1> DEFINE v == MarkDirtyWithDependents(w, file, dependents)
           D == Marked(w, file, dependents)
<1>1. v = MarkDirty(w, D)
  BY DEF MarkDirtyWithDependents
<1>2. file \in Modules(w) => file \in D
  BY DEF Marked
<1> HIDE DEF D
<1>3. /\ FolderOK(v) /\ SameSetup(v, w) /\ v.sourceNodes = w.sourceNodes
      /\ v.pluginDocuments = w.pluginDocuments
      /\ v.dirty = w.dirty \cup (D \cap Modules(w))
  BY <1>1, MarkDirtyFields
<1> HIDE DEF v
<1>4. file \in Modules(v) => file \in v.dirty
  BY <1>2, <1>3 DEF Modules
<1>5. w.dirty \subseteq v.dirty
  BY <1>3
<1>6. QED
  BY <1>3, <1>4, <1>5 DEF v

\* Without the document, the module of its file alone is not current any more.
LEMMA CloseGood ==
  ASSUME NEW d, NEW w, FolderOK(w), NEW n, NEW S, Good(w, d, n, S), NEW file, NEW dependents
  PROVE  Good(MarkDirtyWithDependents(Closing(w, file), file, dependents), d, n, S)
<1> DEFINE c == Closing(w, file)
           v == MarkDirtyWithDependents(c, file, dependents)
<1>1. /\ FolderOK(c) /\ c.plugins = w.plugins /\ c.sourceNodes = w.sourceNodes
      /\ c.dirty = w.dirty /\ c.pluginDocuments = w.pluginDocuments
      /\ Managed(c) = Managed(w) \ {file}
      /\ \A f \in Managed(w) \ {file} : c.managedFiles[f] = w.managedFiles[f]
  BY ClosingFields
<1> HIDE DEF c
<1>2. /\ v.plugins = c.plugins /\ v.managedFiles = c.managedFiles
      /\ v.sourceNodes = c.sourceNodes /\ v.pluginDocuments = c.pluginDocuments
      /\ c.dirty \subseteq v.dirty /\ (file \in Modules(v) => file \in v.dirty)
  BY <1>1, MarkDependentsFields DEF SameSetup
<1> HIDE DEF v
<1>3. Managed(v) = Managed(w) \ {file}
        /\ \A f \in Managed(v) : v.managedFiles[f] = w.managedFiles[f]
  BY <1>1, <1>2 DEF Managed
<1>4. \A f, text : Transformed(v, f, text) = Transformed(w, f, text)
  BY <1>1, <1>2 DEF Transformed, IsPluginFile
<1>5. \A f \in Managed(v) : FreshDocument(v, f) = FreshDocument(w, f)
  BY <1>3, <1>4 DEF FreshDocument
<1>6. Versions(v, n)
  BY <1>1, <1>2, <1>3 DEF Good, Versions
<1>7. Remembering(v)
  BY <1>1, <1>2, <1>3, <1>5 DEF Good, Remembering, IsCached, HasPlugins
<1>8. Current(v, d, S)
  <2> SUFFICES ASSUME NEW f \in Modules(v) \ v.dirty, f \notin S
               PROVE  Readable(v, d, f) /\ v.sourceNodes[f] = FreshSource(v, d, f)
    BY DEF Current
  <2>1. f # file /\ f \in Modules(w) \ w.dirty
    BY <1>1, <1>2 DEF Modules
  <2>2. Readable(w, d, f) /\ w.sourceNodes[f] = FreshSource(w, d, f)
    BY <2>1 DEF Good, Current
  <2>3. FreshSource(v, d, f) = FreshSource(w, d, f) /\ (Readable(v, d, f) <=> Readable(w, d, f))
    BY <1>3, <1>4, <1>5, <2>1 DEF FreshSource, Readable
  <2> QED
    BY <1>1, <1>2, <2>2, <2>3
<1>9. Good(v, d, n, S)
  BY <1>6, <1>7, <1>8 DEF Good
<1>10. QED
  BY <1>9 DEF v, c

\* Setting a folder up keeps it good when its plugins stay, or when it has no
\* modules yet.
LEMMA SetupGood ==
  ASSUME TypeOK, NEW w, FolderOK(w), NEW n \in Nat, NEW S, Good(w, disk, n, S),
         NEW settings \in Settings, NEW required \in SUBSET Files,
         Configured(settings) = w.plugins \/ Modules(w) = {}
  PROVE  Good(SetupWithConfiguration(w, settings, required), disk, n, S)
<1> DEFINE helped == Helped(w, settings)
           plugged == Plugged(helped, settings, Configured(settings))
<1>1. /\ FolderOK(helped) /\ SameSetup(helped, w)
      /\ helped.sourceNodes = w.sourceNodes /\ w.dirty \subseteq helped.dirty
  BY HelpedFields
<1>2. IsPartial(Configured(settings), Scripts, Texts \cup {"failed"})
  BY ConfiguredType
<1> HIDE DEF helped
<1>3. /\ FolderOK(plugged) /\ plugged.managedFiles = w.managedFiles
      /\ plugged.plugins = Configured(settings) /\ plugged.pluginDocuments = Nothing
      /\ plugged.sourceNodes = w.sourceNodes /\ w.dirty \subseteq plugged.dirty
  <2>1. /\ FolderOK(plugged) /\ plugged.managedFiles = helped.managedFiles
        /\ plugged.plugins = Configured(settings) /\ plugged.pluginDocuments = Nothing
        /\ plugged.sourceNodes = helped.sourceNodes /\ plugged.dirty = helped.dirty
    BY <1>1, <1>2, PluggedFields
  <2> QED
    BY <1>1, <2>1 DEF SameSetup
<1> HIDE DEF plugged
<1>4. DOMAIN plugged.pluginDocuments = {}
  BY <1>3 DEF Nothing
<1>5. Versions(plugged, n)
  BY <1>3, <1>4 DEF Good, Versions, Managed
<1>6. Remembering(plugged)
  BY <1>4 DEF Remembering, IsCached
<1>7. Current(plugged, disk, S)
  <2>1. CASE Configured(settings) = w.plugins
    BY <1>3, <2>1, SameFresh DEF Good, Current, Modules
  <2>2. CASE Modules(w) = {}
    BY <1>3, <2>2 DEF Current, Modules
  <2> QED
    BY <2>1, <2>2
<1>8. Good(plugged, disk, n, S)
  BY <1>5, <1>6, <1>7 DEF Good
<1>9. \A T \in SUBSET Files : Good(Parse(plugged, T), disk, n, S)
  BY <1>3, <1>8, ParseGood
<1>10. QED
  BY <1>8, <1>9, SetupSteps DEF plugged, helped

\* After the handler marked what the events concern, nothing that is clean
\* waits for a report any more.
LEMMA ClearedGood ==
  ASSUME TypeOK, External = {}, NEW n \in Nat, NEW S,
         \A file \in S : Pending(file),
         Good(folder, disk, n, S), NEW D, Known(folder) \subseteq D
  PROVE  Good(Cleared(folder, D), disk, n, {})
<1> DEFINE looked == Looked(folder)
           marked == LookedAndMarked(folder, D)
<1>1. /\ FolderOK(looked) /\ looked.sourceNodes = folder.sourceNodes
      /\ Good(looked, disk, n, S)
  BY ReadDocumentsFields, ReadGood DEF Looked, TypeOK
<1> HIDE DEF looked
<1>2. marked = MarkDirty(looked, D)
  BY DEF LookedAndMarked, looked
<1>3. /\ FolderOK(marked) /\ marked.sourceNodes = looked.sourceNodes
      /\ marked.dirty = looked.dirty \cup (D \cap Modules(looked))
      /\ Good(marked, disk, n, S)
  BY <1>1, <1>2, MarkDirtyFields, MarkGood
<1> HIDE DEF marked
<1>4. \A file \in S \cap Modules(marked) : file \in marked.dirty
  <2> SUFFICES ASSUME NEW file \in S, file \in Modules(marked)
               PROVE  file \in marked.dirty
    OBVIOUS
  <2>1. file \in Modules(folder) /\ Modules(looked) = Modules(folder)
    BY <1>1, <1>3 DEF Modules
  <2>2. file \in Files
    BY <2>1 DEF TypeOK, FolderOK, Modules
  <2>3. PICK i \in DOMAIN changes :
          changes[i].uri = file \/ (changes[i].uri = Directory /\ file \in FilesIn)
    BY DEF Pending
  <2>4. Concerns(folder, changes[i], file)
    BY <2>1, <2>2, <2>3, DocumentsAssumption DEF Concerns
  <2>5. file \in Known(folder)
    BY <2>1, <2>2, <2>4 DEF Known, Touched
  <2> QED
    BY <1>3, <2>1, <2>5
<1>5. Good(marked, disk, n, {})
  BY <1>3, <1>4 DEF Good, Current
<1>6. Good(ReloadPlugins(marked), disk, n, {})
  BY <1>3, <1>5, ReloadGood DEF Good
<1>7. PossiblyReloaded(folder, D) = ReloadPlugins(marked) \/ PossiblyReloaded(folder, D) = marked
  BY DEF PossiblyReloaded, marked
<1>8. Good(PossiblyReloaded(folder, D), disk, n, {})
  BY <1>5, <1>6, <1>7
<1>9. FolderOK(PossiblyReloaded(folder, D))
  BY ClearedFields DEF TypeOK
<1>10. QED
  BY <1>8, <1>9, ClearGood DEF Cleared

-----------------------------------------------------------------------------
(* The steps of the server.                                                 *)

LEMMA WatchGood ==
  ASSUME TypeOK, External = {}, NEW S, \A file \in S : Pending(file),
         Good(folder, disk, edits, S),
         NEW dependents \in SUBSET Files, NEW required \in SUBSET Files,
         OnDidChangeWatchedFiles(dependents, required)
  PROVE  Good(folder', disk, edits, {})
<1>1. PICK D \in SUBSET Files : \E indexed :
           /\ Known(folder) \subseteq D
           /\ \/ indexed = Cleared(folder, D)
              \/ \E T \in SUBSET Files : indexed = Parse(Cleared(folder, D), T)
           /\ folder' = indexed \/ \E T \in SUBSET Files : folder' = Check(indexed, T)
  BY WatchSteps
<1>2. PICK indexed :
           /\ Known(folder) \subseteq D
           /\ \/ indexed = Cleared(folder, D)
              \/ \E T \in SUBSET Files : indexed = Parse(Cleared(folder, D), T)
           /\ folder' = indexed \/ \E T \in SUBSET Files : folder' = Check(indexed, T)
  BY <1>1
<1>3. edits \in Nat
  BY DEF TypeOK
<1>4. FolderOK(Cleared(folder, D))
  BY ClearedFields DEF TypeOK
<1>5. Good(Cleared(folder, D), disk, edits, {})
  BY <1>2, <1>3, ClearedGood
<1>6. FolderOK(indexed) /\ Good(indexed, disk, edits, {})
  BY <1>2, <1>3, <1>4, <1>5, ParseFields, ParseGood
<1>7. QED
  BY <1>2, <1>3, <1>6, CheckGood

LEMMA RequestGood ==
  ASSUME TypeOK, NEW S, Good(folder, disk, edits, S),
         NEW file \in Files, NEW again, NEW required \in SUBSET Files,
         Request(file, again, required) \/ ParseRequest(file, required)
  PROVE  Good(folder', disk, edits, S)
<1> DEFINE read == ReadDocuments(folder, {file})
           marked == MarkDirty(read, again)
           T == {file} \cup required
<1>1. edits \in Nat /\ T \in SUBSET Files
  BY DEF TypeOK
<1>2. FolderOK(read) /\ Good(read, disk, edits, S)
  BY <1>1, ReadDocumentsFields, ReadGood DEF TypeOK
<1>3. FolderOK(marked) /\ Good(marked, disk, edits, S)
  BY <1>2, MarkDirtyFields, MarkGood
<1>4. Good(Check(marked, T), disk, edits, S)
  BY <1>1, <1>3, CheckGood
<1>5. Good(Parse(read, T), disk, edits, S)
  BY <1>1, <1>2, ParseGood
<1>6. QED
  BY <1>4, <1>5 DEF Request, ParseRequest

LEMMA OpenGood ==
  ASSUME TypeOK, ~VersionsRestart, NEW S, Good(folder, disk, edits, S),
         NEW file \in Files, NEW text \in Texts, NEW dependents,
         NEW required \in SUBSET Files, OpenTextDocument(file, text, dependents, required)
  PROVE  Good(folder', disk, edits + 1, S \ {file})
<1> DEFINE document == [version |-> NextVersion(file), text |-> text]
           opened == WithDocument(folder, file, document)
           marked == MarkDirtyWithDependents(opened, file, dependents)
           T == {file} \cup required
<1>1. edits \in Nat /\ T \in SUBSET Files /\ NextVersion(file) = edits + 1
  BY DEF TypeOK, NextVersion
<1>2. document \in [version : Nat, text : Texts] /\ document.version = edits + 1
  BY <1>1, NextVersionType
<1>3. folder' = Push(marked, T)
  BY DEF OpenTextDocument, WithDocument
<1> HIDE DEF document
<1>4. /\ FolderOK(opened) /\ opened.plugins = folder.plugins
      /\ opened.sourceNodes = folder.sourceNodes /\ opened.dirty = folder.dirty
      /\ opened.pluginDocuments = folder.pluginDocuments
      /\ Managed(opened) = Managed(folder) \cup {file}
      /\ opened.managedFiles[file] = document
      /\ \A f \in Managed(folder) \ {file} : opened.managedFiles[f] = folder.managedFiles[f]
  BY <1>2, WithDocumentFields DEF TypeOK
<1> HIDE DEF opened
<1>5. /\ FolderOK(marked) /\ marked.plugins = opened.plugins
      /\ marked.managedFiles = opened.managedFiles
      /\ marked.sourceNodes = opened.sourceNodes
      /\ marked.pluginDocuments = opened.pluginDocuments
      /\ opened.dirty \subseteq marked.dirty
      /\ file \in Modules(marked) => file \in marked.dirty
  BY <1>4, MarkDependentsFields DEF SameSetup
<1> HIDE DEF marked
<1>6. Managed(marked) = Managed(folder) \cup {file}
  BY <1>4, <1>5 DEF Managed
<1>7. Good(marked, disk, edits + 1, S \ {file})
  BY <1>1, <1>2, <1>4, <1>5, <1>6, WithDocumentGood DEF TypeOK
<1>8. edits + 1 \in Nat
  BY <1>1
<1>9. QED
  BY <1>1, <1>3, <1>5, <1>7, <1>8, PushGood

LEMMA UpdateGood ==
  ASSUME TypeOK, ~VersionsRestart, NEW S, Good(folder, disk, edits, S),
         NEW file \in Files, NEW text \in Texts, NEW dependents \in SUBSET Files,
         NEW required \in SUBSET Files, UpdateTextDocument(file, text, dependents, required)
  PROVE  Good(folder', disk, edits + 1, S \ {file})
<1> DEFINE document == [version |-> NextVersion(file), text |-> text]
           with == WithDocument(folder, file, document)
           updated == Forgetting(with, file)
           marked == MarkDirtyWithDependents(updated, file, dependents)
<1>1. edits \in Nat /\ NextVersion(file) = edits + 1
  BY DEF TypeOK, NextVersion
<1>2. document \in [version : Nat, text : Texts] /\ document.version = edits + 1
  BY <1>1, NextVersionType
<1>3. [folder EXCEPT !.managedFiles[file] = document,
                     !.pluginDocuments = Without(@, {file})] = updated
  BY UpdateIsWithDocument DEF TypeOK, UpdateTextDocument
<1>4. PICK included \in {{}, Marked(updated, file, dependents)} :
        folder' = Push(marked, {file} \cup required \cup included)
  BY <1>3 DEF UpdateTextDocument
<1>5. {file} \cup required \cup included \in SUBSET Files
  BY DEF Marked
<1> HIDE DEF document
<1>6. /\ FolderOK(with) /\ with.plugins = folder.plugins
      /\ with.sourceNodes = folder.sourceNodes /\ with.dirty = folder.dirty
      /\ with.pluginDocuments = folder.pluginDocuments
      /\ Managed(with) = Managed(folder) \cup {file}
      /\ with.managedFiles[file] = document
      /\ \A f \in Managed(folder) \ {file} : with.managedFiles[f] = folder.managedFiles[f]
  BY <1>2, WithDocumentFields DEF TypeOK
<1> HIDE DEF with
<1>7. /\ FolderOK(updated) /\ updated.plugins = with.plugins
      /\ updated.managedFiles = with.managedFiles
      /\ updated.sourceNodes = with.sourceNodes /\ updated.dirty = with.dirty
      /\ updated.pluginDocuments = Without(with.pluginDocuments, {file})
  BY <1>6, ForgettingFields DEF SameSetup
<1> HIDE DEF updated
<1>8. /\ FolderOK(marked) /\ marked.plugins = updated.plugins
      /\ marked.managedFiles = updated.managedFiles
      /\ marked.sourceNodes = updated.sourceNodes
      /\ marked.pluginDocuments = updated.pluginDocuments
      /\ updated.dirty \subseteq marked.dirty
      /\ file \in Modules(marked) => file \in marked.dirty
  BY <1>7, MarkDependentsFields DEF SameSetup
<1> HIDE DEF marked
<1>9. Managed(marked) = Managed(folder) \cup {file}
  BY <1>6, <1>7, <1>8 DEF Managed
<1>10. /\ DOMAIN marked.pluginDocuments \subseteq DOMAIN folder.pluginDocuments
       /\ \A f \in DOMAIN marked.pluginDocuments :
            marked.pluginDocuments[f] = folder.pluginDocuments[f]
  BY <1>6, <1>7, <1>8 DEF Without
<1>11. Good(marked, disk, edits + 1, S \ {file})
  <2>1. /\ marked.plugins = folder.plugins /\ marked.sourceNodes = folder.sourceNodes
        /\ folder.dirty \subseteq marked.dirty
        /\ marked.managedFiles[file].version = edits + 1
        /\ \A f \in Managed(folder) \ {file} : marked.managedFiles[f] = folder.managedFiles[f]
    BY <1>2, <1>6, <1>7, <1>8
  <2>2. FolderOK(folder)
    BY DEF TypeOK
  <2> QED
    BY <1>1, <1>8, <1>9, <1>10, <2>1, <2>2, WithDocumentGood
<1>12. edits + 1 \in Nat
  BY <1>1
<1>13. QED
  BY <1>4, <1>5, <1>8, <1>11, <1>12, PushGood

-----------------------------------------------------------------------------
(* What the server's steps do to the folder's documents, plugins and modules. *)

\* New modules are ones that can be read.
Grows(v, w, d) ==
  \A file \in Modules(v) : file \in Modules(w) \/ Readable(v, d, file)

\* The folder stays in use, with documents of these files and these plugins.
InUse(v, managed, plugins) ==
  v.isReady = TRUE /\ Managed(v) = managed /\ v.plugins = plugins

LEMMA ParseGrows ==
  ASSUME TypeOK, NEW w, FolderOK(w), NEW T \in SUBSET Files
  PROVE  Grows(Parse(w, T), w, disk)
<1>1. Managed(Parse(w, T)) = Managed(w) /\ Modules(Parse(w, T)) = Modules(w) \cup Read(w, T)
  BY ParseFields DEF SameSetup, Managed
<1>2. QED
  BY <1>1 DEF Grows, Readable, Read, IsReadable

LEMMA CheckGrows ==
  ASSUME TypeOK, NEW w, FolderOK(w), NEW T \in SUBSET Files
  PROVE  Grows(Check(w, T), w, disk) /\ SameSetup(Check(w, T), w) /\ FolderOK(Check(w, T))
<1>1. /\ SameSetup(Check(w, T), w) /\ FolderOK(Check(w, T))
      /\ Check(w, T).sourceNodes = Parse(w, T).sourceNodes
  BY CheckFields
<1>2. SameSetup(Parse(w, T), w)
  BY ParseFields
<1>3. /\ Modules(Check(w, T)) = Modules(Parse(w, T))
      /\ Managed(Check(w, T)) = Managed(Parse(w, T))
  BY <1>1, <1>2 DEF SameSetup, Modules, Managed
<1>4. Grows(Check(w, T), w, disk)
  BY <1>3, ParseGrows DEF Grows, Readable
<1>5. QED
  BY <1>1, <1>4

LEMMA PushGrows ==
  ASSUME TypeOK, NEW w, FolderOK(w), NEW T \in SUBSET Files
  PROVE  Grows(Push(w, T), w, disk) /\ SameSetup(Push(w, T), w)
<1>1. CASE Push(w, T) = w
  BY <1>1 DEF Grows, SameSetup
<1>2. CASE Push(w, T) = Check(w, T)
  BY <1>2, CheckGrows
<1>3. QED
  BY <1>1, <1>2 DEF Push

LEMMA RequestStep ==
  ASSUME TypeOK, NEW file \in Files, NEW again, NEW required \in SUBSET Files,
         Request(file, again, required) \/ ParseRequest(file, required)
  PROVE  InUse(folder', Managed(folder), folder.plugins) /\ Grows(folder', folder, disk)
<1> DEFINE read == ReadDocuments(folder, {file})
           marked == MarkDirty(read, again)
           T == {file} \cup required
<1>1. FolderOK(folder) /\ folder.isReady = TRUE /\ T \in SUBSET Files
  BY DEF TypeOK, Request, ParseRequest, FolderOK
<1>2. FolderOK(read) /\ SameSetup(read, folder) /\ read.sourceNodes = folder.sourceNodes
  BY <1>1, ReadDocumentsFields
<1>3. FolderOK(marked) /\ SameSetup(marked, read) /\ marked.sourceNodes = read.sourceNodes
  BY <1>2, MarkDirtyFields
<1>4. SameSetup(Check(marked, T), marked) /\ Grows(Check(marked, T), marked, disk)
  BY <1>1, <1>3, CheckGrows
<1>5. SameSetup(Parse(read, T), read) /\ Grows(Parse(read, T), read, disk)
  BY <1>1, <1>2, ParseFields, ParseGrows
<1>6. folder' = Check(marked, T) \/ folder' = Parse(read, T)
  BY DEF Request, ParseRequest
<1> HIDE DEF read, marked, T
<1>7. QED
  BY <1>1, <1>2, <1>3, <1>4, <1>5, <1>6 DEF SameSetup, InUse, Grows, Managed, Modules

LEMMA OpenStep ==
  ASSUME TypeOK, NEW file \in Files, NEW text \in Texts, NEW dependents,
         NEW required \in SUBSET Files, OpenTextDocument(file, text, dependents, required)
  PROVE  /\ InUse(folder', Managed(folder) \cup {file}, folder.plugins)
         /\ Grows(folder', folder, disk)
<1> DEFINE document == [version |-> NextVersion(file), text |-> text]
           opened == WithDocument(folder, file, document)
           marked == MarkDirtyWithDependents(opened, file, dependents)
           T == {file} \cup required
<1>1. document \in [version : Nat, text : Texts] /\ T \in SUBSET Files
  BY NextVersionType
<1>2. folder' = Push(marked, T)
  BY DEF OpenTextDocument, WithDocument
<1>3. FolderOK(folder) /\ folder.isReady = TRUE
  BY DEF TypeOK, OpenTextDocument, FolderOK
<1> HIDE DEF document, T
<1>4. /\ FolderOK(opened) /\ opened.isReady = TRUE /\ opened.plugins = folder.plugins
      /\ opened.sourceNodes = folder.sourceNodes
      /\ Managed(opened) = Managed(folder) \cup {file}
  BY <1>1, <1>3, WithDocumentFields
<1> HIDE DEF opened
<1>5. FolderOK(marked) /\ SameSetup(marked, opened) /\ marked.sourceNodes = opened.sourceNodes
  BY <1>4, MarkDependentsFields
<1> HIDE DEF marked
<1>6. SameSetup(folder', marked) /\ Grows(folder', marked, disk)
  BY <1>1, <1>2, <1>5, PushGrows
<1>7. QED
  BY <1>4, <1>5, <1>6 DEF SameSetup, InUse, Grows, Managed, Modules

LEMMA UpdateStep ==
  ASSUME TypeOK, NEW file \in Files, NEW text \in Texts, NEW dependents \in SUBSET Files,
         NEW required \in SUBSET Files, UpdateTextDocument(file, text, dependents, required)
  PROVE  /\ InUse(folder', Managed(folder) \cup {file}, folder.plugins)
         /\ Grows(folder', folder, disk)
<1> DEFINE document == [version |-> NextVersion(file), text |-> text]
           with == WithDocument(folder, file, document)
           updated == Forgetting(with, file)
           marked == MarkDirtyWithDependents(updated, file, dependents)
<1>1. document \in [version : Nat, text : Texts]
  BY NextVersionType
<1>2. FolderOK(folder) /\ folder.isReady = TRUE
  BY DEF TypeOK, UpdateTextDocument, FolderOK
<1>3. [folder EXCEPT !.managedFiles[file] = document,
                     !.pluginDocuments = Without(@, {file})] = updated
  BY <1>2, UpdateIsWithDocument DEF UpdateTextDocument
<1>4. PICK included \in {{}, Marked(updated, file, dependents)} :
        folder' = Push(marked, {file} \cup required \cup included)
  BY <1>3 DEF UpdateTextDocument
<1>5. {file} \cup required \cup included \in SUBSET Files
  BY DEF Marked
<1> HIDE DEF document
<1>6. /\ FolderOK(with) /\ with.isReady = TRUE /\ with.plugins = folder.plugins
      /\ with.sourceNodes = folder.sourceNodes
      /\ Managed(with) = Managed(folder) \cup {file}
  BY <1>1, <1>2, WithDocumentFields
<1> HIDE DEF with
<1>7. FolderOK(updated) /\ SameSetup(updated, with) /\ updated.sourceNodes = with.sourceNodes
  BY <1>6, ForgettingFields
<1> HIDE DEF updated
<1>8. FolderOK(marked) /\ SameSetup(marked, updated) /\ marked.sourceNodes = updated.sourceNodes
  BY <1>7, MarkDependentsFields
<1> HIDE DEF marked
<1>9. SameSetup(folder', marked) /\ Grows(folder', marked, disk)
  BY <1>4, <1>5, <1>8, PushGrows
<1>10. QED
  BY <1>6, <1>7, <1>8, <1>9 DEF SameSetup, InUse, Grows, Managed, Modules

LEMMA CloseStep ==
  ASSUME TypeOK, NEW file, NEW dependents, CloseTextDocument(file, dependents)
  PROVE  /\ InUse(folder', Managed(folder) \ {file}, folder.plugins)
         /\ Modules(folder') = Modules(folder)
<1> DEFINE closed == Closing(folder, file)
           marked == MarkDirtyWithDependents(closed, file, dependents)
<1>1. FolderOK(folder) /\ folder.isReady = TRUE /\ folder' = marked
  BY DEF TypeOK, CloseTextDocument, Closing, FolderOK
<1>2. /\ FolderOK(closed) /\ closed.isReady = TRUE /\ closed.plugins = folder.plugins
      /\ closed.sourceNodes = folder.sourceNodes
      /\ Managed(closed) = Managed(folder) \ {file}
  BY <1>1, ClosingFields
<1> HIDE DEF closed
<1>3. SameSetup(marked, closed) /\ marked.sourceNodes = closed.sourceNodes
  BY <1>2, MarkDependentsFields
<1> HIDE DEF marked
<1>4. QED
  BY <1>1, <1>2, <1>3 DEF SameSetup, InUse, Managed, Modules

LEMMA SetupGrows ==
  ASSUME TypeOK, NEW w, FolderOK(w), NEW settings \in Settings,
         NEW required \in SUBSET Files
  PROVE  Grows(SetupWithConfiguration(w, settings, required), w, disk)
<1> DEFINE helped == Helped(w, settings)
           plugged == Plugged(helped, settings, Configured(settings))
<1>1. FolderOK(helped) /\ helped.sourceNodes = w.sourceNodes
  BY HelpedFields
<1>2. IsPartial(Configured(settings), Scripts, Texts \cup {"failed"})
  BY ConfiguredType
<1> HIDE DEF helped
<1>3. FolderOK(plugged) /\ plugged.sourceNodes = helped.sourceNodes
  BY <1>1, <1>2, PluggedFields
<1> HIDE DEF plugged
<1>4. \A T \in SUBSET Files : Grows(Parse(plugged, T), plugged, disk)
  BY <1>3, ParseGrows
<1>5. Modules(plugged) = Modules(w)
  BY <1>1, <1>3 DEF Modules
<1>6. SetupWithConfiguration(w, settings, required) = plugged
        \/ \E T \in SUBSET Files : SetupWithConfiguration(w, settings, required) = Parse(plugged, T)
  BY SetupSteps DEF plugged, helped
<1>7. QED
  BY <1>4, <1>5, <1>6 DEF Grows

LEMMA InitializeStep ==
  ASSUME TypeOK, NEW settings \in Settings, NEW required \in SUBSET Files,
         LazyInitialize(settings, required)
  PROVE  /\ InUse(folder', Managed(folder), Configured(settings))
         /\ Grows(folder', folder, disk)
<1> DEFINE set == SetupWithConfiguration(folder, settings, required)
<1>1. /\ FolderOK(set) /\ set.managedFiles = folder.managedFiles
      /\ set.plugins = Configured(settings) /\ Grows(set, folder, disk)
  BY SetupType, SetupGrows DEF TypeOK
<1>2. folder' = [set EXCEPT !.isReady = TRUE]
  BY DEF LazyInitialize
<1> HIDE DEF set
<1>3. /\ folder'.isReady = TRUE /\ folder'.managedFiles = set.managedFiles
      /\ folder'.plugins = set.plugins /\ folder'.sourceNodes = set.sourceNodes
  BY <1>1, <1>2 DEF FolderOK
<1>4. QED
  BY <1>1, <1>3 DEF InUse, Grows, Readable, Managed, Modules

LEMMA RecomputeGrows ==
  ASSUME TypeOK, NEW w, FolderOK(w), NEW required \in SUBSET Files
  PROVE  /\ Grows(RecomputeDiagnostics(w, required), w, disk)
         /\ SameSetup(RecomputeDiagnostics(w, required), w)
<1>1. WithRequired(Managed(w), required) \in SUBSET Files
  BY DEF WithRequired, Managed, FolderOK, IsPartial
<1>2. QED
  BY <1>1, PushGrows DEF RecomputeDiagnostics

LEMMA ChangeConfigurationStep ==
  ASSUME TypeOK, NEW settings \in Settings, NEW required \in SUBSET Files,
         ChangeConfiguration(settings, required)
  PROVE  /\ InUse(folder', Managed(folder), Configured(settings))
         /\ Grows(folder', folder, disk)
<1> DEFINE set == SetupWithConfiguration(folder, settings, required)
<1>1. /\ FolderOK(set) /\ set.isReady = TRUE /\ set.managedFiles = folder.managedFiles
      /\ set.plugins = Configured(settings) /\ Grows(set, folder, disk)
  <2>1. FolderOK(folder) /\ folder.isReady = TRUE
    BY DEF TypeOK, ChangeConfiguration, FolderOK
  <2> QED
    BY <2>1, SetupType, SetupGrows
<1>2. folder' = RecomputeDiagnostics(set, required)
  BY DEF ChangeConfiguration
<1> HIDE DEF set
<1>3. SameSetup(folder', set) /\ Grows(folder', set, disk)
  BY <1>1, <1>2, RecomputeGrows
<1>4. QED
  BY <1>1, <1>3 DEF SameSetup, InUse, Grows, Readable, Managed, Modules

LEMMA WatchStep ==
  ASSUME TypeOK, NEW dependents \in SUBSET Files, NEW required \in SUBSET Files,
         OnDidChangeWatchedFiles(dependents, required)
  PROVE  /\ InUse(folder', Managed(folder),
                  IF PluginFileChanged(folder) THEN Reloaded(folder) ELSE folder.plugins)
         /\ \A file \in Modules(folder') :
              \/ file \in Modules(folder) \ DeletedModules(folder)
              \/ Readable(folder', disk, file)
<1> DEFINE plugins == IF PluginFileChanged(folder) THEN Reloaded(folder) ELSE folder.plugins
<1>1. PICK D \in SUBSET Files : \E indexed :
           /\ \/ indexed = Cleared(folder, D)
              \/ \E T \in SUBSET Files : indexed = Parse(Cleared(folder, D), T)
           /\ folder' = indexed \/ \E T \in SUBSET Files : folder' = Check(indexed, T)
  BY WatchSteps
<1>2. PICK indexed :
           /\ \/ indexed = Cleared(folder, D)
              \/ \E T \in SUBSET Files : indexed = Parse(Cleared(folder, D), T)
           /\ folder' = indexed \/ \E T \in SUBSET Files : folder' = Check(indexed, T)
  BY <1>1
<1> DEFINE looked == Looked(folder)
           marked == LookedAndMarked(folder, D)
           reloaded == PossiblyReloaded(folder, D)
           cleared == Cleared(folder, D)
<1>3. /\ FolderOK(folder) /\ folder.isReady = TRUE
      /\ FolderOK(marked) /\ FolderOK(reloaded) /\ FolderOK(cleared)
  BY ClearedFields DEF TypeOK, OnDidChangeWatchedFiles, FolderOK
<1>4. FolderOK(looked) /\ SameSetup(looked, folder) /\ looked.sourceNodes = folder.sourceNodes
  BY <1>3, ReadDocumentsFields DEF Looked
<1>5. SameSetup(marked, looked) /\ marked.sourceNodes = looked.sourceNodes
  BY <1>4, MarkDirtyFields DEF LookedAndMarked
<1>6. Reloaded(marked) = Reloaded(folder)
  BY <1>4, <1>5 DEF SameSetup, Reloaded
<1> HIDE DEF looked
<1>7. /\ reloaded.isReady = marked.isReady /\ reloaded.managedFiles = marked.managedFiles
      /\ reloaded.sourceNodes = marked.sourceNodes
      /\ reloaded.plugins = IF PluginFileChanged(folder) THEN Reloaded(marked) ELSE marked.plugins
  BY <1>3, ReloadFields DEF PossiblyReloaded
<1> HIDE DEF marked
<1>8. SameSetup(cleared, reloaded) /\ Modules(cleared) = Modules(reloaded) \ DeletedModules(folder)
  BY <1>3, ClearModulesFields DEF Cleared
<1> HIDE DEF reloaded
<1>9. InUse(cleared, Managed(folder), plugins)
  BY <1>3, <1>4, <1>5, <1>6, <1>7, <1>8 DEF SameSetup, InUse, Managed
<1>10. Modules(cleared) = Modules(folder) \ DeletedModules(folder)
  BY <1>4, <1>5, <1>7, <1>8 DEF Modules
<1>11. FolderOK(indexed) /\ SameSetup(indexed, cleared) /\ Grows(indexed, cleared, disk)
  <2>1. CASE indexed = cleared
    BY <1>3, <2>1 DEF SameSetup, Grows
  <2>2. ASSUME NEW T \in SUBSET Files, indexed = Parse(cleared, T)
        PROVE  FolderOK(indexed) /\ SameSetup(indexed, cleared) /\ Grows(indexed, cleared, disk)
    BY <1>3, <2>2, ParseFields, ParseGrows
  <2> QED
    BY <1>2, <2>1, <2>2
<1> HIDE DEF cleared
<1>12. SameSetup(folder', indexed) /\ Grows(folder', indexed, disk)
  <2>1. CASE folder' = indexed
    BY <2>1 DEF SameSetup, Grows
  <2>2. ASSUME NEW T \in SUBSET Files, folder' = Check(indexed, T)
        PROVE  SameSetup(folder', indexed) /\ Grows(folder', indexed, disk)
    BY <1>11, <2>2, CheckGrows
  <2> QED
    BY <1>2, <2>1, <2>2
<1> HIDE DEF plugins
<1>13. InUse(folder', Managed(folder), plugins)
  BY <1>9, <1>11, <1>12 DEF SameSetup, InUse, Managed
<1>14. \A file \in Modules(folder') :
         file \in Modules(cleared) \/ Readable(folder', disk, file)
  BY <1>11, <1>12 DEF SameSetup, Grows, Readable, Managed
<1>15. QED
  BY <1>10, <1>13, <1>14 DEF plugins

\* Every step is one of these, whichever modules it comes with.
LEMMA NextSteps ==
  ASSUME [Next]_vars
  PROVE  \/ \E file \in Files, text \in Texts : WriteFile(file, text)
         \/ \E file \in Files : DeleteFile(file)
         \/ DeleteDirectory
         \/ \E file \in Files, again \in SUBSET Files, required \in SUBSET Files :
              Request(file, again, required) \/ ParseRequest(file, required)
         \/ \E file \in Files, text \in Texts, dependents \in SUBSET Files,
               required \in SUBSET Files :
              \/ OpenTextDocument(file, text, dependents, required)
              \/ UpdateTextDocument(file, text, dependents, required)
         \/ \E file \in Files, dependents \in SUBSET Files : CloseTextDocument(file, dependents)
         \/ \E settings \in Settings, required \in SUBSET Files :
              LazyInitialize(settings, required) \/ ChangeConfiguration(settings, required)
         \/ \E dependents \in SUBSET Files, required \in SUBSET Files :
              OnDidChangeWatchedFiles(dependents, required)
         \/ IgnoreWatchedFiles
         \/ UNCHANGED vars
<1>1. \A file \in Files : Dependents(file) \subseteq Files /\ Requires[file] \subseteq Files
  BY DocumentsAssumption DEF Dependents
<1>2. Required \subseteq Files /\ UserSettings \subseteq Settings
  BY DocumentsAssumption DEF Required, Settings
<1> DEFINE Requesting == \E file \in Files, again \in SUBSET Files, required \in SUBSET Files :
                           Request(file, again, required) \/ ParseRequest(file, required)
           Editing == \E file \in Files, text \in Texts, dependents \in SUBSET Files,
                          required \in SUBSET Files :
                        \/ OpenTextDocument(file, text, dependents, required)
                        \/ UpdateTextDocument(file, text, dependents, required)
           Closed == \E file \in Files, dependents \in SUBSET Files :
                       CloseTextDocument(file, dependents)
           Setting == \E settings \in Settings, required \in SUBSET Files :
                        LazyInitialize(settings, required) \/ ChangeConfiguration(settings, required)
           Watching == \E dependents \in SUBSET Files, required \in SUBSET Files :
                         OnDidChangeWatchedFiles(dependents, required)
<1>3. ASSUME NEW file \in Files, NEW dependents \in SUBSET Dependents(file),
             NEW required \in SUBSET Requires[file],
             \/ ParseRequest(file, required)
             \/ Request(file, {}, required)
             \/ Request(file, {file} \cup dependents, required)
             \/ \E text \in Texts :
                  \/ OpenTextDocument(file, text, dependents, required)
                  \/ UpdateTextDocument(file, text, dependents, required)
             \/ CloseTextDocument(file, dependents)
      PROVE  Requesting \/ Editing \/ Closed
  <2>1. dependents \in SUBSET Files /\ required \in SUBSET Files
    BY <1>1
  <2>2. {} \in SUBSET Files /\ {file} \cup dependents \in SUBSET Files
    BY <2>1
  <2> QED
    BY <1>3, <2>1, <2>2
<1>4. ASSUME NEW settings \in UserSettings, NEW required \in SUBSET Required,
             LazyInitialize(settings, required) \/ ChangeConfiguration(settings, required)
      PROVE  Setting
  <2>1. settings \in Settings /\ required \in SUBSET Files
    BY <1>2
  <2> QED
    BY <1>4, <2>1
<1>5. ASSUME NEW dependents \in SUBSET Files, NEW required \in SUBSET Required,
             OnDidChangeWatchedFiles(dependents, required)
      PROVE  Watching
  <2>1. required \in SUBSET Files
    BY <1>2
  <2> QED
    BY <1>5, <2>1
<1> HIDE DEF Requesting, Editing, Closed, Setting, Watching
<1>6. Server => Requesting \/ Editing \/ Closed \/ Setting \/ Watching \/ IgnoreWatchedFiles
  BY <1>3, <1>4, <1>5 DEF Server
<1>7. QED
  BY <1>6 DEF Next, Client, Requesting, Editing, Closed, Setting, Watching

-----------------------------------------------------------------------------
(* Clean modules and remembered documents are current.                      *)

\* Files without an open document whose change is yet to be reported.
Unreported == {file \in Files : file \notin Managed(folder) /\ Pending(file)}

\* A folder that is not in use has no modules, so dropping events loses nothing.
CurrencyInvariant ==
  /\ TypeOK
  /\ ~folder.isReady => Modules(folder) = {}
  /\ Good(folder, disk, edits, Unreported)

\* Client steps change files whose change they report.
LEMMA ClientCurrency ==
  ASSUME External = {}, CurrencyInvariant, TypeOK',
         NEW uri, NEW type, Report(uri, type), Edit, folder' = folder,
         \A file \in Files :
           disk'[file] # disk[file] =>
             file = uri \/ (uri = Directory /\ file \in FilesIn)
  PROVE  CurrencyInvariant'
<1>1. changes' = Append(changes, [uri |-> uri, type |-> type]) /\ changes \in Seq(Events)
  BY DEF Report, CurrencyInvariant, TypeOK
<1>2. \A file : Pending(file) => Pending(file)'
  BY <1>1 DEF Pending
<1>3. \A file \in Files : disk'[file] # disk[file] => Pending(file)'
  <2>1. Len(changes) + 1 \in DOMAIN changes' /\ changes'[Len(changes) + 1].uri = uri
    BY <1>1
  <2> QED
    BY <2>1 DEF Pending
<1>4. Managed(folder)' = Managed(folder) /\ Modules(folder)' = Modules(folder)
        /\ Modules(folder) \subseteq Files
  BY DEF Managed, Modules, CurrencyInvariant, TypeOK, FolderOK
<1>5. \A file \in Modules(folder) : file \notin Unreported' =>
        file \notin Unreported /\ (file \in Managed(folder) \/ disk'[file] = disk[file])
  BY <1>2, <1>3, <1>4 DEF Unreported
<1>6. edits \in Nat /\ edits' = edits + 1
  BY DEF CurrencyInvariant, TypeOK, Edit
<1>7. FolderOK(folder)
  BY DEF CurrencyInvariant, TypeOK
<1>8. Versions(folder, edits + 1)
  <2>1. \A f \in Managed(folder) : folder.managedFiles[f].version \in Nat
    BY <1>7 DEF FolderOK, Managed, IsPartial
  <2>2. \A f \in DOMAIN folder.pluginDocuments : folder.pluginDocuments[f].version \in Nat
    BY <1>7 DEF FolderOK
  <2> QED
    BY <1>6, <2>1, <2>2 DEF CurrencyInvariant, Good, Versions
<1>9. Current(folder, disk', Unreported')
  BY <1>5 DEF CurrencyInvariant, Good, Current, Readable, FreshSource
<1>10. Good(folder, disk', edits', Unreported')
  BY <1>6, <1>8, <1>9 DEF CurrencyInvariant, Good
<1>11. QED
  BY <1>4, <1>10 DEF CurrencyInvariant

\* The server's steps leave the disk alone.
LEMMA ServerCurrency ==
  ASSUME CurrencyInvariant, TypeOK', UNCHANGED disk, folder'.isReady = TRUE,
         NEW S, Good(folder', disk, edits', S), S \subseteq Unreported'
  PROVE  CurrencyInvariant'
<1>1. Good(folder', disk', edits', Unreported')
  BY DEF Good, Current
<1>2. QED
  BY <1>1 DEF CurrencyInvariant

\* What is clean, and what is remembered, is what reading would give now: for
\* every set of files, texts, plugins and settings, while all modules are in the
\* folder, versions grow and the plugins of a folder in use stay the same.
THEOREM DocumentsAreCurrent ==
  ASSUME External = {}, ~VersionsRestart, ~TogglesPlugins
  PROVE  Spec => []TextsReadAreCurrent
<1>1. Init /\ TypeOK => CurrencyInvariant
  <2> SUFFICES ASSUME Init, TypeOK PROVE CurrencyInvariant
    OBVIOUS
  <2>1. /\ folder.managedFiles = Nothing /\ folder.pluginDocuments = Nothing
        /\ folder.sourceNodes = Nothing /\ DOMAIN Nothing = {}
    BY DEF Init, Nothing
  <2>2. Good(folder, disk, edits, Unreported)
    BY <2>1 DEF Good, Versions, Remembering, Current, Managed, Modules
  <2> QED
    BY <2>1, <2>2 DEF CurrencyInvariant, Modules
<1>2. CurrencyInvariant /\ TypeOK' /\ [Next]_vars => CurrencyInvariant'
  <2> SUFFICES ASSUME CurrencyInvariant, TypeOK', [Next]_vars PROVE CurrencyInvariant'
    OBVIOUS
  <2> DEFINE S == Unreported
  <2>1. /\ TypeOK /\ Good(folder, disk, edits, S) /\ edits \in Nat
        /\ \A file \in S : Pending(file)
    BY DEF CurrencyInvariant, Unreported, TypeOK
  <2>2. ASSUME NEW file \in Files, NEW text \in Texts, WriteFile(file, text)
        PROVE  CurrencyInvariant'
    <3>1. PICK type : Report(file, type)
      BY <2>2 DEF WriteFile
    <3>2. \A f \in Files : disk'[f] # disk[f] => f = file
      BY <2>1, <2>2 DEF WriteFile, TypeOK
    <3> QED
      BY <2>2, <3>1, <3>2, ClientCurrency DEF WriteFile
  <2>3. ASSUME NEW file \in Files, DeleteFile(file)
        PROVE  CurrencyInvariant'
    <3>1. \A f \in Files : disk'[f] # disk[f] => f = file
      BY <2>1, <2>3 DEF DeleteFile, TypeOK
    <3> QED
      BY <2>3, <3>1, ClientCurrency DEF DeleteFile
  <2>4. CASE DeleteDirectory
    <3>1. \A f \in Files : disk'[f] # disk[f] => f \in FilesIn
      BY <2>1, <2>4 DEF DeleteDirectory, TypeOK
    <3> QED
      BY <2>4, <3>1, ClientCurrency DEF DeleteDirectory
  <2>5. ASSUME NEW file \in Files, NEW again, NEW required \in SUBSET Files,
               Request(file, again, required) \/ ParseRequest(file, required)
        PROVE  CurrencyInvariant'
    <3>1. Good(folder', disk, edits, S)
      BY <2>1, <2>5, RequestGood
    <3>2. Managed(folder') = Managed(folder) /\ folder'.isReady = TRUE
      BY <2>1, <2>5, RequestStep DEF InUse
    <3>3. edits' = edits /\ UNCHANGED <<disk, changes>>
      BY <2>5 DEF Request, ParseRequest
    <3>4. S \subseteq Unreported'
      BY <3>2, <3>3 DEF Unreported, Pending
    <3> QED
      BY <3>1, <3>2, <3>3, <3>4, ServerCurrency
  <2>6. ASSUME NEW file \in Files, NEW text \in Texts, NEW dependents \in SUBSET Files,
               NEW required \in SUBSET Files,
               \/ OpenTextDocument(file, text, dependents, required)
               \/ UpdateTextDocument(file, text, dependents, required)
        PROVE  CurrencyInvariant'
    <3>1. Good(folder', disk, edits + 1, S \ {file})
      BY <2>1, <2>6, OpenGood, UpdateGood
    <3>2. Managed(folder') = Managed(folder) \cup {file} /\ folder'.isReady = TRUE
      BY <2>1, <2>6, OpenStep, UpdateStep DEF InUse
    <3>3. edits' = edits + 1 /\ UNCHANGED <<disk, changes>>
      BY <2>6 DEF OpenTextDocument, UpdateTextDocument, Edit
    <3>4. S \ {file} \subseteq Unreported'
      BY <3>2, <3>3 DEF Unreported, Pending
    <3> QED
      BY <3>1, <3>2, <3>3, <3>4, ServerCurrency
  <2>7. ASSUME NEW file \in Files, NEW dependents, CloseTextDocument(file, dependents)
        PROVE  CurrencyInvariant'
    <3>1. folder' = MarkDirtyWithDependents(Closing(folder, file), file, dependents)
      BY <2>7 DEF CloseTextDocument, Closing
    <3>2. Good(folder', disk, edits, S)
      BY <2>1, <3>1, CloseGood DEF TypeOK
    <3>3. Managed(folder') = Managed(folder) \ {file} /\ folder'.isReady = TRUE
      BY <2>1, <2>7, CloseStep DEF InUse
    <3>4. edits' = edits /\ UNCHANGED <<disk, changes>>
      BY <2>7 DEF CloseTextDocument
    <3>5. S \subseteq Unreported'
      BY <3>3, <3>4 DEF Unreported, Pending
    <3> QED
      BY <3>2, <3>3, <3>4, <3>5, ServerCurrency
  <2>8. ASSUME NEW settings \in Settings, NEW required \in SUBSET Files,
               LazyInitialize(settings, required) \/ ChangeConfiguration(settings, required)
        PROVE  CurrencyInvariant'
    <3> DEFINE set == SetupWithConfiguration(folder, settings, required)
    <3>1. Configured(settings) = folder.plugins \/ Modules(folder) = {}
      BY <2>8 DEF LazyInitialize, ChangeConfiguration, CurrencyInvariant
    <3>2. FolderOK(set) /\ Good(set, disk, edits, S)
      BY <2>1, <3>1, SetupType, SetupGood DEF TypeOK
    <3> HIDE DEF set
    <3>3. ASSUME LazyInitialize(settings, required)
          PROVE  Good(folder', disk, edits, S)
      <4>1. folder' = [set EXCEPT !.isReady = TRUE]
        BY <3>3 DEF LazyInitialize, set
      <4>2. /\ folder'.plugins = set.plugins /\ folder'.managedFiles = set.managedFiles
            /\ folder'.pluginDocuments = set.pluginDocuments
            /\ folder'.sourceNodes = set.sourceNodes /\ folder'.dirty = set.dirty
        BY <3>2, <4>1 DEF FolderOK
      <4> QED
        BY <3>2, <4>2, SameGood
    <3>4. ASSUME ChangeConfiguration(settings, required)
          PROVE  Good(folder', disk, edits, S)
      <4>1. folder' = RecomputeDiagnostics(set, required)
        BY <3>4 DEF ChangeConfiguration, set
      <4>2. folder' = set \/ \E T \in SUBSET Files : folder' = Check(set, T)
        BY <3>2, <4>1, RecomputeSteps
      <4> QED
        BY <2>1, <3>2, <4>2, CheckGood
    <3>5. Good(folder', disk, edits, S)
      BY <2>8, <3>3, <3>4
    <3>6. Managed(folder') = Managed(folder) /\ folder'.isReady = TRUE
      BY <2>1, <2>8, InitializeStep, ChangeConfigurationStep DEF InUse
    <3>7. edits' = edits /\ UNCHANGED <<disk, changes>>
      BY <2>8 DEF LazyInitialize, ChangeConfiguration
    <3>8. S \subseteq Unreported'
      BY <3>6, <3>7 DEF Unreported, Pending
    <3> QED
      BY <3>5, <3>6, <3>7, <3>8, ServerCurrency
  <2>9. ASSUME NEW dependents \in SUBSET Files, NEW required \in SUBSET Files,
               OnDidChangeWatchedFiles(dependents, required)
        PROVE  CurrencyInvariant'
    <3>1. Good(folder', disk, edits, {})
      BY <2>1, <2>9, WatchGood
    <3>2. folder'.isReady = TRUE
      BY <2>1, <2>9, WatchStep DEF InUse
    <3>3. edits' = edits /\ UNCHANGED disk
      BY <2>9 DEF OnDidChangeWatchedFiles
    <3>4. Good(folder', disk, edits', Unreported')
      BY <3>1, <3>3 DEF Good, Current
    <3> QED
      BY <3>2, <3>3, <3>4, ServerCurrency
  <2>10. CASE IgnoreWatchedFiles
    <3>1. Modules(folder) = {} /\ UNCHANGED <<disk, edits, folder>>
      BY <2>10 DEF IgnoreWatchedFiles, CurrencyInvariant
    <3>2. Good(folder, disk, edits, Unreported')
      BY <2>1, <3>1 DEF Good, Current
    <3> QED
      BY <2>10, <3>1, <3>2 DEF CurrencyInvariant, IgnoreWatchedFiles
  <2>11. CASE UNCHANGED vars
    <3>1. Unreported' = Unreported
      BY <2>11 DEF vars, Unreported, Pending
    <3> QED
      BY <2>11, <3>1 DEF vars, CurrencyInvariant
  <2> QED
    BY <2>2, <2>3, <2>4, <2>5, <2>6, <2>7, <2>8, <2>9, <2>10, <2>11, NextSteps
<1>3. CurrencyInvariant => TextsReadAreCurrent
  <2> SUFFICES ASSUME CurrencyInvariant PROVE CleanModuleIsCurrent /\ PluginDocumentIsCurrent
    BY DEF TextsReadAreCurrent
  <2>1. \A file : ReadSource(folder, file) = FreshSource(folder, disk, file)
    BY ReadSourceIsFresh DEF CurrencyInvariant, Good
  <2>2. CleanModuleIsCurrent
    BY <2>1 DEF CurrencyInvariant, Good, Current, CleanModuleIsCurrent, Readable, IsReadable,
                Unreported
  <2>3. PluginDocumentIsCurrent
    BY DEF CurrencyInvariant, Good, Remembering, PluginDocumentIsCurrent, GetTextDocument
  <2> QED
    BY <2>2, <2>3
<1>4. QED
  BY <1>1, <1>2, <1>3, DocumentsTypeCorrect, PTL DEF Spec

-----------------------------------------------------------------------------
(* Plugins run what their files hold.                                       *)

\* What is reported is pending, and nothing else is forgotten.
LEMMA ReportedIsPending ==
  ASSUME TypeOK, External = {}, NEW uri, NEW type, Report(uri, type)
  PROVE  /\ changes' = Append(changes, [uri |-> uri, type |-> type])
         /\ \A file : Pending(file) => Pending(file)'
         /\ \A file : file = uri \/ (uri = Directory /\ file \in FilesIn) => Pending(file)'
<1>1. changes' = Append(changes, [uri |-> uri, type |-> type]) /\ changes \in Seq(Events)
  BY DEF Report, TypeOK
<1>2. \A file : Pending(file) => Pending(file)'
  BY <1>1 DEF Pending
<1>3. Len(changes) + 1 \in DOMAIN changes' /\ changes'[Len(changes) + 1].uri = uri
  BY <1>1
<1>4. \A file : file = uri \/ (uri = Directory /\ file \in FilesIn) => Pending(file)'
  BY <1>3 DEF Pending
<1>5. QED
  BY <1>1, <1>2, <1>4

\* A folder that is not in use has no plugins, so dropping events loses nothing.
PluginInvariant ==
  /\ TypeOK
  /\ ~folder.isReady => DOMAIN folder.plugins = {}
  /\ LoadedPluginIsCurrent

\* A listed plugin runs what its file holds, for every set of scripts that are in
\* the folder and in no directory that is deleted as a whole.
THEOREM LoadedPluginsAreCurrent ==
  ASSUME External = {}, Scripts \cap FilesIn = {}
  PROVE  Spec => []LoadedPluginIsCurrent
<1>1. Init /\ TypeOK => PluginInvariant
  BY DEF Init, PluginInvariant, LoadedPluginIsCurrent, Nothing
<1>2. PluginInvariant /\ TypeOK' /\ [Next]_vars => PluginInvariant'
  <2> SUFFICES ASSUME PluginInvariant, TypeOK', [Next]_vars PROVE PluginInvariant'
    OBVIOUS
  <2>1. TypeOK /\ DOMAIN folder.plugins \subseteq Scripts
    BY DEF PluginInvariant, TypeOK, FolderOK, IsPartial
  <2>2. ASSUME NEW uri, NEW type, Report(uri, type), folder' = folder,
               \A file \in Files : disk'[file] # disk[file] =>
                 file = uri \/ (uri = Directory /\ file \in FilesIn)
        PROVE  PluginInvariant'
    <3>1. \A script \in DOMAIN folder.plugins :
            Pending(script)' \/ (~Pending(script) /\ disk'[script] = disk[script])
      BY <2>1, <2>2, ReportedIsPending, DocumentsAssumption
    <3>2. \A script \in DOMAIN folder.plugins :
            Pending(script)' \/ folder.plugins[script] = Load(script)'
      BY <3>1 DEF PluginInvariant, LoadedPluginIsCurrent, Load
    <3> QED
      BY <2>2, <3>2 DEF PluginInvariant, LoadedPluginIsCurrent
  <2>3. ASSUME folder'.isReady = TRUE, folder'.plugins = folder.plugins,
               UNCHANGED <<disk, changes>>
        PROVE  PluginInvariant'
    BY <2>3 DEF PluginInvariant, LoadedPluginIsCurrent, Pending, Load
  <2>4. ASSUME NEW file \in Files, NEW text \in Texts, WriteFile(file, text)
        PROVE  PluginInvariant'
    <3>1. PICK type : Report(file, type)
      BY <2>4 DEF WriteFile
    <3>2. \A f \in Files : disk'[f] # disk[f] => f = file
      BY <2>1, <2>4 DEF WriteFile, TypeOK
    <3> QED
      BY <2>2, <2>4, <3>1, <3>2 DEF WriteFile
  <2>5. ASSUME NEW file \in Files, DeleteFile(file)
        PROVE  PluginInvariant'
    <3>1. \A f \in Files : disk'[f] # disk[f] => f = file
      BY <2>1, <2>5 DEF DeleteFile, TypeOK
    <3> QED
      BY <2>2, <2>5, <3>1 DEF DeleteFile
  <2>6. CASE DeleteDirectory
    <3>1. \A f \in Files : disk'[f] # disk[f] => f \in FilesIn
      BY <2>1, <2>6 DEF DeleteDirectory, TypeOK
    <3> QED
      BY <2>2, <2>6, <3>1 DEF DeleteDirectory
  <2>7. ASSUME NEW file \in Files, NEW again \in SUBSET Files, NEW required \in SUBSET Files,
               Request(file, again, required) \/ ParseRequest(file, required)
        PROVE  PluginInvariant'
    <3>1. InUse(folder', Managed(folder), folder.plugins)
      BY <2>1, <2>7, RequestStep
    <3> QED
      BY <2>3, <2>7, <3>1 DEF InUse, Request, ParseRequest
  <2>8. ASSUME NEW file \in Files, NEW text \in Texts, NEW dependents \in SUBSET Files,
               NEW required \in SUBSET Files,
               \/ OpenTextDocument(file, text, dependents, required)
               \/ UpdateTextDocument(file, text, dependents, required)
        PROVE  PluginInvariant'
    <3>1. InUse(folder', Managed(folder) \cup {file}, folder.plugins)
      BY <2>1, <2>8, OpenStep, UpdateStep
    <3> QED
      BY <2>3, <2>8, <3>1 DEF InUse, OpenTextDocument, UpdateTextDocument
  <2>9. ASSUME NEW file \in Files, NEW dependents, CloseTextDocument(file, dependents)
        PROVE  PluginInvariant'
    <3>1. InUse(folder', Managed(folder) \ {file}, folder.plugins)
      BY <2>1, <2>9, CloseStep
    <3> QED
      BY <2>3, <2>9, <3>1 DEF InUse, CloseTextDocument
  <2>10. ASSUME NEW settings \in Settings, NEW required \in SUBSET Files,
                LazyInitialize(settings, required) \/ ChangeConfiguration(settings, required)
         PROVE  PluginInvariant'
    <3>1. InUse(folder', Managed(folder), Configured(settings))
      BY <2>1, <2>10, InitializeStep, ChangeConfigurationStep
    <3>2. \A script \in DOMAIN Configured(settings) : Configured(settings)[script] = Load(script)
      BY DEF Configured
    <3>3. UNCHANGED disk
      BY <2>10 DEF LazyInitialize, ChangeConfiguration
    <3>4. \A script : Load(script)' = Load(script)
      BY <3>3 DEF Load
    <3> QED
      BY <3>1, <3>2, <3>4 DEF InUse, PluginInvariant, LoadedPluginIsCurrent
  <2>11. ASSUME NEW dependents \in SUBSET Files, NEW required \in SUBSET Files,
                OnDidChangeWatchedFiles(dependents, required)
         PROVE  PluginInvariant'
    <3>1. InUse(folder', Managed(folder),
                IF PluginFileChanged(folder) THEN Reloaded(folder) ELSE folder.plugins)
      BY <2>1, <2>11, WatchStep
    <3>2. UNCHANGED disk
      BY <2>11 DEF OnDidChangeWatchedFiles
    <3>3. \A script : Load(script)' = Load(script)
      BY <3>2 DEF Load
    <3>4. ~PluginFileChanged(folder) =>
            \A script \in DOMAIN folder.plugins : folder.plugins[script] = Load(script)
      <4> SUFFICES ASSUME ~PluginFileChanged(folder), NEW script \in DOMAIN folder.plugins
                   PROVE  folder.plugins[script] = Load(script)
        OBVIOUS
      <4>1. ~Pending(script)
        BY <2>1 DEF Pending, PluginFileChanged, IsPluginFile
      <4> QED
        BY <4>1 DEF PluginInvariant, LoadedPluginIsCurrent
    <3>5. \A script \in DOMAIN Reloaded(folder) : Reloaded(folder)[script] = Load(script)
      BY DEF Reloaded
    <3> QED
      BY <3>1, <3>3, <3>4, <3>5 DEF InUse, PluginInvariant, LoadedPluginIsCurrent
  <2>12. CASE IgnoreWatchedFiles
    BY <2>12 DEF IgnoreWatchedFiles, PluginInvariant, LoadedPluginIsCurrent
  <2>13. CASE UNCHANGED vars
    BY <2>13 DEF vars, PluginInvariant, LoadedPluginIsCurrent, Pending, Load
  <2> QED
    BY <2>4, <2>5, <2>6, <2>7, <2>8, <2>9, <2>10, <2>11, <2>12, <2>13, NextSteps
<1>3. QED
  BY <1>1, <1>2, DocumentsTypeCorrect, PTL DEF Spec, PluginInvariant

-----------------------------------------------------------------------------
(* Deleted files are no modules.                                            *)

About(event, file) == event.uri = file \/ (event.uri = Directory /\ file \in FilesIn)

\* The last event about the file that is yet to be reported says it is gone.
LastDeletes(file) ==
  \E i \in DOMAIN changes :
    /\ About(changes[i], file)
    /\ changes[i].type = "Deleted"
    /\ \A j \in DOMAIN changes : j > i => ~About(changes[j], file)

\* A module or document without a file is about to be reported gone.
GoneInvariant ==
  /\ TypeOK
  /\ ~folder.isReady => Modules(folder) = {} /\ Managed(folder) = {}
  /\ \A file \in Modules(folder) \cup Managed(folder) :
       disk[file] = "absent" => LastDeletes(file)

\* Events come last: one about the file decides, another one changes nothing.
LEMMA AppendDeletes ==
  ASSUME TypeOK, NEW event, changes' = Append(changes, event), NEW file
  PROVE  /\ About(event, file) /\ event.type = "Deleted" => LastDeletes(file)'
         /\ LastDeletes(file) /\ ~About(event, file) => LastDeletes(file)'
<1> DEFINE n == Len(changes) + 1
<1>1. /\ n \in DOMAIN changes' /\ changes'[n] = event
      /\ \A j \in DOMAIN changes' : j \in DOMAIN changes \/ j = n
      /\ \A j \in DOMAIN changes : j \in DOMAIN changes' /\ changes'[j] = changes[j]
      /\ \A j \in DOMAIN changes' : ~(j > n)
  BY DEF TypeOK
<1> HIDE DEF n
<1>2. \A e : About(e, file)' <=> About(e, file)
  BY DEF About
<1>3. ASSUME About(event, file), event.type = "Deleted"
      PROVE  LastDeletes(file)'
  BY <1>1, <1>2, <1>3 DEF LastDeletes, About
<1>4. ASSUME LastDeletes(file), ~About(event, file)
      PROVE  LastDeletes(file)'
  BY <1>1, <1>4 DEF LastDeletes, About
<1>5. QED
  BY <1>3, <1>4

LEMMA ClientGone ==
  ASSUME External = {}, GoneInvariant, TypeOK', NEW uri, NEW type, Report(uri, type),
         folder' = folder,
         \A file \in Files :
           disk'[file] = "absent" =>
             IF file = uri \/ (uri = Directory /\ file \in FilesIn)
             THEN type = "Deleted" ELSE disk[file] = "absent"
  PROVE  GoneInvariant'
<1> DEFINE event == [uri |-> uri, type |-> type]
<1>1. TypeOK /\ changes' = Append(changes, event) /\ event.uri = uri /\ event.type = type
  BY DEF Report, GoneInvariant
<1> HIDE DEF event
<1>2. Modules(folder) \subseteq Files /\ Managed(folder) \subseteq Files
  BY <1>1 DEF TypeOK, FolderOK, Modules, Managed, IsPartial
<1>3. ASSUME NEW file \in Modules(folder) \cup Managed(folder), disk'[file] = "absent"
      PROVE  LastDeletes(file)'
  <2>1. CASE About(event, file)
    <3>1. event.type = "Deleted"
      BY <1>1, <1>2, <1>3, <2>1 DEF About
    <3> QED
      BY <1>1, <2>1, <3>1, AppendDeletes
  <2>2. CASE ~About(event, file)
    <3>1. disk[file] = "absent"
      BY <1>1, <1>2, <1>3, <2>2 DEF About
    <3>2. LastDeletes(file)
      BY <3>1 DEF GoneInvariant
    <3> QED
      BY <1>1, <2>2, <3>2, AppendDeletes
  <2> QED
    BY <2>1, <2>2
<1>4. QED
  BY <1>3 DEF GoneInvariant, Modules, Managed

\* A folder in use keeps the invariant when its new modules can be read and its
\* new documents are files.
LEMMA ServerGone ==
  ASSUME GoneInvariant, TypeOK', folder'.isReady = TRUE, UNCHANGED <<disk, changes>>,
         Grows(folder', folder, disk),
         \A file \in Managed(folder') : file \in Managed(folder) \/ disk[file] # "absent"
  PROVE  GoneInvariant'
<1>1. \A file : LastDeletes(file)' <=> LastDeletes(file)
  BY DEF LastDeletes, About
<1>2. \A file \in Modules(folder') \cup Managed(folder') :
        disk[file] = "absent" => LastDeletes(file)
  BY DEF Grows, Readable, GoneInvariant
<1>3. QED
  BY <1>1, <1>2 DEF GoneInvariant, Modules, Managed

\* After the events are handled, every module and every document can be read
\* from the disk.
LEMMA WatchGone ==
  ASSUME External = {}, EditorClosesFirst, GoneInvariant, TypeOK',
         NEW dependents \in SUBSET Files, NEW required \in SUBSET Files,
         OnDidChangeWatchedFiles(dependents, required)
  PROVE  GoneInvariant'
<1>1. /\ folder'.isReady = TRUE /\ Managed(folder') = Managed(folder)
      /\ \A file \in Modules(folder') :
           \/ file \in Modules(folder) \ DeletedModules(folder)
           \/ Readable(folder', disk, file)
  BY WatchStep DEF GoneInvariant, InUse
<1>2. disk' = disk /\ \A file \in Managed(folder) : disk[file] # "absent"
  BY DEF OnDidChangeWatchedFiles
<1>3. ASSUME NEW file \in Modules(folder), LastDeletes(file)
      PROVE  file \in DeletedModules(folder)
  <2>1. file \in Files
    BY <1>3 DEF GoneInvariant, TypeOK, FolderOK, Modules
  <2>2. \A event : Concerns(folder, event, file) <=> About(event, file)
    BY <1>3, <2>1, DocumentsAssumption DEF Concerns, About
  <2> QED
    BY <1>3, <2>1, <2>2 DEF LastDeletes, DeletedModules
<1>4. \A file \in Modules(folder') : disk[file] # "absent"
  BY <1>1, <1>2, <1>3 DEF GoneInvariant, Readable
<1>5. QED
  BY <1>1, <1>2, <1>4 DEF GoneInvariant, Modules, Managed

\* A file that is gone, reported and not open is no module, for every directory
\* deleted as a whole and every order of the events, provided that documents are
\* closed before the deletion of their file is reported.
THEOREM DeletedModulesAreGone ==
  ASSUME External = {}, EditorClosesFirst
  PROVE  Spec => []DeletedModuleIsGone
<1>1. Init /\ TypeOK => GoneInvariant
  BY DEF Init, GoneInvariant, Modules, Managed, Nothing
<1>2. GoneInvariant /\ TypeOK' /\ [Next]_vars => GoneInvariant'
  <2> SUFFICES ASSUME GoneInvariant, TypeOK', [Next]_vars PROVE GoneInvariant'
    OBVIOUS
  <2>1. TypeOK
    BY DEF GoneInvariant
  <2>2. ASSUME NEW file \in Files, NEW text \in Texts, WriteFile(file, text)
        PROVE  GoneInvariant'
    <3>1. PICK type : Report(file, type)
      BY <2>2 DEF WriteFile
    <3>2. \A f \in Files : disk'[f] = "absent" => f # file /\ disk[f] = "absent"
      BY <2>1, <2>2, DocumentsAssumption DEF WriteFile, TypeOK
    <3>3. file # Directory /\ folder' = folder
      BY <2>2, DocumentsAssumption DEF WriteFile
    <3> QED
      BY <3>1, <3>2, <3>3, ClientGone
  <2>3. ASSUME NEW file \in Files, DeleteFile(file)
        PROVE  GoneInvariant'
    <3>1. Report(file, "Deleted") /\ folder' = folder
      BY <2>3 DEF DeleteFile
    <3>2. \A f \in Files : disk'[f] = "absent" => f = file \/ disk[f] = "absent"
      BY <2>1, <2>3 DEF DeleteFile, TypeOK
    <3> QED
      BY <3>1, <3>2, ClientGone
  <2>4. CASE DeleteDirectory
    <3>1. Report(Directory, "Deleted") /\ folder' = folder
      BY <2>4 DEF DeleteDirectory
    <3>2. \A f \in Files : disk'[f] = "absent" => f \in FilesIn \/ disk[f] = "absent"
      BY <2>1, <2>4 DEF DeleteDirectory, TypeOK
    <3> QED
      BY <3>1, <3>2, ClientGone
  <2>5. ASSUME NEW file \in Files, NEW again \in SUBSET Files, NEW required \in SUBSET Files,
               Request(file, again, required) \/ ParseRequest(file, required)
        PROVE  GoneInvariant'
    <3>1. InUse(folder', Managed(folder), folder.plugins) /\ Grows(folder', folder, disk)
      BY <2>1, <2>5, RequestStep
    <3> QED
      BY <2>5, <3>1, ServerGone DEF InUse, Request, ParseRequest
  <2>6. ASSUME NEW file \in Files, NEW text \in Texts, NEW dependents \in SUBSET Files,
               NEW required \in SUBSET Files,
               \/ OpenTextDocument(file, text, dependents, required)
               \/ UpdateTextDocument(file, text, dependents, required)
        PROVE  GoneInvariant'
    <3>1. /\ InUse(folder', Managed(folder) \cup {file}, folder.plugins)
          /\ Grows(folder', folder, disk)
      BY <2>1, <2>6, OpenStep, UpdateStep
    <3>2. file \in Managed(folder) \/ disk[file] # "absent"
      BY <2>6 DEF OpenTextDocument, UpdateTextDocument
    <3>3. UNCHANGED <<disk, changes>>
      BY <2>6 DEF OpenTextDocument, UpdateTextDocument
    <3> QED
      BY <3>1, <3>2, <3>3, ServerGone DEF InUse
  <2>7. ASSUME NEW file \in Files, NEW dependents \in SUBSET Files,
               CloseTextDocument(file, dependents)
        PROVE  GoneInvariant'
    <3>1. /\ InUse(folder', Managed(folder) \ {file}, folder.plugins)
          /\ Modules(folder') = Modules(folder)
      BY <2>1, <2>7, CloseStep
    <3> QED
      BY <2>7, <3>1, ServerGone DEF InUse, Grows, CloseTextDocument
  <2>8. ASSUME NEW settings \in Settings, NEW required \in SUBSET Files,
               LazyInitialize(settings, required) \/ ChangeConfiguration(settings, required)
        PROVE  GoneInvariant'
    <3>1. InUse(folder', Managed(folder), Configured(settings)) /\ Grows(folder', folder, disk)
      BY <2>1, <2>8, InitializeStep, ChangeConfigurationStep
    <3> QED
      BY <2>8, <3>1, ServerGone DEF InUse, LazyInitialize, ChangeConfiguration
  <2>9. ASSUME NEW dependents \in SUBSET Files, NEW required \in SUBSET Files,
               OnDidChangeWatchedFiles(dependents, required)
        PROVE  GoneInvariant'
    BY <2>9, WatchGone
  <2>10. CASE IgnoreWatchedFiles
    BY <2>10 DEF IgnoreWatchedFiles, GoneInvariant, Modules, Managed
  <2>11. CASE UNCHANGED vars
    BY <2>11 DEF vars, GoneInvariant, LastDeletes, About, Modules, Managed
  <2> QED
    BY <2>2, <2>3, <2>4, <2>5, <2>6, <2>7, <2>8, <2>9, <2>10, <2>11, NextSteps
<1>3. GoneInvariant => DeletedModuleIsGone
  <2> SUFFICES ASSUME GoneInvariant, NEW file \in Modules(folder), ~IsReadable(folder, file)
               PROVE  Pending(file)
    BY DEF DeletedModuleIsGone
  <2>1. LastDeletes(file)
    BY DEF GoneInvariant, IsReadable
  <2> QED
    BY <2>1 DEF LastDeletes, About, Pending
<1>4. QED
  BY <1>1, <1>2, <1>3, DocumentsTypeCorrect, PTL DEF Spec
=============================================================================
