-------------------------- MODULE Diagnostics_proofs --------------------------
(***************************************************************************)
(* What a client is shown, for every set of files, whatever they require   *)
(* of each other, are ignored and whatever settings the folder may have.   *)
(***************************************************************************)
EXTENDS Diagnostics, TLAPS

-----------------------------------------------------------------------------
(* The folder and its reports.                                             *)

ManagedFiles == UNION {[S -> Texts] : S \in SUBSET Files}

Folder == [isReady : BOOLEAN, config : Configs, managedFiles : ManagedFiles,
           known : SUBSET Files]

LEMMA ManagedFilesType ==
    ASSUME NEW m \in ManagedFiles
    PROVE  /\ DOMAIN m \subseteq Files
           /\ \A f \in DOMAIN m : m[f] \in Texts
BY DEF ManagedFiles

LEMMA MapIsManagedFiles ==
    ASSUME NEW S \in SUBSET Files, NEW m \in [S -> Texts]
    PROVE  m \in ManagedFiles
BY DEF ManagedFiles

LEMMA FolderIsOK ==
    ASSUME NEW w \in Folder
    PROVE  FolderOK(w) /\ Managed(w) \subseteq Files
BY ManagedFilesType DEF Folder, FolderOK, Managed

LEMMA DiagnosticsType ==
    ASSUME NEW w, NEW f \in Files
    PROVE  Diagnostics(w, f) \in Reports
<1>1. Requires[f] \subseteq Files
  BY DiagnosticsAssumption
<1>. QED BY <1>1 DEF Diagnostics, Reports, NoReport

\* Checking modules makes them known and changes nothing else.
LEMMA CheckIs ==
    ASSUME NEW w \in Folder, NEW S \in SUBSET Files
    PROVE  /\ Check(w, S) \in Folder
           /\ Check(w, S).isReady = w.isReady
           /\ Check(w, S).config = w.config
           /\ Check(w, S).managedFiles = w.managedFiles
           /\ Check(w, S).known = w.known \cup
                {f \in UNION {Requires[g] : g \in S} : Source(w, f) # "absent"}
<1> DEFINE new == {f \in UNION {Requires[g] : g \in S} : Source(w, f) # "absent"}
<1>1. new \subseteq Files
  BY DiagnosticsAssumption
<1>2. Check(w, S) = [w EXCEPT !.known = @ \cup new]
  BY DEF Check
<1>. HIDE DEF new
<1>. QED BY <1>1, <1>2 DEF Folder, new

\* Reports depend on the texts of the folder only.
LEMMA SameTexts ==
    ASSUME NEW v, NEW w, v.managedFiles = w.managedFiles
    PROVE  /\ Managed(v) = Managed(w)
           /\ \A f : Source(v, f) = Source(w, f)
           /\ \A f : Diagnostics(v, f) = Diagnostics(w, f)
<1>1. Managed(v) = Managed(w) /\ \A f : Source(v, f) = Source(w, f)
  BY DEF Managed, Source
<1>2. ASSUME NEW f PROVE Diagnostics(v, f) = Diagnostics(w, f)
  BY <1>1 DEF Diagnostics
<1>. QED BY <1>1, <1>2

LEMMA WorkspaceDiagnosticsIs ==
    ASSUME NEW w, NEW f \in DOMAIN WorkspaceDiagnostics(w)
    PROVE  /\ f \in Files /\ disk[f] # "absent"
           /\ WorkspaceDiagnostics(w)[f]
                = IF w.config.workspace /\ f \notin Ignored
                  THEN Diagnostics(w, f) ELSE NoReport
           /\ WorkspaceDiagnostics(w)[f] \in Reports
<1>1. f \in Files /\ disk[f] # "absent"
      /\ WorkspaceDiagnostics(w)[f]
           = IF w.config.workspace /\ f \notin Ignored
             THEN Diagnostics(w, f) ELSE NoReport
  BY DEF WorkspaceDiagnostics
<1>. QED BY <1>1, DiagnosticsType DEF Reports, NoReport

\* A report replaces what is shown of a file.
LEMMA ShowIs ==
    ASSUME shown \in [Files -> Reports], NEW reports, Show(reports),
           \A f \in DOMAIN reports : f \in Files => reports[f] \in Reports
    PROVE  /\ shown' \in [Files -> Reports]
           /\ \A f \in Files : shown'[f] = IF f \in DOMAIN reports
                                           THEN reports[f] ELSE shown[f]
BY DEF Show

\* Clearing shows nothing of the files.
LEMMA ShowNothing ==
    ASSUME shown \in [Files -> Reports], NEW S, Show([f \in S |-> NoReport])
    PROVE  /\ shown' \in [Files -> Reports]
           /\ \A f \in Files : shown'[f] = IF f \in S THEN NoReport ELSE shown[f]
<1>1. NoReport \in Reports
  BY DEF NoReport, Reports
<1>. QED BY <1>1 DEF Show

\* What a client with push diagnostics is sent of the files in S.
LEMMA PublishIs ==
    ASSUME shown \in [Files -> Reports], NEW w, NEW S,
           Show(PublishDiagnostics(w, S))
    PROVE  /\ shown' \in [Files -> Reports]
           /\ \A f \in Files : shown'[f] = IF f \in S THEN Diagnostics(w, f)
                                           ELSE shown[f]
<1>1. PublishDiagnostics(w, S) = [f \in S |-> Diagnostics(w, f)]
  BY DEF PublishDiagnostics, DocumentDiagnostics
<1>2. \A f \in Files : Diagnostics(w, f) \in Reports
  BY DiagnosticsType
<1>. QED BY <1>1, <1>2, ShowIs

\* The files checked when the diagnostics are recomputed.
Recomputed(w) == IF w.config.workspace THEN WorkspaceChecks(w) ELSE Managed(w)

LEMMA RecomputedType ==
    ASSUME NEW w \in Folder
    PROVE  Recomputed(w) \in SUBSET Files
BY FolderIsOK DEF Recomputed, WorkspaceChecks

\* recomputeDiagnostics sends a client with push diagnostics new reports.
LEMMA RecomputePushes ==
    ASSUME shown \in [Files -> Reports], NEW w \in Folder, NEW deleted, ~pull,
           RecomputeDiagnostics(w, deleted)
    PROVE  /\ folder' = Check(w, Recomputed(w))
           /\ shown' \in [Files -> Reports]
           /\ \A f \in Files :
                /\ f \in Recomputed(w) => shown'[f] = Diagnostics(w, f)
                /\ \/ f \in Recomputed(w)
                   \/ shown'[f] = NoReport
                   \/ f \notin deleted /\ shown'[f] = shown[f]
           /\ UNCHANGED <<stream, replies, owed>>
<1> DEFINE reports == IF w.config.workspace THEN WorkspaceDiagnostics(w)
                      ELSE PublishDiagnostics(w, Recomputed(w))
           sent == [f \in DOMAIN reports \cup Cleared(deleted) |->
                      IF f \in DOMAIN reports THEN reports[f] ELSE NoReport]
<1>1. /\ folder' = Check(w, Recomputed(w))
      /\ UNCHANGED <<stream, replies, owed>>
      /\ Show(sent)
  BY DEF RecomputeDiagnostics, Recomputed
<1>2. Cleared(deleted) = deleted
  BY DEF Cleared
<1>3. /\ DOMAIN sent = DOMAIN reports \cup deleted
      /\ \A f \in DOMAIN sent : sent[f] = IF f \in DOMAIN reports THEN reports[f]
                                          ELSE NoReport
  <2>. HIDE DEF reports
  <2>. QED BY <1>2
<1>4. \A f \in Files : f \in DOMAIN reports =>
        reports[f] = IF f \in Recomputed(w) THEN Diagnostics(w, f) ELSE NoReport
  <2>1. CASE w.config.workspace
    BY <2>1, WorkspaceDiagnosticsIs DEF Recomputed, WorkspaceChecks
  <2>2. CASE ~w.config.workspace
    BY <2>2 DEF PublishDiagnostics, DocumentDiagnostics
  <2>. QED BY <2>1, <2>2
<1>5. Recomputed(w) \subseteq DOMAIN reports
  <2>1. CASE w.config.workspace
    BY <2>1 DEF Recomputed, WorkspaceChecks, WorkspaceDiagnostics
  <2>2. CASE ~w.config.workspace
    BY <2>2 DEF PublishDiagnostics
  <2>. QED BY <2>1, <2>2
<1>6. /\ NoReport \in Reports
      /\ \A f \in Files : Diagnostics(w, f) \in Reports
  BY DiagnosticsType DEF NoReport, Reports
<1>. HIDE DEF sent, reports
<1>7. \A f \in DOMAIN sent : f \in Files => sent[f] \in Reports
  BY <1>3, <1>4, <1>6
<1>8. /\ shown' \in [Files -> Reports]
      /\ \A f \in Files : shown'[f] = IF f \in DOMAIN sent THEN sent[f] ELSE shown[f]
  BY <1>1, <1>7, ShowIs
<1>. QED BY <1>1, <1>3, <1>4, <1>5, <1>8

\* Restarting ends the stream, and never takes back what the client was told.
LEMMA RestartIs ==
    ASSUME owed \in BOOLEAN, refreshes \in BOOLEAN, RestartWorkspaceDiagnostics
    PROVE  /\ TerminateWorkspaceDiagnostics
           /\ owed' \in BOOLEAN
           /\ owed' = owed \/ owed' = TRUE
           /\ refreshes \/ Retriggers => owed' = TRUE
<1>1. TerminateWorkspaceDiagnostics
  BY DEF RestartWorkspaceDiagnostics
<1>2. CASE Retriggers
  BY <1>1, <1>2 DEF RestartWorkspaceDiagnostics
<1>3. CASE ~Retriggers
  <2>1. owed' = (owed \/ refreshes)
    BY <1>3 DEF RestartWorkspaceDiagnostics, RefreshWorkspaceDiagnostics
  <2>. QED BY <1>1, <1>3, <2>1
<1>. QED BY <1>2, <1>3

\* A client with pull diagnostics is told to ask again.
LEMMA RecomputeAsks ==
    ASSUME shown \in [Files -> Reports], NEW w, NEW deleted, pull,
           RecomputeDiagnostics(w, deleted)
    PROVE  /\ folder' = w
           /\ shown' \in [Files -> Reports]
           /\ \A f \in Files : shown'[f] \in {shown[f], NoReport}
           /\ RestartWorkspaceDiagnostics
<1>1. Show([f \in Cleared(deleted) |-> NoReport])
  BY DEF RecomputeDiagnostics
<1>. QED BY <1>1, ShowNothing DEF RecomputeDiagnostics

LEMMA ClearingIs ==
    ASSUME shown \in [Files -> Reports], owed \in BOOLEAN, refreshes \in BOOLEAN,
           NEW S, ClearDiagnosticsForFiles(S)
    PROVE  /\ shown' \in [Files -> Reports]
           /\ \A f \in Files : shown'[f] = IF f \in Cleared(S) THEN NoReport
                                           ELSE shown[f]
           /\ owed' \in BOOLEAN
           /\ owed' = owed \/ owed' = TRUE
<1>1. Show([f \in Cleared(S) |-> NoReport])
  BY DEF ClearDiagnosticsForFiles
<1>2. owed' = (owed \/ refreshes) \/ owed' = owed
  BY DEF ClearDiagnosticsForFiles, RefreshWorkspaceDiagnostics
<1>3. owed' \in BOOLEAN /\ (owed' = owed \/ owed' = TRUE)
  BY <1>2
<1>. QED BY <1>1, <1>3, ShowNothing

-----------------------------------------------------------------------------
(* Types, and the workspace/diagnostic request that is left open.          *)

TypeInv ==
    /\ TypeOK
    /\ folder \in Folder

\* The requests that were not made have no answer, and only a client that sends
\* a token has one left open.
StreamInv ==
    /\ StreamIsOfOneOpenRequest
    /\ OpenRequestIsRemembered
    /\ \A n \in 1..MaxRequests : n > requests => replies[n] = 0

LEMMA InitTypes == Init => TypeInv /\ StreamInv
<1> SUFFICES ASSUME Init PROVE TypeInv /\ StreamInv
  OBVIOUS
<1>1. [f \in {} |-> "fine"] \in ManagedFiles
  <2>1. [f \in {} |-> "fine"] \in [{} -> Texts]
    OBVIOUS
  <2>. QED BY <2>1, MapIsManagedFiles
<1>2. PICK config \in Configs :
        folder = [isReady |-> FALSE, config |-> config,
                  managedFiles |-> [f \in {} |-> "fine"], known |-> {}]
  BY DEF Init
<1>3. folder \in Folder
  BY <1>1, <1>2 DEF Folder
<1>4. /\ MaxRequests \in Nat /\ MaxEdits \in Nat
      /\ disk \in [Files -> Texts \cup {"absent"}]
  BY DiagnosticsAssumption DEF Init, Texts
<1>5. /\ shown \in [Files -> Reports] /\ replies \in [1..MaxRequests -> Nat]
      /\ events \in Seq([uri : Files, type : {"changed", "deleted"}])
  BY <1>4 DEF Init, Reports, NoReport
<1>6. /\ requests = 0 /\ edits = 0 /\ unsaved = {} /\ cancelled = {}
      /\ {pull, streams, refreshes, owed, othersReady} \subseteq BOOLEAN
      /\ stream = [requestId |-> 0, token |-> 0]
  BY DEF Init, None
<1>7. 1..0 = {} /\ 0 \in 0..MaxRequests /\ 0 \in 0..MaxEdits /\ 0 \in 0..0
  BY <1>4
<1>8. stream \in [requestId : 0..requests, token : 0..requests]
  BY <1>6, <1>7
<1>9. TypeInv
  BY <1>3, <1>4, <1>5, <1>6, <1>7, <1>8, FolderIsOK DEF TypeInv, TypeOK
<1>10. StreamInv
  BY <1>6, <1>7 DEF StreamInv, StreamIsOfOneOpenRequest, None, Init,
                    OpenRequestIsRemembered, Unanswered
<1>. QED BY <1>9, <1>10

-----------------------------------------------------------------------------
(* What the handlers do to the folder and to what is shown.                *)

\* What is read of a file is on disk or in an open document.
Present(w, f) == Source(w, f) # "absent"

LEMMA OpenIs ==
    ASSUME TypeInv, NEW f \in Files, OpenTextDocument(f)
    PROVE  /\ f \notin Managed(folder) /\ disk[f] # "absent"
           /\ ~OpensEarly => f \notin Touched
           /\ folder' \in Folder
           /\ folder'.isReady /\ folder'.config = folder.config
           /\ Managed(folder') = Managed(folder) \cup {f}
           /\ folder'.managedFiles[f] = disk[f]
           /\ \A g \in Managed(folder) :
                folder'.managedFiles[g] = folder.managedFiles[g]
           /\ folder.known \subseteq folder'.known
           /\ pull => folder'.known = folder.known /\ UNCHANGED shown
           /\ ~pull => /\ \A g \in Requires[f] :
                            Source(folder', g) # "absent" => g \in folder'.known
                       /\ \A g \in Files : shown'[g] = IF g = f THEN Diagnostics(folder', f)
                                                       ELSE shown[g]
           /\ shown' \in [Files -> Reports]
           /\ UNCHANGED <<clientVars, fileVars, owed, replies, stream, edits>>
<1> DEFINE managed == [g \in DOMAIN folder.managedFiles \cup {f} |->
                         IF g = f THEN disk[f] ELSE folder.managedFiles[g]]
           opened == [Initialized(folder) EXCEPT !.managedFiles = managed]
<1>1. /\ folder \in Folder /\ shown \in [Files -> Reports]
      /\ disk \in [Files -> Texts \cup {"absent"}]
  BY DEF TypeInv, TypeOK
<1>2. /\ f \notin Managed(folder) /\ disk[f] # "absent"
      /\ ~OpensEarly => f \notin Touched
      /\ IF pull THEN folder' = opened /\ UNCHANGED shown
         ELSE folder' = Check(opened, {f}) /\ Show(PublishDiagnostics(opened, {f}))
      /\ UNCHANGED <<clientVars, fileVars, owed, replies, stream, edits>>
  <2>1. opened = [Initialized(folder) EXCEPT
                    !.managedFiles = [g \in DOMAIN @ \cup {f} |->
                                        IF g = f THEN disk[f] ELSE @[g]]]
    BY <1>1 DEF Folder, Initialized
  <2>. HIDE DEF opened
  <2>. QED BY <2>1 DEF OpenTextDocument
<1>3. managed \in ManagedFiles
  <2>1. /\ DOMAIN folder.managedFiles \subseteq Files
        /\ \A g \in DOMAIN folder.managedFiles : folder.managedFiles[g] \in Texts
    BY <1>1, ManagedFilesType DEF Folder
  <2>2. managed \in [DOMAIN folder.managedFiles \cup {f} -> Texts]
    BY <1>1, <1>2, <2>1
  <2>. HIDE DEF managed
  <2>. QED BY <2>1, <2>2, MapIsManagedFiles
<1>4. /\ DOMAIN managed = Managed(folder) \cup {f}
      /\ managed[f] = disk[f]
      /\ \A g \in Managed(folder) : managed[g] = folder.managedFiles[g]
  BY <1>2 DEF Managed
<1>. HIDE DEF managed
<1>5. /\ opened \in Folder
      /\ opened.isReady /\ opened.config = folder.config
      /\ opened.managedFiles = managed /\ opened.known = folder.known
  BY <1>1, <1>3 DEF Folder, Initialized
<1>. HIDE DEF opened
<1>6. CASE pull
  BY <1>1, <1>2, <1>4, <1>5, <1>6 DEF Managed
<1>7. CASE ~pull
  <2>1. folder' = Check(opened, {f}) /\ Show(PublishDiagnostics(opened, {f}))
    BY <1>2, <1>7
  <2>2. /\ folder' \in Folder
        /\ folder'.isReady = opened.isReady
        /\ folder'.config = opened.config
        /\ folder'.managedFiles = opened.managedFiles
        /\ folder'.known = opened.known \cup
             {g \in UNION {Requires[h] : h \in {f}} : Source(opened, g) # "absent"}
    <3>1. {f} \in SUBSET Files
      OBVIOUS
    <3>. QED BY <1>5, <2>1, <3>1, CheckIs
  <2>3. /\ \A g : Source(folder', g) = Source(opened, g)
        /\ \A g : Diagnostics(folder', g) = Diagnostics(opened, g)
    BY <2>2, SameTexts
  <2>4. /\ shown' \in [Files -> Reports]
        /\ \A g \in Files : shown'[g] = IF g \in {f} THEN Diagnostics(opened, g)
                                        ELSE shown[g]
    BY <1>1, <2>1, PublishIs
  <2>5. \A g \in Requires[f] : Source(folder', g) # "absent" => g \in folder'.known
    BY <2>2, <2>3
  <2>6. /\ Managed(folder') = Managed(folder) \cup {f}
        /\ folder'.managedFiles[f] = disk[f]
        /\ \A g \in Managed(folder) : folder'.managedFiles[g] = folder.managedFiles[g]
    BY <1>4, <1>5, <2>2 DEF Managed
  <2>. QED BY <1>2, <1>5, <1>7, <2>2, <2>3, <2>4, <2>5, <2>6
<1>. QED BY <1>6, <1>7

LEMMA AffectedType ==
    ASSUME NEW w \in Folder, NEW f \in Files
    PROVE  Affected(w, f) \in SUBSET Files
BY DEF Affected, Dependents, Folder

LEMMA UpdateIs ==
    ASSUME TypeInv, NEW f \in Files, NEW text \in Texts, UpdateTextDocument(f, text)
    PROVE  /\ f \in Managed(folder) /\ unsaved' = unsaved \cup {f}
           /\ folder' \in Folder
           /\ folder'.isReady = folder.isReady /\ folder'.config = folder.config
           /\ Managed(folder') = Managed(folder)
           /\ \A g \in Managed(folder) \ {f} :
                folder'.managedFiles[g] = folder.managedFiles[g]
           /\ folder.known \subseteq folder'.known
           /\ pull => folder'.known = folder.known /\ UNCHANGED shown
           /\ ~pull => \A g \in Files :
                shown'[g] = IF g \in Affected(folder, f) THEN Diagnostics(folder', g)
                            ELSE shown[g]
           /\ shown' \in [Files -> Reports]
           /\ UNCHANGED <<clientVars, disk, events, owed, replies, stream>>
           /\ edits' \in 0..MaxEdits
<1> DEFINE managed == [folder.managedFiles EXCEPT ![f] = text]
           updated == [folder EXCEPT !.managedFiles = managed]
<1>1. /\ folder \in Folder /\ shown \in [Files -> Reports]
      /\ edits \in 0..MaxEdits /\ MaxEdits \in Nat
  BY DiagnosticsAssumption DEF TypeInv, TypeOK
<1>2. updated = [folder EXCEPT !.managedFiles[f] = text]
  BY <1>1 DEF Folder
<1>3. /\ f \in Managed(folder)
      /\ IF pull THEN folder' = updated /\ UNCHANGED shown
         ELSE /\ folder' = Check(updated, Affected(updated, f))
              /\ Show(PublishDiagnostics(updated, Affected(updated, f)))
      /\ unsaved' = unsaved \cup {f}
      /\ UNCHANGED <<clientVars, disk, events, owed, replies, stream>>
      /\ edits < MaxEdits /\ edits' = edits + 1
  <2>. HIDE DEF updated
  <2>. QED BY <1>2 DEF UpdateTextDocument, IsLoaded, Edit
<1>4. managed \in ManagedFiles
  <2>1. /\ DOMAIN folder.managedFiles \subseteq Files
        /\ folder.managedFiles \in [DOMAIN folder.managedFiles -> Texts]
    BY <1>1 DEF Folder, ManagedFiles
  <2>2. managed \in [DOMAIN folder.managedFiles -> Texts]
    BY <2>1
  <2>. HIDE DEF managed
  <2>. QED BY <2>1, <2>2, MapIsManagedFiles
<1>5. /\ DOMAIN managed = Managed(folder)
      /\ \A g \in Managed(folder) \ {f} : managed[g] = folder.managedFiles[g]
  BY DEF Managed
<1>. HIDE DEF managed
<1>6. /\ updated \in Folder
      /\ updated.isReady = folder.isReady /\ updated.config = folder.config
      /\ updated.managedFiles = managed /\ updated.known = folder.known
  BY <1>1, <1>4 DEF Folder
<1>. HIDE DEF updated
<1>7. Affected(updated, f) = Affected(folder, f)
  BY <1>6 DEF Affected, Dependents
<1>8. edits' \in 0..MaxEdits
  BY <1>1, <1>3
<1>9. CASE pull
  BY <1>1, <1>3, <1>5, <1>6, <1>8, <1>9 DEF Managed
<1>10. CASE ~pull
  <2>1. /\ folder' = Check(updated, Affected(folder, f))
        /\ Show(PublishDiagnostics(updated, Affected(folder, f)))
    BY <1>3, <1>7, <1>10
  <2>2. /\ folder' \in Folder
        /\ folder'.isReady = updated.isReady
        /\ folder'.config = updated.config
        /\ folder'.managedFiles = updated.managedFiles
        /\ updated.known \subseteq folder'.known
    <3>1. Affected(folder, f) \in SUBSET Files
      BY <1>1, AffectedType
    <3>. QED BY <1>6, <2>1, <3>1, CheckIs
  <2>3. \A g : Diagnostics(folder', g) = Diagnostics(updated, g)
    BY <2>2, SameTexts
  <2>4. /\ shown' \in [Files -> Reports]
        /\ \A g \in Files : shown'[g] = IF g \in Affected(folder, f)
                                        THEN Diagnostics(updated, g) ELSE shown[g]
    BY <1>1, <2>1, PublishIs
  <2>5. /\ Managed(folder') = Managed(folder)
        /\ \A g \in Managed(folder) \ {f} :
             folder'.managedFiles[g] = folder.managedFiles[g]
    BY <1>5, <1>6, <2>2 DEF Managed
  <2>. QED BY <1>3, <1>6, <1>8, <1>10, <2>2, <2>3, <2>4, <2>5
<1>. QED BY <1>9, <1>10

LEMMA EventIs ==
    ASSUME TypeInv, NEW f \in Files, NEW type \in {"changed", "deleted"},
           Event(f, type)
    PROVE  /\ events' \in Seq([uri : Files, type : {"changed", "deleted"}])
           /\ Touched' = Touched \cup {f}
           /\ DeletedFiles' = DeletedFiles \cup (IF type = "deleted" THEN {f} ELSE {})
<1> DEFINE e == [uri |-> f, type |-> type]
           E == [uri : Files, type : {"changed", "deleted"}]
<1>1. events \in Seq(E) /\ e \in E /\ events' = Append(events, e)
  BY DEF TypeInv, TypeOK, Event
<1>2. e.uri = f /\ e.type = type
  OBVIOUS
<1>. HIDE DEF e, E
<1>3. /\ events' \in Seq(E)
      /\ DOMAIN events' = DOMAIN events \cup {Len(events) + 1}
      /\ events'[Len(events) + 1] = e
      /\ \A i \in DOMAIN events : events'[i] = events[i]
  BY <1>1
<1>4. Touched' = Touched \cup {f}
  BY <1>2, <1>3 DEF Touched
<1>5. DeletedFiles' = DeletedFiles \cup (IF type = "deleted" THEN {f} ELSE {})
  BY <1>2, <1>3 DEF DeletedFiles
<1>. QED BY <1>3, <1>4, <1>5 DEF E

LEMMA StreamedType ==
    ASSUME folder \in Folder, NEW f \in Files
    PROVE  Streamed(f) \in SUBSET Files
BY DEF Streamed, Dependents, Folder

LEMMA SaveIs ==
    ASSUME TypeInv, NEW f \in Files, OnDidSaveTextDocument(f)
    PROVE  /\ f \in Managed(folder)
           /\ disk' = [disk EXCEPT ![f] = folder.managedFiles[f]]
           /\ unsaved' = unsaved \ {f}
           /\ Event(f, "changed")
           /\ folder' \in Folder
           /\ folder'.isReady = folder.isReady /\ folder'.config = folder.config
           /\ folder'.managedFiles = folder.managedFiles
           /\ folder.known \subseteq folder'.known
           /\ IF stream.token # None /\ folder.config.workspace
              THEN \A g \in Files : shown'[g] = IF g \in Streamed(f)
                                                THEN Diagnostics(folder, g)
                                                ELSE shown[g]
              ELSE UNCHANGED <<folder, shown>>
           /\ shown' \in [Files -> Reports]
           /\ UNCHANGED <<clientVars, owed, replies, stream, edits>>
<1>1. folder \in Folder /\ shown \in [Files -> Reports]
  BY DEF TypeInv, TypeOK
<1>2. /\ f \in Managed(folder)
      /\ disk' = [disk EXCEPT ![f] = folder.managedFiles[f]]
      /\ unsaved' = unsaved \ {f}
      /\ Event(f, "changed")
      /\ UNCHANGED <<clientVars, owed, replies, stream, edits>>
  BY DEF OnDidSaveTextDocument
<1>3. CASE stream.token # None /\ folder.config.workspace
  <2>1. /\ folder' = Check(folder, Streamed(f))
        /\ Show([g \in Streamed(f) |-> Diagnostics(folder, g)])
    BY <1>3 DEF OnDidSaveTextDocument
  <2>2. Streamed(f) \in SUBSET Files
    BY <1>1, StreamedType
  <2>3. /\ shown' \in [Files -> Reports]
        /\ \A g \in Files : shown'[g] = IF g \in Streamed(f)
                                        THEN Diagnostics(folder, g) ELSE shown[g]
    <3> DEFINE reports == [g \in Streamed(f) |-> Diagnostics(folder, g)]
    <3>1. /\ DOMAIN reports = Streamed(f)
          /\ \A g \in DOMAIN reports : reports[g] = Diagnostics(folder, g)
      OBVIOUS
    <3>2. \A g \in DOMAIN reports : g \in Files => reports[g] \in Reports
      BY <3>1, DiagnosticsType
    <3>. HIDE DEF reports
    <3>3. Show(reports)
      BY <2>1 DEF reports
    <3>. QED BY <1>1, <3>1, <3>2, <3>3, ShowIs
  <2>4. /\ folder' \in Folder
        /\ folder'.isReady = folder.isReady
        /\ folder'.config = folder.config
        /\ folder'.managedFiles = folder.managedFiles
        /\ folder.known \subseteq folder'.known
    BY <1>1, <2>1, <2>2, CheckIs
  <2>. QED BY <1>2, <1>3, <2>3, <2>4
<1>4. CASE ~(stream.token # None /\ folder.config.workspace)
  <2>1. UNCHANGED <<folder, shown>>
    BY <1>4 DEF OnDidSaveTextDocument
  <2>. QED BY <1>1, <1>2, <1>4, <2>1
<1>. QED BY <1>3, <1>4

LEMMA CloseIs ==
    ASSUME TypeInv, NEW f \in Files, CloseTextDocument(f)
    PROVE  /\ f \in Managed(folder)
           /\ ~Discards => f \notin unsaved
           /\ unsaved' = unsaved \ {f}
           /\ folder' \in Folder
           /\ folder'.isReady = folder.isReady /\ folder'.config = folder.config
           /\ folder'.known = folder.known
           /\ Managed(folder') = Managed(folder) \ {f}
           /\ \A g \in Managed(folder') :
                folder'.managedFiles[g] = folder.managedFiles[g]
           /\ \A g \in Files : g # f => shown'[g] = shown[g]
           /\ shown'[f] \in {shown[f], NoReport}
           /\ folder.config.workspace /\ f \notin Ignored => shown' = shown
           /\ /\ ~pull \/ stream.token # None
              /\ ~folder.config.workspace \/ f \in Ignored
              => shown'[f] = NoReport
           /\ shown' \in [Files -> Reports]
           /\ owed' \in BOOLEAN
           /\ owed' = owed \/ owed' = TRUE
           /\ UNCHANGED <<clientVars, disk, events, replies, stream, edits>>
<1> DEFINE managed == [g \in DOMAIN folder.managedFiles \ {f} |->
                         folder.managedFiles[g]]
           closed == [folder EXCEPT !.managedFiles = managed]
<1>1. /\ folder \in Folder /\ shown \in [Files -> Reports]
      /\ owed \in BOOLEAN /\ refreshes \in BOOLEAN
  BY DEF TypeInv, TypeOK
<1>2. closed = [folder EXCEPT !.managedFiles = [g \in DOMAIN @ \ {f} |-> @[g]]]
  BY <1>1 DEF Folder
<1>3. managed \in ManagedFiles
  <2>1. /\ DOMAIN folder.managedFiles \subseteq Files
        /\ \A g \in DOMAIN folder.managedFiles : folder.managedFiles[g] \in Texts
    BY <1>1, ManagedFilesType DEF Folder
  <2>2. managed \in [DOMAIN folder.managedFiles \ {f} -> Texts]
    BY <2>1
  <2>. HIDE DEF managed
  <2>. QED BY <2>1, <2>2, MapIsManagedFiles
<1>4. /\ DOMAIN managed = Managed(folder) \ {f}
      /\ \A g \in DOMAIN managed : managed[g] = folder.managedFiles[g]
  BY DEF Managed
<1>. HIDE DEF managed
<1>5. /\ closed \in Folder
      /\ closed.isReady = folder.isReady /\ closed.config = folder.config
      /\ closed.managedFiles = managed /\ closed.known = folder.known
  BY <1>1, <1>3 DEF Folder
<1>. HIDE DEF closed
<1>6. /\ f \in Managed(folder)
      /\ ~Discards => f \notin unsaved
      /\ unsaved' = unsaved \ {f}
      /\ folder' = closed
      /\ IF ~folder.config.workspace \/ f \in Ignored
         THEN ClearDiagnosticsForFiles({f}) ELSE UNCHANGED <<shown, owed>>
      /\ UNCHANGED <<clientVars, disk, events, replies, stream, edits>>
  BY <1>2 DEF CloseTextDocument
<1>7. CASE ~folder.config.workspace \/ f \in Ignored
  <2>1. ClearDiagnosticsForFiles({f})
    BY <1>6, <1>7
  <2>2. /\ shown' \in [Files -> Reports]
        /\ \A g \in Files : shown'[g] = IF g \in Cleared({f}) THEN NoReport
                                        ELSE shown[g]
        /\ owed' \in BOOLEAN /\ (owed' = owed \/ owed' = TRUE)
    BY <1>1, <2>1, ClearingIs
  <2>3. Cleared({f}) \subseteq {f} /\ (~pull \/ stream.token # None => Cleared({f}) = {f})
    BY DEF Cleared
  <2>. QED BY <1>1, <1>4, <1>5, <1>6, <2>2, <2>3 DEF Managed
<1>8. CASE ~(~folder.config.workspace \/ f \in Ignored)
  BY <1>1, <1>4, <1>5, <1>6, <1>8 DEF Managed
<1>. QED BY <1>7, <1>8

LEMMA RecomputeIs ==
    ASSUME TypeInv, NEW w \in Folder, NEW deleted,
           RecomputeDiagnostics(w, deleted)
    PROVE  /\ folder' \in Folder
           /\ folder'.isReady = w.isReady /\ folder'.config = w.config
           /\ folder'.managedFiles = w.managedFiles
           /\ w.known \subseteq folder'.known
           /\ shown' \in [Files -> Reports]
           /\ ~pull => UNCHANGED <<stream, replies, owed>>
           /\ pull => RestartWorkspaceDiagnostics
           /\ owed' \in BOOLEAN
           /\ owed' = owed \/ owed' = TRUE
<1>1. shown \in [Files -> Reports] /\ owed \in BOOLEAN /\ refreshes \in BOOLEAN
  BY DEF TypeInv, TypeOK
<1>2. CASE pull
  <2>1. /\ folder' = w
        /\ shown' \in [Files -> Reports]
        /\ RestartWorkspaceDiagnostics
    BY <1>1, <1>2, RecomputeAsks
  <2>2. owed' \in BOOLEAN /\ (owed' = owed \/ owed' = TRUE)
    BY <1>1, <2>1, RestartIs
  <2>. QED BY <1>2, <2>1, <2>2
<1>3. CASE ~pull
  <2>1. /\ folder' = Check(w, Recomputed(w))
        /\ shown' \in [Files -> Reports]
        /\ UNCHANGED <<stream, replies, owed>>
    BY <1>1, <1>3, RecomputePushes
  <2>2. Recomputed(w) \in SUBSET Files
    BY RecomputedType
  <2>. QED BY <1>1, <1>3, <2>1, <2>2, CheckIs
<1>. QED BY <1>2, <1>3

\* Modules whose file is gone are forgotten before the diagnostics are recomputed.
Forgotten == [folder EXCEPT !.known = @ \ DeletedModules]

LEMMA ForgottenIs ==
    ASSUME folder \in Folder
    PROVE  /\ Forgotten \in Folder
           /\ Forgotten.isReady = folder.isReady
           /\ Forgotten.config = folder.config
           /\ Forgotten.managedFiles = folder.managedFiles
           /\ Forgotten.known = folder.known \ DeletedModules
BY DEF Folder, Forgotten

LEMMA HandlerIs ==
    ASSUME TypeInv, OnDidChangeWatchedFiles
    PROVE  /\ events' = <<>>
           /\ UNCHANGED <<clientVars, disk, unsaved, edits>>
           /\ \/ ~folder.isReady
                 /\ UNCHANGED <<folder, shown, owed, stream, replies>>
              \/ folder.isReady /\ RecomputeDiagnostics(Forgotten, DeletedFiles)
              \/ /\ folder.isReady
                 /\ (Touched \cap folder.known) \subseteq Managed(folder)
                 /\ folder' = folder
                 /\ ClearDiagnosticsForFiles(DeletedFiles)
                 /\ UNCHANGED <<stream, replies>>
<1>1. folder \in Folder
  BY DEF TypeInv
<1>2. DeletedModules = {} => Forgotten = folder
  <2>1. ASSUME DeletedModules = {} PROVE Forgotten = [folder EXCEPT !.known = folder.known]
    BY <1>1, <2>1 DEF Forgotten, Folder
  <2>. QED BY <1>1, <2>1 DEF Folder
<1>3. /\ events' = <<>>
      /\ UNCHANGED <<clientVars, disk, unsaved, edits>>
      /\ IF ~folder.isReady THEN UNCHANGED <<folder, shown, owed, stream, replies>>
         ELSE IF \/ (Touched \cap folder.known) \ Managed(folder) # {}
                 \/ DeletedModules # {}
              THEN RecomputeDiagnostics(Forgotten, DeletedFiles)
              ELSE /\ folder' = Forgotten
                   /\ ClearDiagnosticsForFiles(DeletedFiles)
                   /\ UNCHANGED <<stream, replies>>
  BY DEF OnDidChangeWatchedFiles, Forgotten
<1>. QED BY <1>2, <1>3

\* Answering workspace/diagnostic checks every file there is.
LEMMA AnswerIs ==
    ASSUME TypeInv, WorkspaceDiagnostic, folder.isReady /\ othersReady
    PROVE  /\ folder' = Check(folder, WorkspaceChecks(folder))
           /\ folder' \in Folder
           /\ folder'.isReady /\ folder'.config = folder.config
           /\ folder'.managedFiles = folder.managedFiles
           /\ folder.known \subseteq folder'.known
           /\ shown' \in [Files -> Reports]
           /\ \A f \in Files :
                shown'[f] = IF disk[f] = "absent" THEN shown[f]
                            ELSE IF folder.config.workspace /\ f \notin Ignored
                                 THEN Diagnostics(folder, f) ELSE NoReport
           /\ owed' = FALSE
           /\ IF streams THEN stream' = Opened(requests + 1) /\ UNCHANGED replies
              ELSE /\ stream' = [stream EXCEPT !.token = None]
                   /\ replies' = [replies EXCEPT ![requests + 1] = 1]
<1>1. folder \in Folder /\ shown \in [Files -> Reports]
  BY DEF TypeInv, TypeOK
<1>2. /\ folder' = Check(folder, WorkspaceChecks(folder))
      /\ Show(WorkspaceDiagnostics(folder))
      /\ owed' = FALSE
      /\ IF streams THEN stream' = Opened(requests + 1) /\ UNCHANGED replies
         ELSE /\ stream' = [stream EXCEPT !.token = None]
              /\ replies' = [replies EXCEPT ![requests + 1] = 1]
  BY DEF WorkspaceDiagnostic
<1>3. WorkspaceChecks(folder) \in SUBSET Files
  BY DEF WorkspaceChecks
<1>4. DOMAIN WorkspaceDiagnostics(folder) = {f \in Files : disk[f] # "absent"}
  BY DEF WorkspaceDiagnostics
<1>5. /\ shown' \in [Files -> Reports]
      /\ \A f \in Files : shown'[f] = IF f \in DOMAIN WorkspaceDiagnostics(folder)
                                      THEN WorkspaceDiagnostics(folder)[f]
                                      ELSE shown[f]
  BY <1>1, <1>2, WorkspaceDiagnosticsIs, ShowIs
<1>6. /\ shown' \in [Files -> Reports]
      /\ \A f \in Files :
           shown'[f] = IF disk[f] = "absent" THEN shown[f]
                       ELSE IF folder.config.workspace /\ f \notin Ignored
                            THEN Diagnostics(folder, f) ELSE NoReport
  BY <1>4, <1>5, WorkspaceDiagnosticsIs
<1>7. /\ folder' \in Folder
      /\ folder'.isReady = folder.isReady /\ folder'.config = folder.config
      /\ folder'.managedFiles = folder.managedFiles
      /\ folder.known \subseteq folder'.known
  BY <1>1, <1>2, <1>3, CheckIs
<1>. QED BY <1>2, <1>6, <1>7

\* Ending the stream answers its request once.
LEMMA TerminateIs ==
    ASSUME TypeInv, StreamInv, TerminateWorkspaceDiagnostics,
           UNCHANGED <<requests, cancelled>>
    PROVE  /\ replies' \in [1..MaxRequests -> Nat]
           /\ stream' \in [requestId : 0..requests', token : 0..requests']
           /\ StreamInv'
<1>1. /\ replies \in [1..MaxRequests -> Nat] /\ requests \in 0..MaxRequests
      /\ stream.requestId \in 0..requests /\ MaxRequests \in Nat
  BY DiagnosticsAssumption DEF TypeInv, TypeOK
<1> DEFINE id == stream.requestId
<1>2. /\ stream' = [requestId |-> 0, token |-> 0]
      /\ replies' = IF id = 0 THEN replies ELSE [replies EXCEPT ![id] = @ + 1]
  BY DEF TerminateWorkspaceDiagnostics, Ended, None
<1>3. /\ replies' \in [1..MaxRequests -> Nat]
      /\ \A n \in 1..MaxRequests : replies'[n] = IF n = id THEN 1 ELSE replies[n]
  <2>1. id # 0 => id \in 1..MaxRequests /\ replies[id] = 0
    BY <1>1 DEF StreamInv, StreamIsOfOneOpenRequest, None
  <2>2. CASE id = 0
    <3>1. \A n \in 1..MaxRequests : n # 0
      BY <1>1
    <3>. QED BY <1>1, <1>2, <2>2, <3>1
  <2>3. CASE id # 0
    <3>. HIDE DEF id
    <3>. QED BY <1>1, <1>2, <2>1, <2>3
  <2>. QED BY <2>2, <2>3
<1>4. 1..requests \subseteq 1..MaxRequests /\ \A n \in 1..MaxRequests : n > requests => n # id
  BY <1>1
<1>5. stream' \in [requestId : 0..requests', token : 0..requests']
  BY <1>1, <1>2
<1>. HIDE DEF id
<1>6. /\ \A n \in 1..requests : replies[n] <= 1
      /\ \A n \in 1..requests : replies[n] = 0 /\ n \notin cancelled => n = id
      /\ \A n \in 1..MaxRequests : n > requests => replies[n] = 0
  BY DEF StreamInv, OpenRequestIsRemembered, Unanswered, id
<1>7. /\ \A n \in 1..requests : replies'[n] <= 1
      /\ \A n \in 1..requests : replies'[n] = 0 => n \in cancelled
      /\ \A n \in 1..MaxRequests : n > requests => replies'[n] = 0
  BY <1>3, <1>4, <1>6
<1>8. StreamInv'
  BY <1>2, <1>7 DEF StreamInv, StreamIsOfOneOpenRequest, OpenRequestIsRemembered,
                    Unanswered, None
<1>. QED BY <1>3, <1>5, <1>8

\* Most actions leave the requests alone.
LEMMA RequestsKept ==
    ASSUME TypeInv, StreamInv,
           UNCHANGED <<requests, cancelled, replies, stream>>
    PROVE  /\ requests' \in 0..MaxRequests
           /\ cancelled' \subseteq 1..requests'
           /\ replies' \in [1..MaxRequests -> Nat]
           /\ stream' \in [requestId : 0..requests', token : 0..requests']
           /\ StreamInv'
BY DEF TypeInv, TypeOK, StreamInv, StreamIsOfOneOpenRequest,
       OpenRequestIsRemembered, Unanswered

LEMMA EditIs ==
    ASSUME TypeInv, Edit
    PROVE  edits' \in 0..MaxEdits
BY DiagnosticsAssumption DEF TypeInv, TypeOK, Edit

LEMMA RecomputeTypes ==
    ASSUME TypeInv, StreamInv, NEW w \in Folder, NEW deleted,
           RecomputeDiagnostics(w, deleted), UNCHANGED <<requests, cancelled>>
    PROVE  /\ requests' \in 0..MaxRequests
           /\ cancelled' \subseteq 1..requests'
           /\ replies' \in [1..MaxRequests -> Nat]
           /\ stream' \in [requestId : 0..requests', token : 0..requests']
           /\ StreamInv'
<1>1. requests' \in 0..MaxRequests /\ cancelled' \subseteq 1..requests'
  BY DEF TypeInv, TypeOK
<1>2. CASE pull
  BY <1>1, <1>2, RecomputeIs, TerminateIs DEF RestartWorkspaceDiagnostics
<1>3. CASE ~pull
  BY <1>3, RecomputeIs, RequestsKept
<1>. QED BY <1>2, <1>3

\* The request is answered at once or left open, under an id of its own.
LEMMA WorkspaceDiagnosticTypes ==
    ASSUME TypeInv, StreamInv, WorkspaceDiagnostic
    PROVE  TypeInv' /\ StreamInv'
<1> DEFINE id == requests + 1
<1>1. /\ requests \in 0..MaxRequests /\ MaxRequests \in Nat /\ requests < MaxRequests
      /\ requests' = requests + 1
      /\ cancelled \subseteq 1..requests /\ cancelled' = cancelled
      /\ replies \in [1..MaxRequests -> Nat]
      /\ stream \in [requestId : 0..requests, token : 0..requests]
      /\ Unanswered \subseteq cancelled
      /\ UNCHANGED <<pull, streams, refreshes, othersReady, disk, unsaved, events,
                     edits>>
  BY DiagnosticsAssumption DEF TypeInv, TypeOK, WorkspaceDiagnostic, fileVars
<1>2. /\ id \in 1..MaxRequests /\ id \in 0..id /\ 0..requests \subseteq 0..id
      /\ requests' \in 0..MaxRequests /\ 1..id = (1..requests) \cup {id}
      /\ id \notin 1..requests /\ id # 0 /\ requests' = id
      /\ \A n \in 1..MaxRequests : n > id => n > requests /\ n # id
  BY <1>1
<1>. HIDE DEF id
<1>3. /\ \A n \in 1..requests : replies[n] <= 1
      /\ \A n \in 1..requests : replies[n] = 0 => n \in cancelled
      /\ \A n \in 1..MaxRequests : n > requests => replies[n] = 0
      /\ stream.token # 0 => stream.token = stream.requestId
      /\ stream.requestId # 0 => stream.requestId \in 1..requests
                                 /\ replies[stream.requestId] = 0
  BY <1>1 DEF StreamInv, OpenRequestIsRemembered, StreamIsOfOneOpenRequest,
              Unanswered, None
<1>4. replies[id] = 0
  BY <1>1, <1>2, <1>3 DEF id
<1>5. ASSUME replies' = [replies EXCEPT ![id] = 1],
             stream' = stream \/ stream' = [stream EXCEPT !.token = None]
      PROVE  /\ replies' \in [1..MaxRequests -> Nat]
             /\ stream' \in [requestId : 0..requests', token : 0..requests']
             /\ StreamInv'
  <2>1. /\ replies' \in [1..MaxRequests -> Nat] /\ replies'[id] = 1
        /\ \A n \in 1..MaxRequests : n # id => replies'[n] = replies[n]
    BY <1>1, <1>2, <1>5
  <2>2. /\ stream' \in [requestId : 0..requests', token : 0..requests']
        /\ stream'.requestId = stream.requestId
        /\ stream'.token # 0 => stream'.token = stream.token
    BY <1>1, <1>2, <1>5 DEF None
  <2>3. StreamIsOfOneOpenRequest'
    BY <1>1, <1>2, <1>3, <2>1, <2>2 DEF StreamIsOfOneOpenRequest, None
  <2>4. \A n \in 1..requests : n \in 1..MaxRequests /\ n # id
    BY <1>1, <1>2
  <2>5. /\ \A n \in 1..requests' : replies'[n] <= 1
        /\ \A n \in 1..requests' : replies'[n] = 0 => n \in cancelled'
    <3>1. 1 <= 1 /\ 1 # 0
      OBVIOUS
    <3>. QED BY <1>1, <1>2, <1>3, <2>1, <2>4, <3>1
  <2>6. \A n \in 1..MaxRequests : n > requests' => replies'[n] = 0
    BY <1>2, <1>3, <2>1
  <2>7. OpenRequestIsRemembered'
    BY <2>5 DEF OpenRequestIsRemembered, Unanswered
  <2>. QED BY <2>1, <2>2, <2>3, <2>6, <2>7 DEF StreamInv
<1>6. ASSUME replies' = replies, stream' = Opened(id)
      PROVE  /\ replies' \in [1..MaxRequests -> Nat]
             /\ stream' \in [requestId : 0..requests', token : 0..requests']
             /\ StreamInv'
  <2>1. stream' = [requestId |-> id, token |-> id]
    BY <1>6 DEF Opened
  <2>2. /\ \A n \in 1..requests' : replies'[n] <= 1
        /\ \A n \in 1..requests' : replies'[n] = 0 => n \in cancelled' \/ n = id
        /\ \A n \in 1..MaxRequests : n > requests' => replies'[n] = 0
    <3>1. 0 <= 1
      OBVIOUS
    <3>. QED BY <1>1, <1>2, <1>3, <1>4, <1>6, <3>1
  <2>3. StreamInv'
    BY <1>2, <1>4, <1>6, <2>1, <2>2 DEF StreamInv, StreamIsOfOneOpenRequest,
         OpenRequestIsRemembered, Unanswered, None
  <2>. QED BY <1>1, <1>2, <1>6, <2>1, <2>3
<1>7. /\ folder' \in Folder /\ Managed(folder') = Managed(folder)
      /\ shown' \in [Files -> Reports] /\ owed' \in BOOLEAN
      /\ replies' \in [1..MaxRequests -> Nat]
      /\ stream' \in [requestId : 0..requests', token : 0..requests']
      /\ StreamInv'
  <2>1. CASE folder.isReady /\ othersReady
    <3>1. /\ folder' \in Folder /\ folder'.managedFiles = folder.managedFiles
          /\ shown' \in [Files -> Reports] /\ owed' = FALSE
          /\ IF streams THEN stream' = Opened(id) /\ UNCHANGED replies
             ELSE /\ stream' = [stream EXCEPT !.token = None]
                  /\ replies' = [replies EXCEPT ![id] = 1]
      BY <2>1, AnswerIs DEF id
    <3>. QED BY <1>5, <1>6, <3>1 DEF Managed
  <2>2. CASE ~(folder.isReady /\ othersReady)
    <3>1. /\ replies' = [replies EXCEPT ![id] = 1] /\ owed' = TRUE
          /\ UNCHANGED <<folder, shown, stream>>
      BY <2>2 DEF WorkspaceDiagnostic, id
    <3>. QED BY <1>5, <3>1 DEF TypeInv, TypeOK
  <2>. QED BY <2>1, <2>2
<1>8. cancelled' \subseteq 1..requests'
  BY <1>1, <1>2
<1>9. TypeInv'
  BY <1>1, <1>2, <1>7, <1>8, FolderIsOK DEF TypeInv, TypeOK
<1>. QED BY <1>7, <1>9

LEMMA NextTypes ==
    ASSUME TypeInv, StreamInv, [Next]_vars
    PROVE  TypeInv' /\ StreamInv'
<1> USE DEF TypeInv, TypeOK
<1> DEFINE RequestsOK ==
             /\ requests' \in 0..MaxRequests
             /\ cancelled' \subseteq 1..requests'
             /\ replies' \in [1..MaxRequests -> Nat]
             /\ stream' \in [requestId : 0..requests', token : 0..requests']
             /\ StreamInv'
<1>1. ASSUME NEW f \in Files, OpenTextDocument(f) PROVE TypeInv' /\ StreamInv'
  <2>1. /\ folder' \in Folder /\ Managed(folder') = Managed(folder) \cup {f}
        /\ shown' \in [Files -> Reports]
        /\ UNCHANGED <<clientVars, fileVars, owed, replies, stream, edits>>
    BY <1>1, OpenIs
  <2>2. RequestsOK
    BY <2>1, RequestsKept DEF clientVars
  <2>. QED BY <2>1, <2>2, FolderIsOK DEF clientVars, fileVars
<1>2. ASSUME NEW f \in Files, NEW text \in Texts, UpdateTextDocument(f, text)
      PROVE  TypeInv' /\ StreamInv'
  <2>1. /\ f \in Managed(folder) /\ unsaved' = unsaved \cup {f}
        /\ folder' \in Folder /\ Managed(folder') = Managed(folder)
        /\ shown' \in [Files -> Reports] /\ edits' \in 0..MaxEdits
        /\ UNCHANGED <<clientVars, disk, events, owed, replies, stream>>
    BY <1>2, UpdateIs
  <2>2. RequestsOK
    BY <2>1, RequestsKept DEF clientVars
  <2>. QED BY <2>1, <2>2, FolderIsOK DEF clientVars
<1>3. ASSUME NEW f \in Files, DocumentDiagnostic(f) PROVE TypeInv' /\ StreamInv'
  <2>1. /\ folder' = Check(folder, {f})
        /\ UNCHANGED <<clientVars, fileVars, owed, shown, replies, stream, edits>>
    BY <1>3 DEF DocumentDiagnostic
  <2>2. folder' \in Folder /\ folder'.managedFiles = folder.managedFiles
    BY <2>1, CheckIs
  <2>3. RequestsOK
    BY <2>1, RequestsKept DEF clientVars
  <2>. QED BY <2>1, <2>2, <2>3, FolderIsOK DEF clientVars, fileVars, Managed
<1>4. ASSUME NEW f \in Files, OnDidSaveTextDocument(f) PROVE TypeInv' /\ StreamInv'
  <2>1. /\ f \in Managed(folder) /\ unsaved' = unsaved \ {f}
        /\ disk' = [disk EXCEPT ![f] = folder.managedFiles[f]]
        /\ folder' \in Folder /\ folder'.managedFiles = folder.managedFiles
        /\ shown' \in [Files -> Reports] /\ Event(f, "changed")
        /\ UNCHANGED <<clientVars, owed, replies, stream, edits>>
    BY <1>4, SaveIs
  <2>2. RequestsOK
    BY <2>1, RequestsKept DEF clientVars
  <2>3. events' \in Seq([uri : Files, type : {"changed", "deleted"}])
    BY <2>1, EventIs
  <2>4. disk' \in [Files -> Texts \cup {"absent"}]
    <3>1. folder.managedFiles[f] \in Texts
      BY <2>1, FolderIsOK DEF FolderOK, Managed
    <3>. QED BY <2>1, <3>1
  <2>. QED BY <2>1, <2>2, <2>3, <2>4, FolderIsOK DEF clientVars, Managed
<1>5. ASSUME NEW f \in Files, CloseTextDocument(f) PROVE TypeInv' /\ StreamInv'
  <2>1. /\ unsaved' = unsaved \ {f}
        /\ folder' \in Folder /\ Managed(folder') = Managed(folder) \ {f}
        /\ shown' \in [Files -> Reports] /\ owed' \in BOOLEAN
        /\ UNCHANGED <<clientVars, disk, events, replies, stream, edits>>
    BY <1>5, CloseIs
  <2>2. RequestsOK
    BY <2>1, RequestsKept DEF clientVars
  <2>. QED BY <2>1, <2>2, FolderIsOK DEF clientVars
<1>6. ASSUME NEW f \in Files, (\E text \in Texts : WriteFile(f, text)) \/ DeleteFile(f)
      PROVE  TypeInv' /\ StreamInv'
  <2>1. /\ Edit /\ disk' \in [Files -> Texts \cup {"absent"}]
        /\ Event(f, "changed") \/ Event(f, "deleted")
        /\ UNCHANGED <<clientVars, unsaved, owed, shown, replies, folder, stream>>
    BY <1>6 DEF WriteFile, DeleteFile
  <2>2. RequestsOK
    BY <2>1, RequestsKept DEF clientVars
  <2>3. events' \in Seq([uri : Files, type : {"changed", "deleted"}])
    BY <2>1, EventIs
  <2>4. edits' \in 0..MaxEdits
    BY <2>1, EditIs
  <2>. QED BY <2>1, <2>2, <2>3, <2>4 DEF clientVars
<1>7. CASE OnDidChangeWatchedFiles
  <2>1. /\ events' = <<>> /\ UNCHANGED <<clientVars, disk, unsaved, edits>>
        /\ \/ UNCHANGED <<folder, shown, owed, stream, replies>>
           \/ RecomputeDiagnostics(Forgotten, DeletedFiles)
           \/ /\ folder' = folder /\ ClearDiagnosticsForFiles(DeletedFiles)
              /\ UNCHANGED <<stream, replies>>
    BY <1>7, HandlerIs
  <2>2. events' \in Seq([uri : Files, type : {"changed", "deleted"}])
    BY <2>1
  <2>3. /\ folder' \in Folder /\ Managed(folder') = Managed(folder)
        /\ shown' \in [Files -> Reports] /\ owed' \in BOOLEAN
        /\ RequestsOK
    <3>1. CASE UNCHANGED <<folder, shown, owed, stream, replies>>
      BY <2>1, <3>1, RequestsKept DEF clientVars
    <3>2. CASE RecomputeDiagnostics(Forgotten, DeletedFiles)
      <4>1. /\ Forgotten \in Folder
            /\ Forgotten.managedFiles = folder.managedFiles
        BY ForgottenIs
      <4>2. UNCHANGED <<requests, cancelled>>
        BY <2>1 DEF clientVars
      <4>3. RequestsOK
        BY <3>2, <4>1, <4>2, RecomputeTypes
      <4>. QED BY <3>2, <4>1, <4>3, RecomputeIs DEF Managed
    <3>3. CASE /\ folder' = folder /\ ClearDiagnosticsForFiles(DeletedFiles)
               /\ UNCHANGED <<stream, replies>>
      <4>1. RequestsOK
        BY <2>1, <3>3, RequestsKept DEF clientVars
      <4>2. shown' \in [Files -> Reports] /\ owed' \in BOOLEAN
        BY <3>3, ClearingIs
      <4>. QED BY <3>3, <4>1, <4>2
    <3>. QED BY <2>1, <3>1, <3>2, <3>3
  <2>. QED BY <2>1, <2>2, <2>3, FolderIsOK DEF clientVars
<1>8. ASSUME NEW w \in Folder, w.managedFiles = folder.managedFiles,
             RecomputeDiagnostics(w, {}), Edit, UNCHANGED <<clientVars, fileVars>>
      PROVE  TypeInv' /\ StreamInv'
  <2>1. /\ folder' \in Folder /\ Managed(folder') = Managed(folder)
        /\ shown' \in [Files -> Reports] /\ owed' \in BOOLEAN
    BY <1>8, RecomputeIs DEF Managed
  <2>2. RequestsOK
    BY <1>8, RecomputeTypes DEF clientVars
  <2>3. edits' \in 0..MaxEdits
    BY <1>8, EditIs
  <2>. QED BY <1>8, <2>1, <2>2, <2>3, FolderIsOK DEF clientVars, fileVars
<1>9. CASE ConfigFileChanged
  BY <1>8, <1>9 DEF ConfigFileChanged
<1>10. ASSUME NEW config \in Configs, ConfigChanged(config)
       PROVE  TypeInv' /\ StreamInv'
  <2> DEFINE configured == [folder EXCEPT !.config = config]
  <2>1. configured \in Folder /\ configured.managedFiles = folder.managedFiles
    BY DEF Folder
  <2>. HIDE DEF configured
  <2>2. /\ Edit /\ UNCHANGED <<clientVars, fileVars>>
        /\ \/ RecomputeDiagnostics(configured, {})
           \/ folder' = configured /\ UNCHANGED <<shown, owed, stream, replies>>
    BY <1>10 DEF ConfigChanged, configured
  <2>3. CASE RecomputeDiagnostics(configured, {})
    BY <1>8, <2>1, <2>2, <2>3
  <2>4. CASE folder' = configured /\ UNCHANGED <<shown, owed, stream, replies>>
    <3>1. RequestsOK
      BY <2>2, <2>4, RequestsKept DEF clientVars
    <3>2. edits' \in 0..MaxEdits
      BY <2>2, EditIs
    <3>. QED BY <2>1, <2>2, <2>4, <3>1, <3>2, FolderIsOK
             DEF clientVars, fileVars, Managed
  <2>. QED BY <2>2, <2>3, <2>4
<1>11. CASE OtherFolderInitialized
  <2>1. /\ othersReady' = TRUE
        /\ UNCHANGED <<pull, streams, refreshes, fileVars, requests, cancelled,
                       owed, shown, replies, folder, stream, edits>>
    BY <1>11 DEF OtherFolderInitialized
  <2>2. RequestsOK
    BY <2>1, RequestsKept
  <2>. QED BY <2>1, <2>2 DEF fileVars
<1>12. CASE OtherFolderRecomputes
  <2>1. /\ Edit /\ TerminateWorkspaceDiagnostics /\ owed' \in BOOLEAN
        /\ UNCHANGED <<clientVars, fileVars, shown, folder>>
    BY <1>12, RestartIs DEF OtherFolderRecomputes
  <2>2. UNCHANGED <<requests, cancelled>>
    BY <2>1 DEF clientVars
  <2>3. RequestsOK
    BY <2>1, <2>2, TerminateIs
  <2>4. edits' \in 0..MaxEdits
    BY <2>1, EditIs
  <2>. QED BY <2>1, <2>3, <2>4 DEF clientVars, fileVars
<1>13. CASE CancelRequest
  <2>1. /\ cancelled' = cancelled \cup Unanswered
        /\ UNCHANGED <<pull, streams, refreshes, fileVars, requests, owed, shown,
                       replies, folder, stream, othersReady, edits>>
    BY <1>13 DEF CancelRequest
  <2>2. cancelled' \subseteq 1..requests'
    BY <2>1 DEF Unanswered
  <2>3. StreamInv'
    BY <2>1 DEF StreamInv, StreamIsOfOneOpenRequest, OpenRequestIsRemembered,
                Unanswered
  <2>. QED BY <2>1, <2>2, <2>3 DEF fileVars
<1>14. CASE UNCHANGED vars
  <2>1. UNCHANGED <<pull, streams, refreshes, disk, unsaved, events, requests,
                    cancelled, owed, shown, replies, folder, stream,
                    othersReady, edits>>
    BY <1>14 DEF vars, clientVars, fileVars
  <2>2. RequestsOK
    BY <2>1, RequestsKept
  <2>. QED BY <2>1, <2>2
<1>15. CASE WorkspaceDiagnostic
  <2>1. TypeInv /\ StreamInv
    OBVIOUS
  <2>. HIDE DEF TypeInv
  <2>. QED BY <1>15, <2>1, WorkspaceDiagnosticTypes
<1>16. Next \/ UNCHANGED vars
  OBVIOUS
<1>. HIDE DEF TypeInv, TypeOK
<1>. QED BY <1>1, <1>2, <1>3, <1>4, <1>5, <1>6, <1>7, <1>9, <1>10, <1>11, <1>12,
            <1>13, <1>14, <1>15, <1>16 DEF Next

\* Whatever is edited, cancelled, reconfigured or recomputed: the request left
\* open and the token its reports are streamed on are those of one request, it
\* is the only one that waits for an answer and was not cancelled, and none is
\* answered twice (LanguageServer.cpp, onRequest; Diagnostics.cpp,
\* workspaceDiagnostic and terminateWorkspaceDiagnostics).
THEOREM OneOpenRequestIsKept == Spec => []OpenRequestIsKept
<1>1. TypeInv /\ StreamInv /\ [Next]_vars => TypeInv' /\ StreamInv'
  BY NextTypes
<1>2. TypeInv /\ StreamInv => OpenRequestIsKept
  BY DEF TypeInv, StreamInv, OpenRequestIsKept
<1>. QED BY InitTypes, <1>1, <1>2, PTL DEF Spec

-----------------------------------------------------------------------------
(* Files that are gone.                                                    *)

\* Documents are open of files that are there, in a folder in use.
DocumentsArePresent ==
    /\ \A f \in Managed(folder) : disk[f] # "absent"
    /\ Managed(folder) # {} => folder.isReady

\* Reports are only streamed to clients that pull them.
OnlyPullStreams == ~pull => stream = Ended

\* Nothing is pushed before the folder is in use, and what is shown of a file
\* that is gone will be cleared when its event arrives.
ClearedInTime ==
    ~pull =>
      /\ ~folder.isReady => \A f \in Files : shown[f] = NoReport
      /\ \A f \in Files : disk[f] = "absent" =>
           shown[f] = NoReport \/ f \in DeletedFiles

GoneInv == DocumentsArePresent /\ OnlyPullStreams /\ ClearedInTime

LEMMA AbsentReports ==
    ASSUME NEW w, NEW f, f \notin Managed(w), disk[f] = "absent"
    PROVE  Diagnostics(w, f) = NoReport
BY DEF Diagnostics, Source

\* Documents stay present unless another program writes the files that are open.
LEMMA DocumentsStayPresent ==
    ASSUME Rewrites = FALSE, TypeInv, DocumentsArePresent, [Next]_vars
    PROVE  DocumentsArePresent'
<1>0. folder \in Folder /\ disk \in [Files -> Texts \cup {"absent"}]
  BY DEF TypeInv, TypeOK
<1>1. ASSUME folder'.isReady = folder.isReady \/ folder'.isReady,
             folder'.managedFiles = folder.managedFiles, disk' = disk
      PROVE  DocumentsArePresent'
  BY <1>1 DEF DocumentsArePresent, Managed
<1>2. ASSUME UNCHANGED <<folder, disk>> PROVE DocumentsArePresent'
  BY <1>1, <1>2
<1>3. ASSUME NEW f \in Files, OpenTextDocument(f) PROVE DocumentsArePresent'
  BY <1>3, OpenIs DEF DocumentsArePresent, fileVars
<1>4. ASSUME NEW f \in Files, NEW text \in Texts, UpdateTextDocument(f, text)
      PROVE  DocumentsArePresent'
  BY <1>4, UpdateIs DEF DocumentsArePresent
<1>5. ASSUME NEW f \in Files, DocumentDiagnostic(f) PROVE DocumentsArePresent'
  <2>1. folder' = Check(folder, {f}) /\ disk' = disk
    BY <1>5 DEF DocumentDiagnostic, fileVars
  <2>. QED BY <1>0, <1>1, <2>1, CheckIs
<1>6. ASSUME NEW f \in Files, OnDidSaveTextDocument(f) PROVE DocumentsArePresent'
  <2>1. /\ f \in Managed(folder)
        /\ disk' = [disk EXCEPT ![f] = folder.managedFiles[f]]
        /\ folder'.isReady = folder.isReady
        /\ folder'.managedFiles = folder.managedFiles
    BY <1>6, SaveIs
  <2>2. folder.managedFiles[f] # "absent"
    BY <1>0, <2>1, FolderIsOK DEF FolderOK, Managed, Texts
  <2>3. \A g \in Files : disk'[g] = disk[g] \/ disk'[g] # "absent"
    BY <1>0, <2>1, <2>2
  <2>. QED BY <1>0, <2>1, <2>3, FolderIsOK DEF DocumentsArePresent, Managed
<1>7. ASSUME NEW f \in Files, CloseTextDocument(f) PROVE DocumentsArePresent'
  BY <1>7, CloseIs DEF DocumentsArePresent
<1>8. ASSUME NEW f \in Files, (\E text \in Texts : WriteFile(f, text)) \/ DeleteFile(f)
      PROVE  DocumentsArePresent'
  <2>1. f \notin Managed(folder) /\ UNCHANGED folder
        /\ \E t : disk' = [disk EXCEPT ![f] = t]
    BY <1>8 DEF WriteFile, DeleteFile, MayChange
  <2>2. \A g \in Files \ {f} : disk'[g] = disk[g]
    BY <1>0, <2>1
  <2>. QED BY <1>0, <2>1, <2>2, FolderIsOK DEF DocumentsArePresent
<1>9. CASE OnDidChangeWatchedFiles
  <2>1. CASE folder' = folder
    BY <1>2, <1>9, <2>1, HandlerIs
  <2>2. CASE RecomputeDiagnostics(Forgotten, DeletedFiles)
    BY <1>0, <1>1, <1>9, <2>2, HandlerIs, ForgottenIs, RecomputeIs
  <2>. QED BY <1>9, <2>1, <2>2, HandlerIs
<1>10. ASSUME NEW w \in Folder, w.managedFiles = folder.managedFiles,
              w.isReady = folder.isReady, RecomputeDiagnostics(w, {}), disk' = disk
       PROVE  DocumentsArePresent'
  BY <1>1, <1>10, RecomputeIs
<1>11. CASE ConfigFileChanged
  BY <1>0, <1>10, <1>11 DEF ConfigFileChanged, fileVars
<1>12. ASSUME NEW config \in Configs, ConfigChanged(config)
       PROVE  DocumentsArePresent'
  <2> DEFINE configured == [folder EXCEPT !.config = config]
  <2>1. /\ configured \in Folder /\ configured.managedFiles = folder.managedFiles
        /\ configured.isReady = folder.isReady
    BY <1>0 DEF Folder
  <2>. HIDE DEF configured
  <2>2. disk' = disk /\ (RecomputeDiagnostics(configured, {}) \/ folder' = configured)
    BY <1>12 DEF ConfigChanged, fileVars, configured
  <2>. QED BY <1>1, <1>10, <2>1, <2>2
<1>13. CASE OtherFolderInitialized \/ OtherFolderRecomputes \/ CancelRequest
  BY <1>2, <1>13 DEF OtherFolderInitialized, OtherFolderRecomputes, CancelRequest, fileVars
<1>14. CASE WorkspaceDiagnostic
  <2>1. disk' = disk /\ ((folder.isReady /\ othersReady) \/ folder' = folder)
    BY <1>14 DEF WorkspaceDiagnostic, fileVars
  <2>. QED BY <1>1, <1>2, <1>14, <2>1, AnswerIs
<1>15. CASE UNCHANGED vars
  BY <1>2, <1>15 DEF vars, fileVars
<1>. QED BY <1>3, <1>4, <1>5, <1>6, <1>7, <1>8, <1>9, <1>11, <1>12, <1>13, <1>14, <1>15
     DEF Next

LEMMA OnlyPullStreamsStep ==
    ASSUME TypeInv, OnlyPullStreams, [Next]_vars
    PROVE  OnlyPullStreams'
<1>1. ASSUME stream' = stream \/ stream' = Ended, UNCHANGED pull PROVE OnlyPullStreams'
  BY <1>1 DEF OnlyPullStreams
<1>2. ASSUME NEW w \in Folder, NEW S, RecomputeDiagnostics(w, S)
      PROVE  stream' = stream \/ stream' = Ended
  BY <1>2, RecomputeIs DEF RestartWorkspaceDiagnostics, TerminateWorkspaceDiagnostics
<1>3. folder \in Folder
  BY DEF TypeInv
<1>4. CASE OnDidChangeWatchedFiles
  <2>1. UNCHANGED <<clientVars, disk, unsaved, edits>>
        /\ (RecomputeDiagnostics(Forgotten, DeletedFiles) \/ stream' = stream)
    BY <1>4, HandlerIs
  <2>. QED BY <1>1, <1>2, <1>3, <2>1, ForgottenIs DEF clientVars
<1>5. CASE ConfigFileChanged
  BY <1>1, <1>2, <1>3, <1>5 DEF ConfigFileChanged, clientVars
<1>6. ASSUME NEW config \in Configs, ConfigChanged(config) PROVE OnlyPullStreams'
  <2> DEFINE configured == [folder EXCEPT !.config = config]
  <2>1. configured \in Folder
    BY <1>3 DEF Folder
  <2>. HIDE DEF configured
  <2>2. pull' = pull /\ (RecomputeDiagnostics(configured, {}) \/ stream' = stream)
    BY <1>6 DEF ConfigChanged, clientVars, configured
  <2>. QED BY <1>1, <1>2, <2>1, <2>2
<1>7. CASE OtherFolderRecomputes
  BY <1>1, <1>7 DEF OtherFolderRecomputes, RestartWorkspaceDiagnostics,
       TerminateWorkspaceDiagnostics, clientVars
<1>8. CASE WorkspaceDiagnostic
  BY <1>8 DEF WorkspaceDiagnostic, OnlyPullStreams
<1>9. CASE OtherFolderInitialized \/ CancelRequest
  BY <1>1, <1>9 DEF OtherFolderInitialized, CancelRequest
<1>10. ASSUME NEW f \in Files,
              \/ OpenTextDocument(f)
              \/ \E text \in Texts : UpdateTextDocument(f, text)
              \/ DocumentDiagnostic(f)
              \/ OnDidSaveTextDocument(f)
              \/ CloseTextDocument(f)
              \/ \E text \in Texts : WriteFile(f, text)
              \/ DeleteFile(f)
       PROVE  OnlyPullStreams'
  <2>1. stream' = stream /\ UNCHANGED clientVars
    BY <1>10 DEF OpenTextDocument, UpdateTextDocument, DocumentDiagnostic,
         OnDidSaveTextDocument, CloseTextDocument, WriteFile, DeleteFile
  <2>. QED BY <1>1, <2>1 DEF clientVars
<1>11. CASE UNCHANGED vars
  BY <1>1, <1>11 DEF vars, clientVars
<1>. QED BY <1>4, <1>5, <1>6, <1>7, <1>8, <1>9, <1>10, <1>11 DEF Next

\* What was pushed of a file before it was deleted is cleared with its event;
\* nothing is pushed of it afterwards, as nothing is there to be checked.
LEMMA ClearedInTimeStep ==
    ASSUME TypeInv, GoneInv, DocumentsArePresent', ~pull, [Next]_vars
    PROVE  ClearedInTime'
<1> DEFINE Gone(f) == disk[f] = "absent" => shown[f] = NoReport \/ f \in DeletedFiles
<1>0. /\ folder \in Folder /\ disk \in [Files -> Texts \cup {"absent"}]
      /\ shown \in [Files -> Reports] /\ owed \in BOOLEAN /\ refreshes \in BOOLEAN
  BY DEF TypeInv, TypeOK
<1>1. /\ DocumentsArePresent /\ stream.token = None
      /\ ~folder.isReady => \A f \in Files : shown[f] = NoReport
      /\ \A f \in Files : Gone(f)
  BY DEF GoneInv, OnlyPullStreams, ClearedInTime, Ended
<1>2. ASSUME folder'.isReady \/ (~folder.isReady /\ UNCHANGED shown),
             \A f \in Files : disk'[f] = "absent" => shown'[f] = NoReport \/ f \in DeletedFiles'
      PROVE  ClearedInTime'
  BY <1>1, <1>2 DEF ClearedInTime
<1>3. ASSUME UNCHANGED <<folder, disk, shown, events>> PROVE ClearedInTime'
  BY <1>3 DEF GoneInv, ClearedInTime, DeletedFiles
<1>4. \A f \in Managed(folder) : disk[f] # "absent" /\ folder.isReady
  BY <1>1 DEF DocumentsArePresent
<1>5. ASSUME NEW f \in Files, OpenTextDocument(f) PROVE ClearedInTime'
  <2>1. /\ folder'.isReady /\ disk[f] # "absent"
        /\ \A g \in Files : g # f => shown'[g] = shown[g]
        /\ disk' = disk /\ events' = events
    BY <1>5, OpenIs DEF fileVars
  <2>. QED BY <1>1, <1>2, <2>1 DEF DeletedFiles
<1>6. ASSUME NEW f \in Files, NEW text \in Texts, UpdateTextDocument(f, text)
      PROVE  ClearedInTime'
  <2>1. /\ f \in Managed(folder) /\ Managed(folder') = Managed(folder)
        /\ folder'.isReady = folder.isReady
        /\ \A g \in Files : shown'[g] \in {shown[g], Diagnostics(folder', g)}
        /\ disk' = disk /\ events' = events
    BY <1>6, UpdateIs
  <2>2. folder'.isReady
    BY <1>4, <2>1
  <2>3. ASSUME NEW g \in Files, disk'[g] = "absent"
        PROVE  shown'[g] = NoReport \/ g \in DeletedFiles'
    <3>1. g \notin Managed(folder)
      BY <1>4, <2>1, <2>3
    <3>2. Diagnostics(folder', g) = NoReport
      BY <2>1, <2>3, <3>1, AbsentReports
    <3>3. Gone(g) /\ DeletedFiles' = DeletedFiles
      BY <1>1, <2>1 DEF DeletedFiles
    <3>. QED BY <2>1, <2>3, <3>2, <3>3
  <2>. QED BY <1>2, <2>2, <2>3
<1>7. ASSUME NEW f \in Files, OnDidSaveTextDocument(f) PROVE ClearedInTime'
  <2>1. /\ f \in Managed(folder) /\ Event(f, "changed")
        /\ disk' = [disk EXCEPT ![f] = folder.managedFiles[f]]
        /\ folder'.isReady = folder.isReady /\ UNCHANGED shown
    BY <1>1, <1>7, SaveIs
  <2>2. DeletedFiles' = DeletedFiles \cup {}
    BY <2>1, EventIs
  <2>3. \A g \in Files : disk'[g] = "absent" => disk[g] = "absent"
    <3>1. folder.managedFiles[f] # "absent"
      BY <1>0, <2>1, FolderIsOK DEF FolderOK, Managed, Texts
    <3>. QED BY <1>0, <2>1, <3>1
  <2>. QED BY <1>1, <1>2, <1>4, <2>1, <2>2, <2>3
<1>8. ASSUME NEW f \in Files, CloseTextDocument(f) PROVE ClearedInTime'
  <2>1. /\ f \in Managed(folder) /\ folder'.isReady = folder.isReady
        /\ \A g \in Files : shown'[g] \in {shown[g], NoReport}
        /\ disk' = disk /\ events' = events
    BY <1>8, CloseIs
  <2>. QED BY <1>1, <1>2, <1>4, <2>1 DEF DeletedFiles
<1>9. ASSUME NEW f \in Files, NEW text \in Texts, WriteFile(f, text)
      PROVE  ClearedInTime'
  <2>1. /\ Event(f, "changed") /\ disk' = [disk EXCEPT ![f] = text]
        /\ UNCHANGED <<shown, folder>>
    BY <1>9 DEF WriteFile
  <2>2. DeletedFiles' = DeletedFiles \cup {}
    BY <2>1, EventIs
  <2>3. \A g \in Files : disk'[g] = "absent" => disk[g] = "absent"
    BY <1>0, <2>1 DEF Texts
  <2>. QED BY <1>1, <1>2, <2>1, <2>2, <2>3
<1>10. ASSUME NEW f \in Files, DeleteFile(f) PROVE ClearedInTime'
  <2>1. /\ Event(f, "deleted") /\ disk' = [disk EXCEPT ![f] = "absent"]
        /\ UNCHANGED <<shown, folder>>
    BY <1>10 DEF DeleteFile
  <2>2. DeletedFiles' = DeletedFiles \cup {f}
    BY <2>1, EventIs
  <2>3. \A g \in Files : disk'[g] = "absent" => disk[g] = "absent" \/ g = f
    BY <1>0, <2>1
  <2>. QED BY <1>1, <1>2, <2>1, <2>2, <2>3
<1>11. ASSUME NEW w \in Folder, NEW S, w.managedFiles = folder.managedFiles,
              w.isReady = folder.isReady, folder.isReady,
              RecomputeDiagnostics(w, S), disk' = disk,
              DeletedFiles \subseteq S \cup DeletedFiles'
       PROVE  ClearedInTime'
  <2>1. folder'.isReady
    BY <1>11, RecomputeIs
  <2>2. \A g \in Files :
          /\ g \in Recomputed(w) => shown'[g] = Diagnostics(w, g)
          /\ \/ g \in Recomputed(w)
             \/ shown'[g] = NoReport
             \/ g \notin S /\ shown'[g] = shown[g]
    BY <1>0, <1>11, RecomputePushes
  <2>3. \A g \in Files : disk[g] = "absent" => Diagnostics(w, g) = NoReport
    BY <1>4, <1>11, AbsentReports DEF Managed
  <2>4. ASSUME NEW g \in Files, disk'[g] = "absent"
        PROVE  shown'[g] = NoReport \/ g \in DeletedFiles'
    <3>1. Gone(g) /\ disk[g] = "absent"
      BY <1>1, <1>11, <2>4
    <3>. QED BY <1>11, <2>2, <2>3, <3>1
  <2>. QED BY <1>2, <2>1, <2>4
<1>12. CASE OnDidChangeWatchedFiles
  <2>1. disk' = disk
    BY <1>12, HandlerIs
  <2>2. CASE ~folder.isReady /\ UNCHANGED <<folder, shown>>
    BY <1>1, <1>2, <2>2
  <2>3. CASE folder.isReady /\ RecomputeDiagnostics(Forgotten, DeletedFiles)
    BY <1>0, <1>11, <2>1, <2>3, ForgottenIs
  <2>4. CASE /\ folder.isReady /\ folder' = folder
             /\ ClearDiagnosticsForFiles(DeletedFiles)
    <3>1. \A g \in Files : shown'[g] = IF g \in Cleared(DeletedFiles) THEN NoReport
                                       ELSE shown[g]
      BY <1>0, <2>4, ClearingIs
    <3>2. Cleared(DeletedFiles) = DeletedFiles
      BY DEF Cleared
    <3>3. \A g \in Files : disk'[g] = "absent" => shown'[g] = NoReport
      BY <1>1, <2>1, <3>1, <3>2
    <3>. QED BY <1>2, <2>4, <3>3
  <2>. QED BY <1>12, <2>2, <2>3, <2>4, HandlerIs
<1>13. CASE ConfigFileChanged
  <2>1. /\ folder.isReady /\ RecomputeDiagnostics(folder, {})
        /\ disk' = disk /\ events' = events
    BY <1>13 DEF ConfigFileChanged, fileVars
  <2>. QED BY <1>0, <1>11, <2>1 DEF DeletedFiles
<1>14. ASSUME NEW config \in Configs, ConfigChanged(config)
       PROVE  ClearedInTime'
  <2> DEFINE configured == [folder EXCEPT !.config = config]
  <2>1. /\ configured \in Folder /\ configured.managedFiles = folder.managedFiles
        /\ configured.isReady = folder.isReady
    BY <1>0 DEF Folder
  <2>. HIDE DEF configured
  <2>2. /\ disk' = disk /\ events' = events
        /\ IF folder.isReady THEN RecomputeDiagnostics(configured, {})
           ELSE folder' = configured /\ shown' = shown
    BY <1>14 DEF ConfigChanged, fileVars, configured
  <2>3. CASE folder.isReady
    BY <1>11, <2>1, <2>2, <2>3 DEF DeletedFiles
  <2>4. CASE ~folder.isReady
    BY <1>1, <1>2, <2>1, <2>2, <2>4 DEF DeletedFiles
  <2>. QED BY <2>3, <2>4
<1>15. CASE OtherFolderInitialized \/ CancelRequest
  BY <1>3, <1>15 DEF OtherFolderInitialized, CancelRequest, fileVars
<1>16. ~OtherFolderRecomputes /\ ~WorkspaceDiagnostic /\ \A f \in Files : ~DocumentDiagnostic(f)
  BY DEF OtherFolderRecomputes, WorkspaceDiagnostic, DocumentDiagnostic
<1>17. CASE UNCHANGED vars
  BY <1>3, <1>17 DEF vars, fileVars
<1>. QED BY <1>5, <1>6, <1>7, <1>8, <1>9, <1>10, <1>12, <1>13, <1>14, <1>15, <1>16, <1>17
     DEF Next

LEMMA PullStays ==
    ASSUME [Next]_vars
    PROVE  UNCHANGED <<pull, streams, refreshes>>
<1>1. ASSUME UNCHANGED clientVars PROVE UNCHANGED <<pull, streams, refreshes>>
  BY <1>1 DEF clientVars
<1>2. ASSUME NEW f \in Files,
             \/ OpenTextDocument(f)
             \/ \E text \in Texts : UpdateTextDocument(f, text)
             \/ DocumentDiagnostic(f)
             \/ OnDidSaveTextDocument(f)
             \/ CloseTextDocument(f)
             \/ \E text \in Texts : WriteFile(f, text)
             \/ DeleteFile(f)
      PROVE  UNCHANGED clientVars
  BY <1>2 DEF OpenTextDocument, UpdateTextDocument, DocumentDiagnostic,
       OnDidSaveTextDocument, CloseTextDocument, WriteFile, DeleteFile
<1>3. ASSUME \/ OnDidChangeWatchedFiles
             \/ ConfigFileChanged
             \/ \E config \in Configs : ConfigChanged(config)
             \/ OtherFolderRecomputes
      PROVE  UNCHANGED clientVars
  BY <1>3 DEF OnDidChangeWatchedFiles, ConfigFileChanged, ConfigChanged,
       OtherFolderRecomputes
<1>4. ASSUME OtherFolderInitialized \/ WorkspaceDiagnostic \/ CancelRequest \/ UNCHANGED vars
      PROVE  UNCHANGED <<pull, streams, refreshes>>
  BY <1>4 DEF OtherFolderInitialized, WorkspaceDiagnostic, CancelRequest,
       vars, clientVars
<1>. QED BY <1>1, <1>2, <1>3, <1>4 DEF Next

LEMMA GoneStep ==
    ASSUME Rewrites = FALSE, TypeInv, GoneInv, [Next]_vars
    PROVE  GoneInv'
<1>1. DocumentsArePresent' /\ OnlyPullStreams'
  BY DocumentsStayPresent, OnlyPullStreamsStep DEF GoneInv
<1>2. pull' = pull
  BY PullStays
<1>3. ASSUME pull PROVE ClearedInTime'
  BY <1>2, <1>3 DEF ClearedInTime
<1>4. ASSUME ~pull PROVE ClearedInTime'
  BY <1>1, <1>4, ClearedInTimeStep
<1>. QED BY <1>1, <1>3, <1>4 DEF GoneInv

LEMMA InitGone == Init => GoneInv
<1> SUFFICES ASSUME Init PROVE GoneInv
  OBVIOUS
<1>1. Managed(folder) = {} /\ stream = Ended /\ shown = [f \in Files |-> NoReport]
  BY DEF Init, Managed, Ended
<1>. QED BY <1>1 DEF GoneInv, DocumentsArePresent, OnlyPullStreams, ClearedInTime

\* A client with push diagnostics shows nothing of an ignored file that is not open.
IgnoredAreCleared == ~pull => \A f \in Ignored \ Managed(folder) : shown[f] = NoReport

\* Such a file is only reported on while it is open, and cleared when it is closed.
LEMMA IgnoredStep ==
    ASSUME TypeInv, OnlyPullStreams, IgnoredAreCleared, [Next]_vars
    PROVE  IgnoredAreCleared'
<1>0. /\ folder \in Folder /\ Ignored \subseteq Files
      /\ shown \in [Files -> Reports] /\ owed \in BOOLEAN /\ refreshes \in BOOLEAN
      /\ UNCHANGED pull
  BY DiagnosticsAssumption, PullStays DEF TypeInv, TypeOK
<1> SUFFICES ASSUME ~pull PROVE IgnoredAreCleared'
  BY <1>0 DEF IgnoredAreCleared
<1> DEFINE Unread == Ignored \ Managed(folder)
<1>1. stream.token = None /\ \A f \in Unread : shown[f] = NoReport
  BY DEF OnlyPullStreams, Ended, IgnoredAreCleared
<1>2. ASSUME \A f \in Ignored \ Managed(folder') : shown'[f] = NoReport
      PROVE  IgnoredAreCleared'
  BY <1>2 DEF IgnoredAreCleared, Managed
<1>3. ASSUME UNCHANGED <<folder, shown>> PROVE IgnoredAreCleared'
  BY <1>1, <1>2, <1>3
<1>4. ASSUME NEW f \in Files, OpenTextDocument(f) PROVE IgnoredAreCleared'
  BY <1>0, <1>1, <1>2, <1>4, OpenIs
<1>5. ASSUME NEW f \in Files, NEW text \in Texts, UpdateTextDocument(f, text)
      PROVE  IgnoredAreCleared'
  <2>1. /\ f \in Managed(folder) /\ Managed(folder') = Managed(folder)
        /\ \A g \in Files : g \notin Affected(folder, f) => shown'[g] = shown[g]
    BY <1>5, UpdateIs
  <2>2. \A g \in Unread : g \notin Affected(folder, f)
    BY <2>1 DEF Affected
  <2>. QED BY <1>0, <1>1, <1>2, <2>1, <2>2
<1>6. ASSUME NEW f \in Files, OnDidSaveTextDocument(f) PROVE IgnoredAreCleared'
  BY <1>1, <1>3, <1>6, SaveIs
<1>7. ASSUME NEW f \in Files, CloseTextDocument(f) PROVE IgnoredAreCleared'
  <2>1. /\ Managed(folder') = Managed(folder) \ {f}
        /\ \A g \in Files : g # f => shown'[g] = shown[g]
        /\ f \in Ignored => shown'[f] = NoReport
    BY <1>7, CloseIs
  <2>. QED BY <1>0, <1>1, <1>2, <2>1
<1>8. ASSUME NEW f \in Files, (\E text \in Texts : WriteFile(f, text)) \/ DeleteFile(f)
      PROVE  IgnoredAreCleared'
  BY <1>3, <1>8 DEF WriteFile, DeleteFile
<1>9. ASSUME NEW w \in Folder, NEW S, w.managedFiles = folder.managedFiles,
             RecomputeDiagnostics(w, S)
      PROVE  IgnoredAreCleared'
  <2>1. /\ folder' = Check(w, Recomputed(w))
        /\ \A g \in Files : \/ g \in Recomputed(w)
                            \/ shown'[g] = NoReport
                            \/ shown'[g] = shown[g]
    BY <1>0, <1>9, RecomputePushes
  <2>2. Managed(w) = Managed(folder) /\ Managed(folder') = Managed(folder)
    BY <1>9, RecomputeIs DEF Managed
  <2>3. \A g \in Unread : g \notin Recomputed(w)
    BY <2>2 DEF Recomputed, WorkspaceChecks
  <2>. QED BY <1>0, <1>1, <1>2, <2>1, <2>2, <2>3
<1>10. CASE OnDidChangeWatchedFiles
  <2>1. CASE UNCHANGED <<folder, shown>>
    BY <1>3, <2>1
  <2>2. CASE RecomputeDiagnostics(Forgotten, DeletedFiles)
    BY <1>0, <1>9, <2>2, ForgottenIs
  <2>3. CASE folder' = folder /\ ClearDiagnosticsForFiles(DeletedFiles)
    <3>1. \A g \in Files : shown'[g] \in {shown[g], NoReport}
      BY <1>0, <2>3, ClearingIs
    <3>. QED BY <1>0, <1>1, <1>2, <2>3, <3>1
  <2>. QED BY <1>10, <2>1, <2>2, <2>3, HandlerIs
<1>11. CASE ConfigFileChanged
  BY <1>0, <1>9, <1>11 DEF ConfigFileChanged
<1>12. ASSUME NEW config \in Configs, ConfigChanged(config) PROVE IgnoredAreCleared'
  <2> DEFINE configured == [folder EXCEPT !.config = config]
  <2>1. configured \in Folder /\ configured.managedFiles = folder.managedFiles
    BY <1>0 DEF Folder
  <2>. HIDE DEF configured
  <2>2. RecomputeDiagnostics(configured, {}) \/ (folder' = configured /\ shown' = shown)
    BY <1>12 DEF ConfigChanged, configured
  <2>3. CASE RecomputeDiagnostics(configured, {})
    BY <1>9, <2>1, <2>3
  <2>4. CASE folder' = configured /\ shown' = shown
    BY <1>1, <1>2, <2>1, <2>4 DEF Managed
  <2>. QED BY <2>2, <2>3, <2>4
<1>13. CASE OtherFolderInitialized \/ CancelRequest
  BY <1>3, <1>13 DEF OtherFolderInitialized, CancelRequest
<1>14. ~OtherFolderRecomputes /\ ~WorkspaceDiagnostic /\ \A f \in Files : ~DocumentDiagnostic(f)
  BY DEF OtherFolderRecomputes, WorkspaceDiagnostic, DocumentDiagnostic
<1>15. CASE UNCHANGED vars
  BY <1>3, <1>15 DEF vars
<1>. QED BY <1>4, <1>5, <1>6, <1>7, <1>8, <1>10, <1>11, <1>12, <1>13, <1>14, <1>15 DEF Next

\* For every set of files, settings and require graph, when no other program
\* writes the files that are open: a client with push diagnostics shows nothing
\* of a file that is not open when it is ignored, or gone and its event has
\* arrived, whatever was published for it before (Workspace.cpp,
\* onDidChangeWatchedFiles, closeTextDocument and clearDiagnosticsForFiles).
THEOREM GoneFilesShowNothing ==
    ASSUME Rewrites = FALSE
    PROVE  Spec => []UnreportedFilesShowNothing
<1> DEFINE Inv == TypeInv /\ StreamInv /\ GoneInv /\ IgnoredAreCleared
<1>1. Init => Inv
  <2>1. Init => IgnoredAreCleared
    BY DiagnosticsAssumption DEF Init, IgnoredAreCleared
  <2>. QED BY <2>1, InitTypes, InitGone
<1>2. Inv /\ [Next]_vars => Inv'
  BY NextTypes, GoneStep, IgnoredStep DEF GoneInv
<1>3. Inv => UnreportedFilesShowNothing
  <2>1. events = <<>> => DeletedFiles = {}
    BY DEF DeletedFiles
  <2>. QED BY <2>1 DEF GoneInv, ClearedInTime, IgnoredAreCleared,
                       UnreportedFilesShowNothing
<1>. QED BY <1>1, <1>2, <1>3, PTL DEF Spec

-----------------------------------------------------------------------------
(* What files and documents hold.                                          *)

\* A document without unsaved changes is what its file holds, and a file some
\* event says was deleted is still gone.
FilesMatch ==
    /\ \A f \in Managed(folder) \ unsaved : folder.managedFiles[f] = disk[f]
    /\ \A f \in DeletedFiles : disk[f] = "absent"

LEMMA EventFiles ==
    ASSUME TypeInv
    PROVE  DeletedFiles \subseteq Touched /\ Touched \subseteq Files
<1> DEFINE E == [uri : Files, type : {"changed", "deleted"}]
<1>1. events \in Seq(E)
  BY DEF TypeInv, TypeOK
<1>. HIDE DEF E
<1>2. \A i \in DOMAIN events : events[i] \in E
  BY <1>1
<1>3. \A e \in E : e.uri \in Files
  BY DEF E
<1>. QED BY <1>2, <1>3 DEF DeletedFiles, Touched

LEMMA FilesMatchStep ==
    ASSUME Rewrites = FALSE, Creates = FALSE,
           TypeInv, DocumentsArePresent, FilesMatch, [Next]_vars
    PROVE  FilesMatch'
<1>0. /\ folder \in Folder /\ disk \in [Files -> Texts \cup {"absent"}]
      /\ Managed(folder) \subseteq Files
      /\ \A f \in Managed(folder) : disk[f] # "absent"
  BY FolderIsOK DEF TypeInv, TypeOK, DocumentsArePresent
<1>1. ASSUME folder'.managedFiles = folder.managedFiles, UNCHANGED <<disk, unsaved>>,
             events' = events \/ events' = <<>>
      PROVE  FilesMatch'
  BY <1>1 DEF FilesMatch, Managed, DeletedFiles
<1>2. ASSUME UNCHANGED <<folder, disk, unsaved, events>> PROVE FilesMatch'
  BY <1>1, <1>2
<1>3. ASSUME NEW f \in Files, OpenTextDocument(f) PROVE FilesMatch'
  <2>1. /\ Managed(folder') = Managed(folder) \cup {f}
        /\ folder'.managedFiles[f] = disk[f]
        /\ \A g \in Managed(folder) :
             folder'.managedFiles[g] = folder.managedFiles[g]
        /\ UNCHANGED <<disk, unsaved, events>>
    BY <1>3, OpenIs DEF fileVars
  <2>. QED BY <2>1 DEF FilesMatch, DeletedFiles
<1>4. ASSUME NEW f \in Files, NEW text \in Texts, UpdateTextDocument(f, text)
      PROVE  FilesMatch'
  <2>1. /\ Managed(folder') = Managed(folder) /\ unsaved' = unsaved \cup {f}
        /\ \A g \in Managed(folder) \ {f} :
             folder'.managedFiles[g] = folder.managedFiles[g]
        /\ UNCHANGED <<disk, events>>
    BY <1>4, UpdateIs
  <2>. QED BY <2>1 DEF FilesMatch, DeletedFiles
<1>5. ASSUME NEW f \in Files, DocumentDiagnostic(f) PROVE FilesMatch'
  <2>1. folder' = Check(folder, {f}) /\ UNCHANGED fileVars
    BY <1>5 DEF DocumentDiagnostic
  <2>. QED BY <1>0, <1>1, <2>1, CheckIs DEF fileVars
<1>6. ASSUME NEW f \in Files, OnDidSaveTextDocument(f) PROVE FilesMatch'
  <2>1. /\ f \in Managed(folder) /\ Event(f, "changed")
        /\ disk' = [disk EXCEPT ![f] = folder.managedFiles[f]]
        /\ unsaved' = unsaved \ {f}
        /\ folder'.managedFiles = folder.managedFiles
    BY <1>6, SaveIs
  <2>2. DeletedFiles' = DeletedFiles \cup {}
    BY <2>1, EventIs
  <2>3. disk'[f] = folder.managedFiles[f] /\ \A g \in Files : g # f => disk'[g] = disk[g]
    BY <1>0, <2>1
  <2>4. f \notin DeletedFiles /\ DeletedFiles \subseteq Files
    BY <1>0, <2>1, EventFiles DEF FilesMatch
  <2>. QED BY <1>0, <2>1, <2>2, <2>3, <2>4 DEF FilesMatch, Managed
<1>7. ASSUME NEW f \in Files, CloseTextDocument(f) PROVE FilesMatch'
  <2>1. /\ Managed(folder') = Managed(folder) \ {f} /\ unsaved' = unsaved \ {f}
        /\ \A g \in Managed(folder') :
             folder'.managedFiles[g] = folder.managedFiles[g]
        /\ UNCHANGED <<disk, events>>
    BY <1>7, CloseIs
  <2>. QED BY <2>1 DEF FilesMatch, DeletedFiles
<1>8. ASSUME NEW f \in Files, NEW text \in Texts, WriteFile(f, text)
      PROVE  FilesMatch'
  <2>1. /\ Event(f, "changed") /\ disk' = [disk EXCEPT ![f] = text]
        /\ f \notin Managed(folder) /\ disk[f] # "absent"
        /\ UNCHANGED <<unsaved, folder>>
    BY <1>8 DEF WriteFile, MayChange
  <2>2. DeletedFiles' = DeletedFiles \cup {}
    BY <2>1, EventIs
  <2>3. \A g \in Files : g # f => disk'[g] = disk[g]
    BY <1>0, <2>1
  <2>4. f \notin DeletedFiles /\ DeletedFiles \subseteq Files
    BY <2>1, EventFiles DEF FilesMatch
  <2>. QED BY <1>0, <2>1, <2>2, <2>3, <2>4 DEF FilesMatch
<1>9. ASSUME NEW f \in Files, DeleteFile(f) PROVE FilesMatch'
  <2>1. /\ Event(f, "deleted") /\ disk' = [disk EXCEPT ![f] = "absent"]
        /\ f \notin Managed(folder) /\ UNCHANGED <<unsaved, folder>>
    BY <1>9 DEF DeleteFile, MayChange
  <2>2. DeletedFiles' = DeletedFiles \cup {f}
    BY <2>1, EventIs
  <2>3. disk'[f] = "absent" /\ \A g \in Files : g # f => disk'[g] = disk[g]
    BY <1>0, <2>1
  <2>4. DeletedFiles \subseteq Files
    BY EventFiles
  <2>. QED BY <1>0, <2>1, <2>2, <2>3, <2>4 DEF FilesMatch
<1>10. CASE OnDidChangeWatchedFiles
  <2>1. events' = <<>> /\ UNCHANGED <<disk, unsaved>>
    BY <1>10, HandlerIs
  <2>2. folder'.managedFiles = folder.managedFiles
    <3>1. CASE RecomputeDiagnostics(Forgotten, DeletedFiles)
      BY <1>0, <3>1, ForgottenIs, RecomputeIs
    <3>. QED BY <1>10, <3>1, HandlerIs
  <2>. QED BY <1>1, <2>1, <2>2
<1>11. CASE ConfigFileChanged
  <2>1. RecomputeDiagnostics(folder, {}) /\ UNCHANGED fileVars
    BY <1>11 DEF ConfigFileChanged
  <2>. QED BY <1>0, <1>1, <2>1, RecomputeIs DEF fileVars
<1>12. ASSUME NEW config \in Configs, ConfigChanged(config) PROVE FilesMatch'
  <2> DEFINE configured == [folder EXCEPT !.config = config]
  <2>1. configured \in Folder /\ configured.managedFiles = folder.managedFiles
    BY <1>0 DEF Folder
  <2>. HIDE DEF configured
  <2>2. UNCHANGED fileVars
        /\ (RecomputeDiagnostics(configured, {}) \/ folder' = configured)
    BY <1>12 DEF ConfigChanged, configured
  <2>. QED BY <1>1, <2>1, <2>2, RecomputeIs DEF fileVars
<1>13. CASE OtherFolderInitialized \/ OtherFolderRecomputes \/ CancelRequest
  BY <1>2, <1>13 DEF OtherFolderInitialized, OtherFolderRecomputes, CancelRequest, fileVars
<1>14. CASE WorkspaceDiagnostic
  <2>1. UNCHANGED fileVars /\ ((folder.isReady /\ othersReady) \/ folder' = folder)
    BY <1>14 DEF WorkspaceDiagnostic
  <2>. QED BY <1>1, <1>2, <1>14, <2>1, AnswerIs DEF fileVars
<1>15. CASE UNCHANGED vars
  BY <1>2, <1>15 DEF vars, fileVars
<1>. QED BY <1>3, <1>4, <1>5, <1>6, <1>7, <1>8, <1>9, <1>10, <1>11, <1>12, <1>13, <1>14, <1>15
     DEF Next

LEMMA InitFilesMatch == Init => FilesMatch
<1> SUFFICES ASSUME Init PROVE FilesMatch
  OBVIOUS
<1>1. Managed(folder) = {} /\ events = <<>>
  BY DEF Init, Managed
<1>. QED BY <1>1 DEF FilesMatch, DeletedFiles

-----------------------------------------------------------------------------
(* Reports and the texts they are made of.                                 *)

\* Every module that is there and that f requires is known to the type checker,
\* so that a change to it reaches f.
RequiresAreKnown(f) ==
    \A h \in Requires[f] : disk[h] # "absent" => h \in folder.known

LEMMA SameReport ==
    ASSUME NEW f \in Files, \A g \in Requires[f] : Source(folder, g)' = Source(folder, g)
    PROVE  Diagnostics(folder, f)' = Diagnostics(folder, f)
<1>1. f \in Requires[f]
  BY DiagnosticsAssumption
<1>. QED BY <1>1 DEF Diagnostics

LEMMA PrimedReport ==
    ASSUME disk' = disk
    PROVE  \A f : Diagnostics(folder, f)' = Diagnostics(folder', f)
<1>1. \A f : Source(folder, f)' = Source(folder', f)
  BY DEF Source, Managed
<1>. QED BY <1>1 DEF Diagnostics

\* Opening a document, saving it and closing it change what no module is checked
\* with; closing one that has unsaved changes would.
LEMMA SourcesStay ==
    ASSUME Discards = FALSE, TypeInv, FilesMatch, NEW f \in Files,
           \/ OpenTextDocument(f)
           \/ DocumentDiagnostic(f)
           \/ OnDidSaveTextDocument(f)
           \/ CloseTextDocument(f)
    PROVE  \A g \in Files : Source(folder, g)' = Source(folder, g)
<1>0. folder \in Folder /\ disk \in [Files -> Texts \cup {"absent"}]
  BY DEF TypeInv, TypeOK
<1>1. CASE OpenTextDocument(f)
  <2>1. /\ f \notin Managed(folder) /\ Managed(folder') = Managed(folder) \cup {f}
        /\ folder'.managedFiles[f] = disk[f]
        /\ \A g \in Managed(folder) : folder'.managedFiles[g] = folder.managedFiles[g]
        /\ disk' = disk
    BY <1>1, OpenIs DEF fileVars
  <2>. QED BY <2>1 DEF Source, Managed
<1>2. CASE DocumentDiagnostic(f)
  <2>1. folder' = Check(folder, {f}) /\ disk' = disk
    BY <1>2 DEF DocumentDiagnostic, fileVars
  <2>2. folder'.managedFiles = folder.managedFiles
    BY <1>0, <2>1, CheckIs
  <2>. QED BY <2>1, <2>2 DEF Source, Managed
<1>3. CASE OnDidSaveTextDocument(f)
  <2>1. /\ f \in Managed(folder)
        /\ disk' = [disk EXCEPT ![f] = folder.managedFiles[f]]
        /\ folder'.managedFiles = folder.managedFiles
    BY <1>3, SaveIs
  <2>2. \A g \in Files : g # f => disk'[g] = disk[g]
    BY <1>0, <2>1
  <2>. QED BY <2>1, <2>2 DEF Source, Managed
<1>4. CASE CloseTextDocument(f)
  <2>1. /\ f \in Managed(folder) /\ f \notin unsaved
        /\ Managed(folder') = Managed(folder) \ {f}
        /\ \A g \in Managed(folder') : folder'.managedFiles[g] = folder.managedFiles[g]
        /\ disk' = disk
    BY <1>4, CloseIs
  <2>2. folder.managedFiles[f] = disk[f]
    BY <2>1 DEF FilesMatch
  <2>. QED BY <2>1, <2>2 DEF Source, Managed
<1>. QED BY <1>1, <1>2, <1>3, <1>4

\* No file appears, and the modules of the files that are there are not forgotten.
LEMMA PresenceStep ==
    ASSUME Creates = FALSE, TypeInv, DocumentsArePresent, FilesMatch, [Next]_vars
    PROVE  \A h \in Files : disk'[h] # "absent" =>
             /\ disk[h] # "absent"
             /\ h \in folder.known => h \in folder'.known
<1> DEFINE Kept == \A h \in Files : disk'[h] # "absent" =>
                     /\ disk[h] # "absent"
                     /\ h \in folder.known => h \in folder'.known
<1>0. folder \in Folder /\ disk \in [Files -> Texts \cup {"absent"}]
  BY DEF TypeInv, TypeOK
<1>1. ASSUME disk' = disk, folder.known \subseteq folder'.known PROVE Kept
  BY <1>1
<1>2. ASSUME UNCHANGED <<folder, disk>> PROVE Kept
  BY <1>2
<1>3. ASSUME NEW f \in Files, OpenTextDocument(f) PROVE Kept
  BY <1>1, <1>3, OpenIs DEF fileVars
<1>4. ASSUME NEW f \in Files, NEW text \in Texts, UpdateTextDocument(f, text) PROVE Kept
  BY <1>1, <1>4, UpdateIs
<1>5. ASSUME NEW f \in Files, DocumentDiagnostic(f) PROVE Kept
  <2>1. folder' = Check(folder, {f}) /\ disk' = disk
    BY <1>5 DEF DocumentDiagnostic, fileVars
  <2>. QED BY <1>0, <1>1, <2>1, CheckIs
<1>6. ASSUME NEW f \in Files, OnDidSaveTextDocument(f) PROVE Kept
  <2>1. /\ f \in Managed(folder) /\ folder.known \subseteq folder'.known
        /\ disk' = [disk EXCEPT ![f] = folder.managedFiles[f]]
    BY <1>6, SaveIs
  <2>2. disk[f] # "absent" /\ \A g \in Files : g # f => disk'[g] = disk[g]
    BY <1>0, <2>1 DEF DocumentsArePresent
  <2>. QED BY <2>1, <2>2
<1>7. ASSUME NEW f \in Files, CloseTextDocument(f) PROVE Kept
  BY <1>1, <1>7, CloseIs
<1>8. ASSUME NEW f \in Files, (\E text \in Texts : WriteFile(f, text)) \/ DeleteFile(f)
      PROVE  Kept
  <2>1. /\ disk[f] # "absent" /\ folder' = folder
        /\ \E t : disk' = [disk EXCEPT ![f] = t]
    BY <1>8 DEF WriteFile, DeleteFile
  <2>2. \A g \in Files : g # f => disk'[g] = disk[g]
    BY <1>0, <2>1
  <2>. QED BY <2>1, <2>2
<1>9. CASE OnDidChangeWatchedFiles
  <2>1. disk' = disk
    BY <1>9, HandlerIs
  <2>2. CASE RecomputeDiagnostics(Forgotten, DeletedFiles)
    <3>1. folder.known \ DeletedModules \subseteq folder'.known
      BY <1>0, <2>2, ForgottenIs, RecomputeIs
    <3>2. \A h \in DeletedModules : disk[h] = "absent"
      BY DEF DeletedModules, DeletedFiles, FilesMatch
    <3>. QED BY <2>1, <3>1, <3>2
  <2>. QED BY <1>2, <1>9, <2>1, <2>2, HandlerIs
<1>10. CASE ConfigFileChanged
  <2>1. RecomputeDiagnostics(folder, {}) /\ disk' = disk
    BY <1>10 DEF ConfigFileChanged, fileVars
  <2>. QED BY <1>0, <1>1, <2>1, RecomputeIs
<1>11. ASSUME NEW config \in Configs, ConfigChanged(config) PROVE Kept
  <2> DEFINE configured == [folder EXCEPT !.config = config]
  <2>1. configured \in Folder /\ configured.known = folder.known
    BY <1>0 DEF Folder
  <2>. HIDE DEF configured
  <2>2. disk' = disk /\ (RecomputeDiagnostics(configured, {}) \/ folder' = configured)
    BY <1>11 DEF ConfigChanged, configured, fileVars
  <2>. QED BY <1>1, <2>1, <2>2, RecomputeIs
<1>12. CASE OtherFolderInitialized \/ OtherFolderRecomputes \/ CancelRequest
  BY <1>2, <1>12 DEF OtherFolderInitialized, OtherFolderRecomputes, CancelRequest, fileVars
<1>13. CASE WorkspaceDiagnostic
  <2>1. disk' = disk /\ ((folder.isReady /\ othersReady) \/ folder' = folder)
    BY <1>13 DEF WorkspaceDiagnostic, fileVars
  <2>. QED BY <1>1, <1>2, <1>13, <2>1, AnswerIs
<1>14. CASE UNCHANGED vars
  BY <1>2, <1>14 DEF vars, fileVars
<1>. QED BY <1>3, <1>4, <1>5, <1>6, <1>7, <1>8, <1>9, <1>10, <1>11, <1>12, <1>13, <1>14
     DEF Next

LEMMA KnownStay ==
    ASSUME Creates = FALSE, TypeInv, DocumentsArePresent, FilesMatch, [Next]_vars,
           NEW f \in Files, RequiresAreKnown(f)
    PROVE  RequiresAreKnown(f)'
<1>1. Requires[f] \subseteq Files
  BY DiagnosticsAssumption
<1>2. \A h \in Files : disk'[h] # "absent" =>
        /\ disk[h] # "absent"
        /\ h \in folder.known => h \in folder'.known
  BY PresenceStep
<1>. QED BY <1>1, <1>2 DEF RequiresAreKnown

-----------------------------------------------------------------------------
(* Clients with push diagnostics.                                          *)

\* What is required by an open document is known, as it was checked when it was
\* opened.
OpenRequiresKnown == ~pull => \A f \in Managed(folder) : RequiresAreKnown(f)

\* Some file that a module was checked with was changed, and the client has not
\* sent its event yet.
ChangeIsOnItsWay == (Touched \cap folder.known) \ Managed(folder) # {}

\* An open document's report is current, or the event that renews it is on its way.
PushedAreCurrent ==
    ~pull /\ folder.config.includeDependents /\ ~ChangeIsOnItsWay =>
        \A f \in Managed(folder) \ Ignored : shown[f] = Diagnostics(folder, f)

LEMMA OpenRequiresKnownStep ==
    ASSUME Rewrites = FALSE, Creates = FALSE, TypeInv, GoneInv, FilesMatch,
           OpenRequiresKnown, [Next]_vars
    PROVE  OpenRequiresKnown'
<1>0. /\ folder \in Folder /\ Managed(folder) \subseteq Files
      /\ pull' = pull /\ DocumentsArePresent
  BY FolderIsOK, PullStays DEF TypeInv, GoneInv
<1>1. ASSUME ~pull, Managed(folder') \subseteq Managed(folder)
      PROVE  OpenRequiresKnown'
  <2>1. \A f \in Managed(folder') : RequiresAreKnown(f)'
    BY <1>0, <1>1, KnownStay DEF OpenRequiresKnown
  <2>. QED BY <2>1 DEF OpenRequiresKnown
<1>2. ASSUME ~pull, folder'.managedFiles = folder.managedFiles \/ folder' = folder
      PROVE  OpenRequiresKnown'
  BY <1>1, <1>2 DEF Managed
<1>3. ASSUME NEW f \in Files, OpenTextDocument(f), ~pull PROVE OpenRequiresKnown'
  <2>1. /\ Managed(folder') = Managed(folder) \cup {f}
        /\ \A g \in Requires[f] : Source(folder', g) # "absent" => g \in folder'.known
        /\ disk' = disk
    BY <1>3, OpenIs DEF fileVars
  <2>2. RequiresAreKnown(f)'
    <3>1. folder' \in Folder
      BY <1>3, OpenIs
    <3>2. \A h \in Managed(folder') : folder'.managedFiles[h] # "absent"
      BY <3>1, FolderIsOK DEF FolderOK, Managed, Texts
    <3>3. \A h : disk[h] # "absent" => Source(folder', h) # "absent"
      BY <3>2 DEF Source
    <3>. QED BY <2>1, <3>3 DEF RequiresAreKnown
  <2>3. \A g \in Managed(folder) : RequiresAreKnown(g)'
    BY <1>0, <1>3, KnownStay DEF OpenRequiresKnown
  <2>. QED BY <2>1, <2>2, <2>3 DEF OpenRequiresKnown
<1>4. ASSUME NEW f \in Files, NEW text \in Texts, UpdateTextDocument(f, text), ~pull
      PROVE  OpenRequiresKnown'
  BY <1>1, <1>4, UpdateIs
<1>5. ASSUME NEW f \in Files, OnDidSaveTextDocument(f), ~pull PROVE OpenRequiresKnown'
  BY <1>2, <1>5, SaveIs
<1>6. ASSUME NEW f \in Files, CloseTextDocument(f), ~pull PROVE OpenRequiresKnown'
  BY <1>1, <1>6, CloseIs
<1>7. ASSUME NEW f \in Files, (\E text \in Texts : WriteFile(f, text)) \/ DeleteFile(f),
             ~pull
      PROVE  OpenRequiresKnown'
  BY <1>2, <1>7 DEF WriteFile, DeleteFile
<1>8. CASE OnDidChangeWatchedFiles /\ ~pull
  <2>1. CASE RecomputeDiagnostics(Forgotten, DeletedFiles)
    BY <1>0, <1>2, <1>8, <2>1, ForgottenIs, RecomputeIs
  <2>. QED BY <1>2, <1>8, <2>1, HandlerIs
<1>9. CASE ConfigFileChanged /\ ~pull
  BY <1>0, <1>2, <1>9, RecomputeIs DEF ConfigFileChanged
<1>10. ASSUME NEW config \in Configs, ConfigChanged(config), ~pull
       PROVE  OpenRequiresKnown'
  <2> DEFINE configured == [folder EXCEPT !.config = config]
  <2>1. configured \in Folder /\ configured.managedFiles = folder.managedFiles
    BY <1>0 DEF Folder
  <2>. HIDE DEF configured
  <2>2. RecomputeDiagnostics(configured, {}) \/ folder' = configured
    BY <1>10 DEF ConfigChanged, configured
  <2>. QED BY <1>2, <1>10, <2>1, <2>2, RecomputeIs
<1>11. CASE (OtherFolderInitialized \/ CancelRequest \/ UNCHANGED vars) /\ ~pull
  BY <1>2, <1>11 DEF OtherFolderInitialized, CancelRequest, vars, fileVars
<1>12. CASE pull
  BY <1>0, <1>12 DEF OpenRequiresKnown
<1>13. pull \/ (~OtherFolderRecomputes /\ ~WorkspaceDiagnostic
                /\ \A f \in Files : ~DocumentDiagnostic(f))
  BY DEF OtherFolderRecomputes, WorkspaceDiagnostic, DocumentDiagnostic
<1>. QED BY <1>3, <1>4, <1>5, <1>6, <1>7, <1>8, <1>9, <1>10, <1>11, <1>12, <1>13 DEF Next

\* A change of a file that is not open leaves the report of a module alone, or
\* the module requires the file, so that its event will renew the report.
LEMMA ChangedFileIsKnown ==
    ASSUME TypeInv, NEW f \in Files, NEW type \in {"changed", "deleted"}, NEW t,
           disk[f] # "absent", f \notin Managed(folder),
           disk' = [disk EXCEPT ![f] = t], folder' = folder, Event(f, type),
           NEW g \in Files, RequiresAreKnown(g)
    PROVE  /\ ChangeIsOnItsWay => ChangeIsOnItsWay'
           /\ ~ChangeIsOnItsWay' => Diagnostics(folder, g)' = Diagnostics(folder, g)
<1>1. Touched' = Touched \cup {f}
  BY EventIs
<1>2. ASSUME ~ChangeIsOnItsWay' PROVE f \notin Requires[g]
  BY <1>1, <1>2 DEF ChangeIsOnItsWay, RequiresAreKnown
<1>3. \A h \in Files : h # f => disk'[h] = disk[h]
  BY DEF TypeInv, TypeOK
<1>4. Requires[g] \subseteq Files
  BY DiagnosticsAssumption
<1>5. ASSUME f \notin Requires[g]
      PROVE  \A h \in Requires[g] : Source(folder, h)' = Source(folder, h)
  BY <1>3, <1>4, <1>5 DEF Source, Managed
<1>6. f \notin Requires[g] => Diagnostics(folder, g)' = Diagnostics(folder, g)
  BY <1>5, SameReport
<1>. QED BY <1>1, <1>2, <1>6 DEF ChangeIsOnItsWay

LEMMA PushedAreCurrentStep ==
    ASSUME OpensEarly = FALSE, Creates = FALSE, Discards = FALSE, Rewrites = FALSE,
           TypeInv, GoneInv, FilesMatch, OpenRequiresKnown, PushedAreCurrent,
           ~pull, [Next]_vars
    PROVE  PushedAreCurrent'
<1>0. /\ folder \in Folder /\ Managed(folder) \subseteq Files
      /\ disk \in [Files -> Texts \cup {"absent"}] /\ shown \in [Files -> Reports]
      /\ owed \in BOOLEAN /\ refreshes \in BOOLEAN
      /\ stream.token = None
      /\ \A f \in Managed(folder) : disk[f] # "absent" /\ folder.isReady
      /\ \A f \in Managed(folder) : RequiresAreKnown(f)
  BY FolderIsOK DEF TypeInv, TypeOK, GoneInv, DocumentsArePresent, OnlyPullStreams,
                    Ended, OpenRequiresKnown
<1>1. ASSUME UNCHANGED <<folder, disk, shown, events>> PROVE PushedAreCurrent'
  <2>1. \A f : Diagnostics(folder, f)' = Diagnostics(folder, f)
    BY <1>1 DEF Diagnostics, Source, Managed
  <2>. QED BY <1>0, <1>1, <2>1 DEF PushedAreCurrent, ChangeIsOnItsWay, Touched
<1>2. ASSUME NEW f \in Files, OpenTextDocument(f) PROVE PushedAreCurrent'
  <2>1. /\ f \notin Touched
        /\ folder'.config = folder.config
        /\ Managed(folder') = Managed(folder) \cup {f}
        /\ folder.known \subseteq folder'.known
        /\ \A g \in Files : shown'[g] = IF g = f THEN Diagnostics(folder', g)
                                        ELSE shown[g]
        /\ disk' = disk /\ events' = events
    BY <1>2, OpenIs DEF fileVars
  <2>2. \A g \in Files : Diagnostics(folder, g)' = Diagnostics(folder, g)
    BY <1>2, SourcesStay, SameReport, DiagnosticsAssumption
  <2>3. Diagnostics(folder, f)' = Diagnostics(folder', f)
    BY <2>1, PrimedReport
  <2>4. ~ChangeIsOnItsWay' => ~ChangeIsOnItsWay
    BY <2>1 DEF ChangeIsOnItsWay, Touched
  <2>. QED BY <1>0, <2>1, <2>2, <2>3, <2>4 DEF PushedAreCurrent
<1>3. ASSUME NEW f \in Files, NEW text \in Texts, UpdateTextDocument(f, text)
      PROVE  PushedAreCurrent'
  <2>1. /\ f \in Managed(folder) /\ folder'.config = folder.config
        /\ Managed(folder') = Managed(folder)
        /\ \A g \in Managed(folder) \ {f} :
             folder'.managedFiles[g] = folder.managedFiles[g]
        /\ folder.known \subseteq folder'.known
        /\ \A g \in Files : shown'[g] = IF g \in Affected(folder, f)
                                        THEN Diagnostics(folder', g) ELSE shown[g]
        /\ disk' = disk /\ events' = events
    BY <1>3, UpdateIs
  <2>2. \A g \in Files : g # f => Source(folder, g)' = Source(folder, g)
    BY <2>1 DEF Source, Managed
  <2>3. \A g \in Files : f \notin Requires[g]
          => Diagnostics(folder, g)' = Diagnostics(folder, g)
    BY <2>2, SameReport, DiagnosticsAssumption
  <2>4. \A g \in Files : Diagnostics(folder, g)' = Diagnostics(folder', g)
    BY <2>1, PrimedReport
  <2>5. ASSUME folder.config.includeDependents,
               NEW g \in Managed(folder) \ Ignored, f \in Requires[g]
        PROVE  g \in Affected(folder, f)
    <3>1. g \in Requires[g]
      BY <1>0, DiagnosticsAssumption
    <3>2. f \in folder.known /\ g \in folder.known
      BY <1>0, <2>1, <2>5, <3>1 DEF RequiresAreKnown
    <3>. QED BY <2>5, <3>2 DEF Affected, Dependents
  <2>6. ~ChangeIsOnItsWay' => ~ChangeIsOnItsWay
    BY <2>1 DEF ChangeIsOnItsWay, Touched
  <2>. QED BY <1>0, <2>1, <2>3, <2>4, <2>5, <2>6 DEF PushedAreCurrent
<1>4. ASSUME NEW f \in Files, OnDidSaveTextDocument(f) PROVE PushedAreCurrent'
  <2>1. /\ f \in Managed(folder) /\ Event(f, "changed")
        /\ UNCHANGED <<folder, shown>>
    BY <1>0, <1>4, SaveIs
  <2>2. \A g \in Files : Diagnostics(folder, g)' = Diagnostics(folder, g)
    BY <1>4, SourcesStay, SameReport, DiagnosticsAssumption
  <2>3. Touched' = Touched \cup {f}
    BY <2>1, EventIs
  <2>. QED BY <1>0, <2>1, <2>2, <2>3 DEF PushedAreCurrent, ChangeIsOnItsWay
<1>5. ASSUME NEW f \in Files, CloseTextDocument(f) PROVE PushedAreCurrent'
  <2>1. /\ Managed(folder') = Managed(folder) \ {f}
        /\ folder'.config = folder.config /\ folder'.known = folder.known
        /\ \A g \in Files : g # f => shown'[g] = shown[g]
        /\ events' = events
    BY <1>5, CloseIs
  <2>2. \A g \in Files : Diagnostics(folder, g)' = Diagnostics(folder, g)
    BY <1>5, SourcesStay, SameReport, DiagnosticsAssumption
  <2>3. ~ChangeIsOnItsWay' => ~ChangeIsOnItsWay
    BY <2>1 DEF ChangeIsOnItsWay, Touched
  <2>. QED BY <1>0, <2>1, <2>2, <2>3 DEF PushedAreCurrent
<1>6. ASSUME NEW f \in Files, (\E text \in Texts : WriteFile(f, text)) \/ DeleteFile(f)
      PROVE  PushedAreCurrent'
  <2>1. PICK t \in Texts \cup {"absent"}, type \in {"changed", "deleted"} :
          /\ Event(f, type) /\ disk' = [disk EXCEPT ![f] = t]
    BY <1>6 DEF WriteFile, DeleteFile
  <2>2. /\ f \notin Managed(folder) /\ disk[f] # "absent"
        /\ folder' = folder /\ shown' = shown
    BY <1>6 DEF WriteFile, DeleteFile, MayChange
  <2>3. \A g \in Managed(folder) :
          /\ ChangeIsOnItsWay => ChangeIsOnItsWay'
          /\ ~ChangeIsOnItsWay' => Diagnostics(folder, g)' = Diagnostics(folder, g)
    BY <1>0, <2>1, <2>2, ChangedFileIsKnown
  <2>. QED BY <2>2, <2>3 DEF PushedAreCurrent
<1>7. ASSUME NEW w \in Folder, NEW S, w.managedFiles = folder.managedFiles,
             RecomputeDiagnostics(w, S), disk' = disk
      PROVE  PushedAreCurrent'
  <2>1. /\ folder' = Check(w, Recomputed(w))
        /\ \A f \in Files : f \in Recomputed(w) => shown'[f] = Diagnostics(w, f)
    BY <1>0, <1>7, RecomputePushes
  <2>2. folder'.managedFiles = w.managedFiles
    BY <1>7, RecomputeIs
  <2>3. \A f : Diagnostics(folder, f)' = Diagnostics(w, f)
    <3>1. \A f : Diagnostics(folder', f) = Diagnostics(w, f)
      BY <2>2, SameTexts
    <3>. QED BY <1>7, <3>1, PrimedReport
  <2>4. Managed(folder') = Managed(folder) /\ Managed(w) = Managed(folder)
    BY <1>7, <2>2 DEF Managed
  <2>5. Managed(folder) \ Ignored \subseteq Recomputed(w)
    BY <1>0, <2>4 DEF Recomputed, WorkspaceChecks
  <2>. QED BY <1>0, <2>1, <2>3, <2>4, <2>5 DEF PushedAreCurrent
<1>8. CASE OnDidChangeWatchedFiles
  <2>1. disk' = disk /\ events' = <<>>
    BY <1>8, HandlerIs
  <2>2. CASE ~folder.isReady /\ UNCHANGED <<folder, shown>>
    BY <1>0, <2>2 DEF PushedAreCurrent
  <2>3. CASE RecomputeDiagnostics(Forgotten, DeletedFiles)
    BY <1>0, <1>7, <2>1, <2>3, ForgottenIs
  <2>4. CASE /\ (Touched \cap folder.known) \subseteq Managed(folder)
             /\ folder' = folder /\ ClearDiagnosticsForFiles(DeletedFiles)
    <3>1. \A f \in Files : shown'[f] = IF f \in Cleared(DeletedFiles) THEN NoReport
                                       ELSE shown[f]
      BY <1>0, <2>4, ClearingIs
    <3>2. \A f \in Managed(folder) : f \notin DeletedFiles
      BY <1>0 DEF FilesMatch
    <3>3. \A f \in Managed(folder) : shown'[f] = shown[f]
      BY <1>0, <3>1, <3>2 DEF Cleared
    <3>4. ~ChangeIsOnItsWay
      BY <2>4 DEF ChangeIsOnItsWay
    <3>5. \A f : Diagnostics(folder, f)' = Diagnostics(folder, f)
      BY <2>1, <2>4, PrimedReport
    <3>. QED BY <1>0, <2>4, <3>3, <3>4, <3>5 DEF PushedAreCurrent
  <2>. QED BY <1>8, <2>2, <2>3, <2>4, HandlerIs
<1>9. CASE ConfigFileChanged
  BY <1>0, <1>7, <1>9 DEF ConfigFileChanged, fileVars
<1>10. ASSUME NEW config \in Configs, ConfigChanged(config) PROVE PushedAreCurrent'
  <2> DEFINE configured == [folder EXCEPT !.config = config]
  <2>1. configured \in Folder /\ configured.managedFiles = folder.managedFiles
    BY <1>0 DEF Folder
  <2>. HIDE DEF configured
  <2>2. /\ disk' = disk
        /\ \/ RecomputeDiagnostics(configured, {})
           \/ ~folder.isReady /\ folder' = configured
    BY <1>10 DEF ConfigChanged, fileVars, configured
  <2>3. CASE ~folder.isReady /\ folder' = configured
    <3>1. Managed(folder') = {}
      BY <1>0, <2>1, <2>3 DEF Managed
    <3>. QED BY <3>1 DEF PushedAreCurrent
  <2>. QED BY <1>7, <2>1, <2>2, <2>3
<1>11. CASE OtherFolderInitialized \/ CancelRequest \/ UNCHANGED vars
  BY <1>1, <1>11 DEF OtherFolderInitialized, CancelRequest, fileVars, vars
<1>12. ~OtherFolderRecomputes /\ ~WorkspaceDiagnostic /\ \A f \in Files : ~DocumentDiagnostic(f)
  BY DEF OtherFolderRecomputes, WorkspaceDiagnostic, DocumentDiagnostic
<1>. QED BY <1>2, <1>3, <1>4, <1>5, <1>6, <1>8, <1>9, <1>10, <1>11, <1>12 DEF Next

PublishedInv == OpenRequiresKnown /\ PushedAreCurrent

LEMMA PublishedStep ==
    ASSUME OpensEarly = FALSE, Creates = FALSE, Discards = FALSE, Rewrites = FALSE,
           TypeInv, GoneInv, FilesMatch, PublishedInv, [Next]_vars
    PROVE  PublishedInv'
<1>1. pull' = pull
  BY PullStays
<1>2. OpenRequiresKnown'
  BY OpenRequiresKnownStep DEF PublishedInv
<1>3. ASSUME pull PROVE PushedAreCurrent'
  BY <1>1, <1>3 DEF PushedAreCurrent
<1>4. ASSUME ~pull PROVE PushedAreCurrent'
  BY <1>4, PushedAreCurrentStep DEF PublishedInv
<1>. QED BY <1>2, <1>3, <1>4 DEF PublishedInv

\* For every set of files, require graph, settings and ignored files: when the
\* files that are open change through the editor only, no file appears, none is
\* opened while its event is on its way and none is closed with unsaved changes,
\* the reports a client with push diagnostics has of its open documents are
\* current once its events have arrived (Workspace.cpp, updateTextDocument and
\* onDidChangeWatchedFiles; Diagnostics.cpp, recomputeDiagnostics).
THEOREM PushedDiagnosticsStayCurrent ==
    ASSUME OpensEarly = FALSE, Creates = FALSE, Discards = FALSE, Rewrites = FALSE
    PROVE  Spec => []PublishedDiagnosticsAreCurrent
<1> DEFINE Inv == TypeInv /\ StreamInv /\ GoneInv /\ FilesMatch /\ PublishedInv
<1>1. Init => Inv
  <2>1. Init => Managed(folder) = {}
    BY DEF Init, Managed
  <2>2. Init => PublishedInv
    BY <2>1 DEF PublishedInv, OpenRequiresKnown, PushedAreCurrent
  <2>. QED BY <2>2, InitTypes, InitGone, InitFilesMatch
<1>2. Inv /\ [Next]_vars => Inv'
  BY NextTypes, GoneStep, FilesMatchStep, PublishedStep DEF GoneInv
<1>3. Inv => PublishedDiagnosticsAreCurrent
  <2>1. events = <<>> => Touched = {}
    BY DEF Touched
  <2>. QED BY <2>1 DEF PublishedInv, PushedAreCurrent, ChangeIsOnItsWay,
                      PublishedDiagnosticsAreCurrent
<1>. QED BY <1>1, <1>2, <1>3, PTL DEF Spec

-----------------------------------------------------------------------------
(* Clients that stream the diagnostics of the workspace.                   *)

\* The client has asked for the workspace's diagnostics, can be told to ask again
\* and was not.
Watching ==
    /\ pull /\ streams /\ requests > 0 /\ ~owed
    /\ refreshes \/ requests \notin cancelled

\* The files whose reports are streamed.
Watched == IF folder.config.workspace
           THEN {f \in Files \ Ignored : disk[f] # "absent"} ELSE {}

\* A module is checked with a document that was changed and not saved.
ReadsUnsaved(f) == \E h \in unsaved : h \in Requires[f]

WatchedRequiresKnown == \A f \in Watched : RequiresAreKnown(f)

\* A file's report is current, or the event or the save that renews it is to come.
WatchedAreCurrent ==
    ~ChangeIsOnItsWay =>
      \A f \in Watched : shown[f] = Diagnostics(folder, f) \/ ReadsUnsaved(f)

\* Nothing is shown of the other files, unless they are open.
OthersShowNothing ==
    \A f \in Files : /\ disk[f] # "absent"
                     /\ ~folder.config.workspace \/ f \in Ignored \ Managed(folder)
                     => shown[f] = NoReport

WatchedInv ==
    Watching =>
      /\ stream.token # None
      /\ ~refreshes => stream.requestId = requests
      /\ folder.isReady
      /\ WatchedRequiresKnown
      /\ WatchedAreCurrent
      /\ OthersShowNothing

\* Such a client is told whenever the stream it watches is ended.
LEMMA RestartTells ==
    ASSUME TypeInv, WatchedInv, Watching, RestartWorkspaceDiagnostics
    PROVE  owed' = TRUE
<1>1. /\ owed \in BOOLEAN /\ refreshes \in BOOLEAN /\ requests \in Nat /\ requests > 0
      /\ refreshes \/ requests \notin cancelled
      /\ ~refreshes => stream.requestId = requests
  BY DiagnosticsAssumption DEF TypeInv, TypeOK, WatchedInv, Watching
<1>2. refreshes \/ Retriggers
  BY <1>1 DEF Retriggers, None
<1>. QED BY <1>1, <1>2, RestartIs

LEMMA WatchedStay ==
    ASSUME Creates = FALSE, TypeInv, DocumentsArePresent, FilesMatch, [Next]_vars,
           folder'.config = folder.config
    PROVE  /\ Watched' \subseteq Watched /\ Watched \subseteq Files
           /\ WatchedRequiresKnown => WatchedRequiresKnown'
<1>1. Watched' \subseteq Watched /\ Watched \subseteq Files
  BY PresenceStep DEF Watched
<1>2. ASSUME WatchedRequiresKnown, NEW f \in Watched' PROVE RequiresAreKnown(f)'
  <2>1. f \in Watched /\ f \in Files
    BY <1>1, <1>2
  <2>2. RequiresAreKnown(f)
    BY <1>2, <2>1 DEF WatchedRequiresKnown
  <2>. QED BY <2>1, <2>2, KnownStay
<1>3. WatchedRequiresKnown => WatchedRequiresKnown'
  BY <1>2 DEF WatchedRequiresKnown
<1>. QED BY <1>1, <1>3

\* The answer to workspace/diagnostic reports every file there is.
LEMMA AnswerIsCurrent ==
    ASSUME TypeInv, DocumentsArePresent, WorkspaceDiagnostic, Watching'
    PROVE  WatchedInv'
<1>0. folder \in Folder /\ requests \in Nat
  BY DiagnosticsAssumption DEF TypeInv, TypeOK
<1>1. /\ UNCHANGED <<disk, unsaved, events, streams>>
      /\ ~(folder.isReady /\ othersReady) => owed'
      /\ requests' = requests + 1
  BY DEF WorkspaceDiagnostic, fileVars
<1>2. folder.isReady /\ othersReady /\ streams
  BY <1>1 DEF Watching
<1>3. /\ folder' = Check(folder, WorkspaceChecks(folder))
      /\ \A f \in Files :
           shown'[f] = IF disk[f] = "absent" THEN shown[f]
                       ELSE IF folder.config.workspace /\ f \notin Ignored
                            THEN Diagnostics(folder, f) ELSE NoReport
      /\ stream' = Opened(requests + 1)
  BY <1>2, AnswerIs
<1>4. WorkspaceChecks(folder) \in SUBSET Files
  BY DEF WorkspaceChecks
<1>5. /\ folder'.isReady = folder.isReady
      /\ folder'.config = folder.config
      /\ folder'.managedFiles = folder.managedFiles
      /\ folder'.known = folder.known \cup
           {f \in UNION {Requires[g] : g \in WorkspaceChecks(folder)} :
              Source(folder, f) # "absent"}
  BY <1>0, <1>3, <1>4, CheckIs
<1>6. stream'.token # None /\ stream'.requestId = requests'
  BY <1>0, <1>1, <1>3 DEF Opened, None
<1>7. \A f : Diagnostics(folder, f)' = Diagnostics(folder, f)
  BY <1>1, <1>5, SameTexts, PrimedReport
<1>8. Watched' = WorkspaceChecks(folder)
  BY <1>1, <1>5 DEF Watched, WorkspaceChecks
<1>9. WatchedRequiresKnown'
  <2>1. \A f \in Managed(folder) : folder.managedFiles[f] # "absent"
    BY <1>0, FolderIsOK DEF FolderOK, Managed, Texts
  <2>2. \A f : disk[f] # "absent" => Source(folder, f) # "absent"
    BY <2>1 DEF Source
  <2>. QED BY <1>1, <1>5, <1>8, <2>2 DEF WatchedRequiresKnown, RequiresAreKnown
<1>10. WatchedAreCurrent'
  BY <1>1, <1>3, <1>7, <1>8 DEF WatchedAreCurrent, WorkspaceChecks
<1>11. OthersShowNothing'
  BY <1>1, <1>3, <1>5 DEF OthersShowNothing, Managed
<1>. QED BY <1>2, <1>5, <1>6, <1>9, <1>10, <1>11 DEF WatchedInv

\* Only workspace/diagnostic is a request, and what is cancelled stays so.
LEMMA RequestsStay ==
    ASSUME [Next]_vars, ~WorkspaceDiagnostic
    PROVE  requests' = requests /\ cancelled \subseteq cancelled'
<1>1. ASSUME UNCHANGED clientVars PROVE requests' = requests /\ cancelled \subseteq cancelled'
  BY <1>1 DEF clientVars
<1>2. ASSUME NEW f \in Files,
             \/ OpenTextDocument(f)
             \/ \E text \in Texts : UpdateTextDocument(f, text)
             \/ DocumentDiagnostic(f)
             \/ OnDidSaveTextDocument(f)
             \/ CloseTextDocument(f)
             \/ \E text \in Texts : WriteFile(f, text)
             \/ DeleteFile(f)
      PROVE  UNCHANGED clientVars
  BY <1>2 DEF OpenTextDocument, UpdateTextDocument, DocumentDiagnostic,
       OnDidSaveTextDocument, CloseTextDocument, WriteFile, DeleteFile
<1>3. ASSUME \/ OnDidChangeWatchedFiles
             \/ ConfigFileChanged
             \/ \E config \in Configs : ConfigChanged(config)
             \/ OtherFolderRecomputes
             \/ UNCHANGED vars
      PROVE  UNCHANGED clientVars
  BY <1>3 DEF OnDidChangeWatchedFiles, ConfigFileChanged, ConfigChanged,
       OtherFolderRecomputes, vars
<1>4. ASSUME OtherFolderInitialized \/ CancelRequest
      PROVE  requests' = requests /\ cancelled \subseteq cancelled'
  BY <1>4 DEF OtherFolderInitialized, CancelRequest
<1>. QED BY <1>1, <1>2, <1>3, <1>4 DEF Next

LEMMA WatchedStep ==
    ASSUME OpensEarly = FALSE, Creates = FALSE, Discards = FALSE, Rewrites = FALSE,
           TypeInv, GoneInv, FilesMatch, WatchedInv, Watching, [Next]_vars,
           Watching', ~WorkspaceDiagnostic
    PROVE  WatchedInv'
<1>0. /\ folder \in Folder /\ Managed(folder) \subseteq Files
      /\ disk \in [Files -> Texts \cup {"absent"}] /\ shown \in [Files -> Reports]
      /\ owed \in BOOLEAN /\ refreshes \in BOOLEAN
      /\ pull /\ ~owed' /\ stream.token # None /\ folder.isReady
      /\ ~refreshes => stream.requestId = requests
      /\ \A f \in Managed(folder) : disk[f] # "absent"
      /\ DocumentsArePresent
      /\ WatchedRequiresKnown /\ WatchedAreCurrent /\ OthersShowNothing
  BY FolderIsOK DEF TypeInv, TypeOK, GoneInv, DocumentsArePresent, WatchedInv, Watching
<1>1. ASSUME folder'.config = folder.config, folder'.isReady, stream' = stream,
             WatchedAreCurrent', OthersShowNothing'
      PROVE  WatchedInv'
  <2>1. UNCHANGED <<refreshes, requests>>
    BY PullStays, RequestsStay
  <2>. QED BY <1>0, <1>1, <2>1, WatchedStay DEF WatchedInv
<1>2. ASSUME folder'.config = folder.config,
             \A f \in Watched' : /\ Diagnostics(folder, f)' = Diagnostics(folder, f)
                                 /\ shown'[f] = shown[f],
             ~ChangeIsOnItsWay' => ~ChangeIsOnItsWay, unsaved \subseteq unsaved'
      PROVE  WatchedAreCurrent'
  <2>1. Watched' \subseteq Watched
    BY <1>0, <1>2, WatchedStay
  <2>. QED BY <1>0, <1>2, <2>1 DEF WatchedAreCurrent, ReadsUnsaved
<1>3. ASSUME UNCHANGED <<folder, disk, unsaved, events, shown, stream>>
      PROVE  WatchedInv'
  <2>1. \A f : Diagnostics(folder, f)' = Diagnostics(folder, f)
    BY <1>3, PrimedReport
  <2>2. WatchedAreCurrent'
    BY <1>2, <1>3, <2>1 DEF ChangeIsOnItsWay, Touched
  <2>3. OthersShowNothing'
    BY <1>0, <1>3 DEF OthersShowNothing
  <2>. QED BY <1>0, <1>1, <1>3, <2>2, <2>3
<1>4. ASSUME NEW f \in Files, OpenTextDocument(f) PROVE WatchedInv'
  <2>1. /\ f \notin Touched /\ folder'.isReady
        /\ folder'.config = folder.config
        /\ Managed(folder') = Managed(folder) \cup {f}
        /\ folder.known \subseteq folder'.known
        /\ shown' = shown
        /\ UNCHANGED <<disk, unsaved, events, stream>>
    BY <1>0, <1>4, OpenIs DEF fileVars
  <2>2. \A g \in Files : Diagnostics(folder, g)' = Diagnostics(folder, g)
    BY <1>4, SourcesStay, SameReport, DiagnosticsAssumption
  <2>3. ~ChangeIsOnItsWay' => ~ChangeIsOnItsWay
    BY <2>1 DEF ChangeIsOnItsWay, Touched
  <2>4. WatchedAreCurrent'
    BY <1>2, <2>1, <2>2, <2>3 DEF Watched
  <2>5. OthersShowNothing'
    BY <1>0, <2>1 DEF OthersShowNothing
  <2>. QED BY <1>1, <2>1, <2>4, <2>5
<1>5. ASSUME NEW f \in Files, NEW text \in Texts, UpdateTextDocument(f, text)
      PROVE  WatchedInv'
  <2>1. /\ f \in Managed(folder) /\ unsaved' = unsaved \cup {f}
        /\ folder'.isReady = folder.isReady /\ folder'.config = folder.config
        /\ Managed(folder') = Managed(folder)
        /\ \A g \in Managed(folder) \ {f} :
             folder'.managedFiles[g] = folder.managedFiles[g]
        /\ folder'.known = folder.known /\ shown' = shown
        /\ UNCHANGED <<disk, events, stream>>
    BY <1>0, <1>5, UpdateIs
  <2>2. \A g \in Files : g # f => Source(folder, g)' = Source(folder, g)
    BY <2>1 DEF Source, Managed
  <2>3. \A g \in Files : f \notin Requires[g]
          => Diagnostics(folder, g)' = Diagnostics(folder, g)
    BY <2>2, SameReport, DiagnosticsAssumption
  <2>4. Watched' \subseteq Watched /\ Watched \subseteq Files
    BY <1>0, <2>1, WatchedStay
  <2>5. ~ChangeIsOnItsWay' => ~ChangeIsOnItsWay
    BY <2>1 DEF ChangeIsOnItsWay, Touched
  <2>6. WatchedAreCurrent'
    BY <1>0, <2>1, <2>3, <2>4, <2>5 DEF WatchedAreCurrent, ReadsUnsaved
  <2>7. OthersShowNothing'
    BY <1>0, <2>1 DEF OthersShowNothing
  <2>. QED BY <1>0, <1>1, <2>1, <2>6, <2>7
<1>6. ASSUME NEW f \in Files, DocumentDiagnostic(f) PROVE WatchedInv'
  <2>1. /\ folder' = Check(folder, {f})
        /\ UNCHANGED <<disk, unsaved, events, shown, stream>>
    BY <1>6 DEF DocumentDiagnostic, fileVars
  <2>2. /\ folder'.isReady = folder.isReady /\ folder'.config = folder.config
        /\ folder'.managedFiles = folder.managedFiles
        /\ folder.known \subseteq folder'.known
    BY <1>0, <2>1, CheckIs
  <2>3. \A g \in Files : Diagnostics(folder, g)' = Diagnostics(folder, g)
    BY <1>6, SourcesStay, SameReport, DiagnosticsAssumption
  <2>4. ~ChangeIsOnItsWay' => ~ChangeIsOnItsWay
    BY <2>1, <2>2 DEF ChangeIsOnItsWay, Touched, Managed
  <2>5. WatchedAreCurrent'
    BY <1>2, <2>1, <2>2, <2>3, <2>4 DEF Watched
  <2>6. OthersShowNothing'
    BY <1>0, <2>1, <2>2 DEF OthersShowNothing, Managed
  <2>. QED BY <1>0, <1>1, <2>1, <2>2, <2>5, <2>6
<1>7. ASSUME NEW f \in Files, OnDidSaveTextDocument(f) PROVE WatchedInv'
  <2>1. /\ f \in Managed(folder) /\ Event(f, "changed")
        /\ disk' = [disk EXCEPT ![f] = folder.managedFiles[f]]
        /\ unsaved' = unsaved \ {f}
        /\ folder'.isReady = folder.isReady /\ folder'.config = folder.config
        /\ folder'.managedFiles = folder.managedFiles
        /\ folder.known \subseteq folder'.known
        /\ IF folder.config.workspace
           THEN \A g \in Files : shown'[g] = IF g \in Streamed(f)
                                             THEN Diagnostics(folder, g) ELSE shown[g]
           ELSE UNCHANGED <<folder, shown>>
        /\ stream' = stream
    BY <1>0, <1>7, SaveIs
  <2>2. \A g \in Files : Diagnostics(folder, g)' = Diagnostics(folder, g)
    BY <1>7, SourcesStay, SameReport, DiagnosticsAssumption
  <2>3. Touched' = Touched \cup {f} /\ Managed(folder') = Managed(folder)
    BY <2>1, EventIs DEF Managed
  <2>4. ~ChangeIsOnItsWay' => ~ChangeIsOnItsWay
    BY <2>1, <2>3 DEF ChangeIsOnItsWay
  <2>5. Watched' \subseteq Watched /\ Watched \subseteq Files
    BY <1>0, <2>1, WatchedStay
  <2>6. ASSUME NEW g \in Watched, f \in Requires[g] PROVE g \in Streamed(f)
    <3>1. g \in Requires[g] /\ disk[g] # "absent" /\ g \notin Ignored
      BY DiagnosticsAssumption DEF Watched
    <3>2. f \in folder.known /\ g \in folder.known
      BY <1>0, <2>1, <2>6, <3>1 DEF RequiresAreKnown, WatchedRequiresKnown
    <3>. QED BY <2>6, <3>1, <3>2 DEF Streamed, Dependents
  <2>7. ASSUME ~ChangeIsOnItsWay', NEW g \in Watched'
        PROVE  shown'[g] = Diagnostics(folder, g)' \/ ReadsUnsaved(g)'
    <3>1. g \in Watched /\ g \in Files /\ folder.config.workspace
      BY <2>5, <2>7 DEF Watched
    <3>2. shown[g] = Diagnostics(folder, g) \/ ReadsUnsaved(g)
      BY <1>0, <2>4, <2>7, <3>1 DEF WatchedAreCurrent
    <3>3. ReadsUnsaved(g) => ReadsUnsaved(g)' \/ g \in Streamed(f)
      BY <2>1, <2>6, <3>1 DEF ReadsUnsaved
    <3>4. shown'[g] = IF g \in Streamed(f) THEN Diagnostics(folder, g) ELSE shown[g]
      BY <2>1, <3>1
    <3>5. Diagnostics(folder, g)' = Diagnostics(folder, g)
      BY <2>2, <3>1
    <3>. QED BY <3>2, <3>3, <3>4, <3>5
  <2>8. WatchedAreCurrent'
    BY <2>7 DEF WatchedAreCurrent
  <2>9. OthersShowNothing'
    <3>1. \A g \in Files : disk'[g] # "absent" => disk[g] # "absent"
      BY <1>0, <2>1
    <3>2. \A g \in Ignored \ Managed(folder) : g \notin Streamed(f)
      BY <2>1 DEF Streamed
    <3>. QED BY <1>0, <2>1, <2>3, <3>1, <3>2 DEF OthersShowNothing
  <2>. QED BY <1>0, <1>1, <2>1, <2>8, <2>9
<1>8. ASSUME NEW f \in Files, CloseTextDocument(f) PROVE WatchedInv'
  <2>1. /\ f \notin unsaved /\ unsaved' = unsaved \ {f}
        /\ folder'.isReady = folder.isReady /\ folder'.config = folder.config
        /\ Managed(folder') = Managed(folder) \ {f}
        /\ folder'.known = folder.known
        /\ \A g \in Files : g # f => shown'[g] = shown[g]
        /\ folder.config.workspace /\ f \notin Ignored => shown' = shown
        /\ ~folder.config.workspace \/ f \in Ignored => shown'[f] = NoReport
        /\ UNCHANGED <<disk, events, stream>>
    BY <1>0, <1>8, CloseIs
  <2>2. \A g \in Files : Diagnostics(folder, g)' = Diagnostics(folder, g)
    BY <1>8, SourcesStay, SameReport, DiagnosticsAssumption
  <2>3. ~ChangeIsOnItsWay' => ~ChangeIsOnItsWay
    BY <2>1 DEF ChangeIsOnItsWay, Touched
  <2>4. \A g \in Watched' : g \in Files /\ shown'[g] = shown[g]
    BY <2>1 DEF Watched
  <2>5. WatchedAreCurrent'
    BY <1>2, <2>1, <2>2, <2>3, <2>4
  <2>6. OthersShowNothing'
    BY <1>0, <2>1 DEF OthersShowNothing
  <2>. QED BY <1>0, <1>1, <2>1, <2>5, <2>6
<1>9. ASSUME NEW f \in Files, (\E text \in Texts : WriteFile(f, text)) \/ DeleteFile(f)
      PROVE  WatchedInv'
  <2>1. PICK t \in Texts \cup {"absent"}, type \in {"changed", "deleted"} :
          /\ Event(f, type) /\ disk' = [disk EXCEPT ![f] = t]
    BY <1>9 DEF WriteFile, DeleteFile
  <2>2. /\ f \notin Managed(folder) /\ disk[f] # "absent"
        /\ UNCHANGED <<folder, shown, unsaved, stream>>
    BY <1>9 DEF WriteFile, DeleteFile, MayChange
  <2>3. Watched' \subseteq Watched /\ Watched \subseteq Files
    BY <1>0, <2>2, WatchedStay
  <2>4. \A g \in Watched :
          /\ ChangeIsOnItsWay => ChangeIsOnItsWay'
          /\ ~ChangeIsOnItsWay' => Diagnostics(folder, g)' = Diagnostics(folder, g)
    BY <1>0, <2>1, <2>2, <2>3, ChangedFileIsKnown DEF WatchedRequiresKnown
  <2>5. WatchedAreCurrent'
    BY <1>0, <2>2, <2>3, <2>4 DEF WatchedAreCurrent, ReadsUnsaved
  <2>6. OthersShowNothing'
    <3>1. \A g \in Files : disk'[g] # "absent" => disk[g] # "absent"
      BY <1>0, <2>1, <2>2
    <3>. QED BY <1>0, <2>2, <3>1 DEF OthersShowNothing
  <2>. QED BY <1>0, <1>1, <2>2, <2>5, <2>6
<1>10. CASE OnDidChangeWatchedFiles
  <2>1. /\ disk' = disk /\ events' = <<>> /\ unsaved' = unsaved
    BY <1>10, HandlerIs
  <2>2. ~RecomputeDiagnostics(Forgotten, DeletedFiles)
    BY <1>0, ForgottenIs, RecomputeIs, RestartTells
  <2>3. /\ (Touched \cap folder.known) \subseteq Managed(folder)
        /\ folder' = folder /\ ClearDiagnosticsForFiles(DeletedFiles)
        /\ stream' = stream
    BY <1>0, <1>10, <2>2, HandlerIs
  <2>4. \A f \in Files : shown'[f] = IF f \in Cleared(DeletedFiles) THEN NoReport
                                     ELSE shown[f]
    BY <1>0, <2>3, ClearingIs
  <2>5. \A f \in Cleared(DeletedFiles) : disk[f] = "absent"
    BY DEF Cleared, FilesMatch
  <2>6. ~ChangeIsOnItsWay
    BY <2>3 DEF ChangeIsOnItsWay
  <2>7. \A f : Diagnostics(folder, f)' = Diagnostics(folder, f)
    BY <2>1, <2>3, PrimedReport
  <2>8. \A f \in Watched' : shown'[f] = shown[f]
    BY <2>1, <2>4, <2>5 DEF Watched
  <2>9. WatchedAreCurrent'
    BY <1>2, <2>1, <2>3, <2>6, <2>7, <2>8
  <2>10. OthersShowNothing'
    BY <1>0, <2>1, <2>3, <2>4 DEF OthersShowNothing
  <2>. QED BY <1>0, <1>1, <2>3, <2>9, <2>10
<1>11. CASE ConfigFileChanged
  BY <1>0, <1>11, RecomputeIs, RestartTells DEF ConfigFileChanged
<1>12. ASSUME NEW config \in Configs, ConfigChanged(config) PROVE WatchedInv'
  <2> DEFINE configured == [folder EXCEPT !.config = config]
  <2>1. configured \in Folder
    BY <1>0 DEF Folder
  <2>. HIDE DEF configured
  <2>2. RecomputeDiagnostics(configured, {})
    BY <1>0, <1>12 DEF ConfigChanged, configured
  <2>. QED BY <1>0, <2>1, <2>2, RecomputeIs, RestartTells
<1>13. CASE OtherFolderRecomputes
  BY <1>0, <1>13, RestartTells DEF OtherFolderRecomputes
<1>14. CASE OtherFolderInitialized \/ CancelRequest \/ UNCHANGED vars
  BY <1>3, <1>14 DEF OtherFolderInitialized, CancelRequest, fileVars, vars
<1>. QED BY <1>4, <1>5, <1>6, <1>7, <1>8, <1>9, <1>10, <1>11, <1>12, <1>13, <1>14 DEF Next

\* Only an answer to workspace/diagnostic settles what the client is owed.
LEMMA OnlyAnswersSettle ==
    ASSUME TypeInv, [Next]_vars, ~WorkspaceDiagnostic, Watching'
    PROVE  Watching
<1>0. /\ folder \in Folder /\ shown \in [Files -> Reports]
      /\ owed \in BOOLEAN /\ refreshes \in BOOLEAN
      /\ UNCHANGED <<pull, streams, refreshes, requests>>
      /\ cancelled \subseteq cancelled'
  BY PullStays, RequestsStay DEF TypeInv, TypeOK
<1>1. ASSUME owed' = owed \/ owed' = TRUE PROVE Watching
  BY <1>0, <1>1 DEF Watching
<1>2. ASSUME NEW f \in Files,
             \/ OpenTextDocument(f)
             \/ \E text \in Texts : UpdateTextDocument(f, text)
             \/ DocumentDiagnostic(f)
             \/ OnDidSaveTextDocument(f)
             \/ \E text \in Texts : WriteFile(f, text)
             \/ DeleteFile(f)
      PROVE  Watching
  <2>1. owed' = owed
    BY <1>2 DEF OpenTextDocument, UpdateTextDocument, DocumentDiagnostic,
         OnDidSaveTextDocument, WriteFile, DeleteFile
  <2>. QED BY <1>1, <2>1
<1>3. ASSUME NEW f \in Files, CloseTextDocument(f) PROVE Watching
  BY <1>1, <1>3, CloseIs
<1>4. ASSUME NEW w \in Folder, NEW S, RecomputeDiagnostics(w, S) PROVE Watching
  BY <1>1, <1>4, RecomputeIs
<1>5. CASE OnDidChangeWatchedFiles
  <2>1. CASE ClearDiagnosticsForFiles(DeletedFiles)
    BY <1>0, <1>1, <2>1, ClearingIs
  <2>2. CASE RecomputeDiagnostics(Forgotten, DeletedFiles)
    BY <1>0, <1>4, <2>2, ForgottenIs
  <2>. QED BY <1>1, <1>5, <2>1, <2>2, HandlerIs
<1>6. CASE ConfigFileChanged
  BY <1>0, <1>4, <1>6 DEF ConfigFileChanged
<1>7. ASSUME NEW config \in Configs, ConfigChanged(config) PROVE Watching
  <2> DEFINE configured == [folder EXCEPT !.config = config]
  <2>1. configured \in Folder
    BY <1>0 DEF Folder
  <2>. HIDE DEF configured
  <2>2. RecomputeDiagnostics(configured, {}) \/ owed' = owed
    BY <1>7 DEF ConfigChanged, configured
  <2>. QED BY <1>1, <1>4, <2>1, <2>2
<1>8. CASE OtherFolderRecomputes
  BY <1>0, <1>1, <1>8, RestartIs DEF OtherFolderRecomputes
<1>9. CASE OtherFolderInitialized \/ CancelRequest \/ UNCHANGED vars
  BY <1>1, <1>9 DEF OtherFolderInitialized, CancelRequest, vars
<1>. QED BY <1>2, <1>3, <1>5, <1>6, <1>7, <1>8, <1>9 DEF Next

\* For every set of files, require graph, settings and ignored files, and under
\* the same four conditions: a client that streams the workspace's diagnostics, or
\* was promised to be asked to, and can be told to ask again, has a current report of every file that is there
\* once nothing is unsaved and its events have arrived, or was told to ask again
\* (Workspace.cpp, onDidSaveTextDocument and onDidChangeWatchedFiles;
\* Diagnostics.cpp, workspaceDiagnostic).
THEOREM StreamedDiagnosticsStayCurrent ==
    ASSUME OpensEarly = FALSE, Creates = FALSE, Discards = FALSE, Rewrites = FALSE
    PROVE  Spec => []WorkspaceDiagnosticsAreCurrent
<1> DEFINE Inv == TypeInv /\ StreamInv /\ GoneInv /\ FilesMatch /\ WatchedInv
<1>1. Init => Inv
  <2>1. Init => ~Watching
    BY DEF Init, Watching
  <2>. QED BY <2>1, InitTypes, InitGone, InitFilesMatch DEF WatchedInv
<1>2. Inv /\ [Next]_vars => Inv'
  <2> SUFFICES ASSUME Inv, [Next]_vars PROVE Inv'
    OBVIOUS
  <2>1. TypeInv' /\ StreamInv' /\ GoneInv' /\ FilesMatch'
    BY NextTypes, GoneStep, FilesMatchStep DEF GoneInv
  <2>2. ASSUME Watching', WorkspaceDiagnostic PROVE WatchedInv'
    BY <2>2, AnswerIsCurrent DEF GoneInv
  <2>3. ASSUME Watching', ~WorkspaceDiagnostic PROVE WatchedInv'
    BY <2>3, OnlyAnswersSettle, WatchedStep
  <2>4. ~Watching' => WatchedInv'
    BY DEF WatchedInv
  <2>. QED BY <2>1, <2>2, <2>3, <2>4
<1>3. Inv => WorkspaceDiagnosticsAreCurrent
  <2> SUFFICES ASSUME Inv, Watching, events = <<>>, unsaved = {},
                      NEW f \in Files \ (Ignored \cap Managed(folder)), disk[f] # "absent"
               PROVE  shown[f] = WorkspaceDiagnostics(folder)[f]
    BY DEF WorkspaceDiagnosticsAreCurrent, Watching
  <2>1. ~ChangeIsOnItsWay /\ ~ReadsUnsaved(f)
    BY DEF ChangeIsOnItsWay, Touched, ReadsUnsaved
  <2>2. WorkspaceDiagnostics(folder)[f]
          = IF folder.config.workspace /\ f \notin Ignored
            THEN Diagnostics(folder, f) ELSE NoReport
    BY DEF WorkspaceDiagnostics
  <2>3. WatchedAreCurrent /\ OthersShowNothing
    BY DEF WatchedInv
  <2>. QED BY <2>1, <2>2, <2>3 DEF WatchedAreCurrent, OthersShowNothing, Watched
<1>. QED BY <1>1, <1>2, <1>3, PTL DEF Spec
================================================================================
