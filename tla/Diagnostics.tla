----------------------------- MODULE Diagnostics -----------------------------
(***************************************************************************)
(* The diagnostics a client shows for the files of one workspace folder.   *)
(* A client without pull diagnostics is sent a report of every file that   *)
(* changes (textDocument/publishDiagnostics).  A client with them asks for *)
(* one document at a time, and for the whole workspace with a request that *)
(* the server leaves unanswered: further reports are progress on its token *)
(* until the server ends it with an error that makes the client ask again. *)
(*                                                                         *)
(* What is reported of a module is taken to be current when it is computed *)
(* (module Documents is about that); this module is about who is told.     *)
(***************************************************************************)
EXTENDS Naturals, Sequences, FiniteSets

CONSTANTS
    Files,          \* the source files of the folder
    Requires,       \* file -> every file its check reads, itself included
    Ignored,        \* files that match ignoreGlobs
    Configs,        \* settings [workspace, includeDependents] the folder may have
    InitialDisks,   \* what the files may hold when the server starts
    Rewrites,       \* BOOLEAN: may other programs write the files that are open?
    OpensEarly,     \* BOOLEAN: may a file be opened before its event is sent?
    Creates,        \* BOOLEAN: may a file that is not there be written?
    Discards,       \* BOOLEAN: may a document be closed with unsaved changes?
    MaxEdits,       \* bound: changes of documents, files and settings
    MaxRequests,    \* bound: workspace/diagnostic requests
    MaxEvents       \* bound: watched file events not yet sent

ASSUME DiagnosticsAssumption ==
    /\ Requires \in [Files -> SUBSET Files]
    /\ \A f \in Files : f \in Requires[f]
    /\ Ignored \subseteq Files
    /\ Configs \subseteq [workspace : BOOLEAN, includeDependents : BOOLEAN]
    /\ InitialDisks \subseteq [Files -> {"fine", "broken"}]
    /\ {Rewrites, OpensEarly, Creates, Discards} \subseteq BOOLEAN
    /\ {MaxEdits, MaxRequests, MaxEvents} \subseteq Nat

VARIABLES
    pull,       \* client: supports pull diagnostics
    streams,    \* client: sends a partial result token with workspace/diagnostic
    refreshes,  \* client: supports workspace/diagnostic/refresh
    disk,       \* file -> what it holds, or "absent"
    unsaved,    \* client: documents changed since they were opened or saved
    events,     \* client: watched file events not yet sent
    requests,   \* client: how many workspace/diagnostic requests were sent
    cancelled,  \* client: those it cancelled
    owed,       \* client: was told to ask for the workspace's diagnostics again
    shown,      \* client: file -> the report it shows
    replies,    \* client: request -> how many responses it was sent
    folder,     \* server: the state of the folder, see FolderOK
    stream,     \* server: workspaceDiagnosticsRequestId and ...Token
    othersReady,\* server: the other folders have been initialized
    edits       \* how many edits were made

clientVars == <<pull, streams, refreshes, requests, cancelled, othersReady>>
fileVars == <<disk, unsaved, events>>
vars == <<clientVars, fileVars, owed, shown, replies, folder, stream, edits>>

Texts == {"fine", "broken"}
None == 0
Reports == SUBSET (Files \X Files)
NoReport == {}

FolderOK(w) ==
    /\ w.isReady \in BOOLEAN
    /\ w.config \in Configs
    /\ DOMAIN w.managedFiles \subseteq Files
    /\ \A f \in DOMAIN w.managedFiles : w.managedFiles[f] \in Texts
    /\ w.known \subseteq Files

Managed(w) == DOMAIN w.managedFiles

-----------------------------------------------------------------------------
(* What is reported of a module.                                           *)

\* The text a module is checked with.
Source(w, f) == IF f \in Managed(w) THEN w.managedFiles[f] ELSE disk[f]

\* A broken file has an error, and everything that reads a file that is broken
\* or not there has one because of it.
Diagnostics(w, f) ==
    IF Source(w, f) = "absent" THEN NoReport
    ELSE {<<f, cause>> : cause \in {g \in Requires[f] : Source(w, g) # "fine"}}

\* The modules the type checker knows once it has checked S.
Check(w, S) ==
    [w EXCEPT !.known = @ \cup {f \in UNION {Requires[g] : g \in S} : Source(w, f) # "absent"}]

\* The modules markDirty reports, and traverseDependents visits.
Dependents(w, f) == IF f \in w.known THEN {g \in w.known : f \in Requires[g]} ELSE {}

DocumentDiagnostics(w, f, allowUnmanagedFiles) ==
    IF f \in Managed(w) \/ allowUnmanagedFiles THEN Diagnostics(w, f) ELSE NoReport

\* The files a workspace report has something to say of are those on disk; those
\* that are not to be reported on are reported empty.
WorkspaceDiagnostics(w) ==
    [f \in {g \in Files : disk[g] # "absent"} |->
        IF w.config.workspace /\ f \notin Ignored THEN Diagnostics(w, f) ELSE NoReport]

WorkspaceChecks(w) ==
    IF w.config.workspace THEN {f \in Files \ Ignored : disk[f] # "absent"} ELSE {}

-----------------------------------------------------------------------------
(* What the server sends.                                                  *)

\* The client replaces what it shows of a file.
Show(reports) ==
    shown' = [f \in Files |-> IF f \in DOMAIN reports THEN reports[f] ELSE shown[f]]

\* A client that does not support it is not told.
RefreshWorkspaceDiagnostics == owed' = (owed \/ refreshes)

PublishDiagnostics(w, S) == [f \in S |-> DocumentDiagnostics(w, f, TRUE)]

Ended == [requestId |-> None, token |-> None]

\* Closes the stream, if there is one, with an error that asks the client for
\* another request, unless it has cancelled this one.
TerminateWorkspaceDiagnostics ==
    /\ replies' = IF stream.requestId = None THEN replies
                  ELSE [replies EXCEPT ![stream.requestId] = @ + 1]
    /\ stream' = Ended

Retriggers == stream.requestId \notin cancelled \cup {None}
RestartWorkspaceDiagnostics ==
    /\ TerminateWorkspaceDiagnostics
    /\ IF Retriggers THEN owed' = TRUE ELSE RefreshWorkspaceDiagnostics

\* Mutant: nothing is published for files that are cleared.
ClearedByStream(S) == IF stream.token # None THEN S ELSE {}

\* The files of S the client is sent an empty report of.
Cleared(S) == IF ~pull \/ stream.token # None THEN S ELSE {}

\* The folder's settings, its .luaurc or its files changed, just after the
\* diagnostics of "deleted" were cleared.
RecomputeDiagnostics(w, deleted) ==
    IF pull
    THEN /\ RestartWorkspaceDiagnostics
         /\ folder' = w
         /\ Show([f \in Cleared(deleted) |-> NoReport])
    ELSE /\ LET S == IF w.config.workspace THEN WorkspaceChecks(w) ELSE Managed(w)
                reports == IF w.config.workspace THEN WorkspaceDiagnostics(w)
                           ELSE PublishDiagnostics(w, S)
            IN /\ folder' = Check(w, S)
               /\ Show([f \in DOMAIN reports \cup Cleared(deleted) |->
                          IF f \in DOMAIN reports THEN reports[f] ELSE NoReport])
         /\ UNCHANGED <<stream, replies, owed>>

ClearDiagnosticsForFiles(S) ==
    /\ Show([f \in Cleared(S) |-> NoReport])
    /\ IF pull /\ stream.token = None THEN RefreshWorkspaceDiagnostics ELSE UNCHANGED owed

-----------------------------------------------------------------------------
(* Documents.                                                              *)

Edit == edits < MaxEdits /\ edits' = edits + 1

Event(f, type) ==
    /\ Len(events) < MaxEvents
    /\ events' = Append(events, [uri |-> f, type |-> type])

\* Nobody waits to hear of what the folder was set up with.
Initialized(w) == [w EXCEPT !.isReady = TRUE]

Touched == {events[i].uri : i \in DOMAIN events}

OpenTextDocument(f) ==
    /\ f \notin Managed(folder)
    /\ disk[f] # "absent"
    /\ OpensEarly \/ f \notin Touched
    /\ LET opened == [Initialized(folder) EXCEPT
                        !.managedFiles = [g \in DOMAIN @ \cup {f} |->
                                            IF g = f THEN disk[f] ELSE @[g]]]
       IN IF pull THEN folder' = opened /\ UNCHANGED shown
          ELSE folder' = Check(opened, {f}) /\ Show(PublishDiagnostics(opened, {f}))
    /\ UNCHANGED <<clientVars, fileVars, owed, replies, stream, edits>>

\* Mutant: only the modules that require the document directly.
AffectedDirectly(w, f) ==
    {f} \cup (IF w.config.includeDependents
              THEN {g \in Dependents(w, f) \ Ignored :
                      \A h \in Requires[g] \ {f, g} : f \notin Requires[h]} ELSE {})

\* The files told of a change: the document, and with includeDependents the
\* modules the change marked dirty.
Affected(w, f) ==
    {f} \cup (IF w.config.includeDependents THEN Dependents(w, f) \ Ignored ELSE {})

IsLoaded(f) == f \in Managed(folder)

UpdateTextDocument(f, text) ==
    /\ IsLoaded(f)
    /\ Edit
    /\ LET updated == [folder EXCEPT !.managedFiles[f] = text]
           S == Affected(updated, f)
       IN IF pull THEN folder' = updated /\ UNCHANGED shown
          ELSE folder' = Check(updated, S) /\ Show(PublishDiagnostics(updated, S))
    /\ unsaved' = unsaved \cup {f}
    /\ UNCHANGED <<clientVars, disk, events, owed, replies, stream>>

\* Mutant: the modules that depend on the document are not streamed.
StreamedAlone(f) == {f}

Streamed(f) == {f} \cup (Dependents(folder, f) \ Ignored)

\* A client with pull diagnostics asks for an open document's report, which is
\* current when it is answered; the folder comes to know the modules it checked.
DocumentDiagnostic(f) ==
    /\ pull /\ folder.isReady
    /\ f \in Managed(folder)
    /\ folder' = Check(folder, {f})
    /\ UNCHANGED <<clientVars, fileVars, owed, shown, replies, stream, edits>>

\* The editor writes the file; the server streams what depends on it.
OnDidSaveTextDocument(f) ==
    /\ f \in Managed(folder)
    /\ disk' = [disk EXCEPT ![f] = folder.managedFiles[f]]
    /\ unsaved' = unsaved \ {f}
    /\ Event(f, "changed")
    /\ IF stream.token # None /\ folder.config.workspace
       THEN /\ folder' = Check(folder, Streamed(f))
            /\ Show([g \in Streamed(f) |-> Diagnostics(folder, g)])
       ELSE UNCHANGED <<folder, shown>>
    /\ UNCHANGED <<clientVars, owed, replies, stream, edits>>

CloseTextDocument(f) ==
    /\ f \in Managed(folder)
    /\ Discards \/ f \notin unsaved
    /\ unsaved' = unsaved \ {f}
    /\ folder' = [folder EXCEPT !.managedFiles =
                    [g \in DOMAIN @ \ {f} |-> @[g]]]
    /\ IF ~folder.config.workspace \/ f \in Ignored
       THEN ClearDiagnosticsForFiles({f}) ELSE UNCHANGED <<shown, owed>>
    /\ UNCHANGED <<clientVars, disk, events, replies, stream, edits>>

-----------------------------------------------------------------------------
(* Files and settings.                                                     *)

MayChange(f) == Rewrites \/ f \notin Managed(folder)

WriteFile(f, text) ==
    /\ MayChange(f)
    /\ disk[f] # text
    /\ Creates \/ disk[f] # "absent"
    /\ Edit
    /\ disk' = [disk EXCEPT ![f] = text]
    /\ Event(f, "changed")
    /\ UNCHANGED <<clientVars, unsaved, owed, shown, replies, folder, stream>>

DeleteFile(f) ==
    /\ MayChange(f)
    /\ disk[f] # "absent"
    /\ Edit
    /\ disk' = [disk EXCEPT ![f] = "absent"]
    /\ Event(f, "deleted")
    /\ UNCHANGED <<clientVars, unsaved, owed, shown, replies, folder, stream>>

\* Files some event of the batch says were deleted, and those whose last event does.
DeletedFiles == {events[i].uri : i \in {j \in DOMAIN events : events[j].type = "deleted"}}
DeletedModules ==
    {events[i].uri : i \in {j \in DOMAIN events :
        /\ events[j].type = "deleted"
        /\ \A k \in DOMAIN events : k > j => events[k].uri # events[j].uri}}

OnDidChangeWatchedFiles ==
    /\ events # <<>>
    /\ events' = <<>>
    /\ IF ~folder.isReady THEN UNCHANGED <<folder, shown, owed, stream, replies>>
       ELSE LET cleared == [folder EXCEPT !.known = @ \ DeletedModules]
                refreshDiagnostics == (Touched \cap folder.known) \ Managed(folder) # {}
            IN IF refreshDiagnostics \/ DeletedModules # {}
               THEN RecomputeDiagnostics(cleared, DeletedFiles)
               ELSE /\ folder' = cleared
                    /\ ClearDiagnosticsForFiles(DeletedFiles)
                    /\ UNCHANGED <<stream, replies>>
    /\ UNCHANGED <<clientVars, disk, unsaved, edits>>

\* The configuration cache is cleared when a .luaurc changes.
ConfigFileChanged ==
    /\ folder.isReady
    /\ Edit
    /\ RecomputeDiagnostics(folder, {})
    /\ UNCHANGED <<clientVars, fileVars>>

\* The client's settings arrive; they are only set up in a folder in use.
ConfigChanged(config) ==
    /\ config # folder.config
    /\ Edit
    /\ LET configured == [folder EXCEPT !.config = config]
       IN IF folder.isReady THEN RecomputeDiagnostics(configured, {})
          ELSE folder' = configured /\ UNCHANGED <<shown, owed, stream, replies>>
    /\ UNCHANGED <<clientVars, fileVars>>

\* Another folder of the workspace is used for the first time, or recomputes its
\* diagnostics; the stream is one for all folders.
OtherFolderInitialized ==
    /\ ~othersReady
    /\ othersReady' = TRUE
    /\ UNCHANGED <<pull, streams, refreshes, fileVars, requests, cancelled, owed,
                   shown, replies, folder, stream, edits>>

OtherFolderRecomputes ==
    /\ othersReady /\ pull
    /\ Edit
    /\ RestartWorkspaceDiagnostics
    /\ UNCHANGED <<clientVars, fileVars, shown, folder>>

-----------------------------------------------------------------------------
(* workspace/diagnostic.                                                   *)

Unanswered == {n \in 1..requests : replies[n] = 0}

\* Mutant: the request that is left open is not remembered.
OpenedUnremembered(id) == [stream EXCEPT !.token = id]

Opened(id) == [requestId |-> id, token |-> id]

\* A client has one of these requests at a time, not counting those it cancelled.
WorkspaceDiagnostic ==
    LET id == requests + 1 IN
    /\ pull
    /\ requests < MaxRequests
    /\ Unanswered \subseteq cancelled
    /\ requests' = id
    /\ IF ~(folder.isReady /\ othersReady)
       THEN /\ replies' = [replies EXCEPT ![id] = 1]
            /\ owed' = TRUE
            /\ UNCHANGED <<folder, shown, stream>>
       ELSE /\ folder' = Check(folder, WorkspaceChecks(folder))
            /\ Show(WorkspaceDiagnostics(folder))
            /\ owed' = FALSE
            /\ IF streams THEN /\ stream' = Opened(id)
                               /\ UNCHANGED replies
               ELSE /\ stream' = [stream EXCEPT !.token = None]
                    /\ replies' = [replies EXCEPT ![id] = 1]
    /\ UNCHANGED <<pull, streams, refreshes, cancelled, othersReady, fileVars, edits>>

\* The token of a request that was handled is gone: cancelling it does nothing.
CancelRequest ==
    /\ Unanswered \ cancelled # {}
    /\ cancelled' = cancelled \cup Unanswered
    /\ UNCHANGED <<pull, streams, refreshes, fileVars, requests, owed, shown,
                   replies, folder, stream, othersReady, edits>>

-----------------------------------------------------------------------------
Init ==
    /\ pull \in BOOLEAN
    /\ streams \in BOOLEAN /\ (streams => pull)
    /\ refreshes \in BOOLEAN /\ (refreshes => pull)
    /\ disk \in InitialDisks
    /\ unsaved = {}
    /\ events = <<>>
    /\ requests = 0
    /\ cancelled = {}
    /\ owed = FALSE
    /\ shown = [f \in Files |-> NoReport]
    /\ replies = [n \in 1..MaxRequests |-> 0]
    /\ \E config \in Configs :
         folder = [isReady |-> FALSE, config |-> config, managedFiles |-> [f \in {} |-> "fine"], known |-> {}]
    /\ stream = [requestId |-> None, token |-> None]
    /\ othersReady \in BOOLEAN
    /\ edits = 0

Next ==
    \/ \E f \in Files :
         \/ OpenTextDocument(f)
         \/ \E text \in Texts : UpdateTextDocument(f, text)
         \/ DocumentDiagnostic(f)
         \/ OnDidSaveTextDocument(f)
         \/ CloseTextDocument(f)
         \/ \E text \in Texts : WriteFile(f, text)
         \/ DeleteFile(f)
    \/ OnDidChangeWatchedFiles
    \/ ConfigFileChanged
    \/ \E config \in Configs : ConfigChanged(config)
    \/ OtherFolderInitialized
    \/ OtherFolderRecomputes
    \/ WorkspaceDiagnostic
    \/ CancelRequest

Spec == Init /\ [][Next]_vars

-----------------------------------------------------------------------------
(* Properties.                                                             *)

TypeOK ==
    /\ {pull, streams, refreshes, owed, othersReady} \subseteq BOOLEAN
    /\ disk \in [Files -> Texts \cup {"absent"}]
    /\ unsaved \subseteq Managed(folder)
    /\ events \in Seq([uri : Files, type : {"changed", "deleted"}])
    /\ requests \in 0..MaxRequests
    /\ cancelled \subseteq 1..requests
    /\ shown \in [Files -> Reports]
    /\ replies \in [1..MaxRequests -> Nat]
    /\ FolderOK(folder)
    /\ stream \in [requestId : 0..requests, token : 0..requests]
    /\ edits \in 0..MaxEdits

\* The server tells a client with push diagnostics of everything that changes
\* what an open document reports (updateTextDocument, onDidChangeWatchedFiles and
\* recomputeDiagnostics together), once the client's file events have arrived.
PublishedDiagnosticsAreCurrent ==
    ~pull /\ events = <<>> /\ folder.config.includeDependents =>
        \A f \in Managed(folder) \ Ignored : shown[f] = Diagnostics(folder, f)

\* A file that is gone or ignored, and not open, shows nothing on a client with
\* push diagnostics, whatever was published for it before
\* (clearDiagnosticsForFiles, when files are deleted and when they are closed).
UnreportedFilesShowNothing ==
    ~pull => \A f \in Files \ Managed(folder) :
        f \in Ignored \/ (disk[f] = "absent" /\ events = <<>>) => shown[f] = NoReport

\* The request left open and the token reports are streamed on are those of one
\* request, which has no answer yet (workspaceDiagnostic, terminateWorkspaceDiagnostics).
StreamIsOfOneOpenRequest ==
    /\ stream.token # None => stream.token = stream.requestId
    /\ stream.requestId # None => replies[stream.requestId] = 0

\* No request is answered twice, and one that waits for an answer, and was not
\* cancelled, is the one the server remembers to answer.
OpenRequestIsRemembered ==
    /\ \A n \in 1..requests : replies[n] <= 1
    /\ Unanswered \ cancelled \subseteq {stream.requestId}

\* While the client streams diagnostics, or after it was promised that it would be
\* asked to, nothing that was saved or changed on disk goes unreported: every
\* file's report is current, or the client has been told to ask again.  A client
\* that cancels its request and supports no refresh cannot be told.  An open file
\* that is ignored is left to its own reports: saving it streams them.
WorkspaceDiagnosticsAreCurrent ==
    /\ pull /\ streams /\ requests > 0 /\ ~owed
    /\ refreshes \/ requests \notin cancelled
    /\ events = <<>> /\ unsaved = {}
    => \A f \in Files \ (Ignored \cap Managed(folder)) :
         disk[f] # "absent" => shown[f] = WorkspaceDiagnostics(folder)[f]

\* What the server keeps of the workspace/diagnostic request it leaves open is of
\* one request, the only one without an answer (LanguageServer.cpp, onRequest).
OpenRequestIsKept == TypeOK /\ StreamIsOfOneOpenRequest /\ OpenRequestIsRemembered
=============================================================================
