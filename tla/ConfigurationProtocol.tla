------------------------- MODULE ConfigurationProtocol -------------------------
(***************************************************************************)
(* The configuration handlers of WorkspaceConfiguration driven by a client *)
(* that opens and closes folders, changes its settings, announces the      *)
(* change, and answers the configuration requests in any order.  Messages  *)
(* are handled one at a time; a message that has to wait until all         *)
(* workspaces are configured (LanguageServer::handleMessage) is one whose  *)
(* action is not enabled until then.                                       *)
(***************************************************************************)
EXTENDS WorkspaceConfiguration

CONSTANTS
    OpenedFolders,   \* what initialize may list: a set of sequences of roots
    AddedFolders,    \* what one didChangeWorkspaceFolders may add: sequences
    MayRemoveFolders,\* BOOLEAN: does this client also close folders?
    Capabilities,    \* subset of BOOLEAN: does it support configuration?
    Replies          \* subset of {"full", "short", "malformed", "error"}

\* A client lists a folder once.
ASSUME ClientAssumption ==
    /\ OpenedFolders \cup AddedFolders \subseteq Seq(FolderUris)
    /\ \A uris \in OpenedFolders \cup AddedFolders : IsInjective(uris)
    /\ MayRemoveFolders \in BOOLEAN
    /\ Capabilities \subseteq BOOLEAN
    /\ Replies \subseteq {"full", "short", "malformed", "error"}

VARIABLES
    settings,   \* client: its current settings, per scope
    notices,    \* client: a didChangeConfiguration is owed
    open,       \* client: the folders it has open
    refused     \* history: scopes the last answer about them said nothing of

vars == <<configVars, settings, notices, open, refused>>

Init ==
    /\ open = {}
    /\ refused = {}
    /\ isInitialized = FALSE
    /\ configurationCapability = FALSE
    /\ configChangedCallback = FALSE
    /\ workspaceFolders = <<>>
    /\ nullWorkspace = WorkspaceFolder(NullUri)
    /\ configStore = <<>>
    /\ globalConfig = DefaultConfig
    /\ responseHandler = <<>>
    /\ nextRequestId = 0
    /\ refreshedInlayHints = FALSE
    /\ crashed = FALSE
    /\ settings \in [Scopes -> Configs]
    /\ notices = FALSE
    /\ asked = {}

\* The bound on requests leaves one for a change that is still to be announced.
RequestLeft == nextRequestId + (IF notices THEN 1 ELSE 0) < MaxRequests

Idle == isInitialized /\ configChangedCallback /\ ~crashed

Initialize ==
    /\ ~isInitialized
    /\ \E uris \in OpenedFolders, capability \in Capabilities :
         /\ OnInitialize(uris, capability)
         /\ open' = Range(uris)
    /\ UNCHANGED <<settings, notices, refused>>

Initialized ==
    /\ isInitialized /\ ~configChangedCallback
    /\ OnInitialized
    /\ UNCHANGED <<settings, notices, open, refused>>

ClientChangesSettings ==
    /\ Idle /\ (notices \/ RequestLeft)
    /\ \E scope \in Scopes, config \in Configs :
         /\ settings[scope] # config
         /\ settings' = [settings EXCEPT ![scope] = config]
    /\ notices' = TRUE
    /\ refreshedInlayHints' = FALSE
    /\ UNCHANGED <<isInitialized, configurationCapability, globalConfig, asked,
                   open, refused, configChangedCallback, workspaceFolders,
                   nullWorkspace, configStore, responseHandler, nextRequestId,
                   crashed>>

DidChangeConfiguration ==
    /\ Idle /\ notices /\ AllWorkspacesReceivedConfiguration
    /\ OnDidChangeConfiguration(settings[NullUri])
    /\ notices' = FALSE
    /\ UNCHANGED <<settings, open, refused>>

DidChangeWorkspaceFolders ==
    /\ Idle /\ RequestLeft /\ AllWorkspacesReceivedConfiguration
    /\ \E closed \in SUBSET (IF MayRemoveFolders THEN open ELSE {}),
          added \in AddedFolders :
         /\ closed # {} \/ added # <<>>
         /\ Range(added) \cap open = {}
         /\ OnDidChangeWorkspaceFolders({NameOf[uri] : uri \in closed}, added)
         /\ open' = (open \ closed) \cup Range(added)
    /\ UNCHANGED <<settings, notices, refused>>

\* The configurations that a reply brings: all that were asked for, the first
\* few (the others are missing, or one of them does not parse), or none.
Answers(id, reply) ==
    LET uris == responseHandler[id]
        full == [i \in DOMAIN uris |-> settings[uris[i]]]
    IN  CASE reply = "full"  -> {full}
          [] reply \in {"short", "malformed"} ->
                {SubSeq(full, 1, n) : n \in 0..(Len(full) - 1)}
          [] reply = "error" -> {<<>>}

ConfigurationResponse(id) ==
    /\ ~crashed /\ id \in asked
    /\ \E reply \in IF configurationCapability THEN Replies ELSE {"error"} :
       \E configs \in Answers(id, reply) :
         LET uris == responseHandler[id]
             told == {uris[i] : i \in DOMAIN configs}
         IN  /\ HandleResponse(id, configs, reply = "malformed")
             /\ refused' = (refused \cup Range(uris)) \ told
    /\ asked' = asked \ {id}
    /\ UNCHANGED <<settings, notices, open>>

DocumentMessage ==
    /\ Idle /\ AllWorkspacesReceivedConfiguration
    /\ \E file \in FileUris : TouchDocument(file)
    /\ UNCHANGED <<settings, notices, open, refused>>

Next ==
    \/ Initialize
    \/ Initialized
    \/ ClientChangesSettings
    \/ DidChangeConfiguration
    \/ DidChangeWorkspaceFolders
    \/ \E id \in 0..MaxRequests : ConfigurationResponse(id)
    \/ DocumentMessage

\* The client sends what it owes and answers; the worker handles what it got.
Fairness ==
    /\ WF_vars(Initialize)
    /\ WF_vars(Initialized)
    /\ WF_vars(DidChangeConfiguration)
    /\ \A id \in 0..MaxRequests : WF_vars(ConfigurationResponse(id))

Spec == Init /\ [][Next]_vars
FairSpec == Spec /\ Fairness

-----------------------------------------------------------------------------
(* Properties.                                                             *)

TypeOK ==
    /\ ConfigTypeOK
    /\ settings \in [Scopes -> Configs]
    /\ notices \in BOOLEAN
    /\ asked \subseteq 0..(nextRequestId - 1)
    /\ open \subseteq FolderUris
    /\ refused \subseteq Scopes

\* A folder that is not configured yet is named in a configuration request
\* whose answer is still to come, unless the client was asked and did not say:
\* messages postponed because of it (LanguageServer.cpp, handleMessage) are
\* waiting for something.
UnconfiguredFolderIsAskedFor ==
    configChangedCallback =>
        \A i \in DOMAIN workspaceFolders :
            \/ workspaceFolders[i].hasConfiguration
            \/ workspaceFolders[i].uri \in refused
            \/ \E id \in asked \cap DOMAIN responseHandler :
                  workspaceFolders[i].uri \in Range(responseHandler[id])

\* A folder in use was last set up with the configuration the server would
\* look up for it now (getConfiguration): the features that read the store and
\* those that were set up (plugins, platform, index) see the same settings.
ReadyFolderMatchesStore ==
    \A i \in DOMAIN workspaceFolders :
        LET w == workspaceFolders[i] IN
        w.isReady => w.applied = GetConfiguration(w.uri)

\* A folder counts as configured only when its own configuration arrived.
ConfiguredFolderHasOwnConfiguration ==
    configurationCapability =>
        \A i \in DOMAIN workspaceFolders :
            workspaceFolders[i].hasConfiguration =>
                workspaceFolders[i].uri \in DOMAIN configStore

\* Once nothing is in flight, the store holds what the client has set, whatever
\* the order in which overlapping requests were answered, except for a folder
\* whose last answer failed.
SettledStoreIsCurrent ==
    (configurationCapability /\ configChangedCallback /\ ~notices /\ asked = {})
        => \A i \in DOMAIN workspaceFolders :
             LET uri == workspaceFolders[i].uri IN
             \/ uri \in refused
             \/ uri \in DOMAIN configStore /\ configStore[uri] = settings[uri]

\* The settings a folder works with are the client's: the store follows the
\* client (Client.cpp, requestConfiguration), the workspaces follow the store.
SettingsAreCurrent == SettledStoreIsCurrent /\ ReadyFolderMatchesStore


\* The server works on the folders the client has open, neither more (a closed
\* one still analysed) nor fewer (didChangeWorkspaceFolders erases by name).
ServerFoldersAreClientFolders ==
    isInitialized => Range(FolderRoots) = open

\* The folders that are open are the server's, and none is left waiting for a
\* configuration nobody will send (didChangeWorkspaceFolders, handleMessage).
OpenFoldersAreServed == ServerFoldersAreClientFolders /\ UnconfiguredFolderIsAskedFor

\* Every folder gets configured unless the client does not say how, so no message
\* is postponed for ever.
EveryFolderGetsConfigured ==
    isInitialized ~> \A i \in DOMAIN workspaceFolders :
                        \/ workspaceFolders[i].hasConfiguration
                        \/ workspaceFolders[i].uri \in refused
===============================================================================
