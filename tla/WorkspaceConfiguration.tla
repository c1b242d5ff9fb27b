------------------------ MODULE WorkspaceConfiguration ------------------------
(***************************************************************************)
(* How the server learns the configuration of every workspace folder: the  *)
(* handlers of LanguageServer.cpp that open, configure, re-configure and   *)
(* close folders, and the configuration store of Client.cpp they share.    *)
(*                                                                         *)
(* The server asks the client for the configuration of a list of folders   *)
(* (workspace/configuration).  The answer is stored per root uri, marks    *)
(* the folder as configured and, if the folder is already in use, sets it  *)
(* up again.  A folder is set up the first time a file in it is touched.   *)
(* All handlers run on the worker thread, one message at a time, so every  *)
(* handler is one action.  This module has the handlers; the modules that  *)
(* extend it decide when they run: ConfigurationProtocol on its own,       *)
(* LanguageServer behind the message queue of the real server.             *)
(***************************************************************************)
EXTENDS Naturals, FiniteSets, Sequences, SequencesExt, Functions

CONSTANTS
    FolderUris,    \* root uris of the folders a client may open
    FileUris,      \* uris of the documents a client may ask about
    NullUri,       \* Uri(): the root of the null workspace
    NameOf,        \* [FolderUris -> names]: the display name of a folder
    Configs,       \* the distinguishable values of a ClientConfiguration
    DefaultConfig, \* a default-constructed ClientConfiguration
    Unset,         \* "not set up yet"
    MaxRequests    \* bound: workspace/configuration requests ever sent

(* A uri is [scheme |-> s, path |-> p]; p is a sequence of text fragments, *)
(* so that the raw string prefix "/work/app" of "/work/app-old/x" can be   *)
(* told from the directory prefix of "/work/app/x".                        *)
ASSUME UrisAssumption ==
    /\ NullUri \notin FolderUris
    /\ \A u \in FolderUris \cup FileUris : u.path \in Seq(STRING)
    /\ DOMAIN NameOf = FolderUris
ASSUME ConfigsAssumption ==
    /\ DefaultConfig \in Configs
    /\ Unset \notin Configs
ASSUME MaxRequestsAssumption == MaxRequests \in Nat

VARIABLES
    isInitialized,           \* LanguageServer::isInitialized
    configurationCapability, \* client->capabilities.workspace->configuration
    configChangedCallback,   \* the callback has been installed
    workspaceFolders,        \* LanguageServer::workspaceFolders
    nullWorkspace,           \* LanguageServer::nullWorkspace
    configStore,             \* LSPClient::configStore
    globalConfig,            \* LSPClient::globalConfig
    responseHandler,         \* request id -> the uris its handler captured
    nextRequestId,           \* LSPClient::nextRequestId
    refreshedInlayHints,     \* the last handler asked for an inlay hint refresh
    crashed,                 \* undefined behaviour or an escaped exception hit
    asked                    \* client: configuration requests to be answered

serverVars == <<isInitialized, configurationCapability, configChangedCallback,
                workspaceFolders, nullWorkspace, configStore, globalConfig,
                responseHandler, nextRequestId, refreshedInlayHints>>
configVars == <<serverVars, crashed, asked>>

Scopes == FolderUris \cup {NullUri}

Workspace == [uri : Scopes, hasConfiguration : BOOLEAN, isReady : BOOLEAN,
              applied : Configs \cup {Unset}]

WorkspaceFolder(uri) == [uri |-> uri, hasConfiguration |-> FALSE,
                         isReady |-> FALSE, applied |-> Unset]

-----------------------------------------------------------------------------
(* Lookups.                                                                *)

\* Is the text of root a prefix of the text of file?  Documents with another
\* scheme than file (untitled:) are matched by path alone.
MatchesByPrefix(root, file) ==
    /\ IsPrefix(root.path, file.path)
    /\ file.scheme = "file" => root.scheme = "file"

\* The position in folders of the workspace a uri belongs to, 0 for the null
\* workspace: an exact root first, else the longest matching root, the last
\* of several equal ones.
FindWorkspace(folders, uri) ==
    LET exact   == {i \in DOMAIN folders : folders[i].uri = uri}
        matches == {i \in DOMAIN folders : MatchesByPrefix(folders[i].uri, uri)}
        Longer(i, j) == Len(folders[i].uri.path) > Len(folders[j].uri.path)
    IN  CASE uri = NullUri -> 0
          [] uri # NullUri /\ exact # {} ->
                CHOOSE i \in exact : \A j \in exact : i <= j
          [] uri # NullUri /\ exact = {} /\ matches # {} ->
                CHOOSE i \in matches : \A j \in matches \ {i} :
                    Longer(i, j) \/ (~Longer(j, i) /\ j < i)
          [] OTHER -> 0

IsRoot(folders, uri) == \E i \in DOMAIN folders : folders[i].uri = uri

GetConfiguration(uri) ==
    IF uri \in DOMAIN configStore THEN configStore[uri] ELSE globalConfig

AllWorkspacesReceivedConfiguration ==
    \A i \in DOMAIN workspaceFolders : workspaceFolders[i].hasConfiguration

-----------------------------------------------------------------------------
(* The client object.                                                      *)

\* map[key] = value of an unordered_map.
Put(map, key, value) ==
    [k \in DOMAIN map \cup {key} |-> IF k = key THEN value ELSE map[k]]

\* Mutant: the handler is registered but the request is not sent.
RegisterOnly(uris) ==
    /\ nextRequestId < MaxRequests
    /\ responseHandler' = Put(responseHandler, nextRequestId, uris)
    /\ nextRequestId' = nextRequestId + 1
    /\ UNCHANGED asked

\* Mutant: the next request gets the same id again.
RequestWithSameId(uris) ==
    /\ nextRequestId < MaxRequests
    /\ responseHandler' = Put(responseHandler, nextRequestId, uris)
    /\ asked' = asked \cup {nextRequestId}
    /\ UNCHANGED nextRequestId

RequestConfiguration(uris) ==
    /\ nextRequestId < MaxRequests
    /\ responseHandler' = Put(responseHandler, nextRequestId, uris)
    /\ nextRequestId' = nextRequestId + 1
    /\ asked' = asked \cup {nextRequestId}

\* Mutant: a configuration that is already there is not overwritten.
EmplaceConfigurations(uris, configs) ==
    LET pairs == DOMAIN uris \cap DOMAIN configs IN
    [uri \in DOMAIN configStore \cup {uris[k] : k \in pairs} |->
        IF uri \in DOMAIN configStore THEN configStore[uri]
        ELSE configs[Max({k \in pairs : uris[k] = uri})]]

\* configStore after the pairs of a response were stored, in their order.
StoreConfigurations(uris, configs) ==
    LET pairs == DOMAIN uris \cap DOMAIN configs IN
    [uri \in DOMAIN configStore \cup {uris[k] : k \in pairs} |->
        LET entries == {k \in pairs : uris[k] = uri} IN
        IF entries = {} THEN configStore[uri] ELSE configs[Max(entries)]]

\* A response with a result: the captured uris and the configurations of the
\* result are walked together until the shorter one ends.  Each pair is stored
\* under its uri and reported (configChangedCallback) to the workspace the uri
\* is found to belong to.  oldConfig points into the store entry that has just
\* been overwritten, so only a new entry is seen as a change of inlay hints.
ReceiveConfigurations(uris, configs) ==
    LET pairs     == DOMAIN uris \cap DOMAIN configs
        target    == [k \in pairs |-> FindWorkspace(workspaceFolders, uris[k])]
        ToldTo(i) == {k \in pairs : target[k] = i}
        Told(w, i) ==
            IF ToldTo(i) = {} THEN w
            ELSE [w EXCEPT !.hasConfiguration = TRUE,
                           !.applied = IF w.isReady THEN configs[Max(ToldTo(i))]
                                                    ELSE @]
        IsReady(i) == IF i = 0 THEN nullWorkspace.isReady
                               ELSE workspaceFolders[i].isReady
    IN  /\ configStore' = StoreConfigurations(uris, configs)
        /\ IF configChangedCallback
           THEN /\ nullWorkspace' = Told(nullWorkspace, 0)
                /\ workspaceFolders' = [i \in DOMAIN workspaceFolders |->
                                          Told(workspaceFolders[i], i)]
                /\ refreshedInlayHints' =
                     \E k \in pairs : /\ uris[k] \notin DOMAIN configStore
                                      /\ IsReady(target[k])
           ELSE /\ refreshedInlayHints' = FALSE
                /\ UNCHANGED <<nullWorkspace, workspaceFolders>>

\* configs is <<>> also when the response is an error or has no array result.
\* A configuration that does not parse throws: the ones before it were received,
\* the rest of the answer is lost, and the handler stays registered.
HandleResponse(id, configs, throws) ==
    /\ IF id \in DOMAIN responseHandler
       THEN /\ ReceiveConfigurations(responseHandler[id], configs)
            /\ responseHandler' =
                 IF throws THEN responseHandler
                 ELSE Restrict(responseHandler, DOMAIN responseHandler \ {id})
       ELSE /\ refreshedInlayHints' = FALSE
            /\ UNCHANGED <<configStore, nullWorkspace, workspaceFolders,
                           responseHandler>>
    /\ UNCHANGED <<isInitialized, configurationCapability,
                   configChangedCallback, globalConfig, nextRequestId, crashed>>

-----------------------------------------------------------------------------
(* The handlers.                                                           *)

OnInitialize(uris, capability) ==
    /\ isInitialized' = TRUE
    /\ configurationCapability' = capability
    /\ workspaceFolders' = workspaceFolders \o
                             [i \in DOMAIN uris |-> WorkspaceFolder(uris[i])]
    /\ refreshedInlayHints' = FALSE
    /\ UNCHANGED <<configChangedCallback, nullWorkspace, configStore, crashed,
                   globalConfig, responseHandler, nextRequestId, asked>>

FolderRoots == [i \in DOMAIN workspaceFolders |-> workspaceFolders[i].uri]

\* Mutant: the folders count as configured as soon as the request is sent.
ConfiguredOnRequest ==
    /\ configChangedCallback' = TRUE
    /\ nullWorkspace' = [nullWorkspace EXCEPT !.hasConfiguration = TRUE]
    /\ workspaceFolders' =
         [i \in DOMAIN workspaceFolders |->
            [workspaceFolders[i] EXCEPT !.hasConfiguration = TRUE]]
    /\ IF configurationCapability
       THEN RequestConfiguration(<<NullUri>> \o FolderRoots)
       ELSE UNCHANGED <<responseHandler, nextRequestId, asked>>
    /\ refreshedInlayHints' = FALSE
    /\ UNCHANGED <<isInitialized, configurationCapability, configStore,
                   globalConfig, crashed>>

OnInitialized ==
    /\ configChangedCallback' = TRUE
    /\ nullWorkspace' = [nullWorkspace EXCEPT !.hasConfiguration = TRUE]
    /\ IF configurationCapability
       THEN /\ RequestConfiguration(<<NullUri>> \o FolderRoots)
            /\ UNCHANGED workspaceFolders
       ELSE /\ workspaceFolders' =
                 [i \in DOMAIN workspaceFolders |->
                    [workspaceFolders[i] EXCEPT !.hasConfiguration = TRUE]]
            /\ UNCHANGED <<responseHandler, nextRequestId, asked>>
    /\ refreshedInlayHints' = FALSE
    /\ UNCHANGED <<isInitialized, configurationCapability, configStore,
                   globalConfig, crashed>>

\* sent is the configuration the notification carries.
OnDidChangeConfiguration(sent) ==
    /\ IF configurationCapability
       THEN /\ RequestConfiguration(<<NullUri>> \o FolderRoots)
            /\ UNCHANGED globalConfig
       ELSE /\ globalConfig' = sent
            /\ UNCHANGED <<responseHandler, nextRequestId, asked>>
    /\ refreshedInlayHints' = FALSE
    /\ UNCHANGED <<isInitialized, configurationCapability, crashed,
                   configChangedCallback, workspaceFolders, nullWorkspace,
                   configStore>>

\* Mutant: the loop stops at the first folder it erases.
KeptAfterFirst(removed) ==
    LET named == {i \in DOMAIN workspaceFolders :
                    NameOf[workspaceFolders[i].uri] \in removed}
    IN  IF named = {} THEN workspaceFolders
        ELSE RemoveAt(workspaceFolders, Min(named))

\* The loop over the folders keeps, in order, those whose name is not removed.
KeptFolders(removed) ==
    LET kept[n \in 0..Len(workspaceFolders)] ==
            IF n = 0 THEN <<>>
            ELSE IF NameOf[workspaceFolders[n].uri] \in removed THEN kept[n - 1]
            ELSE Append(kept[n - 1], workspaceFolders[n])
    IN  kept[Len(workspaceFolders)]

\* After it = erase(it), *it is the folder behind the erased one; behind the
\* last one there is no folder and *it is a destroyed shared_ptr: the build
\* may crash, erase nothing, or still read the root of the freed folder.
RemovedConfigurations(removed) ==
    {workspaceFolders[i + 1].uri :
        i \in {j \in DOMAIN workspaceFolders :
                 /\ NameOf[workspaceFolders[j].uri] \in removed
                 /\ j < Len(workspaceFolders)}}

ReadsPastLastFolder(removed) ==
    /\ workspaceFolders # <<>>
    /\ NameOf[Last(workspaceFolders).uri] \in removed

\* removed is a set of folder names, added a sequence of root uris.
OnDidChangeWorkspaceFolders(removed, added) ==
    /\ workspaceFolders' = KeptFolders(removed) \o
                             [i \in DOMAIN added |-> WorkspaceFolder(added[i])]
    /\ \E crash \in IF ReadsPastLastFolder(removed) THEN BOOLEAN ELSE {FALSE},
          freed \in IF ReadsPastLastFolder(removed)
                    THEN {{}, {Last(workspaceFolders).uri}} ELSE {{}} :
         /\ crashed' = crash
         /\ configStore' =
              Restrict(configStore, DOMAIN configStore
                         \ (RemovedConfigurations(removed) \cup freed))
    /\ RequestConfiguration(added)
    /\ refreshedInlayHints' = FALSE
    /\ UNCHANGED <<isInitialized, configurationCapability, globalConfig,
                   configChangedCallback, nullWorkspace>>

LazyInitialize(workspace, config) ==
    IF workspace.isReady THEN workspace
    ELSE [workspace EXCEPT !.isReady = TRUE, !.applied = config]

\* Every handler of a request or notification about a document begins with
\* findWorkspace(uri), which sets the workspace up on its first use, but
\* returns a folder whose root is the uri itself without doing so.
TouchDocument(uri) ==
    LET index == FindWorkspace(workspaceFolders, uri) IN
    /\ IF index = 0
       THEN /\ nullWorkspace' = LazyInitialize(nullWorkspace, globalConfig)
            /\ UNCHANGED workspaceFolders
       ELSE /\ workspaceFolders' =
                 IF IsRoot(workspaceFolders, uri) THEN workspaceFolders
                 ELSE [workspaceFolders EXCEPT ![index] =
                         LazyInitialize(@, GetConfiguration(@.uri))]
            /\ UNCHANGED nullWorkspace
    /\ refreshedInlayHints' = FALSE
    /\ UNCHANGED <<isInitialized, configurationCapability, globalConfig,
                   configChangedCallback, configStore, responseHandler,
                   nextRequestId, crashed, asked>>

-----------------------------------------------------------------------------

\* The types of the variables of this module, for the modules that extend it.
ConfigTypeOK ==
    /\ isInitialized \in BOOLEAN
    /\ configurationCapability \in BOOLEAN
    /\ configChangedCallback \in BOOLEAN
    /\ workspaceFolders \in Seq(Workspace)
    /\ nullWorkspace \in Workspace
    /\ configStore \in [DOMAIN configStore -> Configs]
    /\ DOMAIN configStore \subseteq Scopes
    /\ globalConfig \in Configs
    /\ responseHandler \in [DOMAIN responseHandler -> Seq(Scopes)]
    /\ DOMAIN responseHandler \subseteq Nat
    /\ nextRequestId \in Nat
    /\ refreshedInlayHints \in BOOLEAN
    /\ crashed \in BOOLEAN
    /\ asked \subseteq Nat
===============================================================================
