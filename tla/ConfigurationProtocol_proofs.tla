--------------------- MODULE ConfigurationProtocol_proofs ---------------------
(***************************************************************************)
(* What holds of ConfigurationProtocol for every set of folders, settings  *)
(* and answers.                                                            *)
(*                                                                         *)
(* TypeOK alone is not inductive: the answer to a request is built from    *)
(* the uris its handler captured, so IInv adds that a request waiting for  *)
(* its answer still has a handler.  ServedInv adds that the folders have   *)
(* different roots, so that an answer about a root reaches the folder it   *)
(* was asked for; OwnInv that handlers only name folders the server has;   *)
(* SettingsInv that a change the store does not show yet is on its way.    *)
(***************************************************************************)
EXTENDS ConfigurationProtocol, WorkspaceConfiguration_proofs

\* A request the client has yet to answer has a registered handler
\* (LSPClient::sendRequest registers before it sends; handleResponse
\* deregisters the answered one only).
AskedHaveHandlers == asked \subseteq DOMAIN responseHandler

IInv == TypeOK /\ AskedHaveHandlers

LEMMA SettingsType ==
    ASSUME TypeOK, NEW uris \in Seq(Scopes)
    PROVE  [i \in DOMAIN uris |-> settings[uris[i]]] \in Seq(Configs)
<1>1. [i \in DOMAIN uris |-> settings[uris[i]]] \in [1..Len(uris) -> Configs]
  BY SequenceIsFunction DEF TypeOK
<1>. QED BY <1>1, FunctionIsSequence, SequenceIsFunction

\* Whatever way the client answers, it sends a sequence of configurations.
LEMMA AnswerType ==
    ASSUME IInv, NEW id \in asked, NEW reply \in Replies \cup {"error"},
           NEW configs \in Answers(id, reply)
    PROVE  configs \in Seq(Configs)
<1> DEFINE full == [i \in DOMAIN responseHandler[id] |->
                      settings[responseHandler[id][i]]]
<1>1. responseHandler[id] \in Seq(Scopes)
  BY DEF IInv, AskedHaveHandlers, TypeOK, ConfigTypeOK
<1>2. full \in Seq(Configs)
  BY <1>1, SettingsType DEF IInv
<1>3. CASE reply = "full"
  BY <1>2, <1>3 DEF Answers
<1>4. CASE reply \in {"short", "malformed"}
  <2>1. PICK n \in 0..(Len(full) - 1) : configs = SubSeq(full, 1, n)
    BY <1>4 DEF Answers
  <2>2. SubSeq(full, 1, n) \in Seq(Configs)
    <3>. HIDE DEF full
    <3>. QED BY <1>2, <2>1
  <2>. QED BY <2>1, <2>2
<1>5. CASE reply = "error"
  <2>1. configs = <<>>
    BY <1>5 DEF Answers
  <2>. QED BY <2>1
<1>. QED BY <1>3, <1>4, <1>5, ClientAssumption

\* A new request is pending and has a handler; the others keep theirs.
LEMMA RequestKeepsHandlers ==
    ASSUME IInv, NEW uris, RequestConfiguration(uris)
    PROVE  asked' \subseteq 0..(nextRequestId' - 1) /\ AskedHaveHandlers'
<1>1. nextRequestId \in Nat /\ asked \subseteq 0..(nextRequestId - 1)
  BY DEF IInv, TypeOK, ConfigTypeOK
<1>2. DOMAIN responseHandler' = DOMAIN responseHandler \cup {nextRequestId}
  BY DEF RequestConfiguration, Put
<1>. QED BY <1>1, <1>2 DEF RequestConfiguration, IInv, AskedHaveHandlers

LEMMA InitEstablishes == Init => IInv
<1>1. ASSUME Init PROVE IInv
  <2>1. WorkspaceFolder(NullUri) \in Workspace
    BY DEF WorkspaceFolder, Workspace, Scopes
  <2>3. \A S : <<>> \in Seq(S) /\ <<>> \in [DOMAIN <<>> -> S]
    BY EmptyMapType
  <2>4. DOMAIN <<>> = {}
    OBVIOUS
  <2>2. ConfigTypeOK
    BY <1>1, <2>1, <2>3, <2>4, ConfigsAssumption DEF Init, ConfigTypeOK
  <2>. QED BY <1>1, <2>2 DEF Init, IInv, TypeOK, AskedHaveHandlers
<1>. QED BY <1>1

LEMMA NextPreserves == IInv /\ [Next]_vars => IInv'
<1> SUFFICES ASSUME IInv, [Next]_vars PROVE IInv'
  OBVIOUS
<1> USE DEF IInv
<1>1. CASE Initialize
  <2>1. PICK uris \in OpenedFolders, capability \in Capabilities :
          OnInitialize(uris, capability) /\ open' = Range(uris)
    BY <1>1 DEF Initialize
  <2>2. uris \in Seq(FolderUris) /\ capability \in BOOLEAN
    BY ClientAssumption
  <2>3. ConfigTypeOK'
    BY <2>1, <2>2, InitializeType DEF TypeOK
  <2>4. open' \subseteq FolderUris
    BY <2>1, <2>2, SequenceIsFunction DEF Range
  <2>. QED BY <1>1, <2>1, <2>3, <2>4
           DEF Initialize, OnInitialize, TypeOK, AskedHaveHandlers
<1>2. CASE Initialized
  <2>1. ConfigTypeOK'
    BY <1>2, InitializedType DEF Initialized, TypeOK
  <2>2. asked' \subseteq 0..(nextRequestId' - 1) /\ AskedHaveHandlers'
    <3>1. CASE configurationCapability
      BY <1>2, <3>1, RequestKeepsHandlers DEF Initialized, OnInitialized
    <3>2. CASE ~configurationCapability
      BY <1>2, <3>2 DEF Initialized, OnInitialized, TypeOK, AskedHaveHandlers
    <3>. QED BY <3>1, <3>2
  <2>. QED BY <1>2, <2>1, <2>2 DEF Initialized, TypeOK
<1>3. CASE ClientChangesSettings
  BY <1>3 DEF ClientChangesSettings, TypeOK, ConfigTypeOK, AskedHaveHandlers
<1>4. CASE DidChangeConfiguration
  <2>1. settings[NullUri] \in Configs
    BY DEF TypeOK, Scopes
  <2>2. ConfigTypeOK'
    BY <1>4, <2>1, DidChangeConfigurationType DEF DidChangeConfiguration, TypeOK
  <2>3. asked' \subseteq 0..(nextRequestId' - 1) /\ AskedHaveHandlers'
    <3>1. CASE configurationCapability
      BY <1>4, <3>1, RequestKeepsHandlers
         DEF DidChangeConfiguration, OnDidChangeConfiguration
    <3>2. CASE ~configurationCapability
      BY <1>4, <3>2 DEF DidChangeConfiguration, OnDidChangeConfiguration,
                        TypeOK, AskedHaveHandlers
    <3>. QED BY <3>1, <3>2
  <2>. QED BY <1>4, <2>2, <2>3 DEF DidChangeConfiguration, TypeOK
<1>5. CASE DidChangeWorkspaceFolders
  <2>1. PICK closed \in SUBSET (IF MayRemoveFolders THEN open ELSE {}),
             added \in AddedFolders :
          /\ OnDidChangeWorkspaceFolders({NameOf[uri] : uri \in closed}, added)
          /\ open' = (open \ closed) \cup Range(added)
    BY <1>5 DEF DidChangeWorkspaceFolders
  <2>2. added \in Seq(FolderUris)
    BY ClientAssumption
  <2>3. ConfigTypeOK'
    BY <2>1, <2>2, DidChangeWorkspaceFoldersType DEF TypeOK
  <2>4. asked' \subseteq 0..(nextRequestId' - 1) /\ AskedHaveHandlers'
    BY <2>1, RequestKeepsHandlers DEF OnDidChangeWorkspaceFolders
  <2>5. open' \subseteq FolderUris
    BY <2>1, <2>2, SequenceIsFunction DEF TypeOK, Range
  <2>. QED BY <1>5, <2>3, <2>4, <2>5 DEF DidChangeWorkspaceFolders, TypeOK
<1>6. ASSUME NEW id \in 0..MaxRequests, ConfigurationResponse(id)
      PROVE  IInv'
  <2> DEFINE Received(reply, configs) ==
        /\ HandleResponse(id, configs, reply = "malformed")
        /\ refused' = (refused \cup Range(responseHandler[id]))
                        \ {responseHandler[id][i] : i \in DOMAIN configs}
  <2>8. PICK reply \in Replies \cup {"error"} :
          \E configs \in Answers(id, reply) : Received(reply, configs)
    BY <1>6 DEF ConfigurationResponse
  <2>1. PICK configs \in Answers(id, reply) : Received(reply, configs)
    BY <2>8
  <2>2. id \in asked /\ asked' = asked \ {id}
    BY <1>6 DEF ConfigurationResponse
  <2>3. configs \in Seq(Configs)
    BY <2>2, AnswerType
  <2>7. refused' \subseteq Scopes
    <3>1. responseHandler[id] \in Seq(Scopes)
      BY <2>2 DEF AskedHaveHandlers, TypeOK, ConfigTypeOK
    <3>2. Range(responseHandler[id]) \subseteq Scopes
      BY <3>1, SequenceIsFunction DEF Range
    <3>. QED BY <2>1, <3>2 DEF TypeOK
  <2>4. asked' \subseteq Nat
    BY <2>2 DEF TypeOK, ConfigTypeOK
  <2>5. ConfigTypeOK'
    BY <2>1, <2>3, <2>4, HandleResponseType DEF TypeOK
  <2>6. /\ nextRequestId' = nextRequestId
        /\ DOMAIN responseHandler \ {id} \subseteq DOMAIN responseHandler'
    BY <2>1 DEF HandleResponse, Restrict
  <2>. QED BY <1>6, <2>2, <2>5, <2>6, <2>7
           DEF ConfigurationResponse, TypeOK, AskedHaveHandlers
<1>7. CASE DocumentMessage
  <2>1. PICK file \in FileUris : TouchDocument(file)
    BY <1>7 DEF DocumentMessage
  <2>2. ConfigTypeOK'
    BY <2>1, TouchDocumentType DEF TypeOK
  <2>. QED BY <1>7, <2>1, <2>2
           DEF DocumentMessage, TouchDocument, TypeOK, AskedHaveHandlers
<1>8. CASE UNCHANGED vars
  BY <1>8 DEF vars, configVars, serverVars, TypeOK, ConfigTypeOK,
              AskedHaveHandlers
<1>. QED BY <1>1, <1>2, <1>3, <1>4, <1>5, <1>6, <1>7, <1>8 DEF Next

\* Whatever folders the client opens and closes, whatever it answers and in
\* which order, the server's folders, store and handlers keep their types: the
\* store only has entries for roots and the null scope, and a request is
\* answered only after it was sent.
THEOREM ConfigurationTypeCorrect == Spec => []TypeOK
<1>1. IInv => TypeOK
  BY DEF IInv
<1>. QED BY InitEstablishes, NextPreserves, <1>1, PTL DEF Spec

-----------------------------------------------------------------------------
(* The folders that are open are served.  didChangeWorkspaceFolders finds  *)
(* the folders to close by their display name, so this is proved for       *)
(* clients that only open folders or whose folders have different names.   *)

\* The folders are different ones, and nothing is asked before initialized.
ServedInv ==
    /\ RootsDifferIn(workspaceFolders)
    /\ ~isInitialized => workspaceFolders = <<>> /\ ~configChangedCallback
    /\ ~configChangedCallback => asked = {}
    /\ OpenFoldersAreServed

LEMMA InitServed == Init => ServedInv
BY DEF Init, ServedInv, RootsDifferIn, OpenFoldersAreServed,
       ServerFoldersAreClientFolders, UnconfiguredFolderIsAskedFor

\* What ServedInv says of the folders is about their roots.
LEMMA RootsKept ==
    ASSUME ServedInv, DOMAIN workspaceFolders' = DOMAIN workspaceFolders,
           \A i \in DOMAIN workspaceFolders :
              workspaceFolders'[i].uri = workspaceFolders[i].uri
    PROVE  RootsDifferIn(workspaceFolders)' /\ FolderRoots' = FolderRoots
<1>1. RootsDifferIn(workspaceFolders)'
  BY DEF ServedInv, RootsDifferIn
<1>2. FolderRoots' = FolderRoots
  BY DEF FolderRoots
<1>. QED BY <1>1, <1>2

\* An open folder has a root of its own.
LEMMA RootsAreFolders ==
    ASSUME IInv, ServedInv, NEW i \in DOMAIN workspaceFolders
    PROVE  /\ isInitialized
           /\ workspaceFolders[i].uri \in open
           /\ workspaceFolders[i].uri \in FolderUris
           /\ workspaceFolders[i].uri # NullUri
<1>1. isInitialized
  BY DEF ServedInv
<1>2. FolderRoots[i] \in Range(FolderRoots) /\ FolderRoots[i] = workspaceFolders[i].uri
  BY DEF FolderRoots, Range
<1>. QED BY <1>1, <1>2, UrisAssumption
         DEF ServedInv, OpenFoldersAreServed, ServerFoldersAreClientFolders,
             IInv, TypeOK

\* The folders after didChangeWorkspaceFolders: those that stay, in use as
\* they were, and the new ones.
LEMMA FoldersAfterChange ==
    ASSUME ConfigTypeOK, NEW removed, NEW added \in Seq(FolderUris),
           OnDidChangeWorkspaceFolders(removed, added),
           NEW i \in DOMAIN workspaceFolders'
    PROVE  \/ \E j \in DOMAIN workspaceFolders :
                /\ NameOf[workspaceFolders[j].uri] \notin removed
                /\ workspaceFolders'[i] = workspaceFolders[j]
           \/ \E k \in DOMAIN added :
                workspaceFolders'[i] = WorkspaceFolder(added[k])
<1> DEFINE kept == KeptFolders(removed)
           new == [k \in DOMAIN added |-> WorkspaceFolder(added[k])]
<1>1. workspaceFolders' = kept \o new
  BY DEF OnDidChangeWorkspaceFolders
<1>2. /\ kept \in Seq(Workspace)
      /\ LeftOf(kept, workspaceFolders,
                {j \in DOMAIN workspaceFolders :
                   NameOf[workspaceFolders[j].uri] \notin removed},
                Len(workspaceFolders))
  BY KeptFoldersAreLeft
<1>3. new \in Seq(Workspace)
  BY NewFoldersType
<1>4. DOMAIN new = DOMAIN added /\ \A k \in DOMAIN added : new[k] = WorkspaceFolder(added[k])
  OBVIOUS
<1>. HIDE DEF kept, new
<1>5. \/ \E h \in DOMAIN kept : workspaceFolders'[i] = kept[h]
      \/ \E k \in DOMAIN new : workspaceFolders'[i] = new[k]
  <2>1. \/ i \in DOMAIN kept /\ workspaceFolders'[i] = kept[i]
        \/ /\ i - Len(kept) \in DOMAIN new
           /\ workspaceFolders'[i] = new[i - Len(kept)]
    BY <1>1, <1>2, <1>3
  <2>. QED BY <2>1
<1>6. ASSUME NEW h \in DOMAIN kept, workspaceFolders'[i] = kept[h]
      PROVE  \E j \in DOMAIN workspaceFolders :
               /\ NameOf[workspaceFolders[j].uri] \notin removed
               /\ workspaceFolders'[i] = workspaceFolders[j]
  BY <1>2, <1>6 DEF LeftOf
<1>. QED BY <1>4, <1>5, <1>6

\* Every folder that stays is among them, and so is every new one.
LEMMA FoldersAfterChangeAre ==
    ASSUME ConfigTypeOK, NEW removed, NEW added \in Seq(FolderUris),
           OnDidChangeWorkspaceFolders(removed, added)
    PROVE  /\ \A j \in DOMAIN workspaceFolders :
                NameOf[workspaceFolders[j].uri] \notin removed
                  => \E i \in DOMAIN workspaceFolders' :
                       workspaceFolders'[i] = workspaceFolders[j]
           /\ \A k \in DOMAIN added :
                \E i \in DOMAIN workspaceFolders' :
                  workspaceFolders'[i] = WorkspaceFolder(added[k])
<1> DEFINE kept == KeptFolders(removed)
           new == [k \in DOMAIN added |-> WorkspaceFolder(added[k])]
<1>1. workspaceFolders' = kept \o new
  BY DEF OnDidChangeWorkspaceFolders
<1>2. /\ kept \in Seq(Workspace)
      /\ LeftOf(kept, workspaceFolders,
                {j \in DOMAIN workspaceFolders :
                   NameOf[workspaceFolders[j].uri] \notin removed},
                Len(workspaceFolders))
      /\ DOMAIN workspaceFolders = 1..Len(workspaceFolders)
  BY KeptFoldersAreLeft, SequenceIsFunction DEF ConfigTypeOK
<1>3. new \in Seq(Workspace)
  BY NewFoldersType
<1>4. DOMAIN new = DOMAIN added /\ \A k \in DOMAIN added : new[k] = WorkspaceFolder(added[k])
  OBVIOUS
<1>. HIDE DEF kept, new
<1>5. /\ \A h \in DOMAIN kept : \E i \in DOMAIN workspaceFolders' :
            workspaceFolders'[i] = kept[h]
      /\ \A k \in DOMAIN new : \E i \in DOMAIN workspaceFolders' :
            workspaceFolders'[i] = new[k]
  <2>1. \A h \in DOMAIN kept : /\ h \in DOMAIN workspaceFolders'
                               /\ workspaceFolders'[h] = kept[h]
    BY <1>1, <1>2, <1>3
  <2>2. \A k \in DOMAIN new : /\ Len(kept) + k \in DOMAIN workspaceFolders'
                              /\ workspaceFolders'[Len(kept) + k] = new[k]
    BY <1>1, <1>2, <1>3
  <2>. QED BY <2>1, <2>2
<1>6. \A j \in DOMAIN workspaceFolders :
        NameOf[workspaceFolders[j].uri] \notin removed
          => \E h \in DOMAIN kept : kept[h] = workspaceFolders[j]
  BY <1>2 DEF LeftOf
<1>. QED BY <1>4, <1>5, <1>6, Zenon

\* The folders stay different ones when the new ones are.
LEMMA RootsDifferAfterChange ==
    ASSUME ConfigTypeOK, RootsDifferIn(workspaceFolders),
           NEW removed, NEW added \in Seq(FolderUris), IsInjective(added),
           OnDidChangeWorkspaceFolders(removed, added),
           \A j \in DOMAIN workspaceFolders, k \in DOMAIN added :
              NameOf[workspaceFolders[j].uri] \notin removed
                => workspaceFolders[j].uri # added[k]
    PROVE  RootsDifferIn(workspaceFolders)'
<1> DEFINE kept == KeptFolders(removed)
           new == [k \in DOMAIN added |-> WorkspaceFolder(added[k])]
<1>1. workspaceFolders' = kept \o new
  BY DEF OnDidChangeWorkspaceFolders
<1>2. /\ kept \in Seq(Workspace)
      /\ RootsDifferIn(kept)
      /\ LeftOf(kept, workspaceFolders,
                {j \in DOMAIN workspaceFolders :
                   NameOf[workspaceFolders[j].uri] \notin removed},
                Len(workspaceFolders))
  BY KeptFoldersAreLeft
<1>3. new \in Seq(Workspace)
  BY NewFoldersType
<1>4. /\ DOMAIN new = DOMAIN added
      /\ \A k \in DOMAIN added : new[k].uri = added[k]
  BY DEF WorkspaceFolder
<1>5. \A k, l \in DOMAIN new : new[k].uri = new[l].uri => k = l
  BY <1>4 DEF IsInjective
<1>6. \A h \in DOMAIN kept, k \in DOMAIN new : kept[h].uri # new[k].uri
  BY <1>2, <1>4 DEF LeftOf
<1>. HIDE DEF kept, new
<1>7. \A i \in DOMAIN workspaceFolders' :
        \/ i \in DOMAIN kept /\ workspaceFolders'[i] = kept[i]
        \/ \E k \in DOMAIN new : /\ i = Len(kept) + k
                                 /\ workspaceFolders'[i] = new[k]
  BY <1>1, <1>2, <1>3
<1>. QED BY <1>2, <1>5, <1>6, <1>7 DEF RootsDifferIn

\* What the client answers: for the first uris it was asked about, or all of
\* them, the settings it has.
LEMMA AnswerValues ==
    ASSUME IInv, NEW id \in asked, NEW reply \in Replies \cup {"error"},
           NEW configs \in Answers(id, reply)
    PROVE  /\ DOMAIN configs \subseteq DOMAIN responseHandler[id]
           /\ \A k \in DOMAIN configs :
                configs[k] = settings[responseHandler[id][k]]
<1> DEFINE uris == responseHandler[id]
           full == [i \in DOMAIN uris |-> settings[uris[i]]]
<1>1. uris \in Seq(Scopes)
  BY DEF IInv, AskedHaveHandlers, TypeOK, ConfigTypeOK
<1>2. full \in Seq(Configs)
  BY <1>1, SettingsType DEF IInv
<1>3. DOMAIN full = DOMAIN uris /\ \A k \in DOMAIN uris : full[k] = settings[uris[k]]
  OBVIOUS
<1>4. CASE reply = "full"
  BY <1>3, <1>4 DEF Answers
<1>5. CASE reply \in {"short", "malformed"}
  <2>1. PICK n \in 0..(Len(full) - 1) : configs = SubSeq(full, 1, n)
    BY <1>5 DEF Answers
  <2>. HIDE DEF full
  <2>2. DOMAIN configs \subseteq DOMAIN full /\ \A k \in DOMAIN configs : configs[k] = full[k]
    BY <1>2, <2>1
  <2>. QED BY <1>3, <2>2
<1>6. CASE reply = "error"
  <2>1. configs = <<>>
    BY <1>6 DEF Answers
  <2>. QED BY <2>1
<1>. QED BY <1>4, <1>5, <1>6, ClientAssumption

\* Asking for a scope again accounts for it, and for those asked for before.
LEMMA StillAskedFor ==
    ASSUME IInv, NEW uris, RequestConfiguration(uris), NEW uri,
           \/ uri \in Range(uris)
           \/ \E id \in asked \cap DOMAIN responseHandler :
                uri \in Range(responseHandler[id])
    PROVE  \E id \in (asked \cap DOMAIN responseHandler)' :
              uri \in Range(responseHandler'[id])
<1>1. /\ asked' = asked \cup {nextRequestId}
      /\ DOMAIN responseHandler' = DOMAIN responseHandler \cup {nextRequestId}
      /\ responseHandler'[nextRequestId] = uris
      /\ \A id \in DOMAIN responseHandler :
           id # nextRequestId => responseHandler'[id] = responseHandler[id]
  BY RequestNames DEF IInv, TypeOK
<1>2. \A id \in asked : id # nextRequestId
  BY DEF IInv, TypeOK, ConfigTypeOK
<1>. QED BY <1>1, <1>2, Zenon

\* OnInitialized and OnDidChangeConfiguration ask for every root.
LEMMA InAskedRoots ==
    ASSUME NEW roots \in Seq(Scopes), NEW i \in DOMAIN roots
    PROVE  roots[i] \in Range(<<NullUri>> \o roots)
<1> DEFINE all == <<NullUri>> \o roots
<1>1. i + 1 \in DOMAIN all /\ all[i + 1] = roots[i]
  OBVIOUS
<1>. HIDE DEF all
<1>. QED BY <1>1 DEF Range, all

LEMMA InitializeServes ==
    ASSUME IInv, ServedInv, Initialize PROVE ServedInv'
<1>1. PICK uris \in OpenedFolders, capability \in Capabilities :
        OnInitialize(uris, capability) /\ open' = Range(uris)
  BY DEF Initialize
<1>2. uris \in Seq(FolderUris) /\ IsInjective(uris)
  BY ClientAssumption
<1>3. workspaceFolders = <<>> /\ ~configChangedCallback
  BY DEF Initialize, ServedInv
<1> DEFINE new == [i \in DOMAIN uris |-> WorkspaceFolder(uris[i])]
<1>4. new \in Seq(Workspace) /\ DOMAIN new = DOMAIN uris
      /\ \A i \in DOMAIN uris : new[i].uri = uris[i]
  BY <1>2, NewFoldersType DEF WorkspaceFolder
<1>5. workspaceFolders' = new
  <2>1. workspaceFolders' = <<>> \o new
    BY <1>1, <1>3 DEF OnInitialize
  <2>. HIDE DEF new
  <2>. QED BY <1>4, <2>1
<1>. HIDE DEF new
<1>6. RootsDifferIn(workspaceFolders)'
  BY <1>2, <1>4, <1>5 DEF RootsDifferIn, IsInjective
<1>7. (Range(FolderRoots) = open)'
  BY <1>1, <1>4, <1>5 DEF FolderRoots, Range
<1>. QED BY <1>1, <1>3, <1>6, <1>7
         DEF OnInitialize, ServedInv, OpenFoldersAreServed,
             ServerFoldersAreClientFolders, UnconfiguredFolderIsAskedFor

LEMMA InitializedServes ==
    ASSUME IInv, ServedInv, Initialized PROVE ServedInv'
<1>1. /\ isInitialized /\ isInitialized' /\ configChangedCallback' /\ open' = open
      /\ OnInitialized
  BY DEF Initialized, OnInitialized
<1>2. workspaceFolders \in Seq(Workspace)
  BY DEF IInv, TypeOK, ConfigTypeOK
<1>3. CASE configurationCapability
  <2>1. /\ RequestConfiguration(<<NullUri>> \o FolderRoots)
        /\ workspaceFolders' = workspaceFolders
    BY <1>1, <1>3 DEF OnInitialized
  <2>2. ASSUME NEW i \in DOMAIN workspaceFolders
        PROVE  workspaceFolders[i].uri \in Range(<<NullUri>> \o FolderRoots)
    <3>1. FolderRoots \in Seq(Scopes) /\ i \in DOMAIN FolderRoots
          /\ FolderRoots[i] = workspaceFolders[i].uri
      BY FolderRootsType DEF IInv, TypeOK, FolderRoots
    <3>. QED BY <3>1, InAskedRoots
  <2>3. UnconfiguredFolderIsAskedFor'
    BY <2>1, <2>2, StillAskedFor DEF UnconfiguredFolderIsAskedFor
  <2>4. RootsDifferIn(workspaceFolders)'
    BY <2>1 DEF ServedInv, RootsDifferIn
  <2>5. FolderRoots' = FolderRoots
    BY <2>1 DEF FolderRoots
  <2>. QED BY <1>1, <2>3, <2>4, <2>5
           DEF ServedInv, OpenFoldersAreServed, ServerFoldersAreClientFolders
<1>4. CASE ~configurationCapability
  <2>1. workspaceFolders' =
          [i \in DOMAIN workspaceFolders |->
             [workspaceFolders[i] EXCEPT !.hasConfiguration = TRUE]]
    BY <1>1, <1>4 DEF OnInitialized
  <2>2. \A w \in Workspace :
          LET v == [w EXCEPT !.hasConfiguration = TRUE] IN
          v.uri = w.uri /\ v.hasConfiguration
    BY DEF Workspace
  <2>3. \A i \in DOMAIN workspaceFolders : workspaceFolders[i] \in Workspace
    BY <1>2, SequenceIsFunction
  <2>4. /\ DOMAIN workspaceFolders' = DOMAIN workspaceFolders
        /\ \A i \in DOMAIN workspaceFolders :
             /\ workspaceFolders'[i].uri = workspaceFolders[i].uri
             /\ workspaceFolders'[i].hasConfiguration
    BY <2>1, <2>2, <2>3
  <2>5. RootsDifferIn(workspaceFolders)' /\ FolderRoots' = FolderRoots
    BY <2>4, RootsKept
  <2>. QED BY <1>1, <2>4, <2>5
           DEF ServedInv, OpenFoldersAreServed, ServerFoldersAreClientFolders,
               UnconfiguredFolderIsAskedFor
<1>. QED BY <1>3, <1>4

LEMMA ChangeServes ==
    ASSUME MayRemoveFolders => IsInjective(NameOf), IInv, ServedInv,
           DidChangeWorkspaceFolders
    PROVE  ServedInv'
<1>1. PICK closed \in SUBSET open, added \in AddedFolders :
        /\ ~MayRemoveFolders => closed = {}
        /\ Range(added) \cap open = {}
        /\ OnDidChangeWorkspaceFolders({NameOf[uri] : uri \in closed}, added)
        /\ open' = (open \ closed) \cup Range(added)
  BY DEF DidChangeWorkspaceFolders
<1>2. added \in Seq(FolderUris) /\ IsInjective(added)
  BY ClientAssumption
<1> DEFINE removed == {NameOf[uri] : uri \in closed}
<1>3. ConfigTypeOK /\ open \subseteq FolderUris
  BY DEF IInv, TypeOK
<1>4. /\ isInitialized /\ isInitialized' /\ configChangedCallback
      /\ configChangedCallback' /\ AllWorkspacesReceivedConfiguration
  BY <1>1 DEF DidChangeWorkspaceFolders, Idle, OnDidChangeWorkspaceFolders
<1>5. \A j \in DOMAIN workspaceFolders :
        /\ workspaceFolders[j].uri \in open
        /\ NameOf[workspaceFolders[j].uri] \notin removed
             <=> workspaceFolders[j].uri \notin closed
  <2>1. \A j \in DOMAIN workspaceFolders :
          workspaceFolders[j].uri \in open
    BY RootsAreFolders
  <2>2. CASE MayRemoveFolders
    BY <1>3, <2>1, <2>2, UrisAssumption DEF IsInjective
  <2>3. CASE ~MayRemoveFolders
    BY <1>1, <2>1, <2>3
  <2>. QED BY <2>2, <2>3
<1>. HIDE DEF removed
<1>6. OnDidChangeWorkspaceFolders(removed, added)
  BY <1>1 DEF removed
<1>7. \A k \in DOMAIN added : added[k] \in Range(added) /\ WorkspaceFolder(added[k]).uri = added[k]
  BY DEF Range, WorkspaceFolder
<1>8. RootsDifferIn(workspaceFolders)'
  <2>1. \A j \in DOMAIN workspaceFolders, k \in DOMAIN added :
          workspaceFolders[j].uri # added[k]
    BY <1>1, <1>5, <1>7
  <2>. QED BY <1>2, <1>3, <1>6, <2>1, RootsDifferAfterChange DEF ServedInv
<1>9. (Range(FolderRoots) = open)'
  <2>1. ASSUME NEW i \in DOMAIN workspaceFolders'
        PROVE  workspaceFolders'[i].uri \in open'
    BY <1>1, <1>2, <1>3, <1>5, <1>6, <1>7, FoldersAfterChange
  <2>2. ASSUME NEW uri \in open'
        PROVE  \E i \in DOMAIN workspaceFolders' : workspaceFolders'[i].uri = uri
    <3>1. CASE uri \in open \ closed
      <4>1. PICK j \in DOMAIN workspaceFolders : workspaceFolders[j].uri = uri
        BY <1>4, <3>1 DEF ServedInv, OpenFoldersAreServed,
             ServerFoldersAreClientFolders, FolderRoots, Range
      <4>. QED BY <1>2, <1>3, <1>5, <1>6, <3>1, <4>1, FoldersAfterChangeAre
    <3>2. CASE uri \in Range(added)
      <4>1. PICK k \in DOMAIN added : uri = added[k]
        BY <3>2 DEF Range
      <4>. QED BY <1>2, <1>3, <1>6, <1>7, <4>1, FoldersAfterChangeAre
    <3>. QED BY <1>1, <2>2, <3>1, <3>2
  <2>. QED BY <2>1, <2>2 DEF FolderRoots, Range
<1>10. ASSUME NEW i \in DOMAIN workspaceFolders'
       PROVE  \/ workspaceFolders'[i].hasConfiguration
              \/ \E id \in (asked \cap DOMAIN responseHandler)' :
                   workspaceFolders'[i].uri \in Range(responseHandler'[id])
  <2>1. CASE \E j \in DOMAIN workspaceFolders :
               workspaceFolders'[i] = workspaceFolders[j]
    BY <1>4, <2>1 DEF AllWorkspacesReceivedConfiguration
  <2>2. CASE \E k \in DOMAIN added :
               workspaceFolders'[i] = WorkspaceFolder(added[k])
    <3>1. workspaceFolders'[i].uri \in Range(added)
      BY <1>7, <2>2
    <3>2. RequestConfiguration(added)
      BY <1>6 DEF OnDidChangeWorkspaceFolders
    <3>. QED BY <3>1, <3>2, StillAskedFor
  <2>. QED BY <1>2, <1>3, <1>6, <2>1, <2>2, FoldersAfterChange, Zenon
<1>. QED BY <1>4, <1>8, <1>9, <1>10
         DEF ServedInv, OpenFoldersAreServed, ServerFoldersAreClientFolders,
             UnconfiguredFolderIsAskedFor

\* What an answer is, once it has been taken out of its message.
LEMMA ResponseIs ==
    ASSUME IInv, NEW id \in 0..MaxRequests, ConfigurationResponse(id)
    PROVE  \E configs \in Seq(Configs) :
             LET uris == responseHandler[id] IN
             /\ ReceiveConfigurations(uris, configs)
             /\ DOMAIN configs \subseteq DOMAIN uris
             /\ \A k \in DOMAIN configs : configs[k] = settings[uris[k]]
             /\ refused' = (refused \cup Range(uris))
                             \ {uris[k] : k \in DOMAIN configs}
             /\ \A other \in DOMAIN responseHandler :
                  other # id => /\ other \in DOMAIN responseHandler'
                                /\ responseHandler'[other] = responseHandler[other]
             /\ \A other \in DOMAIN responseHandler' :
                  /\ other \in DOMAIN responseHandler
                  /\ responseHandler'[other] = responseHandler[other]
             /\ UNCHANGED <<isInitialized, configurationCapability, globalConfig,
                            configChangedCallback>>
<1> DEFINE uris == responseHandler[id]
           Received(reply, configs) ==
             /\ HandleResponse(id, configs, reply = "malformed")
             /\ refused' = (refused \cup Range(uris))
                             \ {uris[k] : k \in DOMAIN configs}
<1>1. id \in asked /\ id \in DOMAIN responseHandler
  BY DEF ConfigurationResponse, IInv, AskedHaveHandlers
<1>2. PICK reply \in Replies \cup {"error"} :
        \E configs \in Answers(id, reply) : Received(reply, configs)
  BY DEF ConfigurationResponse
<1>3. PICK configs \in Answers(id, reply) : Received(reply, configs)
  BY <1>2
<1>4. configs \in Seq(Configs)
  BY <1>1, AnswerType
<1>5. /\ DOMAIN configs \subseteq DOMAIN uris
      /\ \A k \in DOMAIN configs : configs[k] = settings[uris[k]]
  BY <1>1, AnswerValues
<1>6. /\ ReceiveConfigurations(uris, configs)
      /\ \/ responseHandler' = responseHandler
         \/ responseHandler' = Restrict(responseHandler,
                                        DOMAIN responseHandler \ {id})
      /\ UNCHANGED <<isInitialized, configurationCapability, globalConfig,
                     configChangedCallback>>
  BY <1>1, <1>3 DEF HandleResponse
<1>7. /\ \A other \in DOMAIN responseHandler :
           other # id => /\ other \in DOMAIN responseHandler'
                         /\ responseHandler'[other] = responseHandler[other]
      /\ \A other \in DOMAIN responseHandler' :
           /\ other \in DOMAIN responseHandler
           /\ responseHandler'[other] = responseHandler[other]
  BY <1>6 DEF Restrict
<1>8. refused' = (refused \cup Range(uris)) \ {uris[k] : k \in DOMAIN configs}
  BY <1>3
<1>9. WITNESS configs \in Seq(Configs)
<1>. QED BY <1>5, <1>6, <1>7, <1>8

LEMMA ResponseServes ==
    ASSUME IInv, ServedInv, NEW id \in 0..MaxRequests, ConfigurationResponse(id)
    PROVE  ServedInv'
<1>1. id \in asked /\ asked' = asked \ {id} /\ open' = open
  BY DEF ConfigurationResponse
<1> DEFINE uris == responseHandler[id]
<1>2. PICK configs \in Seq(Configs) :
        /\ ReceiveConfigurations(uris, configs)
        /\ DOMAIN configs \subseteq DOMAIN uris
        /\ refused' = (refused \cup Range(uris))
                        \ {uris[k] : k \in DOMAIN configs}
        /\ \A other \in DOMAIN responseHandler :
             other # id => /\ other \in DOMAIN responseHandler'
                           /\ responseHandler'[other] = responseHandler[other]
        /\ UNCHANGED <<isInitialized, configChangedCallback>>
  BY ResponseIs
<1>3. configChangedCallback /\ isInitialized
  BY <1>1 DEF ServedInv
<1>4. uris \in Seq(Scopes) /\ ConfigTypeOK
  BY <1>1 DEF IInv, AskedHaveHandlers, TypeOK, ConfigTypeOK
<1>5. /\ DOMAIN workspaceFolders' = DOMAIN workspaceFolders
      /\ \A i \in DOMAIN workspaceFolders :
           /\ workspaceFolders'[i].uri = workspaceFolders[i].uri
           /\ workspaceFolders'[i].hasConfiguration
                <=> \/ ToldOf(uris, configs, i) # {}
                    \/ workspaceFolders[i].hasConfiguration
  BY <1>2, <1>3, <1>4, ReceiveKeepsFolders
<1>6. RootsDifferIn(workspaceFolders)' /\ FolderRoots' = FolderRoots
  BY <1>5, RootsKept
<1>. HIDE DEF uris
<1>7. ASSUME NEW i \in DOMAIN workspaceFolders
      PROVE  \/ workspaceFolders'[i].hasConfiguration
             \/ workspaceFolders'[i].uri \in refused'
             \/ \E other \in (asked \cap DOMAIN responseHandler)' :
                  workspaceFolders'[i].uri \in Range(responseHandler'[other])
  <2> DEFINE uri == workspaceFolders[i].uri
  <2>1. FindWorkspace(workspaceFolders, uri) = i
    BY <1>4, RootsAreFolders, RootIsFound DEF ServedInv
  <2>2. CASE \E k \in DOMAIN configs : uris[k] = uri
    <3>1. ToldOf(uris, configs, i) # {}
      BY <1>2, <2>1, <2>2 DEF ToldOf
    <3>. QED BY <1>5, <3>1
  <2>3. CASE /\ ~\E k \in DOMAIN configs : uris[k] = uri
             /\ uri \in refused \/ uri \in Range(uris)
    BY <1>2, <1>5, <2>3
  <2>4. CASE workspaceFolders[i].hasConfiguration
    BY <1>5, <2>4
  <2>5. CASE \E other \in asked \cap DOMAIN responseHandler :
               other # id /\ uri \in Range(responseHandler[other])
    BY <1>1, <1>2, <1>5, <2>5
  <2>6. \/ workspaceFolders[i].hasConfiguration
        \/ uri \in refused
        \/ \E other \in asked \cap DOMAIN responseHandler :
             uri \in Range(responseHandler[other])
    BY <1>3 DEF ServedInv, OpenFoldersAreServed, UnconfiguredFolderIsAskedFor
  <2>. QED BY <2>2, <2>3, <2>4, <2>5, <2>6 DEF uris
<1>. QED BY <1>1, <1>2, <1>3, <1>5, <1>6, <1>7
         DEF ServedInv, OpenFoldersAreServed, ServerFoldersAreClientFolders,
             UnconfiguredFolderIsAskedFor

\* didChangeConfiguration may ask again; it leaves the folders as they are.
LEMMA DidChangeConfigurationServes ==
    ASSUME IInv, ServedInv, DidChangeConfiguration PROVE ServedInv'
<1>1. /\ configChangedCallback /\ AllWorkspacesReceivedConfiguration
      /\ UNCHANGED <<isInitialized, configChangedCallback, workspaceFolders, open>>
  BY DEF DidChangeConfiguration, Idle, OnDidChangeConfiguration
<1>2. FolderRoots' = FolderRoots /\ RootsDifferIn(workspaceFolders)'
  BY <1>1, RootsKept
<1>. QED BY <1>1, <1>2
         DEF ServedInv, OpenFoldersAreServed, ServerFoldersAreClientFolders,
             UnconfiguredFolderIsAskedFor, AllWorkspacesReceivedConfiguration

LEMMA DocumentServes ==
    ASSUME IInv, ServedInv, DocumentMessage PROVE ServedInv'
<1>1. PICK file \in FileUris : TouchDocument(file)
  BY DEF DocumentMessage
<1>2. UNCHANGED <<isInitialized, configChangedCallback, asked, responseHandler,
                  refused, open>>
  BY <1>1 DEF DocumentMessage, TouchDocument
<1>3. /\ DOMAIN workspaceFolders' = DOMAIN workspaceFolders
      /\ \A i \in DOMAIN workspaceFolders :
           /\ workspaceFolders'[i].uri = workspaceFolders[i].uri
           /\ workspaceFolders'[i].hasConfiguration
                = workspaceFolders[i].hasConfiguration
  BY <1>1, TouchKeepsFolders DEF IInv, TypeOK
<1>4. FolderRoots' = FolderRoots /\ RootsDifferIn(workspaceFolders)'
  BY <1>3, RootsKept
<1>5. isInitialized /\ configChangedCallback
  BY DEF DocumentMessage, Idle
<1>. QED BY <1>2, <1>3, <1>4, <1>5
         DEF ServedInv, OpenFoldersAreServed, ServerFoldersAreClientFolders,
             UnconfiguredFolderIsAskedFor

LEMMA NextServes ==
    ASSUME MayRemoveFolders => IsInjective(NameOf), IInv, ServedInv, [Next]_vars
    PROVE  ServedInv'
<1>1. CASE ClientChangesSettings
  <2>1. UNCHANGED <<isInitialized, configChangedCallback, asked, responseHandler,
                    workspaceFolders, refused, open>>
    BY <1>1 DEF ClientChangesSettings
  <2>. QED BY <2>1 DEF ServedInv, OpenFoldersAreServed, FolderRoots,
             ServerFoldersAreClientFolders, UnconfiguredFolderIsAskedFor,
             RootsDifferIn
<1>2. CASE UNCHANGED vars
  <2>1. UNCHANGED <<isInitialized, configChangedCallback, asked, responseHandler,
                    workspaceFolders, refused, open>>
    BY <1>2 DEF vars, configVars, serverVars
  <2>. QED BY <2>1 DEF ServedInv, OpenFoldersAreServed, FolderRoots,
             ServerFoldersAreClientFolders, UnconfiguredFolderIsAskedFor,
             RootsDifferIn
<1>. QED BY <1>1, <1>2, InitializeServes, InitializedServes, ChangeServes,
            ResponseServes, DidChangeConfigurationServes, DocumentServes DEF Next

\* Whatever folders a client opens, and closes if their names differ, the server
\* works on exactly those it has open; and while one of them is not configured
\* the client still owes an answer about it, or gave one that did not say
\* (LanguageServer.cpp: onInitialized, onDidChangeWorkspaceFolders,
\* handleMessage).
THEOREM OpenFoldersServed ==
    ASSUME MayRemoveFolders => IsInjective(NameOf)
    PROVE  Spec => []OpenFoldersAreServed
<1>1. IInv /\ ServedInv /\ [Next]_vars => ServedInv'
  BY NextServes
<1>2. ServedInv => OpenFoldersAreServed
  BY DEF ServedInv
<1>. QED BY InitEstablishes, InitServed, NextPreserves, <1>1, <1>2, PTL DEF Spec

-----------------------------------------------------------------------------
(* The settings of the folders.  Closing a folder erases the configuration *)
(* of the one behind it, so this is proved for clients that only open      *)
(* folders; a client that does not support configuration is never told to  *)
(* set a folder up again, so for SettingsAreCurrent it has to.             *)

\* Every handler that is left asks about folders the server has: nothing is
\* stored for a uri that resolves to another folder.
HandlersNameFolders ==
    \A id \in DOMAIN responseHandler :
        Range(responseHandler[id]) \subseteq {NullUri} \cup Range(FolderRoots)

OwnInv ==
    /\ ServedInv
    /\ HandlersNameFolders
    /\ ConfiguredFolderHasOwnConfiguration

\* Until the store has what the client set for a folder, an answer that will
\* tell is on its way.
StoreFollows ==
    (configChangedCallback /\ ~notices) =>
        \A i \in DOMAIN workspaceFolders :
            LET uri == workspaceFolders[i].uri IN
            \/ uri \in refused
            \/ uri \in DOMAIN configStore /\ configStore[uri] = settings[uri]
            \/ \E id \in asked \cap DOMAIN responseHandler :
                  uri \in Range(responseHandler[id])

SettingsInv ==
    /\ OwnInv
    /\ isInitialized => configurationCapability
    /\ ReadyFolderMatchesStore
    /\ StoreFollows

LEMMA InitSettings == Init => SettingsInv
<1>1. ASSUME Init PROVE /\ DOMAIN responseHandler = {} /\ DOMAIN workspaceFolders = {}
                        /\ ~isInitialized /\ ~configChangedCallback
  BY <1>1 DEF Init
<1>. QED BY <1>1, InitServed
         DEF SettingsInv, OwnInv, HandlersNameFolders, StoreFollows,
             ConfiguredFolderHasOwnConfiguration, ReadyFolderMatchesStore

\* A new request is about the folders there are.
LEMMA RequestNamesFolders ==
    ASSUME ConfigTypeOK, NEW uris, RequestConfiguration(uris),
           HandlersNameFolders, Range(FolderRoots) \subseteq Range(FolderRoots)',
           Range(uris) \subseteq {NullUri} \cup Range(FolderRoots)'
    PROVE  HandlersNameFolders'
<1>1. /\ DOMAIN responseHandler' = DOMAIN responseHandler \cup {nextRequestId}
      /\ responseHandler'[nextRequestId] = uris
      /\ \A id \in DOMAIN responseHandler :
           id # nextRequestId => responseHandler'[id] = responseHandler[id]
  BY RequestNames
<1>2. ASSUME NEW id \in DOMAIN responseHandler'
      PROVE  Range(responseHandler'[id]) \subseteq {NullUri} \cup Range(FolderRoots)'
  <2>1. CASE id = nextRequestId
    BY <1>1, <2>1
  <2>2. CASE id # nextRequestId
    <3>1. /\ id \in DOMAIN responseHandler
          /\ responseHandler'[id] = responseHandler[id]
      BY <1>1, <2>2
    <3>2. Range(responseHandler[id]) \subseteq {NullUri} \cup Range(FolderRoots)
      BY <3>1 DEF HandlersNameFolders
    <3>. QED BY <3>1, <3>2, Zenon
  <2>. QED BY <2>1, <2>2
<1>. QED BY <1>2 DEF HandlersNameFolders

\* onInitialized and onDidChangeConfiguration ask about the roots and the null
\* workspace.
LEMMA AskedRootsAreFolders ==
    ASSUME ConfigTypeOK
    PROVE  Range(<<NullUri>> \o FolderRoots) = {NullUri} \cup Range(FolderRoots)
<1>1. FolderRoots \in Seq(Scopes)
  BY FolderRootsType
<1>2. \A roots \in Seq(Scopes) :
        LET all == <<NullUri>> \o roots IN
        /\ 1 \in DOMAIN all /\ all[1] = NullUri
        /\ \A i \in DOMAIN all : i = 1 \/ /\ i - 1 \in DOMAIN roots
                                          /\ all[i] = roots[i - 1]
        /\ \A i \in DOMAIN roots : /\ i + 1 \in DOMAIN all
                                   /\ all[i + 1] = roots[i]
  OBVIOUS
<1> DEFINE all == <<NullUri>> \o FolderRoots
<1>3. /\ 1 \in DOMAIN all /\ all[1] = NullUri
      /\ \A i \in DOMAIN all : i = 1 \/ /\ i - 1 \in DOMAIN FolderRoots
                                        /\ all[i] = FolderRoots[i - 1]
      /\ \A i \in DOMAIN FolderRoots : /\ i + 1 \in DOMAIN all
                                       /\ all[i + 1] = FolderRoots[i]
  BY <1>1, <1>2
<1>. HIDE DEF all
<1>4. Range(all) = {NullUri} \cup Range(FolderRoots)
  BY <1>3 DEF Range
<1>. QED BY <1>4 DEF all

\* What an answer says of a folder is stored under its root and reported to it.
LEMMA ResponseStores ==
    ASSUME IInv, ServedInv, HandlersNameFolders, NEW id \in asked,
           NEW configs \in Seq(Configs),
           DOMAIN configs \subseteq DOMAIN responseHandler[id],
           ReceiveConfigurations(responseHandler[id], configs),
           NEW i \in DOMAIN workspaceFolders
    PROVE  LET uri  == workspaceFolders[i].uri
               told == ToldOf(responseHandler[id], configs, i)
           IN  /\ told = {k \in DOMAIN configs : responseHandler[id][k] = uri}
               /\ DOMAIN configStore \subseteq DOMAIN configStore'
               /\ told # {} => /\ uri \in DOMAIN configStore'
                               /\ Max(told) \in told
                               /\ configStore'[uri] = configs[Max(told)]
               /\ told = {} =>
                    /\ uri \in DOMAIN configStore' <=> uri \in DOMAIN configStore
                    /\ uri \in DOMAIN configStore
                         => configStore'[uri] = configStore[uri]
<1> DEFINE uris == responseHandler[id]
           uri == workspaceFolders[i].uri
           entries == {k \in DOMAIN uris \cap DOMAIN configs : uris[k] = uri}
<1>1. /\ uris \in Seq(Scopes) /\ ConfigTypeOK /\ id \in DOMAIN responseHandler
  BY DEF IInv, AskedHaveHandlers, TypeOK, ConfigTypeOK
<1>2. uri # NullUri /\ FindWorkspace(workspaceFolders, uri) = i
  BY <1>1, RootsAreFolders, RootIsFound DEF ServedInv
<1>3. ASSUME NEW k \in DOMAIN uris, FindWorkspace(workspaceFolders, uris[k]) = i
      PROVE  uris[k] = uri
  <2>1. uris[k] \in {NullUri} \cup Range(FolderRoots)
    BY <1>1 DEF HandlersNameFolders, Range
  <2>2. i # 0
    BY <1>1, SequenceIsFunction DEF ConfigTypeOK
  <2>3. uris[k] # NullUri
    BY <1>3, <2>2, NullIsFound
  <2>4. PICK j \in DOMAIN workspaceFolders : uris[k] = workspaceFolders[j].uri
    BY <2>1, <2>3 DEF FolderRoots, Range
  <2>5. FindWorkspace(workspaceFolders, workspaceFolders[j].uri) = j
    BY <1>1, RootsAreFolders, RootIsFound DEF ServedInv
  <2>. QED BY <1>3, <2>4, <2>5
<1>4. ToldOf(uris, configs, i) = entries
  <2>. HIDE DEF uris, uri
  <2>. QED BY <1>2, <1>3 DEF ToldOf
<1>5. configStore' = StoreConfigurations(uris, configs)
  BY DEF ReceiveConfigurations
<1>6. entries # {} => Max(entries) \in entries
  <2>1. entries \in SUBSET (1..Len(configs)) /\ Len(configs) \in Nat
    BY SequenceIsFunction
  <2>. HIDE DEF entries
  <2>. QED BY <2>1, LargestPosition
<1>7. entries = {k \in DOMAIN configs : uris[k] = uri}
  OBVIOUS
<1>8. /\ DOMAIN configStore' = DOMAIN configStore
                                 \cup {uris[k] : k \in DOMAIN uris \cap DOMAIN configs}
      /\ uri \in DOMAIN configStore' =>
           configStore'[uri] = IF entries = {} THEN configStore[uri]
                               ELSE configs[Max(entries)]
  BY <1>5 DEF StoreConfigurations
<1>9. uri \in {uris[k] : k \in DOMAIN uris \cap DOMAIN configs} <=> entries # {}
  OBVIOUS
<1>. HIDE DEF entries, uris, uri
<1>. QED BY <1>4, <1>6, <1>7, <1>8, <1>9 DEF uris, uri

\* With no folder closed, didChangeWorkspaceFolders appends the new folders and
\* leaves the others, the store and the settings alone.
LEMMA OnlyOpening ==
    ASSUME ~MayRemoveFolders, IInv, DidChangeWorkspaceFolders
    PROVE  \E added \in Seq(FolderUris) :
             /\ RequestConfiguration(added)
             /\ workspaceFolders' =
                  workspaceFolders
                    \o [k \in DOMAIN added |-> WorkspaceFolder(added[k])]
             /\ UNCHANGED <<configStore, globalConfig, configurationCapability,
                            configChangedCallback, isInitialized, settings,
                            notices, refused>>
<1>1. PICK added \in AddedFolders : OnDidChangeWorkspaceFolders({}, added)
  <2>1. PICK closed \in SUBSET {}, added \in AddedFolders :
          OnDidChangeWorkspaceFolders({NameOf[uri] : uri \in closed}, added)
    BY DEF DidChangeWorkspaceFolders
  <2>2. {NameOf[uri] : uri \in closed} = {}
    OBVIOUS
  <2>. QED BY <2>1, <2>2
<1>2. added \in Seq(FolderUris)
  BY ClientAssumption
<1>3. ConfigTypeOK
  BY DEF IInv, TypeOK
<1>4. KeptFolders({}) = workspaceFolders
  <2>1. /\ KeptFolders({}) \in Seq(Workspace) /\ workspaceFolders \in Seq(Workspace)
        /\ LeftOf(KeptFolders({}), workspaceFolders,
                  {i \in DOMAIN workspaceFolders :
                     NameOf[workspaceFolders[i].uri] \notin {}},
                  Len(workspaceFolders))
    BY <1>3, KeptFoldersAreLeft DEF ConfigTypeOK
  <2>2. {i \in DOMAIN workspaceFolders : NameOf[workspaceFolders[i].uri] \notin {}}
          = 1..Len(workspaceFolders)
    BY <2>1, SequenceIsFunction
  <2>3. /\ Len(KeptFolders({})) = Len(workspaceFolders)
        /\ \A i \in 1..Len(workspaceFolders) :
             KeptFolders({})[i] = workspaceFolders[i]
    BY <2>1, <2>2 DEF LeftOf
  <2>. QED BY <2>1, <2>3
<1>5. UNCHANGED <<configStore, globalConfig, configurationCapability,
                  configChangedCallback, isInitialized, settings, notices,
                  refused>>
  <2>1. ~ReadsPastLastFolder({}) /\ RemovedConfigurations({}) = {}
    BY DEF ReadsPastLastFolder, RemovedConfigurations
  <2>2. configStore' = Restrict(configStore, DOMAIN configStore \ ({} \cup {}))
    BY <1>1, <2>1 DEF OnDidChangeWorkspaceFolders
  <2>3. configStore' = configStore
    BY <1>3, <2>2 DEF Restrict, ConfigTypeOK
  <2>. QED BY <1>1, <2>3
           DEF OnDidChangeWorkspaceFolders, DidChangeWorkspaceFolders
<1>6. /\ RequestConfiguration(added)
      /\ workspaceFolders' = workspaceFolders
           \o [k \in DOMAIN added |-> WorkspaceFolder(added[k])]
  BY <1>1, <1>4 DEF OnDidChangeWorkspaceFolders
<1>. QED BY <1>2, <1>5, <1>6

LEMMA ElementsOfConcat ==
    ASSUME NEW S, NEW s \in Seq(S), NEW t \in Seq(S)
    PROVE  /\ \A i \in DOMAIN (s \o t) :
                \/ i \in DOMAIN s /\ (s \o t)[i] = s[i]
                \/ i - Len(s) \in DOMAIN t /\ (s \o t)[i] = t[i - Len(s)]
           /\ \A i \in DOMAIN s : i \in DOMAIN (s \o t) /\ (s \o t)[i] = s[i]
           /\ \A k \in DOMAIN t : /\ Len(s) + k \in DOMAIN (s \o t)
                                  /\ (s \o t)[Len(s) + k] = t[k]
<1>1. \A i \in DOMAIN (s \o t) :
        \/ i \in DOMAIN s /\ (s \o t)[i] = s[i]
        \/ i - Len(s) \in DOMAIN t /\ (s \o t)[i] = t[i - Len(s)]
  OBVIOUS
<1>2. \A i \in DOMAIN s : i \in DOMAIN (s \o t) /\ (s \o t)[i] = s[i]
  OBVIOUS
<1>3. \A k \in DOMAIN t : /\ Len(s) + k \in DOMAIN (s \o t)
                          /\ (s \o t)[Len(s) + k] = t[k]
  OBVIOUS
<1>. QED BY <1>1, <1>2, <1>3

\* The same, folder by folder.
LEMMA FoldersOpened ==
    ASSUME ~MayRemoveFolders, IInv, DidChangeWorkspaceFolders
    PROVE  \E added \in Seq(FolderUris) :
             /\ RequestConfiguration(added)
             /\ DOMAIN workspaceFolders \subseteq DOMAIN workspaceFolders'
             /\ \A i \in DOMAIN workspaceFolders' :
                  \/ /\ i \in DOMAIN workspaceFolders
                     /\ workspaceFolders'[i] = workspaceFolders[i]
                  \/ \E k \in DOMAIN added :
                       workspaceFolders'[i] = WorkspaceFolder(added[k])
             /\ \A i \in DOMAIN workspaceFolders :
                  workspaceFolders'[i] = workspaceFolders[i]
             /\ \A k \in DOMAIN added : added[k] \in Range(FolderRoots)'
             /\ UNCHANGED <<configStore, globalConfig, configurationCapability,
                            configChangedCallback, isInitialized, settings,
                            notices, refused>>
<1>1. PICK added \in Seq(FolderUris) :
        /\ RequestConfiguration(added)
        /\ workspaceFolders' = workspaceFolders
             \o [k \in DOMAIN added |-> WorkspaceFolder(added[k])]
        /\ UNCHANGED <<configStore, globalConfig, configurationCapability,
                       configChangedCallback, isInitialized, settings, notices,
                       refused>>
  BY OnlyOpening
<1> DEFINE new == [k \in DOMAIN added |-> WorkspaceFolder(added[k])]
<1>2. /\ new \in Seq(Workspace) /\ DOMAIN new = DOMAIN added
      /\ \A k \in DOMAIN added : new[k] = WorkspaceFolder(added[k])
                                 /\ new[k].uri = added[k]
  BY NewFoldersType DEF WorkspaceFolder
<1>3. workspaceFolders \in Seq(Workspace)
  BY DEF IInv, TypeOK, ConfigTypeOK
<1>4. workspaceFolders' = workspaceFolders \o new
  BY <1>1
<1>. HIDE DEF new
<1>5. /\ \A i \in DOMAIN workspaceFolders' :
           \/ /\ i \in DOMAIN workspaceFolders
              /\ workspaceFolders'[i] = workspaceFolders[i]
           \/ /\ i - Len(workspaceFolders) \in DOMAIN new
              /\ workspaceFolders'[i] = new[i - Len(workspaceFolders)]
      /\ \A i \in DOMAIN workspaceFolders :
           /\ i \in DOMAIN workspaceFolders'
           /\ workspaceFolders'[i] = workspaceFolders[i]
      /\ \A k \in DOMAIN new :
           /\ Len(workspaceFolders) + k \in DOMAIN workspaceFolders'
           /\ workspaceFolders'[Len(workspaceFolders) + k] = new[k]
  BY <1>2, <1>3, <1>4, ElementsOfConcat
<1>6. \A k \in DOMAIN added : added[k] \in Range(FolderRoots)'
  BY <1>2, <1>5 DEF FolderRoots, Range
<1>7. \A i \in DOMAIN workspaceFolders' :
        \/ /\ i \in DOMAIN workspaceFolders
           /\ workspaceFolders'[i] = workspaceFolders[i]
        \/ \E k \in DOMAIN added :
             workspaceFolders'[i] = WorkspaceFolder(added[k])
  <2>1. TAKE i \in DOMAIN workspaceFolders'
  <2>2. CASE i - Len(workspaceFolders) \in DOMAIN new
             /\ workspaceFolders'[i] = new[i - Len(workspaceFolders)]
    BY <1>2, <2>2
  <2>. QED BY <1>5, <2>2
<1>. QED BY <1>1, <1>5, <1>6, <1>7

\* Fresh folders are neither configured nor in use.
LEMMA NewFolder ==
    ASSUME NEW uri
    PROVE  /\ WorkspaceFolder(uri).uri = uri
           /\ ~WorkspaceFolder(uri).hasConfiguration
           /\ ~WorkspaceFolder(uri).isReady
BY DEF WorkspaceFolder

\* initialize opens the first folders; nothing is stored or asked yet.
LEMMA InitializeFolders ==
    ASSUME IInv, ServedInv, Initialize
    PROVE  /\ ~configChangedCallback /\ ~configChangedCallback'
           /\ isInitialized' /\ configurationCapability' \in Capabilities
           /\ workspaceFolders = <<>>
           /\ UNCHANGED <<configStore, responseHandler>>
           /\ \A i \in DOMAIN workspaceFolders' :
                /\ ~workspaceFolders'[i].hasConfiguration
                /\ ~workspaceFolders'[i].isReady
<1>1. PICK uris \in OpenedFolders, capability \in Capabilities :
        OnInitialize(uris, capability)
  BY DEF Initialize
<1>2. uris \in Seq(FolderUris)
  BY ClientAssumption
<1>3. workspaceFolders = <<>> /\ ~configChangedCallback
  BY DEF Initialize, ServedInv
<1> DEFINE new == [i \in DOMAIN uris |-> WorkspaceFolder(uris[i])]
<1>4. /\ new \in Seq(Workspace) /\ DOMAIN new = DOMAIN uris
      /\ \A i \in DOMAIN uris : ~new[i].hasConfiguration /\ ~new[i].isReady
  BY <1>2, NewFoldersType, NewFolder
<1>5. workspaceFolders' = new
  <2>1. workspaceFolders' = <<>> \o new
    BY <1>1, <1>3 DEF OnInitialize
  <2>. HIDE DEF new
  <2>. QED BY <1>4, <2>1
<1>. HIDE DEF new
<1>. QED BY <1>1, <1>3, <1>4, <1>5 DEF OnInitialize

LEMMA InitializedFolders ==
    ASSUME IInv, ServedInv, Initialized
    PROVE  /\ DOMAIN workspaceFolders' = DOMAIN workspaceFolders
           /\ \A i \in DOMAIN workspaceFolders :
                /\ workspaceFolders'[i].uri = workspaceFolders[i].uri
                /\ workspaceFolders'[i].isReady = workspaceFolders[i].isReady
                /\ workspaceFolders'[i].applied = workspaceFolders[i].applied
           /\ configurationCapability => workspaceFolders' = workspaceFolders
<1>1. OnInitialized
  BY DEF Initialized
<1>2. CASE configurationCapability
  BY <1>1, <1>2 DEF OnInitialized
<1>3. CASE ~configurationCapability
  <2>1. workspaceFolders' =
          [i \in DOMAIN workspaceFolders |->
             [workspaceFolders[i] EXCEPT !.hasConfiguration = TRUE]]
    BY <1>1, <1>3 DEF OnInitialized
  <2>2. \A w \in Workspace :
          LET v == [w EXCEPT !.hasConfiguration = TRUE] IN
          v.uri = w.uri /\ v.isReady = w.isReady /\ v.applied = w.applied
    BY DEF Workspace
  <2>3. \A i \in DOMAIN workspaceFolders : workspaceFolders[i] \in Workspace
    BY SequenceIsFunction DEF IInv, TypeOK, ConfigTypeOK
  <2>. QED BY <1>3, <2>1, <2>2, <2>3
<1>. QED BY <1>2, <1>3

LEMMA NextNamesFolders ==
    ASSUME ~MayRemoveFolders, IInv, ServedInv, HandlersNameFolders, [Next]_vars
    PROVE  HandlersNameFolders'
<1>1. ConfigTypeOK
  BY DEF IInv, TypeOK
<1>2. CASE Initialize
  <2>1. /\ responseHandler' = responseHandler
        /\ FolderRoots = <<>>
    BY <1>2, InitializeFolders DEF FolderRoots
  <2>2. Range(FolderRoots) = {}
    BY <2>1 DEF Range
  <2>. QED BY <2>1, <2>2 DEF HandlersNameFolders
<1>3. CASE Initialized \/ DidChangeConfiguration
  <2>1. FolderRoots' = FolderRoots
    BY <1>3, InitializedFolders
       DEF FolderRoots, DidChangeConfiguration, OnDidChangeConfiguration
  <2>2. \/ RequestConfiguration(<<NullUri>> \o FolderRoots)
        \/ UNCHANGED responseHandler
    BY <1>3 DEF Initialized, OnInitialized, DidChangeConfiguration,
                OnDidChangeConfiguration
  <2>3. CASE RequestConfiguration(<<NullUri>> \o FolderRoots)
    <3>1. Range(<<NullUri>> \o FolderRoots) \subseteq {NullUri} \cup Range(FolderRoots)'
      BY <1>1, <2>1, AskedRootsAreFolders
    <3>. QED BY <1>1, <2>1, <2>3, <3>1, RequestNamesFolders
  <2>4. CASE UNCHANGED responseHandler
    BY <2>1, <2>4 DEF HandlersNameFolders
  <2>. QED BY <2>2, <2>3, <2>4
<1>4. CASE ClientChangesSettings \/ UNCHANGED vars
  <2>1. UNCHANGED <<workspaceFolders, responseHandler>>
    BY <1>4 DEF ClientChangesSettings, vars, configVars, serverVars
  <2>. QED BY <2>1 DEF HandlersNameFolders, FolderRoots
<1>5. CASE DidChangeWorkspaceFolders
  <2>1. PICK added \in Seq(FolderUris) :
          /\ RequestConfiguration(added)
          /\ DOMAIN workspaceFolders \subseteq DOMAIN workspaceFolders'
          /\ \A i \in DOMAIN workspaceFolders :
               workspaceFolders'[i] = workspaceFolders[i]
          /\ \A k \in DOMAIN added : added[k] \in Range(FolderRoots)'
    BY <1>5, FoldersOpened
  <2>2. Range(FolderRoots) \subseteq Range(FolderRoots)'
    BY <2>1 DEF FolderRoots, Range
  <2>3. Range(added) \subseteq {NullUri} \cup Range(FolderRoots)'
    BY <2>1 DEF Range
  <2>. QED BY <1>1, <2>1, <2>2, <2>3, RequestNamesFolders
<1>6. ASSUME NEW id \in 0..MaxRequests, ConfigurationResponse(id)
      PROVE  HandlersNameFolders'
  <2>1. id \in asked /\ id \in DOMAIN responseHandler
    BY <1>6 DEF ConfigurationResponse, IInv, AskedHaveHandlers
  <2>2. PICK configs \in Seq(Configs) :
          /\ ReceiveConfigurations(responseHandler[id], configs)
          /\ \A other \in DOMAIN responseHandler' :
               /\ other \in DOMAIN responseHandler
               /\ responseHandler'[other] = responseHandler[other]
    BY <1>6, ResponseIs
  <2>3. FolderRoots' = FolderRoots
    <3>1. responseHandler[id] \in Seq(Scopes) /\ configChangedCallback
      BY <2>1 DEF IInv, TypeOK, ConfigTypeOK, ServedInv
    <3>. QED BY <1>1, <2>2, <3>1, ReceiveKeepsFolders DEF FolderRoots
  <2>. QED BY <2>2, <2>3 DEF HandlersNameFolders
<1>7. CASE DocumentMessage
  <2>1. PICK file \in FileUris : TouchDocument(file)
    BY <1>7 DEF DocumentMessage
  <2>2. FolderRoots' = FolderRoots /\ responseHandler' = responseHandler
    <3>1. responseHandler' = responseHandler
      BY <2>1 DEF TouchDocument
    <3>. QED BY <1>1, <2>1, <3>1, TouchKeepsFolders DEF FolderRoots
  <2>. QED BY <2>2 DEF HandlersNameFolders
<1>. QED BY <1>2, <1>3, <1>4, <1>5, <1>6, <1>7 DEF Next

\* A folder only counts as configured once something is stored for it.
LEMMA NextKeepsOwn ==
    ASSUME ~MayRemoveFolders, IInv, OwnInv, [Next]_vars
    PROVE  ConfiguredFolderHasOwnConfiguration'
<1>1. ConfigTypeOK
  BY DEF IInv, TypeOK
<1> USE DEF OwnInv
<1>2. CASE Initialize
  BY <1>2, InitializeFolders DEF ConfiguredFolderHasOwnConfiguration
<1>3. CASE Initialized
  BY <1>3, InitializedFolders
     DEF ConfiguredFolderHasOwnConfiguration, Initialized, OnInitialized
<1>4. CASE ClientChangesSettings \/ UNCHANGED vars \/ DidChangeConfiguration
  <2>1. UNCHANGED <<configurationCapability, workspaceFolders, configStore>>
    BY <1>4 DEF ClientChangesSettings, vars, configVars, serverVars,
                DidChangeConfiguration, OnDidChangeConfiguration
  <2>. QED BY <2>1 DEF ConfiguredFolderHasOwnConfiguration
<1>5. CASE DidChangeWorkspaceFolders
  BY <1>5, FoldersOpened, NewFolder DEF ConfiguredFolderHasOwnConfiguration
<1>6. ASSUME NEW id \in 0..MaxRequests, ConfigurationResponse(id)
      PROVE  ConfiguredFolderHasOwnConfiguration'
  <2>1. id \in asked /\ configChangedCallback
        /\ responseHandler[id] \in Seq(Scopes)
    BY <1>6 DEF ConfigurationResponse, IInv, AskedHaveHandlers, TypeOK,
                ConfigTypeOK, ServedInv
  <2>2. PICK configs \in Seq(Configs) :
          /\ ReceiveConfigurations(responseHandler[id], configs)
          /\ DOMAIN configs \subseteq DOMAIN responseHandler[id]
          /\ UNCHANGED configurationCapability
    BY <1>6, ResponseIs
  <2>3. ASSUME NEW i \in DOMAIN workspaceFolders', configurationCapability,
               workspaceFolders'[i].hasConfiguration
        PROVE  workspaceFolders'[i].uri \in DOMAIN configStore'
    <3>1. /\ i \in DOMAIN workspaceFolders
          /\ workspaceFolders'[i].uri = workspaceFolders[i].uri
          /\ \/ ToldOf(responseHandler[id], configs, i) # {}
             \/ workspaceFolders[i].hasConfiguration
      BY <1>1, <2>1, <2>2, <2>3, ReceiveKeepsFolders
    <3>2. /\ DOMAIN configStore \subseteq DOMAIN configStore'
          /\ ToldOf(responseHandler[id], configs, i) # {}
               => workspaceFolders[i].uri \in DOMAIN configStore'
      BY <2>1, <2>2, <3>1, ResponseStores
    <3>. QED BY <2>3, <3>1, <3>2 DEF ConfiguredFolderHasOwnConfiguration
  <2>. QED BY <2>2, <2>3 DEF ConfiguredFolderHasOwnConfiguration
<1>7. CASE DocumentMessage
  <2>1. PICK file \in FileUris : TouchDocument(file)
    BY <1>7 DEF DocumentMessage
  <2>2. UNCHANGED <<configurationCapability, configStore>>
    BY <2>1 DEF TouchDocument
  <2>. QED BY <1>1, <2>1, <2>2, TouchKeepsFolders
           DEF ConfiguredFolderHasOwnConfiguration
<1>. QED BY <1>2, <1>3, <1>4, <1>5, <1>6, <1>7 DEF Next

LEMMA NextOwn ==
    ASSUME ~MayRemoveFolders, IInv, OwnInv, [Next]_vars
    PROVE  OwnInv'
BY NextServes, NextNamesFolders, NextKeepsOwn DEF OwnInv

\* As long as the client closes no folder, a folder counts as configured only
\* when the store has an entry of its own for it, not the settings of the null
\* workspace or of a folder around it (LanguageServer.cpp, onInitialized and
\* the callback it installs; Client.cpp, requestConfiguration).
THEOREM ConfiguredFoldersHaveTheirOwn ==
    ASSUME ~MayRemoveFolders
    PROVE  Spec => []ConfiguredFolderHasOwnConfiguration
<1>1. Init => OwnInv
  BY InitSettings DEF SettingsInv
<1>2. IInv /\ OwnInv /\ [Next]_vars => OwnInv'
  BY NextOwn
<1>3. OwnInv => ConfiguredFolderHasOwnConfiguration
  BY DEF OwnInv
<1>. QED BY InitEstablishes, NextPreserves, <1>1, <1>2, <1>3, PTL DEF Spec

\* The folders in use work with what the store says of them.
LEMMA NextKeepsReady ==
    ASSUME ~MayRemoveFolders, IInv, SettingsInv, [Next]_vars
    PROVE  ReadyFolderMatchesStore'
<1>1. ConfigTypeOK /\ OwnInv /\ ServedInv /\ HandlersNameFolders
  BY DEF IInv, TypeOK, SettingsInv, OwnInv
<1>2. \A i \in DOMAIN workspaceFolders :
        workspaceFolders[i].isReady =>
          workspaceFolders[i].applied = GetConfiguration(workspaceFolders[i].uri)
  BY DEF SettingsInv, ReadyFolderMatchesStore
<1>3. CASE Initialize
  BY <1>1, <1>3, InitializeFolders DEF ReadyFolderMatchesStore
<1>4. ASSUME UNCHANGED <<configStore, globalConfig>>,
             DOMAIN workspaceFolders' = DOMAIN workspaceFolders,
             \A i \in DOMAIN workspaceFolders :
                /\ workspaceFolders'[i].uri = workspaceFolders[i].uri
                /\ workspaceFolders'[i].isReady = workspaceFolders[i].isReady
                /\ workspaceFolders'[i].applied = workspaceFolders[i].applied
      PROVE  ReadyFolderMatchesStore'
  BY <1>2, <1>4 DEF ReadyFolderMatchesStore, GetConfiguration
<1>5. CASE Initialized
  <2>1. UNCHANGED <<configStore, globalConfig>>
    BY <1>5 DEF Initialized, OnInitialized
  <2>. QED BY <1>1, <1>4, <1>5, <2>1, InitializedFolders
<1>6. CASE ClientChangesSettings \/ UNCHANGED vars \/ DidChangeConfiguration
  <2>1. DidChangeConfiguration => configurationCapability
    BY DEF DidChangeConfiguration, Idle, SettingsInv
  <2>2. UNCHANGED <<configStore, globalConfig, workspaceFolders>>
    BY <1>6, <2>1 DEF ClientChangesSettings, vars, configVars, serverVars,
                DidChangeConfiguration, OnDidChangeConfiguration
  <2>. QED BY <1>4, <2>2
<1>7. CASE DidChangeWorkspaceFolders
  <2>1. PICK added \in Seq(FolderUris) :
          /\ \A i \in DOMAIN workspaceFolders' :
               \/ /\ i \in DOMAIN workspaceFolders
                  /\ workspaceFolders'[i] = workspaceFolders[i]
               \/ \E k \in DOMAIN added :
                    workspaceFolders'[i] = WorkspaceFolder(added[k])
          /\ UNCHANGED <<configStore, globalConfig>>
    BY <1>7, FoldersOpened
  <2>2. ASSUME NEW i \in DOMAIN workspaceFolders', workspaceFolders'[i].isReady
        PROVE  workspaceFolders'[i].applied
                 = GetConfiguration(workspaceFolders'[i].uri)
    BY <1>2, <2>1, <2>2, NewFolder
  <2>. QED BY <2>1, <2>2 DEF ReadyFolderMatchesStore, GetConfiguration
<1>8. ASSUME NEW id \in 0..MaxRequests, ConfigurationResponse(id)
      PROVE  ReadyFolderMatchesStore'
  <2>1. id \in asked /\ configChangedCallback
        /\ responseHandler[id] \in Seq(Scopes)
    BY <1>1, <1>8 DEF ConfigurationResponse, IInv, AskedHaveHandlers, TypeOK,
                ConfigTypeOK, ServedInv
  <2>2. PICK configs \in Seq(Configs) :
          /\ ReceiveConfigurations(responseHandler[id], configs)
          /\ DOMAIN configs \subseteq DOMAIN responseHandler[id]
          /\ globalConfig' = globalConfig
    BY <1>8, ResponseIs
  <2>3. ASSUME NEW i \in DOMAIN workspaceFolders', workspaceFolders'[i].isReady
        PROVE  workspaceFolders'[i].applied
                 = IF workspaceFolders'[i].uri \in DOMAIN configStore'
                   THEN configStore'[workspaceFolders'[i].uri]
                   ELSE globalConfig'
    <3> DEFINE told == ToldOf(responseHandler[id], configs, i)
               uri == workspaceFolders[i].uri
    <3>1. /\ i \in DOMAIN workspaceFolders
          /\ workspaceFolders'[i].uri = uri
          /\ workspaceFolders[i].isReady
          /\ workspaceFolders'[i].applied
               = IF told # {} THEN configs[Max(told)]
                 ELSE workspaceFolders[i].applied
      BY <1>1, <2>1, <2>2, <2>3, ReceiveKeepsFolders
    <3>2. /\ told # {} => /\ uri \in DOMAIN configStore'
                          /\ Max(told) \in told
                          /\ configStore'[uri] = configs[Max(told)]
          /\ told = {} => /\ uri \in DOMAIN configStore' <=> uri \in DOMAIN configStore
                          /\ uri \in DOMAIN configStore
                               => configStore'[uri] = configStore[uri]
      BY <1>1, <2>1, <2>2, <3>1, ResponseStores
    <3>3. workspaceFolders[i].applied = IF uri \in DOMAIN configStore
                                        THEN configStore[uri] ELSE globalConfig
      BY <1>2, <3>1 DEF GetConfiguration
    <3>. HIDE DEF told, uri
    <3>4. CASE told # {}
      BY <3>1, <3>2, <3>4
    <3>5. CASE told = {}
      BY <2>2, <3>1, <3>2, <3>3, <3>5
    <3>. QED BY <3>4, <3>5
  <2>. QED BY <2>3 DEF ReadyFolderMatchesStore, GetConfiguration
<1>9. CASE DocumentMessage
  <2>1. PICK file \in FileUris : TouchDocument(file)
    BY <1>9 DEF DocumentMessage
  <2>2. UNCHANGED <<globalConfig, configStore>>
    BY <2>1 DEF TouchDocument
  <2>3. ASSUME NEW i \in DOMAIN workspaceFolders', workspaceFolders'[i].isReady
        PROVE  workspaceFolders'[i].applied
                 = GetConfiguration(workspaceFolders'[i].uri)
    BY <1>1, <1>2, <2>1, <2>3, TouchKeepsFolders
  <2>. QED BY <2>2, <2>3 DEF ReadyFolderMatchesStore, GetConfiguration
<1>. QED BY <1>3, <1>5, <1>6, <1>7, <1>8, <1>9 DEF Next

\* Asking about every folder accounts for every change of the settings.
LEMMA AskingFollows ==
    ASSUME IInv, RequestConfiguration(<<NullUri>> \o FolderRoots),
           workspaceFolders' = workspaceFolders
    PROVE  StoreFollows'
<1>1. ASSUME NEW i \in DOMAIN workspaceFolders
      PROVE  workspaceFolders[i].uri \in Range(<<NullUri>> \o FolderRoots)
  <2>1. /\ FolderRoots \in Seq(Scopes) /\ i \in DOMAIN FolderRoots
        /\ FolderRoots[i] = workspaceFolders[i].uri
    BY FolderRootsType DEF IInv, TypeOK, FolderRoots
  <2>. QED BY <2>1, InAskedRoots
<1>. QED BY <1>1, StillAskedFor DEF StoreFollows

LEMMA NextFollows ==
    ASSUME ~MayRemoveFolders, IInv, SettingsInv, [Next]_vars
    PROVE  StoreFollows'
<1>1. ConfigTypeOK /\ OwnInv /\ ServedInv /\ HandlersNameFolders /\ StoreFollows
  BY DEF IInv, TypeOK, SettingsInv, OwnInv
<1>2. CASE Initialize
  BY <1>1, <1>2, InitializeFolders DEF StoreFollows
<1>3. CASE Initialized \/ DidChangeConfiguration
  <2>1. configurationCapability
    BY <1>3 DEF Initialized, DidChangeConfiguration, Idle, SettingsInv
  <2>2. /\ RequestConfiguration(<<NullUri>> \o FolderRoots)
        /\ workspaceFolders' = workspaceFolders
    BY <1>3, <2>1 DEF Initialized, OnInitialized, DidChangeConfiguration,
                      OnDidChangeConfiguration
  <2>. QED BY <2>2, AskingFollows
<1>4. CASE ClientChangesSettings
  BY <1>4 DEF ClientChangesSettings, StoreFollows
<1>5. CASE UNCHANGED vars
  BY <1>1, <1>5 DEF vars, configVars, serverVars, StoreFollows
<1>6. CASE DidChangeWorkspaceFolders
  <2>1. PICK added \in Seq(FolderUris) :
          /\ RequestConfiguration(added)
          /\ \A i \in DOMAIN workspaceFolders' :
               \/ /\ i \in DOMAIN workspaceFolders
                  /\ workspaceFolders'[i] = workspaceFolders[i]
               \/ \E k \in DOMAIN added :
                    workspaceFolders'[i] = WorkspaceFolder(added[k])
          /\ UNCHANGED <<configStore, configChangedCallback, settings, notices,
                         refused>>
    BY <1>6, FoldersOpened
  <2>2. ASSUME NEW i \in DOMAIN workspaceFolders', configChangedCallback, ~notices
        PROVE  LET uri == workspaceFolders'[i].uri IN
               \/ uri \in refused
               \/ uri \in DOMAIN configStore /\ configStore[uri] = settings[uri]
               \/ \E id \in (asked \cap DOMAIN responseHandler)' :
                    uri \in Range(responseHandler'[id])
    <3>1. CASE i \in DOMAIN workspaceFolders
               /\ workspaceFolders'[i] = workspaceFolders[i]
      BY <1>1, <2>1, <2>2, <3>1, StillAskedFor DEF StoreFollows
    <3>2. CASE \E k \in DOMAIN added :
                 workspaceFolders'[i] = WorkspaceFolder(added[k])
      <4>1. workspaceFolders'[i].uri \in Range(added)
        BY <3>2, NewFolder DEF Range
      <4>. QED BY <2>1, <4>1, StillAskedFor
    <3>. QED BY <2>1, <3>1, <3>2
  <2>. QED BY <2>1, <2>2 DEF StoreFollows
<1>7. ASSUME NEW id \in 0..MaxRequests, ConfigurationResponse(id)
      PROVE  StoreFollows'
  <2> DEFINE uris == responseHandler[id]
  <2>1. id \in asked /\ configChangedCallback /\ uris \in Seq(Scopes)
        /\ asked' = asked \ {id} /\ UNCHANGED <<settings, notices>>
    BY <1>1, <1>7 DEF ConfigurationResponse, IInv, AskedHaveHandlers, TypeOK,
                ConfigTypeOK, ServedInv
  <2>2. PICK configs \in Seq(Configs) :
          /\ ReceiveConfigurations(uris, configs)
          /\ DOMAIN configs \subseteq DOMAIN uris
          /\ \A k \in DOMAIN configs : configs[k] = settings[uris[k]]
          /\ refused' = (refused \cup Range(uris))
                          \ {uris[k] : k \in DOMAIN configs}
          /\ \A other \in DOMAIN responseHandler :
               other # id => /\ other \in DOMAIN responseHandler'
                             /\ responseHandler'[other] = responseHandler[other]
    BY <1>7, ResponseIs
  <2>3. ASSUME NEW i \in DOMAIN workspaceFolders', ~notices
        PROVE  LET uri == workspaceFolders'[i].uri IN
               \/ uri \in refused'
               \/ uri \in DOMAIN configStore' /\ configStore'[uri] = settings[uri]
               \/ \E other \in (asked \cap DOMAIN responseHandler)' :
                    uri \in Range(responseHandler'[other])
    <3> DEFINE told == ToldOf(uris, configs, i)
               uri == workspaceFolders[i].uri
    <3>1. i \in DOMAIN workspaceFolders /\ workspaceFolders'[i].uri = uri
      BY <1>1, <2>1, <2>2, ReceiveKeepsFolders
    <3>2. /\ told = {k \in DOMAIN configs : uris[k] = uri}
          /\ told # {} => /\ uri \in DOMAIN configStore'
                          /\ Max(told) \in told
                          /\ configStore'[uri] = configs[Max(told)]
          /\ told = {} => /\ uri \in DOMAIN configStore' <=> uri \in DOMAIN configStore
                          /\ uri \in DOMAIN configStore
                               => configStore'[uri] = configStore[uri]
      BY <1>1, <2>1, <2>2, <3>1, ResponseStores
    <3>3. \/ uri \in refused
          \/ uri \in DOMAIN configStore /\ configStore[uri] = settings[uri]
          \/ \E other \in asked \cap DOMAIN responseHandler :
               uri \in Range(responseHandler[other])
      BY <1>1, <2>1, <2>3, <3>1 DEF StoreFollows
    <3>. HIDE DEF told, uri, uris
    <3>4. CASE told # {}
      BY <2>2, <3>1, <3>2, <3>4
    <3>5. CASE told = {} /\ (uri \in refused \/ uri \in Range(uris))
      BY <2>2, <3>1, <3>2, <3>5
    <3>6. CASE \E other \in asked \cap DOMAIN responseHandler :
                 other # id /\ uri \in Range(responseHandler[other])
      BY <2>1, <2>2, <3>1, <3>6
    <3>7. CASE told = {} /\ uri \in DOMAIN configStore
               /\ configStore[uri] = settings[uri]
      BY <3>1, <3>2, <3>7
    <3>. QED BY <3>3, <3>4, <3>5, <3>6, <3>7 DEF uris
  <2>. QED BY <2>1, <2>3 DEF StoreFollows
<1>8. CASE DocumentMessage
  <2>1. PICK file \in FileUris : TouchDocument(file)
    BY <1>8 DEF DocumentMessage
  <2>2. UNCHANGED <<configStore, configChangedCallback, notices, settings,
                    refused, asked, responseHandler>>
    BY <1>8, <2>1 DEF DocumentMessage, TouchDocument
  <2>. QED BY <1>1, <2>1, <2>2, TouchKeepsFolders DEF StoreFollows
<1>. QED BY <1>2, <1>3, <1>4, <1>5, <1>6, <1>7, <1>8 DEF Next

\* The client says once whether it supports configuration.
LEMMA NextSupports ==
    ASSUME Capabilities \subseteq {TRUE}, IInv, SettingsInv, [Next]_vars
    PROVE  (isInitialized => configurationCapability)'
<1>1. CASE Initialize
  BY <1>1, InitializeFolders DEF SettingsInv, OwnInv
<1>2. CASE ~Initialize
  <2>1. UNCHANGED configurationCapability /\ (isInitialized' => isInitialized)
    <3>1. CASE Initialized
      BY <3>1 DEF Initialized, OnInitialized
    <3>2. CASE ClientChangesSettings
      BY <3>2 DEF ClientChangesSettings
    <3>3. CASE DidChangeConfiguration
      BY <3>3 DEF DidChangeConfiguration, OnDidChangeConfiguration
    <3>4. CASE DidChangeWorkspaceFolders
      BY <3>4 DEF DidChangeWorkspaceFolders, OnDidChangeWorkspaceFolders
    <3>5. ASSUME NEW id \in 0..MaxRequests, ConfigurationResponse(id)
          PROVE  UNCHANGED <<configurationCapability, isInitialized>>
      BY <3>5, ResponseIs
    <3>6. CASE DocumentMessage
      BY <3>6 DEF DocumentMessage, TouchDocument
    <3>7. CASE UNCHANGED vars
      BY <3>7 DEF vars, configVars, serverVars
    <3>. QED BY <1>2, <3>1, <3>2, <3>3, <3>4, <3>5, <3>6, <3>7 DEF Next
  <2>. QED BY <2>1 DEF SettingsInv
<1>. QED BY <1>1, <1>2

LEMMA NextSettings ==
    ASSUME ~MayRemoveFolders, Capabilities \subseteq {TRUE},
           IInv, SettingsInv, [Next]_vars
    PROVE  SettingsInv'
BY NextOwn, NextKeepsReady, NextFollows, NextSupports DEF SettingsInv

LEMMA SettingsSettle == SettingsInv => SettingsAreCurrent
<1>1. SettingsInv => SettledStoreIsCurrent
  BY DEF SettingsInv, StoreFollows, SettledStoreIsCurrent
<1>. QED BY <1>1 DEF SettingsInv, SettingsAreCurrent

\* However the changes of the settings, the requests for them and the answers
\* interleave: when nothing is in flight the store holds what the client has set
\* for every folder it did not refuse to tell about, and at every moment a
\* folder in use works with what the store says (Client.cpp,
\* requestConfiguration; LanguageServer.cpp, onDidChangeConfiguration).
THEOREM SettingsStayCurrent ==
    ASSUME ~MayRemoveFolders, Capabilities \subseteq {TRUE}
    PROVE  Spec => []SettingsAreCurrent
<1>1. IInv /\ SettingsInv /\ [Next]_vars => SettingsInv'
  BY NextSettings
<1>. QED BY InitEstablishes, InitSettings, NextPreserves, <1>1, SettingsSettle,
            PTL DEF Spec
================================================================================
