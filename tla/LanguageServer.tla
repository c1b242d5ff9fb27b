---------------------------- MODULE LanguageServer ----------------------------
(***************************************************************************)
(* The two threads of the server.  The main thread reads messages from the *)
(* client (processInputLoop); it answers shutdown, cancels requests and    *)
(* ends the process itself, and queues everything else.  The worker thread *)
(* (messageProcessorThread) takes one message at a time from the queue and *)
(* handles it, postponing what needs the configuration of a workspace that *)
(* has not arrived yet, and replaying it after the response that brought   *)
(* the last configuration.  They share the queue, the cancellation tokens  *)
(* and the shutdown flag, under messagesMutex except where onRequest and   *)
(* onNotification read the flag without it.                                *)
(*                                                                         *)
(* A step of a thread is a critical section, or what it does between two.  *)
(* The handlers themselves are those of WorkspaceConfiguration.            *)
(***************************************************************************)
EXTENDS WorkspaceConfiguration

CONSTANTS
    Ids,            \* ids a client gives its requests
    NoId,           \* the id of a notification
    Methods,        \* notifications this client sends, besides initialized
    InitialFolders, \* folders listed by initialize: a set of sequences of roots
    FolderChanges,  \* the <<closed, added>> of didChangeWorkspaceFolders
    Capabilities,   \* subset of BOOLEAN: client supports workspace/configuration
    ReuseIds,       \* BOOLEAN: may an id be used again once it was answered?
    MaxMessages,    \* bound: requests and notifications besides initialized
    MaxShutdowns    \* bound: shutdown requests the client sends

ASSUME LoopAssumption ==
    /\ NoId \notin Ids
    /\ Methods \subseteq {"textDocument/didChange", "$/setTrace",
                          "workspace/didChangeConfiguration",
                          "workspace/didChangeWorkspaceFolders"}
    /\ InitialFolders \subseteq Seq(FolderUris)
    /\ FolderChanges \subseteq (SUBSET FolderUris) \X Seq(FolderUris)
    /\ Capabilities \subseteq BOOLEAN
    /\ MaxMessages \in Nat
    /\ MaxShutdowns \in Nat

VARIABLES
    messages,                \* the queue
    cancellationTokens,      \* id -> the token made for message number n
    cancelled,               \* the tokens that have been cancelled
    shutdownRequested,
    reader,                  \* main thread: "reading", "joining", "exited"
    joined,                  \* the worker thread has been joined
    exitCode,                \* "running", then "0", "1" or "abort"
    worker,                  \* worker thread: what it does next
    hand,                    \* worker: the message being handled, or <<>>
    token,                   \* worker: the token of the request, 0 for none
    configPostponedMessages,
    inReplay,                \* worker: inside the loop over the postponed ones
    replaying,               \* worker: what that loop has still to visit
    inbox,                   \* history: every message sent to the queue
    replies,                 \* history: what was answered to each of them
    done,                    \* history: the messages that were handled
    cancelledEarly,          \* history: cancelled before they were looked at
    behind,                  \* history: postponed behind an addition of folders
    shutdowns,               \* history: shutdown requests read
    shutdownReplies          \* history: shutdown requests answered

queueVars   == <<messages, cancellationTokens, cancelled>>
readerVars  == <<shutdownRequested, reader, joined, exitCode>>
workerVars  == <<worker, hand, token, configPostponedMessages, inReplay, replaying>>
historyVars ==
    <<inbox, replies, done, cancelledEarly, behind, shutdowns, shutdownReplies>>
vars == <<configVars, queueVars, readerVars, workerVars, historyVars>>

\* A message is numbered by its place in the client's stream.  Only the fields
\* its method has are meaningful.
Message(kind, method, id) ==
    [number |-> Len(inbox) + 1, kind |-> kind, method |-> method, id |-> id,
     uri |-> NullUri, closed |-> {}, uris |-> <<>>, configs |-> <<>>,
     capability |-> FALSE]

IsRequest(m)      == m.kind = "request"
IsNotification(m) == m.kind = "notification"
IsResponse(m)     == m.kind = "response"

\* "feature" is any request about a document: each is answered when its handler
\* returns or throws.
MethodNames == {"", "initialize", "feature", "initialized"} \cup Methods

MessageFields ==
    [number : Nat, kind : {"request", "notification", "response"},
     method : MethodNames, id : Ids \cup {NoId} \cup Nat,
     uri : FileUris \cup {NullUri}, closed : SUBSET FolderUris,
     uris : Seq(FolderUris), configs : Seq(Configs), capability : BOOLEAN]

Messages ==
    {m \in MessageFields :
        /\ IsRequest(m) => m.id \in Ids
        /\ m.method = "workspace/didChangeConfiguration" => m.configs # <<>>}

NotificationRequiresWorkspace(m) ==
    IsNotification(m) /\ m.method \in {"textDocument/didChange",
                                       "workspace/didChangeConfiguration",
                                       "workspace/didChangeWorkspaceFolders"}

AddsFolders(m) ==
    m.method = "workspace/didChangeWorkspaceFolders" /\ m.uris # <<>>

\* The messages that wait for the workspaces to be configured.
Gated(m) == IsRequest(m) \/ NotificationRequiresWorkspace(m)

Running == exitCode = "running" /\ ~crashed

Answered(n) == replies[n] # <<>>

Init ==
    /\ isInitialized = FALSE
    /\ configurationCapability = FALSE
    /\ configChangedCallback = FALSE
    /\ workspaceFolders = <<>>
    /\ nullWorkspace = WorkspaceFolder(NullUri)
    /\ configStore = <<>>
    /\ globalConfig = DefaultConfig
    /\ responseHandler = <<>>
    /\ nextRequestId = 0
    /\ refreshedInlayHints = FALSE
    /\ crashed = FALSE
    /\ asked = {}
    /\ messages = <<>>
    /\ cancellationTokens = <<>>
    /\ cancelled = {}
    /\ shutdownRequested = FALSE
    /\ reader = "reading"
    /\ joined = FALSE
    /\ exitCode = "running"
    /\ worker = "waiting"
    /\ hand = <<>>
    /\ token = 0
    /\ configPostponedMessages = <<>>
    /\ inReplay = FALSE
    /\ replaying = <<>>
    /\ inbox = <<>>
    /\ replies = <<>>
    /\ done = {}
    /\ cancelledEarly = {}
    /\ behind = {}
    /\ shutdowns = 0
    /\ shutdownReplies = 0

-----------------------------------------------------------------------------
(* What a conforming client sends.                                         *)

Sent(method) == {n \in DOMAIN inbox : inbox[n].method = method}

UsedBy(id) == {n \in DOMAIN inbox : IsRequest(inbox[n]) /\ inbox[n].id = id}

FreeId(id) ==
    IF ReuseIds THEN \A n \in UsedBy(id) : Answered(n) ELSE UsedBy(id) = {}

\* Nothing but initialized may follow initialize, and only once it is answered.
HandshakeOpen == Sent("initialize") # {} /\ Sent("initialized") = {}

Initialize(id, uris, capability) ==
    [Message("request", "initialize", id) EXCEPT !.uris = uris,
                                                 !.capability = capability]
Feature(id, uri) == [Message("request", "feature", id) EXCEPT !.uri = uri]

Notification(method) == Message("notification", method, NoId)
DidChange(uri) == [Notification("textDocument/didChange") EXCEPT !.uri = uri]
DidChangeConfiguration(config) ==
    [Notification("workspace/didChangeConfiguration") EXCEPT
        !.configs = <<config>>]
DidChangeWorkspaceFolders(closed, added) ==
    [Notification("workspace/didChangeWorkspaceFolders") EXCEPT
        !.closed = closed, !.uris = added]

Response(id, configs) ==
    [Message("response", "", id) EXCEPT !.configs = configs]

MayStart ==
    Cardinality({n \in DOMAIN inbox : inbox[n].kind # "response"}
                  \ Sent("initialized")) < MaxMessages

FreeIds == {id \in Ids : FreeId(id)}

Requests ==
    {Initialize(id, uris, capability) :
        id \in IF Sent("initialize") = {} THEN FreeIds ELSE {},
        uris \in InitialFolders, capability \in Capabilities}
    \cup
    {Feature(id, uri) : id \in IF HandshakeOpen THEN {} ELSE FreeIds,
                       uri \in FileUris}

\* The folders the client has announced and not closed since.
Announced ==
    {uri \in FolderUris : \E n \in DOMAIN inbox :
        /\ uri \in Range(inbox[n].uris)
        /\ \A k \in DOMAIN inbox : k > n => uri \notin inbox[k].closed}

\* It may announce a change at any time, but no folder that is open.
Changes == {change \in FolderChanges : Range(change[2]) \cap Announced = {}}

Notifications ==
    IF HandshakeOpen
    THEN {Notification("initialized") :
            n \in {n \in Sent("initialize") : Answered(n)}}
    ELSE UNION {CASE method = "textDocument/didChange" ->
                        {DidChange(uri) : uri \in FileUris}
                  [] method = "workspace/didChangeConfiguration" ->
                        {DidChangeConfiguration(config) : config \in Configs}
                  [] method = "workspace/didChangeWorkspaceFolders" ->
                        {DidChangeWorkspaceFolders(change[1], change[2]) :
                            change \in Changes}
                  [] OTHER -> {Notification(method)} : method \in Methods}

\* The answer to a configuration request; an error if it is not supported.
Responses ==
    {Response(id, IF configurationCapability
                  THEN [i \in DOMAIN responseHandler[id] |-> config]
                  ELSE <<>>) :
        id \in asked \cap DOMAIN responseHandler, config \in Configs}

-----------------------------------------------------------------------------
(* The main thread.                                                        *)

\* A request gets its cancellation token in the critical section that queues it.
ReadMessage(m) ==
    /\ Running /\ reader = "reading" /\ ~shutdownRequested
    /\ cancellationTokens' = IF IsRequest(m)
                             THEN Put(cancellationTokens, m.id, m.number)
                             ELSE cancellationTokens
    /\ messages' = Append(messages, m)
    /\ inbox' = Append(inbox, m)
    /\ replies' = Append(replies, <<>>)
    /\ asked' = IF IsResponse(m) THEN asked \ {m.id} ELSE asked
    /\ UNCHANGED <<serverVars, crashed, cancelled, readerVars, workerVars,
                   done, cancelledEarly, behind, shutdowns, shutdownReplies>>

\* Mutant: a message that comes after shutdown is dropped.
DropAfterShutdown(m) ==
    /\ Running /\ reader = "reading" /\ shutdownRequested
    /\ inbox' = Append(inbox, m)
    /\ replies' = Append(replies, <<>>)
    /\ asked' = IF IsResponse(m) THEN asked \ {m.id} ELSE asked
    /\ UNCHANGED <<serverVars, crashed, queueVars, readerVars, workerVars,
                   done, cancelledEarly, behind, shutdowns, shutdownReplies>>

\* After shutdown() has returned every other message is answered with an error,
\* a notification or a response too (with no id, or the server's own).
RejectAfterShutdown(m) ==
    /\ Running /\ reader = "reading" /\ shutdownRequested
    /\ inbox' = Append(inbox, m)
    /\ replies' = Append(replies, <<"InvalidRequest">>)
    /\ asked' = IF IsResponse(m) THEN asked \ {m.id} ELSE asked
    /\ UNCHANGED <<serverVars, crashed, queueVars, readerVars, workerVars,
                   done, cancelledEarly, behind, shutdowns, shutdownReplies>>

\* Has the worker not yet looked at the token of message n?
NotLookedAt(n) ==
    \/ \E i \in DOMAIN messages : messages[i].number = n
    \/ \E i \in DOMAIN replaying : replaying[i].number = n
    \/ ~inReplay /\ \E i \in DOMAIN configPostponedMessages :
                        configPostponedMessages[i].number = n
    \/ worker \in {"handling", "lookup"} /\ hand.number = n

\* $/cancelRequest is dealt with here and never queued.
ReadCancel(id) ==
    /\ Running /\ reader = "reading" /\ ~shutdownRequested
    /\ UsedBy(id) # {}
    /\ cancelled' = IF id \in DOMAIN cancellationTokens
                    THEN cancelled \cup {cancellationTokens[id]} ELSE cancelled
    /\ cancelledEarly' = cancelledEarly \cup
                           {n \in UsedBy(id) : ~Answered(n) /\ NotLookedAt(n)}
    /\ UNCHANGED <<configVars, messages, cancellationTokens, readerVars,
                   workerVars, inbox, replies, done, behind, shutdowns,
                   shutdownReplies>>

\* shutdown() raises the flag, wakes the worker and joins it.  Joining a second
\* time throws std::system_error, which nothing catches.
ReadShutdown ==
    /\ Running /\ reader = "reading"
    /\ shutdowns < MaxShutdowns
    /\ shutdowns' = shutdowns + 1
    /\ shutdownRequested' = TRUE
    /\ IF joined THEN crashed' = TRUE /\ UNCHANGED reader
                 ELSE reader' = "joining" /\ UNCHANGED crashed
    /\ UNCHANGED <<serverVars, asked, queueVars, joined, exitCode, workerVars,
                   inbox, replies, done, cancelledEarly, behind,
                   shutdownReplies>>

JoinWorker ==
    /\ Running /\ reader = "joining" /\ worker = "stopped"
    /\ joined' = TRUE
    /\ reader' = "reading"
    /\ shutdownReplies' = shutdownReplies + 1
    /\ UNCHANGED <<configVars, queueVars, shutdownRequested, exitCode,
                   workerVars, inbox, replies, done, cancelledEarly, behind,
                   shutdowns>>

ReadExit ==
    /\ Running /\ reader = "reading"
    /\ exitCode' = IF shutdownRequested THEN "0" ELSE "1"
    /\ reader' = "exited"
    /\ UNCHANGED <<configVars, queueVars, shutdownRequested, joined, workerVars,
                   historyVars>>

\* The client is gone: the loop ends, and destroying a joinable Thread aborts.
EndOfInput ==
    /\ Running /\ reader = "reading"
    /\ exitCode' = IF joined THEN "0" ELSE "abort"
    /\ reader' = "exited"
    /\ UNCHANGED <<configVars, queueVars, shutdownRequested, joined, workerVars,
                   historyVars>>

-----------------------------------------------------------------------------
(* The worker thread: popMessage.                                          *)

PopMessage ==
    /\ Running /\ worker = "waiting" /\ ~inReplay
    /\ messages # <<>> /\ ~shutdownRequested
    /\ hand' = Head(messages)
    /\ messages' = Tail(messages)
    /\ worker' = "handling"
    /\ UNCHANGED <<configVars, cancellationTokens, cancelled, readerVars, token,
                   configPostponedMessages, inReplay, replaying, historyVars>>

\* Mutant: the flag is only looked at when the queue is empty.
StopWhenDrained ==
    /\ Running /\ worker = "waiting" /\ ~inReplay
    /\ shutdownRequested /\ messages = <<>>
    /\ worker' = "stopped"
    /\ UNCHANGED <<configVars, queueVars, readerVars, hand, token, inReplay,
                   configPostponedMessages, replaying, historyVars>>

StopWorker ==
    /\ Running /\ worker = "waiting" /\ ~inReplay
    /\ shutdownRequested
    /\ worker' = "stopped"
    /\ UNCHANGED <<configVars, queueVars, readerVars, hand, token, inReplay,
                   configPostponedMessages, replaying, historyVars>>

(* The worker thread: the loop over the postponed messages.                *)

ReplayNext ==
    /\ Running /\ worker = "waiting" /\ inReplay /\ replaying # <<>>
    /\ hand' = Head(replaying)
    /\ replaying' = Tail(replaying)
    /\ worker' = "handling"
    /\ UNCHANGED <<configVars, queueVars, readerVars, token, inReplay,
                   configPostponedMessages, historyVars>>

ReplayEnd ==
    /\ Running /\ worker = "waiting" /\ inReplay /\ replaying = <<>>
    /\ configPostponedMessages' = <<>>
    /\ inReplay' = FALSE
    /\ UNCHANGED <<configVars, queueVars, readerVars, worker, hand, token,
                   replaying, historyVars>>

(* The worker thread: handleMessage.                                       *)

\* Mutant: requests are not postponed.
OnlyNotificationsWait ==
    /\ isInitialized /\ ~AllWorkspacesReceivedConfiguration
    /\ NotificationRequiresWorkspace(hand)

MustWait == isInitialized /\ ~AllWorkspacesReceivedConfiguration /\ Gated(hand)

\* The message in hand is dealt with.
Finish == worker' = "waiting" /\ hand' = <<>>

Reply(outcome) ==
    /\ replies' = [replies EXCEPT ![hand.number] = Append(@, outcome)]
    /\ done' = done \cup {hand.number}

\* Appending to the vector that is being looped over may reallocate it, which
\* leaves the loop with dangling iterators.
Postpone ==
    /\ Running /\ worker = "handling" /\ MustWait
    /\ configPostponedMessages' = Append(configPostponedMessages, hand)
    /\ \E reallocated \in IF inReplay THEN BOOLEAN ELSE {FALSE} :
         crashed' = reallocated
    /\ behind' = IF \E m \in Range(configPostponedMessages) : AddsFolders(m)
                 THEN behind \cup {hand.number} ELSE behind
    /\ Finish
    /\ UNCHANGED <<serverVars, asked, queueVars, readerVars, token, inReplay,
                   replaying, inbox, replies, done, cancelledEarly, shutdowns,
                   shutdownReplies>>

\* onRequest's first checks; the flag is read without the mutex.
Refused == (~isInitialized /\ hand.method # "initialize") \/ shutdownRequested

RefuseRequest ==
    /\ Running /\ worker = "handling" /\ IsRequest(hand) /\ ~MustWait
    /\ Refused
    /\ Reply(IF isInitialized \/ hand.method = "initialize"
             THEN "InvalidRequest" ELSE "ServerNotInitialized")
    /\ worker' = "clear"
    /\ UNCHANGED <<configVars, queueVars, readerVars, hand, token, inReplay,
                   configPostponedMessages, replaying, inbox, cancelledEarly,
                   behind, shutdowns, shutdownReplies>>

\* Mutant: a notification is taken for a request.
AcceptAnything ==
    /\ Running /\ worker = "handling" /\ ~MustWait
    /\ ~Refused
    /\ worker' = "lookup"
    /\ UNCHANGED <<configVars, queueVars, readerVars, hand, token, inReplay,
                   configPostponedMessages, replaying, historyVars>>

AcceptRequest ==
    /\ Running /\ worker = "handling" /\ IsRequest(hand) /\ ~MustWait
    /\ ~Refused
    /\ worker' = "lookup"
    /\ UNCHANGED <<configVars, queueVars, readerVars, hand, token, inReplay,
                   configPostponedMessages, replaying, historyVars>>

\* Mutant: the request still runs after the cancellation was reported.
LookupWithoutThrow ==
    /\ Running /\ worker = "lookup"
    /\ token' = IF hand.id \in DOMAIN cancellationTokens
                THEN cancellationTokens[hand.id] ELSE 0
    /\ IF token' \in cancelled
       THEN Reply("RequestCancelled") ELSE UNCHANGED <<replies, done>>
    /\ worker' = "run"
    /\ UNCHANGED <<configVars, queueVars, readerVars, hand, inReplay,
                   configPostponedMessages, replaying, inbox, cancelledEarly,
                   behind, shutdowns, shutdownReplies>>

\* Mutant: the token is looked up but not asked.
LookupUnchecked ==
    /\ Running /\ worker = "lookup"
    /\ token' = IF hand.id \in DOMAIN cancellationTokens
                THEN cancellationTokens[hand.id] ELSE 0
    /\ worker' = "run"
    /\ UNCHANGED <<configVars, queueVars, readerVars, hand, inReplay,
                   configPostponedMessages, replaying, historyVars>>

LookupToken ==
    /\ Running /\ worker = "lookup"
    /\ token' = IF hand.id \in DOMAIN cancellationTokens
                THEN cancellationTokens[hand.id] ELSE 0
    /\ IF token' \in cancelled
       THEN Reply("RequestCancelled") /\ worker' = "clear"
       ELSE worker' = "run" /\ UNCHANGED <<replies, done>>
    /\ UNCHANGED <<configVars, queueVars, readerVars, hand, inReplay,
                   configPostponedMessages, replaying, inbox, cancelledEarly,
                   behind, shutdowns, shutdownReplies>>

\* The handler of the request, and the answer: its result, its failure, or,
\* if the type checker saw the token cancelled, RequestCancelled.  The one
\* request whose handler may leave it open, workspace/diagnostic, is not among
\* those of this module: Diagnostics models it and its later answer.
Outcomes(m) ==
    IF m.method = "initialize" THEN {"result"}
    ELSE {"result", "error"} \cup
         (IF token \in cancelled THEN {"RequestCancelled"} ELSE {})

RunRequest ==
    /\ Running /\ worker = "run"
    /\ \/ /\ IF hand.method = "initialize"
             THEN OnInitialize(hand.uris, hand.capability)
             ELSE TouchDocument(hand.uri)
          /\ \E outcome \in Outcomes(hand) : Reply(outcome)
       \/ /\ hand.method # "initialize"   \* parameters that do not parse
          /\ UNCHANGED configVars
          /\ Reply("error")
    /\ worker' = "clear"
    /\ UNCHANGED <<queueVars, readerVars, hand, token, inReplay,
                   configPostponedMessages, replaying, inbox, cancelledEarly,
                   behind, shutdowns, shutdownReplies>>

\* Whatever token is registered for the id now is dropped.
ClearCancellationToken ==
    /\ Running /\ worker = "clear"
    /\ cancellationTokens' = Restrict(cancellationTokens,
                                      DOMAIN cancellationTokens \ {hand.id})
    /\ token' = 0
    /\ Finish
    /\ UNCHANGED <<configVars, messages, cancelled, readerVars, inReplay,
                   configPostponedMessages, replaying, historyVars>>

Dispatch(m) ==
    CASE m.method = "initialized" -> OnInitialized
      [] m.method = "textDocument/didChange" -> TouchDocument(m.uri)
      [] m.method = "workspace/didChangeConfiguration" ->
            OnDidChangeConfiguration(m.configs[1])
      [] m.method = "workspace/didChangeWorkspaceFolders" ->
            OnDidChangeWorkspaceFolders({NameOf[uri] : uri \in m.closed}, m.uris)
      [] OTHER -> UNCHANGED configVars

HandleNotification ==
    /\ Running /\ worker = "handling" /\ IsNotification(hand) /\ ~MustWait
    /\ IF ~isInitialized \/ shutdownRequested
       THEN UNCHANGED configVars
       ELSE Dispatch(hand)
    /\ done' = done \cup {hand.number}
    /\ Finish
    /\ UNCHANGED <<queueVars, readerVars, token, inReplay, replaying, inbox,
                   configPostponedMessages, replies, cancelledEarly, behind,
                   shutdowns, shutdownReplies>>

\* Mutant: nothing looks at the postponed messages any more.
HandleWithoutReplay ==
    /\ Running /\ worker = "handling" /\ IsResponse(hand)
    /\ HandleResponse(hand.id, hand.configs, FALSE)
    /\ done' = done \cup {hand.number}
    /\ Finish
    /\ UNCHANGED <<asked, queueVars, readerVars, token,
                   configPostponedMessages, inReplay, replaying, inbox,
                   replies, cancelledEarly, behind, shutdowns, shutdownReplies>>

\* A response, and the start of the loop over what waited for it.
HandleClientResponse ==
    /\ Running /\ worker = "handling" /\ IsResponse(hand)
    /\ HandleResponse(hand.id, hand.configs, FALSE)
    /\ IF configPostponedMessages # <<>> /\ AllWorkspacesReceivedConfiguration'
       THEN inReplay' = TRUE /\ replaying' = configPostponedMessages
       ELSE UNCHANGED <<inReplay, replaying>>
    /\ done' = done \cup {hand.number}
    /\ Finish
    /\ UNCHANGED <<asked, queueVars, readerVars, token,
                   configPostponedMessages, inbox, replies, cancelledEarly,
                   behind, shutdowns, shutdownReplies>>

-----------------------------------------------------------------------------

ReadRequest      == MayStart /\ \E m \in Requests : ReadMessage(m)
ReadNotification == /\ MayStart \/ HandshakeOpen
                    /\ \E m \in Notifications : ReadMessage(m)
ReadResponse     == \E m \in Responses : ReadMessage(m)
ReadLate         == \/ /\ MayStart
                       /\ \E m \in Requests \cup Notifications :
                            RejectAfterShutdown(m)
                    \/ \E m \in Responses : RejectAfterShutdown(m)

Reader ==
    \/ ReadRequest
    \/ ReadNotification
    \/ ReadResponse
    \/ ReadLate
    \/ \E id \in Ids : ReadCancel(id)
    \/ ReadShutdown
    \/ JoinWorker
    \/ ReadExit
    \/ EndOfInput

Worker ==
    \/ PopMessage
    \/ StopWorker
    \/ ReplayNext
    \/ ReplayEnd
    \/ Postpone
    \/ RefuseRequest
    \/ AcceptRequest
    \/ LookupToken
    \/ RunRequest
    \/ ClearCancellationToken
    \/ HandleNotification
    \/ HandleClientResponse

Next == Reader \/ Worker

\* Both threads keep running; a client answers what it is asked and completes
\* the handshake it began.  Nothing says that it ever sends anything else.
Fairness ==
    /\ WF_vars(Worker)
    /\ WF_vars(JoinWorker)
    /\ WF_vars(ReadResponse)
    /\ WF_vars(HandshakeOpen /\ ReadNotification)

Spec == Init /\ [][Next]_vars
FairSpec == Spec /\ Fairness
-----------------------------------------------------------------------------
(* Properties.                                                             *)

Threads == {"waiting", "handling", "lookup", "run", "clear", "stopped"}
Replies == {"result", "error", "RequestCancelled", "InvalidRequest",
            "ServerNotInitialized"}
Numbers == DOMAIN inbox

TypeOK ==
    /\ ConfigTypeOK
    /\ inbox \in Seq(Messages)
    /\ messages \in Seq(Messages)
    /\ configPostponedMessages \in Seq(Messages)
    /\ replaying \in Seq(Messages)
    /\ worker \in Threads
    /\ worker \in {"waiting", "stopped"} \/ hand \in Messages
    /\ worker \in {"lookup", "run", "clear"} => IsRequest(hand)
    /\ token \in Numbers \cup {0}
    /\ DOMAIN cancellationTokens \subseteq Ids
    /\ \A id \in DOMAIN cancellationTokens : cancellationTokens[id] \in Numbers
    /\ cancelled \subseteq Numbers
    /\ shutdownRequested \in BOOLEAN
    /\ reader \in {"reading", "joining", "exited"}
    /\ joined \in BOOLEAN
    /\ exitCode \in {"running", "0", "1", "abort"}
    /\ inReplay \in BOOLEAN
    /\ replies \in Seq(Seq(Replies)) /\ Len(replies) = Len(inbox)
    /\ done \subseteq Numbers
    /\ cancelledEarly \subseteq Numbers
    /\ behind \subseteq Numbers
    /\ shutdowns \in 0..MaxShutdowns /\ shutdownReplies \in Nat

\* No request is answered twice, whichever thread answers it and however often
\* it was queued, postponed and replayed.
AtMostOneReply == \A n \in Numbers : Len(replies[n]) <= 1

InFlight(n) ==
    \E queue \in {messages, configPostponedMessages, replaying} :
        \E i \in DOMAIN queue : queue[i].number = n

InHand(n) == worker \notin {"waiting", "stopped"} /\ hand.number = n

\* Every message the client sent has been dealt with or still will be, but for
\* those that wait behind an addition of folders that waits itself: the loop
\* over the postponed messages drops them.
NothingLost ==
    \A n \in Numbers \ behind : n \in done \/ Answered(n) \/ InFlight(n) \/ InHand(n)

\* The state RequestContract gives a request, and "answered twice" for what it
\* does not allow.
ContractState(n) ==
    CASE Len(replies[n]) = 1 -> replies[n][1]
      [] Len(replies[n]) > 1 -> "answered twice"
      [] ~Answered(n) /\ NotLookedAt(n) ->
            IF n \in cancelledEarly THEN "doomed" ELSE "queued"
      [] ~Answered(n) /\ worker = "run" /\ hand.number = n ->
            IF token \in cancelled THEN "stopping" ELSE "running"
      [] OTHER -> "forgotten"

RequestNumbers == {n \in Numbers : IsRequest(inbox[n])}

Contract == INSTANCE RequestContract WITH
    request <- [n \in RequestNumbers |-> ContractState(n)],
    waived  <- behind \cap RequestNumbers,
    open    <- shutdownReplies = 0

\* The two threads together keep the contract: no request is forgotten while it
\* is queued, postponed or replayed, except behind an addition of folders that
\* is postponed too; none is answered twice, and one that was cancelled in time
\* is not run.
KeepsContract == Contract!Spec

\* Requests and document and workspace notifications take effect in the order
\* the client sent them, postponed or not: a request never sees a document
\* version other than the one it was sent for.
HandledInOrder ==
    [][ \A n \in done' \ done, p \in done :
          Gated(inbox[n]) /\ Gated(inbox[p]) => p < n ]_vars

\* A request the client cancelled before the worker looked at it does not run.
EarlyCancellationIsHonoured ==
    \A n \in cancelledEarly : \A i \in DOMAIN replies[n] : replies[n][i] # "result"

\* A token belongs to a request that is not answered yet, or is just about to
\* be dropped: the map does not grow with the requests that were served.
TokensAreOfOpenRequests ==
    \A id \in DOMAIN cancellationTokens :
        LET n == cancellationTokens[id] IN
        ~Answered(n) \/ (worker = "clear" /\ hand.number = n)

\* Once the shutdown request is answered the worker does nothing any more.
ShutdownReplyIsLast ==
    [][ shutdownReplies > 0 => UNCHANGED <<done, serverVars>> ]_vars

\* No message is forgotten that was not postponed behind an addition of folders,
\* and the token that cancels a request is there from the moment it can be
\* cancelled to its answer and not longer (Thread.cpp's queue, handleMessage's
\* postponed messages, LanguageServer.cpp's tokens).
OpenRequestsAreKept ==
    NothingLost /\ EarlyCancellationIsHonoured /\ TokensAreOfOpenRequests

\* Messages take effect in the order they were sent, up to the answer to the
\* shutdown request and no further.
WorkFollowsTheMessages == HandledInOrder /\ ShutdownReplyIsLast

\* Every request is answered, unless the client shuts the server down first or
\* the request waits behind an addition of folders that waits itself.
RequestsAreAnswered ==
    \A n \in 1..(2 * MaxMessages + 2) :
        (n \in Numbers /\ IsRequest(inbox[n]))
            ~> (~Running \/ shutdownRequested \/ n \in behind
                  \/ (n \in Numbers /\ Answered(n)))

\* A shutdown request is answered: the two threads do not wait for each other.
ShutdownIsAnswered == shutdownRequested ~> (shutdownReplies > 0 \/ crashed)
===============================================================================
