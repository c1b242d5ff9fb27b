---------------------- MODULE LanguageServerSafety_proofs ----------------------
(***************************************************************************)
(* What the two threads do with the client's messages, for every value of  *)
(* the constants: they take effect in the order they were sent, none is    *)
(* lost but those behind a postponed addition of folders, and a request    *)
(* that is cancelled in time does not run.  At the end the refinement:     *)
(* they implement RequestContract.                                         *)
(*                                                                         *)
(* Each part adds an invariant to IInv of LanguageServer_proofs, and       *)
(* proves it from the parts before it.                                     *)
(***************************************************************************)
EXTENDS LanguageServer_proofs

-----------------------------------------------------------------------------
(* Sequences as sets.                                                      *)

LEMMA RangeOfAppend ==
    ASSUME NEW S, NEW q \in Seq(S), NEW x \in S
    PROVE  Range(Append(q, x)) = Range(q) \cup {x}
<1>1. /\ DOMAIN Append(q, x) = DOMAIN q \cup {Len(q) + 1}
      /\ Append(q, x)[Len(q) + 1] = x
      /\ \A i \in DOMAIN q : Append(q, x)[i] = q[i]
  OBVIOUS
<1>. QED BY <1>1 DEF Range

LEMMA RangeOfTail ==
    ASSUME NEW S, NEW q \in Seq(S), q # <<>>
    PROVE  Range(q) = {Head(q)} \cup Range(Tail(q)) /\ Head(q) \in S
<1>1. /\ Head(q) = q[1] /\ q[1] \in S /\ 1 \in DOMAIN q
      /\ \A i \in DOMAIN Tail(q) : i + 1 \in DOMAIN q /\ Tail(q)[i] = q[i + 1]
  BY HeadAndTail
<1>2. ASSUME NEW i \in DOMAIN q, i # 1
      PROVE  i - 1 \in DOMAIN Tail(q) /\ Tail(q)[i - 1] = q[i]
  <2>1. Len(Tail(q)) = Len(q) - 1 /\ DOMAIN q = 1..Len(q) /\ Tail(q) \in Seq(S)
    OBVIOUS
  <2>. QED BY <1>2, <2>1
<1>3. Range(Tail(q)) \subseteq Range(q) /\ Head(q) \in Range(q)
  BY <1>1 DEF Range
<1>4. Range(q) \subseteq {Head(q)} \cup Range(Tail(q))
  <2>1. ASSUME NEW i \in DOMAIN q
        PROVE  q[i] \in {Head(q)} \cup Range(Tail(q))
    <3>1. CASE i = 1
      BY <1>1, <3>1
    <3>2. CASE i # 1
      BY <1>2, <3>2 DEF Range
    <3>. QED BY <3>1, <3>2
  <2>. QED BY <2>1 DEF Range
<1>. QED BY <1>1, <1>3, <1>4

LEMMA RangeOfEmpty == Range(<<>>) = {}
<1>1. DOMAIN <<>> = {}
  OBVIOUS
<1>. QED BY <1>1 DEF Range

-----------------------------------------------------------------------------
(* Every message is the one the client sent under its number.              *)

Hand == IF worker \in {"waiting", "stopped"} THEN {} ELSE {hand}

\* Whatever the threads still have of the client's messages.
Carried ==
    Range(messages) \cup Range(configPostponedMessages) \cup Range(replaying)
        \cup Hand

Sendable == Requests \cup Notifications \cup Responses

\* The message m arrives at the main thread.
Receive(m) == ReadMessage(m) \/ RejectAfterShutdown(m)

InboxIsNumbered == \A n \in Numbers : inbox[n].number = n

CarriedAsSent ==
    \A m \in Carried : m.number \in Numbers /\ m = inbox[m.number]

LEMMA SendableIsMessage ==
    ASSUME TypeOK, NEW m \in Sendable
    PROVE  m \in Messages /\ m.number = Len(inbox) + 1
BY RequestsAreMessages, NotificationsAreMessages, ResponsesAreMessages
   DEF Sendable

LEMMA InboxAfterReceive ==
    ASSUME TypeOK, NEW m \in Sendable, Receive(m)
    PROVE  /\ Numbers' = Numbers \cup {m.number} /\ m.number \notin Numbers
           /\ m.number \in Numbers'
           /\ inbox'[m.number] = m
           /\ \A n \in Numbers : inbox'[n] = inbox[n] /\ n < m.number
<1>1. /\ Len(inbox) \in Nat /\ Numbers = 1..Len(inbox)
      /\ m \in Messages /\ m.number = Len(inbox) + 1
  BY NumbersAreAnInterval, SendableIsMessage
<1>2. inbox' = Append(inbox, m) /\ inbox \in Seq(Messages)
  BY DEF Receive, ReadMessage, RejectAfterShutdown, TypeOK
<1>3. /\ DOMAIN inbox' = 1..(Len(inbox) + 1)
      /\ inbox'[Len(inbox) + 1] = m
      /\ \A n \in 1..Len(inbox) : inbox'[n] = inbox[n]
  BY <1>1, <1>2
<1>. QED BY <1>1, <1>3 DEF Numbers

\* The worker only moves messages between the places it keeps them in.
LEMMA WorkerMovesMessages ==
    ASSUME IInv, Worker
    PROVE  UNCHANGED inbox /\ Carried' \subseteq Carried
<1>1. /\ messages \in Seq(Messages) /\ replaying \in Seq(Messages)
      /\ configPostponedMessages \in Seq(Messages)
  BY DEF IInv, TypeOK
<1>2. CASE PopMessage
  <2>1. Range(messages) = {hand'} \cup Range(messages')
    BY <1>1, <1>2, RangeOfTail DEF PopMessage
  <2>. QED BY <1>2, <2>1 DEF PopMessage, Carried, Hand, historyVars
<1>3. CASE ReplayNext
  <2>1. Range(replaying) = {hand'} \cup Range(replaying')
    BY <1>1, <1>3, RangeOfTail DEF ReplayNext
  <2>. QED BY <1>3, <2>1 DEF ReplayNext, Carried, Hand, historyVars, queueVars
<1>4. CASE ReplayEnd
  BY <1>4, RangeOfEmpty DEF ReplayEnd, Carried, Hand, historyVars, queueVars
<1>5. CASE Postpone
  <2>1. hand \in Hand /\ hand \in Messages /\ Hand' = {}
    BY <1>5 DEF Postpone, Finish, Hand, IInv, TypeOK
  <2>2. Range(configPostponedMessages') = Range(configPostponedMessages) \cup {hand}
    BY <1>1, <1>5, <2>1, RangeOfAppend DEF Postpone
  <2>. QED BY <1>5, <2>1, <2>2 DEF Postpone, Carried, historyVars, queueVars
<1>6. CASE HandleClientResponse
  BY <1>6 DEF HandleClientResponse, Finish, Carried, Hand, queueVars
<1>7. CASE StopWorker
  BY <1>7 DEF StopWorker, Carried, Hand, historyVars, queueVars
<1>8. CASE RefuseRequest \/ AcceptRequest
  BY <1>8 DEF RefuseRequest, AcceptRequest, Carried, Hand, historyVars, queueVars
<1>9. CASE LookupToken
  BY <1>9 DEF LookupToken, Carried, Hand, queueVars
<1>10. CASE RunRequest
  BY <1>10 DEF RunRequest, Carried, Hand, queueVars
<1>11. CASE ClearCancellationToken \/ HandleNotification
  BY <1>11 DEF ClearCancellationToken, HandleNotification, Finish, Carried,
               Hand, historyVars, queueVars
<1>. QED BY <1>2, <1>3, <1>4, <1>5, <1>6, <1>7, <1>8, <1>9, <1>10, <1>11
         DEF Worker

\* The main thread adds to the queue what the client sends and nothing else.
LEMMA ReaderMovesMessages ==
    ASSUME IInv, Reader
    PROVE  \/ UNCHANGED inbox /\ Carried' = Carried
           \/ \E m \in Sendable :
                Receive(m) /\ Carried' \subseteq Carried \cup {m}
<1>1. ASSUME NEW m \in Sendable, Receive(m)
      PROVE  Carried' \subseteq Carried \cup {m}
  <2>1. m \in Messages /\ messages \in Seq(Messages)
    BY SendableIsMessage DEF IInv, TypeOK
  <2>2. Range(Append(messages, m)) = Range(messages) \cup {m}
    BY <2>1, RangeOfAppend
  <2>. QED BY <1>1, <2>2
           DEF Receive, ReadMessage, RejectAfterShutdown, Carried, Hand,
               workerVars, queueVars
<1>2. ASSUME NEW id \in Ids, ReadCancel(id)
      PROVE  UNCHANGED inbox /\ Carried' = Carried
  BY <1>2 DEF ReadCancel, Carried, Hand, workerVars
<1>3. CASE ReadShutdown \/ JoinWorker \/ ReadExit \/ EndOfInput
  BY <1>3 DEF ReadShutdown, JoinWorker, ReadExit, EndOfInput, Carried, Hand,
              workerVars, queueVars, historyVars
<1>4. CASE ReadRequest \/ ReadNotification \/ ReadResponse \/ ReadLate
  <2>1. PICK m \in Sendable : Receive(m)
    BY <1>4 DEF ReadRequest, ReadNotification, ReadResponse, ReadLate,
                Sendable, Receive
  <2>. QED BY <1>1, <2>1
<1>. QED BY <1>2, <1>3, <1>4 DEF Reader

LEMMA StutterMovesNothing ==
    ASSUME UNCHANGED vars
    PROVE  UNCHANGED inbox /\ Carried' = Carried
BY DEF vars, workerVars, queueVars, historyVars, Carried, Hand

LEMMA AsSentPreserved ==
    ASSUME IInv, InboxIsNumbered, CarriedAsSent, [Next]_vars
    PROVE  InboxIsNumbered' /\ CarriedAsSent'
<1>1. CASE UNCHANGED inbox /\ Carried' \subseteq Carried
  BY <1>1 DEF InboxIsNumbered, CarriedAsSent, Numbers
<1>2. ASSUME NEW m \in Sendable, Receive(m), Carried' \subseteq Carried \cup {m}
      PROVE  InboxIsNumbered' /\ CarriedAsSent'
  BY <1>2, InboxAfterReceive DEF IInv, InboxIsNumbered, CarriedAsSent
<1>. QED BY <1>1, <1>2, WorkerMovesMessages, ReaderMovesMessages,
            StutterMovesNothing DEF Next

-----------------------------------------------------------------------------
(* The handshake: initialize and initialized are sent once, and no request *)
(* or gated notification lies between the two.                             *)

AfterHandshake(n) == \E k \in Sent("initialized") : k < n

OneHandshake ==
    /\ \A n, k \in Sent("initialize") : n = k
    /\ \A n, k \in Sent("initialized") : n = k
    /\ \A n \in Sent("initialize") : IsRequest(inbox[n])
    /\ Sent("initialized") # {} => Sent("initialize") # {}
    /\ \A j \in Sent("initialize"), n \in Numbers :
          Gated(inbox[n]) /\ n > j => AfterHandshake(n)

\* What a message the client may send now says about the handshake.
LEMMA HandshakeOfSendable ==
    ASSUME TypeOK, NEW m \in Sendable
    PROVE  /\ m.method = "initialize" => IsRequest(m) /\ Sent("initialize") = {}
           /\ m.method = "initialized" => HandshakeOpen /\ ~Gated(m)
           /\ Gated(m) => ~HandshakeOpen
<1>1. CASE m \in Requests
  <2>1. IsRequest(m)
    BY <1>1, RequestsAreMessages
  <2>2. CASE \E id \in FreeIds, uris \in InitialFolders,
               capability \in Capabilities :
               m = Initialize(id, uris, capability) /\ Sent("initialize") = {}
    <3>1. m.method = "initialize" /\ Sent("initialize") = {}
      BY <2>2 DEF Initialize, Message
    <3>. QED BY <2>1, <3>1 DEF HandshakeOpen
  <2>3. CASE ~HandshakeOpen /\ \E id \in FreeIds, uri \in FileUris :
               m = Feature(id, uri)
    BY <2>1, <2>3 DEF Feature, Message
  <2>. QED BY <1>1, <2>2, <2>3 DEF Requests
<1>2. CASE m \in Notifications
  <2>1. CASE HandshakeOpen
    <3>1. m = Notification("initialized")
      BY <1>2, <2>1 DEF Notifications
    <3>2. m.method = "initialized" /\ ~Gated(m)
      BY <3>1 DEF Notification, Message, Gated, IsRequest,
                  NotificationRequiresWorkspace
    <3>. QED BY <2>1, <3>2
  <2>2. CASE ~HandshakeOpen
    <3>1. PICK method \in Methods :
            m \in CASE method = "textDocument/didChange" ->
                        {DidChange(uri) : uri \in FileUris}
                   [] method = "workspace/didChangeConfiguration" ->
                        {DidChangeConfiguration(config) : config \in Configs}
                   [] method = "workspace/didChangeWorkspaceFolders" ->
                        {DidChangeWorkspaceFolders(change[1], change[2]) :
                            change \in Changes}
                   [] OTHER -> {Notification(method)}
      BY <1>2, <2>2 DEF Notifications
    <3>2. m.method = method
      <4>1. CASE method = "textDocument/didChange"
        BY <3>1, <4>1 DEF DidChange, Notification, Message
      <4>2. CASE method = "workspace/didChangeConfiguration"
        <5>1. PICK config \in Configs : m = DidChangeConfiguration(config)
          BY <3>1, <4>2
        <5>. QED BY <4>2, <5>1 DEF DidChangeConfiguration, Notification, Message
      <4>3. CASE method = "workspace/didChangeWorkspaceFolders"
        BY <3>1, <4>3 DEF DidChangeWorkspaceFolders, Notification, Message
      <4>4. CASE method = "$/setTrace"
        BY <3>1, <4>4 DEF Notification, Message
      <4>. QED BY <4>1, <4>2, <4>3, <4>4, LoopAssumption
    <3>3. method \notin {"initialize", "initialized"}
      BY LoopAssumption
    <3>. QED BY <2>2, <3>2, <3>3
  <2>. QED BY <2>1, <2>2
<1>3. CASE m \in Responses
  <2>1. m.method = ""
    <3> DEFINE Full(id, config) == [i \in DOMAIN responseHandler[id] |-> config]
    <3>1. PICK id \in asked \cap DOMAIN responseHandler, config \in Configs :
             m = Response(id, IF configurationCapability
                              THEN Full(id, config) ELSE <<>>)
      BY <1>3 DEF Responses
    <3>. HIDE DEF Full
    <3>. QED BY <3>1 DEF Response, Message
  <2>2. IsResponse(m)
    BY <1>3, ResponsesAreMessages
  <2>. QED BY <2>1, <2>2 DEF Gated, IsRequest, IsResponse, IsNotification,
                             NotificationRequiresWorkspace
<1>. QED BY <1>1, <1>2, <1>3 DEF Sendable

LEMMA SentAfterReceive ==
    ASSUME TypeOK, NEW m \in Sendable, Receive(m), NEW method
    PROVE  Sent(method)' = IF m.method = method
                           THEN Sent(method) \cup {m.number} ELSE Sent(method)
<1>1. /\ Numbers' = Numbers \cup {m.number} /\ m.number \notin Numbers
      /\ inbox'[m.number] = m /\ \A n \in Numbers : inbox'[n] = inbox[n]
  BY InboxAfterReceive
<1>. QED BY <1>1 DEF Sent, Numbers

LEMMA HandshakePreserved ==
    ASSUME IInv, OneHandshake, [Next]_vars
    PROVE  OneHandshake'
<1>1. CASE UNCHANGED inbox
  BY <1>1 DEF OneHandshake, AfterHandshake, Sent, Numbers
<1>2. ASSUME NEW m \in Sendable, Receive(m)
      PROVE  OneHandshake'
  <2>1. TypeOK
    BY DEF IInv
  <2>2. /\ Numbers' = Numbers \cup {m.number} /\ m.number \notin Numbers
        /\ inbox'[m.number] = m
        /\ \A n \in Numbers : inbox'[n] = inbox[n] /\ n < m.number
    BY <1>2, <2>1, InboxAfterReceive
  <2>3. /\ Sent("initialize")' = IF m.method = "initialize"
             THEN Sent("initialize") \cup {m.number} ELSE Sent("initialize")
        /\ Sent("initialized")' = IF m.method = "initialized"
             THEN Sent("initialized") \cup {m.number} ELSE Sent("initialized")
        /\ Sent("initialize") \subseteq Numbers
        /\ Sent("initialized") \subseteq Numbers
    BY <1>2, <2>1, SentAfterReceive DEF Sent, Numbers
  <2>4. /\ m.method = "initialize" => IsRequest(m) /\ Sent("initialize") = {}
        /\ m.method = "initialized" => HandshakeOpen /\ ~Gated(m)
        /\ Gated(m) => ~HandshakeOpen
    BY <1>2, <2>1, HandshakeOfSendable
  <2>5. /\ \A n, k \in Sent("initialize")' : n = k
        /\ \A n, k \in Sent("initialized")' : n = k
        /\ \A n \in Sent("initialize")' : IsRequest(inbox'[n])
        /\ Sent("initialized")' # {} => Sent("initialize")' # {}
    BY <2>2, <2>3, <2>4 DEF OneHandshake, HandshakeOpen
  <2>6. ASSUME NEW j \in Sent("initialize")', NEW n \in Numbers',
               Gated(inbox'[n]), n > j
        PROVE  \E k \in Sent("initialized")' : k < n
    <3>1. CASE n \in Numbers /\ j \in Numbers
      <4>1. j \in Sent("initialize") /\ Gated(inbox[n])
        BY <2>2, <2>3, <2>6, <3>1 DEF Gated
      <4>2. AfterHandshake(n)
        BY <2>6, <3>1, <4>1 DEF OneHandshake
      <4>. QED BY <2>3, <4>2 DEF AfterHandshake
    <3>2. CASE n \in Numbers /\ j = m.number
      <4>1. n < j /\ n \in Nat /\ j \in Nat
        BY <2>1, <2>2, <1>2, <3>2, NumbersAreAnInterval, SendableIsMessage
      <4>. QED BY <2>6, <4>1
    <3>3. CASE n = m.number
      <4>1. ~HandshakeOpen /\ m.number \notin Sent("initialized")
        BY <2>2, <2>3, <2>4, <2>6, <3>3
      <4>2. m.method # "initialize"
        <5>1. SUFFICES ASSUME m.method = "initialize" PROVE FALSE
          OBVIOUS
        <5>2. j = m.number
          BY <2>3, <2>4, <5>1
        <5>3. m.number \in Nat
          BY <2>1, <1>2, NumbersAreAnInterval, SendableIsMessage
        <5>. QED BY <2>6, <3>3, <5>2, <5>3
      <4>3. Sent("initialize") # {}
        BY <2>3, <4>2
      <4>4. PICK k \in Sent("initialized") : TRUE
        BY <4>1, <4>3 DEF HandshakeOpen
      <4>. QED BY <2>2, <2>3, <3>3, <4>4
    <3>. QED BY <2>2, <2>3, <3>1, <3>2, <3>3
  <2>. QED BY <2>5, <2>6 DEF OneHandshake, AfterHandshake
<1>. QED BY <1>1, <1>2, WorkerMovesMessages, ReaderMovesMessages,
            StutterMovesNothing DEF Next

-----------------------------------------------------------------------------
(* Messages take effect in the order they were sent.                       *)

\* The messages whose handler has yet to finish.
Ahead == Range(messages) \cup Range(Waiting) \cup (IF Busy THEN {hand} ELSE {})

SentInv == IInv /\ InboxIsNumbered /\ CarriedAsSent /\ OneHandshake

\* Only the handler of initialize sets isInitialized.
InitializedIsDone == isInitialized => Sent("initialize") \cap done # {}

\* What is postponed came after the handshake, and it waits for configuration:
\* no gated message is looked at between its postponement and its replay.
PostponedWait ==
    /\ configPostponedMessages # <<>> => isInitialized
    /\ \A m \in Range(configPostponedMessages) \cup Range(replaying) :
          Gated(m) /\ AfterHandshake(m.number)
    /\ inReplay => /\ configPostponedMessages # <<>>
                   /\ \A m \in Hand : Gated(m) /\ AfterHandshake(m.number)
    /\ (~inReplay /\ configPostponedMessages # <<>>) =>
          /\ ~AllWorkspacesReceivedConfiguration
          /\ worker \notin {"lookup", "run", "clear"}

DoneInOrder ==
    \A p \in done, m \in Ahead : Gated(inbox[p]) /\ Gated(m) => p < m.number

WorkInv == SentInv /\ InitializedIsDone /\ PostponedWait /\ DoneInOrder

LEMMA OrderOfAhead ==
    ASSUME IInv
    PROVE  /\ \A m \in Ahead : m.number \in Numbers /\ ~Answered(m.number)
           /\ \A w \in Range(Waiting), m \in Range(messages) :
                w.number < m.number
           /\ Busy => \A m \in Range(messages) : hand.number < m.number
           /\ (Busy /\ inReplay) => \A m \in Range(Waiting) : hand.number < m.number
           /\ (Busy /\ ~inReplay) => \A m \in Range(Waiting) : m.number < hand.number
           /\ \A m \in Range(Waiting) : ~IsResponse(m)
           /\ Numbers \subseteq Nat
<1>1. Numbers \subseteq Nat
  BY NumbersAreAnInterval DEF IInv
<1>2. \A m \in Ahead : m.number \in Numbers /\ ~Answered(m.number)
  BY DEF Ahead, Range, IInv, QueuesInOrder, HandInOrder, Unanswered
<1>. QED BY <1>1, <1>2 DEF Range, IInv, QueuesInOrder, HandInOrder

LEMMA HandIsAsSent ==
    ASSUME SentInv, worker \notin {"waiting", "stopped"}
    PROVE  hand.number \in Numbers /\ hand = inbox[hand.number]
BY DEF SentInv, CarriedAsSent, Carried, Hand

\* A gated message is only handled when none that was sent before it waits.
LEMMA NothingWaits ==
    ASSUME PostponedWait, ~inReplay,
           \/ worker \in {"lookup", "run", "clear"}
           \/ Gated(hand) /\ ~MustWait
    PROVE  configPostponedMessages = <<>>
BY DEF PostponedWait, MustWait

\* The order is kept when nothing new is ahead of the worker ...
LEMMA OrderKept ==
    ASSUME DoneInOrder, UNCHANGED <<inbox, done>>, Ahead' \subseteq Ahead
    PROVE  DoneInOrder'
BY DEF DoneInOrder

\* ... and when the message in hand is done with and was the first of the gated.
LEMMA OrderExtended ==
    ASSUME WorkInv, Busy, UNCHANGED inbox, done' = done \cup {hand.number},
           Ahead' \subseteq Ahead,
           Gated(hand) => \A m \in Ahead' : hand.number < m.number
    PROVE  DoneInOrder'
<1>1. inbox[hand.number] = hand
  BY HandIsAsSent DEF WorkInv, Busy
<1>. QED BY <1>1 DEF DoneInOrder, WorkInv, Gated

LEMMA AheadAfterWork ==
    ASSUME WorkInv, Busy, UNCHANGED messages, Waiting' = Waiting, ~Busy',
           Gated(hand) => inReplay \/ configPostponedMessages = <<>>
    PROVE  /\ Ahead' \subseteq Ahead
           /\ Gated(hand) => \A m \in Ahead' : hand.number < m.number
<1>1. Ahead' = Range(messages) \cup Range(Waiting)
  BY DEF Ahead
<1>2. ASSUME Gated(hand) PROVE \A m \in Ahead' : hand.number < m.number
  <2>1. CASE inReplay
    BY <1>1, <2>1, OrderOfAhead DEF WorkInv, SentInv
  <2>2. CASE ~inReplay
    <3>1. Range(Waiting) = {}
      BY <1>2, <2>2, RangeOfEmpty DEF Waiting
    <3>. QED BY <1>1, <3>1, OrderOfAhead DEF WorkInv, SentInv
  <2>. QED BY <2>1, <2>2
<1>. QED BY <1>1, <1>2 DEF Ahead

LEMMA WorkReaderPreserves ==
    ASSUME WorkInv, Reader
    PROVE  InitializedIsDone' /\ PostponedWait' /\ DoneInOrder'
<1>1. /\ UNCHANGED <<serverVars, worker, hand, configPostponedMessages, inReplay,
                     replaying, done>>
      /\ UNCHANGED <<inbox, messages>> \/ \E m \in Sendable : Receive(m)
  BY DEF Reader, ReadRequest, ReadNotification, ReadResponse, ReadLate, Sendable,
         Receive, ReadMessage, RejectAfterShutdown, ReadCancel, ReadShutdown,
         JoinWorker, ReadExit, EndOfInput, configVars, queueVars, workerVars,
         historyVars
<1>2. /\ UNCHANGED <<isInitialized, workspaceFolders>>
      /\ AllWorkspacesReceivedConfiguration' = AllWorkspacesReceivedConfiguration
      /\ Waiting' = Waiting /\ Busy' = Busy /\ Hand' = Hand
  BY <1>1 DEF serverVars, AllWorkspacesReceivedConfiguration, Waiting, Busy, Hand
<1>3. CASE UNCHANGED <<inbox, messages>>
  BY <1>1, <1>2, <1>3
     DEF WorkInv, InitializedIsDone, PostponedWait, DoneInOrder, Ahead, Sent,
         Numbers, AfterHandshake
<1>4. ASSUME NEW m \in Sendable, Receive(m)
      PROVE  InitializedIsDone' /\ PostponedWait' /\ DoneInOrder'
  <2>1. TypeOK
    BY DEF WorkInv, SentInv, IInv
  <2>2. /\ Sent("initialize") \subseteq Sent("initialize")'
        /\ Sent("initialized") \subseteq Sent("initialized")'
    BY <1>4, <2>1, SentAfterReceive
  <2>3. InitializedIsDone' /\ PostponedWait'
    BY <1>1, <1>2, <2>2 DEF WorkInv, InitializedIsDone, PostponedWait, AfterHandshake
  <2>4. /\ \A n \in Numbers : inbox'[n] = inbox[n] /\ n < m.number
        /\ done \subseteq Numbers
    BY <1>4, <2>1, InboxAfterReceive DEF TypeOK
  <2>5. Ahead' \subseteq Ahead \cup {m}
    <3>1. m \in Messages /\ messages \in Seq(Messages)
      BY <2>1, SendableIsMessage DEF TypeOK
    <3>2. Range(Append(messages, m)) = Range(messages) \cup {m}
      BY <3>1, RangeOfAppend
    <3>. QED BY <1>1, <1>2, <1>4, <3>2
             DEF Receive, ReadMessage, RejectAfterShutdown, Ahead, queueVars
  <2>6. DoneInOrder'
    BY <1>1, <2>4, <2>5 DEF WorkInv, DoneInOrder
  <2>. QED BY <2>3, <2>6
<1>. QED BY <1>1, <1>3, <1>4

\* A step of the worker that leaves the folders and the history alone and moves
\* the messages on without dealing with one.
LEMMA WorkMovesOn ==
    ASSUME WorkInv, UNCHANGED <<isInitialized, workspaceFolders, inbox, done>>,
           Ahead' \subseteq Ahead
    PROVE  /\ InitializedIsDone' /\ DoneInOrder'
           /\ Sent("initialized")' = Sent("initialized")
           /\ AllWorkspacesReceivedConfiguration' = AllWorkspacesReceivedConfiguration
BY OrderKept DEF WorkInv, InitializedIsDone, Sent, Numbers,
                 AllWorkspacesReceivedConfiguration

LEMMA WorkPreservedByQueues ==
    ASSUME WorkInv, PopMessage \/ StopWorker \/ ReplayNext \/ ReplayEnd
    PROVE  InitializedIsDone' /\ PostponedWait' /\ DoneInOrder'
<1>1. /\ messages \in Seq(Messages) /\ replaying \in Seq(Messages)
  BY DEF WorkInv, SentInv, IInv, TypeOK
<1>2. UNCHANGED <<isInitialized, workspaceFolders, inbox, done>>
  BY DEF PopMessage, StopWorker, ReplayNext, ReplayEnd, configVars, serverVars,
         historyVars
<1>3. CASE PopMessage
  <2>1. Range(messages) = {hand'} \cup Range(messages')
    BY <1>1, <1>3, RangeOfTail DEF PopMessage
  <2>2. Ahead' \subseteq Ahead
    BY <1>3, <2>1 DEF PopMessage, Ahead, Waiting, Busy
  <2>3. PostponedWait'
    BY <1>2, <1>3, <2>2, WorkMovesOn
       DEF PopMessage, WorkInv, PostponedWait, AfterHandshake
  <2>. QED BY <1>2, <2>2, <2>3, WorkMovesOn
<1>4. CASE StopWorker
  <2>1. Ahead' \subseteq Ahead
    BY <1>4 DEF StopWorker, Ahead, Waiting, Busy, queueVars
  <2>2. PostponedWait'
    BY <1>2, <1>4, <2>1, WorkMovesOn
       DEF StopWorker, WorkInv, PostponedWait, AfterHandshake
  <2>. QED BY <1>2, <2>1, <2>2, WorkMovesOn
<1>5. CASE ReplayNext
  <2>1. Range(replaying) = {hand'} \cup Range(replaying')
    BY <1>1, <1>5, RangeOfTail DEF ReplayNext
  <2>2. Ahead' \subseteq Ahead
    BY <1>5, <2>1 DEF ReplayNext, Ahead, Waiting, Busy, queueVars
  <2>3. PostponedWait'
    BY <1>2, <1>5, <2>1, <2>2, WorkMovesOn
       DEF ReplayNext, WorkInv, PostponedWait, AfterHandshake, Hand
  <2>. QED BY <1>2, <2>2, <2>3, WorkMovesOn
<1>6. CASE ReplayEnd
  <2>1. Ahead' \subseteq Ahead
    BY <1>6, RangeOfEmpty DEF ReplayEnd, Ahead, Waiting, Busy, queueVars
  <2>2. PostponedWait'
    BY <1>2, <1>6, <2>1, WorkMovesOn, RangeOfEmpty
       DEF ReplayEnd, WorkInv, PostponedWait, AfterHandshake
  <2>. QED BY <1>2, <2>1, <2>2, WorkMovesOn
<1>. QED BY <1>3, <1>4, <1>5, <1>6

LEMMA WorkPreservedByPostpone ==
    ASSUME WorkInv, Postpone
    PROVE  InitializedIsDone' /\ PostponedWait' /\ DoneInOrder'
<1>1. /\ UNCHANGED <<isInitialized, workspaceFolders, inbox, done, messages,
                     inReplay, replaying>>
      /\ worker = "handling" /\ worker' = "waiting" /\ MustWait
      /\ configPostponedMessages' = Append(configPostponedMessages, hand)
  BY DEF Postpone, Finish, serverVars, queueVars, historyVars
<1>2. /\ configPostponedMessages \in Seq(Messages) /\ hand \in Messages
      /\ Hand' = {}
  BY <1>1 DEF WorkInv, SentInv, IInv, TypeOK, Hand
<1>3. /\ Range(configPostponedMessages') = Range(configPostponedMessages) \cup {hand}
      /\ configPostponedMessages' # <<>>
  BY <1>1, <1>2, RangeOfAppend
<1>4. Ahead' \subseteq Ahead
  BY <1>1, <1>3 DEF Ahead, Waiting, Busy
<1>5. Gated(hand) /\ AfterHandshake(hand.number)
  <2>1. Gated(hand) /\ hand \in Ahead
    BY <1>1 DEF MustWait, Ahead, Busy
  <2>2. PICK j \in Sent("initialize") \cap done : TRUE
    BY <1>1 DEF MustWait, WorkInv, InitializedIsDone
  <2>3. Gated(inbox[j])
    BY <2>2 DEF WorkInv, SentInv, OneHandshake, Gated
  <2>4. j < hand.number
    BY <2>1, <2>2, <2>3 DEF WorkInv, DoneInOrder
  <2>5. /\ hand.number \in Numbers /\ hand = inbox[hand.number]
        /\ Numbers \subseteq Nat /\ j \in Numbers
    BY <1>1, <2>2, HandIsAsSent, OrderOfAhead DEF WorkInv, SentInv, Sent, Numbers
  <2>6. hand.number > j
    BY <2>4, <2>5
  <2>. QED BY <2>1, <2>2, <2>5, <2>6 DEF WorkInv, SentInv, OneHandshake
<1>6. PostponedWait'
  BY <1>1, <1>2, <1>3, <1>4, <1>5, WorkMovesOn
     DEF WorkInv, PostponedWait, AfterHandshake, MustWait
<1>. QED BY <1>1, <1>4, <1>6, WorkMovesOn

LEMMA WorkPreservedByAnswers ==
    ASSUME WorkInv, RefuseRequest \/ AcceptRequest \/ LookupToken \/ RunRequest
    PROVE  InitializedIsDone' /\ PostponedWait' /\ DoneInOrder'
<1>1. /\ UNCHANGED <<messages, hand, configPostponedMessages, inReplay, replaying,
                     inbox>>
      /\ worker' \in {"lookup", "run", "clear"}
      /\ worker \in {"handling", "lookup", "run"}
  BY DEF RefuseRequest, AcceptRequest, LookupToken, RunRequest, queueVars,
         historyVars
<1>2. \/ UNCHANGED done /\ worker' \in {"lookup", "run"}
      \/ done' = done \cup {hand.number} /\ worker' = "clear"
  BY DEF RefuseRequest, AcceptRequest, LookupToken, RunRequest, Reply,
         historyVars
<1>3. \/ UNCHANGED isInitialized
      \/ /\ hand.method = "initialize" /\ isInitialized' = TRUE
         /\ done' = done \cup {hand.number}
  <2>1. CASE RefuseRequest \/ AcceptRequest \/ LookupToken
    BY <2>1 DEF RefuseRequest, AcceptRequest, LookupToken, configVars, serverVars
  <2>2. CASE RunRequest
    BY <2>2 DEF RunRequest, Reply, OnInitialize, TouchDocument, configVars,
                serverVars
  <2>. QED BY <2>1, <2>2
<1>4. ~inReplay => configPostponedMessages = <<>>
  <2>1. CASE RefuseRequest \/ AcceptRequest
    BY <2>1, NothingWaits DEF RefuseRequest, AcceptRequest, WorkInv, Gated
  <2>2. CASE LookupToken \/ RunRequest
    BY <2>2, NothingWaits DEF LookupToken, RunRequest, WorkInv
  <2>. QED BY <2>1, <2>2
<1>5. /\ Waiting' = Waiting /\ Busy /\ Hand' = Hand
      /\ Sent("initialize")' = Sent("initialize")
      /\ Sent("initialized")' = Sent("initialized")
      /\ hand.number \in Numbers /\ hand = inbox[hand.number]
  BY <1>1, HandIsAsSent
     DEF Waiting, Busy, Hand, Sent, Numbers, WorkInv
<1>6. InitializedIsDone'
  <2>1. hand.method = "initialize" => hand.number \in Sent("initialize")
    BY <1>5 DEF Sent, Numbers
  <2>. QED BY <1>2, <1>3, <1>5, <2>1 DEF WorkInv, InitializedIsDone
<1>7. DoneInOrder'
  <2>1. CASE UNCHANGED done /\ worker' \in {"lookup", "run"}
    BY <1>1, <1>5, <2>1, OrderKept DEF WorkInv, Ahead, Busy
  <2>2. CASE done' = done \cup {hand.number} /\ worker' = "clear"
    BY <1>1, <1>4, <1>5, <2>2, AheadAfterWork, OrderExtended DEF Busy
  <2>. QED BY <1>2, <2>1, <2>2
<1>8. isInitialized \/ configPostponedMessages = <<>>
  BY DEF WorkInv, PostponedWait
<1>9. isInitialized => isInitialized'
  BY <1>3
<1>10. PostponedWait'
  BY <1>1, <1>4, <1>5, <1>8, <1>9 DEF WorkInv, PostponedWait, AfterHandshake
<1>. QED BY <1>6, <1>7, <1>10

LEMMA WorkPreservedByClear ==
    ASSUME WorkInv, ClearCancellationToken
    PROVE  InitializedIsDone' /\ PostponedWait' /\ DoneInOrder'
<1>1. /\ UNCHANGED <<isInitialized, workspaceFolders, inbox, done, messages,
                     inReplay, replaying, configPostponedMessages>>
      /\ worker = "clear" /\ worker' = "waiting"
  BY DEF ClearCancellationToken, Finish, configVars, serverVars, historyVars
<1>2. Ahead' \subseteq Ahead /\ Hand' = {}
  BY <1>1 DEF Ahead, Waiting, Busy, Hand
<1>3. PostponedWait'
  BY <1>1, <1>2, WorkMovesOn DEF WorkInv, PostponedWait, AfterHandshake
<1>. QED BY <1>1, <1>2, <1>3, WorkMovesOn

LEMMA WorkPreservedByNotification ==
    ASSUME WorkInv, HandleNotification
    PROVE  InitializedIsDone' /\ PostponedWait' /\ DoneInOrder'
<1>1. /\ UNCHANGED <<messages, configPostponedMessages, inReplay, replaying, inbox>>
      /\ worker = "handling" /\ worker' = "waiting" /\ Busy /\ ~MustWait
      /\ IsNotification(hand) /\ done' = done \cup {hand.number}
  BY DEF HandleNotification, Finish, queueVars, Busy
<1>2. /\ Waiting' = Waiting /\ Hand' = {}
      /\ Sent("initialize")' = Sent("initialize")
      /\ Sent("initialized")' = Sent("initialized")
      /\ hand.number \in Numbers /\ hand = inbox[hand.number]
  BY <1>1, HandIsAsSent DEF Waiting, Hand, Sent, Numbers, WorkInv
<1>3. UNCHANGED isInitialized
  BY DEF HandleNotification, Dispatch, OnInitialized, TouchDocument,
         OnDidChangeConfiguration, OnDidChangeWorkspaceFolders, configVars,
         serverVars
<1>4. Gated(hand) => inReplay \/ configPostponedMessages = <<>>
  BY <1>1, NothingWaits DEF WorkInv
<1>5. DoneInOrder'
  BY <1>1, <1>2, <1>4, AheadAfterWork, OrderExtended DEF Busy
<1>6. ASSUME ~inReplay, configPostponedMessages # <<>>
      PROVE  AllWorkspacesReceivedConfiguration' = AllWorkspacesReceivedConfiguration
  <2>1. ~Gated(hand)
    BY <1>4, <1>6
  <2>2. hand.method # "initialized"
    <3>1. SUFFICES ASSUME hand.method = "initialized" PROVE FALSE
      OBVIOUS
    <3>2. hand.number \in Sent("initialized")
      BY <1>2, <3>1 DEF Sent, Numbers
    <3>3. PICK m \in Range(configPostponedMessages) : TRUE
      <4>1. configPostponedMessages \in Seq(Messages)
        BY DEF WorkInv, SentInv, IInv, TypeOK
      <4>. QED BY <1>6, <4>1, RangeOfTail
    <3>4. PICK k \in Sent("initialized") : k < m.number
      BY <3>3 DEF WorkInv, PostponedWait, AfterHandshake
    <3>5. k = hand.number
      BY <3>2, <3>4 DEF WorkInv, SentInv, OneHandshake
    <3>6. m.number < hand.number /\ m.number \in Nat /\ hand.number \in Nat
      BY <1>1, <1>2, <1>6, <3>3, OrderOfAhead
         DEF WorkInv, SentInv, Waiting, Ahead
    <3>. QED BY <3>4, <3>5, <3>6
  <2>3. UNCHANGED configVars
    BY <1>1, <2>1, <2>2
       DEF HandleNotification, Dispatch, Gated, NotificationRequiresWorkspace
  <2>. QED BY <2>3 DEF configVars, serverVars, AllWorkspacesReceivedConfiguration
<1>7. PostponedWait'
  BY <1>1, <1>2, <1>3, <1>6 DEF WorkInv, PostponedWait, AfterHandshake
<1>8. InitializedIsDone'
  BY <1>1, <1>2, <1>3 DEF WorkInv, InitializedIsDone
<1>. QED BY <1>5, <1>7, <1>8

LEMMA WorkPreservedByResponse ==
    ASSUME WorkInv, HandleClientResponse
    PROVE  InitializedIsDone' /\ PostponedWait' /\ DoneInOrder'
<1>1. /\ UNCHANGED <<messages, configPostponedMessages, inbox, isInitialized>>
      /\ worker = "handling" /\ worker' = "waiting" /\ Busy
      /\ IsResponse(hand) /\ done' = done \cup {hand.number}
      /\ IF configPostponedMessages # <<>> /\ AllWorkspacesReceivedConfiguration'
         THEN inReplay' = TRUE /\ replaying' = configPostponedMessages
         ELSE UNCHANGED <<inReplay, replaying>>
  BY DEF HandleClientResponse, HandleResponse, Finish, queueVars, Busy
<1>2. ~inReplay /\ ~Gated(hand)
  BY <1>1 DEF WorkInv, SentInv, IInv, HandInOrder, Gated, IsRequest, IsResponse,
              IsNotification, NotificationRequiresWorkspace
<1>3. /\ Waiting' = Waiting /\ Hand' = {}
      /\ Sent("initialize")' = Sent("initialize")
      /\ Sent("initialized")' = Sent("initialized")
  BY <1>1, <1>2 DEF Waiting, Hand, Sent, Numbers
<1>4. DoneInOrder'
  BY <1>1, <1>2, <1>3, AheadAfterWork, OrderExtended DEF Busy
<1>5. PostponedWait'
  BY <1>1, <1>2, <1>3 DEF WorkInv, PostponedWait, AfterHandshake
<1>6. InitializedIsDone'
  BY <1>1, <1>3 DEF WorkInv, InitializedIsDone
<1>. QED BY <1>4, <1>5, <1>6

LEMMA WorkPreservedByStutter ==
    ASSUME WorkInv, UNCHANGED vars
    PROVE  InitializedIsDone' /\ PostponedWait' /\ DoneInOrder'
<1>1. /\ UNCHANGED <<isInitialized, workspaceFolders, inbox, done, messages, hand,
                     worker, inReplay, replaying, configPostponedMessages>>
  BY DEF vars, configVars, serverVars, queueVars, workerVars, historyVars
<1>2. Ahead' = Ahead /\ Hand' = Hand
  BY <1>1 DEF Ahead, Waiting, Busy, Hand
<1>3. PostponedWait'
  BY <1>1, <1>2, WorkMovesOn DEF WorkInv, PostponedWait, AfterHandshake
<1>. QED BY <1>1, <1>2, <1>3, WorkMovesOn

LEMMA WorkInvariance == Spec => []WorkInv
<1>1. Init => WorkInv
  <2>1. ASSUME Init PROVE WorkInv
    <3>1. /\ Numbers = {} /\ Carried = {} /\ Ahead = {}
          /\ Range(configPostponedMessages) = {} /\ Range(replaying) = {}
      BY <2>1, RangeOfEmpty
         DEF Init, Numbers, Carried, Hand, Ahead, Waiting, Busy
    <3>2. \A method : Sent(method) = {}
      BY <3>1 DEF Sent, Numbers
    <3>3. SentInv
      BY <2>1, <3>1, <3>2, InitEstablishes
         DEF SentInv, InboxIsNumbered, CarriedAsSent, OneHandshake
    <3>. QED BY <2>1, <3>1, <3>3
             DEF Init, WorkInv, InitializedIsDone, PostponedWait, DoneInOrder
  <2>. QED BY <2>1
<1>2. WorkInv /\ [Next]_vars => WorkInv'
  <2>1. ASSUME WorkInv, [Next]_vars PROVE WorkInv'
    <3>1. SentInv'
      BY <2>1, AsSentPreserved, HandshakePreserved, ReaderPreserves,
         WorkerPreserves, StutterPreserves DEF WorkInv, SentInv, Next
    <3>2. InitializedIsDone' /\ PostponedWait' /\ DoneInOrder'
      BY <2>1, WorkReaderPreserves, WorkPreservedByQueues,
         WorkPreservedByPostpone, WorkPreservedByAnswers, WorkPreservedByClear,
         WorkPreservedByNotification, WorkPreservedByResponse,
         WorkPreservedByStutter DEF Next, Worker
    <3>. QED BY <3>1, <3>2 DEF WorkInv
  <2>. QED BY <2>1
<1>. QED BY <1>1, <1>2, PTL DEF Spec

\* Only the message in hand is ever counted as handled.
LEMMA DoneGrowsByHand ==
    ASSUME [Next]_vars
    PROVE  UNCHANGED done \/ (Busy /\ done' = done \cup {hand.number})
<1>1. CASE Reader \/ UNCHANGED vars
  BY <1>1 DEF Reader, ReadRequest, ReadNotification, ReadResponse, ReadLate,
              ReadMessage, RejectAfterShutdown, ReadCancel, ReadShutdown,
              JoinWorker, ReadExit, EndOfInput, historyVars, vars
<1>2. CASE PopMessage \/ StopWorker \/ ReplayNext \/ ReplayEnd \/ Postpone
             \/ AcceptRequest \/ ClearCancellationToken
  BY <1>2 DEF PopMessage, StopWorker, ReplayNext, ReplayEnd, Postpone,
              AcceptRequest, ClearCancellationToken, historyVars
<1>3. CASE RefuseRequest \/ LookupToken \/ RunRequest
  BY <1>3 DEF RefuseRequest, LookupToken, RunRequest, Reply, Busy
<1>4. CASE HandleNotification \/ HandleClientResponse
  BY <1>4 DEF HandleNotification, HandleClientResponse, Busy
<1>. QED BY <1>1, <1>2, <1>3, <1>4 DEF Next, Worker

LEMMA HandledInOrderHolds == Spec => HandledInOrder
<1> DEFINE InOrder == \A n \in done' \ done, p \in done :
                        Gated(inbox[n]) /\ Gated(inbox[p]) => p < n
<1>1. WorkInv /\ [Next]_vars => InOrder
  <2>1. SUFFICES ASSUME WorkInv, [Next]_vars, NEW n \in done' \ done,
                        NEW p \in done, Gated(inbox[n]), Gated(inbox[p])
                 PROVE  p < n
    OBVIOUS
  <2>2. Busy /\ n = hand.number
    BY <2>1, DoneGrowsByHand
  <2>3. hand = inbox[n] /\ hand \in Ahead
    BY <2>1, <2>2, HandIsAsSent DEF WorkInv, Busy, Ahead
  <2>. QED BY <2>1, <2>2, <2>3 DEF WorkInv, DoneInOrder
<1>. HIDE DEF InOrder
<1>2. WorkInv /\ [Next]_vars => [InOrder]_vars
  BY <1>1
<1>3. Spec => [][InOrder]_vars
  BY WorkInvariance, <1>2, PTL DEF Spec
<1>. QED BY <1>3 DEF InOrder, HandledInOrder

\* The shutdown request is answered when the worker has been joined, and a
\* worker that stopped does not start again.
StoppedWhenAnswered == shutdownReplies > 0 => worker = "stopped"

LEMMA StoppedIsIdle ==
    ASSUME worker = "stopped", [Next]_vars
    PROVE  UNCHANGED <<worker, done, serverVars>>
BY DEF Next, Reader, ReadRequest, ReadNotification, ReadResponse, ReadLate,
       ReadMessage, RejectAfterShutdown, ReadCancel, ReadShutdown, JoinWorker,
       ReadExit, EndOfInput, Worker, PopMessage, StopWorker, ReplayNext,
       ReplayEnd, Postpone, RefuseRequest, AcceptRequest, LookupToken,
       RunRequest, ClearCancellationToken, HandleNotification,
       HandleClientResponse, configVars, workerVars, historyVars, vars

LEMMA OnlyJoinAnswersShutdown ==
    ASSUME [Next]_vars
    PROVE  UNCHANGED shutdownReplies \/ JoinWorker
BY DEF Next, Reader, ReadRequest, ReadNotification, ReadResponse, ReadLate,
       ReadMessage, RejectAfterShutdown, ReadCancel, ReadShutdown,
       ReadExit, EndOfInput, Worker, PopMessage, StopWorker, ReplayNext,
       ReplayEnd, Postpone, RefuseRequest, AcceptRequest, LookupToken,
       RunRequest, ClearCancellationToken, HandleNotification,
       HandleClientResponse, historyVars, vars

LEMMA StoppedInvariance == Spec => []StoppedWhenAnswered
<1>1. Init => StoppedWhenAnswered
  BY DEF Init, StoppedWhenAnswered
<1>2. StoppedWhenAnswered /\ [Next]_vars => StoppedWhenAnswered'
  BY StoppedIsIdle, OnlyJoinAnswersShutdown
     DEF StoppedWhenAnswered, JoinWorker, workerVars
<1>. QED BY <1>1, <1>2, PTL DEF Spec

LEMMA ShutdownReplyIsLastHolds == Spec => ShutdownReplyIsLast
<1> DEFINE Idle == shutdownReplies > 0 => UNCHANGED <<done, serverVars>>
<1>1. StoppedWhenAnswered /\ [Next]_vars => [Idle]_vars
  BY StoppedIsIdle DEF StoppedWhenAnswered
<1>. HIDE DEF Idle
<1>2. Spec => [][Idle]_vars
  BY StoppedInvariance, <1>1, PTL DEF Spec
<1>. QED BY <1>2 DEF Idle, ShutdownReplyIsLast

\* Requests and the notifications that need a workspace take effect in the order
\* the client sent them, also around a postponement and its replay, so that a
\* request sees the document versions it was sent for; and once the shutdown
\* request is answered nothing takes effect any more.
THEOREM MessagesTakeEffectInOrder == Spec => WorkFollowsTheMessages
BY HandledInOrderHolds, ShutdownReplyIsLastHolds DEF WorkFollowsTheMessages

-----------------------------------------------------------------------------
(* Answers, and the tokens of the requests that have none yet.             *)

LEMMA AnsweredAfterReceive ==
    ASSUME TypeOK, NEW m \in Sendable, Receive(m)
    PROVE  /\ \A n \in Numbers : replies'[n] = replies[n]
           /\ Answered(m.number)' <=> RejectAfterShutdown(m)
           /\ ReadMessage(m) \/ RejectAfterShutdown(m)
           /\ ~(ReadMessage(m) /\ RejectAfterShutdown(m))
<1>1. /\ DOMAIN replies = Numbers /\ Numbers = 1..Len(inbox)
      /\ Len(replies) = Len(inbox) /\ Len(inbox) \in Nat
      /\ m.number = Len(inbox) + 1 /\ replies \in Seq(Seq(Replies))
  BY NumbersAreAnInterval, SendableIsMessage DEF TypeOK
<1>2. ASSUME NEW answer \in Seq(Replies), replies' = Append(replies, answer)
      PROVE  /\ \A n \in Numbers : replies'[n] = replies[n]
             /\ replies'[m.number] = answer
  BY <1>1, <1>2
<1>3. <<>> \in Seq(Replies) /\ <<"InvalidRequest">> \in Seq(Replies)
  BY DEF Replies
<1>4. <<"InvalidRequest">> # <<>>
  OBVIOUS
<1>5. ReadMessage(m) => replies' = Append(replies, <<>>) /\ ~shutdownRequested
  BY DEF ReadMessage
<1>6. RejectAfterShutdown(m) =>
        replies' = Append(replies, <<"InvalidRequest">>) /\ shutdownRequested
  BY DEF RejectAfterShutdown
<1>. QED BY <1>2, <1>3, <1>4, <1>5, <1>6 DEF Answered, Receive

\* What the worker answers is the request in hand.
Replying(outcome) ==
    /\ Busy /\ IsRequest(hand) /\ Reply(outcome)
    /\ worker' = "clear"
    /\ UNCHANGED <<hand, inbox, messages, configPostponedMessages, inReplay,
                   replaying, cancellationTokens, cancelled, cancelledEarly,
                   behind>>

LEMMA AnsweredAfterReply ==
    ASSUME IInv, NEW outcome \in Replies, Replying(outcome)
    PROVE  /\ \A n \in Numbers : n # hand.number => replies'[n] = replies[n]
           /\ hand.number \in Numbers
           /\ replies[hand.number] = <<>>
           /\ replies'[hand.number] = <<outcome>>
           /\ Answered(hand.number)'
<1>1. /\ \A n \in Numbers : n # hand.number => replies'[n] = replies[n]
      /\ hand.number \in Numbers
  BY ReplyOnce DEF Replying
<1>2. replies[hand.number] = <<>> /\ DOMAIN replies = Numbers
  BY NumbersAreAnInterval
     DEF Replying, IInv, HandInOrder, Unanswered, Answered
<1>3. Append(<<>>, outcome) = <<outcome>> /\ <<outcome>> # <<>>
  OBVIOUS
<1>4. replies'[hand.number] = <<outcome>>
  BY <1>1, <1>2, <1>3 DEF Replying, Reply
<1>5. Answered(hand.number)'
  BY <1>3, <1>4 DEF Answered, Replying
<1>. QED BY <1>1, <1>2, <1>4, <1>5

LEMMA RefuseReplies ==
    ASSUME RefuseRequest
    PROVE  \E outcome \in {"InvalidRequest", "ServerNotInitialized"} :
             Replying(outcome)
BY DEF RefuseRequest, Replying, Busy, queueVars

LEMMA LookupReplies ==
    ASSUME IInv, LookupToken
    PROVE  \/ token' \in cancelled /\ Replying("RequestCancelled")
           \/ token' \notin cancelled /\ worker' = "run" /\ UNCHANGED <<replies, done>>
BY DEF LookupToken, Replying, Busy, queueVars, IInv, TypeOK

LEMMA RunReplies ==
    ASSUME IInv, RunRequest
    PROVE  \E outcome \in {"result", "error", "RequestCancelled"} :
             /\ Replying(outcome)
             /\ outcome = "RequestCancelled" => token \in cancelled
BY DEF RunRequest, Outcomes, Replying, Busy, queueVars, IInv, TypeOK

\* Every step receives a message, or answers the request in hand, or changes
\* no answer.
LEMMA StepOfAnswers ==
    ASSUME IInv, [Next]_vars
    PROVE  \/ \E m \in Sendable : Receive(m)
           \/ \E outcome \in Replies : Replying(outcome)
           \/ UNCHANGED <<inbox, replies>>
<1>1. CASE Reader
  BY <1>1 DEF Reader, ReadRequest, ReadNotification, ReadResponse, ReadLate,
              Sendable, Receive, ReadCancel, ReadShutdown, JoinWorker, ReadExit,
              EndOfInput, historyVars
<1>2. CASE RefuseRequest \/ LookupToken \/ RunRequest
  <2>1. (\E outcome \in Replies : Replying(outcome)) \/ UNCHANGED <<replies, done>>
    BY <1>2, RefuseReplies, LookupReplies, RunReplies DEF Replies
  <2>2. UNCHANGED inbox
    BY <1>2 DEF RefuseRequest, LookupToken, RunRequest
  <2>. QED BY <2>1, <2>2
<1>3. CASE PopMessage \/ StopWorker \/ ReplayNext \/ ReplayEnd \/ Postpone
             \/ AcceptRequest \/ ClearCancellationToken \/ HandleNotification
             \/ HandleClientResponse \/ UNCHANGED vars
  BY <1>3 DEF PopMessage, StopWorker, ReplayNext, ReplayEnd, Postpone,
              AcceptRequest, ClearCancellationToken, HandleNotification,
              HandleClientResponse, historyVars, vars
<1>. QED BY <1>1, <1>2, <1>3 DEF Next, Worker

\* Once a message is answered, it stays answered.
LEMMA AnsweredIsStable ==
    ASSUME IInv, [Next]_vars, NEW n \in Numbers
    PROVE  n \in Numbers' /\ (Answered(n) => Answered(n)')
<1>1. ASSUME NEW m \in Sendable, Receive(m)
      PROVE  n \in Numbers' /\ (Answered(n) => Answered(n)')
  BY <1>1, AnsweredAfterReceive, InboxAfterReceive DEF IInv, Answered
<1>2. ASSUME NEW outcome \in Replies, Replying(outcome)
      PROVE  n \in Numbers' /\ (Answered(n) => Answered(n)')
  BY <1>2, AnsweredAfterReply DEF Answered, Replying, Numbers
<1>3. CASE UNCHANGED <<inbox, replies>>
  BY <1>3 DEF Answered, Numbers
<1>. QED BY <1>1, <1>2, <1>3, StepOfAnswers

TokensOfIds ==
    \A id \in DOMAIN cancellationTokens :
        LET m == inbox[cancellationTokens[id]] IN IsRequest(m) /\ m.id = id

ClearsAnswered == worker = "clear" => Answered(hand.number)

TokenInv == TokensOfIds /\ TokensAreOfOpenRequests /\ ClearsAnswered

\* A worker that clears a token does nothing else until it has done so.
LEMMA StepOfClearing ==
    ASSUME [Next]_vars, worker = "clear"
    PROVE  ClearCancellationToken \/ UNCHANGED <<worker, hand>>
BY DEF Next, Reader, ReadRequest, ReadNotification, ReadResponse, ReadLate,
       ReadMessage, RejectAfterShutdown, ReadCancel, ReadShutdown, JoinWorker,
       ReadExit, EndOfInput, Worker, PopMessage, StopWorker, ReplayNext,
       ReplayEnd, Postpone, RefuseRequest, AcceptRequest, LookupToken,
       RunRequest, HandleNotification, HandleClientResponse, workerVars, vars

LEMMA OnlyAnswersClear ==
    ASSUME IInv, [Next]_vars, worker # "clear", worker' = "clear"
    PROVE  \E outcome \in Replies : Replying(outcome)
<1>1. RefuseRequest \/ LookupToken \/ RunRequest
  BY DEF Next, Reader, ReadRequest, ReadNotification, ReadResponse, ReadLate,
         ReadMessage, RejectAfterShutdown, ReadCancel, ReadShutdown, JoinWorker,
         ReadExit, EndOfInput, Worker, PopMessage, StopWorker, ReplayNext,
         ReplayEnd, Postpone, AcceptRequest, HandleNotification,
         HandleClientResponse, ClearCancellationToken, Finish, workerVars, vars
<1>. QED BY <1>1, RefuseReplies, LookupReplies, RunReplies DEF Replies

\* Tokens are registered by the main thread and dropped by the worker.
LEMMA StepOfTokens ==
    ASSUME [Next]_vars
    PROVE  \/ UNCHANGED cancellationTokens
           \/ \E m \in Sendable : ReadMessage(m)
           \/ ClearCancellationToken
BY DEF Next, Reader, ReadRequest, ReadNotification, ReadResponse, ReadLate,
       RejectAfterShutdown, ReadCancel, ReadShutdown, JoinWorker, Sendable,
       ReadExit, EndOfInput, Worker, PopMessage, StopWorker, ReplayNext,
       ReplayEnd, Postpone, RefuseRequest, AcceptRequest, LookupToken,
       RunRequest, HandleNotification, HandleClientResponse, queueVars, vars

LEMMA TokenInvPreserved ==
    ASSUME SentInv, TokenInv, [Next]_vars
    PROVE  TokenInv'
<1>1. /\ TypeOK /\ IInv
      /\ \A id \in DOMAIN cancellationTokens : cancellationTokens[id] \in Numbers
  BY DEF SentInv, IInv, TypeOK
<1>2. /\ Numbers \subseteq Numbers' /\ \A n \in Numbers : inbox'[n] = inbox[n]
  <2>1. CASE UNCHANGED inbox
    BY <2>1 DEF Numbers
  <2>2. CASE \E m \in Sendable : Receive(m)
    BY <1>1, <2>2, InboxAfterReceive
  <2>. QED BY <1>1, <2>1, <2>2, StepOfAnswers DEF Replying
<1>3. ClearsAnswered'
  <2>1. CASE worker = "clear"
    <3>1. hand.number \in Numbers /\ Answered(hand.number)
      BY <2>1, HandIsAsSent DEF TokenInv, ClearsAnswered
    <3>2. Answered(hand.number)'  \/ hand' # hand
      BY <1>1, <3>1, AnsweredIsStable DEF Answered
    <3>. QED BY <2>1, <3>2, StepOfClearing
             DEF ClearsAnswered, ClearCancellationToken, Finish
  <2>2. CASE worker # "clear"
    BY <1>1, <2>2, OnlyAnswersClear, AnsweredAfterReply DEF ClearsAnswered
  <2>. QED BY <2>1, <2>2
<1>4. CASE UNCHANGED cancellationTokens /\ ~ClearCancellationToken
  <2>1. TokensOfIds'
    BY <1>1, <1>2, <1>4 DEF TokenInv, TokensOfIds, IsRequest
  <2>2. ASSUME NEW n \in Numbers, ~Answered(n) \/ (worker = "clear" /\ hand.number = n)
        PROVE  ~Answered(n)' \/ (worker' = "clear" /\ hand'.number = n)
    <3>1. CASE worker = "clear" /\ hand.number = n
      BY <1>4, <3>1, StepOfClearing
    <3>2. CASE ~Answered(n)
      <4>1. ASSUME NEW m \in Sendable, Receive(m) PROVE ~Answered(n)'
        BY <1>1, <3>2, <4>1, AnsweredAfterReceive DEF Answered
      <4>2. ASSUME NEW outcome \in Replies, Replying(outcome)
            PROVE  ~Answered(n)' \/ (worker' = "clear" /\ hand'.number = n)
        BY <1>1, <3>2, <4>2, AnsweredAfterReply DEF Answered, Replying
      <4>3. CASE UNCHANGED <<inbox, replies>>
        BY <3>2, <4>3 DEF Answered
      <4>. QED BY <1>1, <4>1, <4>2, <4>3, StepOfAnswers
    <3>. QED BY <2>2, <3>1, <3>2
  <2>3. TokensAreOfOpenRequests'
    BY <1>1, <1>4, <2>2 DEF TokenInv, TokensAreOfOpenRequests, Answered
  <2>. QED BY <1>3, <2>1, <2>3 DEF TokenInv
<1>5. ASSUME NEW m \in Sendable, ReadMessage(m)
      PROVE  TokenInv'
  <2>1. Receive(m) /\ UNCHANGED <<worker, hand>>
    BY <1>5 DEF Receive, ReadMessage, workerVars
  <2>2. /\ inbox'[m.number] = m /\ ~Answered(m.number)'
        /\ \A n \in Numbers : replies'[n] = replies[n]
    BY <1>1, <1>5, <2>1, InboxAfterReceive, AnsweredAfterReceive
  <2>3. ASSUME NEW id \in DOMAIN cancellationTokens'
        PROVE  \/ /\ id \in DOMAIN cancellationTokens
                  /\ cancellationTokens'[id] = cancellationTokens[id]
               \/ /\ cancellationTokens'[id] = m.number
                  /\ IsRequest(m) /\ m.id = id
    BY <1>5 DEF ReadMessage, Put
  <2>4. TokensOfIds'
    BY <1>1, <1>2, <2>2, <2>3 DEF TokenInv, TokensOfIds, IsRequest
  <2>5. TokensAreOfOpenRequests'
    BY <1>1, <2>1, <2>2, <2>3 DEF TokenInv, TokensAreOfOpenRequests, Answered
  <2>. QED BY <1>3, <2>4, <2>5 DEF TokenInv
<1>6. CASE ClearCancellationToken
  <2>1. /\ UNCHANGED <<inbox, replies>> /\ worker = "clear"
        /\ DOMAIN cancellationTokens' = DOMAIN cancellationTokens \ {hand.id}
        /\ \A id \in DOMAIN cancellationTokens' :
             cancellationTokens'[id] = cancellationTokens[id]
    BY <1>6 DEF ClearCancellationToken, Restrict, historyVars
  <2>2. hand.number \in Numbers /\ hand = inbox[hand.number]
    BY <2>1, HandIsAsSent
  <2>3. TokensOfIds'
    BY <2>1 DEF TokenInv, TokensOfIds, IsRequest
  <2>4. TokensAreOfOpenRequests'
    BY <2>1, <2>2 DEF TokenInv, TokensAreOfOpenRequests, TokensOfIds, Answered
  <2>. QED BY <1>3, <2>3, <2>4 DEF TokenInv
<1>. QED BY <1>4, <1>5, <1>6, StepOfTokens

-----------------------------------------------------------------------------
(* Cancellation in time, for a client that does not use an id again.  A    *)
(* client that does may send a second request under the id of the first    *)
(* one after its answer and before clearCancellationToken, which then      *)
(* drops the token of the second.                                          *)

\* The messages whose token the worker has not looked at.
Unlooked ==
    Range(messages) \cup Range(Waiting)
        \cup (IF worker \in {"handling", "lookup"} THEN {hand} ELSE {})

ReplayingIsReplayed == ~inReplay => replaying = <<>>

IdsDiffer ==
    \A n, k \in Numbers :
        IsRequest(inbox[n]) /\ IsRequest(inbox[k]) /\ inbox[n].id = inbox[k].id
            => n = k

TokensAreKept ==
    /\ \A m \in Ahead :
          IsRequest(m) => /\ m.id \in DOMAIN cancellationTokens
                          /\ cancellationTokens[m.id] = m.number
    /\ worker = "run" => token = hand.number

CancelledDoNotRun ==
    /\ cancelledEarly \subseteq cancelled
    /\ worker = "run" => hand.number \notin cancelledEarly
    /\ \A m \in Unlooked : m.number \in cancelled => m.number \in cancelledEarly

EarlyInv ==
    /\ ReplayingIsReplayed /\ IdsDiffer /\ TokensAreKept /\ CancelledDoNotRun
    /\ EarlyCancellationIsHonoured

LEMMA NotLookedAtIsUnlooked ==
    ASSUME ReplayingIsReplayed, NEW n
    PROVE  NotLookedAt(n) <=> \E m \in Unlooked : m.number = n
<1>1. CASE inReplay
  BY <1>1 DEF NotLookedAt, Unlooked, Waiting, Range
<1>2. CASE ~inReplay
  <2>1. DOMAIN replaying = {}
    <3>1. DOMAIN <<>> = {}
      OBVIOUS
    <3>. QED BY <1>2, <3>1 DEF ReplayingIsReplayed
  <2>. QED BY <1>2, <2>1 DEF NotLookedAt, Unlooked, Waiting, Range
<1>. QED BY <1>1, <1>2

\* What the worker does to the messages ahead when it answers none.
LEMMA WorkerMovesOn ==
    ASSUME IInv, ReplayingIsReplayed,
           PopMessage \/ StopWorker \/ ReplayNext \/ ReplayEnd \/ Postpone
             \/ AcceptRequest \/ HandleNotification \/ HandleClientResponse
    PROVE  /\ Unlooked' \subseteq Unlooked /\ Ahead' \subseteq Ahead
           /\ ReplayingIsReplayed' /\ worker' # "run"
           /\ UNCHANGED <<inbox, replies, cancellationTokens, cancelled,
                          cancelledEarly>>
<1>1. /\ messages \in Seq(Messages) /\ replaying \in Seq(Messages)
      /\ configPostponedMessages \in Seq(Messages)
  BY DEF IInv, TypeOK
<1>2. CASE PopMessage
  <2>1. Range(messages) = {hand'} \cup Range(messages')
    BY <1>1, <1>2, RangeOfTail DEF PopMessage
  <2>. QED BY <1>2, <2>1 DEF PopMessage, Unlooked, Ahead, Waiting, Busy,
                             ReplayingIsReplayed, historyVars
<1>3. CASE StopWorker
  BY <1>3 DEF StopWorker, Unlooked, Ahead, Waiting, Busy, ReplayingIsReplayed,
              historyVars, queueVars
<1>4. CASE ReplayNext
  <2>1. Range(replaying) = {hand'} \cup Range(replaying')
    BY <1>1, <1>4, RangeOfTail DEF ReplayNext
  <2>. QED BY <1>4, <2>1 DEF ReplayNext, Unlooked, Ahead, Waiting, Busy,
                             ReplayingIsReplayed, historyVars, queueVars
<1>5. CASE ReplayEnd
  BY <1>5, RangeOfEmpty DEF ReplayEnd, Unlooked, Ahead, Waiting, Busy,
                            ReplayingIsReplayed, historyVars, queueVars
<1>6. CASE Postpone
  <2>1. hand \in Messages
    BY <1>6 DEF Postpone, IInv, TypeOK
  <2>2. Range(configPostponedMessages') = Range(configPostponedMessages) \cup {hand}
    BY <1>1, <1>6, <2>1, RangeOfAppend DEF Postpone
  <2>. QED BY <1>6, <2>2 DEF Postpone, Finish, Unlooked, Ahead, Waiting, Busy,
                             ReplayingIsReplayed, historyVars, queueVars
<1>7. CASE AcceptRequest
  BY <1>7 DEF AcceptRequest, Unlooked, Ahead, Waiting, Busy, ReplayingIsReplayed,
              historyVars, queueVars
<1>8. CASE HandleNotification
  BY <1>8 DEF HandleNotification, Finish, Unlooked, Ahead, Waiting, Busy,
              ReplayingIsReplayed, queueVars
<1>9. CASE HandleClientResponse
  <2>1. Waiting' = Waiting /\ ReplayingIsReplayed'
    BY <1>9 DEF HandleClientResponse, Waiting, IInv, HandInOrder, Busy,
                ReplayingIsReplayed
  <2>. QED BY <1>9, <2>1 DEF HandleClientResponse, Finish, Unlooked, Ahead, Busy,
                             queueVars
<1>. QED BY <1>2, <1>3, <1>4, <1>5, <1>6, <1>7, <1>8, <1>9

LEMMA RequestIsUsed ==
    ASSUME SentInv, NEW m \in Ahead, IsRequest(m)
    PROVE  /\ m.number \in Numbers /\ m = inbox[m.number]
           /\ m.number \in UsedBy(m.id) /\ ~Answered(m.number)
<1>1. m \in Carried
  <2>1. Range(Waiting) \subseteq Carried
    BY DEF Waiting, Carried
  <2>. QED BY <2>1 DEF Ahead, Carried, Hand, Busy
<1>2. m.number \in Numbers /\ m = inbox[m.number]
  BY <1>1 DEF SentInv, CarriedAsSent
<1>. QED BY <1>2, OrderOfAhead DEF SentInv, UsedBy, Numbers

LEMMA AheadAfterReceive ==
    ASSUME TypeOK, NEW m \in Sendable, Receive(m)
    PROVE  /\ ReadMessage(m) => /\ Ahead' = Ahead \cup {m}
                                /\ Unlooked' = Unlooked \cup {m}
           /\ RejectAfterShutdown(m) => Ahead' = Ahead /\ Unlooked' = Unlooked
           /\ UNCHANGED <<worker, hand, token, cancelled, cancelledEarly,
                          inReplay, replaying, configPostponedMessages, done>>
<1>1. Range(Append(messages, m)) = Range(messages) \cup {m}
  BY SendableIsMessage, RangeOfAppend DEF TypeOK
<1>2. /\ UNCHANGED <<worker, hand, token, cancelled, cancelledEarly, inReplay,
                     replaying, configPostponedMessages, done>>
      /\ ReadMessage(m) => messages' = Append(messages, m)
      /\ RejectAfterShutdown(m) => UNCHANGED messages
  BY DEF Receive, ReadMessage, RejectAfterShutdown, workerVars, queueVars
<1>3. Waiting' = Waiting /\ Busy' = Busy
  BY <1>2 DEF Waiting, Busy
<1>4. ReadMessage(m) => Range(messages') = Range(messages) \cup {m}
  BY <1>1, <1>2
<1>. QED BY <1>2, <1>3, <1>4 DEF Ahead, Unlooked

\* A new request does not have the id of one that was sent before.
LEMMA NewRequestHasNewId ==
    ASSUME TypeOK, ReuseIds = FALSE, NEW m \in Sendable, IsRequest(m)
    PROVE  UsedBy(m.id) = {}
<1>1. m \in Requests
  BY NotificationsAreMessages, ResponsesAreMessages
     DEF Sendable, IsRequest, IsNotification, IsResponse
<1>2. \/ \E id \in FreeIds : \E uris, capability : m = Initialize(id, uris, capability)
      \/ \E id \in FreeIds : \E uri : m = Feature(id, uri)
  BY <1>1 DEF Requests
<1>3. m.id \in FreeIds
  BY <1>2 DEF Initialize, Feature, Message
<1>. QED BY <1>3 DEF FreeIds, FreeId

LEMMA EarlyPreservedByReceive ==
    ASSUME SentInv, TokenInv, EarlyInv, ReuseIds = FALSE,
           NEW m \in Sendable, Receive(m)
    PROVE  EarlyInv'
<1>1. TypeOK
  BY DEF SentInv, IInv
<1>2. /\ Numbers' = Numbers \cup {m.number} /\ m.number \notin Numbers
      /\ inbox'[m.number] = m /\ \A n \in Numbers : inbox'[n] = inbox[n]
      /\ \A n \in Numbers : replies'[n] = replies[n]
      /\ cancelled \subseteq Numbers /\ cancelledEarly \subseteq Numbers
  BY <1>1, InboxAfterReceive, AnsweredAfterReceive DEF TypeOK
<1>3. IsRequest(m) => UsedBy(m.id) = {}
  BY <1>1, NewRequestHasNewId
<1>4. UNCHANGED <<worker, hand, token, cancelled, cancelledEarly, inReplay, replaying>>
      /\ Ahead' \subseteq Ahead \cup {m} /\ Unlooked' \subseteq Unlooked \cup {m}
  BY <1>1, AheadAfterReceive DEF Receive
<1>5. IdsDiffer'
  <2>1. \A n \in Numbers : IsRequest(inbox[n]) => n \in UsedBy(inbox[n].id)
    BY DEF UsedBy, Numbers
  <2>. QED BY <1>2, <1>3, <2>1 DEF EarlyInv, IdsDiffer, IsRequest
<1>6. TokensAreKept'
  <2>1. ASSUME NEW a \in Ahead', IsRequest(a)
        PROVE  a.id \in DOMAIN cancellationTokens' /\ cancellationTokens'[a.id] = a.number
    <3>1. CASE RejectAfterShutdown(m)
      BY <1>1, <2>1, <3>1, AheadAfterReceive
         DEF RejectAfterShutdown, queueVars, EarlyInv, TokensAreKept
    <3>2. CASE ReadMessage(m) /\ a = m
      BY <2>1, <3>2 DEF ReadMessage, Put
    <3>3. CASE ReadMessage(m) /\ a \in Ahead
      <4>1. a.id \in DOMAIN cancellationTokens /\ cancellationTokens[a.id] = a.number
        BY <2>1, <3>3 DEF EarlyInv, TokensAreKept
      <4>2. IsRequest(m) => m.id # a.id
        BY <1>3, <2>1, <3>3, RequestIsUsed
      <4>. QED BY <3>3, <4>1, <4>2 DEF ReadMessage, Put
    <3>. QED BY <1>4, <2>1, <3>1, <3>2, <3>3 DEF Receive
  <2>. QED BY <1>4, <2>1 DEF EarlyInv, TokensAreKept, IsRequest
<1>7. CancelledDoNotRun'
  BY <1>2, <1>4 DEF EarlyInv, CancelledDoNotRun
<1>8. EarlyCancellationIsHonoured'
  BY <1>2, <1>4 DEF EarlyInv, EarlyCancellationIsHonoured
<1>. QED BY <1>4, <1>5, <1>6, <1>7, <1>8 DEF EarlyInv, ReplayingIsReplayed

LEMMA EarlyPreservedByCancel ==
    ASSUME SentInv, TokenInv, EarlyInv, NEW id \in Ids, ReadCancel(id)
    PROVE  EarlyInv'
<1>1. /\ UNCHANGED <<worker, hand, token, inReplay, replaying, inbox, replies,
                     cancellationTokens, messages, configPostponedMessages>>
      /\ cancelled \subseteq cancelled'
      /\ cancelledEarly' = cancelledEarly \cup
                             {n \in UsedBy(id) : ~Answered(n) /\ NotLookedAt(n)}
  BY DEF ReadCancel, workerVars
<1>2. Ahead' = Ahead /\ Unlooked' = Unlooked /\ Numbers' = Numbers
      /\ Unlooked \subseteq Ahead
  BY <1>1 DEF Ahead, Unlooked, Waiting, Busy, Numbers
<1>3. ASSUME NEW n \in UsedBy(id), ~Answered(n), NotLookedAt(n)
      PROVE  n \in cancelled' /\ (worker = "run" => n # hand.number)
  <2>1. PICK m \in Unlooked : m.number = n
    BY <1>3, NotLookedAtIsUnlooked DEF EarlyInv
  <2>2. m = inbox[n] /\ IsRequest(m) /\ m.id = id
    <3>1. m \in Carried
      <4>1. Range(Waiting) \subseteq Carried
        BY DEF Waiting, Carried
      <4>. QED BY <2>1, <4>1 DEF Unlooked, Carried, Hand
    <3>. QED BY <1>3, <2>1, <3>1 DEF SentInv, CarriedAsSent, UsedBy
  <2>3. n \in cancelled'
    BY <1>2, <2>1, <2>2 DEF EarlyInv, TokensAreKept, ReadCancel
  <2>4. worker = "run" => n # hand.number
    <3>1. SUFFICES ASSUME worker = "run", n = hand.number PROVE FALSE
      OBVIOUS
    <3>2. m \in Range(messages) \cup Range(Waiting) /\ Busy
      BY <2>1, <3>1 DEF Unlooked, Busy
    <3>3. m.number < hand.number \/ hand.number < m.number
      BY <3>2, OrderOfAhead DEF SentInv
    <3>4. n \in Nat
      BY <1>2, <2>1, OrderOfAhead DEF SentInv
    <3>. QED BY <2>1, <3>1, <3>3, <3>4
  <2>. QED BY <2>3, <2>4
<1>4. CancelledDoNotRun'
  <2>1. ASSUME NEW m \in Unlooked, m.number \in cancelled'
        PROVE  m.number \in cancelledEarly'
    <3>1. CASE m.number \in cancelled
      BY <1>1, <2>1, <3>1 DEF EarlyInv, CancelledDoNotRun
    <3>2. CASE m.number \notin cancelled
      <4>1. id \in DOMAIN cancellationTokens /\ m.number = cancellationTokens[id]
        BY <2>1, <3>2 DEF ReadCancel
      <4>2. m.number \in Numbers /\ ~Answered(m.number)
        BY <1>2, OrderOfAhead DEF SentInv
      <4>3. m.number \in UsedBy(id)
        BY <4>1, <4>2 DEF TokenInv, TokensOfIds, UsedBy, Numbers
      <4>4. NotLookedAt(m.number)
        BY NotLookedAtIsUnlooked DEF EarlyInv
      <4>. QED BY <1>1, <4>2, <4>3, <4>4
    <3>. QED BY <3>1, <3>2
  <2>. QED BY <1>1, <1>2, <1>3, <2>1 DEF EarlyInv, CancelledDoNotRun
<1>5. EarlyCancellationIsHonoured'
  <2>1. ASSUME NEW n \in UsedBy(id), ~Answered(n) PROVE DOMAIN replies[n] = {}
    BY <2>1 DEF Answered
  <2>. QED BY <1>1, <2>1 DEF EarlyInv, EarlyCancellationIsHonoured
<1>. QED BY <1>1, <1>2, <1>4, <1>5
         DEF EarlyInv, ReplayingIsReplayed, IdsDiffer, TokensAreKept

\* The message that was taken in hand: its token, once it is looked up, is its
\* own, so a request that runs was not cancelled before.
LEMMA EarlyPreservedByLookup ==
    ASSUME SentInv, EarlyInv, LookupToken, worker' = "run",
           token' \notin cancelled, UNCHANGED replies
    PROVE  EarlyInv'
<1>1. /\ UNCHANGED <<hand, inReplay, replaying, inbox, messages, cancelled,
                     configPostponedMessages, cancelledEarly, cancellationTokens>>
      /\ worker = "lookup"
  BY DEF LookupToken, queueVars
<1>2. hand \in Ahead /\ IsRequest(hand)
  BY <1>1 DEF Ahead, Busy, SentInv, IInv, TypeOK
<1>3. token' = hand.number
  BY <1>2 DEF LookupToken, EarlyInv, TokensAreKept
<1>4. Ahead' = Ahead /\ Unlooked' \subseteq Unlooked
  BY <1>1 DEF Ahead, Unlooked, Waiting, Busy
<1>5. TokensAreKept'
  BY <1>1, <1>3, <1>4 DEF EarlyInv, TokensAreKept
<1>6. CancelledDoNotRun'
  BY <1>1, <1>3, <1>4 DEF EarlyInv, CancelledDoNotRun
<1>. QED BY <1>1, <1>5, <1>6
         DEF EarlyInv, ReplayingIsReplayed, IdsDiffer, Numbers,
             EarlyCancellationIsHonoured

LEMMA EarlyPreservedByAnswer ==
    ASSUME SentInv, EarlyInv, NEW outcome \in Replies, Replying(outcome),
           outcome = "result" => worker = "run"
    PROVE  EarlyInv'
<1>1. /\ UNCHANGED <<hand, inReplay, replaying, inbox, messages, cancelled,
                     configPostponedMessages, cancelledEarly, cancellationTokens>>
      /\ worker' = "clear"
  BY DEF Replying
<1>2. Ahead' \subseteq Ahead /\ Unlooked' \subseteq Unlooked
  BY <1>1 DEF Ahead, Unlooked, Waiting, Busy
<1>3. TokensAreKept' /\ CancelledDoNotRun'
  BY <1>1, <1>2 DEF EarlyInv, TokensAreKept, CancelledDoNotRun
<1>4. ASSUME NEW n \in cancelledEarly, NEW i \in DOMAIN replies'[n]
      PROVE  replies'[n][i] # "result"
  <2>1. n \in Numbers
    BY DEF SentInv, IInv, TypeOK
  <2>2. CASE n = hand.number
    <3>1. replies'[n] = <<outcome>>
      BY <2>2, AnsweredAfterReply DEF SentInv
    <3>2. outcome # "result"
      BY <2>2 DEF EarlyInv, CancelledDoNotRun
    <3>. QED BY <1>4, <3>1, <3>2
  <2>3. CASE n # hand.number
    BY <1>4, <2>1, <2>3, AnsweredAfterReply
       DEF SentInv, EarlyInv, EarlyCancellationIsHonoured
  <2>. QED BY <2>2, <2>3
<1>5. EarlyCancellationIsHonoured'
  BY <1>1, <1>4 DEF EarlyCancellationIsHonoured
<1>. QED BY <1>1, <1>3, <1>5
         DEF EarlyInv, ReplayingIsReplayed, IdsDiffer, Numbers

\* The token that is dropped is the one of the request that was answered.
LEMMA EarlyPreservedByClear ==
    ASSUME SentInv, TokenInv, EarlyInv, ClearCancellationToken
    PROVE  EarlyInv'
<1>1. /\ UNCHANGED <<inReplay, replaying, inbox, messages, cancelled, replies,
                     configPostponedMessages, cancelledEarly>>
      /\ worker = "clear" /\ worker' = "waiting"
      /\ DOMAIN cancellationTokens' = DOMAIN cancellationTokens \ {hand.id}
      /\ \A id \in DOMAIN cancellationTokens' :
           cancellationTokens'[id] = cancellationTokens[id]
  BY DEF ClearCancellationToken, Finish, Restrict, historyVars
<1>2. Ahead' = Ahead /\ Unlooked' = Unlooked
  BY <1>1 DEF Ahead, Unlooked, Waiting, Busy
<1>3. ASSUME NEW m \in Ahead, IsRequest(m) PROVE m.id # hand.id
  <2>1. /\ hand.number \in Numbers /\ hand = inbox[hand.number]
        /\ IsRequest(hand) /\ Answered(hand.number)
    BY <1>1, HandIsAsSent DEF SentInv, IInv, TypeOK, TokenInv, ClearsAnswered
  <2>2. m.number \in Numbers /\ m = inbox[m.number] /\ ~Answered(m.number)
    BY <1>3, RequestIsUsed
  <2>. QED BY <1>3, <2>1, <2>2 DEF EarlyInv, IdsDiffer
<1>4. TokensAreKept'
  BY <1>1, <1>2, <1>3 DEF EarlyInv, TokensAreKept
<1>5. CancelledDoNotRun'
  BY <1>1, <1>2 DEF EarlyInv, CancelledDoNotRun
<1>. QED BY <1>1, <1>4, <1>5
         DEF EarlyInv, ReplayingIsReplayed, IdsDiffer, Numbers,
             EarlyCancellationIsHonoured

\* The other steps leave tokens, cancellations and answers alone.
LEMMA EarlyPreservedByOthers ==
    ASSUME EarlyInv, Unlooked' \subseteq Unlooked, Ahead' \subseteq Ahead,
           ReplayingIsReplayed',
           worker' # "run" \/ UNCHANGED <<worker, hand, token>>,
           UNCHANGED <<inbox, replies, cancellationTokens, cancelled, cancelledEarly>>
    PROVE  EarlyInv'
BY DEF EarlyInv, IdsDiffer, TokensAreKept, CancelledDoNotRun, Numbers,
       EarlyCancellationIsHonoured

LEMMA EarlyInvPreserved ==
    ASSUME SentInv, TokenInv, EarlyInv, ReuseIds = FALSE, [Next]_vars
    PROVE  EarlyInv'
<1>1. IInv /\ ReplayingIsReplayed
  BY DEF SentInv, EarlyInv
<1>2. CASE ReadRequest \/ ReadNotification \/ ReadResponse \/ ReadLate
  <2>1. PICK m \in Sendable : Receive(m)
    BY <1>2 DEF ReadRequest, ReadNotification, ReadResponse, ReadLate, Sendable,
                Receive
  <2>. QED BY <2>1, EarlyPreservedByReceive
<1>3. CASE \E id \in Ids : ReadCancel(id)
  BY <1>3, EarlyPreservedByCancel
<1>4. CASE ReadShutdown \/ JoinWorker \/ ReadExit \/ EndOfInput \/ UNCHANGED vars
  <2>1. UNCHANGED <<queueVars, workerVars, inbox, replies, cancelledEarly>>
    BY <1>4 DEF ReadShutdown, JoinWorker, ReadExit, EndOfInput, historyVars, vars
  <2>2. /\ UNCHANGED <<messages, inReplay, replaying, configPostponedMessages,
                       worker, hand, token, cancellationTokens, cancelled>>
        /\ Ahead' = Ahead /\ Unlooked' = Unlooked
    BY <2>1 DEF queueVars, workerVars, Ahead, Unlooked, Waiting, Busy
  <2>. QED BY <1>1, <2>1, <2>2, EarlyPreservedByOthers DEF ReplayingIsReplayed
<1>5. CASE PopMessage \/ StopWorker \/ ReplayNext \/ ReplayEnd \/ Postpone
             \/ AcceptRequest \/ HandleNotification \/ HandleClientResponse
  BY <1>1, <1>5, WorkerMovesOn, EarlyPreservedByOthers
<1>6. CASE RefuseRequest
  <2>1. PICK outcome \in {"InvalidRequest", "ServerNotInitialized"} :
          Replying(outcome)
    BY <1>6, RefuseReplies
  <2>. QED BY <2>1, EarlyPreservedByAnswer DEF Replies
<1>7. CASE LookupToken
  <2>1. CASE Replying("RequestCancelled")
    BY <2>1, EarlyPreservedByAnswer DEF Replies
  <2>2. CASE token' \notin cancelled /\ worker' = "run" /\ UNCHANGED <<replies, done>>
    BY <1>7, <2>2, EarlyPreservedByLookup
  <2>. QED BY <1>1, <1>7, <2>1, <2>2, LookupReplies
<1>8. CASE RunRequest
  <2>1. PICK outcome \in {"result", "error", "RequestCancelled"} : Replying(outcome)
    BY <1>1, <1>8, RunReplies
  <2>2. worker = "run"
    BY <1>8 DEF RunRequest
  <2>. QED BY <2>1, <2>2, EarlyPreservedByAnswer DEF Replies
<1>9. CASE ClearCancellationToken
  BY <1>9, EarlyPreservedByClear
<1>. QED BY <1>2, <1>3, <1>4, <1>5, <1>6, <1>7, <1>8, <1>9
         DEF Next, Reader, Worker

LEMMA TokenInvariance == Spec => []TokenInv
<1>1. Init => TokenInv
  <2>1. DOMAIN <<>> = {}
    OBVIOUS
  <2>. QED BY <2>1 DEF Init, TokenInv, TokensOfIds, TokensAreOfOpenRequests,
                       ClearsAnswered
<1>2. WorkInv /\ TokenInv /\ [Next]_vars => TokenInv'
  BY TokenInvPreserved DEF WorkInv
<1>. QED BY WorkInvariance, <1>1, <1>2, PTL DEF Spec

LEMMA EarlyInvariance == ASSUME ReuseIds = FALSE PROVE Spec => []EarlyInv
<1>1. Init => EarlyInv
  <2>1. ASSUME Init PROVE EarlyInv
    <3>1. Ahead = {} /\ Unlooked = {} /\ Numbers = {}
      BY <2>1, RangeOfEmpty DEF Init, Ahead, Unlooked, Waiting, Busy, Numbers
    <3>. QED BY <2>1, <3>1
             DEF Init, EarlyInv, ReplayingIsReplayed, IdsDiffer, TokensAreKept,
                 CancelledDoNotRun, EarlyCancellationIsHonoured
  <2>. QED BY <2>1
<1>2. WorkInv /\ TokenInv /\ EarlyInv /\ [Next]_vars => EarlyInv'
  BY EarlyInvPreserved DEF WorkInv
<1>. QED BY WorkInvariance, TokenInvariance, <1>1, <1>2, PTL DEF Spec

-----------------------------------------------------------------------------
(* No message is lost, unless it was postponed behind an addition of       *)
(* folders that was postponed too: handled by the loop over the postponed  *)
(* messages, that one makes the messages behind it wait again, and the end *)
(* of the loop drops them.                                                 *)

\* The messages of the loop are those that were postponed ...
ReplayedArePostponed ==
    inReplay => Range(replaying) \cup Hand \subseteq Range(configPostponedMessages)

\* ... behind says which of them came after an addition ...
BehindAdditions ==
    \A c, m \in Range(configPostponedMessages) :
        AddsFolders(c) /\ c.number < m.number => m.number \in behind

\* ... and only those have to wait inside the loop.
ReplayIsConfigured ==
    inReplay => \/ AllWorkspacesReceivedConfiguration
                \/ \A m \in Range(replaying) \cup Hand : m.number \in behind

ReplayInv == ReplayedArePostponed /\ BehindAdditions /\ ReplayIsConfigured

\* A handler that gives no folder takes no configuration away.
LEMMA HandlersKeepConfigured ==
    ASSUME TypeOK, NEW uri,
           \/ TouchDocument(uri)
           \/ \E config : OnDidChangeConfiguration(config)
           \/ \E removed : OnDidChangeWorkspaceFolders(removed, <<>>)
           \/ UNCHANGED configVars
    PROVE  AllWorkspacesReceivedConfiguration => AllWorkspacesReceivedConfiguration'
<1>1. CASE TouchDocument(uri)
  <2>1. ASSUME NEW w, NEW config
        PROVE  LazyInitialize(w, config).hasConfiguration = w.hasConfiguration
                 \/ w \notin Workspace
    BY DEF LazyInitialize, Workspace
  <2>2. ASSUME NEW i \in DOMAIN workspaceFolders'
        PROVE  /\ i \in DOMAIN workspaceFolders
               /\ workspaceFolders'[i].hasConfiguration = workspaceFolders[i].hasConfiguration
    <3>1. workspaceFolders \in Seq(Workspace)
      BY DEF TypeOK, ConfigTypeOK
    <3>. QED BY <1>1, <2>1, <3>1 DEF TouchDocument
  <2>. QED BY <2>2 DEF AllWorkspacesReceivedConfiguration
<1>2. CASE UNCHANGED workspaceFolders
  BY <1>2 DEF AllWorkspacesReceivedConfiguration
<1>3. CASE \E removed : OnDidChangeWorkspaceFolders(removed, <<>>)
  <2>1. PICK removed : OnDidChangeWorkspaceFolders(removed, <<>>)
    BY <1>3
  <2> DEFINE kept == KeptFolders(removed)
             new == [i \in DOMAIN <<>> |-> WorkspaceFolder(<<>>[i])]
  <2>2. workspaceFolders' = kept \o new
    BY <2>1 DEF OnDidChangeWorkspaceFolders
  <2>3. DOMAIN <<>> = {} /\ \A x : x \notin DOMAIN <<>>
    OBVIOUS
  <2>4. new = <<>>
    BY <2>3
  <2>5. /\ kept \in Seq(Workspace)
        /\ \A i \in DOMAIN kept : \E j \in 1..Len(workspaceFolders) :
             kept[i] = workspaceFolders[j]
    BY KeptFoldersAreLeft DEF TypeOK, LeftOf
  <2>. HIDE DEF kept, new
  <2>6. workspaceFolders' = kept
    BY <2>2, <2>4, <2>5
  <2>7. DOMAIN workspaceFolders = 1..Len(workspaceFolders)
    BY DEF TypeOK, ConfigTypeOK
  <2>. QED BY <2>5, <2>6, <2>7 DEF AllWorkspacesReceivedConfiguration
<1>. QED BY <1>1, <1>2, <1>3 DEF OnDidChangeConfiguration, configVars, serverVars

\* Steps that neither move a message to or from the loop nor change the folders.
LEMMA ReplayInvKept ==
    ASSUME ReplayInv, Hand' \subseteq Hand,
           UNCHANGED <<inReplay, replaying, configPostponedMessages, behind,
                       workspaceFolders>>
    PROVE  ReplayInv'
<1>1. AllWorkspacesReceivedConfiguration' = AllWorkspacesReceivedConfiguration
  BY DEF AllWorkspacesReceivedConfiguration
<1>. QED BY <1>1 DEF ReplayInv, ReplayedArePostponed, BehindAdditions,
                     ReplayIsConfigured, AddsFolders

LEMMA ReplayInvAfterReader ==
    ASSUME ReplayInv, Reader \/ UNCHANGED vars
    PROVE  ReplayInv'
<1>1. UNCHANGED <<worker, hand, inReplay, replaying, configPostponedMessages,
                  serverVars, behind>>
  BY DEF Reader, ReadRequest, ReadNotification, ReadResponse, ReadLate,
         ReadMessage, RejectAfterShutdown, ReadCancel, ReadShutdown, JoinWorker,
         ReadExit, EndOfInput, configVars, workerVars, historyVars, vars
<1>. QED BY <1>1, ReplayInvKept DEF Hand, serverVars

LEMMA ReplayInvAfterQueues ==
    ASSUME WorkInv, ReplayInv, PopMessage \/ StopWorker \/ ReplayNext \/ ReplayEnd
    PROVE  ReplayInv'
<1>1. UNCHANGED <<workspaceFolders, behind>> /\ Hand = {}
  BY DEF PopMessage, StopWorker, ReplayNext, ReplayEnd, configVars, serverVars,
         historyVars, Hand
<1>2. AllWorkspacesReceivedConfiguration' = AllWorkspacesReceivedConfiguration
  BY <1>1 DEF AllWorkspacesReceivedConfiguration
<1>3. CASE PopMessage \/ StopWorker
  <2>1. ~inReplay /\ UNCHANGED <<inReplay, configPostponedMessages>>
    BY <1>3 DEF PopMessage, StopWorker
  <2>. QED BY <1>1, <2>1 DEF ReplayInv, ReplayedArePostponed, BehindAdditions,
                             ReplayIsConfigured, AddsFolders
<1>4. CASE ReplayNext
  <2>1. replaying \in Seq(Messages)
    BY DEF WorkInv, SentInv, IInv, TypeOK
  <2>2. Range(replaying) = {hand'} \cup Range(replaying')
    BY <1>4, <2>1, RangeOfTail DEF ReplayNext
  <2>3. inReplay /\ UNCHANGED <<inReplay, configPostponedMessages>> /\ Hand' = {hand'}
    BY <1>4 DEF ReplayNext, Hand
  <2>. QED BY <1>1, <1>2, <2>2, <2>3
           DEF ReplayInv, ReplayedArePostponed, BehindAdditions,
               ReplayIsConfigured, AddsFolders
<1>5. CASE ReplayEnd
  <2>1. ~inReplay' /\ Range(configPostponedMessages') = {}
    BY <1>5, RangeOfEmpty DEF ReplayEnd
  <2>. QED BY <2>1 DEF ReplayInv, ReplayedArePostponed, BehindAdditions,
                       ReplayIsConfigured
<1>. QED BY <1>3, <1>4, <1>5

LEMMA ReplayInvAfterPostpone ==
    ASSUME WorkInv, ReplayInv, Postpone
    PROVE  /\ ReplayInv' /\ behind \subseteq behind'
           /\ inReplay => hand.number \in behind /\ UNCHANGED behind
<1>1. /\ UNCHANGED <<workspaceFolders, inReplay, replaying>>
      /\ Busy /\ ~AllWorkspacesReceivedConfiguration /\ Hand = {hand} /\ Hand' = {}
      /\ behind' = IF \E m \in Range(configPostponedMessages) : AddsFolders(m)
                   THEN behind \cup {hand.number} ELSE behind
  BY DEF Postpone, MustWait, Finish, serverVars, Busy, Hand
<1>2. Range(configPostponedMessages') = Range(configPostponedMessages) \cup {hand}
  <2>1. configPostponedMessages \in Seq(Messages) /\ hand \in Messages
    BY <1>1 DEF Busy, WorkInv, SentInv, IInv, TypeOK
  <2>. QED BY <2>1, RangeOfAppend DEF Postpone
<1>3. behind \subseteq behind'
  BY <1>1
<1>4. ASSUME inReplay
      PROVE  /\ hand.number \in behind /\ UNCHANGED behind
             /\ hand \in Range(configPostponedMessages)
  BY <1>1, <1>4 DEF ReplayInv, ReplayedArePostponed, ReplayIsConfigured
<1>5. BehindAdditions'
  <2>1. SUFFICES ASSUME NEW c \in Range(configPostponedMessages'),
                        NEW m \in Range(configPostponedMessages'),
                        AddsFolders(c), c.number < m.number
                 PROVE  m.number \in behind'
    BY DEF BehindAdditions, AddsFolders
  <2>2. CASE c \in Range(configPostponedMessages) /\ m \in Range(configPostponedMessages)
    BY <1>3, <2>1, <2>2 DEF ReplayInv, BehindAdditions
  <2>3. CASE ~inReplay /\ c = hand
    <3>1. /\ hand.number \in Nat
          /\ \A w \in Range(configPostponedMessages) :
               w.number \in Nat /\ w.number < hand.number
      <4>1. Waiting = configPostponedMessages /\ hand \in Ahead
        BY <1>1, <2>3 DEF Waiting, Ahead
      <4>. QED BY <1>1, <2>3, <4>1, OrderOfAhead DEF WorkInv, SentInv, Ahead
    <3>2. m = hand \/ (m.number < hand.number /\ m.number \in Nat)
      BY <1>2, <3>1
    <3>. QED BY <2>1, <2>3, <3>1, <3>2
  <2>4. CASE c \in Range(configPostponedMessages) /\ m = hand
    BY <1>1, <2>1, <2>4
  <2>. QED BY <1>2, <1>4, <2>1, <2>2, <2>3, <2>4
<1>6. ReplayedArePostponed' /\ ReplayIsConfigured'
  BY <1>1, <1>2, <1>3 DEF ReplayInv, ReplayedArePostponed, ReplayIsConfigured
<1>. QED BY <1>3, <1>4, <1>5, <1>6 DEF ReplayInv

\* The handlers leave the postponed messages and the loop as they are: what they
\* do to the folders' configuration is all that counts.
LEMMA ReplayInvAfterHandler ==
    ASSUME ReplayInv, Hand' \subseteq Hand,
           UNCHANGED <<inReplay, replaying, configPostponedMessages, behind>>,
           inReplay /\ AllWorkspacesReceivedConfiguration =>
             \/ AllWorkspacesReceivedConfiguration'
             \/ \A m \in Range(replaying) \cup Hand' : m.number \in behind
    PROVE  ReplayInv'
BY DEF ReplayInv, ReplayedArePostponed, BehindAdditions, ReplayIsConfigured,
       AddsFolders

LEMMA ReplayInvAfterAnswers ==
    ASSUME WorkInv, ReplayInv,
           RefuseRequest \/ AcceptRequest \/ LookupToken \/ RunRequest
             \/ ClearCancellationToken
    PROVE  ReplayInv'
<1>1. /\ UNCHANGED <<inReplay, replaying, configPostponedMessages, behind>>
      /\ UNCHANGED hand \/ worker' = "waiting"
      /\ worker \notin {"waiting", "stopped"}
  BY DEF RefuseRequest, AcceptRequest, LookupToken, RunRequest, historyVars,
         ClearCancellationToken, Finish
<1>2. Hand' \subseteq Hand
  BY <1>1 DEF Hand
<1>3. ASSUME inReplay, AllWorkspacesReceivedConfiguration
      PROVE  AllWorkspacesReceivedConfiguration'
  <2>1. CASE UNCHANGED configVars
    BY <1>3, <2>1 DEF configVars, serverVars, AllWorkspacesReceivedConfiguration
  <2>2. CASE RunRequest
    <3>1. hand.method # "initialize"
      <4>1. SUFFICES ASSUME hand.method = "initialize" PROVE FALSE
        OBVIOUS
      <4>2. PICK j \in Sent("initialize") \cap done : TRUE
        BY <1>3 DEF WorkInv, InitializedIsDone, PostponedWait
      <4>3. hand.number \in Numbers /\ hand = inbox[hand.number] /\ Busy
        BY <2>2, HandIsAsSent DEF WorkInv, RunRequest, Busy
      <4>4. hand.number \in Sent("initialize")
        BY <4>1, <4>3 DEF Sent, Numbers
      <4>5. j = hand.number /\ Gated(hand) /\ hand \in Ahead
        BY <2>2, <4>2, <4>3, <4>4
           DEF WorkInv, SentInv, OneHandshake, Ahead, IInv, TypeOK, RunRequest,
               Gated
      <4>6. hand.number < hand.number
        BY <4>2, <4>3, <4>5 DEF WorkInv, DoneInOrder
      <4>7. hand.number \in Nat
        BY <4>3, OrderOfAhead DEF WorkInv, SentInv
      <4>. QED BY <4>6, <4>7
    <3>2. TouchDocument(hand.uri) \/ UNCHANGED configVars
      BY <2>2, <3>1 DEF RunRequest
    <3>. QED BY <1>3, <3>2, HandlersKeepConfigured DEF WorkInv, SentInv, IInv
  <2>. QED BY <2>1, <2>2
           DEF RefuseRequest, AcceptRequest, LookupToken, ClearCancellationToken
<1>. QED BY <1>1, <1>2, <1>3, ReplayInvAfterHandler

\* An addition that is handled in the loop is in front of all that is left of it.
LEMMA ReplayInvAfterNotification ==
    ASSUME WorkInv, ReplayInv, HandleNotification
    PROVE  ReplayInv'
<1>1. /\ UNCHANGED <<inReplay, replaying, configPostponedMessages, behind>>
      /\ worker = "handling" /\ Busy /\ IsNotification(hand) /\ Hand' = {}
      /\ Hand = {hand}
  BY DEF HandleNotification, Finish, Busy, Hand
<1>2. TypeOK /\ IInv
  BY DEF WorkInv, SentInv, IInv
<1>3. ASSUME inReplay, AllWorkspacesReceivedConfiguration
      PROVE  \/ AllWorkspacesReceivedConfiguration'
             \/ \A m \in Range(replaying) : m.number \in behind
  <2>1. Gated(hand)
    BY <1>1, <1>3 DEF WorkInv, PostponedWait
  <2>2. hand.method \in {"textDocument/didChange",
                         "workspace/didChangeConfiguration",
                         "workspace/didChangeWorkspaceFolders"}
    BY <1>1, <2>1 DEF Gated, NotificationRequiresWorkspace, IsRequest, IsNotification
  <2>3. CASE AddsFolders(hand)
    <3>1. ASSUME NEW m \in Range(replaying) PROVE hand.number < m.number
      BY <1>1, <1>2, <1>3, OrderOfAhead DEF Waiting
    <3>2. /\ hand \in Range(configPostponedMessages)
          /\ \A m \in Range(replaying) : m \in Range(configPostponedMessages)
      BY <1>1, <1>3 DEF ReplayInv, ReplayedArePostponed
    <3>. QED BY <2>3, <3>1, <3>2 DEF ReplayInv, BehindAdditions
  <2>4. CASE ~AddsFolders(hand)
    <3>1. \/ TouchDocument(hand.uri)
          \/ \E config : OnDidChangeConfiguration(config)
          \/ \E removed : OnDidChangeWorkspaceFolders(removed, <<>>)
          \/ UNCHANGED configVars
      <4>1. CASE ~isInitialized \/ shutdownRequested
        BY <4>1 DEF HandleNotification
      <4>2. CASE Dispatch(hand) /\ hand.method = "textDocument/didChange"
        BY <4>2 DEF Dispatch
      <4>3. CASE Dispatch(hand) /\ hand.method = "workspace/didChangeConfiguration"
        BY <4>3 DEF Dispatch
      <4>4. CASE /\ Dispatch(hand)
                 /\ hand.method = "workspace/didChangeWorkspaceFolders"
        BY <2>4, <4>4 DEF Dispatch, AddsFolders
      <4>. QED BY <2>2, <4>1, <4>2, <4>3, <4>4 DEF HandleNotification
    <3>. QED BY <1>2, <1>3, <3>1, HandlersKeepConfigured
  <2>. QED BY <2>3, <2>4
<1>. QED BY <1>1, <1>3, ReplayInvAfterHandler

LEMMA ReplayInvAfterResponse ==
    ASSUME WorkInv, ReplayInv, HandleClientResponse
    PROVE  ReplayInv'
<1>1. /\ UNCHANGED <<configPostponedMessages, behind>>
      /\ worker = "handling" /\ Busy /\ IsResponse(hand) /\ Hand' = {}
      /\ IF configPostponedMessages # <<>> /\ AllWorkspacesReceivedConfiguration'
         THEN inReplay' = TRUE /\ replaying' = configPostponedMessages
         ELSE UNCHANGED <<inReplay, replaying>>
  BY DEF HandleClientResponse, Finish, Busy, Hand
<1>2. ~inReplay
  BY <1>1 DEF WorkInv, SentInv, IInv, HandInOrder
<1>. QED BY <1>1, <1>2
         DEF ReplayInv, ReplayedArePostponed, BehindAdditions, ReplayIsConfigured,
             AddsFolders

LEMMA ReplayInvariance == Spec => []ReplayInv
<1>1. Init => ReplayInv
  <2>1. ASSUME Init PROVE ReplayInv
    <3>1. ~inReplay /\ Range(configPostponedMessages) = {}
      BY <2>1, RangeOfEmpty DEF Init
    <3>. QED BY <3>1 DEF ReplayInv, ReplayedArePostponed, BehindAdditions,
                         ReplayIsConfigured
  <2>. QED BY <2>1
<1>2. WorkInv /\ ReplayInv /\ [Next]_vars => ReplayInv'
  BY ReplayInvAfterReader, ReplayInvAfterQueues, ReplayInvAfterPostpone,
     ReplayInvAfterAnswers, ReplayInvAfterNotification, ReplayInvAfterResponse
     DEF Next, Worker
<1>. QED BY WorkInvariance, <1>1, <1>2, PTL DEF Spec

-----------------------------------------------------------------------------
(* Every message is accounted for: handled, answered, or still ahead.      *)

\* The queues and the hand lose nothing to one another, except when a message
\* is postponed in the loop over the postponed ones.
LEMMA NothingMovesAway ==
    ASSUME IInv,
           PopMessage \/ StopWorker \/ ReplayNext \/ ReplayEnd \/ Postpone
             \/ AcceptRequest \/ HandleNotification \/ HandleClientResponse
    PROVE  \/ /\ Ahead \subseteq Ahead' /\ Unlooked \subseteq Unlooked'
              /\ UNCHANGED done
           \/ /\ Ahead \subseteq Ahead' \cup {hand}
              /\ Unlooked \subseteq Unlooked' \cup {hand}
              /\ worker = "handling" /\ ~IsRequest(hand)
              /\ done' = done \cup {hand.number}
           \/ /\ Ahead \subseteq Ahead' \cup {hand}
              /\ Unlooked \subseteq Unlooked' \cup {hand}
              /\ Postpone /\ inReplay /\ UNCHANGED done
<1>1. /\ messages \in Seq(Messages) /\ replaying \in Seq(Messages)
      /\ configPostponedMessages \in Seq(Messages)
  BY DEF IInv, TypeOK
<1>2. CASE PopMessage
  <2>1. Range(messages) = {hand'} \cup Range(messages')
    BY <1>1, <1>2, RangeOfTail DEF PopMessage
  <2>. QED BY <1>2, <2>1 DEF PopMessage, Unlooked, Ahead, Waiting, Busy, historyVars
<1>3. CASE StopWorker
  BY <1>3 DEF StopWorker, Unlooked, Ahead, Waiting, Busy, historyVars, queueVars
<1>4. CASE ReplayNext
  <2>1. Range(replaying) = {hand'} \cup Range(replaying')
    BY <1>1, <1>4, RangeOfTail DEF ReplayNext
  <2>. QED BY <1>4, <2>1 DEF ReplayNext, Unlooked, Ahead, Waiting, Busy,
                             historyVars, queueVars
<1>5. CASE ReplayEnd
  BY <1>5, RangeOfEmpty DEF ReplayEnd, Unlooked, Ahead, Waiting, Busy,
                            historyVars, queueVars
<1>6. CASE Postpone
  <2>1. hand \in Messages
    BY <1>6 DEF Postpone, IInv, TypeOK
  <2>2. Range(configPostponedMessages') = Range(configPostponedMessages) \cup {hand}
    BY <1>1, <1>6, <2>1, RangeOfAppend DEF Postpone
  <2>3. CASE ~inReplay
    <3>1. Waiting = configPostponedMessages /\ Waiting' = configPostponedMessages'
      BY <1>6, <2>3 DEF Postpone, Waiting
    <3>. QED BY <1>6, <2>2, <3>1 DEF Postpone, Finish, Unlooked, Ahead, Busy,
                                     queueVars
  <2>4. CASE inReplay
    BY <1>6, <2>4 DEF Postpone, Finish, Unlooked, Ahead, Waiting, Busy, queueVars
  <2>. QED BY <2>3, <2>4
<1>7. CASE AcceptRequest
  BY <1>7 DEF AcceptRequest, Unlooked, Ahead, Waiting, Busy, historyVars, queueVars
<1>8. CASE HandleNotification
  BY <1>8 DEF HandleNotification, Finish, Unlooked, Ahead, Waiting, Busy,
              queueVars, IsNotification, IsRequest
<1>9. CASE HandleClientResponse
  <2>1. Waiting' = Waiting /\ ~IsRequest(hand)
    BY <1>9 DEF HandleClientResponse, Waiting, IInv, HandInOrder, Busy, IsResponse,
                IsRequest
  <2>. QED BY <1>9, <2>1 DEF HandleClientResponse, Finish, Unlooked, Ahead, Busy,
                             queueVars
<1>. QED BY <1>2, <1>3, <1>4, <1>5, <1>6, <1>7, <1>8, <1>9

LEMMA AheadUntilDone ==
    ASSUME WorkInv, ReplayInv, [Next]_vars
    PROVE  /\ \A m \in Ahead : \/ m \in Ahead' \/ m.number \in done'
                               \/ m.number \in behind
           /\ done \subseteq done'
<1>1. IInv
  BY DEF WorkInv, SentInv
<1>2. ASSUME NEW m \in Sendable, Receive(m)
      PROVE  Ahead \subseteq Ahead' /\ done' = done
  BY <1>1, <1>2, AheadAfterReceive DEF Receive, IInv
<1>3. CASE \/ \E id \in Ids : ReadCancel(id)
           \/ ReadShutdown \/ JoinWorker \/ ReadExit \/ EndOfInput \/ UNCHANGED vars
  <2>1. UNCHANGED <<messages, workerVars, done>>
    BY <1>3 DEF ReadCancel, ReadShutdown, JoinWorker, ReadExit, EndOfInput,
                historyVars, queueVars, vars
  <2>. QED BY <2>1 DEF workerVars, Ahead, Waiting, Busy
<1>4. CASE PopMessage \/ StopWorker \/ ReplayNext \/ ReplayEnd \/ Postpone
             \/ AcceptRequest \/ HandleNotification \/ HandleClientResponse
  BY <1>1, <1>4, NothingMovesAway, ReplayInvAfterPostpone
<1>5. ASSUME NEW outcome \in Replies, Replying(outcome)
      PROVE  /\ \A m \in Ahead : m \in Ahead' \/ m.number \in done'
             /\ done \subseteq done'
  BY <1>5 DEF Replying, Reply, Ahead, Waiting, Busy
<1>6. CASE LookupToken /\ worker' = "run" /\ UNCHANGED done
  BY <1>6 DEF LookupToken, Ahead, Waiting, Busy, queueVars
<1>7. CASE ClearCancellationToken
  BY <1>7 DEF ClearCancellationToken, Finish, Ahead, Waiting, Busy, historyVars
<1>8. CASE RefuseRequest \/ LookupToken \/ RunRequest
  <2>1. \/ \E outcome \in Replies : Replying(outcome)
        \/ LookupToken /\ worker' = "run" /\ UNCHANGED done
    BY <1>1, <1>8, RefuseReplies, LookupReplies, RunReplies DEF Replies
  <2>. QED BY <2>1, <1>5, <1>6
<1>. QED BY <1>2, <1>3, <1>4, <1>7, <1>8
         DEF Next, Reader, ReadRequest, ReadNotification, ReadResponse, ReadLate,
             Sendable, Receive, Worker

\* Postponed behind an addition, a message stays marked as such.
LEMMA BehindGrows ==
    ASSUME WorkInv, ReplayInv, [Next]_vars
    PROVE  behind \subseteq behind'
<1>1. CASE Postpone
  BY <1>1, ReplayInvAfterPostpone
<1>2. CASE ~Postpone
  BY <1>2 DEF Next, Reader, ReadRequest, ReadNotification, ReadResponse, ReadLate,
              ReadMessage, RejectAfterShutdown, ReadCancel, ReadShutdown,
              JoinWorker, ReadExit, EndOfInput, Worker, PopMessage, StopWorker,
              ReplayNext, ReplayEnd, RefuseRequest, AcceptRequest, LookupToken,
              RunRequest, ClearCancellationToken, HandleNotification,
              HandleClientResponse, historyVars, vars
<1>. QED BY <1>1, <1>2

Accounted ==
    \A n \in Numbers : \/ n \in done \/ Answered(n) \/ n \in behind
                      \/ \E m \in Ahead : m.number = n

\* A request that was handled was answered.
DoneIsAnswered == \A n \in done : IsRequest(inbox[n]) => Answered(n)

LEMMA AccountedPreserved ==
    ASSUME WorkInv, ReplayInv, Accounted, [Next]_vars
    PROVE  Accounted'
<1>1. TypeOK /\ IInv
  BY DEF WorkInv, SentInv, IInv
<1>2. ASSUME NEW n \in Numbers
      PROVE  \/ n \in done' \/ Answered(n)' \/ n \in behind'
             \/ \E m \in Ahead' : m.number = n
  <2>1. Answered(n) => Answered(n)'
    BY <1>1, AnsweredIsStable
  <2>2. behind \subseteq behind'
    BY BehindGrows
  <2>. QED BY <2>1, <2>2, AheadUntilDone DEF Accounted
<1>3. ASSUME NEW m \in Sendable, Receive(m)
      PROVE  /\ Numbers' = Numbers \cup {m.number}
             /\ Answered(m.number)' \/ m \in Ahead'
  BY <1>1, <1>3, InboxAfterReceive, AnsweredAfterReceive, AheadAfterReceive
<1>4. UNCHANGED Numbers \/ \E m \in Sendable : Receive(m)
  BY <1>1, StepOfAnswers DEF Numbers, Replying
<1>. QED BY <1>2, <1>3, <1>4 DEF Accounted

LEMMA NothingIsLost ==
    ASSUME Accounted
    PROVE  NothingLost
<1>1. ASSUME NEW m \in Range(messages) \cup Range(Waiting)
      PROVE  InFlight(m.number)
  BY <1>1 DEF InFlight, Range, Waiting
<1>2. Busy => InHand(hand.number)
  BY DEF Busy, InHand
<1>. QED BY <1>1, <1>2 DEF Accounted, NothingLost, Ahead

LEMMA AccountedInvariance == Spec => []Accounted
<1>1. Init => Accounted
  <2>1. Init => Numbers = {}
    BY DEF Init, Numbers
  <2>. QED BY <2>1 DEF Accounted
<1>2. WorkInv /\ ReplayInv /\ Accounted /\ [Next]_vars => Accounted'
  BY AccountedPreserved
<1>. QED BY WorkInvariance, ReplayInvariance, <1>1, <1>2, PTL DEF Spec

\* A client that does not use the id of a request again, whatever else it sends
\* and whenever, has no message forgotten but those postponed behind a postponed
\* addition of folders, no early cancellation missed and no token left behind
\* (Thread.cpp's queue, the postponed messages and clearCancellationToken of
\* LanguageServer.cpp).
THEOREM NothingIsForgotten ==
    ASSUME ReuseIds = FALSE
    PROVE  Spec => []OpenRequestsAreKept
<1>1. Accounted /\ EarlyInv /\ TokenInv => OpenRequestsAreKept
  BY NothingIsLost DEF OpenRequestsAreKept, EarlyInv, TokenInv
<1>. QED BY AccountedInvariance, EarlyInvariance, TokenInvariance, <1>1, PTL

-----------------------------------------------------------------------------
(* The two threads keep the contract about requests: a refinement proof.     *)
(* Every step of LanguageServer is a step of RequestContract, or none.       *)
(* First what the main thread has done about shutdown.                       *)

ShutdownInv ==
    /\ joined <=> shutdownReplies > 0
    /\ shutdownReplies > 0 => shutdownRequested
    /\ reader = "joining" => shutdownRequested /\ ~joined
    /\ reader = "reading" /\ shutdownRequested => joined

LEMMA ShutdownInvariance == Spec => []ShutdownInv
<1>1. Init => ShutdownInv
  BY DEF Init, ShutdownInv
<1>2. WorkInv /\ ShutdownInv /\ [Next]_vars => ShutdownInv'
  <2>1. SUFFICES ASSUME ShutdownInv, [Next]_vars, shutdownReplies \in Nat
                 PROVE  ShutdownInv'
    BY DEF WorkInv, SentInv, IInv, TypeOK
  <2>2. CASE Worker \/ UNCHANGED vars
    <3>1. UNCHANGED <<readerVars, shutdownReplies>>
      BY <2>2 DEF Worker, PopMessage, StopWorker, ReplayNext, ReplayEnd, Postpone,
                  RefuseRequest, AcceptRequest, LookupToken, RunRequest,
                  ClearCancellationToken, HandleNotification,
                  HandleClientResponse, historyVars, vars
    <3>. QED BY <2>1, <3>1 DEF ShutdownInv, readerVars
  <2>3. CASE \/ ReadRequest \/ ReadNotification \/ ReadResponse \/ ReadLate
             \/ \E id \in Ids : ReadCancel(id)
    <3>1. UNCHANGED <<readerVars, shutdownReplies>>
      BY <2>3 DEF ReadRequest, ReadNotification, ReadResponse, ReadLate, ReadCancel,
                  ReadMessage, RejectAfterShutdown
    <3>. QED BY <2>1, <3>1 DEF ShutdownInv, readerVars
  <2>4. CASE ReadShutdown \/ JoinWorker
    BY <2>1, <2>4 DEF ShutdownInv, ReadShutdown, JoinWorker
  <2>5. CASE ReadExit \/ EndOfInput
    BY <2>1, <2>5 DEF ShutdownInv, ReadExit, EndOfInput, historyVars
  <2>. QED BY <2>1, <2>2, <2>3, <2>4, <2>5 DEF Next, Reader
<1>. QED BY WorkInvariance, <1>1, <1>2, PTL DEF Spec

-----------------------------------------------------------------------------
(* A request that was handled was answered.                                *)

LEMMA DoneIsAnsweredInvariance == Spec => []DoneIsAnswered
<1>1. Init => DoneIsAnswered
  BY DEF Init, DoneIsAnswered
<1>2. WorkInv /\ DoneIsAnswered /\ [Next]_vars => DoneIsAnswered'
  <2>1. SUFFICES ASSUME WorkInv, DoneIsAnswered, [Next]_vars,
                        NEW n \in done', IsRequest(inbox'[n])
                 PROVE  Answered(n)'
    BY DEF DoneIsAnswered, IsRequest
  <2>2. TypeOK /\ IInv /\ done \subseteq Numbers
    BY <2>1 DEF WorkInv, SentInv, IInv, TypeOK
  <2>3. \A k \in Numbers : inbox'[k] = inbox[k]
    <3>1. UNCHANGED inbox \/ \E m \in Sendable : Receive(m)
      BY <2>1, <2>2, StepOfAnswers DEF Replying
    <3>. QED BY <2>2, <3>1, InboxAfterReceive
  <2>4. CASE n \in done
    BY <2>1, <2>2, <2>3, <2>4, AnsweredIsStable DEF DoneIsAnswered
  <2>5. CASE n \notin done
    <3>1. Busy /\ n = hand.number /\ done' # done
      BY <2>1, <2>5, DoneGrowsByHand
    <3>2. IsRequest(hand)
      BY <2>1, <2>3, <3>1, HandIsAsSent DEF WorkInv, Busy
    <3>3. PICK outcome \in Replies : Replying(outcome)
      <4>1. RefuseRequest \/ LookupToken \/ RunRequest
        BY <2>1, <3>1, <3>2
           DEF Next, Reader, ReadRequest, ReadNotification, ReadResponse, ReadLate,
               ReadMessage, RejectAfterShutdown, ReadCancel, ReadShutdown,
               JoinWorker, ReadExit, EndOfInput, Worker, PopMessage, StopWorker,
               ReplayNext, ReplayEnd, Postpone, AcceptRequest,
               HandleNotification, HandleClientResponse, ClearCancellationToken,
               historyVars, vars, IsRequest, IsNotification, IsResponse
      <4>. QED BY <2>2, <3>1, <4>1, RefuseReplies, LookupReplies, RunReplies
               DEF Replies
    <3>. QED BY <2>2, <3>1, <3>3, AnsweredAfterReply DEF Answered
  <2>. QED BY <2>4, <2>5
<1>. QED BY WorkInvariance, <1>1, <1>2, PTL DEF Spec

-----------------------------------------------------------------------------
(* The state the contract gives a request is "forgotten" only behind a     *)
(* postponed addition of folders.                                          *)

\* The worker has yet to look at the token of message n.
Waits(n) == \E m \in Unlooked : m.number = n

\* The handler of request n has begun.
Runs(n) == worker = "run" /\ hand.number = n

KnownAnswer(n) == Answered(n) /\ ContractState(n) = replies[n][1]

KnownToWait(n) ==
    /\ ~Answered(n) /\ Waits(n) /\ ~Runs(n)
    /\ ContractState(n) = IF n \in cancelledEarly THEN "doomed" ELSE "queued"

KnownToRun(n) ==
    /\ ~Answered(n) /\ Runs(n) /\ ~Waits(n) /\ token = n
    /\ ContractState(n) = IF n \in cancelled THEN "stopping" ELSE "running"

KnownForgotten(n) ==
    /\ ~Answered(n) /\ ~Waits(n) /\ ~Runs(n) /\ n \in behind
    /\ ContractState(n) = "forgotten"

IsKnown(n) == KnownAnswer(n) \/ KnownToWait(n) \/ KnownToRun(n) \/ KnownForgotten(n)

StatesAreKnown == \A n \in RequestNumbers : IsKnown(n)

ContractInv ==
    /\ WorkInv /\ TokenInv /\ EarlyInv /\ ReplayInv /\ ShutdownInv /\ StatesAreKnown

LEMMA RunningDoesNotWait ==
    ASSUME IInv, NEW n, Runs(n)
    PROVE  ~Waits(n)
<1>1. /\ Busy /\ n = hand.number /\ hand.number \in Nat
      /\ Unlooked = Range(messages) \cup Range(Waiting)
  <2>1. Busy /\ n = hand.number
    BY DEF Runs, Busy
  <2>2. hand \in Ahead
    BY <2>1 DEF Ahead
  <2>. QED BY <2>1, <2>2, OrderOfAhead DEF Unlooked, Runs
<1>2. \A m \in Unlooked : m.number < hand.number \/ hand.number < m.number
  BY <1>1, OrderOfAhead
<1>3. \A m \in Unlooked : m.number \in Nat
  BY <1>1, OrderOfAhead DEF Ahead
<1>. QED BY <1>1, <1>2, <1>3 DEF Waits

LEMMA StateOfRequest ==
    ASSUME WorkInv, TokenInv, EarlyInv, Accounted, DoneIsAnswered
    PROVE  StatesAreKnown
<1>1. SUFFICES ASSUME NEW n \in RequestNumbers
               PROVE  IsKnown(n)
  BY DEF StatesAreKnown
<1>2. /\ TypeOK /\ IInv /\ n \in Numbers /\ IsRequest(inbox[n])
      /\ replies[n] \in Seq(Replies) /\ Len(replies[n]) \in Nat
      /\ Len(replies[n]) <= 1
  <2>1. TypeOK /\ IInv /\ n \in Numbers /\ IsRequest(inbox[n])
    BY DEF WorkInv, SentInv, IInv, RequestNumbers
  <2>2. replies[n] \in Seq(Replies)
    BY <2>1, NumbersAreAnInterval DEF TypeOK
  <2>. QED BY <2>1, <2>2 DEF IInv, AtMostOneReply
<1>3. NotLookedAt(n) <=> Waits(n)
  BY NotLookedAtIsUnlooked DEF EarlyInv, Waits
<1>4. CASE Answered(n)
  <2>1. Len(replies[n]) = 1
    <3>1. replies[n] # <<>>
      BY <1>4 DEF Answered
    <3>2. Len(replies[n]) # 0
      BY <1>2, <3>1
    <3>3. \A k \in Nat : k <= 1 /\ k # 0 => k = 1
      OBVIOUS
    <3>. QED BY <1>2, <3>2, <3>3, Zenon
  <2>2. ~(Len(replies[n]) > 1) /\ ~(~Answered(n) /\ NotLookedAt(n))
        /\ ~(~Answered(n) /\ worker = "run" /\ hand.number = n)
    BY <1>4, <2>1
  <2>3. ContractState(n) = replies[n][1]
    BY <2>1, <2>2, Zenon DEF ContractState
  <2>. QED BY <1>4, <2>3 DEF KnownAnswer, IsKnown
<1>5. CASE ~Answered(n) /\ Waits(n)
  <2>1. Len(replies[n]) = 0
    <3>1. replies[n] = <<>>
      BY <1>5 DEF Answered
    <3>. QED BY <3>1
  <2>2. ~Runs(n)
    BY <1>2, <1>5, RunningDoesNotWait
  <2>. QED BY <1>3, <1>5, <2>1, <2>2 DEF KnownToWait, Runs, ContractState, IsKnown
<1>6. CASE ~Answered(n) /\ ~Waits(n) /\ Runs(n)
  <2>1. Len(replies[n]) = 0
    <3>1. replies[n] = <<>>
      BY <1>6 DEF Answered
    <3>. QED BY <3>1
  <2>2. token = n
    BY <1>6 DEF Runs, EarlyInv, TokensAreKept
  <2>. QED BY <1>3, <1>6, <2>1, <2>2 DEF KnownToRun, Runs, ContractState, IsKnown
<1>7. CASE ~Answered(n) /\ ~Waits(n) /\ ~Runs(n)
  <2>1. Len(replies[n]) = 0
    <3>1. replies[n] = <<>>
      BY <1>7 DEF Answered
    <3>. QED BY <3>1
  <2>2. \A m \in Ahead : m.number # n
    <3>1. SUFFICES ASSUME NEW m \in Ahead, m.number = n PROVE FALSE
      OBVIOUS
    <3>2. m = hand /\ worker \in {"run", "clear"} /\ Busy
      BY <1>2, <1>7, <3>1
         DEF Waits, Unlooked, Ahead, Busy, IInv, TypeOK, Threads
    <3>3. worker = "clear"
      BY <1>7, <3>1, <3>2 DEF Runs
    <3>. QED BY <1>7, <3>1, <3>2, <3>3 DEF TokenInv, ClearsAnswered
  <2>3. n \in behind
    BY <1>2, <1>7, <2>2 DEF Accounted, DoneIsAnswered
  <2>. QED BY <1>3, <1>7, <2>1, <2>3 DEF KnownForgotten, Runs, ContractState, IsKnown
<1>. QED BY <1>4, <1>5, <1>6, <1>7

LEMMA ContractInvariance ==
    ASSUME ReuseIds = FALSE
    PROVE  Spec => []ContractInv
<1>1. WorkInv /\ TokenInv /\ EarlyInv /\ ReplayInv /\ Accounted /\ DoneIsAnswered
        /\ ShutdownInv
        => ContractInv
  BY StateOfRequest DEF ContractInv
<1>. QED BY WorkInvariance, TokenInvariance, EarlyInvariance, ReplayInvariance,
            AccountedInvariance, DoneIsAnsweredInvariance, ShutdownInvariance, <1>1,
            PTL

-----------------------------------------------------------------------------
(* Steps of the contract.                                                  *)

Request == [n \in RequestNumbers |-> ContractState(n)]

Waived == behind \cap RequestNumbers

LEMMA ContractSees ==
    /\ Contract!contractVars = <<Request, Waived, shutdownReplies = 0>>
    /\ DOMAIN Request = RequestNumbers
BY DEF Contract!contractVars, Request, Waived, RequestNumbers

\* The requests stay in their states, but for the one that moves.
LEMMA NoRequestMoves ==
    ASSUME UNCHANGED <<RequestNumbers, Waived, shutdownReplies>>,
           \A n \in RequestNumbers : ContractState(n)' = ContractState(n)
    PROVE  UNCHANGED Contract!contractVars
<1>1. Request' = Request
  BY DEF Request
<1>. QED BY <1>1, ContractSees
         DEF Contract!contractVars, Request, Waived, RequestNumbers

LEMMA OneRequestMoves ==
    ASSUME UNCHANGED <<RequestNumbers, Waived, shutdownReplies>>,
           NEW r \in RequestNumbers,
           \A n \in RequestNumbers : n # r => ContractState(n)' = ContractState(n),
           NEW from, from = ContractState(r), NEW to, to = ContractState(r)'
    PROVE  Contract!Move(r, from, to)
<1>1. Request' = [Request EXCEPT ![r] = to] /\ Request[r] = from
  BY DEF Request
<1>. QED BY <1>1 DEF Contract!Move, Request, Waived, RequestNumbers

LEMMA OneRequestArrives ==
    ASSUME NEW r, r \notin RequestNumbers, RequestNumbers' = RequestNumbers \cup {r},
           UNCHANGED <<Waived, shutdownReplies>>,
           \A n \in RequestNumbers : ContractState(n)' = ContractState(n),
           NEW state, state = ContractState(r)'
    PROVE  Contract!Receive(r, state)
<1>1. Request' = [n \in RequestNumbers \cup {r} |->
                    IF n = r THEN state ELSE Request[n]]
  BY DEF Request
<1>. QED BY <1>1, ContractSees
         DEF Contract!Receive, Request, Waived, RequestNumbers

\* What a step of the contract is.
LEMMA StepsOfContract ==
    /\ \A r \in RequestNumbers' :
         Contract!Accept(r) \/ Contract!Refuse(r) => Contract!Next
    /\ \A r \in RequestNumbers :
         Contract!Cancel(r) \/ Contract!Start(r) \/ Contract!Answer(r)
           \/ Contract!Waive(r) \/ Contract!Forget(r)
            => Contract!Next
    /\ Contract!Close => Contract!Next
BY DEF Contract!Next, RequestNumbers

\* A request keeps its state unless it is answered, cancelled, begun or dropped.
LEMMA StateKept ==
    ASSUME StatesAreKnown, StatesAreKnown',
           NEW n \in RequestNumbers, n \in RequestNumbers',
           replies'[n] = replies[n],
           ~Answered(n) => (Runs(n)' <=> Runs(n)) /\ (Waits(n)' <=> Waits(n)),
           n \in cancelledEarly' <=> n \in cancelledEarly,
           Runs(n) /\ ~Answered(n) => (n \in cancelled' <=> n \in cancelled)
    PROVE  ContractState(n)' = ContractState(n)
<1>1. IsKnown(n) /\ IsKnown(n)' /\ (Answered(n)' <=> Answered(n))
  BY DEF StatesAreKnown, Answered
<1>2. CASE Answered(n)
  BY <1>1, <1>2 DEF IsKnown, KnownAnswer, KnownToWait, KnownToRun, KnownForgotten
<1>3. CASE ~Answered(n) /\ Runs(n)
  BY <1>1, <1>3 DEF IsKnown, KnownAnswer, KnownToWait, KnownToRun, KnownForgotten
<1>4. CASE ~Answered(n) /\ ~Runs(n) /\ Waits(n)
  BY <1>1, <1>4 DEF IsKnown, KnownAnswer, KnownToWait, KnownToRun, KnownForgotten
<1>5. CASE ~Answered(n) /\ ~Runs(n) /\ ~Waits(n)
  BY <1>1, <1>5 DEF IsKnown, KnownAnswer, KnownToWait, KnownToRun, KnownForgotten
<1>. QED BY <1>2, <1>3, <1>4, <1>5

-----------------------------------------------------------------------------
(* The steps of the main thread.                                           *)

LEMMA ReceiveRefines ==
    ASSUME ContractInv, StatesAreKnown', NEW m \in Sendable, Receive(m)
    PROVE  Contract!Next \/ UNCHANGED Contract!contractVars
<1>1. /\ TypeOK /\ shutdownReplies \in Nat
      /\ cancelledEarly \subseteq Numbers /\ behind \subseteq Numbers
  BY DEF ContractInv, WorkInv, SentInv, IInv, TypeOK
<1>2. /\ Numbers' = Numbers \cup {m.number} /\ m.number \notin Numbers
      /\ inbox'[m.number] = m
      /\ \A n \in Numbers : inbox'[n] = inbox[n] /\ replies'[n] = replies[n]
      /\ Answered(m.number)' <=> RejectAfterShutdown(m)
      /\ UNCHANGED <<worker, hand, token, cancelled, cancelledEarly>>
      /\ Unlooked' = Unlooked \cup {m} \/ Unlooked' = Unlooked
  BY <1>1, InboxAfterReceive, AnsweredAfterReceive, AheadAfterReceive DEF Receive
<1>3. RequestNumbers' = RequestNumbers \cup (IF IsRequest(m) THEN {m.number} ELSE {})
  BY <1>2 DEF RequestNumbers, IsRequest
<1>4. ASSUME NEW n \in RequestNumbers
      PROVE  ContractState(n)' = ContractState(n)
  <2>1. n \in Numbers /\ n \in RequestNumbers'
    BY <1>3 DEF RequestNumbers
  <2>2. (Runs(n)' <=> Runs(n)) /\ (Waits(n)' <=> Waits(n))
    BY <1>2, <2>1 DEF Runs, Waits
  <2>. QED BY <1>2, <2>1, <2>2, StateKept DEF ContractInv
<1>5. /\ UNCHANGED <<shutdownReplies, behind>> /\ reader = "reading"
      /\ ReadMessage(m) => ~shutdownRequested
      /\ RejectAfterShutdown(m) => shutdownRequested
  BY DEF Receive, ReadMessage, RejectAfterShutdown
<1>6. CASE ~IsRequest(m)
  BY <1>3, <1>4, <1>5, <1>6, NoRequestMoves DEF Waived
<1>7. CASE IsRequest(m)
  <2> DEFINE r == m.number
  <2>1. /\ r \notin RequestNumbers /\ RequestNumbers' = RequestNumbers \cup {r}
        /\ r \in RequestNumbers' /\ r \notin behind /\ UNCHANGED Waived
    BY <1>1, <1>2, <1>3, <1>5, <1>7 DEF RequestNumbers, Waived
  <2>2. ASSUME NEW state, state = ContractState(r)'
        PROVE  Contract!Receive(r, state)
    BY <1>4, <1>5, <2>1, <2>2, OneRequestArrives
  <2>3. IsKnown(r)' /\ r \notin behind'
    BY <1>5, <2>1 DEF StatesAreKnown
  <2>4. CASE ReadMessage(m)
    <3>1. ~Answered(r)' /\ r \notin cancelledEarly'
      BY <1>1, <1>2, <1>5, <2>4 DEF RejectAfterShutdown, ReadMessage
    <3>2. ~Runs(r)'
      <4>1. CASE worker = "run"
        <5>1. hand.number \in Numbers
          BY <4>1, HandIsAsSent DEF ContractInv, WorkInv
        <5>. QED BY <1>2, <5>1 DEF Runs
      <4>2. CASE worker # "run"
        BY <1>2, <4>2 DEF Runs
      <4>. QED BY <4>1, <4>2
    <3>3. ContractState(r)' = "queued"
      BY <2>3, <3>1, <3>2
         DEF IsKnown, KnownAnswer, KnownToWait, KnownToRun, KnownForgotten
    <3>4. shutdownReplies = 0
      BY <1>1, <1>5, <2>4 DEF ContractInv, ShutdownInv
    <3>5. Contract!Accept(r)
      BY <2>2, <3>3, <3>4 DEF Contract!Accept
    <3>. QED BY <2>1, <3>5, StepsOfContract
  <2>5. CASE RejectAfterShutdown(m)
    <3>1. Answered(r)'
      BY <1>2, <2>5
    <3>2. replies'[r] = <<"InvalidRequest">>
      <4>1. /\ Len(inbox) \in Nat /\ r = Len(inbox) + 1
            /\ replies \in Seq(Seq(Replies)) /\ Len(replies) = Len(inbox)
        BY <1>1, NumbersAreAnInterval, SendableIsMessage DEF TypeOK
      <4>2. <<"InvalidRequest">> \in Seq(Replies)
        BY DEF Replies
      <4>3. replies' = Append(replies, <<"InvalidRequest">>)
        BY <2>5 DEF RejectAfterShutdown
      <4>. QED BY <4>1, <4>2, <4>3
    <3>3. ContractState(r)' = "InvalidRequest"
      <4>1. <<"InvalidRequest">>[1] = "InvalidRequest"
        OBVIOUS
      <4>. QED BY <2>3, <3>1, <3>2, <4>1
               DEF IsKnown, KnownAnswer, KnownToWait, KnownToRun, KnownForgotten
    <3>4. shutdownReplies # 0
      BY <1>1, <1>5, <2>5 DEF ContractInv, ShutdownInv
    <3>5. Contract!Refuse(r)
      BY <2>2, <3>3, <3>4 DEF Contract!Refuse
    <3>. QED BY <2>1, <3>5, StepsOfContract
  <2>. QED BY <2>4, <2>5 DEF Receive
<1>. QED BY <1>6, <1>7

\* The one request with the id is cancelled, if it waits or runs.
LEMMA CancelRefines ==
    ASSUME ContractInv, StatesAreKnown', NEW id \in Ids, ReadCancel(id)
    PROVE  Contract!Next \/ UNCHANGED Contract!contractVars
<1>1. /\ UNCHANGED <<messages, workerVars, inbox, replies, behind, shutdownReplies>>
      /\ UNCHANGED <<worker, hand>>
      /\ cancelledEarly' = cancelledEarly \cup
                             {n \in UsedBy(id) : ~Answered(n) /\ NotLookedAt(n)}
      /\ \E n : n \in UsedBy(id)
  BY DEF ReadCancel, workerVars
<1>2. UNCHANGED <<RequestNumbers, Waived>>
  BY <1>1 DEF RequestNumbers, Numbers, Waived
<1>3. PICK r : /\ r \in RequestNumbers /\ inbox[r].id = id
               /\ \A n \in UsedBy(id) : n = r
  <2>1. PICK r \in UsedBy(id) : TRUE
    BY <1>1
  <2>. QED BY <2>1
           DEF UsedBy, RequestNumbers, Numbers, ContractInv, EarlyInv, IdsDiffer
<1>4. cancelled' \subseteq cancelled \cup {r}
  <2>1. id \in DOMAIN cancellationTokens => cancellationTokens[id] \in UsedBy(id)
    BY DEF ContractInv, WorkInv, SentInv, IInv, TypeOK, TokenInv, TokensOfIds,
           UsedBy, Numbers
  <2>. QED BY <1>3, <2>1 DEF ReadCancel
<1>5. /\ cancelled \subseteq cancelled' /\ cancelledEarly \subseteq cancelledEarly'
      /\ cancelledEarly' \subseteq cancelledEarly \cup {r}
  BY <1>1, <1>3 DEF ReadCancel
<1>6. \A n : (Runs(n)' <=> Runs(n)) /\ (Waits(n)' <=> Waits(n))
  BY <1>1 DEF Runs, Waits, Unlooked, Waiting, workerVars
<1>7. ASSUME NEW n \in RequestNumbers, n # r
      PROVE  ContractState(n)' = ContractState(n)
  BY <1>1, <1>2, <1>4, <1>5, <1>6, <1>7, StateKept DEF ContractInv
<1>8. IsKnown(r) /\ IsKnown(r)' /\ (Answered(r)' <=> Answered(r))
  BY <1>1, <1>2, <1>3 DEF ContractInv, StatesAreKnown, Answered
<1>9. ASSUME NEW from, from = ContractState(r), NEW to, to = ContractState(r)'
      PROVE  Contract!Move(r, from, to)
  BY <1>1, <1>2, <1>3, <1>7, <1>9, OneRequestMoves
<1>10. CASE ContractState(r)' = ContractState(r)
  BY <1>1, <1>2, <1>7, <1>10, NoRequestMoves
<1>11. CASE ContractState(r)' # ContractState(r)
  <2>1. ~Answered(r)
    BY <1>1, <1>8, <1>11
       DEF IsKnown, KnownAnswer, KnownToWait, KnownToRun, KnownForgotten
  <2>2. CASE Runs(r)
    <3>1. ContractState(r) = "running" /\ ContractState(r)' = "stopping"
      BY <1>5, <1>6, <1>8, <1>11, <2>1, <2>2
         DEF IsKnown, KnownAnswer, KnownToWait, KnownToRun, KnownForgotten
    <3>2. Contract!Move(r, "running", "stopping")
      BY <1>9, <3>1
    <3>. QED BY <1>3, <3>2, StepsOfContract DEF Contract!Cancel
  <2>3. CASE ~Runs(r)
    <3>1. ContractState(r) = "queued" /\ ContractState(r)' = "doomed"
      BY <1>5, <1>6, <1>8, <1>11, <2>1, <2>3
         DEF IsKnown, KnownAnswer, KnownToWait, KnownToRun, KnownForgotten
    <3>2. Contract!Move(r, "queued", "doomed")
      BY <1>9, <3>1
    <3>. QED BY <1>3, <3>2, StepsOfContract DEF Contract!Cancel
  <2>. QED BY <2>2, <2>3
<1>. QED BY <1>10, <1>11

LEMMA ShutdownRefines ==
    ASSUME ContractInv, StatesAreKnown',
           ReadShutdown \/ JoinWorker \/ ReadExit \/ EndOfInput \/ UNCHANGED vars
    PROVE  Contract!Next \/ UNCHANGED Contract!contractVars
<1>1. UNCHANGED <<messages, workerVars, inbox, replies, cancelled, cancelledEarly,
                  behind>>
  BY DEF ReadShutdown, JoinWorker, ReadExit, EndOfInput, vars, queueVars,
         historyVars
<1>2. UNCHANGED <<RequestNumbers, Waived>>
  BY <1>1 DEF RequestNumbers, Numbers, Waived
<1>3. \A n \in RequestNumbers : ContractState(n)' = ContractState(n)
  <2>1. \A n : (Runs(n)' <=> Runs(n)) /\ (Waits(n)' <=> Waits(n))
    BY <1>1 DEF Runs, Waits, Unlooked, Waiting, workerVars
  <2>. QED BY <1>1, <1>2, <2>1, StateKept DEF ContractInv
<1>4. CASE UNCHANGED shutdownReplies
  BY <1>2, <1>3, <1>4, NoRequestMoves
<1>5. CASE JoinWorker
  <2>1. shutdownReplies = 0 /\ shutdownReplies' # 0
    <3>1. shutdownReplies \in Nat
      BY DEF ContractInv, WorkInv, SentInv, IInv, TypeOK
    <3>. QED BY <1>5, <3>1 DEF JoinWorker, ContractInv, ShutdownInv
  <2>2. Request' = Request
    BY <1>2, <1>3 DEF Request
  <2>3. Contract!Close
    BY <1>2, <2>1, <2>2 DEF Contract!Close, Request, Waived, RequestNumbers
  <2>. QED BY <2>3, StepsOfContract
<1>. QED BY <1>4, <1>5 DEF ReadShutdown, ReadExit, EndOfInput, vars, historyVars

-----------------------------------------------------------------------------
(* The steps of the worker thread.                                         *)

\* The request in hand is answered with what its state allows.
LEMMA ReplyRefines ==
    ASSUME ContractInv, StatesAreKnown', UNCHANGED shutdownReplies,
           NEW outcome \in Replies, Replying(outcome), NEW r, r = hand.number,
           outcome \in Contract!AnswersFrom(ContractState(r))
    PROVE  Contract!Next
<1>1. /\ IInv /\ Busy /\ IsRequest(hand) /\ worker' = "clear"
      /\ UNCHANGED <<inbox, hand, messages, configPostponedMessages, inReplay,
                     replaying, cancelledEarly, behind>>
  BY DEF ContractInv, WorkInv, SentInv, Replying
<1>2. /\ r \in Numbers /\ hand = inbox[r] /\ Answered(r)'
      /\ replies'[r] = <<outcome>>
      /\ \A n \in Numbers : n # r => replies'[n] = replies[n]
  BY <1>1, AnsweredAfterReply, HandIsAsSent DEF ContractInv, WorkInv, Busy
<1>3. UNCHANGED <<RequestNumbers, Waived>> /\ r \in RequestNumbers
  BY <1>1, <1>2 DEF RequestNumbers, Numbers, Waived
<1>4. ASSUME NEW n \in RequestNumbers, n # r
      PROVE  ContractState(n)' = ContractState(n)
  <2>1. ~Runs(n) /\ ~Runs(n)' /\ n \in Numbers
    BY <1>1, <1>4 DEF Runs, RequestNumbers
  <2>2. Waits(n)' <=> Waits(n)
    BY <1>1, <1>4 DEF Waits, Unlooked, Waiting
  <2>. QED BY <1>1, <1>2, <1>3, <1>4, <2>1, <2>2, StateKept DEF ContractInv
<1>5. ContractState(r)' = outcome
  <2>1. IsKnown(r)'
    BY <1>3 DEF StatesAreKnown
  <2>2. <<outcome>>[1] = outcome
    OBVIOUS
  <2>. QED BY <1>1, <1>2, <2>1, <2>2
           DEF IsKnown, KnownAnswer, KnownToWait, KnownToRun, KnownForgotten
<1>6. Request[r] = ContractState(r)
  BY <1>3 DEF Request
<1>7. ASSUME NEW from, from = ContractState(r) PROVE Contract!Move(r, from, outcome)
  BY <1>3, <1>4, <1>5, <1>7, OneRequestMoves
<1>8. Contract!Answer(r)
  BY <1>6, <1>7 DEF Contract!Answer, Request, RequestNumbers
<1>. QED BY <1>3, <1>8, StepsOfContract

\* The request in hand, as the contract sees it before its handler begins.
LEMMA StateInHand ==
    ASSUME ContractInv, Busy, IsRequest(hand), NEW r, r = hand.number
    PROVE  /\ r \in RequestNumbers /\ r \in Numbers /\ ~Answered(r)
           /\ worker # "run" => ContractState(r) \in {"queued", "doomed"}
           /\ worker = "run" => /\ ContractState(r) \in {"running", "stopping"}
                                /\ token \in cancelled => ContractState(r) = "stopping"
           /\ worker = "lookup" =>
                /\ hand.id \in DOMAIN cancellationTokens
                /\ cancellationTokens[hand.id] = r
                /\ ContractState(r) = IF r \in cancelled THEN "doomed" ELSE "queued"
<1>1. hand \in Ahead /\ IInv
  BY DEF Ahead, ContractInv, WorkInv, SentInv
<1>2. r \in RequestNumbers /\ r \in Numbers /\ ~Answered(r)
  BY <1>1, RequestIsUsed DEF ContractInv, WorkInv, RequestNumbers
<1>3. KnownToWait(r) \/ KnownToRun(r)
  <2>1. IsKnown(r)
    BY <1>2 DEF ContractInv, StatesAreKnown
  <2>2. worker \in {"handling", "lookup", "run"}
    BY <1>1, <1>2 DEF Busy, IInv, TypeOK, Threads, ContractInv, TokenInv,
                      ClearsAnswered
  <2>3. Waits(r) \/ Runs(r)
    BY <2>2 DEF Waits, Unlooked, Runs
  <2>. QED BY <1>2, <2>1, <2>3 DEF IsKnown, KnownAnswer, KnownForgotten
<1>4. CASE worker # "run"
  <2>1. KnownToWait(r)
    BY <1>3, <1>4 DEF KnownToRun, Runs
  <2>2. worker = "lookup" => hand \in Unlooked
    BY DEF Unlooked
  <2>3. worker = "lookup" => (r \in cancelledEarly <=> r \in cancelled)
    BY <2>2 DEF ContractInv, EarlyInv, CancelledDoNotRun
  <2>4. /\ hand.id \in DOMAIN cancellationTokens
        /\ cancellationTokens[hand.id] = r
    BY <1>1 DEF ContractInv, EarlyInv, TokensAreKept
  <2>. QED BY <1>2, <1>4, <2>1, <2>3, <2>4 DEF KnownToWait
<1>5. CASE worker = "run"
  <2>1. KnownToRun(r)
    BY <1>3, <1>5 DEF KnownToWait, Runs
  <2>. QED BY <1>2, <1>5, <2>1 DEF KnownToRun
<1>. QED BY <1>4, <1>5

LEMMA AnswerRefines ==
    ASSUME ContractInv, StatesAreKnown', RefuseRequest \/ RunRequest
    PROVE  Contract!Next
<1>1. /\ IInv /\ UNCHANGED shutdownReplies /\ Busy
      /\ RefuseRequest => worker = "handling"
      /\ RunRequest => worker = "run"
  BY DEF ContractInv, WorkInv, SentInv, RefuseRequest, RunRequest, Busy
<1>2. PICK r : r = hand.number
  OBVIOUS
<1>3. CASE RefuseRequest
  <2>1. PICK outcome \in {"InvalidRequest", "ServerNotInitialized"} :
          Replying(outcome)
    BY <1>3, RefuseReplies
  <2>2. ContractState(r) \in {"queued", "doomed"}
    BY <1>1, <1>2, <1>3, <2>1, StateInHand DEF Replying
  <2>3. outcome \in Contract!AnswersFrom(ContractState(r))
    BY <2>2 DEF Contract!AnswersFrom, Contract!Refusals
  <2>. QED BY <1>1, <1>2, <2>1, <2>3, ReplyRefines DEF Replies
<1>4. CASE RunRequest
  <2>1. PICK outcome \in {"result", "error", "RequestCancelled"} :
          /\ Replying(outcome)
          /\ outcome = "RequestCancelled" => token \in cancelled
    BY <1>1, <1>4, RunReplies
  <2>2. /\ ContractState(r) \in {"running", "stopping"}
        /\ outcome = "RequestCancelled" => ContractState(r) = "stopping"
    BY <1>1, <1>2, <1>4, <2>1, StateInHand DEF Replying
  <2>3. outcome \in Contract!AnswersFrom(ContractState(r))
    BY <2>2 DEF Contract!AnswersFrom, Contract!Results
  <2>. QED BY <1>1, <1>2, <2>1, <2>3, ReplyRefines DEF Replies
<1>. QED BY <1>3, <1>4

\* The token that is looked up is the request's own: a request whose handler is
\* not run was cancelled while it was queued.
LEMMA LookupRefines ==
    ASSUME ContractInv, StatesAreKnown', LookupToken
    PROVE  Contract!Next
<1>1. /\ IInv
      /\ UNCHANGED <<shutdownReplies, hand, inbox, messages, inReplay, replaying,
                     configPostponedMessages, cancelled, cancelledEarly, behind>>
      /\ Busy /\ worker = "lookup" /\ IsRequest(hand)
  BY DEF ContractInv, WorkInv, SentInv, IInv, TypeOK, LookupToken, Busy, queueVars
<1>2. PICK r : r = hand.number
  OBVIOUS
<1>3. /\ r \in RequestNumbers /\ ~Answered(r)
      /\ hand.id \in DOMAIN cancellationTokens
      /\ cancellationTokens[hand.id] = r
      /\ ContractState(r) = IF r \in cancelled THEN "doomed" ELSE "queued"
  BY <1>1, <1>2, StateInHand
<1>4. token' = r
  BY <1>3 DEF LookupToken
<1>5. CASE r \in cancelled
  <2>1. Replying("RequestCancelled")
    BY <1>1, <1>4, <1>5, LookupReplies
  <2>2. "RequestCancelled" \in Contract!AnswersFrom(ContractState(r))
    <3>1. ContractState(r) = "doomed"
      BY <1>3, <1>5
    <3>. QED BY <3>1 DEF Contract!AnswersFrom
  <2>. QED BY <1>1, <1>2, <2>1, <2>2, ReplyRefines DEF Replies
<1>6. CASE r \notin cancelled
  <2>1. worker' = "run" /\ UNCHANGED replies
    BY <1>1, <1>4, <1>6, LookupReplies
  <2>2. UNCHANGED <<RequestNumbers, Waived>>
    BY <1>1 DEF RequestNumbers, Numbers, Waived
  <2>3. ASSUME NEW n \in RequestNumbers, n # r
        PROVE  ContractState(n)' = ContractState(n)
    <3>1. ~Runs(n) /\ ~Runs(n)'
      BY <1>1, <1>2, <2>3 DEF Runs
    <3>2. Waits(n)' <=> Waits(n)
      BY <1>1, <1>2, <2>1, <2>3 DEF Waits, Unlooked, Waiting
    <3>. QED BY <1>1, <2>1, <2>2, <2>3, <3>1, <3>2, StateKept DEF ContractInv
  <2>4. ContractState(r)' = "running"
    <3>1. IsKnown(r)'
      BY <1>3, <2>2 DEF StatesAreKnown
    <3>2. Runs(r)' /\ ~Answered(r)'
      BY <1>1, <1>2, <1>3, <2>1 DEF Runs, Answered
    <3>. QED BY <1>1, <1>6, <3>1, <3>2
             DEF IsKnown, KnownAnswer, KnownToWait, KnownToRun, KnownForgotten
  <2>5. Contract!Move(r, "queued", "running")
    BY <1>1, <1>3, <1>6, <2>2, <2>3, <2>4, OneRequestMoves
  <2>. QED BY <1>3, <2>5, StepsOfContract DEF Contract!Start
<1>. QED BY <1>5, <1>6

\* The other steps of the worker leave the requests in their states ...
LEMMA OthersRefine ==
    ASSUME ContractInv, StatesAreKnown', ~Postpone,
           PopMessage \/ StopWorker \/ ReplayNext \/ ReplayEnd \/ AcceptRequest
             \/ HandleNotification \/ HandleClientResponse
             \/ ClearCancellationToken
    PROVE  UNCHANGED Contract!contractVars
<1>1. /\ UNCHANGED <<inbox, replies, cancelled, cancelledEarly, behind,
                     shutdownReplies>>
      /\ worker # "run" /\ worker' # "run" /\ IInv
  BY DEF PopMessage, StopWorker, ReplayNext, ReplayEnd, AcceptRequest,
         HandleNotification, HandleClientResponse, ClearCancellationToken, Finish,
         queueVars, historyVars, ContractInv, WorkInv, SentInv
<1>2. UNCHANGED <<RequestNumbers, Waived>>
  BY <1>1 DEF RequestNumbers, Numbers, Waived
<1>3. ASSUME NEW n \in RequestNumbers
      PROVE  Waits(n)' <=> Waits(n)
  <2>1. CASE ClearCancellationToken
    BY <2>1 DEF ClearCancellationToken, Finish, Waits, Unlooked, Waiting
  <2>2. CASE ~ClearCancellationToken
    <3>1. Unlooked' \subseteq Unlooked
      BY <1>1, <2>2, WorkerMovesOn DEF ContractInv, EarlyInv
    <3>2. \/ Unlooked \subseteq Unlooked'
          \/ /\ Unlooked \subseteq Unlooked' \cup {hand}
             /\ worker = "handling" /\ ~IsRequest(hand)
      BY <1>1, <2>2, NothingMovesAway
    <3>3. worker = "handling" => hand = inbox[hand.number]
      BY HandIsAsSent DEF ContractInv, WorkInv
    <3>4. ~IsRequest(hand) /\ worker = "handling" => hand.number # n
      BY <3>3 DEF RequestNumbers
    <3>. QED BY <3>1, <3>2, <3>4 DEF Waits
  <2>. QED BY <2>1, <2>2
<1>4. \A n \in RequestNumbers : ContractState(n)' = ContractState(n)
  <2>1. \A n : ~Runs(n) /\ ~Runs(n)'
    BY <1>1 DEF Runs
  <2>. QED BY <1>1, <1>2, <1>3, <2>1, StateKept DEF ContractInv
<1>. QED BY <1>1, <1>2, <1>4, NoRequestMoves

\* ... and so does Postpone, unless it is in the loop: there the request waits
\* behind an addition of folders and is dropped with the rest of the loop.
LEMMA PostponeRefines ==
    ASSUME ContractInv, StatesAreKnown', Postpone
    PROVE  Contract!Next \/ UNCHANGED Contract!contractVars
<1>1. /\ UNCHANGED <<inbox, replies, cancelled, cancelledEarly, shutdownReplies>>
      /\ worker = "handling" /\ Busy /\ worker' = "waiting" /\ IInv
      /\ behind' = behind \/ behind' = behind \cup {hand.number}
      /\ inReplay => hand.number \in behind /\ UNCHANGED behind
  BY ReplayInvAfterPostpone
     DEF Postpone, Finish, queueVars, Busy, ContractInv, WorkInv, SentInv
<1>2. PICK r : r = hand.number
  OBVIOUS
<1>3. /\ UNCHANGED RequestNumbers /\ hand = inbox[r]
      /\ r \in RequestNumbers <=> IsRequest(hand)
  BY <1>1, <1>2, HandIsAsSent DEF RequestNumbers, Numbers, ContractInv, WorkInv
<1>4. /\ Unlooked' \subseteq Unlooked
      /\ Unlooked \subseteq Unlooked' \cup {hand}
      /\ IsRequest(hand) /\ ~inReplay => Unlooked \subseteq Unlooked'
  BY <1>1, WorkerMovesOn, NothingMovesAway DEF ContractInv, EarlyInv
<1>5. ASSUME NEW n \in RequestNumbers, n # r \/ ~inReplay
      PROVE  ContractState(n)' = ContractState(n)
  <2>1. Waits(n)' <=> Waits(n)
    BY <1>2, <1>3, <1>4, <1>5 DEF Waits
  <2>2. ~Runs(n) /\ ~Runs(n)'
    BY <1>1 DEF Runs
  <2>. QED BY <1>1, <1>3, <2>1, <2>2, StateKept DEF ContractInv
<1>6. CASE ~IsRequest(hand)
  <2>1. UNCHANGED Waived
    BY <1>1, <1>2, <1>3, <1>6 DEF Waived
  <2>2. \A n \in RequestNumbers : ContractState(n)' = ContractState(n)
    BY <1>3, <1>5, <1>6
  <2>. QED BY <1>1, <1>3, <2>1, <2>2, NoRequestMoves
<1>7. CASE IsRequest(hand)
  <2>1. /\ r \in RequestNumbers /\ ~Answered(r)
        /\ ContractState(r) \in {"queued", "doomed"}
    BY <1>1, <1>2, <1>7, StateInHand
  <2>2. CASE ~inReplay
    <3>1. \A n \in RequestNumbers : ContractState(n)' = ContractState(n)
      BY <1>5, <2>2
    <3>2. CASE behind' = behind
      BY <1>1, <1>3, <3>1, <3>2, NoRequestMoves DEF Waived
    <3>3. CASE behind' = behind \cup {r}
      <4>1. Waived' = Waived \cup {r}
        BY <1>3, <2>1, <3>3 DEF Waived
      <4>2. Request' = Request /\ Request[r] \in {"queued", "doomed"}
        BY <1>3, <2>1, <3>1 DEF Request
      <4>3. Contract!Waive(r)
        BY <1>1, <4>1, <4>2 DEF Contract!Waive, Request, Waived, RequestNumbers
      <4>. QED BY <2>1, <4>3, StepsOfContract
    <3>. QED BY <1>1, <1>2, <3>2, <3>3
  <2>3. CASE inReplay
    <3>1. UNCHANGED Waived /\ r \in Waived
      BY <1>1, <1>2, <1>3, <2>1, <2>3 DEF Waived
    <3>2. ASSUME NEW from, from = ContractState(r), NEW to, to = ContractState(r)'
          PROVE  Contract!Move(r, from, to)
      BY <1>1, <1>3, <1>5, <2>1, <3>1, <3>2, OneRequestMoves
    <3>3. /\ IsKnown(r) /\ IsKnown(r)' /\ ~Answered(r)' /\ ~Runs(r)'
          /\ r \in cancelledEarly' <=> r \in cancelledEarly
      BY <1>1, <1>3, <2>1 DEF ContractInv, StatesAreKnown, Answered, Runs
    <3>4. CASE ContractState(r)' = "forgotten"
      <4>1. \/ Contract!Move(r, "queued", "forgotten")
            \/ Contract!Move(r, "doomed", "forgotten")
        BY <2>1, <3>2, <3>4
      <4>2. Contract!Forget(r)
        BY <3>1, <4>1 DEF Contract!Forget, Waived, RequestNumbers
      <4>. QED BY <2>1, <4>2, StepsOfContract
    <3>5. CASE ContractState(r)' # "forgotten"
      <4>1. ContractState(r)' = ContractState(r)
        BY <2>1, <3>3, <3>5
           DEF IsKnown, KnownAnswer, KnownToWait, KnownToRun, KnownForgotten
      <4>2. \A n \in RequestNumbers : ContractState(n)' = ContractState(n)
        BY <1>5, <4>1
      <4>. QED BY <1>1, <1>3, <3>1, <4>2, NoRequestMoves
    <3>. QED BY <3>4, <3>5
  <2>. QED BY <2>2, <2>3
<1>. QED BY <1>6, <1>7

-----------------------------------------------------------------------------

LEMMA InitRefines == Init => Contract!Init
<1>1. ASSUME Init PROVE Contract!Init
  <2>1. RequestNumbers = {} /\ shutdownReplies = 0
    BY <1>1 DEF Init, RequestNumbers, Numbers
  <2>2. Request = [n \in {} |-> "queued"]
    BY <2>1 DEF Request
  <2>3. Waived = {}
    BY <2>1 DEF Waived
  <2>. QED BY <2>1, <2>2, <2>3 DEF Contract!Init, Request, Waived, RequestNumbers
<1>. QED BY <1>1

LEMMA StepRefines ==
    ASSUME ContractInv, StatesAreKnown', [Next]_vars
    PROVE  Contract!Next \/ UNCHANGED Contract!contractVars
<1>1. CASE ReadRequest \/ ReadNotification \/ ReadResponse \/ ReadLate
  <2>1. PICK m \in Sendable : Receive(m)
    BY <1>1 DEF ReadRequest, ReadNotification, ReadResponse, ReadLate, Sendable,
                Receive
  <2>. QED BY <2>1, ReceiveRefines
<1>2. CASE \E id \in Ids : ReadCancel(id)
  BY <1>2, CancelRefines
<1>3. CASE ReadShutdown \/ JoinWorker \/ ReadExit \/ EndOfInput \/ UNCHANGED vars
  BY <1>3, ShutdownRefines
<1>4. CASE Worker
  BY <1>4, AnswerRefines, LookupRefines, OthersRefine, PostponeRefines DEF Worker
<1>. QED BY <1>1, <1>2, <1>3, <1>4 DEF Next, Reader

\* The two threads implement the contract about requests: what a client that
\* does not use an id again sees of its requests (queued, cancelled in time,
\* running, answered once) is what a server without queue, postponement, replay
\* or tokens would show it.  Every request is promised an answer but those that
\* were postponed behind a postponed addition of folders, and only these may be
\* forgotten.
THEOREM ThreadsKeepContract ==
    ASSUME ReuseIds = FALSE
    PROVE  Spec => KeepsContract
<1>1. ContractInv /\ ContractInv' /\ [Next]_vars
        => [Contract!Next]_(Contract!contractVars)
  BY StepRefines DEF ContractInv
<1>. QED BY ContractInvariance, InitRefines, <1>1, PTL
         DEF Spec, KeepsContract, Contract!Spec
================================================================================
