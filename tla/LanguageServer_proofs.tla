------------------------- MODULE LanguageServer_proofs -------------------------
(***************************************************************************)
(* TypeOK and AtMostOneReply are invariants of LanguageServer, for every   *)
(* set of folders, ids and notifications and every bound on the messages.  *)
(***************************************************************************)
EXTENDS LanguageServer, WorkspaceConfiguration_proofs

\* The invariant that makes AtMostOneReply inductive: the messages that wait to
\* be replayed, the one in hand and those in the queue are numbered in the order
\* the worker will take them, so none is there twice, and none is answered yet.
\* What a replay has already taken from configPostponedMessages is not counted.
Waiting == IF inReplay THEN replaying ELSE configPostponedMessages

Busy == worker \in {"handling", "lookup", "run"}

Unanswered(m) == m.number \in Numbers /\ ~Answered(m.number)

Increasing(queue) ==
    \A i, j \in DOMAIN queue : i < j => queue[i].number < queue[j].number

QueuesInOrder ==
    /\ Increasing(messages) /\ Increasing(Waiting)
    /\ \A i \in DOMAIN messages : Unanswered(messages[i])
    /\ \A i \in DOMAIN Waiting :
         /\ Unanswered(Waiting[i])
         /\ ~IsResponse(Waiting[i])
         /\ \A j \in DOMAIN messages : Waiting[i].number < messages[j].number

HandInOrder ==
    Busy => /\ Unanswered(hand)
            /\ inReplay => ~IsResponse(hand)
            /\ \A i \in DOMAIN messages : hand.number < messages[i].number
            /\ \A i \in DOMAIN Waiting :
                 IF inReplay THEN hand.number < Waiting[i].number
                             ELSE Waiting[i].number < hand.number

IInv == TypeOK /\ QueuesInOrder /\ HandInOrder /\ AtMostOneReply

-----------------------------------------------------------------------------
(* Messages.                                                               *)

LEMMA NextNumber ==
    ASSUME TypeOK
    PROVE  /\ Len(inbox) + 1 \in Nat
           /\ <<>> \in Seq(Configs) /\ <<>> \in Seq(FolderUris)
<1>1. Len(inbox) \in Nat
  BY SequenceIsFunction DEF TypeOK
<1>. QED BY <1>1

\* What the client sends is a message, and carries the next number.
LEMMA InitializeIsMessage ==
    ASSUME TypeOK, NEW id \in Ids, NEW uris \in Seq(FolderUris),
           NEW capability \in BOOLEAN
    PROVE  LET m == Initialize(id, uris, capability)
           IN  m \in Messages /\ m.number = Len(inbox) + 1 /\ IsRequest(m)
BY NextNumber, LoopAssumption
   DEF Initialize, Message, Messages, MessageFields, MethodNames, IsRequest

LEMMA FeatureIsMessage ==
    ASSUME TypeOK, NEW id \in Ids, NEW uri \in FileUris
    PROVE  LET m == Feature(id, uri)
           IN  m \in Messages /\ m.number = Len(inbox) + 1 /\ IsRequest(m)
BY NextNumber, LoopAssumption
   DEF Feature, Message, Messages, MessageFields, MethodNames, IsRequest

LEMMA ResponseIsMessage ==
    ASSUME TypeOK, NEW id \in Nat, NEW configs \in Seq(Configs)
    PROVE  LET m == Response(id, configs)
           IN  m \in Messages /\ m.number = Len(inbox) + 1 /\ IsResponse(m)
BY NextNumber, LoopAssumption
   DEF Response, Message, Messages, MessageFields, MethodNames, IsRequest,
       IsResponse

LEMMA NotificationIsMessage ==
    ASSUME TypeOK, NEW method \in {"initialized"} \cup Methods,
           method # "workspace/didChangeConfiguration"
    PROVE  LET m == Notification(method)
           IN  /\ m \in Messages /\ m.number = Len(inbox) + 1
               /\ IsNotification(m)
BY NextNumber, LoopAssumption
   DEF Notification, Message, Messages, MessageFields, MethodNames, IsRequest,
       IsNotification

LEMMA DidChangeIsMessage ==
    ASSUME TypeOK, NEW uri \in FileUris, "textDocument/didChange" \in Methods
    PROVE  LET m == DidChange(uri)
           IN  /\ m \in Messages /\ m.number = Len(inbox) + 1
               /\ IsNotification(m)
BY NextNumber
   DEF DidChange, Notification, Message, Messages, MessageFields, MethodNames,
       IsRequest, IsNotification

LEMMA DidChangeConfigurationIsMessage ==
    ASSUME TypeOK, NEW config \in Configs,
           "workspace/didChangeConfiguration" \in Methods
    PROVE  LET m == DidChangeConfiguration(config)
           IN  /\ m \in Messages /\ m.number = Len(inbox) + 1
               /\ IsNotification(m)
<1>1. <<config>> \in Seq(Configs) /\ <<config>> # <<>>
  OBVIOUS
<1>. QED BY <1>1, NextNumber
         DEF DidChangeConfiguration, Notification, Message, Messages,
             MessageFields, MethodNames, IsRequest, IsNotification

LEMMA DidChangeWorkspaceFoldersIsMessage ==
    ASSUME TypeOK, NEW closed \in SUBSET FolderUris, NEW added \in Seq(FolderUris),
           "workspace/didChangeWorkspaceFolders" \in Methods
    PROVE  LET m == DidChangeWorkspaceFolders(closed, added)
           IN  /\ m \in Messages /\ m.number = Len(inbox) + 1
               /\ IsNotification(m)
BY NextNumber
   DEF DidChangeWorkspaceFolders, Notification, Message, Messages,
       MessageFields, MethodNames, IsRequest, IsNotification

LEMMA RequestsAreMessages ==
    ASSUME TypeOK, NEW m \in Requests
    PROVE  m \in Messages /\ m.number = Len(inbox) + 1 /\ IsRequest(m)
<1>1. \/ \E id \in Ids, uris \in InitialFolders, capability \in Capabilities :
            m = Initialize(id, uris, capability)
      \/ \E id \in Ids, uri \in FileUris : m = Feature(id, uri)
  BY DEF Requests, FreeIds
<1>. QED BY <1>1, InitializeIsMessage, FeatureIsMessage, LoopAssumption

LEMMA NotificationsAreMessages ==
    ASSUME TypeOK, NEW m \in Notifications
    PROVE  m \in Messages /\ m.number = Len(inbox) + 1 /\ IsNotification(m)
<1>1. CASE HandshakeOpen
  <2>1. m = Notification("initialized")
    BY <1>1 DEF Notifications
  <2>. QED BY <2>1, NotificationIsMessage
<1>2. CASE ~HandshakeOpen
  <2>1. PICK method \in Methods :
          m \in CASE method = "textDocument/didChange" ->
                      {DidChange(uri) : uri \in FileUris}
                 [] method = "workspace/didChangeConfiguration" ->
                      {DidChangeConfiguration(config) : config \in Configs}
                 [] method = "workspace/didChangeWorkspaceFolders" ->
                      {DidChangeWorkspaceFolders(change[1], change[2]) :
                          change \in Changes}
                 [] OTHER -> {Notification(method)}
    BY <1>2 DEF Notifications
  <2>2. CASE method = "textDocument/didChange"
    <3>1. PICK uri \in FileUris : m = DidChange(uri)
      BY <2>1, <2>2
    <3>. QED BY <3>1, <2>2, DidChangeIsMessage
  <2>3. CASE method = "workspace/didChangeConfiguration"
    <3>1. PICK config \in Configs : m = DidChangeConfiguration(config)
      BY <2>1, <2>3
    <3>. QED BY <3>1, <2>3, DidChangeConfigurationIsMessage
  <2>4. CASE method = "workspace/didChangeWorkspaceFolders"
    <3>1. PICK change \in FolderChanges :
            m = DidChangeWorkspaceFolders(change[1], change[2])
      BY <2>1, <2>4 DEF Changes
    <3>2. change[1] \in SUBSET FolderUris /\ change[2] \in Seq(FolderUris)
      BY LoopAssumption
    <3>. QED BY <3>1, <3>2, <2>4, DidChangeWorkspaceFoldersIsMessage
  <2>5. CASE method = "$/setTrace"
    <3>1. m = Notification(method)
      BY <2>1, <2>5
    <3>. QED BY <3>1, <2>5, NotificationIsMessage
  <2>. QED BY <2>2, <2>3, <2>4, <2>5, LoopAssumption
<1>. QED BY <1>1, <1>2

LEMMA ResponsesAreMessages ==
    ASSUME TypeOK, NEW m \in Responses
    PROVE  m \in Messages /\ m.number = Len(inbox) + 1 /\ IsResponse(m)
<1> DEFINE Full(id, config) == [i \in DOMAIN responseHandler[id] |-> config]
<1>1. PICK id \in asked \cap DOMAIN responseHandler, config \in Configs :
         m = Response(id, IF configurationCapability
                          THEN Full(id, config) ELSE <<>>)
  BY DEF Responses
<1>2. id \in Nat /\ responseHandler[id] \in Seq(Scopes)
  BY DEF TypeOK, ConfigTypeOK
<1>3. Full(id, config) \in Seq(Configs)
  <2>1. Full(id, config) \in [1..Len(responseHandler[id]) -> Configs]
    BY <1>2, SequenceIsFunction
  <2>. QED BY <2>1, <1>2, SequenceIsFunction, FunctionIsSequence
<1>. HIDE DEF Full
<1>4. (IF configurationCapability THEN Full(id, config) ELSE <<>>) \in Seq(Configs)
  BY <1>3
<1>. QED BY <1>1, <1>2, <1>4, ResponseIsMessage
-----------------------------------------------------------------------------
(* What every step relies on.                                              *)

LEMMA NumbersAreAnInterval ==
    ASSUME TypeOK
    PROVE  /\ Len(inbox) \in Nat /\ Numbers = 1..Len(inbox)
           /\ Len(replies) = Len(inbox) /\ DOMAIN replies = Numbers
           /\ \A n \in Numbers : replies[n] \in Seq(Replies)
<1>1. Numbers = 1..Len(inbox) /\ Len(inbox) \in Nat
  BY SequenceIsFunction DEF TypeOK, Numbers
<1>2. replies \in Seq(Seq(Replies)) /\ Len(replies) = Len(inbox)
  BY DEF TypeOK
<1>. QED BY <1>1, <1>2, SequenceIsFunction

\* A step that leaves the configuration alone keeps its types, whatever the
\* client takes off the list of what it was asked.
LEMMA ConfigUnchangedType ==
    ASSUME ConfigTypeOK, UNCHANGED serverVars, crashed' \in BOOLEAN,
           asked' \subseteq asked
    PROVE  ConfigTypeOK'
BY DEF ConfigTypeOK, serverVars

\* Answering the message in hand: it had no answer and now has one, and no
\* other message is concerned.
LEMMA ReplyOnce ==
    ASSUME IInv, Busy, NEW outcome \in Replies, Reply(outcome)
    PROVE  /\ replies' \in Seq(Seq(Replies)) /\ Len(replies') = Len(replies)
           /\ \A n \in Numbers : n # hand.number => replies'[n] = replies[n]
           /\ hand.number \in Numbers /\ Len(replies'[hand.number]) <= 1
           /\ done' \subseteq Numbers
<1>1. /\ hand.number \in Numbers /\ replies[hand.number] = <<>>
      /\ replies \in Seq(Seq(Replies)) /\ DOMAIN replies = Numbers
      /\ Numbers = 1..Len(replies) /\ Len(replies) \in Nat
  BY NumbersAreAnInterval DEF IInv, HandInOrder, Unanswered, Answered, TypeOK
<1> DEFINE answer == Append(<<>>, outcome)
<1>2. answer \in Seq(Replies) /\ Len(answer) <= 1
  OBVIOUS
<1>3. replies' = [replies EXCEPT ![hand.number] = answer]
  BY <1>1 DEF Reply
<1>. HIDE DEF answer
<1>4. replies' \in [1..Len(replies) -> Seq(Replies)]
  BY <1>1, <1>2, <1>3, SequenceIsFunction
<1>5. replies' \in Seq(Seq(Replies)) /\ DOMAIN replies' = 1..Len(replies)
  BY <1>1, <1>4, FunctionIsSequence
<1>6. Len(replies') = Len(replies)
  BY <1>1, <1>5, SequenceIsFunction
<1>7. done' \subseteq Numbers
  BY <1>1 DEF Reply, IInv, TypeOK
<1>. QED BY <1>1, <1>2, <1>3, <1>5, <1>6, <1>7

\* The queues and the hand stay in order while only the message in hand is
\* answered and then done with.
LEMMA OrderAfterReply ==
    ASSUME IInv, Busy, NEW outcome \in Replies, Reply(outcome),
           UNCHANGED <<inbox, messages, replaying, configPostponedMessages,
                       inReplay, hand>>, worker' = "clear"
    PROVE  QueuesInOrder' /\ HandInOrder' /\ AtMostOneReply'
<1>1. /\ \A n \in Numbers : n # hand.number => replies'[n] = replies[n]
      /\ hand.number \in Numbers /\ Len(replies'[hand.number]) <= 1
  BY ReplyOnce
<1>2. HandInOrder'
  BY DEF HandInOrder, Busy
<1>4. /\ Waiting' = Waiting /\ Numbers' = Numbers
  BY DEF Waiting, Numbers
<1>3. AtMostOneReply'
  <2>1. ASSUME NEW n \in Numbers PROVE Len(replies'[n]) <= 1
    <3>1. CASE n = hand.number
      BY <1>1, <3>1
    <3>2. CASE n # hand.number
      BY <1>1, <3>2 DEF IInv, AtMostOneReply
    <3>. QED BY <3>1, <3>2
  <2>. QED BY <1>4, <2>1 DEF AtMostOneReply
<1>5. \A i \in DOMAIN messages : Unanswered(messages[i])'
  <2>1. TAKE i \in DOMAIN messages
  <2>2. messages[i].number \in Numbers /\ messages[i].number # hand.number
    <3>1. messages[i].number \in Nat /\ hand.number \in Nat
      BY <1>1, NumbersAreAnInterval DEF IInv, QueuesInOrder, Unanswered
    <3>. QED BY <3>1 DEF IInv, QueuesInOrder, HandInOrder, Unanswered
  <2>. QED BY <1>1, <1>4, <2>2 DEF IInv, QueuesInOrder, Unanswered, Answered
<1>6. \A i \in DOMAIN Waiting : Unanswered(Waiting[i])'
  <2>1. TAKE i \in DOMAIN Waiting
  <2>2. Waiting[i].number \in Numbers /\ Waiting[i].number # hand.number
    <3>1. Waiting[i].number \in Nat /\ hand.number \in Nat
      BY <1>1, NumbersAreAnInterval DEF IInv, QueuesInOrder, Unanswered
    <3>. QED BY <3>1 DEF IInv, QueuesInOrder, HandInOrder, Unanswered
  <2>. QED BY <1>1, <1>4, <2>2 DEF IInv, QueuesInOrder, Unanswered, Answered
<1>7. QueuesInOrder'
  BY <1>4, <1>5, <1>6 DEF IInv, QueuesInOrder, Increasing
<1>. QED BY <1>2, <1>3, <1>7
-----------------------------------------------------------------------------
(* The main thread.                                                        *)

\* A new message is the last one of the queue and has no answer yet; none of
\* the numbers in use changes its meaning.
LEMMA ReadMessagePreserves ==
    ASSUME IInv, NEW m \in Messages, m.number = Len(inbox) + 1, ReadMessage(m)
    PROVE  IInv'
<1>1. /\ Numbers = 1..Len(inbox) /\ Len(inbox) \in Nat
      /\ Len(replies) = Len(inbox) /\ DOMAIN replies = Numbers
  BY NumbersAreAnInterval DEF IInv
<1>2. /\ inbox' \in Seq(Messages) /\ Len(inbox') = Len(inbox) + 1
      /\ Numbers' = 1..(Len(inbox) + 1)
  BY <1>1, NumbersAreAnInterval DEF IInv, TypeOK, ReadMessage, Numbers
<1>3. /\ replies' \in Seq(Seq(Replies)) /\ Len(replies') = Len(inbox')
      /\ replies'[Len(inbox) + 1] = <<>>
      /\ \A n \in Numbers : replies'[n] = replies[n]
  <2>1. <<>> \in Seq(Replies) /\ replies \in Seq(Seq(Replies))
    BY DEF IInv, TypeOK
  <2>. QED BY <1>1, <1>2, <2>1 DEF ReadMessage
<1>4. /\ messages' \in Seq(Messages) /\ Len(messages') = Len(messages) + 1
      /\ messages'[Len(messages) + 1] = m
      /\ \A i \in 1..Len(messages) : messages'[i] = messages[i]
      /\ DOMAIN messages' = 1..(Len(messages) + 1) /\ Len(messages) \in Nat
      /\ DOMAIN messages = 1..Len(messages)
  BY DEF IInv, TypeOK, ReadMessage
<1>5. UNCHANGED <<worker, hand, token, configPostponedMessages, inReplay,
                  replaying, cancelled, readerVars, serverVars, crashed, done,
                  cancelledEarly, behind, shutdowns, shutdownReplies>>
  BY DEF ReadMessage, workerVars
<1>6. TypeOK'
  <2>1. /\ DOMAIN cancellationTokens' \subseteq Ids
        /\ \A id \in DOMAIN cancellationTokens' :
             cancellationTokens'[id] \in Numbers'
    <3>1. CASE IsRequest(m)
      <4>1. cancellationTokens' = Put(cancellationTokens, m.id, m.number)
        BY <3>1 DEF ReadMessage
      <4>2. m.id \in Ids /\ m.number \in Numbers'
        BY <3>1, <1>1, <1>2 DEF Messages
      <4>. QED BY <4>1, <4>2, <1>1, <1>2 DEF Put, IInv, TypeOK
    <3>2. CASE ~IsRequest(m)
      BY <3>2, <1>1, <1>2 DEF ReadMessage, IInv, TypeOK
    <3>. QED BY <3>1, <3>2
  <2>2. ConfigTypeOK'
    <3>1. asked' \subseteq asked
      BY DEF ReadMessage
    <3>. QED BY <1>5, <3>1, ConfigUnchangedType DEF IInv, TypeOK, ConfigTypeOK
  <2>3. Numbers \subseteq Numbers'
    BY <1>1, <1>2
  <2>. QED BY <1>2, <1>3, <1>4, <1>5, <2>1, <2>2, <2>3
           DEF IInv, TypeOK, readerVars
<1>7. /\ Waiting' = Waiting
      /\ \A x : Unanswered(x) => Unanswered(x)'
  BY <1>1, <1>2, <1>3, <1>5 DEF Waiting, Unanswered, Answered
<1>8. m.number = Len(inbox) + 1 /\ Unanswered(m)'
  BY <1>1, <1>2, <1>3 DEF Unanswered, Answered
<1>9. QueuesInOrder'
  <2>1. \A i \in DOMAIN messages' : Unanswered(messages[i])'
    <3>1. ASSUME NEW i \in 1..(Len(messages) + 1)
          PROVE  Unanswered(messages[i])'
      <4>1. CASE i = Len(messages) + 1
        BY <1>4, <1>8, <4>1 DEF Unanswered, Answered
      <4>2. CASE i # Len(messages) + 1
        <5>1. i \in DOMAIN messages /\ messages'[i] = messages[i]
          BY <1>4, <4>2
        <5>2. Unanswered(messages[i])
          BY <5>1 DEF IInv, QueuesInOrder
        <5>. QED BY <1>7, <5>1, <5>2 DEF Unanswered, Answered
      <4>. QED BY <4>1, <4>2
    <3>. QED BY <1>4, <3>1
  <2>2. Increasing(messages)'
    <3>1. \A i \in DOMAIN messages : messages[i].number < m.number
      BY <1>1, <1>8 DEF IInv, QueuesInOrder, Unanswered
    <3>. QED BY <1>4, <3>1 DEF IInv, QueuesInOrder, Increasing
  <2>3. \A i \in DOMAIN Waiting : Waiting[i].number < m.number
    BY <1>1, <1>8 DEF IInv, QueuesInOrder, Unanswered
  <2>4. \A i \in DOMAIN Waiting' :
           /\ Unanswered(Waiting[i])' /\ ~IsResponse(Waiting[i])'
           /\ \A j \in DOMAIN messages' : Waiting'[i].number < messages'[j].number
    <3>1. ASSUME NEW i \in DOMAIN Waiting
          PROVE  /\ Unanswered(Waiting[i])' /\ ~IsResponse(Waiting[i])'
                 /\ \A j \in DOMAIN messages' :
                      Waiting[i].number < messages'[j].number
      BY <1>4, <1>7, <2>3
         DEF IInv, QueuesInOrder, Unanswered, Answered, IsResponse
    <3>. QED BY <1>7, <3>1
  <2>5. Increasing(Waiting)'
    BY <1>7 DEF IInv, QueuesInOrder, Increasing
  <2>. QED BY <2>1, <2>2, <2>4, <2>5 DEF QueuesInOrder
<1>10. HandInOrder'
  <2>1. Busy => hand.number < m.number
    BY <1>1, <1>8 DEF IInv, HandInOrder, Unanswered
  <2>2. Busy' = Busy
    BY <1>5 DEF Busy
  <2>. QED BY <1>4, <1>5, <1>7, <2>1, <2>2 DEF IInv, HandInOrder
<1>11. AtMostOneReply'
  <2>1. ASSUME NEW n \in Numbers' PROVE Len(replies'[n]) <= 1
    <3>1. CASE n = Len(inbox) + 1
      <4>1. Len(<<>>) = 0
        OBVIOUS
      <4>. QED BY <1>3, <3>1, <4>1
    <3>2. CASE n # Len(inbox) + 1
      <4>1. n \in Numbers
        BY <1>1, <1>2, <3>2
      <4>. QED BY <1>3, <4>1 DEF IInv, AtMostOneReply
    <3>. QED BY <3>1, <3>2
  <2>. QED BY <2>1 DEF AtMostOneReply
<1>. QED BY <1>6, <1>9, <1>10, <1>11 DEF IInv

\* A message that is rejected outright is numbered and answered in one step.
LEMMA RejectPreserves ==
    ASSUME IInv, NEW m \in Messages, RejectAfterShutdown(m)
    PROVE  IInv'
<1>1. /\ Numbers = 1..Len(inbox) /\ Len(inbox) \in Nat
      /\ Len(replies) = Len(inbox) /\ DOMAIN replies = Numbers
  BY NumbersAreAnInterval DEF IInv
<1>2. /\ inbox' \in Seq(Messages) /\ Len(inbox') = Len(inbox) + 1
      /\ Numbers' = 1..(Len(inbox) + 1)
  BY <1>1, NumbersAreAnInterval DEF IInv, TypeOK, RejectAfterShutdown, Numbers
<1> DEFINE answer == <<"InvalidRequest">>
<1>3. answer \in Seq(Replies) /\ Len(answer) <= 1
  BY DEF Replies
<1>4. /\ replies' \in Seq(Seq(Replies)) /\ Len(replies') = Len(inbox')
      /\ replies'[Len(inbox) + 1] = answer
      /\ \A n \in Numbers : replies'[n] = replies[n]
  <2>1. replies' = Append(replies, answer) /\ replies \in Seq(Seq(Replies))
    BY DEF RejectAfterShutdown, IInv, TypeOK
  <2>. HIDE DEF answer
  <2>. QED BY <1>1, <1>2, <1>3, <2>1
<1>. HIDE DEF answer
<1>5. UNCHANGED <<worker, hand, token, configPostponedMessages, inReplay,
                  replaying, cancelled, messages, cancellationTokens, readerVars,
                  serverVars, crashed, done, cancelledEarly, behind, shutdowns,
                  shutdownReplies>>
  BY DEF RejectAfterShutdown, workerVars, queueVars
<1>6. TypeOK'
  <2>1. ConfigTypeOK'
    <3>1. asked' \subseteq asked
      BY DEF RejectAfterShutdown
    <3>. QED BY <1>5, <3>1, ConfigUnchangedType DEF IInv, TypeOK, ConfigTypeOK
  <2>2. Numbers \subseteq Numbers'
    BY <1>1, <1>2
  <2>. QED BY <1>2, <1>4, <1>5, <2>1, <2>2 DEF IInv, TypeOK, readerVars
<1>7. /\ Waiting' = Waiting
      /\ \A x : Unanswered(x) => Unanswered(x)'
  BY <1>1, <1>2, <1>4, <1>5 DEF Waiting, Unanswered, Answered
<1>8. QueuesInOrder' /\ HandInOrder'
  BY <1>5, <1>7 DEF IInv, QueuesInOrder, HandInOrder, Increasing, Busy
<1>9. AtMostOneReply'
  <2>1. ASSUME NEW n \in Numbers' PROVE Len(replies'[n]) <= 1
    <3>1. CASE n = Len(inbox) + 1
      BY <1>3, <1>4, <3>1
    <3>2. CASE n # Len(inbox) + 1
      <4>1. n \in Numbers
        BY <1>1, <1>2, <3>2
      <4>. QED BY <1>4, <4>1 DEF IInv, AtMostOneReply
    <3>. QED BY <3>1, <3>2
  <2>. QED BY <2>1 DEF AtMostOneReply
<1>. QED BY <1>6, <1>8, <1>9 DEF IInv

\* The other steps of the main thread touch neither queue nor answers.
LEMMA OrderUnchanged ==
    ASSUME IInv, UNCHANGED <<inbox, replies, messages, replaying, inReplay,
                             configPostponedMessages, hand, worker>>
    PROVE  QueuesInOrder' /\ HandInOrder' /\ AtMostOneReply'
BY DEF IInv, QueuesInOrder, HandInOrder, AtMostOneReply, Waiting, Unanswered,
       Answered, Numbers, Increasing, Busy

LEMMA ReaderPreserves ==
    ASSUME IInv, Reader
    PROVE  IInv'
<1>1. ASSUME NEW m \in Requests \cup Notifications \cup Responses
      PROVE  m \in Messages /\ m.number = Len(inbox) + 1
  BY RequestsAreMessages, NotificationsAreMessages, ResponsesAreMessages DEF IInv
<1>2. CASE ReadRequest \/ ReadNotification \/ ReadResponse
  <2>1. PICK m \in Requests \cup Notifications \cup Responses : ReadMessage(m)
    BY <1>2 DEF ReadRequest, ReadNotification, ReadResponse
  <2>. QED BY <1>1, <2>1, ReadMessagePreserves
<1>3. CASE ReadLate
  <2>1. PICK m \in Requests \cup Notifications \cup Responses :
          RejectAfterShutdown(m)
    BY <1>3 DEF ReadLate
  <2>. QED BY <1>1, <2>1, RejectPreserves
<1>4. ASSUME NEW id \in Ids, ReadCancel(id)
      PROVE  IInv'
  <2>1. cancelled' \subseteq Numbers
    BY <1>4 DEF ReadCancel, IInv, TypeOK
  <2>2. cancelledEarly' \subseteq Numbers
    BY <1>4 DEF ReadCancel, IInv, TypeOK, UsedBy, Numbers
  <2>3. ConfigTypeOK'
    BY <1>4, ConfigUnchangedType
       DEF ReadCancel, configVars, IInv, TypeOK, ConfigTypeOK
  <2>4. TypeOK'
    BY <1>4, <2>1, <2>2, <2>3
       DEF ReadCancel, IInv, TypeOK, readerVars, workerVars, Numbers
  <2>. QED BY <1>4, <2>4, OrderUnchanged DEF ReadCancel, workerVars, IInv
<1>5. CASE ReadShutdown
  <2>1. ConfigTypeOK'
    BY <1>5, ConfigUnchangedType DEF ReadShutdown, IInv, TypeOK, ConfigTypeOK
  <2>2. shutdowns' \in 0..MaxShutdowns
    BY <1>5, LoopAssumption DEF ReadShutdown, IInv, TypeOK
  <2>3. TypeOK'
    BY <1>5, <2>1, <2>2
       DEF ReadShutdown, IInv, TypeOK, queueVars, workerVars, Numbers
  <2>. QED BY <1>5, <2>3, OrderUnchanged
           DEF ReadShutdown, queueVars, workerVars, IInv
<1>6. CASE JoinWorker
  <2>1. ConfigTypeOK'
    BY <1>6, ConfigUnchangedType
       DEF JoinWorker, configVars, IInv, TypeOK, ConfigTypeOK
  <2>2. TypeOK'
    BY <1>6, <2>1 DEF JoinWorker, IInv, TypeOK, queueVars, workerVars, Numbers
  <2>. QED BY <1>6, <2>2, OrderUnchanged
           DEF JoinWorker, queueVars, workerVars, IInv
<1>7. CASE ReadExit \/ EndOfInput
  <2>1. ConfigTypeOK'
    BY <1>7, ConfigUnchangedType
       DEF ReadExit, EndOfInput, configVars, IInv, TypeOK, ConfigTypeOK
  <2>2. TypeOK'
    BY <1>7, <2>1
       DEF ReadExit, EndOfInput, IInv, TypeOK, queueVars, workerVars,
           historyVars, Numbers
  <2>. QED BY <1>7, <2>2, OrderUnchanged
           DEF ReadExit, EndOfInput, queueVars, workerVars, historyVars, IInv
<1>. QED BY <1>2, <1>3, <1>4, <1>5, <1>6, <1>7 DEF Reader
-----------------------------------------------------------------------------
(* The worker thread.                                                      *)

LEMMA ConfigStutters ==
    ASSUME IInv, UNCHANGED configVars
    PROVE  ConfigTypeOK'
BY DEF IInv, TypeOK, ConfigTypeOK, configVars, serverVars

LEMMA HeadAndTail ==
    ASSUME NEW S, NEW q \in Seq(S), q # <<>>
    PROVE  /\ Head(q) = q[1] /\ q[1] \in S /\ Tail(q) \in Seq(S)
           /\ 1 \in DOMAIN q
           /\ \A i \in DOMAIN Tail(q) : /\ i + 1 \in DOMAIN q
                                      /\ i \in Nat /\ i >= 1
                                      /\ Tail(q)[i] = q[i + 1]
OBVIOUS

LEMMA PopMessagePreserves ==
    ASSUME IInv, PopMessage
    PROVE  IInv'
<1>1. messages \in Seq(Messages) /\ messages # <<>> /\ ~inReplay
  BY DEF PopMessage, IInv, TypeOK
<1>2. /\ hand' = messages[1] /\ hand' \in Messages
      /\ messages' \in Seq(Messages) /\ 1 \in DOMAIN messages
      /\ \A i \in DOMAIN messages' : /\ i + 1 \in DOMAIN messages
                                    /\ i \in Nat /\ i >= 1
                                    /\ messages'[i] = messages[i + 1]
  BY <1>1, HeadAndTail DEF PopMessage
<1>3. UNCHANGED <<configVars, cancellationTokens, cancelled, readerVars, token,
                  configPostponedMessages, inReplay, replaying, historyVars>>
      /\ worker' = "handling"
  BY DEF PopMessage
<1>4. TypeOK'
  BY <1>2, <1>3, ConfigStutters
     DEF IInv, TypeOK, historyVars, readerVars, Threads, Numbers
<1>5. Waiting' = Waiting /\ \A x : Unanswered(x)' = Unanswered(x)
  BY <1>3 DEF Waiting, Unanswered, Answered, Numbers, historyVars
<1>6. QueuesInOrder'
  <2>1. Increasing(messages)'
    <3>1. ASSUME NEW i \in DOMAIN messages', NEW j \in DOMAIN messages', i < j
          PROVE  messages'[i].number < messages'[j].number
      <4>1. i + 1 \in DOMAIN messages /\ j + 1 \in DOMAIN messages /\ i + 1 < j + 1
        BY <1>2, <3>1
      <4>. QED BY <1>2, <4>1 DEF IInv, QueuesInOrder, Increasing
    <3>. QED BY <3>1 DEF Increasing
  <2>2. Increasing(Waiting)'
    BY <1>5 DEF IInv, QueuesInOrder, Increasing
  <2>3. \A i \in DOMAIN messages' : Unanswered(messages[i])'
    BY <1>2, <1>5 DEF IInv, QueuesInOrder, Unanswered, Answered
  <2>4. ASSUME NEW i \in DOMAIN Waiting
        PROVE  /\ Unanswered(Waiting[i])' /\ ~IsResponse(Waiting[i])'
               /\ \A j \in DOMAIN messages' :
                    Waiting[i].number < messages'[j].number
    BY <1>2, <1>5 DEF IInv, QueuesInOrder, Unanswered, Answered, IsResponse
  <2>. QED BY <1>5, <2>1, <2>2, <2>3, <2>4 DEF QueuesInOrder
<1>7. HandInOrder'
  <2>1. Unanswered(hand)'
    BY <1>2, <1>5 DEF IInv, QueuesInOrder, Unanswered, Answered
  <2>2. \A i \in DOMAIN messages' : hand'.number < messages'[i].number
    BY <1>2 DEF IInv, QueuesInOrder, Increasing
  <2>3. \A i \in DOMAIN Waiting' : Waiting'[i].number < hand'.number
    BY <1>2, <1>5 DEF IInv, QueuesInOrder
  <2>. QED BY <1>1, <1>3, <2>1, <2>2, <2>3 DEF HandInOrder
<1>8. AtMostOneReply'
  BY <1>3 DEF IInv, AtMostOneReply, historyVars, Numbers
<1>. QED BY <1>4, <1>6, <1>7, <1>8 DEF IInv

LEMMA ReplayNextPreserves ==
    ASSUME IInv, ReplayNext
    PROVE  IInv'
<1>1. replaying \in Seq(Messages) /\ replaying # <<>> /\ inReplay
  BY DEF ReplayNext, IInv, TypeOK
<1>2. /\ hand' = replaying[1] /\ hand' \in Messages
      /\ replaying' \in Seq(Messages) /\ 1 \in DOMAIN replaying
      /\ \A i \in DOMAIN replaying' : /\ i + 1 \in DOMAIN replaying
                                     /\ i \in Nat /\ i >= 1
                                     /\ replaying'[i] = replaying[i + 1]
  BY <1>1, HeadAndTail DEF ReplayNext
<1>3. UNCHANGED <<configVars, queueVars, readerVars, token, inReplay,
                  configPostponedMessages, historyVars>>
      /\ worker' = "handling"
  BY DEF ReplayNext
<1>4. TypeOK'
  BY <1>2, <1>3, ConfigStutters
     DEF IInv, TypeOK, historyVars, readerVars, queueVars, Threads, Numbers
<1>5. /\ Waiting = replaying /\ Waiting' = replaying' /\ messages' = messages
      /\ \A x : Unanswered(x)' = Unanswered(x)
  BY <1>1, <1>3 DEF Waiting, Unanswered, Answered, Numbers, historyVars, queueVars
<1>6. QueuesInOrder'
  <2>1. Increasing(messages)'
    BY <1>5 DEF IInv, QueuesInOrder, Increasing
  <2>2. Increasing(Waiting)'
    BY <1>2, <1>5 DEF IInv, QueuesInOrder, Increasing
  <2>3. \A i \in DOMAIN messages' : Unanswered(messages[i])'
    BY <1>5 DEF IInv, QueuesInOrder, Unanswered, Answered
  <2>4. ASSUME NEW i \in DOMAIN replaying'
        PROVE  /\ Unanswered(replaying[i])' /\ ~IsResponse(replaying[i])'
               /\ \A j \in DOMAIN messages :
                    replaying'[i].number < messages[j].number
    BY <1>2, <1>5 DEF IInv, QueuesInOrder, Unanswered, Answered, IsResponse
  <2>. QED BY <1>5, <2>1, <2>2, <2>3, <2>4
           DEF QueuesInOrder, Unanswered, Answered, IsResponse
<1>7. HandInOrder'
  <2>1. Unanswered(hand)' /\ ~IsResponse(hand)'
    BY <1>2, <1>5 DEF IInv, QueuesInOrder, Unanswered, Answered, IsResponse
  <2>2. \A i \in DOMAIN messages' : hand'.number < messages'[i].number
    BY <1>2, <1>5 DEF IInv, QueuesInOrder
  <2>3. \A i \in DOMAIN Waiting' : hand'.number < Waiting'[i].number
    BY <1>2, <1>5 DEF IInv, QueuesInOrder, Increasing
  <2>. QED BY <1>1, <1>3, <2>1, <2>2, <2>3 DEF HandInOrder
<1>8. AtMostOneReply'
  BY <1>3 DEF IInv, AtMostOneReply, historyVars, Numbers
<1>. QED BY <1>4, <1>6, <1>7, <1>8 DEF IInv

LEMMA ReplayEndPreserves ==
    ASSUME IInv, ReplayEnd
    PROVE  IInv'
<1>1. UNCHANGED <<configVars, queueVars, readerVars, worker, hand, token,
                  replaying, historyVars>>
      /\ inReplay' = FALSE /\ configPostponedMessages' = <<>>
      /\ worker = "waiting"
  BY DEF ReplayEnd
<1>2. <<>> \in Seq(Messages) /\ DOMAIN <<>> = {}
  OBVIOUS
<1>3. TypeOK'
  BY <1>1, <1>2, ConfigStutters
     DEF IInv, TypeOK, historyVars, readerVars, queueVars, Numbers
<1>4. Waiting' = <<>> /\ messages' = messages /\ ~Busy'
  BY <1>1 DEF Waiting, queueVars, Busy
<1>5. QueuesInOrder'
  BY <1>1, <1>2, <1>4
     DEF IInv, QueuesInOrder, Increasing, Unanswered, Answered, Numbers,
         historyVars
<1>6. HandInOrder' /\ AtMostOneReply'
  BY <1>1, <1>4 DEF IInv, HandInOrder, AtMostOneReply, historyVars, Numbers
<1>. QED BY <1>3, <1>5, <1>6 DEF IInv

\* Outside a replay the message in hand goes behind all that already wait and
\* stays in front of the queue.
LEMMA PostponePreserves ==
    ASSUME IInv, Postpone
    PROVE  IInv'
<1>1. /\ UNCHANGED <<serverVars, asked, queueVars, readerVars, token, inReplay,
                     replaying, inbox, replies, done, cancelledEarly, shutdowns,
                     shutdownReplies>>
      /\ behind' \subseteq behind \cup {hand.number}
      /\ configPostponedMessages' = Append(configPostponedMessages, hand)
      /\ crashed' \in BOOLEAN /\ worker' = "waiting" /\ worker = "handling"
  BY DEF Postpone, Finish
<1>2. Busy /\ hand \in Messages /\ configPostponedMessages \in Seq(Messages)
  BY <1>1 DEF Busy, IInv, TypeOK
<1>3. ~IsResponse(hand)
  BY DEF Postpone, MustWait, Gated, NotificationRequiresWorkspace, IsRequest,
         IsNotification, IsResponse
<1>4. /\ configPostponedMessages' \in Seq(Messages)
      /\ DOMAIN configPostponedMessages' = 1..(Len(configPostponedMessages) + 1)
      /\ DOMAIN configPostponedMessages = 1..Len(configPostponedMessages)
      /\ Len(configPostponedMessages) \in Nat
      /\ configPostponedMessages'[Len(configPostponedMessages) + 1] = hand
      /\ \A i \in DOMAIN configPostponedMessages :
           configPostponedMessages'[i] = configPostponedMessages[i]
  BY <1>1, <1>2
<1>5. TypeOK'
  <2>1. ConfigTypeOK'
    BY <1>1, ConfigUnchangedType DEF IInv, TypeOK
  <2>2. behind' \subseteq Numbers
    <3>1. behind \subseteq Numbers /\ hand.number \in Numbers
      BY <1>2 DEF IInv, TypeOK, HandInOrder, Unanswered
    <3>. QED BY <1>1, <3>1
  <2>. QED BY <1>1, <1>4, <2>1, <2>2
           DEF IInv, TypeOK, readerVars, queueVars, Threads, Numbers
<1>6. /\ messages' = messages /\ ~Busy'
      /\ \A x : Unanswered(x)' = Unanswered(x)
  BY <1>1 DEF queueVars, Busy, Unanswered, Answered, Numbers
<1>7. QueuesInOrder'
  <2>1. Increasing(messages)' /\ \A i \in DOMAIN messages' : Unanswered(messages[i])'
    BY <1>6 DEF IInv, QueuesInOrder, Increasing, Unanswered, Answered
  <2>2. CASE inReplay
    <3>1. Waiting' = Waiting
      BY <1>1, <2>2 DEF Waiting
    <3>2. \A i \in DOMAIN Waiting :
             /\ Unanswered(Waiting[i])' /\ ~IsResponse(Waiting[i])'
             /\ \A j \in DOMAIN messages : Waiting[i].number < messages[j].number
      BY <1>6, <3>1
         DEF IInv, QueuesInOrder, Unanswered, Answered, IsResponse
    <3>. QED BY <1>6, <2>1, <3>1, <3>2 DEF IInv, QueuesInOrder, Increasing
  <2>3. CASE ~inReplay
    <3>1. /\ Waiting = configPostponedMessages
          /\ Waiting' = configPostponedMessages'
      BY <1>1, <2>3 DEF Waiting
    <3>2. /\ Unanswered(hand)
          /\ \A i \in DOMAIN messages : hand.number < messages[i].number
          /\ \A i \in DOMAIN Waiting : Waiting[i].number < hand.number
      BY <1>2, <2>3 DEF IInv, HandInOrder
    <3>3. Increasing(Waiting)'
      BY <1>4, <3>1, <3>2 DEF IInv, QueuesInOrder, Increasing
    <3>4. ASSUME NEW i \in DOMAIN configPostponedMessages'
          PROVE  /\ Unanswered(configPostponedMessages[i])'
                 /\ ~IsResponse(configPostponedMessages[i])'
                 /\ \A j \in DOMAIN messages :
                      configPostponedMessages'[i].number < messages[j].number
      <4>1. CASE i = Len(configPostponedMessages) + 1
        BY <1>3, <1>4, <1>6, <3>2, <4>1 DEF Unanswered, Answered, IsResponse
      <4>2. CASE i # Len(configPostponedMessages) + 1
        <5>1. /\ i \in DOMAIN Waiting
              /\ configPostponedMessages'[i] = Waiting[i]
          BY <1>4, <3>1, <4>2
        <5>. QED BY <1>6, <5>1
                 DEF IInv, QueuesInOrder, Unanswered, Answered, IsResponse
      <4>. QED BY <4>1, <4>2
    <3>. QED BY <1>6, <2>1, <3>1, <3>3, <3>4
             DEF QueuesInOrder, Unanswered, Answered, IsResponse
  <2>. QED BY <2>2, <2>3
<1>8. HandInOrder' /\ AtMostOneReply'
  BY <1>1, <1>6 DEF IInv, HandInOrder, AtMostOneReply, historyVars, Numbers
<1>. QED BY <1>5, <1>7, <1>8 DEF IInv

\* A request that is refused, cancelled or run is answered, and nothing else is.
LEMMA RefuseRequestPreserves ==
    ASSUME IInv, RefuseRequest
    PROVE  IInv'
<1>1. /\ UNCHANGED <<configVars, queueVars, readerVars, hand, token, inReplay,
                     configPostponedMessages, replaying, inbox, behind, cancelledEarly,
                     shutdowns, shutdownReplies>>
      /\ worker' = "clear" /\ worker = "handling" /\ IsRequest(hand)
  BY DEF RefuseRequest
<1>2. Busy
  BY <1>1 DEF Busy
<1>3. PICK outcome \in Replies : Reply(outcome)
  BY DEF RefuseRequest, Replies
<1>4. /\ replies' \in Seq(Seq(Replies)) /\ Len(replies') = Len(replies)
      /\ done' \subseteq Numbers
  BY <1>2, <1>3, ReplyOnce
<1>5. TypeOK'
  BY <1>1, <1>4, ConfigStutters
     DEF IInv, TypeOK, readerVars, queueVars, Threads, Numbers
<1>. QED BY <1>1, <1>2, <1>3, <1>5, OrderAfterReply DEF IInv, queueVars

LEMMA AcceptRequestPreserves ==
    ASSUME IInv, AcceptRequest
    PROVE  IInv'
<1>1. /\ UNCHANGED <<configVars, queueVars, readerVars, hand, token, inReplay,
                     configPostponedMessages, replaying, historyVars>>
      /\ worker' = "lookup" /\ worker = "handling" /\ IsRequest(hand)
  BY DEF AcceptRequest
<1>2. TypeOK'
  BY <1>1, ConfigStutters
     DEF IInv, TypeOK, readerVars, queueVars, historyVars, Threads, Numbers
<1>3. QueuesInOrder' /\ HandInOrder' /\ AtMostOneReply'
  BY <1>1 DEF IInv, QueuesInOrder, HandInOrder, AtMostOneReply, Waiting, Busy,
              Unanswered, Answered, Numbers, Increasing, queueVars, historyVars
<1>. QED BY <1>2, <1>3 DEF IInv

LEMMA LookupTokenPreserves ==
    ASSUME IInv, LookupToken
    PROVE  IInv'
<1>1. /\ UNCHANGED <<configVars, queueVars, readerVars, hand, inReplay, inbox,
                     configPostponedMessages, replaying, cancelledEarly, behind,
                     shutdowns, shutdownReplies>>
      /\ worker = "lookup"
  BY DEF LookupToken
<1>2. Busy /\ IsRequest(hand)
  BY <1>1 DEF Busy, IInv, TypeOK
<1>3. token' \in Numbers \cup {0}
  BY DEF LookupToken, IInv, TypeOK
<1>4. CASE Reply("RequestCancelled") /\ worker' = "clear"
  <2>1. "RequestCancelled" \in Replies
    BY DEF Replies
  <2>2. /\ replies' \in Seq(Seq(Replies)) /\ Len(replies') = Len(replies)
        /\ done' \subseteq Numbers
    BY <1>2, <1>4, <2>1, ReplyOnce
  <2>3. TypeOK'
    BY <1>1, <1>2, <1>3, <1>4, <2>2, ConfigStutters
       DEF IInv, TypeOK, readerVars, queueVars, Threads, Numbers
  <2>. QED BY <1>1, <1>2, <1>4, <2>1, <2>3, OrderAfterReply DEF IInv, queueVars
<1>5. CASE worker' = "run" /\ UNCHANGED <<replies, done>>
  <2>1. TypeOK'
    BY <1>1, <1>2, <1>3, <1>5, ConfigStutters
       DEF IInv, TypeOK, readerVars, queueVars, Threads, Numbers
  <2>2. QueuesInOrder' /\ HandInOrder' /\ AtMostOneReply'
    BY <1>1, <1>5 DEF IInv, QueuesInOrder, HandInOrder, AtMostOneReply, Waiting,
                      Busy, Unanswered, Answered, Numbers, Increasing, queueVars
  <2>. QED BY <2>1, <2>2 DEF IInv
<1>. QED BY <1>4, <1>5 DEF LookupToken

LEMMA RunRequestPreserves ==
    ASSUME IInv, RunRequest
    PROVE  IInv'
<1>1. /\ UNCHANGED <<queueVars, readerVars, hand, token, inReplay, inbox,
                     configPostponedMessages, replaying, cancelledEarly, behind,
                     shutdowns, shutdownReplies>>
      /\ worker' = "clear" /\ worker = "run"
  BY DEF RunRequest
<1>2. Busy /\ IsRequest(hand) /\ hand \in Messages
  BY <1>1 DEF Busy, IInv, TypeOK
<1>3. PICK outcome \in Replies : Reply(outcome)
  BY DEF RunRequest, Outcomes, Replies
<1>4. ConfigTypeOK'
  <2>1. CASE UNCHANGED configVars
    BY <2>1, ConfigStutters
  <2>2. CASE OnInitialize(hand.uris, hand.capability)
    <3>1. hand.uris \in Seq(FolderUris) /\ hand.capability \in BOOLEAN
      BY <1>2 DEF Messages, MessageFields
    <3>. QED BY <2>2, <3>1, InitializeType DEF IInv, TypeOK
  <2>3. CASE TouchDocument(hand.uri)
    BY <2>3, TouchDocumentType DEF IInv, TypeOK
  <2>. QED BY <2>1, <2>2, <2>3 DEF RunRequest
<1>5. /\ replies' \in Seq(Seq(Replies)) /\ Len(replies') = Len(replies)
      /\ done' \subseteq Numbers
  BY <1>2, <1>3, ReplyOnce
<1>6. TypeOK'
  BY <1>1, <1>2, <1>4, <1>5
     DEF IInv, TypeOK, readerVars, queueVars, Threads, Numbers
<1>. QED BY <1>1, <1>2, <1>3, <1>6, OrderAfterReply DEF IInv, queueVars

\* Any step that ends with the worker's hands empty and moves no message.
LEMMA OrderAfterFinish ==
    ASSUME IInv, worker' = "waiting",
           UNCHANGED <<inbox, replies, messages>>, Waiting' = Waiting
    PROVE  QueuesInOrder' /\ HandInOrder' /\ AtMostOneReply'
BY DEF IInv, QueuesInOrder, HandInOrder, AtMostOneReply, Busy, Unanswered,
       Answered, Numbers, Increasing

LEMMA ClearCancellationTokenPreserves ==
    ASSUME IInv, ClearCancellationToken
    PROVE  IInv'
<1>1. /\ UNCHANGED <<configVars, messages, cancelled, readerVars, inReplay,
                     configPostponedMessages, replaying, historyVars>>
      /\ worker' = "waiting" /\ token' = 0
  BY DEF ClearCancellationToken, Finish
<1>2. /\ DOMAIN cancellationTokens' \subseteq DOMAIN cancellationTokens
      /\ \A id \in DOMAIN cancellationTokens' :
           cancellationTokens'[id] = cancellationTokens[id]
  BY DEF ClearCancellationToken, Restrict
<1>3. TypeOK'
  BY <1>1, <1>2, ConfigStutters
     DEF IInv, TypeOK, readerVars, historyVars, Threads, Numbers
<1>4. Waiting' = Waiting
  BY <1>1 DEF Waiting
<1>. QED BY <1>1, <1>3, <1>4, OrderAfterFinish DEF IInv, historyVars

LEMMA HandleNotificationPreserves ==
    ASSUME IInv, HandleNotification
    PROVE  IInv'
<1>1. /\ UNCHANGED <<queueVars, readerVars, token, inReplay, replaying, inbox,
                     configPostponedMessages, replies, cancelledEarly, behind,
                     shutdowns, shutdownReplies>>
      /\ worker' = "waiting" /\ worker = "handling"
      /\ done' = done \cup {hand.number}
  BY DEF HandleNotification, Finish
<1>2. hand \in Messages /\ hand.number \in Numbers
  BY <1>1 DEF IInv, TypeOK, HandInOrder, Busy, Unanswered
<1>3. ConfigTypeOK'
  <2>1. CASE UNCHANGED configVars
    BY <2>1, ConfigStutters
  <2>2. CASE OnInitialized
    BY <2>2, InitializedType DEF IInv, TypeOK
  <2>3. CASE TouchDocument(hand.uri)
    BY <2>3, TouchDocumentType DEF IInv, TypeOK
  <2>4. CASE /\ hand.method = "workspace/didChangeConfiguration"
             /\ OnDidChangeConfiguration(hand.configs[1])
    <3>1. hand.configs \in Seq(Configs) /\ hand.configs # <<>>
      BY <1>2, <2>4 DEF Messages, MessageFields
    <3>2. hand.configs[1] \in Configs
      BY <3>1
    <3>. QED BY <2>4, <3>2, DidChangeConfigurationType DEF IInv, TypeOK
  <2>5. CASE OnDidChangeWorkspaceFolders({NameOf[uri] : uri \in hand.closed},
                                         hand.uris)
    <3>1. hand.uris \in Seq(FolderUris)
      BY <1>2 DEF Messages, MessageFields
    <3>. QED BY <2>5, <3>1, DidChangeWorkspaceFoldersType DEF IInv, TypeOK
  <2>. QED BY <2>1, <2>2, <2>3, <2>4, <2>5 DEF HandleNotification, Dispatch
<1>4. TypeOK'
  BY <1>1, <1>2, <1>3 DEF IInv, TypeOK, readerVars, queueVars, Threads, Numbers
<1>5. Waiting' = Waiting
  BY <1>1 DEF Waiting
<1>. QED BY <1>1, <1>4, <1>5, OrderAfterFinish DEF IInv, queueVars

\* A response is never handled inside a replay, so the loop it may start takes
\* over exactly the messages that were waiting.
LEMMA HandleClientResponsePreserves ==
    ASSUME IInv, HandleClientResponse
    PROVE  IInv'
<1>1. /\ UNCHANGED <<asked, queueVars, readerVars, token, inbox, replies,
                     configPostponedMessages, cancelledEarly, behind, shutdowns,
                     shutdownReplies>>
      /\ worker' = "waiting" /\ worker = "handling" /\ IsResponse(hand)
      /\ done' = done \cup {hand.number}
  BY DEF HandleClientResponse, Finish
<1>2. hand \in Messages /\ hand.number \in Numbers /\ ~inReplay
  BY <1>1 DEF IInv, TypeOK, HandInOrder, Busy, Unanswered
<1>3. ConfigTypeOK'
  <2>1. hand.configs \in Seq(Configs)
    BY <1>2 DEF Messages, MessageFields
  <2>2. asked' \subseteq Nat
    BY <1>1 DEF IInv, TypeOK, ConfigTypeOK
  <2>3. HandleResponse(hand.id, hand.configs, FALSE)
    BY DEF HandleClientResponse
  <2>. QED BY <2>1, <2>2, <2>3, HandleResponseType DEF IInv, TypeOK
<1>4. \/ inReplay' = TRUE /\ replaying' = configPostponedMessages
      \/ UNCHANGED <<inReplay, replaying>>
  BY DEF HandleClientResponse
<1>5. TypeOK'
  BY <1>1, <1>2, <1>3, <1>4
     DEF IInv, TypeOK, readerVars, queueVars, Threads, Numbers
<1>6. Waiting' = Waiting
  BY <1>1, <1>2, <1>4 DEF Waiting
<1>. QED BY <1>1, <1>5, <1>6, OrderAfterFinish DEF IInv, queueVars

LEMMA WorkerPreserves ==
    ASSUME IInv, Worker
    PROVE  IInv'
<1>1. CASE StopWorker
  <2>1. TypeOK'
    BY <1>1, ConfigStutters
       DEF StopWorker, IInv, TypeOK, readerVars, queueVars, historyVars,
           Threads, Numbers
  <2>2. QueuesInOrder' /\ HandInOrder' /\ AtMostOneReply'
    BY <1>1 DEF StopWorker, IInv, QueuesInOrder, HandInOrder, AtMostOneReply,
                Waiting, Busy, Unanswered, Answered, Numbers, Increasing,
                queueVars, historyVars
  <2>. QED BY <2>1, <2>2 DEF IInv
<1>. QED BY <1>1, PopMessagePreserves, ReplayNextPreserves, ReplayEndPreserves,
            PostponePreserves, RefuseRequestPreserves, AcceptRequestPreserves,
            LookupTokenPreserves, RunRequestPreserves,
            ClearCancellationTokenPreserves, HandleNotificationPreserves,
            HandleClientResponsePreserves DEF Worker
-----------------------------------------------------------------------------
(* The theorems.                                                           *)

LEMMA InitEstablishes == Init => IInv
<1>1. ASSUME Init PROVE IInv
  <2>1. WorkspaceFolder(NullUri) \in Workspace
    BY DEF WorkspaceFolder, Workspace, Scopes
  <2>2. \A S : <<>> \in Seq(S) /\ <<>> \in [DOMAIN <<>> -> S]
    BY EmptyMapType
  <2>3. DOMAIN <<>> = {} /\ Len(<<>>) = 0
    OBVIOUS
  <2>4. ConfigTypeOK
    BY <1>1, <2>1, <2>2, <2>3, ConfigsAssumption DEF Init, ConfigTypeOK
  <2>5. TypeOK
    <3>1. <<>> \in Seq(Messages) /\ <<>> \in Seq(Seq(Replies))
      BY <2>2
    <3>2. Numbers = {} /\ 0 \in 0..MaxShutdowns
      BY <1>1, <2>3, LoopAssumption DEF Init, Numbers
    <3>. QED BY <1>1, <2>3, <2>4, <3>1, <3>2 DEF Init, TypeOK, Threads
  <2>6. QueuesInOrder /\ HandInOrder /\ AtMostOneReply
    BY <1>1, <2>3
       DEF Init, QueuesInOrder, HandInOrder, AtMostOneReply, Waiting, Busy,
           Increasing, Numbers
  <2>. QED BY <2>5, <2>6 DEF IInv
<1>. QED BY <1>1

LEMMA StutterPreserves ==
    ASSUME IInv, UNCHANGED vars
    PROVE  IInv'
<1>1. TypeOK'
  BY ConfigStutters
     DEF IInv, TypeOK, vars, readerVars, queueVars, workerVars, historyVars, Numbers
<1>. QED BY <1>1, OrderUnchanged
         DEF vars, queueVars, workerVars, historyVars, IInv

LEMMA Invariance == Spec => []IInv
<1>1. IInv /\ [Next]_vars => IInv'
  BY ReaderPreserves, WorkerPreserves, StutterPreserves DEF Next
<1>. QED BY InitEstablishes, <1>1, PTL DEF Spec

\* Every message on its way through the queue, the postponed messages and the
\* worker keeps the fields its handler reads, and every token is the token of a
\* message that was received.
THEOREM ServerTypeCorrect == Spec => []TypeOK
<1>1. IInv => TypeOK
  BY DEF IInv
<1>. QED BY Invariance, <1>1, PTL

\* No request is answered twice: not by the main thread and the worker, and not
\* by the worker that took it from the queue and again from the postponed
\* messages; whatever the client sends, cancels or answers, and also when
\* folders change while messages are postponed.
THEOREM EveryRequestAnsweredAtMostOnce == Spec => []AtMostOneReply
<1>1. IInv => AtMostOneReply
  BY DEF IInv
<1>. QED BY Invariance, <1>1, PTL
===============================================================================
