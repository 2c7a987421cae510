---------------------- MODULE EngineConversationsProofs ----------------------
(***************************************************************************)
(* Proofs about EngineConversations, for any number of topics, items,      *)
(* requests and conversations.                                             *)
(*                                                                         *)
(* What makes the type invariant and StreamsHaveBuffers inductive is what  *)
(* each place of the main thread knows: which requests come there, whether *)
(* its pair is counted and has a buffer, and under which id it waits.      *)
(***************************************************************************)
EXTENDS EngineConversations, SequenceTheorems, TLAPS

(* Which requests come where.                                              *)
Control ==
  /\ op \in {"none", "add", "remove", "test", "stop"} /\ at \in Where
  /\ pair \in IF at \in {"idle", "gone"} THEN {NoPair} ELSE Pairs
  /\ todo \subseteq Pairs
  /\ requests \in 0 .. MaxRequests
  /\ at \in {"topic", "post", "request", "link", "create", "unwind"} =>
       op \in {"add", "test"}
  /\ at = "begin" => op # "none"
  /\ at \in {"delink", "destroy"} => op \in {"remove", "stop"}
  /\ at = "idle" => op \in {"none", "stop"}
  /\ at = "gone" => op = "stop"
  /\ op # "stop" => todo = {}
  /\ op = "stop" /\ at = "begin" => pair \notin todo

(* What the tables hold where.                                             *)
Table ==
  /\ known \subseteq Topics /\ streams \subseteq Pairs /\ buffers \subseteq Pairs
  /\ writing \in buffers \cup {NoPair}
  /\ count \in [Pairs -> Nat]
  /\ at = "topic" => pair[1] \notin known
  /\ at \in {"post", "request", "link"} =>
       pair[1] \in known /\ pair \notin streams
  /\ at \in {"create", "unwind"} => pair \in streams \ buffers /\ count[pair] = 1
  /\ at \in {"delink", "destroy"} => pair \in streams /\ count[pair] = 0
  /\ at = "close" => ItemsOf(pair[1]) = {}
  /\ at = "forget" => pair[1] \notin known
  /\ StreamsHaveBuffers

(* The id that the main thread waits under, and its flag.                  *)
Wait ==
  /\ at = "topic" => sid = pair[1]
  /\ at \in {"request", "link", "unwind", "delink"} =>
       sid \in (Handles \cup {NULL}) \X {pair[2]}
  /\ at \notin Waiting \cup {"request"} => sid = NULL
  /\ woke \in {"awake", "asleep", "signalled", "timed_out"}
  /\ flags \in [AckIds -> FlagValues]
  /\ \A id \in AckIds : flags[id] # Unset <=> id = sid
  /\ {event, setting, answered, orderly} \subseteq BOOLEAN

(* The conversations are those the platform opened.                        *)
Convos ==
  /\ conv \in [Topics -> Handles \cup {NULL}]
  /\ topicOf \in [Handles -> Topics \cup {NULL}]
  /\ inits \in [Topics -> Nat] /\ opened \in Seq(Topics)
  /\ Len(opened) <= MaxHandles
  /\ open \subseteq Handles /\ links \subseteq Handles \X Items
  /\ quits \in 0 .. MaxQuits
  /\ \A t \in Topics : conv[t] # NULL => conv[t] <= Len(opened)
  /\ \A h \in Handles : topicOf[h] # NULL =>
       h <= Len(opened) /\ opened[h] = topicOf[h]
  /\ \A t \in Topics : conv[t] # NULL => topicOf[conv[t]] = t

Queue == window \in Seq(Messages)

EInv == Control /\ Table /\ Wait /\ Convos /\ Queue

-----------------------------------------------------------------------------
LEMMA InitEInv == Init => EInv
<1> SUFFICES ASSUME Init PROVE EInv
  OBVIOUS
<1>1. Control
  BY BoundsAssumption DEF Init, Control, Where, Waiting
<1>2. Table
  BY DEF Init, Table, StreamsHaveBuffers, ItemsOf
<1>3. Wait
  BY IdsAssumption DEF Init, Wait, SignalsInit, FlagValues, Unset, Waiting
<1>4. Convos
  BY BoundsAssumption DEF Init, Convos, Handles
<1>5. Queue
  BY DEF Init, Queue
<1>. QED BY <1>1, <1>2, <1>3, <1>4, <1>5 DEF EInv

LEMMA ControlKept ==
  ASSUME Control, streams \subseteq Pairs, Next
  PROVE  Control'
<1> USE DEF Control, Where, Waiting, Done, CloseIfEmpty
<1>1. CASE Receive
  BY <1>1, AskedAssumption, BoundsAssumption DEF Receive
<1>2. CASE AddStream
  BY <1>2 DEF AddStream
<1>3. CASE CreateTopic
  BY <1>3 DEF CreateTopic
<1>4. CASE PostItem
  BY <1>4 DEF PostItem
<1>5. CASE PostLink
  BY <1>5 DEF PostLink
<1>6. CASE ItemAnswered
  BY <1>6 DEF ItemAnswered
<1>7. CASE CreateBuffer
  BY <1>7 DEF CreateBuffer, PostCloseItem
<1>8. CASE Unwound
  BY <1>8 DEF Unwound
<1>9. CASE RemoveStream
  BY <1>9 DEF RemoveStream, PostCloseItem
<1>10. CASE CloseItem \/ DestroyBuffer
  BY <1>10 DEF CloseItem, DestroyBuffer
<1>11. CASE CloseTopic
  BY <1>11 DEF CloseTopic
<1>12. CASE ForgetConversation
  BY <1>12 DEF ForgetConversation
<1>13. CASE RemoveAllStreams
  BY <1>13 DEF RemoveAllStreams
<1>14. CASE WokenUp \/ TimesOut
  BY <1>14 DEF WokenUp, TimesOut
<1>15. CASE \/ PassOn \/ TakeAck \/ RouteToBuffer \/ Written \/ FinishSignal
             \/ Quit \/ \E t \in Topics : TopicAck(t)
  BY <1>15 DEF PassOn, TakeAck, RouteToBuffer, Written, FinishSignal, Quit,
               TopicAck, main
<1>. QED
  BY <1>1, <1>2, <1>3, <1>4, <1>5, <1>6, <1>7, <1>8, <1>9, <1>10, <1>11, <1>12,
     <1>13, <1>14, <1>15 DEF Next, Main

LEMMA TableKept ==
  ASSUME Control, Table, Next
  PROVE  Table'
<1> USE DEF Control, Table, StreamsHaveBuffers, ItemsOf, Pairs, Waiting, Where,
            Done, CloseIfEmpty
<1>1. CASE Receive
  BY <1>1 DEF Receive, counts
<1>2. CASE AddStream
  BY <1>2 DEF AddStream, Raised
<1>3. CASE CreateTopic
  BY <1>3 DEF CreateTopic
<1>4. CASE PostItem
  BY <1>4 DEF PostItem, counts
<1>5. CASE PostLink
  BY <1>5 DEF PostLink, counts
<1>6. CASE ItemAnswered
  BY <1>6 DEF ItemAnswered
<1>7. CASE CreateBuffer
  BY <1>7 DEF CreateBuffer, PostCloseItem, counts
<1>8. CASE Unwound
  BY <1>8 DEF Unwound
<1>9. CASE RemoveStream
  BY <1>9 DEF RemoveStream, PostCloseItem, Lowered
<1>10. CASE CloseItem \/ DestroyBuffer
  BY <1>10 DEF CloseItem, DestroyBuffer, counts
<1>11. CASE CloseTopic
  BY <1>11 DEF CloseTopic
<1>12. CASE ForgetConversation
  BY <1>12 DEF ForgetConversation, counts
<1>13. CASE RemoveAllStreams
  BY <1>13 DEF RemoveAllStreams, counts
<1>14. CASE WokenUp \/ TimesOut
  BY <1>14 DEF WokenUp, TimesOut, counts
<1>15. CASE \/ PassOn \/ TakeAck \/ FinishSignal \/ Quit
             \/ \E t \in Topics : TopicAck(t)
  BY <1>15 DEF PassOn, TakeAck, FinishSignal, Quit, TopicAck, main, counts
<1>16. CASE RouteToBuffer \/ Written
  BY <1>16 DEF RouteToBuffer, Written, Routed, main, counts
<1>. QED
  BY <1>1, <1>2, <1>3, <1>4, <1>5, <1>6, <1>7, <1>8, <1>9, <1>10, <1>11, <1>12,
     <1>13, <1>14, <1>15, <1>16 DEF Next, Main

(* The ids: what is asked for at each place is one.                        *)
LEMMA Ids ==
  ASSUME Control, Convos, pair \in Pairs
  PROVE  /\ pair[1] \in Topics /\ pair[1] \in AckIds
         /\ <<conv[pair[1]], pair[2]>> \in (Handles \cup {NULL}) \X {pair[2]}
         /\ <<conv[pair[1]], pair[2]>> \in AckIds
         /\ pair[2] \in Items
BY DEF Convos, AckIds, Pairs

(* What is at the head of the queue, by its kind.                          *)
LEMMA HeadKinds ==
  ASSUME Queue, window # <<>>
  PROVE  /\ Tail(window) \in Seq(Messages)
         /\ Head(window) \in Messages
         /\ Head(window).hwnd \in Handles \cup {NULL}
         /\ Head(window).kind \in {"REQUEST", "LINK", "DELINK", "CLOSE", "ACK"}
         /\ Head(window).kind \in OwnKinds =>
              Head(window).item \in Items \cup {Dangling}
         /\ Head(window).kind = "ACK" =>
              /\ Head(window).hwnd \in Handles /\ Head(window).item \in Items
              /\ Head(window).flag \in {"yes", "no"}
<1>1. Tail(window) \in Seq(Messages) /\ Head(window) \in Messages
  BY DEF Queue
<1>. QED BY <1>1 DEF Messages, OwnKinds

LEMMA WaitKept ==
  ASSUME Control, Wait, Convos, Queue, Next
  PROVE  Wait'
<1>a. NULL \notin AckIds
  BY IdsAssumption
<1>b. ASSUME pair \in Pairs
      PROVE  /\ pair[1] \in AckIds
             /\ <<conv[pair[1]], pair[2]>> \in (Handles \cup {NULL}) \X {pair[2]}
             /\ <<conv[pair[1]], pair[2]>> \in AckIds
  BY <1>b, Ids
<1>c. at \notin {"idle", "gone"} => pair \in Pairs
  BY DEF Control
<1>d. ASSUME NEW id \in AckIds, Asks(id), Wait, UNCHANGED orderly
      PROVE  /\ sid' = id /\ woke' = "asleep"
             /\ flags' \in [AckIds -> FlagValues]
             /\ sid = NULL => \A x \in AckIds : flags'[x] # Unset <=> x = sid'
             /\ {event, setting, answered, orderly}' \subseteq BOOLEAN
  BY <1>a, <1>d DEF Asks, set_signal_ID, Wait, FlagValues, Unset
<1>e. ASSUME Returns, UNCHANGED orderly
      PROVE  /\ sid' = NULL /\ woke' = "awake"
             /\ flags' \in [AckIds -> FlagValues]
             /\ \A x \in AckIds : flags'[x] # Unset <=> x = sid'
             /\ {event, setting, answered, orderly}' \subseteq BOOLEAN
  BY <1>a, <1>e DEF Returns, Erase, Wait, FlagValues, Unset
<1>f. ASSUME NEW id, NEW flag \in {"yes", "no"}, Signals(id, flag), sid' = sid
      PROVE  /\ flags' \in [AckIds -> FlagValues]
             /\ \A x \in AckIds : flags'[x] # Unset <=> x = sid'
             /\ {event, setting, answered, orderly}' \subseteq BOOLEAN
  BY <1>f DEF Signals, signal, Wait, FlagValues, Unset
<1> USE DEF Control, Where, Waiting, Done, CloseIfEmpty
<1>1. CASE Receive
  BY <1>1 DEF Receive, Wait, signals
<1>2. CASE AddStream
  BY <1>2, <1>b, <1>c, <1>d DEF AddStream, Wait, signals
<1>3. CASE CreateTopic
  BY <1>3, <1>e DEF CreateTopic, Wait
<1>4. CASE PostItem
  BY <1>4, <1>b, <1>c, <1>d DEF PostItem, Wait
<1>5. CASE PostLink
  BY <1>5 DEF PostLink, Wait, signals
<1>6. CASE ItemAnswered
  BY <1>6, <1>e DEF ItemAnswered, Wait
<1>7. CASE CreateBuffer
  BY <1>7, <1>b, <1>c, <1>d DEF CreateBuffer, PostCloseItem, Wait, signals
<1>8. CASE Unwound
  BY <1>8, <1>e DEF Unwound, Wait
<1>9. CASE RemoveStream
  BY <1>9, <1>b, <1>c, <1>d DEF RemoveStream, PostCloseItem, Wait, signals
<1>10. CASE CloseItem
  BY <1>10, <1>e DEF CloseItem, Wait
<1>20. CASE DestroyBuffer
  BY <1>20 DEF DestroyBuffer, Wait, signals
<1>11. CASE CloseTopic
  BY <1>11 DEF CloseTopic, Wait, signals
<1>12. CASE ForgetConversation
  BY <1>12 DEF ForgetConversation, Wait, signals
<1>13. CASE RemoveAllStreams
  BY <1>13 DEF RemoveAllStreams, Wait, signals
<1>14. CASE WokenUp
  BY <1>14 DEF WokenUp, Wakes, Wait
<1>15. CASE TimesOut
  BY <1>15 DEF TimesOut, Wait, signals
<1>16. CASE PassOn \/ RouteToBuffer \/ Written \/ Quit
  BY <1>16 DEF PassOn, RouteToBuffer, Written, Quit, main, signals, Wait
<1>17. CASE TakeAck
  <2>1. Head(window).flag \in {"yes", "no"}
    BY <1>17, HeadKinds DEF TakeAck
  <2>. QED BY <1>17, <2>1, <1>f DEF TakeAck, main, Wait
<1>18. CASE FinishSignal
  BY <1>18 DEF FinishSignal, SetEvent, main, Wait
<1>19. CASE \E t \in Topics : TopicAck(t)
  BY <1>19, <1>f DEF TopicAck, main, Wait
<1>. QED
  BY <1>1, <1>2, <1>3, <1>4, <1>5, <1>6, <1>7, <1>8, <1>9, <1>10, <1>11, <1>12,
     <1>13, <1>14, <1>15, <1>16, <1>17, <1>18, <1>19, <1>20
     DEF Next, Main

(* What the platform does with a message keeps its sets and the queue.     *)
LEMMA ServesKeeps ==
  ASSUME Queue, window # <<>>, open \subseteq Handles, links \subseteq Handles \X Items,
         NEW m, m.hwnd \in Handles,
         m.kind \in {"REQUEST", "LINK", "DELINK", "CLOSE"},
         m.kind \in OwnKinds => m.item \in Items,
         Serves(m)
  PROVE  /\ open' \subseteq Handles /\ links' \subseteq Handles \X Items
         /\ Queue'
<1>1. Tail(window) \in Seq(Messages)
  BY HeadKinds
<1>2. ASSUME NEW flag \in {"yes", "no"}, Acks(m, flag), m.item \in Items
      PROVE  Queue'
  <2>1. [kind |-> "ACK", hwnd |-> m.hwnd, item |-> m.item, flag |-> flag]
          \in Messages
    BY <1>2 DEF Messages
  <2>. QED BY <1>1, <1>2, <2>1 DEF Acks, Queue
<1>3. CASE m.kind = "REQUEST"
  BY <1>1, <1>2, <1>3 DEF Serves, Queue, OwnKinds
<1>4. CASE m.kind = "LINK"
  BY <1>2, <1>4 DEF Serves, OwnKinds
<1>5. CASE m.kind = "DELINK"
  BY <1>2, <1>5 DEF Serves, OwnKinds
<1>6. CASE m.kind = "CLOSE"
  BY <1>1, <1>6 DEF Serves, Queue
<1>. QED BY <1>3, <1>4, <1>5, <1>6

LEMMA PassOnKeeps ==
  ASSUME Queue, Convos, PassOn
  PROVE  /\ open' \subseteq Handles /\ links' \subseteq Handles \X Items
         /\ Queue'
<1> DEFINE m == Head(window)
<1>1. window # <<>> /\ m.kind # "ACK"
  BY DEF PassOn
<1>2. /\ Tail(window) \in Seq(Messages)
      /\ m \in Messages
      /\ m.kind \in {"REQUEST", "LINK", "DELINK", "CLOSE"}
      /\ m.kind \in OwnKinds => m.item \in Items \cup {Dangling}
  BY <1>1, HeadKinds
<1>3. open \subseteq Handles /\ links \subseteq Handles \X Items
  BY DEF Convos
<1>4. CASE Drops
  BY <1>2, <1>3, <1>4 DEF Drops, Queue
<1>5. ASSUME m.hwnd \in open, NEW i \in Items, m.item = Dangling,
             Serves([m EXCEPT !.item = i])
      PROVE  /\ open' \subseteq Handles /\ links' \subseteq Handles \X Items
             /\ Queue'
  <2> DEFINE n == [m EXCEPT !.item = i]
  <2>1. n.hwnd = m.hwnd /\ n.kind = m.kind /\ n.item = i
    BY <1>2 DEF Messages
  <2>2. Serves(n)
    BY <1>5
  <2> HIDE DEF n
  <2>. QED BY <1>1, <1>2, <1>3, <1>5, <2>1, <2>2, ServesKeeps
<1>6. CASE m.hwnd \in open /\ m.item # Dangling /\ Serves(m)
  <2> HIDE DEF m
  <2>. QED BY <1>1, <1>2, <1>3, <1>6, ServesKeeps
<1>. QED BY <1>4, <1>5, <1>6 DEF PassOn

LEMMA ConvosKept ==
  ASSUME Control, Convos, Queue, Next
  PROVE  Convos'
<1>1. CASE Receive
  BY <1>1 DEF Receive, convos, platform, Convos
<1>2. CASE AddStream
  <2>1. pair \in Pairs
    BY <1>2 DEF AddStream, Control
  <2>2. inits' = inits \/ inits' = [inits EXCEPT ![pair[1]] = @ + 1]
    BY <1>2 DEF AddStream
  <2>3. inits' \in [Topics -> Nat]
    BY <2>1, <2>2, Ids DEF Convos
  <2>. QED BY <1>2, <2>3 DEF AddStream, Convos, convos
<1>3. CASE CreateTopic \/ PostItem \/ PostLink \/ ItemAnswered
  BY <1>3 DEF CreateTopic, PostItem, PostLink, ItemAnswered, convos, platform, Convos
<1>4. CASE CreateBuffer \/ Unwound \/ RemoveStream \/ CloseItem \/ DestroyBuffer
  BY <1>4 DEF CreateBuffer, Unwound, RemoveStream, CloseItem, DestroyBuffer, convos,
              platform, Convos
<1>5. CASE CloseTopic \/ RemoveAllStreams \/ WokenUp \/ TimesOut
  BY <1>5 DEF CloseTopic, RemoveAllStreams, WokenUp, TimesOut, convos, platform, Convos
<1>6. CASE ForgetConversation
  <2> DEFINE t == pair[1]
  <2>1. /\ conv' = [conv EXCEPT ![t] = NULL]
        /\ topicOf' = [h \in Handles |-> IF h = conv[t] THEN NULL ELSE topicOf[h]]
    BY <1>6 DEF ForgetConversation, RemoveTopic
  <2>2. pair \in Pairs
    BY <1>6 DEF ForgetConversation, Control
  <2>3. t \in Topics
    BY <2>2, Ids
  <2> HIDE DEF t
  <2>4. /\ conv' \in [Topics -> Handles \cup {NULL}]
        /\ topicOf' \in [Handles -> Topics \cup {NULL}]
    BY <2>1, <2>3 DEF Convos
  <2>5. \A s \in Topics : conv'[s] # NULL => s # t /\ conv'[s] = conv[s]
    BY <2>1, <2>3 DEF Convos
  <2>6. \A h \in Handles : topicOf'[h] # NULL => topicOf'[h] = topicOf[h]
    BY <2>1
  <2>7. ASSUME NEW s \in Topics, conv'[s] # NULL
        PROVE  topicOf'[conv'[s]] = s
    <3>1. s # t /\ conv'[s] = conv[s] /\ conv[s] \in Handles /\ topicOf[conv[s]] = s
      BY <2>5, <2>7 DEF Convos
    <3>2. conv[s] # conv[t]
      <4>1. CASE conv[t] = NULL
        BY <2>5, <2>7, <4>1
      <4>2. CASE conv[t] # NULL
        BY <2>3, <3>1, <4>2 DEF Convos
      <4>. QED BY <4>1, <4>2
    <3>. QED BY <2>1, <3>1, <3>2
  <2>8. platform' = platform
    BY <1>6 DEF ForgetConversation
  <2>. QED BY <2>4, <2>5, <2>6, <2>7, <2>8 DEF platform, Convos
<1>7. CASE PassOn
  <2>1. open' \subseteq Handles /\ links' \subseteq Handles \X Items
    BY <1>7, PassOnKeeps
  <2>. QED BY <1>7, <2>1 DEF PassOn, convos, Convos
<1>8. CASE TakeAck \/ RouteToBuffer \/ Written \/ FinishSignal
  BY <1>8 DEF TakeAck, RouteToBuffer, Written, FinishSignal, convos, platform, Convos
<1>9. CASE Quit
  BY <1>9, BoundsAssumption DEF Quit, convos, Convos
<1>10. ASSUME NEW t \in Topics, TopicAck(t)
       PROVE  Convos'
  <2>a. opened' = Append(opened, t) /\ Len(opened) < MaxHandles
    BY <1>10 DEF TopicAck
  <2>b. opened \in Seq(Topics)
    BY DEF Convos
  <2>c. /\ opened' \in Seq(Topics) /\ Len(opened') = Len(opened) + 1
        /\ opened'[Len(opened) + 1] = t
        /\ \A h \in 1 .. Len(opened) : opened'[h] = opened[h]
        /\ Len(opened) \in Nat
    BY <2>a, <2>b, AppendProperties
  <2>1. /\ opened' \in Seq(Topics) /\ Len(opened') = Len(opened) + 1
        /\ opened'[Len(opened')] = t
        /\ \A h \in 1 .. Len(opened) : opened'[h] = opened[h]
        /\ Len(opened) \in Nat /\ Len(opened') <= MaxHandles
    BY <2>a, <2>c, BoundsAssumption
  <2>2. Len(opened') \in Handles /\ Len(opened') \notin 1 .. Len(opened)
    BY <2>1, BoundsAssumption DEF Handles
  <2>3. /\ inits' \in [Topics -> Nat] /\ open' \subseteq Handles
        /\ links' \subseteq Handles \X Items /\ quits' \in 0 .. MaxQuits
    BY <1>10, <2>2 DEF TopicAck, Convos
  <2>4. /\ conv' = [conv EXCEPT ![t] = Len(opened')]
        /\ topicOf' = [topicOf EXCEPT ![Len(opened')] = t]
    BY <1>10 DEF TopicAck, Insert
  <2>5. /\ conv' \in [Topics -> Handles \cup {NULL}]
        /\ topicOf' \in [Handles -> Topics \cup {NULL}]
    BY <2>2, <2>4 DEF Convos
  <2>6. \A s \in Topics : conv'[s] # NULL => conv'[s] <= Len(opened')
    BY <2>1, <2>2, <2>4, NullAssumption DEF Convos, Handles
  <2>7. ASSUME NEW h \in Handles, topicOf'[h] # NULL
        PROVE  h <= Len(opened') /\ opened'[h] = topicOf'[h]
    <3>1. CASE h = Len(opened')
      BY <2>1, <2>2, <2>4, <3>1 DEF Convos
    <3>2. CASE h # Len(opened')
      <4>1. topicOf'[h] = topicOf[h]
        BY <2>4, <3>2 DEF Convos
      <4>2. h <= Len(opened) /\ opened[h] = topicOf[h]
        BY <2>7, <4>1 DEF Convos
      <4>3. h \in 1 .. Len(opened) /\ h <= Len(opened')
        BY <2>1, <4>2 DEF Handles
      <4>. QED BY <2>1, <4>1, <4>2, <4>3
    <3>. QED BY <3>1, <3>2
  <2>8. ASSUME NEW s \in Topics, conv'[s] # NULL
        PROVE  topicOf'[conv'[s]] = s
    <3>1. CASE s = t
      BY <2>2, <2>4, <3>1 DEF Convos
    <3>2. CASE s # t
      <4>1. conv'[s] = conv[s]
        BY <2>4, <3>2 DEF Convos
      <4>2. conv[s] \in Handles /\ topicOf[conv[s]] = s /\ conv[s] <= Len(opened)
        BY <2>8, <4>1 DEF Convos
      <4>3. conv[s] # Len(opened')
        BY <2>1, <4>2 DEF Handles
      <4>. QED BY <2>4, <4>1, <4>2, <4>3 DEF Convos
    <3>. QED BY <3>1, <3>2
  <2>. QED BY <2>1, <2>3, <2>5, <2>6, <2>7, <2>8 DEF Convos
<1>. QED
  BY <1>1, <1>2, <1>3, <1>4, <1>5, <1>6, <1>7, <1>8, <1>9, <1>10 DEF Next, Main

LEMMA QueueKept ==
  ASSUME Control, Wait, Convos, Queue, Next
  PROVE  Queue'
<1>a. \A m \in Messages : Append(window, m) \in Seq(Messages)
  BY DEF Queue
<1>b. at \notin {"idle", "gone"} => pair \in Pairs
  BY DEF Control
<1>c. ASSUME pair \in Pairs, NEW kind \in OwnKinds
      PROVE  Message(kind, conv[pair[1]], pair[2]) \in Messages
  BY <1>c, Ids DEF Message, Messages, Convos
<1>1. CASE CreateTopic \/ ItemAnswered \/ Unwound \/ CloseItem
  <2>1. window' = [k \in DOMAIN window |->
                     IF window[k].kind \in OwnKinds
                     THEN [window[k] EXCEPT !.item = Dangling] ELSE window[k]]
    BY <1>1 DEF CreateTopic, ItemAnswered, Unwound, CloseItem, Returns
  <2>2. window \in Seq(Messages) /\ Len(window) \in Nat
    BY DEF Queue
  <2>3. ASSUME NEW m \in Messages, m.kind \in OwnKinds
        PROVE  [m EXCEPT !.item = Dangling] \in Messages
    BY <2>3 DEF Messages, OwnKinds
  <2>4. window' \in [1 .. Len(window) -> Messages]
    BY <2>1, <2>2, <2>3
  <2>. QED BY <2>2, <2>4, SeqDef DEF Queue
<1>2. CASE PostItem
  BY <1>2, <1>a, <1>b, <1>c DEF PostItem, Queue, OwnKinds
<1>3. CASE PostLink
  <2>1. sid[1] \in Handles \cup {NULL} /\ pair[2] \in Items
    BY <1>3, <1>b, Ids DEF PostLink, Wait
  <2>2. Message("LINK", sid[1], pair[2]) \in Messages
    BY <2>1 DEF Message, Messages, OwnKinds
  <2>. QED BY <1>3, <1>a, <2>2 DEF PostLink, Queue
<1>4. CASE CreateBuffer
  BY <1>4, <1>a, <1>b, <1>c DEF CreateBuffer, PostCloseItem, Queue, OwnKinds
<1>5. CASE RemoveStream
  BY <1>5, <1>a, <1>b, <1>c DEF RemoveStream, PostCloseItem, Queue, OwnKinds
<1>6. CASE CloseTopic
  <2>1. conv[pair[1]] \in Handles \cup {NULL}
    BY <1>6, <1>b, Ids DEF CloseTopic, Convos
  <2>2. Message("CLOSE", conv[pair[1]], NULL) \in Messages
    BY <2>1 DEF Message, Messages
  <2>. QED BY <1>6, <1>a, <2>2 DEF CloseTopic, Queue
<1>7. CASE PassOn
  BY <1>7, PassOnKeeps
<1>8. CASE TakeAck
  BY <1>8, HeadKinds DEF TakeAck, Queue
<1>9. CASE Receive \/ AddStream \/ ForgetConversation \/ RemoveAllStreams
             \/ DestroyBuffer \/ WokenUp \/ TimesOut \/ RouteToBuffer \/ Written
             \/ FinishSignal \/ Quit \/ \E t \in Topics : TopicAck(t)
  BY <1>9 DEF Receive, AddStream, ForgetConversation, RemoveAllStreams,
              DestroyBuffer, WokenUp, TimesOut, RouteToBuffer, Written,
              FinishSignal, Quit, TopicAck, Queue
<1>. QED BY <1>1, <1>2, <1>3, <1>4, <1>5, <1>6, <1>7, <1>8, <1>9 DEF Next, Main

LEMMA EInvKept ==
  ASSUME EInv, [Next]_vars
  PROVE  EInv'
<1>1. CASE Next
  <2>1. streams \subseteq Pairs
    BY DEF EInv, Table
  <2>. QED
    BY <1>1, <2>1, ControlKept, TableKept, WaitKept, ConvosKept, QueueKept
    DEF EInv
<1>2. CASE UNCHANGED vars
  <2>1. Control' /\ Table'
    BY <1>2 DEF EInv, vars, counts, main, Control, Table, StreamsHaveBuffers, ItemsOf
  <2>2. Wait'
    BY <1>2 DEF EInv, vars, main, signals, Wait
  <2>3. Convos' /\ Queue'
    BY <1>2 DEF EInv, vars, convos, platform, Convos, Queue
  <2>. QED BY <2>1, <2>2, <2>3 DEF EInv
<1>. QED BY <1>1, <1>2

LEMMA Invariant == Spec => []EInv
BY InitEInv, EInvKept, PTL DEF Spec

(* Types, and that the only flag is the one that the main thread waits     *)
(* for: set_signal_ID finds its id free and wait_for finds it taken.       *)
THEOREM TypeCorrect == Spec => []TypeOK
<1>1. ASSUME EInv PROVE TypeOK
  <2>1. Control /\ Table /\ Wait /\ Convos /\ Queue
    BY <1>1 DEF EInv
  <2>2. ASSUME at \notin {"idle", "gone"}
        PROVE  pair[1] \in AckIds /\ (Handles \cup {NULL}) \X {pair[2]} \subseteq AckIds
    BY <2>1, <2>2, Ids DEF Control, AckIds
  <2>3. sid \in AckIds \cup {NULL} /\ (sid # NULL <=> at \in Waiting \cup {"request"})
    BY <2>1, <2>2, IdsAssumption DEF Wait, Waiting
  <2>. QED BY <2>1, <2>3 DEF TypeOK, Control, Table, Wait, Convos, Queue
<1>. QED BY <1>1, Invariant, PTL

(* Between requests the engine has a buffer for each pair it counts and    *)
(* for no other, and no topic without items, whatever step of a request    *)
(* failed: every way that AddStream unwinds and RemoveStream goes on after *)
(* an error ends there.                                                    *)
THEOREM BuffersFollowStreams == Spec => []StreamsHaveBuffers
<1>1. EInv => StreamsHaveBuffers
  BY DEF EInv, Table
<1>. QED BY <1>1, Invariant, PTL

-----------------------------------------------------------------------------
(* The counts that the tables stand for.                                   *)
LEMMA CountsUnchanged ==
  ASSUME Counted' = Counted, Asking' = Asking, Stopped' = Stopped,
         Remaining' = Remaining
  PROVE  UNCHANGED Counts!vars
BY DEF Counts!vars

LEMMA InitCounts == Init => Counts!Init
BY DEF Init, Counts!Init, Counted, Asking, Stopped, Remaining, Undecided,
       Counts!Nothing

(* A request that is decided and changes nothing: a refusal.               *)
LEMMA Refused ==
  ASSUME pair \in Pairs, op \in {"add", "test"}, Undecided, ~Undecided',
         Counted' = Counted, Stopped' = Stopped, Remaining' = Remaining
  PROVE  Counts!Next
<1>1. Counts!Refuse(pair)
  BY DEF Counts!Refuse, Counts!Request, Counts!Nothing, Asking
<1>. QED BY <1>1 DEF Counts!Next

(* Only the place of the main thread changes.                              *)
LEMMA CountedFrame ==
  ASSUME count' = count,
         pair' = pair, at' \in {"create", "unwind"} <=> at \in {"create", "unwind"}
  PROVE  Counted' = Counted
BY DEF Counted

LEMMA AddStreamCounts ==
  ASSUME EInv, AddStream
  PROVE  Counts!Next \/ UNCHANGED Counts!vars
<1>1. /\ at = "begin" /\ op \in {"add", "test"} /\ pair \in Pairs
      /\ count \in [Pairs -> Nat] /\ todo' = todo
  BY DEF AddStream, EInv, Control, Table
<1>2. CASE op' = op /\ pair' = pair /\ count' = count /\ at' \in {"topic", "post"}
  <2>1. Counted' = Counted
    BY <1>1, <1>2 DEF Counted
  <2>2. Asking' = Asking /\ Stopped' = Stopped /\ Remaining' = Remaining
    BY <1>1, <1>2 DEF Asking, Undecided, Stopped, Remaining
  <2>. QED BY <2>1, <2>2, CountsUnchanged
<1>3. CASE count' = Raised /\ Done(TRUE)
  <2>1. Counted' = [Counted EXCEPT ![pair] = @ + 1]
    BY <1>1, <1>3 DEF Counted, Raised, Done
  <2>2. /\ Stopped' = Stopped /\ Remaining' = Remaining
        /\ Asking = Counts!Request(op, pair)
        /\ op = "add" => Asking' = Counts!Nothing
        /\ op = "test" => Asking' = Counts!Request("remove", pair)
    BY <1>1, <1>3 DEF Asking, Undecided, Stopped, Remaining, Done,
                      Counts!Request, Counts!Nothing
  <2>3. Counts!Add(pair)
    BY <1>1, <2>1, <2>2 DEF Counts!Add, Counts!Raised
  <2>. QED BY <1>1, <2>3 DEF Counts!Next
<1>. QED BY <1>2, <1>3 DEF AddStream

(* Where AddStream ends that could not add, nothing has been counted.      *)
LEMMA GivesUp ==
  ASSUME at \in {"topic", "link", "create"}, op \in {"add", "test"}, pair \in Pairs,
         todo' = todo, Counted' = Counted,
         \/ at' \in {"close", "unwind"} /\ op' = op
         \/ Done(FALSE)
  PROVE  Counts!Next
<1>1. Undecided /\ ~Undecided' /\ Stopped' = Stopped /\ Remaining' = Remaining
  BY DEF Undecided, Stopped, Remaining, Done
<1>. QED BY <1>1, Refused

LEMMA AnsweredCounts ==
  ASSUME EInv, CreateTopic \/ ItemAnswered
  PROVE  Counts!Next \/ UNCHANGED Counts!vars
<1>1. /\ at \in {"topic", "link"} /\ op \in {"add", "test"} /\ pair \in Pairs
      /\ todo' = todo /\ count \in [Pairs -> Nat]
      /\ at = "link" => count[pair] = 0
  BY DEF CreateTopic, ItemAnswered, EInv, Control, Table, StreamsHaveBuffers
<1>2. CASE at' \in {"post", "create"} /\ op' = op /\ pair' = pair /\ Counted' = Counted
  <2>1. Asking' = Asking /\ Stopped' = Stopped /\ Remaining' = Remaining
    BY <1>1, <1>2 DEF Asking, Undecided, Stopped, Remaining
  <2>. QED BY <1>2, <2>1, CountsUnchanged
<1>3. CASE CreateTopic
  <2>1. at' \in {"post", "close"} /\ count' = count /\ op' = op /\ pair' = pair
    BY <1>3 DEF CreateTopic
  <2>2. Counted' = Counted
    BY <1>3, <2>1 DEF Counted, CreateTopic
  <2>. QED BY <1>1, <1>2, <2>1, <2>2, GivesUp
<1>4. CASE ItemAnswered /\ Acked
  <2>1. /\ at = "link" /\ at' = "create" /\ op' = op /\ pair' = pair
        /\ count' = [count EXCEPT ![pair] = 1]
    BY <1>4 DEF ItemAnswered
  <2>2. /\ Counted = [p \in Pairs |-> count[p]]
        /\ Counted' = [p \in Pairs |-> IF p = pair THEN 0 ELSE count'[p]]
    BY <2>1 DEF Counted
  <2>3. \A p \in Pairs : count[p] = IF p = pair THEN 0 ELSE count'[p]
    BY <1>1, <2>1
  <2>4. Counted' = Counted
    BY <2>2, <2>3
  <2>. QED BY <1>2, <2>1, <2>4
<1>5. CASE ItemAnswered /\ ~Acked
  <2>1. /\ count' = count
        /\ (at' = "close" /\ op' = op /\ pair' = pair) \/ Done(FALSE)
    BY <1>5 DEF ItemAnswered, CloseIfEmpty
  <2>2. Counted' = Counted
    BY <1>1, <1>5, <2>1 DEF Counted, ItemAnswered, Done
  <2>. QED BY <1>1, <2>1, <2>2, GivesUp
<1>. QED BY <1>3, <1>4, <1>5

LEMMA CreateBufferCounts ==
  ASSUME EInv, CreateBuffer
  PROVE  Counts!Next
<1>1. /\ at = "create" /\ op \in {"add", "test"} /\ pair \in Pairs
      /\ todo' = todo /\ count' = count /\ count \in [Pairs -> Nat]
      /\ count[pair] = 1
  BY DEF CreateBuffer, EInv, Control, Table, counts
<1>2. CASE Done(TRUE)
  <2>a. at' \in {"begin", "idle"}
    BY <1>2 DEF Done
  <2>b. /\ Counted = [p \in Pairs |-> IF p = pair THEN 0 ELSE count[p]]
        /\ Counted' = [p \in Pairs |-> count[p]]
    BY <1>1, <2>a DEF Counted
  <2>1. Counted' = [Counted EXCEPT ![pair] = @ + 1]
    BY <1>1, <2>b
  <2>2. /\ Stopped' = Stopped /\ Remaining' = Remaining
        /\ Asking = Counts!Request(op, pair)
        /\ op = "add" => Asking' = Counts!Nothing
        /\ op = "test" => Asking' = Counts!Request("remove", pair)
    BY <1>1, <1>2 DEF Asking, Undecided, Stopped, Remaining, Done,
                      Counts!Request, Counts!Nothing
  <2>3. Counts!Add(pair)
    BY <1>1, <2>1, <2>2 DEF Counts!Add, Counts!Raised
  <2>. QED BY <1>1, <2>3 DEF Counts!Next
<1>3. CASE at' = "unwind" /\ op' = op /\ pair' = pair
  <2>1. Counted' = Counted
    BY <1>1, <1>3, CountedFrame
  <2>. QED BY <1>1, <1>3, <2>1, GivesUp
<1>. QED BY <1>2, <1>3 DEF CreateBuffer, PostCloseItem

LEMMA RemoveStreamCounts ==
  ASSUME EInv, RemoveStream
  PROVE  Counts!Next
<1>1. /\ at = "begin" /\ op \in {"remove", "stop"} /\ pair \in Pairs
      /\ todo' = todo /\ todo \subseteq Pairs /\ count \in [Pairs -> Nat]
      /\ pair \notin streams => count[pair] = 0
      /\ op = "stop" => pair \notin todo
      /\ op # "stop" => todo = {}
  BY DEF RemoveStream, EInv, Control, Table, StreamsHaveBuffers
<1>2. /\ op' \in {op, "none"} /\ (op' = "stop" <=> op = "stop")
      /\ at' \in {"delink", "idle", "close"}
  BY <1>1 DEF RemoveStream, PostCloseItem, Done, CloseIfEmpty
<1>3. Counted' = Counts!Dropped(pair)
  <2>1. CASE pair \in streams
    <3>1. count' = Lowered /\ count[pair] # 0
      BY <1>1, <2>1 DEF RemoveStream, EInv, Table, StreamsHaveBuffers
    <3>2. count' = [p \in Pairs |-> IF p = pair THEN count[p] - 1 ELSE count[p]]
      BY <1>1, <3>1 DEF Lowered
    <3>. QED BY <1>1, <1>2, <3>1, <3>2 DEF Counted, Counts!Dropped
  <2>2. CASE pair \notin streams
    <3>1. count' = count /\ count[pair] = 0
      BY <1>1, <2>2 DEF RemoveStream
    <3>. QED BY <1>1, <1>2, <3>1 DEF Counted, Counts!Dropped
  <2>. QED BY <2>1, <2>2
<1>4. Stopped' = Stopped /\ Asking' = Counts!Nothing
  BY <1>1, <1>2 DEF Stopped, Asking, Undecided, Counts!Nothing
<1>5. CASE op = "remove"
  <2>1. Asking = Counts!Request("remove", pair) /\ Remaining' = Remaining
    BY <1>1, <1>2, <1>5 DEF Asking, Undecided, Remaining, Counts!Request
  <2>2. Counts!Remove(pair)
    BY <1>3, <1>4, <2>1 DEF Counts!Remove
  <2>. QED BY <1>1, <2>2 DEF Counts!Next
<1>6. CASE op = "stop"
  <2>1. /\ pair \in Remaining /\ Remaining' = Remaining \ {pair}
        /\ Asking = Counts!Nothing
    BY <1>1, <1>2, <1>6 DEF Asking, Undecided, Remaining, Counts!Nothing
  <2>2. Counts!GiveUp(pair)
    BY <1>3, <1>4, <2>1 DEF Counts!GiveUp
  <2>. QED BY <1>1, <2>2 DEF Counts!Next
<1>. QED BY <1>1, <1>5, <1>6

LEMMA ReceiveCounts ==
  ASSUME EInv, Receive
  PROVE  Counts!Next
<1>1. /\ at = "idle" /\ op = "none" /\ todo = {} /\ count' = count
      /\ count \in [Pairs -> Nat] /\ streams \subseteq Pairs
      /\ \A p \in Pairs : p \in streams <=> count[p] > 0
  BY DEF Receive, EInv, Control, Table, StreamsHaveBuffers, counts
<1>2. /\ at' \in {"idle", "begin"} /\ Asking = Counts!Nothing /\ Stopped = FALSE
      /\ Remaining = {} /\ Counted = count /\ Counted' = count'
  <2>1. at' \in {"idle", "begin"}
    BY <1>1 DEF Receive
  <2>2. Asking = Counts!Nothing /\ Stopped = FALSE /\ Remaining = {}
    BY <1>1 DEF Asking, Undecided, Stopped, Remaining, Counts!Nothing
  <2>3. Counted = count /\ Counted' = count'
    BY <1>1, <2>1 DEF Counted
  <2>. QED BY <2>1, <2>2, <2>3
<1>3. CASE op' \in {"add", "remove", "test"} /\ pair' \in Asked /\ at' = "begin" /\ todo' = todo
  <2>1. /\ Asking' = Counts!Request(op', pair') /\ Stopped' = FALSE
        /\ Remaining' = {} /\ pair' \in Pairs
    BY <1>1, <1>3, AskedAssumption
    DEF Asking, Undecided, Stopped, Remaining, Counts!Request
  <2>2. Counts!Ask
    BY <1>1, <1>2, <1>3, <2>1 DEF Counts!Ask
  <2>. QED BY <2>2 DEF Counts!Next
<1>4. CASE op' = "stop" /\ todo' = streams /\ at' = at
  <2>1. Asking' = Counts!Nothing /\ Stopped' = TRUE /\ Remaining' = streams
    BY <1>1, <1>4 DEF Asking, Undecided, Stopped, Remaining, Counts!Nothing
  <2>2. streams = {p \in Pairs : Counted[p] > 0}
    BY <1>1, <1>2
  <2>3. Counts!Stop
    BY <1>1, <1>2, <2>1, <2>2 DEF Counts!Stop
  <2>. QED BY <2>3 DEF Counts!Next
<1>. QED BY <1>3, <1>4 DEF Receive

LEMMA RemoveAllStreamsCounts ==
  ASSUME EInv, RemoveAllStreams
  PROVE  UNCHANGED Counts!vars
<1>1. /\ at = "idle" /\ op = "stop" /\ op' = op /\ count' = count
      /\ at' \in {"gone", "begin"}
      /\ todo' \cup (IF at' = "begin" THEN {pair'} ELSE {}) = todo
  BY DEF RemoveAllStreams, counts
<1>2. Counted' = Counted
  BY <1>1 DEF Counted
<1>3. Asking' = Asking /\ Stopped' = Stopped /\ Remaining' = Remaining
  BY <1>1 DEF Asking, Undecided, Stopped, Remaining
<1>. QED BY <1>2, <1>3, CountsUnchanged

(* The steps between the waits and after the request is decided.           *)
LEMMA PlaceCounts ==
  ASSUME EInv,
         \/ PostItem \/ PostLink \/ Unwound \/ CloseItem \/ DestroyBuffer
         \/ CloseTopic \/ ForgetConversation
  PROVE  UNCHANGED Counts!vars
<1>1. /\ at \in {"post", "request", "unwind", "delink", "destroy", "close",
                "forget"}
      /\ at \in {"post", "request"} => at' \in {"request", "link"} /\ op' = op /\ pair' = pair
      /\ at \notin {"post", "request"} =>
           /\ at' \in {"destroy", "close", "forget", "idle"}
           /\ op' = "stop" <=> op = "stop"
      /\ todo' = todo
      /\ at = "unwind" => op \in {"add", "test"}
  BY DEF PostItem, PostLink, Unwound, CloseItem, DestroyBuffer, CloseTopic,
         ForgetConversation, Done, CloseIfEmpty, EInv, Control
<1>2. Asking' = Asking
  BY <1>1 DEF Asking, Undecided
<1>3. Stopped' = Stopped /\ Remaining' = Remaining
  BY <1>1 DEF Stopped, Remaining
<1>4. Counted' = Counted
  <2>1. CASE at = "unwind"
    <3>1. count' = [count EXCEPT ![pair] = 0] /\ count \in [Pairs -> Nat]
      BY <2>1 DEF Unwound, PostItem, PostLink, CloseItem, DestroyBuffer, CloseTopic,
                  ForgetConversation, EInv, Table
    <3>2. /\ Counted = [p \in Pairs |-> IF p = pair THEN 0 ELSE count[p]]
          /\ Counted' = [p \in Pairs |-> count'[p]]
      BY <1>1, <2>1 DEF Counted
    <3>. QED BY <3>1, <3>2
  <2>2. CASE at # "unwind"
    <3>1. count' = count
      BY <2>2 DEF Unwound, PostItem, PostLink, CloseItem, DestroyBuffer, CloseTopic,
                  ForgetConversation, counts
    <3>. QED BY <1>1, <2>2, <3>1 DEF Counted
  <2>. QED BY <2>1, <2>2
<1>. QED BY <1>2, <1>3, <1>4, CountsUnchanged

LEMMA OthersCount ==
  ASSUME UNCHANGED <<counts, op, pair, at, todo>>
  PROVE  UNCHANGED Counts!vars
BY DEF Counts!vars, Counted, Asking, Undecided, Stopped, Remaining, counts

LEMMA CountsStep ==
  ASSUME EInv, [Next]_vars
  PROVE  [Counts!Next]_Counts!vars
<1>1. CASE Receive \/ AddStream \/ CreateTopic \/ ItemAnswered \/ CreateBuffer
             \/ RemoveStream \/ RemoveAllStreams
  BY <1>1, ReceiveCounts, AddStreamCounts, AnsweredCounts, CreateBufferCounts,
     RemoveStreamCounts, RemoveAllStreamsCounts
<1>2. CASE PostItem \/ PostLink \/ Unwound \/ CloseItem \/ DestroyBuffer
             \/ CloseTopic \/ ForgetConversation
  BY <1>2, PlaceCounts
<1>3. CASE \/ WokenUp \/ TimesOut \/ PassOn \/ TakeAck \/ RouteToBuffer
             \/ Written \/ FinishSignal \/ Quit \/ UNCHANGED vars
             \/ \E t \in Topics : TopicAck(t)
  <2>1. UNCHANGED <<counts, op, pair, at, todo>>
    BY <1>3 DEF WokenUp, TimesOut, PassOn, TakeAck, RouteToBuffer, Written,
                FinishSignal, Quit, TopicAck, vars, main
  <2>. QED BY <2>1, OthersCount
<1>. QED BY <1>1, <1>2, <1>3 DEF Next, Main

(* Requests change the counts as StreamCounts says: each the count of its  *)
(* own pair, once, or it is refused and changes nothing, at one step of    *)
(* AddStream or RemoveStream and whatever else fails on the way.           *)
THEOREM ImplementsStreamCounts == Spec => CountsSpec
<1>1. Init => Counts!Init
  BY InitCounts
<1>2. EInv /\ [Next]_vars => [Counts!Next]_Counts!vars
  BY CountsStep
<1>. QED BY <1>1, <1>2, Invariant, PTL DEF Spec, CountsSpec, Counts!Spec

(* Whatever comes late: a value never reaches the buffer of another topic  *)
(* than that its conversation was opened for, and the topic of a window is *)
(* found again from the window that the topic is at.                       *)
NoValueAstray ==
  /\ \A h \in Handles, i \in Items : \A p \in Routed(h, i) : p[1] = opened[h]
  /\ \A t \in Topics : conv[t] # NULL => topicOf[conv[t]] = t

LEMMA ValuesStayWithTheirTopic == Spec => []NoValueAstray
<1>1. ASSUME EInv PROVE NoValueAstray
  <2>1. ASSUME NEW h \in Handles, NEW i \in Items, NEW p \in Routed(h, i)
        PROVE  p[1] = opened[h]
    <3>1. p \in Pairs /\ p = <<topicOf[h], i>>
      BY <1>1, <2>1 DEF Routed, EInv, Table
    <3>2. topicOf[h] \in Topics
      BY <3>1 DEF Pairs
    <3>3. topicOf[h] # NULL
      <4>1. NULL \notin Topics
        BY IdsAssumption DEF AckIds
      <4>. QED BY <3>2, <4>1
    <3>. QED BY <1>1, <3>1, <3>3 DEF EInv, Convos
  <2>2. \A t \in Topics : conv[t] # NULL => topicOf[conv[t]] = t
    BY <1>1 DEF EInv, Convos
  <2>. QED BY <2>1, <2>2 DEF NoValueAstray
<1>. QED BY <1>1, Invariant, PTL

-----------------------------------------------------------------------------
(***************************************************************************)
(* How far the main thread is from the end of what it was asked for.       *)
(***************************************************************************)

(* A place counts for more than those it leads to; a wait is two steps,    *)
(* and a test goes on to remove.                                           *)
Place ==
  CASE at = "begin" -> 12 [] at = "topic" -> 11 [] at = "post" -> 10
    [] at = "request" -> 9 [] at = "link" -> 8 [] at = "create" -> 7
    [] at = "unwind" -> 6 [] at = "delink" -> 5 [] at = "destroy" -> 4
    [] at = "close" -> 3 [] at = "forget" -> 2 [] at = "idle" -> 1
    [] at = "gone" -> 0

Left == 2 * Place + (IF woke = "asleep" THEN 1 ELSE 0)
                  + (IF op = "test" THEN 25 ELSE 0)

(* A request is under way, and a step that brings its end nearer: one pair *)
(* less for RemoveAllStreams, or less left to do for this one.             *)
Serving == at \notin {"idle", "gone"} \/ (at = "idle" /\ op = "stop")
Nearer ==
  \/ todo' \subseteq todo /\ todo' # todo
  \/ todo' = todo /\ Left' < Left

LEMMA LeftBounded ==
  ASSUME EInv
  PROVE  Left \in 0 .. 50
<1>1. Place \in 0 .. 12
  BY DEF EInv, Control, Where, Waiting, Place
<1>. QED BY <1>1 DEF Left

(* A request that is done, given up or taken back to the closing of its    *)
(* topic, from a place above these.                                        *)
LEMMA DoneIsNearer ==
  ASSUME EInv, todo' = todo, woke' \in {woke, "awake"},
         at \notin {"idle", "gone"},
         \/ \E good \in BOOLEAN : Done(good)
         \/ at' = "close" /\ op' = op
         \/ CloseIfEmpty(streams) \/ CloseIfEmpty(streams'),
         at' = "close" => at \notin {"close", "forget"}
  PROVE  Nearer
<1>1. \/ at' = "begin" /\ op = "test" /\ op' = "remove"
      \/ at' = "idle" /\ op' \in {op, "none"}
      \/ at' = "close" /\ op' = op
  BY DEF Done, CloseIfEmpty, EInv, Control
<1>2. /\ Place \in 2 .. 12
      /\ at \notin {"close", "forget"} => Place \in 4 .. 12
  <2>1. at \in {"topic", "link", "unwind", "delink", "begin", "post", "request",
                "create", "destroy", "close", "forget"}
    BY DEF EInv, Control, Where, Waiting
  <2>2. Place \in 2 .. 12
    BY <2>1 DEF Place
  <2>3. ASSUME at \notin {"close", "forget"} PROVE Place \in 4 .. 12
    BY <2>1, <2>3 DEF Place
  <2>. QED BY <2>2, <2>3
<1>3. /\ at' = "begin" => Place' = 12
      /\ at' = "idle" => Place' = 1
      /\ at' = "close" => Place' = 3
  BY DEF Place
<1>4. Left' < Left
  BY <1>1, <1>2, <1>3 DEF Left
<1>. QED BY <1>4 DEF Nearer

LEMMA MainIsNearer ==
  ASSUME EInv, Main
  PROVE  Nearer
<1>1. CASE AddStream
  <2>1. CASE Done(TRUE) /\ UNCHANGED woke
    BY <1>1, <2>1, DoneIsNearer DEF AddStream
  <2>2. CASE op' = op /\ at' \in {"topic", "post"} /\ (at' = "post" => woke' = woke)
    BY <1>1, <2>2 DEF AddStream, Nearer, Left, Place
  <2>. QED BY <1>1, <2>1, <2>2 DEF AddStream
<1>2. CASE CreateTopic
  BY <1>2 DEF CreateTopic, Returns, Nearer, Left, Place
<1>3. CASE PostItem
  BY <1>3 DEF PostItem, Nearer, Left, Place
<1>4. CASE PostLink
  BY <1>4 DEF PostLink, Nearer, Left, Place
<1>5. CASE ItemAnswered
  <2>1. CASE at' = "create" /\ op' = op
    BY <1>5, <2>1 DEF ItemAnswered, Returns, Nearer, Left, Place
  <2>2. CASE CloseIfEmpty(streams)
    BY <1>5, <2>2, DoneIsNearer DEF ItemAnswered, Returns
  <2>. QED BY <1>5, <2>1, <2>2 DEF ItemAnswered
<1>6. CASE CreateBuffer
  <2>1. CASE Done(TRUE) /\ UNCHANGED woke
    BY <1>6, <2>1, DoneIsNearer DEF CreateBuffer
  <2>2. CASE at' = "unwind" /\ op' = op
    BY <1>6, <2>2 DEF CreateBuffer, Nearer, Left, Place
  <2>. QED BY <1>6, <2>1, <2>2 DEF CreateBuffer, PostCloseItem
<1>7. CASE Unwound
  BY <1>7, DoneIsNearer DEF Unwound, Returns
<1>8. CASE RemoveStream
  <2>1. CASE at' = "delink" /\ op' = op
    BY <1>8, <2>1 DEF RemoveStream, Nearer, Left, Place
  <2>2. CASE (Done(TRUE) \/ CloseIfEmpty(streams)) /\ UNCHANGED woke
    BY <1>8, <2>2, DoneIsNearer DEF RemoveStream
  <2>. QED BY <1>8, <2>1, <2>2 DEF RemoveStream, PostCloseItem
<1>9. CASE CloseItem
  BY <1>9 DEF CloseItem, Returns, Nearer, Left, Place
<1>14. CASE DestroyBuffer
  BY <1>14, DoneIsNearer DEF DestroyBuffer
<1>10. CASE CloseTopic
  BY <1>10 DEF CloseTopic, Nearer, Left, Place
<1>11. CASE ForgetConversation
  <2>1. at' # "close" /\ Done(FALSE)
    BY <1>11 DEF ForgetConversation, Done
  <2>. QED BY <1>11, <2>1, DoneIsNearer DEF ForgetConversation
<1>12. CASE RemoveAllStreams
  BY <1>12 DEF RemoveAllStreams, Nearer, Left, Place
<1>13. CASE WokenUp \/ TimesOut
  <2>1. /\ at' = at /\ op' = op /\ todo' = todo
        /\ woke = "asleep" /\ woke' # "asleep"
    BY <1>13 DEF WokenUp, TimesOut
  <2>2. Place \in 0 .. 12 /\ Place' = Place
    BY <2>1 DEF EInv, Control, Where, Waiting, Place
  <2>3. Left' < Left
    BY <2>1, <2>2 DEF Left
  <2>. QED BY <2>1, <2>3 DEF Nearer
<1>. QED BY <1>1, <1>2, <1>3, <1>4, <1>5, <1>6, <1>7, <1>8, <1>9, <1>10,
            <1>11, <1>12, <1>13, <1>14 DEF Main

(* The main thread comes back from whatever it was asked for in a bounded  *)
(* number of its own steps, 50 for a pair, whichever waits time out and    *)
(* whatever is acknowledged late; and no other thread, platform or client  *)
(* puts it back.  That the steps are taken, unless buffer_mtx is not given *)
(* up, is EveryRequestAnswered.                                            *)
RequestsAdvance ==
  /\ [](Left \in 0 .. 50)
  /\ [][/\ Main => Nearer
        /\ Serving /\ ~Main => UNCHANGED <<op, at, woke, todo>>]_vars

THEOREM RequestsTakeBoundedSteps == Spec => RequestsAdvance
<1>1. EInv => Left \in 0 .. 50
  BY LeftBounded
<1>2. ASSUME EInv, Next
      PROVE  /\ Main => Nearer
             /\ Serving /\ ~Main => UNCHANGED <<op, at, woke, todo>>
  <2>1. CASE Main
    BY <1>2, <2>1, MainIsNearer
  <2>2. CASE Receive /\ ~Main
    BY <2>2 DEF Receive, Serving
  <2>3. CASE \/ PassOn \/ TakeAck \/ RouteToBuffer \/ Written \/ FinishSignal
             \/ Quit \/ \E t \in Topics : TopicAck(t)
    BY <2>1, <2>3 DEF PassOn, TakeAck, RouteToBuffer, Written, FinishSignal, Quit,
                      TopicAck, main
  <2>. QED BY <1>2, <2>1, <2>2, <2>3 DEF Next
<1>3. EInv /\ [Next]_vars =>
        [/\ Main => Nearer
         /\ Serving /\ ~Main => UNCHANGED <<op, at, woke, todo>>]_vars
  BY <1>2
<1>. QED BY <1>1, <1>3, Invariant, PTL DEF Spec, RequestsAdvance
=============================================================================
