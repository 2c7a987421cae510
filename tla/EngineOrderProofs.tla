-------------------------- MODULE EngineOrderProofs --------------------------
(***************************************************************************)
(* Proofs about an orderly exchange of EngineConversations: what holds as  *)
(* long as no wait has timed out, no item has been refused and the         *)
(* platform has not quit, for any topics, items, requests, conversations.  *)
(*                                                                         *)
(* An orderly exchange follows each message of the main thread through the *)
(* queue, the platform and the queue again to the flag, the event and the  *)
(* wait: Order says where it can be, and what of it the platform has seen. *)
(***************************************************************************)
EXTENDS EngineConversationsProofs

(* The places between the first message for an item and its answer.        *)
Exchanging == {"request", "link", "unwind", "delink"}

(* The id of the item the main thread is at, from the map as it is now.    *)
Own == <<conv[pair[1]], pair[2]>>

(* A message of the queue by what it can still bring about.                *)
Sort(m)    == IF m.kind = "ACK" THEN m.flag ELSE m.kind
Has(sorts) == \E k \in 1 .. Len(window) : Sort(window[k]) \in sorts

(* The flag of a wait stays as it was born; the event is set by an answer  *)
(* and by one only, and the answer is to what is waited for.               *)
Flagged ==
  /\ sid # NULL => flags[sid] = "yes" /\ woke # "awake"
  /\ woke # "timed_out"
  /\ event \/ setting \/ woke = "signalled" => at \in Waiting /\ answered
  /\ ~(event /\ setting)
  /\ woke = "signalled" => ~event /\ ~setting
  /\ at \in Exchanging => sid = Own
  /\ at = "request" => ~answered

(* A topic has a conversation while it is known, from the acknowledgement  *)
(* that CreateTopic waits for until CloseTopic has forgotten it; a         *)
(* broadcast waits with the platform only while the main thread waits.     *)
Conversing ==
  /\ \A t \in Topics : inits[t] > 0 =>
       at = "topic" /\ t = pair[1] /\ ~answered /\ inits[t] = 1
  /\ \A t \in known : conv[t] # NULL
  /\ \A t \in Topics \ known : conv[t] # NULL =>
       ((at = "topic" /\ answered) \/ at = "forget") /\ t = pair[1]
  /\ at = "topic" /\ answered => conv[pair[1]] # NULL
  /\ at = "close" => pair[1] \in known
  /\ \A h \in Handles : topicOf[h] # NULL => conv[topicOf[h]] = h

(* What is in the queue at each place of the main thread, but for closings *)
(* of conversations that it has gone on from.                              *)
Expected ==
  CASE at = "request" -> {"REQUEST", "no"}
    [] at = "link" -> {"REQUEST", "LINK", "no", "yes"}
    [] at \in {"unwind", "delink"} -> {"DELINK", "yes"}
    [] OTHER -> {}

Letters ==
  \A k \in 1 .. Len(window) : window[k].kind # "CLOSE" =>
    /\ Sort(window[k]) \in Expected /\ ~answered
    /\ window[k].hwnd = sid[1] /\ window[k].item = pair[2]
    /\ Sort(window[k]) = "no" => pair[2] \in BadItems

(* What may come before what: a request is dealt with before its link, so  *)
(* a refusal comes before the acknowledgement of the link, and nothing     *)
(* comes after an acknowledgement.                                         *)
Follows == {<<"REQUEST", "LINK">>, <<"LINK", "no">>, <<"no", "LINK">>, <<"no", "yes">>}

Ordered ==
  /\ \A j, k \in 1 .. Len(window) :
       j < k /\ window[j].kind # "CLOSE" /\ window[k].kind # "CLOSE" =>
         <<Sort(window[j]), Sort(window[k])>> \in Follows
  /\ at \in {"request", "link"} /\ pair[2] \in BadItems => Has({"REQUEST", "no"})

(* The conversation that the main thread has closed and not yet forgotten. *)
Forgotten(t) == at = "forget" /\ t = pair[1]

(* A conversation is open while the map leads to it, and from then on      *)
(* until its closing, which is in the queue once, has been dealt with.     *)
Closings == {k \in 1 .. Len(window) : window[k].kind = "CLOSE"}

OpenOrClosing ==
  /\ \A h \in Handles : h \in open <=>
       \/ \E k \in Closings : window[k].hwnd = h
       \/ \E t \in Topics : conv[t] = h /\ ~Forgotten(t)
  /\ \A k \in Closings :
       /\ window[k].hwnd \in 1 .. Len(opened)
       /\ \A t \in Topics : conv[t] = window[k].hwnd => Forgotten(t)
       /\ \A j \in Closings : window[j].hwnd = window[k].hwnd => j = k

(* The platform has an item linked while it is counted, from the           *)
(* acknowledgement it has sent on.  At four places the two differ for the  *)
(* item the main thread is at.                                             *)
Linking == {"link", "unwind", "delink", "destroy"}
Counting(l) == \E p \in streams : l = <<conv[p[1]], p[2]>>

Linked ==
  /\ \A l \in Handles \X Items :
       at \notin Linking \/ l # Own => (l \in links <=> Counting(l))
  /\ at = "link" => (Own \in links <=> answered \/ Has({"yes"}))
  /\ at \in {"unwind", "delink"} => (Own \in links <=> Has({"DELINK"}))
  /\ at = "destroy" => Own \notin links
  /\ \A p \in streams : p[2] \notin BadItems

Order == Flagged /\ Conversing /\ Letters /\ Ordered /\ OpenOrClosing /\ Linked

OInv == EInv /\ (orderly => Order)

-----------------------------------------------------------------------------
LEMMA InitOInv == Init => OInv
<1> SUFFICES ASSUME Init PROVE OInv
  OBVIOUS
<1>1. EInv
  BY InitEInv
<1>2. Len(window) = 0 /\ window = <<>>
  BY DEF Init
<1>3. Flagged
  BY DEF Init, SignalsInit, Flagged, Exchanging
<1>4. Conversing
  BY DEF Init, Conversing
<1>5. Letters /\ Ordered
  BY <1>2 DEF Init, Letters, Ordered
<1>6. OpenOrClosing
  BY <1>2, NullAssumption DEF Init, OpenOrClosing, Closings, Forgotten
<1>7. Linked
  BY DEF Init, Linked, Counting
<1>. QED BY <1>1, <1>3, <1>4, <1>5, <1>6, <1>7 DEF OInv, Order

(* Only a step that leaves no exchange orderly is not in this list.        *)
LEMMA OrderlySteps ==
  ASSUME Next, orderly', EInv
  PROVE  /\ orderly
         /\ \/ Receive \/ AddStream \/ CreateTopic \/ PostItem \/ PostLink
            \/ ItemAnswered \/ CreateBuffer \/ Unwound \/ RemoveStream
            \/ CloseItem \/ DestroyBuffer \/ CloseTopic \/ ForgetConversation
            \/ RemoveAllStreams \/ WokenUp \/ PassOn \/ TakeAck
            \/ RouteToBuffer \/ Written \/ FinishSignal
            \/ \E t \in Topics : TopicAck(t)
<1>1. orderly \in BOOLEAN
  BY DEF EInv, Wait
<1>. QED
  BY <1>1 DEF Next, Main, Receive, AddStream, CreateTopic, PostItem, PostLink,
     ItemAnswered, CreateBuffer, Unwound, RemoveStream, CloseItem, DestroyBuffer,
     CloseTopic, ForgetConversation, RemoveAllStreams, WokenUp, TimesOut, PassOn,
     TakeAck, RouteToBuffer, Written, FinishSignal, TopicAck, Quit, Signals

(* The queue with its first message taken, and with one at its end.        *)
LEMMA TailOf ==
  ASSUME Queue, window # <<>>
  PROVE  /\ Len(window) \in Nat \ {0} /\ Head(window) = window[1]
         /\ Tail(window) \in Seq(Messages) /\ Len(Tail(window)) = Len(window) - 1
         /\ \A k \in 1 .. Len(window) - 1 : Tail(window)[k] = window[k + 1]
BY HeadTailProperties, EmptySeq DEF Queue

LEMMA AppendTo ==
  ASSUME NEW q \in Seq(Messages), NEW m \in Messages
  PROVE  /\ Len(q) \in Nat
         /\ Append(q, m) \in Seq(Messages) /\ Len(Append(q, m)) = Len(q) + 1
         /\ \A k \in 1 .. Len(q) : Append(q, m)[k] = q[k]
         /\ Append(q, m)[Len(q) + 1] = m
BY AppendProperties, LenProperties

(* Nothing of the main thread's request is in the queue.                   *)
AllClosings == \A k \in 1 .. Len(window) : window[k].kind = "CLOSE"

LEMMA NothingLeft ==
  ASSUME Letters, answered \/ at \notin Exchanging
  PROVE  AllClosings
BY DEF Letters, AllClosings, Expected, Exchanging

LEMMA NoneHas ==
  ASSUME AllClosings, NEW sorts, "CLOSE" \notin sorts
  PROVE  ~Has(sorts)
BY DEF AllClosings, Has, Sort

(* A wait that is over in an orderly exchange was answered, and yes.       *)
LEMMA ReturnsOrderly ==
  ASSUME EInv, Order, Returns
  PROVE  /\ answered /\ Acked /\ AllClosings /\ window' = window
         /\ ~event /\ ~setting
         /\ sid' = NULL /\ woke' = "awake"
         /\ UNCHANGED <<event, setting, answered>>
<1>1. at \in Waiting /\ woke # "asleep" /\ sid # NULL
  <2>1. at \in Waiting /\ woke # "asleep"
    BY DEF Returns, Awake
  <2>2. pair \in Pairs
    BY <2>1 DEF EInv, Control, Waiting
  <2>3. sid \in AckIds
    BY <2>1, <2>2, Ids DEF EInv, Wait, Waiting, AckIds
  <2>. QED BY <2>1, <2>3, IdsAssumption
<1>2. woke = "signalled" /\ flags[sid] = "yes"
  BY <1>1 DEF Order, Flagged, EInv, Wait
<1>3. answered /\ ~event /\ ~setting
  BY <1>2 DEF Order, Flagged
<1>4. AllClosings
  BY <1>3, NothingLeft DEF Order
<1>5. window' = window
  <2>1. window' = [k \in DOMAIN window |->
                     IF window[k].kind \in OwnKinds
                     THEN [window[k] EXCEPT !.item = Dangling] ELSE window[k]]
    BY DEF Returns
  <2>2. \A k \in DOMAIN window : window[k].kind \notin OwnKinds
    BY <1>4 DEF AllClosings, OwnKinds, EInv, Queue
  <2>3. window' = [k \in DOMAIN window |-> window[k]]
    BY <2>1, <2>2
  <2>. QED BY <2>3 DEF EInv, Queue
<1>. QED BY <1>2, <1>3, <1>4, <1>5 DEF Returns, Acked, Answer, Erase

(* The conversation that the main thread is at is open with the platform.  *)
LEMMA OwnOpen ==
  ASSUME EInv, Order, at \in Exchanging
  PROVE  /\ pair \in Pairs /\ conv[pair[1]] \in Handles /\ conv[pair[1]] \in open
         /\ sid = Own /\ sid[1] = conv[pair[1]] /\ sid[2] = pair[2]
         /\ Own \in Handles \X Items /\ pair[1] \in Topics /\ pair[2] \in Items
         /\ sid \in AckIds
<1>1. pair \in Pairs /\ pair[1] \in Topics /\ pair[2] \in Items
  <2>1. pair \in Pairs
    BY DEF EInv, Control, Exchanging
  <2>. QED BY <2>1, Ids DEF EInv
<1>2. pair[1] \in known
  BY <1>1 DEF EInv, Table, StreamsHaveBuffers, Exchanging
<1>3. conv[pair[1]] \in Handles
  BY <1>1, <1>2 DEF Order, Conversing, EInv, Convos
<1>4. conv[pair[1]] \in open
  BY <1>1, <1>3 DEF Order, OpenOrClosing, Forgotten, Exchanging
<1>5. sid = Own
  BY DEF Order, Flagged
<1>6. Own \in Handles \X Items /\ Own \in AckIds
  BY <1>1, <1>3 DEF Own, AckIds
<1>. QED BY <1>1, <1>3, <1>4, <1>5, <1>6 DEF Own

(* The first message of the queue, as it is in an orderly exchange.        *)
LEMMA HeadOrderly ==
  ASSUME EInv, Order, window # <<>>, Head(window).kind # "CLOSE"
  PROVE  /\ at \in Exchanging /\ ~answered
         /\ Sort(Head(window)) \in Expected
         /\ Sort(Head(window)) \in {"REQUEST", "LINK", "DELINK", "yes", "no"}
         /\ Head(window).hwnd = conv[pair[1]] /\ Head(window).item = pair[2]
         /\ <<Head(window).hwnd, Head(window).item>> = Own
         /\ Head(window).kind \in {"REQUEST", "LINK", "DELINK", "ACK"}
<1>1. Len(window) \in Nat \ {0} /\ Head(window) = window[1]
  BY TailOf DEF EInv
<1>2. /\ Sort(Head(window)) \in Expected /\ ~answered
      /\ Head(window).hwnd = sid[1] /\ Head(window).item = pair[2]
  BY <1>1 DEF Order, Letters
<1>3. /\ at \in Exchanging
      /\ Sort(Head(window)) \in {"REQUEST", "LINK", "DELINK", "yes", "no"}
  BY <1>2 DEF Expected, Exchanging
<1>4. Head(window).kind \in {"REQUEST", "LINK", "DELINK", "ACK"}
  BY HeadKinds DEF EInv
<1>. QED BY <1>2, <1>3, <1>4, OwnOpen DEF Own

(* What becomes of it when WndProc passes it on.                           *)
LEMMA PassOnOrderly ==
  ASSUME EInv, Order, PassOn
  PROVE  /\ window # <<>> /\ Head(window).kind \in {"REQUEST", "LINK", "DELINK", "CLOSE"}
         /\ Head(window).kind = "CLOSE" =>
              /\ window' = Tail(window)
              /\ open' = open \ {Head(window).hwnd}
              /\ links' = {l \in links : l[1] # Head(window).hwnd}
         /\ Head(window).kind = "REQUEST" =>
              /\ UNCHANGED <<open, links>>
              /\ pair[2] \in BadItems => Acks(Head(window), "no")
              /\ pair[2] \notin BadItems => window' = Tail(window)
         /\ Head(window).kind = "LINK" =>
              /\ Acks(Head(window), "yes") /\ open' = open
              /\ links' = links \cup {Own}
         /\ Head(window).kind = "DELINK" =>
              /\ Acks(Head(window), "yes") /\ open' = open
              /\ links' = links \ {Own}
<1> DEFINE m == Head(window)
<1>1. window # <<>> /\ m.kind \in {"REQUEST", "LINK", "DELINK", "CLOSE"}
  BY HeadKinds DEF PassOn, EInv
<1>2. CASE m.kind = "CLOSE"
  <2>1. Len(window) \in Nat \ {0} /\ m = window[1]
    BY <1>1, TailOf DEF EInv
  <2>2. 1 \in Closings
    BY <1>2, <2>1 DEF Closings
  <2>3. m.hwnd \in open
    <3>1. m.hwnd \in 1 .. Len(opened)
      BY <2>1, <2>2 DEF Order, OpenOrClosing
    <3>2. m.hwnd \in Handles
      BY <3>1, BoundsAssumption DEF EInv, Convos, Handles
    <3>. QED BY <2>1, <2>2, <3>2 DEF Order, OpenOrClosing
  <2>4. m.item # Dangling
    <3>1. m \in Messages
      BY <1>1, HeadKinds DEF EInv
    <3>2. m.item = NULL
      BY <1>2, <3>1 DEF Messages, OwnKinds
    <3>. QED BY <3>2, DanglingAssumption
  <2>5. Serves(m)
    BY <1>1, <2>3, <2>4 DEF PassOn
  <2>. QED BY <1>1, <1>2, <2>5 DEF Serves
<1>3. CASE m.kind # "CLOSE"
  <2>1. /\ m.hwnd = conv[pair[1]] /\ m.item = pair[2] /\ <<m.hwnd, m.item>> = Own
        /\ at \in Exchanging
    BY <1>1, <1>3, HeadOrderly
  <2>2. m.hwnd \in open /\ m.item # Dangling
    BY <2>1, OwnOpen, DanglingAssumption
  <2>3. Serves(m)
    BY <1>1, <2>2 DEF PassOn
  <2>. QED BY <1>1, <1>3, <2>1, <2>3 DEF Serves
<1>. QED BY <1>2, <1>3

(* An acknowledgement that keeps the exchange orderly answers what the     *)
(* main thread waits for, and nothing of its request is left behind it.    *)
LEMMA TakeAckOrderly ==
  ASSUME EInv, Order, TakeAck, orderly'
  PROVE  /\ window # <<>> /\ Sort(Head(window)) = "yes" /\ window' = Tail(window)
         /\ at \in {"link", "unwind", "delink"}
         /\ flags' = flags /\ setting' /\ answered' /\ event' = event
         /\ ~setting /\ ~answered
         /\ \A k \in 1 .. Len(window) - 1 : Tail(window)[k].kind = "CLOSE"
         /\ at = "link" => pair[2] \notin BadItems
<1>1. /\ window # <<>> /\ Head(window).kind = "ACK" /\ window' = Tail(window)
      /\ Head(window).flag = "yes" /\ ~setting
      /\ signal(<<Head(window).hwnd, Head(window).item>>, "yes")
      /\ answered' = (answered \/ flags[<<Head(window).hwnd, Head(window).item>>] # Unset)
  BY DEF TakeAck, Running, Signals
<1>2. /\ at \in Exchanging /\ ~answered /\ Sort(Head(window)) = "yes"
      /\ <<Head(window).hwnd, Head(window).item>> = Own
      /\ "yes" \in Expected
  BY <1>1, HeadOrderly DEF Sort
<1>3. at \in {"link", "unwind", "delink"}
  BY <1>2 DEF Expected, Exchanging
<1>4. sid = Own /\ sid \in AckIds
  BY <1>2, OwnOpen
<1>5. flags[Own] = "yes" /\ flags \in [AckIds -> FlagValues]
  <2>1. sid # NULL
    BY <1>4, IdsAssumption
  <2>. QED BY <1>4, <2>1 DEF Order, Flagged, EInv, Wait
<1>6. flags' = flags /\ setting' /\ answered' /\ event' = event
  <2>1. flags' = [flags EXCEPT ![Own] = "yes"] /\ setting' /\ event' = event /\ answered'
    BY <1>1, <1>2, <1>5 DEF signal, Unset
  <2>. QED BY <1>5, <2>1
<1>7. Len(window) \in Nat \ {0} /\ Head(window) = window[1]
      /\ \A k \in 1 .. Len(window) - 1 : Tail(window)[k] = window[k + 1]
  BY <1>1, TailOf DEF EInv
<1>8. \A k \in 2 .. Len(window) : window[k].kind = "CLOSE"
  BY <1>1, <1>2, <1>7 DEF Order, Ordered, Follows
<1>9. at = "link" => pair[2] \notin BadItems
  <2>1. ~Has({"REQUEST", "no"})
    <3>1. \A k \in 1 .. Len(window) : k = 1 \/ k \in 2 .. Len(window)
      BY <1>7
    <3>2. Sort(window[1]) = "yes"
      BY <1>2, <1>7
    <3>3. \A k \in 2 .. Len(window) : Sort(window[k]) = "CLOSE"
      BY <1>8 DEF Sort
    <3>. QED BY <3>1, <3>2, <3>3 DEF Has
  <2>. QED BY <2>1 DEF Order, Ordered
<1>. QED BY <1>1, <1>2, <1>3, <1>6, <1>7, <1>8, <1>9

(* So does the acknowledgement of a topic: it is the one waited for.       *)
LEMMA TopicAckOrderly ==
  ASSUME EInv, Order, NEW t \in Topics, TopicAck(t)
  PROVE  /\ at = "topic" /\ t = pair[1] /\ sid = t /\ pair \in Pairs
         /\ flags' = flags /\ setting' /\ answered' /\ event' = event
         /\ ~setting /\ ~answered /\ ~event /\ woke # "signalled"
         /\ inits[t] = 1 /\ inits' = [inits EXCEPT ![t] = 0]
         /\ conv[t] = NULL /\ t \notin known
         /\ \A h \in Handles : topicOf[h] # t
<1>1. inits[t] > 0 /\ ~setting /\ signal(t, "yes")
      /\ answered' = (answered \/ flags[t] # Unset)
      /\ inits' = [inits EXCEPT ![t] = @ - 1]
  BY DEF TopicAck, Running, Signals
<1>2. at = "topic" /\ t = pair[1] /\ ~answered /\ inits[t] = 1
  BY <1>1 DEF Order, Conversing
<1>3. sid = t /\ sid \in AckIds /\ pair \in Pairs /\ t \notin known /\ sid # NULL
  BY <1>2, IdsAssumption DEF EInv, Wait, Control, Table, AckIds
<1>4. flags[t] = "yes" /\ flags \in [AckIds -> FlagValues]
  BY <1>3 DEF Order, Flagged, EInv, Wait
<1>5. flags' = flags /\ setting' /\ answered' /\ event' = event
  <2>1. flags' = [flags EXCEPT ![t] = "yes"] /\ setting' /\ event' = event /\ answered'
    BY <1>1, <1>4 DEF signal, Unset
  <2>. QED BY <1>3, <1>4, <2>1
<1>6. ~event /\ woke # "signalled"
  BY <1>2 DEF Order, Flagged
<1>7. inits' = [inits EXCEPT ![t] = 0]
  BY <1>1, <1>2
<1>8. conv[t] = NULL
  BY <1>2, <1>3 DEF Order, Conversing
<1>9. \A h \in Handles : topicOf[h] # t
  BY <1>3, <1>8, NullAssumption DEF Order, Conversing
<1>. QED BY <1>1, <1>2, <1>3, <1>5, <1>6, <1>7, <1>8, <1>9

(* Before a wait nothing is left of another's answer.                      *)
LEMMA AsksAfresh ==
  ASSUME EInv, Order, at \notin Waiting, NEW id \in AckIds, Asks(id)
  PROVE  /\ sid' = id /\ flags'[sid'] = "yes" /\ woke' = "asleep"
         /\ ~event' /\ ~setting' /\ ~answered'
<1>1. ~event /\ ~setting
  BY DEF Order, Flagged
<1>. QED BY <1>1 DEF Asks, set_signal_ID, EInv, Wait

LEMMA FlaggedKept ==
  ASSUME EInv, Order, Next, orderly'
  PROVE  Flagged'
<1>a. ASSUME UNCHANGED <<sid, woke, signals, answered>>, at' \notin Exchanging,
             at \notin Waiting
      PROVE  Flagged'
  BY <1>a DEF Order, Flagged, signals, Exchanging, Waiting
<1>b. ASSUME Returns, at' \notin Waiting \cup Exchanging
      PROVE  Flagged'
  BY <1>b, ReturnsOrderly DEF Order, Flagged, Exchanging
<1>c. ASSUME pair \in Pairs, Asks(Own), UNCHANGED <<pair, conv>>, at \notin Waiting
      PROVE  Flagged'
  <2>1. Own \in AckIds
    BY <1>c, Ids DEF EInv, Own
  <2>2. /\ sid' = Own /\ flags'[sid'] = "yes" /\ woke' = "asleep"
        /\ ~event' /\ ~setting' /\ ~answered'
    BY <1>c, <2>1, AsksAfresh
  <2>3. Own' = Own
    BY <1>c DEF Own
  <2>. QED BY <2>2, <2>3 DEF Flagged
<1>d. pair \in Pairs \/ at \in {"idle", "gone"}
  BY DEF EInv, Control
<1>1. CASE Receive \/ RemoveAllStreams
  <2>1. UNCHANGED <<sid, woke, signals, answered>> /\ at' \in {"idle", "begin", "gone"}
        /\ at = "idle"
    BY <1>1 DEF Receive, RemoveAllStreams
  <2>. QED BY <2>1, <1>a DEF Exchanging, Waiting
<1>2. CASE AddStream
  <2>0. at = "begin"
    BY <1>2 DEF AddStream
  <2>1. CASE pair[1] \notin known
    <3>1. Asks(pair[1]) /\ at' = "topic"
      BY <1>2, <2>1 DEF AddStream
    <3>2. pair[1] \in AckIds
      BY <1>d, <2>0, Ids DEF EInv
    <3>. QED BY <2>0, <3>1, <3>2, AsksAfresh DEF Flagged, Exchanging, Waiting
  <2>2. CASE pair[1] \in known
    <3>1. UNCHANGED <<sid, woke, signals, answered>> /\ at' \in {"post", "begin", "idle"}
      BY <1>2, <2>2 DEF AddStream, Done
    <3>. QED BY <2>0, <3>1, <1>a DEF Exchanging, Waiting
  <2>. QED BY <2>1, <2>2
<1>3. CASE CreateTopic
  BY <1>3, <1>b DEF CreateTopic, Exchanging, Waiting
<1>4. CASE PostItem
  BY <1>4, <1>c, <1>d DEF PostItem, Own, convos, Waiting
<1>5. CASE PostLink
  <2>1. /\ UNCHANGED <<sid, woke, signals, answered, pair, conv>>
        /\ at = "request" /\ at' = "link"
    BY <1>5 DEF PostLink, convos
  <2>2. Own' = Own
    BY <2>1 DEF Own
  <2>. QED BY <2>1, <2>2 DEF Order, Flagged, signals, Exchanging, Waiting
<1>6. CASE ItemAnswered \/ Unwound \/ CloseItem
  <2>1. Returns /\ at' \in {"create", "destroy", "close", "begin", "idle"}
    BY <1>6 DEF ItemAnswered, Unwound, CloseItem, CloseIfEmpty, Done
  <2>. QED BY <2>1, <1>b DEF Exchanging, Waiting
<1>7. CASE CreateBuffer
  <2>0. at = "create"
    BY <1>7 DEF CreateBuffer
  <2>1. CASE PostCloseItem
    BY <1>7, <1>c, <1>d, <2>0, <2>1 DEF CreateBuffer, PostCloseItem, Own, convos, Waiting
  <2>2. CASE ~PostCloseItem
    <3>1. UNCHANGED <<sid, woke, signals, answered>> /\ at' \in {"begin", "idle"}
      BY <1>7, <2>2 DEF CreateBuffer, Done
    <3>. QED BY <2>0, <3>1, <1>a DEF Exchanging, Waiting
  <2>. QED BY <2>1, <2>2
<1>8. CASE RemoveStream
  <2>0. at = "begin"
    BY <1>8 DEF RemoveStream
  <2>1. CASE PostCloseItem
    BY <1>8, <1>c, <1>d, <2>0, <2>1 DEF RemoveStream, PostCloseItem, Own, convos, Waiting
  <2>2. CASE ~PostCloseItem
    <3>1. UNCHANGED <<sid, woke, signals, answered>> /\ at' \in {"begin", "idle", "close"}
      BY <1>8, <2>2 DEF RemoveStream, CloseIfEmpty, Done
    <3>. QED BY <2>0, <3>1, <1>a DEF Exchanging, Waiting
  <2>. QED BY <2>1, <2>2
<1>9. CASE CloseTopic \/ DestroyBuffer
  BY <1>9, <1>a DEF CloseTopic, DestroyBuffer, CloseIfEmpty, Done, Exchanging, Waiting
<1>10. CASE ForgetConversation
  <2>1. UNCHANGED <<sid, woke, signals, answered>> /\ at' \in {"begin", "idle"}
        /\ at = "forget"
    BY <1>10 DEF ForgetConversation, Done
  <2>. QED BY <2>1, <1>a DEF Exchanging, Waiting
<1>11. CASE WokenUp
  <2>1. /\ UNCHANGED <<at, sid, flags, setting, answered, pair, conv>>
        /\ event /\ ~event' /\ woke' = "signalled" /\ at \in Waiting
    BY <1>11 DEF WokenUp, Wakes, convos, EInv, Wait
  <2>2. Own' = Own
    BY <2>1 DEF Own
  <2>. QED BY <2>1, <2>2 DEF Order, Flagged
<1>12. CASE PassOn \/ RouteToBuffer \/ Written
  <2>1. UNCHANGED <<at, sid, woke, signals, answered, pair, conv>>
    BY <1>12 DEF PassOn, RouteToBuffer, Written, main, convos
  <2>2. Own' = Own
    BY <2>1 DEF Own
  <2>. QED BY <2>1, <2>2 DEF Order, Flagged, signals
<1>13. CASE TakeAck
  <2>1. UNCHANGED <<at, sid, woke, pair, conv>>
    BY <1>13 DEF TakeAck, main, convos
  <2>2. /\ at \in {"link", "unwind", "delink"}
        /\ flags' = flags /\ setting' /\ answered' /\ event' = event /\ ~answered
    BY <1>13, TakeAckOrderly
  <2>3. Own' = Own
    BY <2>1 DEF Own
  <2>. QED BY <2>1, <2>2, <2>3 DEF Order, Flagged, Exchanging, Waiting
<1>14. CASE FinishSignal
  <2>1. UNCHANGED <<at, sid, woke, pair, conv, flags, answered>>
    BY <1>14 DEF FinishSignal, SetEvent, main, convos
  <2>2. setting /\ ~setting' /\ event'
    BY <1>14 DEF FinishSignal, SetEvent, EInv, Wait
  <2>3. Own' = Own
    BY <2>1 DEF Own
  <2>. QED BY <2>1, <2>2, <2>3 DEF Order, Flagged
<1>15. CASE \E t \in Topics : TopicAck(t)
  <2>1. PICK t \in Topics : TopicAck(t)
    BY <1>15
  <2>2. UNCHANGED <<at, sid, woke, pair>>
    BY <2>1 DEF TopicAck, main
  <2>3. /\ at = "topic" /\ flags' = flags /\ setting' /\ answered' /\ event' = event
        /\ ~answered
    BY <2>1, TopicAckOrderly
  <2>. QED BY <2>2, <2>3 DEF Order, Flagged, Exchanging, Waiting
<1>. QED
  BY <1>1, <1>2, <1>3, <1>4, <1>5, <1>6, <1>7, <1>8, <1>9, <1>10, <1>11, <1>12,
     <1>13, <1>14, <1>15, OrderlySteps

LEMMA ConversingKept ==
  ASSUME EInv, Order, Next, orderly'
  PROVE  Conversing'
<1>a. ASSUME UNCHANGED <<inits, convos, known, pair>>, at' # "topic", at' # "close",
             at # "topic", at # "forget"
      PROVE  Conversing'
  BY <1>a DEF Order, Conversing, convos
<1>b. ASSUME UNCHANGED <<inits, convos, known, pair, at, answered>>
      PROVE  Conversing'
  BY <1>b DEF Order, Conversing, convos
<1>c. pair \in Pairs \/ at \in {"idle", "gone"}
  BY DEF EInv, Control
<1>d. inits \in [Topics -> Nat] /\ known \subseteq Topics /\ NULL \notin Handles
  BY NullAssumption DEF EInv, Table, Convos
<1>1. CASE Receive \/ RemoveAllStreams
  <2>1. UNCHANGED <<inits, convos, known>> /\ at' \in {"idle", "begin", "gone"}
        /\ at = "idle"
    BY <1>1 DEF Receive, RemoveAllStreams, platform, counts
  <2>. QED BY <2>1, <1>d DEF Order, Conversing, convos
<1>2. CASE AddStream
  <2>0. at = "begin" /\ UNCHANGED <<convos, known>> /\ pair[1] \in Topics
    BY <1>2, <1>c, Ids DEF AddStream, EInv
  <2>1. CASE pair[1] \notin known
    <3>1. /\ at' = "topic" /\ pair' = pair /\ ~answered'
          /\ inits' = [inits EXCEPT ![pair[1]] = @ + 1]
      BY <1>2, <2>1 DEF AddStream, Asks
    <3>2. \A t \in Topics : inits[t] = 0
      BY <1>d, <2>0 DEF Order, Conversing
    <3>3. \A t \in Topics : inits'[t] = IF t = pair[1] THEN 1 ELSE 0
      BY <1>d, <2>0, <3>1, <3>2
    <3>. QED BY <2>0, <3>1, <3>3 DEF Order, Conversing, convos
  <2>2. CASE pair[1] \in known
    <3>1. inits' = inits /\ at' \in {"post", "begin", "idle"}
      BY <1>2, <2>2 DEF AddStream, Done
    <3>. QED BY <2>0, <3>1 DEF Order, Conversing, convos
  <2>. QED BY <2>1, <2>2
<1>3. CASE CreateTopic
  <2>1. /\ at = "topic" /\ pair' = pair /\ answered' = answered
        /\ at' = "post" /\ known' = known \cup {pair[1]}
        /\ UNCHANGED <<inits, convos>> /\ answered
    BY <1>3, ReturnsOrderly DEF CreateTopic, platform
  <2>. QED BY <2>1 DEF Order, Conversing, convos
<1>4. CASE PostItem \/ PostLink
  <2>1. /\ UNCHANGED <<inits, convos, known, pair>>
        /\ at \in {"post", "request"} /\ at' \in {"request", "link"}
    BY <1>4 DEF PostItem, PostLink, platform, counts
  <2>. QED BY <2>1, <1>a
<1>5. CASE ItemAnswered \/ Unwound \/ CloseItem \/ DestroyBuffer
  <2>1. /\ UNCHANGED <<inits, convos, known>>
        /\ at \in {"link", "unwind", "delink", "destroy"}
        /\ at' \in {"create", "destroy", "close", "begin", "idle"}
        /\ at' \in {"close", "create"} => pair' = pair
    BY <1>5 DEF ItemAnswered, Unwound, CloseItem, DestroyBuffer, CloseIfEmpty, Done,
                counts, platform
  <2>2. pair[1] \in known
    BY <1>c, <2>1 DEF EInv, Table, StreamsHaveBuffers
  <2>. QED BY <2>1, <2>2 DEF Order, Conversing, convos
<1>6. CASE CreateBuffer
  <2>1. /\ UNCHANGED <<inits, convos, known>> /\ at = "create"
        /\ at' \in {"unwind", "begin", "idle"}
    BY <1>6 DEF CreateBuffer, Done, platform, counts
  <2>. QED BY <2>1 DEF Order, Conversing, convos
<1>7. CASE RemoveStream
  <2>1. /\ UNCHANGED <<inits, convos, known>> /\ at = "begin"
        /\ at' \in {"delink", "close", "idle"}
        /\ at' = "close" => pair[1] \in known /\ pair' = pair
    BY <1>7 DEF RemoveStream, PostCloseItem, CloseIfEmpty, Done, platform, EInv, Control
  <2>. QED BY <2>1 DEF Order, Conversing, convos
<1>8. CASE CloseTopic
  <2>1. /\ UNCHANGED <<inits, convos, pair>> /\ at = "close" /\ at' = "forget"
        /\ known' = known \ {pair[1]}
    BY <1>8 DEF CloseTopic, platform
  <2>. QED BY <2>1 DEF Order, Conversing, convos
<1>9. CASE ForgetConversation
  <2>1. /\ UNCHANGED <<inits, known>> /\ at = "forget" /\ at' \in {"begin", "idle"}
        /\ RemoveTopic(pair[1]) /\ pair[1] \in Topics
    BY <1>9, <1>c, Ids DEF ForgetConversation, Done, platform, counts, EInv
  <2>2. /\ conv' = [conv EXCEPT ![pair[1]] = NULL]
        /\ topicOf' = [h \in Handles |-> IF h = conv[pair[1]] THEN NULL ELSE topicOf[h]]
    BY <2>1 DEF RemoveTopic
  <2>3. pair[1] \notin known
    BY <2>1 DEF EInv, Table
  <2>4. \A t \in Topics : conv'[t] = IF t = pair[1] THEN NULL ELSE conv[t]
    BY <2>2 DEF EInv, Convos
  <2>5. ASSUME NEW h \in Handles, topicOf'[h] # NULL
        PROVE  conv'[topicOf'[h]] = h
    <3>1. topicOf'[h] = topicOf[h] /\ h # conv[pair[1]] /\ topicOf[h] # NULL
      BY <2>2, <2>5
    <3>2. conv[topicOf[h]] = h /\ topicOf[h] \in Topics
      BY <3>1 DEF Order, Conversing, EInv, Convos
    <3>. QED BY <2>4, <3>1, <3>2
  <2>. QED BY <1>d, <2>1, <2>3, <2>4, <2>5 DEF Order, Conversing
<1>10. CASE WokenUp \/ PassOn \/ RouteToBuffer \/ Written \/ FinishSignal
  BY <1>10, <1>b DEF WokenUp, PassOn, RouteToBuffer, Written, FinishSignal, main,
                     counts, platform
<1>11. CASE TakeAck
  <2>1. UNCHANGED <<inits, convos, known, pair, at>>
    BY <1>11 DEF TakeAck, main, counts, platform
  <2>2. at # "topic"
    BY <1>11, TakeAckOrderly
  <2>. QED BY <2>1, <2>2 DEF Order, Conversing, convos
<1>12. CASE \E t \in Topics : TopicAck(t)
  <2>1. PICK t \in Topics : TopicAck(t)
    BY <1>12
  <2>2. /\ at = "topic" /\ t = pair[1] /\ answered' /\ t \notin known
        /\ inits' = [inits EXCEPT ![t] = 0] /\ conv[t] = NULL
        /\ \A h \in Handles : topicOf[h] # t
    BY <2>1, TopicAckOrderly
  <2>3. UNCHANGED <<known, pair, at>> /\ Insert(t, Len(opened'))
    BY <2>1 DEF TopicAck, main, counts
  <2>4. Len(opened') \in Handles
    <3>1. opened' = Append(opened, t) /\ Len(opened) < MaxHandles
      BY <2>1 DEF TopicAck
    <3>. QED BY <3>1, BoundsAssumption DEF EInv, Convos, Handles
  <2>5. \A s \in Topics : conv'[s] = IF s = t THEN Len(opened') ELSE conv[s]
    BY <2>3 DEF Insert, EInv, Convos
  <2>6. \A h \in Handles : topicOf'[h] = IF h = Len(opened') THEN t ELSE topicOf[h]
    BY <2>3 DEF Insert, EInv, Convos
  <2>7. \A s \in Topics : inits'[s] > 0 => s # t /\ inits[s] > 0
    BY <1>d, <2>2
  <2>8. ASSUME NEW h \in Handles, topicOf'[h] # NULL
        PROVE  conv'[topicOf'[h]] = h
    <3>1. CASE h = Len(opened')
      BY <2>5, <2>6, <3>1
    <3>2. CASE h # Len(opened')
      <4>1. topicOf'[h] = topicOf[h] /\ topicOf[h] # t /\ topicOf[h] \in Topics
            /\ conv[topicOf[h]] = h
        BY <2>2, <2>6, <2>8, <3>2 DEF Order, Conversing, EInv, Convos
      <4>. QED BY <2>5, <4>1
    <3>. QED BY <3>1, <3>2
  <2>. QED BY <1>d, <2>2, <2>3, <2>4, <2>5, <2>7, <2>8 DEF Order, Conversing
<1>. QED
  BY <1>1, <1>2, <1>3, <1>4, <1>5, <1>6, <1>7, <1>8, <1>9, <1>10, <1>11, <1>12,
     OrderlySteps

-----------------------------------------------------------------------------
(***************************************************************************)
(* The messages of a request, in the queue.                                *)
(***************************************************************************)

(* The queue when the first message is dealt with, and when it is answered.*)
LEMMA TailTaken ==
  ASSUME Queue, window # <<>>, window' = Tail(window)
  PROVE  /\ Len(window) \in Nat \ {0} /\ Head(window) = window[1]
         /\ Len(window') = Len(window) - 1
         /\ \A k \in 1 .. Len(window') :
              k + 1 \in 2 .. Len(window) /\ window'[k] = window[k + 1]
BY TailOf

LEMMA Acknowledges ==
  ASSUME EInv, Order, window # <<>>, Head(window).kind # "CLOSE",
         NEW flag \in {"yes", "no"}, Acks(Head(window), flag)
  PROVE  /\ Len(window) \in Nat \ {0} /\ Head(window) = window[1]
         /\ Len(window') = Len(window)
         /\ \A k \in 1 .. Len(window) - 1 :
              k + 1 \in 2 .. Len(window) /\ window'[k] = window[k + 1]
         /\ Sort(window'[Len(window)]) = flag /\ window'[Len(window)].kind = "ACK"
         /\ window'[Len(window)].hwnd = conv[pair[1]]
         /\ window'[Len(window)].item = pair[2]
<1> DEFINE a == [kind |-> "ACK", hwnd |-> Head(window).hwnd,
                 item |-> Head(window).item, flag |-> flag]
<1>1. window' = Append(Tail(window), a)
  BY DEF Acks
<1>2. Head(window).hwnd = conv[pair[1]] /\ Head(window).item = pair[2] /\ at \in Exchanging
  BY HeadOrderly
<1>3. a \in Messages
  BY <1>2, OwnOpen DEF Messages
<1>4. /\ Sort(a) = flag /\ a.kind = "ACK" /\ a.hwnd = conv[pair[1]] /\ a.item = pair[2]
  BY <1>2 DEF Sort
<1>5. /\ Len(window) \in Nat \ {0} /\ Head(window) = window[1]
      /\ Tail(window) \in Seq(Messages) /\ Len(Tail(window)) = Len(window) - 1
      /\ \A k \in 1 .. Len(window) - 1 : Tail(window)[k] = window[k + 1]
  BY TailOf DEF EInv
<1> HIDE DEF a
<1>6. /\ Len(window') = Len(window)
      /\ \A k \in 1 .. Len(window) - 1 : window'[k] = Tail(window)[k]
      /\ window'[Len(window)] = a
  BY <1>1, <1>3, <1>5, AppendTo
<1>. QED BY <1>4, <1>5, <1>6

(* A queue with nothing but closings is in order.                          *)
LEMMA ClosingsInOrder ==
  ASSUME AllClosings', at' \notin {"request", "link"} \/ pair'[2] \notin BadItems
  PROVE  Letters' /\ Ordered'
BY DEF AllClosings, Letters, Ordered

LEMMA PostedInOrder ==
  ASSUME EInv, Letters, Ordered, NEW m \in Messages, window' = Append(window, m),
         m.kind # "CLOSE", ~answered',
         Sort(m) \in Expected', m.hwnd = sid'[1], m.item = pair'[2], Sort(m) # "no",
         \/ AllClosings /\ (Sort(m) = "REQUEST" \/ at' \notin {"request", "link"})
         \/ /\ Sort(m) = "LINK" /\ at = "request" /\ at' = "link"
            /\ UNCHANGED <<sid, pair, answered>>
  PROVE  Letters' /\ Ordered'
<1>1. /\ Len(window) \in Nat /\ Len(window') = Len(window) + 1
      /\ \A k \in 1 .. Len(window) : window'[k] = window[k]
      /\ window'[Len(window')] = m
  BY AppendTo DEF EInv, Queue
<1>2. \A k \in 1 .. Len(window') : k \in 1 .. Len(window) \/ k = Len(window')
  BY <1>1
<1>3. CASE AllClosings /\ (Sort(m) = "REQUEST" \/ at' \notin {"request", "link"})
  <2>1. \A k \in 1 .. Len(window') : window'[k].kind # "CLOSE" => k = Len(window')
    BY <1>1, <1>2, <1>3 DEF AllClosings
  <2>2. Letters'
    BY <1>1, <2>1 DEF Letters
  <2>3. Sort(m) = "REQUEST" => Has({"REQUEST", "no"})'
    <3>1. Len(window') \in 1 .. Len(window')
      BY <1>1
    <3>. QED BY <1>1, <3>1 DEF Has
  <2>4. Ordered'
    BY <1>1, <1>3, <2>1, <2>3 DEF Ordered
  <2>. QED BY <2>2, <2>4
<1>4. CASE /\ Sort(m) = "LINK" /\ at = "request" /\ at' = "link"
           /\ UNCHANGED <<sid, pair, answered>>
  <2>1. \A k \in 1 .. Len(window) : window[k].kind # "CLOSE" =>
          Sort(window[k]) \in {"REQUEST", "no"}
    BY <1>4 DEF Letters, Expected
  <2>2. Letters'
    <3>1. Expected \subseteq Expected'
      BY <1>4 DEF Expected
    <3>. QED BY <1>1, <1>2, <1>4, <3>1 DEF Letters
  <2>3. ASSUME NEW j \in 1 .. Len(window'), NEW k \in 1 .. Len(window'), j < k,
               window'[j].kind # "CLOSE", window'[k].kind # "CLOSE"
        PROVE  <<Sort(window'[j]), Sort(window'[k])>> \in Follows
    <3>1. j \in 1 .. Len(window) /\ window'[j] = window[j]
      BY <1>1, <2>3
    <3>2. CASE k = Len(window')
      BY <1>1, <1>4, <2>1, <2>3, <3>1, <3>2 DEF Follows
    <3>3. CASE k # Len(window')
      BY <1>1, <1>2, <2>3, <3>1, <3>3 DEF Ordered
    <3>. QED BY <3>2, <3>3
  <2>4. Has({"REQUEST", "no"}) => Has({"REQUEST", "no"})'
    BY <1>1 DEF Has
  <2>. QED BY <1>4, <2>2, <2>3, <2>4 DEF Ordered
<1>. QED BY <1>3, <1>4

LEMMA PassedOnInOrder ==
  ASSUME EInv, Order, PassOn
  PROVE  Letters' /\ Ordered'
<1> DEFINE m == Head(window)
<1>1. /\ UNCHANGED <<at, sid, pair, answered>>
      /\ window # <<>> /\ m.kind \in {"REQUEST", "LINK", "DELINK", "CLOSE"}
  BY PassOnOrderly DEF PassOn, main
<1>2. Expected' = Expected
  BY <1>1 DEF Expected
<1>3. Letters /\ Ordered
  BY DEF Order
<1>4. CASE window' = Tail(window) /\ (m.kind = "CLOSE" \/ pair[2] \notin BadItems)
  <2>1. /\ Len(window) \in Nat \ {0} /\ m = window[1]
        /\ Len(window') = Len(window) - 1
        /\ \A k \in 1 .. Len(window') :
             k + 1 \in 2 .. Len(window) /\ window'[k] = window[k + 1]
    BY <1>1, <1>4, TailTaken DEF EInv
  <2>2. Letters'
    BY <1>1, <1>2, <1>3, <2>1 DEF Letters
  <2>3. ASSUME NEW j \in 1 .. Len(window'), NEW k \in 1 .. Len(window'), j < k,
               window'[j].kind # "CLOSE", window'[k].kind # "CLOSE"
        PROVE  <<Sort(window'[j]), Sort(window'[k])>> \in Follows
    BY <1>3, <2>1, <2>3 DEF Ordered
  <2>4. m.kind = "CLOSE" /\ Has({"REQUEST", "no"}) => Has({"REQUEST", "no"})'
    <3>1. ASSUME m.kind = "CLOSE", NEW k \in 1 .. Len(window),
                 Sort(window[k]) \in {"REQUEST", "no"}
          PROVE  Has({"REQUEST", "no"})'
      <4>1. k # 1
        BY <2>1, <3>1 DEF Sort
      <4>2. k - 1 \in 1 .. Len(window') /\ window'[k - 1] = window[k]
        BY <2>1, <3>1, <4>1
      <4>. QED BY <3>1, <4>2 DEF Has
    <3>. QED BY <3>1 DEF Has
  <2>. QED BY <1>1, <1>3, <1>4, <2>2, <2>3, <2>4 DEF Ordered
<1>5. ASSUME NEW flag \in {"yes", "no"}, Acks(m, flag), m.kind # "CLOSE",
             flag \in Expected, flag = "no" => pair[2] \in BadItems,
             flag = "no" => m.kind = "REQUEST",
             flag = "yes" => m.kind \in {"LINK", "DELINK"}
      PROVE  Letters' /\ Ordered'
  <2>1. /\ Len(window) \in Nat \ {0} /\ m = window[1]
        /\ Len(window') = Len(window)
        /\ \A k \in 1 .. Len(window) - 1 :
             k + 1 \in 2 .. Len(window) /\ window'[k] = window[k + 1]
        /\ Sort(window'[Len(window)]) = flag
        /\ window'[Len(window)].hwnd = conv[pair[1]]
        /\ window'[Len(window)].item = pair[2]
    BY <1>1, <1>5, Acknowledges
  <2>2. sid[1] = conv[pair[1]] /\ ~answered
    BY <1>1, <1>5, HeadOrderly, OwnOpen
  <2>3. \A k \in 1 .. Len(window) : k = Len(window) \/ k \in 1 .. Len(window) - 1
    BY <2>1
  <2>4. Letters'
    BY <1>1, <1>2, <1>3, <1>5, <2>1, <2>2, <2>3 DEF Letters
  <2>5. ASSUME NEW j \in 1 .. Len(window'), NEW k \in 1 .. Len(window'), j < k,
               window'[j].kind # "CLOSE", window'[k].kind # "CLOSE"
        PROVE  <<Sort(window'[j]), Sort(window'[k])>> \in Follows
    <3>1. j \in 1 .. Len(window) - 1 /\ window'[j] = window[j + 1] /\ j + 1 \in 2 .. Len(window)
      BY <2>1, <2>5
    <3>2. CASE k # Len(window)
      BY <1>3, <2>1, <2>3, <2>5, <3>1, <3>2 DEF Ordered
    <3>3. CASE k = Len(window)
      <4>1. <<Sort(m), Sort(window[j + 1])>> \in Follows
        BY <1>3, <1>5, <2>1, <2>5, <3>1 DEF Ordered
      <4>2. Sort(m) = m.kind
        BY <1>1 DEF Sort
      <4>. QED BY <1>5, <2>1, <3>1, <3>3, <4>1, <4>2 DEF Follows
    <3>. QED BY <3>2, <3>3
  <2>6. ASSUME at \in {"request", "link"}, pair[2] \in BadItems
        PROVE  Has({"REQUEST", "no"})'
    <3>1. CASE flag = "no"
      BY <2>1, <3>1 DEF Has
    <3>2. CASE flag = "yes"
      <4>1. PICK k \in 1 .. Len(window) : Sort(window[k]) \in {"REQUEST", "no"}
        BY <1>3, <2>6 DEF Ordered, Has
      <4>2. k # 1
        BY <1>1, <1>5, <2>1, <3>2, <4>1 DEF Sort
      <4>3. k - 1 \in 1 .. Len(window') /\ window'[k - 1] = window[k]
        BY <2>1, <4>1, <4>2
      <4>. QED BY <4>1, <4>3 DEF Has
    <3>. QED BY <3>1, <3>2
  <2>. QED BY <1>1, <2>4, <2>5, <2>6 DEF Ordered
<1>6. m.kind # "CLOSE" => m.kind \in Expected
  BY <1>1, HeadOrderly DEF Sort
<1>7. /\ "REQUEST" \in Expected => "no" \in Expected
      /\ "LINK" \in Expected \/ "DELINK" \in Expected => "yes" \in Expected
  BY DEF Expected
<1>. QED BY <1>1, <1>4, <1>5, <1>6, <1>7, PassOnOrderly

LEMMA QueueOrderKept ==
  ASSUME EInv, Order, Next, orderly'
  PROVE  Letters' /\ Ordered'
<1>a. pair \in Pairs \/ at \in {"idle", "gone"}
  BY DEF EInv, Control
<1>b. at \notin Exchanging => AllClosings
  BY NothingLeft DEF Order
<1>c. ASSUME AllClosings, window' = window, at' \notin Exchanging
      PROVE  Letters' /\ Ordered'
  BY <1>c, ClosingsInOrder DEF AllClosings, Exchanging
<1>d. ASSUME PostCloseItem, at' \in {"unwind", "delink"}, at \notin Exchanging,
             pair \in Pairs, conv' = conv
      PROVE  Letters' /\ Ordered'
  <2> DEFINE m == Message("DELINK", conv[pair[1]], pair[2])
  <2>1. /\ m \in Messages /\ m.kind = "DELINK" /\ m.hwnd = conv[pair[1]] /\ m.item = pair[2]
    BY <1>d, Ids DEF Message, Messages, OwnKinds, EInv, Convos
  <2>2. /\ window' = Append(window, m) /\ pair' = pair /\ ~answered'
        /\ sid' = <<conv[pair[1]], pair[2]>>
    BY <1>d DEF PostCloseItem, Asks
  <2> HIDE DEF m
  <2>3. Sort(m) = "DELINK" /\ "DELINK" \in Expected'
    BY <1>d, <2>1 DEF Sort, Expected
  <2>. QED BY <1>b, <1>d, <2>1, <2>2, <2>3, PostedInOrder DEF Order
<1>1. CASE Receive \/ RemoveAllStreams
  BY <1>1, <1>b, <1>c DEF Receive, RemoveAllStreams, Exchanging
<1>2. CASE AddStream \/ DestroyBuffer \/ ForgetConversation
  BY <1>2, <1>b, <1>c DEF AddStream, DestroyBuffer, ForgetConversation, CloseIfEmpty,
                          Done, Exchanging
<1>3. CASE CreateTopic \/ ItemAnswered \/ Unwound \/ CloseItem
  <2>1. Returns /\ at' \notin Exchanging
    BY <1>3 DEF CreateTopic, ItemAnswered, Unwound, CloseItem, CloseIfEmpty, Done,
                Exchanging
  <2>. QED BY <2>1, <1>c, ReturnsOrderly
<1>4. CASE PostItem
  <2> DEFINE m == Message("REQUEST", conv[pair[1]], pair[2])
  <2>0. pair \in Pairs /\ at \notin Exchanging /\ at' = "request" /\ pair' = pair
    BY <1>4, <1>a DEF PostItem, Exchanging
  <2>1. /\ m \in Messages /\ m.kind = "REQUEST" /\ m.hwnd = conv[pair[1]] /\ m.item = pair[2]
    BY <2>0, Ids DEF Message, Messages, OwnKinds, EInv, Convos
  <2>2. window' = Append(window, m) /\ ~answered' /\ sid' = <<conv[pair[1]], pair[2]>>
    BY <1>4 DEF PostItem, Asks
  <2> HIDE DEF m
  <2>3. Sort(m) = "REQUEST" /\ "REQUEST" \in Expected'
    BY <2>0, <2>1 DEF Sort, Expected
  <2>. QED BY <1>b, <2>0, <2>1, <2>2, <2>3, PostedInOrder DEF Order
<1>5. CASE PostLink
  <2> DEFINE m == Message("LINK", sid[1], pair[2])
  <2>0. /\ at = "request" /\ at' = "link" /\ UNCHANGED <<sid, pair, answered>>
        /\ ~answered /\ at \in Exchanging
    BY <1>5 DEF PostLink, Order, Flagged, Exchanging
  <2>1. /\ m \in Messages /\ m.kind = "LINK" /\ m.hwnd = sid[1] /\ m.item = pair[2]
    BY <2>0, OwnOpen DEF Message, Messages, OwnKinds
  <2>2. window' = Append(window, m)
    BY <1>5 DEF PostLink
  <2> HIDE DEF m
  <2>3. Sort(m) = "LINK" /\ "LINK" \in Expected'
    BY <2>0, <2>1 DEF Sort, Expected
  <2>. QED BY <2>0, <2>1, <2>2, <2>3, PostedInOrder DEF Order
<1>6. CASE CreateBuffer
  <2>1. CASE PostCloseItem
    BY <1>6, <1>a, <1>d, <2>1 DEF CreateBuffer, PostCloseItem, convos, Exchanging, Done
  <2>2. CASE ~PostCloseItem
    BY <1>6, <1>b, <1>c, <2>2 DEF CreateBuffer, Done, Exchanging
  <2>. QED BY <2>1, <2>2
<1>7. CASE RemoveStream
  <2>1. CASE PostCloseItem /\ at' = "delink"
    BY <1>7, <1>a, <1>d, <2>1 DEF RemoveStream, convos, Exchanging
  <2>2. CASE window' = window /\ at' \notin Exchanging
    BY <1>7, <1>b, <1>c, <2>2 DEF RemoveStream, Exchanging
  <2>. QED BY <1>7, <2>1, <2>2 DEF RemoveStream, CloseIfEmpty, Done, Exchanging
<1>8. CASE CloseTopic
  <2> DEFINE m == Message("CLOSE", conv[pair[1]], NULL)
  <2>0. at = "close" /\ at' = "forget" /\ window' = Append(window, m) /\ AllClosings
    BY <1>8, <1>b DEF CloseTopic, Exchanging
  <2>1. m \in Messages /\ m.kind = "CLOSE"
    BY <1>a, <2>0, Ids DEF Message, Messages, EInv, Convos
  <2> HIDE DEF m
  <2>2. /\ Len(window) \in Nat /\ Len(window') = Len(window) + 1
        /\ \A k \in 1 .. Len(window) : window'[k] = window[k]
        /\ window'[Len(window) + 1] = m
    BY <2>0, <2>1, AppendTo DEF EInv, Queue
  <2>3. AllClosings'
    BY <2>0, <2>1, <2>2 DEF AllClosings
  <2>. QED BY <2>0, <2>3, ClosingsInOrder
<1>9. CASE WokenUp \/ RouteToBuffer \/ Written \/ FinishSignal
  <2>1. UNCHANGED <<at, sid, pair, answered, window>>
    BY <1>9 DEF WokenUp, RouteToBuffer, Written, FinishSignal, main
  <2>2. Expected' = Expected
    BY <2>1 DEF Expected
  <2>. QED BY <2>1, <2>2 DEF Order, Letters, Ordered, Has
<1>10. CASE PassOn
  BY <1>10, PassedOnInOrder
<1>11. CASE TakeAck
  <2>1. /\ window # <<>> /\ window' = Tail(window) /\ at \in {"link", "unwind", "delink"}
        /\ \A k \in 1 .. Len(window) - 1 : Tail(window)[k].kind = "CLOSE"
        /\ at = "link" => pair[2] \notin BadItems
    BY <1>11, TakeAckOrderly
  <2>2. Len(window') = Len(window) - 1
    BY <2>1, TailTaken DEF EInv
  <2>3. AllClosings'
    BY <2>1, <2>2 DEF AllClosings
  <2>4. at' = at /\ pair' = pair
    BY <1>11 DEF TakeAck, main
  <2>. QED BY <2>1, <2>3, <2>4, ClosingsInOrder
<1>12. CASE \E t \in Topics : TopicAck(t)
  <2>1. at = "topic" /\ at' = at /\ window' = window
    BY <1>12, TopicAckOrderly DEF TopicAck, main
  <2>. QED BY <2>1, <1>b, <1>c DEF Exchanging
<1>. QED
  BY <1>1, <1>2, <1>3, <1>4, <1>5, <1>6, <1>7, <1>8, <1>9, <1>10, <1>11, <1>12,
     OrderlySteps

-----------------------------------------------------------------------------
(***************************************************************************)
(* The conversations that are open.                                        *)
(***************************************************************************)

(* The closings stay in the queue, each as far from its end as before.     *)
LEMMA SameClosings ==
  ASSUME EInv, OpenOrClosing, UNCHANGED <<open, opened, conv>>,
         \A t \in Topics : Forgotten(t)' <=> Forgotten(t),
         NEW d \in {0, 1},
         \A k \in Closings' : k + d \in Closings /\ window'[k] = window[k + d],
         \A k \in Closings : k - d \in Closings'
  PROVE  OpenOrClosing'
<1>1. \A k \in Closings \cup Closings' : k \in Int
  <2>1. Len(window) \in Nat /\ \A k \in Closings : k \in Int
    BY DEF Closings, EInv, Queue
  <2>2. \A k \in Closings' : k \in Int
    BY DEF Closings
  <2>. QED BY <2>1, <2>2
<1>2. \A h : (\E k \in Closings' : window'[k].hwnd = h) <=> (\E k \in Closings : window[k].hwnd = h)
  <2>1. ASSUME NEW k \in Closings
        PROVE  \E j \in Closings' : window'[j] = window[k]
    <3>1. k - d \in Closings' /\ (k - d) + d = k
      BY <1>1, <2>1
    <3>. QED BY <3>1
  <2>. QED BY <2>1
<1>3. ASSUME NEW h \in Handles
      PROVE  h \in open' <=> \/ \E k \in Closings' : window'[k].hwnd = h
                             \/ \E t \in Topics : conv'[t] = h /\ ~Forgotten(t)'
  BY <1>2, <1>3 DEF OpenOrClosing
<1>4. ASSUME NEW k \in Closings'
      PROVE  /\ window'[k].hwnd \in 1 .. Len(opened')
             /\ \A t \in Topics : conv'[t] = window'[k].hwnd => Forgotten(t)'
             /\ \A j \in Closings' : window'[j].hwnd = window'[k].hwnd => j = k
  <2>1. k + d \in Closings /\ window'[k] = window[k + d]
    BY <1>4
  <2>2. \A j \in Closings' : window'[j].hwnd = window'[k].hwnd => j + d = k + d
    BY <2>1 DEF OpenOrClosing
  <2>. QED BY <1>1, <1>4, <2>1, <2>2 DEF OpenOrClosing
<1>. QED BY <1>3, <1>4 DEF OpenOrClosing

LEMMA SameWindow ==
  ASSUME EInv, OpenOrClosing, UNCHANGED <<open, opened, conv, window>>,
         \A t \in Topics : Forgotten(t)' <=> Forgotten(t)
  PROVE  OpenOrClosing'
<1>1. Closings' = Closings
  BY DEF Closings
<1>2. Closings \subseteq Int
  BY DEF Closings, EInv, Queue
<1>3. \A k \in Closings : k + 0 = k /\ k - 0 = k
  BY <1>2
<1>. QED BY <1>1, <1>3, SameClosings

LEMMA OneMorePosted ==
  ASSUME EInv, OpenOrClosing, UNCHANGED <<open, opened, conv>>,
         \A t \in Topics : Forgotten(t)' <=> Forgotten(t),
         NEW m \in Messages, m.kind # "CLOSE", window' = Append(window, m)
  PROVE  OpenOrClosing'
<1>1. /\ Len(window) \in Nat /\ Len(window') = Len(window) + 1
      /\ \A k \in 1 .. Len(window) : window'[k] = window[k]
      /\ window'[Len(window) + 1] = m
  BY AppendTo DEF EInv, Queue
<1>2. \A k \in Closings' : k + 0 \in Closings /\ window'[k] = window[k + 0]
  BY <1>1 DEF Closings
<1>3. \A k \in Closings : k - 0 \in Closings'
  BY <1>1 DEF Closings
<1>. QED BY <1>2, <1>3, SameClosings

LEMMA HeadTaken ==
  ASSUME EInv, OpenOrClosing, UNCHANGED <<open, opened, conv>>,
         \A t \in Topics : Forgotten(t)' <=> Forgotten(t),
         window # <<>>, Head(window).kind # "CLOSE",
         \/ window' = Tail(window)
         \/ Order /\ \E flag \in {"yes", "no"} : Acks(Head(window), flag)
  PROVE  OpenOrClosing'
<1>1. /\ Len(window) \in Nat \ {0} /\ window[1].kind # "CLOSE"
      /\ Len(window') \in {Len(window), Len(window) - 1}
      /\ \A k \in 1 .. Len(window) - 1 : window'[k] = window[k + 1]
      /\ Len(window') = Len(window) => window'[Len(window)].kind = "ACK"
  <2>1. CASE window' = Tail(window)
    <3>1. /\ Len(window) \in Nat \ {0} /\ Head(window) = window[1]
          /\ Len(window') = Len(window) - 1
          /\ \A k \in 1 .. Len(window') : window'[k] = window[k + 1]
      BY <2>1, TailTaken DEF EInv
    <3>2. Len(window') # Len(window)
      BY <3>1
    <3>. QED BY <3>1, <3>2
  <2>2. CASE Order /\ \E flag \in {"yes", "no"} : Acks(Head(window), flag)
    BY <2>2, Acknowledges
  <2>. QED BY <2>1, <2>2
<1>2. \A k \in Closings' : k + 1 \in Closings /\ window'[k] = window[k + 1]
  BY <1>1 DEF Closings
<1>3. \A k \in Closings : k - 1 \in Closings'
  <2>1. ASSUME NEW k \in Closings PROVE k - 1 \in Closings'
    <3>1. k \in 2 .. Len(window) /\ window[k].kind = "CLOSE"
      BY <1>1, <2>1 DEF Closings
    <3>2. k - 1 \in 1 .. Len(window) - 1 /\ (k - 1) + 1 = k
      BY <1>1, <3>1
    <3>3. window'[k - 1] = window[k]
      <4>1. window'[k - 1] = window[(k - 1) + 1]
        BY <1>1, <3>2
      <4>. QED BY <3>2, <4>1
    <3>4. k - 1 \in 1 .. Len(window')
      <4>1. Len(window') >= Len(window) - 1 /\ Len(window') \in Nat
        BY <1>1
      <4>. QED BY <3>2, <4>1
    <3>. QED BY <3>1, <3>3, <3>4 DEF Closings
  <2>. QED BY <2>1
<1>. QED BY <1>2, <1>3, SameClosings

(* A closing is posted: its conversation is the map's, which is about to   *)
(* be forgotten, and it was not closed before.                             *)
LEMMA CloseTopicOpen ==
  ASSUME EInv, Order, CloseTopic
  PROVE  OpenOrClosing'
<1> DEFINE g == conv[pair[1]]
           m == Message("CLOSE", g, NULL)
<1>1. /\ at = "close" /\ at' = "forget" /\ UNCHANGED <<pair, conv, open, opened>>
      /\ window' = Append(window, m) /\ pair \in Pairs
  BY DEF CloseTopic, convos, platform, EInv, Control
<1>2. pair[1] \in Topics /\ g \in Handles /\ g <= Len(opened) /\ g # NULL
  BY <1>1, Ids, NullAssumption DEF Order, Conversing, EInv, Convos
<1>3. m \in Messages /\ m.kind = "CLOSE" /\ m.hwnd = g
  BY <1>2 DEF Message, Messages
<1> HIDE DEF m, g
<1>4. /\ Len(window) \in Nat /\ Len(window') = Len(window) + 1
      /\ \A k \in 1 .. Len(window) : window'[k] = window[k]
      /\ window'[Len(window) + 1] = m
  BY <1>1, <1>3, AppendTo DEF EInv, Queue
<1>5. /\ Closings' = Closings \cup {Len(window) + 1}
      /\ \A k \in Closings : window'[k] = window[k] /\ k # Len(window) + 1
  BY <1>3, <1>4 DEF Closings
<1>6. \A t \in Topics : ~Forgotten(t) /\ (Forgotten(t)' <=> t = pair[1])
  BY <1>1 DEF Forgotten
<1>7. \A k \in Closings : window[k].hwnd \in 1 .. Len(opened)
                          /\ \A t \in Topics : conv[t] # window[k].hwnd
  BY <1>6 DEF Order, OpenOrClosing
<1>8. \A t \in Topics : conv[t] = g => t = pair[1]
  BY <1>2 DEF EInv, Convos, g
<1>9. g \in 1 .. Len(opened')
  BY <1>1, <1>2 DEF Handles, EInv, Convos
<1>10. ASSUME NEW h \in Handles
       PROVE  h \in open' <=> \/ \E k \in Closings' : window'[k].hwnd = h
                              \/ \E t \in Topics : conv'[t] = h /\ ~Forgotten(t)'
  <2>1. h \in open <=> \/ \E k \in Closings : window[k].hwnd = h
                       \/ \E t \in Topics : conv[t] = h
    BY <1>6 DEF Order, OpenOrClosing
  <2>2. CASE h = g
    BY <1>1, <1>2, <1>3, <1>4, <1>5, <2>1, <2>2 DEF g
  <2>3. CASE h # g
    BY <1>1, <1>3, <1>4, <1>5, <1>6, <2>1, <2>3 DEF g
  <2>. QED BY <2>2, <2>3
<1>11. ASSUME NEW k \in Closings'
       PROVE  /\ window'[k].hwnd \in 1 .. Len(opened')
              /\ \A t \in Topics : conv'[t] = window'[k].hwnd => Forgotten(t)'
              /\ \A j \in Closings' : window'[j].hwnd = window'[k].hwnd => j = k
  <2>1. CASE k = Len(window) + 1
    <3>1. window'[k].hwnd = g
      BY <1>3, <1>4, <2>1
    <3>2. \A j \in Closings : window'[j].hwnd # g
      BY <1>2, <1>5, <1>7 DEF g
    <3>. QED BY <1>1, <1>5, <1>6, <1>8, <1>9, <2>1, <3>1, <3>2
  <2>2. CASE k \in Closings
    <3>1. window'[k] = window[k] /\ window[k].hwnd # g
      BY <1>2, <1>5, <1>7, <2>2 DEF g
    <3>2. \A j \in Closings' : window'[j].hwnd = window'[k].hwnd => j = k
      BY <1>3, <1>4, <1>5, <2>2, <3>1 DEF Order, OpenOrClosing
    <3>. QED BY <1>1, <1>7, <2>2, <3>1, <3>2
  <2>. QED BY <1>5, <1>11, <2>1, <2>2
<1>. QED BY <1>10, <1>11 DEF OpenOrClosing

(* A closing is dealt with.                                                *)
LEMMA ClosingDone ==
  ASSUME EInv, Order, PassOn, Head(window).kind = "CLOSE"
  PROVE  OpenOrClosing'
<1> DEFINE g == Head(window).hwnd
<1>1. /\ UNCHANGED <<at, pair, conv, opened>> /\ window # <<>>
      /\ window' = Tail(window) /\ open' = open \ {g}
  BY PassOnOrderly DEF PassOn, main, convos
<1>2. /\ Len(window) \in Nat \ {0} /\ Head(window) = window[1]
      /\ Len(window') = Len(window) - 1
      /\ \A k \in 1 .. Len(window') :
           k + 1 \in 2 .. Len(window) /\ window'[k] = window[k + 1]
  BY <1>1, TailTaken DEF EInv
<1>3. 1 \in Closings /\ window[1].hwnd = g
  BY <1>2 DEF Closings
<1> HIDE DEF g
<1>4. /\ \A k \in Closings : window[k].hwnd = g => k = 1
      /\ \A t \in Topics : conv[t] = g => Forgotten(t)
  BY <1>3 DEF Order, OpenOrClosing
<1>5. \A k \in Closings' : /\ k \in Nat /\ k + 1 \in Closings
                           /\ window'[k] = window[k + 1] /\ k + 1 # 1
  BY <1>2 DEF Closings
<1>6. \A k \in Closings : k # 1 => \E j \in Closings' : window'[j] = window[k]
  <2>1. ASSUME NEW k \in Closings, k # 1
        PROVE  k - 1 \in Closings' /\ window'[k - 1] = window[k]
    <3>1. k - 1 \in 1 .. Len(window') /\ (k - 1) + 1 = k
      BY <1>2, <2>1 DEF Closings
    <3>. QED BY <1>2, <2>1, <3>1 DEF Closings
  <2>. QED BY <2>1
<1>7. \A t \in Topics : Forgotten(t)' <=> Forgotten(t)
  BY <1>1 DEF Forgotten
<1>8. ASSUME NEW h \in Handles
      PROVE  h \in open' <=> \/ \E k \in Closings' : window'[k].hwnd = h
                             \/ \E t \in Topics : conv'[t] = h /\ ~Forgotten(t)'
  <2>1. h \in open <=> \/ \E k \in Closings : window[k].hwnd = h
                       \/ \E t \in Topics : conv[t] = h /\ ~Forgotten(t)
    BY DEF Order, OpenOrClosing
  <2>2. CASE h = g
    <3>1. \A k \in Closings' : window'[k].hwnd # g
      BY <1>4, <1>5
    <3>. QED BY <1>1, <1>4, <1>7, <2>2, <3>1
  <2>3. CASE h # g
    <3>1. (\E k \in Closings' : window'[k].hwnd = h) <=> (\E k \in Closings : window[k].hwnd = h)
      BY <1>3, <1>5, <1>6, <2>3
    <3>. QED BY <1>1, <1>7, <2>1, <2>3, <3>1
  <2>. QED BY <2>2, <2>3
<1>9. ASSUME NEW k \in Closings'
      PROVE  /\ window'[k].hwnd \in 1 .. Len(opened')
             /\ \A t \in Topics : conv'[t] = window'[k].hwnd => Forgotten(t)'
             /\ \A j \in Closings' : window'[j].hwnd = window'[k].hwnd => j = k
  <2>1. \A j \in Closings' : window'[j].hwnd = window'[k].hwnd => j + 1 = k + 1
    BY <1>5, <1>9 DEF Order, OpenOrClosing
  <2>2. \A j \in Closings' : j + 1 = k + 1 => j = k
    BY <1>5, <1>9
  <2>3. /\ window'[k].hwnd \in 1 .. Len(opened)
        /\ \A t \in Topics : conv[t] = window'[k].hwnd => Forgotten(t)
    BY <1>5, <1>9 DEF Order, OpenOrClosing
  <2>. QED BY <1>1, <1>7, <2>1, <2>2, <2>3
<1>. QED BY <1>8, <1>9 DEF OpenOrClosing

LEMMA TopicAckOpen ==
  ASSUME EInv, Order, NEW t \in Topics, TopicAck(t)
  PROVE  OpenOrClosing'
<1>1. /\ at = "topic" /\ conv[t] = NULL /\ UNCHANGED <<at, window>>
  BY TopicAckOrderly DEF TopicAck, main
<1>2. /\ opened' = Append(opened, t) /\ open' = open \cup {Len(opened')}
      /\ Insert(t, Len(opened')) /\ Len(opened) < MaxHandles
  BY DEF TopicAck
<1>3. Len(opened) \in Nat /\ Len(opened') = Len(opened) + 1 /\ Len(opened') \in Handles
  BY <1>2, BoundsAssumption DEF EInv, Convos, Handles
<1>4. \A s \in Topics : conv'[s] = IF s = t THEN Len(opened') ELSE conv[s]
  BY <1>2 DEF Insert, EInv, Convos
<1>5. Closings' = Closings /\ \A s \in Topics : ~Forgotten(s) /\ ~Forgotten(s)'
  BY <1>1 DEF Closings, Forgotten
<1>6. \A k \in Closings : /\ window[k].hwnd \in 1 .. Len(opened)
                          /\ \A s \in Topics : conv[s] # window[k].hwnd
                          /\ \A j \in Closings : window[j].hwnd = window[k].hwnd => j = k
  BY <1>5 DEF Order, OpenOrClosing
<1>7. \A h \in Handles : h \in open <=> \/ \E k \in Closings : window[k].hwnd = h
                                        \/ \E s \in Topics : conv[s] = h
  BY <1>5 DEF Order, OpenOrClosing
<1>8. \A h \in Handles : h \in open' <=> \/ \E k \in Closings : window[k].hwnd = h
                                         \/ \E s \in Topics : conv'[s] = h
  BY <1>1, <1>2, <1>4, <1>7, NullAssumption
<1>9. \A k \in Closings : /\ window[k].hwnd \in 1 .. Len(opened')
                          /\ \A s \in Topics : conv'[s] # window[k].hwnd
  BY <1>3, <1>4, <1>6
<1>. QED BY <1>1, <1>5, <1>6, <1>8, <1>9 DEF OpenOrClosing

LEMMA ForgetOpen ==
  ASSUME EInv, Order, ForgetConversation
  PROVE  OpenOrClosing'
<1>1. /\ at = "forget" /\ at' # "forget" /\ UNCHANGED <<window, open, opened>>
      /\ conv' = [conv EXCEPT ![pair[1]] = NULL]
  BY DEF ForgetConversation, Done, RemoveTopic, platform
<1>2. \A s \in Topics : conv'[s] = IF s = pair[1] THEN NULL ELSE conv[s]
  BY <1>1 DEF EInv, Convos
<1>3. /\ Closings' = Closings
      /\ \A s \in Topics : ~Forgotten(s)' /\ (Forgotten(s) <=> s = pair[1])
  BY <1>1 DEF Closings, Forgotten
<1>4. \A k \in Closings : window[k].hwnd # NULL
  <2>1. \A k \in Closings : window[k].hwnd \in Handles
    BY BoundsAssumption DEF Order, OpenOrClosing, EInv, Convos, Handles
  <2>. QED BY <2>1, NullAssumption
<1>5. \A k \in Closings, s \in Topics : conv'[s] # window[k].hwnd
  BY <1>2, <1>3, <1>4 DEF Order, OpenOrClosing
<1>6. \A h \in Handles : (\E s \in Topics : conv[s] = h /\ ~Forgotten(s))
                         <=> \E s \in Topics : conv'[s] = h
  BY <1>2, <1>3, NullAssumption
<1>. QED BY <1>1, <1>3, <1>5, <1>6 DEF Order, OpenOrClosing

LEMMA OpenOrClosingKept ==
  ASSUME EInv, Order, Next, orderly'
  PROVE  OpenOrClosing'
<1>a. OpenOrClosing
  BY DEF Order
<1>b. ASSUME at # "forget", at' # "forget"
      PROVE  \A t \in Topics : Forgotten(t)' <=> Forgotten(t)
  BY <1>b DEF Forgotten
<1>c. ASSUME at' = at, pair' = pair
      PROVE  \A t \in Topics : Forgotten(t)' <=> Forgotten(t)
  BY <1>c DEF Forgotten
<1>d. pair \in Pairs \/ at \in {"idle", "gone"}
  BY DEF EInv, Control
<1>e. ASSUME PostCloseItem, UNCHANGED <<open, opened, conv>>, pair \in Pairs,
             at # "forget", at' # "forget"
      PROVE  OpenOrClosing'
  <2> DEFINE m == Message("DELINK", conv[pair[1]], pair[2])
  <2>1. m \in Messages /\ m.kind = "DELINK"
    BY <1>e, Ids DEF Message, Messages, OwnKinds, EInv, Convos
  <2>2. window' = Append(window, m)
    BY <1>e DEF PostCloseItem
  <2> HIDE DEF m
  <2>. QED BY <1>a, <1>b, <1>e, <2>1, <2>2, OneMorePosted
<1>1. CASE Receive \/ RemoveAllStreams \/ AddStream \/ DestroyBuffer
  BY <1>1, <1>a, <1>b, SameWindow
  DEF Receive, RemoveAllStreams, AddStream, DestroyBuffer, CloseIfEmpty, Done,
      platform, convos
<1>2. CASE CreateTopic \/ ItemAnswered \/ Unwound \/ CloseItem
  <2>1. Returns /\ at # "forget" /\ at' # "forget" /\ UNCHANGED <<open, opened, conv>>
    BY <1>2 DEF CreateTopic, ItemAnswered, Unwound, CloseItem, CloseIfEmpty, Done,
                platform, convos
  <2>. QED BY <2>1, <1>a, <1>b, ReturnsOrderly, SameWindow
<1>3. CASE PostItem
  <2> DEFINE m == Message("REQUEST", conv[pair[1]], pair[2])
  <2>1. /\ pair \in Pairs /\ at # "forget" /\ at' # "forget"
        /\ UNCHANGED <<open, opened, conv>> /\ window' = Append(window, m)
    BY <1>3, <1>d DEF PostItem, platform, convos
  <2>2. m \in Messages /\ m.kind = "REQUEST"
    BY <2>1, Ids DEF Message, Messages, OwnKinds, EInv, Convos
  <2> HIDE DEF m
  <2>. QED BY <1>a, <1>b, <2>1, <2>2, OneMorePosted
<1>4. CASE PostLink
  <2> DEFINE m == Message("LINK", sid[1], pair[2])
  <2>1. /\ at = "request" /\ at' # "forget"
        /\ UNCHANGED <<open, opened, conv>> /\ window' = Append(window, m)
    BY <1>4 DEF PostLink, platform, convos
  <2>2. m \in Messages /\ m.kind = "LINK"
    BY <2>1, OwnOpen DEF Message, Messages, OwnKinds, Exchanging
  <2> HIDE DEF m
  <2>. QED BY <1>a, <1>b, <2>1, <2>2, OneMorePosted
<1>5. CASE CreateBuffer
  <2>1. at = "create" /\ at' # "forget" /\ UNCHANGED <<open, opened, conv>>
    BY <1>5 DEF CreateBuffer, Done, platform, convos
  <2>2. CASE PostCloseItem
    BY <1>d, <1>e, <2>1, <2>2
  <2>3. CASE ~PostCloseItem
    BY <1>5, <1>a, <1>b, <2>1, <2>3, SameWindow DEF CreateBuffer
  <2>. QED BY <2>2, <2>3
<1>6. CASE RemoveStream
  <2>1. at = "begin" /\ at' # "forget" /\ UNCHANGED <<open, opened, conv>>
    BY <1>6 DEF RemoveStream, CloseIfEmpty, Done, platform, convos
  <2>2. CASE PostCloseItem
    BY <1>d, <1>e, <2>1, <2>2
  <2>3. CASE ~PostCloseItem
    BY <1>6, <1>a, <1>b, <2>1, <2>3, SameWindow DEF RemoveStream
  <2>. QED BY <2>2, <2>3
<1>7. CASE CloseTopic
  BY <1>7, CloseTopicOpen
<1>8. CASE ForgetConversation
  BY <1>8, ForgetOpen
<1>9. CASE WokenUp \/ RouteToBuffer \/ Written \/ FinishSignal
  BY <1>9, <1>a, <1>c, SameWindow
  DEF WokenUp, RouteToBuffer, Written, FinishSignal, main, platform, convos
<1>10. CASE PassOn
  <2>1. CASE Head(window).kind = "CLOSE"
    BY <1>10, <2>1, ClosingDone
  <2>2. CASE Head(window).kind # "CLOSE"
    <3>1. /\ at' = at /\ pair' = pair /\ UNCHANGED <<open, opened, conv>>
          /\ window # <<>>
          /\ window' = Tail(window) \/ \E flag \in {"yes", "no"} : Acks(Head(window), flag)
      BY <1>10, <2>2, PassOnOrderly DEF PassOn, main, convos
    <3>. QED BY <1>a, <1>c, <2>2, <3>1, HeadTaken
  <2>. QED BY <2>1, <2>2
<1>11. CASE TakeAck
  <2>1. /\ at' = at /\ pair' = pair /\ UNCHANGED <<open, opened, conv>>
        /\ window # <<>> /\ window' = Tail(window) /\ Head(window).kind # "CLOSE"
    BY <1>11 DEF TakeAck, main, platform, convos
  <2>. QED BY <1>a, <1>c, <2>1, HeadTaken
<1>12. CASE \E t \in Topics : TopicAck(t)
  BY <1>12, TopicAckOpen
<1>. QED
  BY <1>1, <1>2, <1>3, <1>4, <1>5, <1>6, <1>7, <1>8, <1>9, <1>10, <1>11, <1>12,
     OrderlySteps

-----------------------------------------------------------------------------
(***************************************************************************)
(* The items that are linked.                                              *)
(***************************************************************************)

(* A message that is taken, and one that is put in its place, change only  *)
(* whether there are messages of their own sorts.                          *)
LEMMA OthersAsBefore ==
  ASSUME EInv, Order, window # <<>>, NEW sorts, Sort(Head(window)) \notin sorts,
         \/ window' = Tail(window)
         \/ /\ Head(window).kind # "CLOSE"
            /\ \E flag \in {"yes", "no"} \ sorts : Acks(Head(window), flag)
  PROVE  Has(sorts)' <=> Has(sorts)
<1>1. /\ Len(window) \in Nat \ {0} /\ Sort(window[1]) \notin sorts
      /\ Len(window') \in {Len(window), Len(window) - 1}
      /\ \A k \in 1 .. Len(window) - 1 : window'[k] = window[k + 1]
      /\ Len(window') = Len(window) => Sort(window'[Len(window)]) \notin sorts
  <2>1. CASE window' = Tail(window)
    <3>1. /\ Len(window) \in Nat \ {0} /\ Head(window) = window[1]
          /\ Len(window') = Len(window) - 1
          /\ \A k \in 1 .. Len(window') : window'[k] = window[k + 1]
      BY <2>1, TailTaken DEF EInv
    <3>2. Len(window') # Len(window)
      BY <3>1
    <3>. QED BY <3>1, <3>2
  <2>2. ASSUME Head(window).kind # "CLOSE", NEW flag \in {"yes", "no"}, flag \notin sorts,
               Acks(Head(window), flag)
        PROVE  /\ Len(window) \in Nat \ {0} /\ Head(window) = window[1]
               /\ Len(window') = Len(window)
               /\ \A k \in 1 .. Len(window) - 1 : window'[k] = window[k + 1]
               /\ Sort(window'[Len(window)]) \notin sorts
    BY <2>2, Acknowledges
  <2>. QED BY <2>1, <2>2
<1>2. ASSUME NEW k \in 1 .. Len(window'), Sort(window'[k]) \in sorts
      PROVE  Has(sorts)
  <2>1. k # Len(window)
    BY <1>1, <1>2
  <2>2. k \in 1 .. Len(window) - 1 /\ k + 1 \in 1 .. Len(window)
    BY <1>1, <1>2, <2>1
  <2>. QED BY <1>1, <1>2, <2>2 DEF Has
<1>3. ASSUME NEW k \in 1 .. Len(window), Sort(window[k]) \in sorts
      PROVE  Has(sorts)'
  <2>1. k # 1
    BY <1>1, <1>3
  <2>2. k - 1 \in 1 .. Len(window) - 1 /\ k - 1 \in 1 .. Len(window') /\ (k - 1) + 1 = k
    BY <1>1, <1>3, <2>1
  <2>3. window'[k - 1] = window[k]
    BY <1>1, <2>2
  <2>. QED BY <1>3, <2>2, <2>3 DEF Has
<1>. QED BY <1>2, <1>3 DEF Has

(* An item of a conversation is counted for one pair at most.              *)
LEMMA OwnCounting ==
  ASSUME EInv, pair \in Pairs, conv[pair[1]] \in Handles,
         NEW p \in Pairs, <<conv[p[1]], p[2]>> = Own
  PROVE  p = pair
<1>1. /\ p[1] \in Topics /\ pair[1] \in Topics /\ conv[p[1]] = conv[pair[1]]
      /\ p[2] = pair[2] /\ conv[p[1]] # NULL
  BY NullAssumption DEF Own, Pairs
<1>2. p[1] = pair[1]
  BY <1>1 DEF EInv, Convos
<1>. QED BY <1>1, <1>2 DEF Pairs

LEMMA SameLinks ==
  ASSUME Order, UNCHANGED <<links, streams>>,
         \A p \in streams : conv'[p[1]] = conv[p[1]],
         at \notin Linking, at' \notin Linking
  PROVE  Linked'
<1>1. \A l : Counting(l)' <=> Counting(l)
  BY DEF Counting
<1>. QED BY <1>1 DEF Order, Linked, Linking

(* The item is counted from when it is known to be linked.                 *)
LEMMA ItemLinked ==
  ASSUME EInv, Order, ItemAnswered
  PROVE  Linked'
<1>1. /\ at = "link" /\ answered /\ AllClosings /\ at' = "create"
      /\ streams' = streams \cup {pair} /\ conv' = conv /\ links' = links
  BY ReturnsOrderly DEF ItemAnswered, convos, platform
<1>2. pair \in Pairs /\ Own \in Handles \X Items
  BY <1>1, OwnOpen DEF Exchanging
<1>3. Own \in links
  BY <1>1 DEF Order, Linked
<1>4. pair[2] \notin BadItems
  <2>1. ~Has({"REQUEST", "no"})
    BY <1>1, NoneHas
  <2>. QED BY <1>1, <2>1 DEF Order, Ordered
<1>5. \A l : Counting(l)' <=> Counting(l) \/ l = Own
  BY <1>1 DEF Counting, Own
<1>6. \A l \in Handles \X Items : l \in links' <=> Counting(l)'
  BY <1>1, <1>3, <1>5 DEF Order, Linked, Linking
<1>7. \A p \in streams' : p[2] \notin BadItems
  BY <1>1, <1>4 DEF Order, Linked
<1>. QED BY <1>1, <1>6, <1>7 DEF Linked

(* It is no longer counted once it is known to be closed: AddStream gives  *)
(* it up at once, RemoveStream first destroys its buffer.                  *)
LEMMA GivenUp ==
  ASSUME EInv, Order, at \in {"unwind", "destroy"}, Own \notin links,
         streams' = streams \ {pair}, UNCHANGED <<conv, links>>, at' \notin Linking
  PROVE  Linked'
<1>1. pair \in Pairs /\ conv[pair[1]] \in Handles /\ streams \subseteq Pairs
  <2>1. pair \in streams /\ streams \subseteq Pairs
    BY DEF EInv, Table
  <2>2. pair[1] \in known /\ pair[1] \in Topics
    BY <2>1 DEF EInv, Table, StreamsHaveBuffers, Pairs
  <2>. QED BY <2>1, <2>2 DEF Order, Conversing, EInv, Convos
<1>2. \A p \in streams : <<conv[p[1]], p[2]>> = Own => p = pair
  BY <1>1, OwnCounting
<1>3. \A l : Counting(l)' <=> Counting(l) /\ l # Own
  BY <1>2 DEF Counting, Own
<1>4. \A l \in Handles \X Items : l \in links' <=> Counting(l)'
  BY <1>3 DEF Order, Linked
<1>. QED BY <1>4 DEF Order, Linked, Linking

LEMMA ItemClosed ==
  ASSUME EInv, Order, Unwound \/ CloseItem \/ DestroyBuffer
  PROVE  Linked'
<1>1. CASE DestroyBuffer
  <2>1. /\ at = "destroy" /\ streams' = streams \ {pair} /\ UNCHANGED <<conv, links>>
        /\ at' \notin Linking
    BY <1>1 DEF DestroyBuffer, CloseIfEmpty, Done, convos, platform, Linking
  <2>. QED BY <2>1, GivenUp DEF Order, Linked
<1>2. ASSUME Unwound \/ CloseItem
      PROVE  Own \notin links /\ UNCHANGED <<conv, links>>
  <2>1. AllClosings /\ at \in {"unwind", "delink"} /\ UNCHANGED <<conv, links>>
    BY <1>2, ReturnsOrderly DEF Unwound, CloseItem, convos, platform
  <2>2. ~Has({"DELINK"})
    BY <2>1, NoneHas
  <2>. QED BY <2>1, <2>2 DEF Order, Linked
<1>3. CASE Unwound
  <2>1. at = "unwind" /\ streams' = streams \ {pair} /\ at' \notin Linking
    BY <1>3 DEF Unwound, CloseIfEmpty, Done, Linking
  <2>. QED BY <1>2, <1>3, <2>1, GivenUp
<1>4. CASE CloseItem
  <2>1. at = "delink" /\ at' = "destroy" /\ UNCHANGED <<streams, pair>>
    BY <1>4 DEF CloseItem, counts
  <2>2. Own' = Own /\ \A l : Counting(l)' <=> Counting(l)
    BY <1>2, <1>4, <2>1 DEF Own, Counting
  <2>. QED BY <1>2, <1>4, <2>1, <2>2 DEF Order, Linked, Linking
<1>. QED BY <1>1, <1>3, <1>4

(* It is asked to be closed while it is counted.                           *)
LEMMA CloseItemPosted ==
  ASSUME EInv, Order, PostCloseItem, at \notin Linking, at' \in {"unwind", "delink"},
         UNCHANGED <<streams, conv, links>>, pair \in streams
  PROVE  Linked'
<1> DEFINE m == Message("DELINK", conv[pair[1]], pair[2])
<1>1. pair \in Pairs /\ pair[1] \in known /\ pair[1] \in Topics /\ pair[2] \in Items
  BY DEF EInv, Table, StreamsHaveBuffers, Pairs
<1>2. conv[pair[1]] \in Handles
  BY <1>1 DEF Order, Conversing, EInv, Convos
<1>3. m \in Messages /\ Sort(m) = "DELINK"
  BY <1>1, <1>2 DEF Message, Messages, OwnKinds, Sort
<1>4. window' = Append(window, m) /\ pair' = pair
  BY DEF PostCloseItem
<1> HIDE DEF m
<1>5. Has({"DELINK"})'
  <2>1. Len(window') \in 1 .. Len(window') /\ window'[Len(window')] = m
    BY <1>3, <1>4, AppendTo DEF EInv, Queue
  <2>. QED BY <1>3, <2>1 DEF Has
<1>6. Own \in links /\ Own' = Own
  <2>1. Own \in Handles \X Items /\ Counting(Own)
    BY <1>1, <1>2 DEF Own, Counting
  <2>. QED BY <1>4, <2>1 DEF Order, Linked, Linking, Own
<1>7. \A l : Counting(l)' <=> Counting(l)
  BY DEF Counting
<1>. QED BY <1>5, <1>6, <1>7 DEF Order, Linked, Linking

LEMMA LinkPosted ==
  ASSUME EInv, Order, PostLink
  PROVE  Linked'
<1> DEFINE m == Message("LINK", sid[1], pair[2])
<1>1. /\ at = "request" /\ at' = "link" /\ UNCHANGED <<pair, answered, streams, conv, links>>
      /\ window' = Append(window, m)
  BY DEF PostLink, counts, convos, platform
<1>2. /\ pair \in Pairs /\ conv[pair[1]] \in Handles /\ Own \in Handles \X Items
      /\ m \in Messages /\ Sort(m) = "LINK"
  BY <1>1, OwnOpen DEF Exchanging, Message, Messages, OwnKinds, Sort
<1> HIDE DEF m
<1>3. ~answered' /\ ~Has({"yes"})'
  <2>1. ~answered
    BY <1>1 DEF Order, Flagged
  <2>2. \A k \in 1 .. Len(window) : Sort(window[k]) # "yes"
    <3>1. "yes" \notin Expected
      BY <1>1 DEF Expected
    <3>. QED BY <3>1 DEF Order, Letters, Sort
  <2>3. /\ Len(window) \in Nat /\ Len(window') = Len(window) + 1
        /\ \A k \in 1 .. Len(window) : window'[k] = window[k]
        /\ window'[Len(window) + 1] = m
    BY <1>1, <1>2, AppendTo DEF EInv, Queue
  <2>4. \A k \in 1 .. Len(window') : k \in 1 .. Len(window) \/ k = Len(window) + 1
    BY <2>3
  <2>. QED BY <1>1, <1>2, <2>1, <2>2, <2>3, <2>4 DEF Has
<1>4. Own \notin links
  <2>1. pair \notin streams /\ streams \subseteq Pairs
    BY <1>1 DEF EInv, Table
  <2>2. ~Counting(Own)
    BY <1>2, <2>1, OwnCounting DEF Counting
  <2>. QED BY <1>1, <1>2, <2>2 DEF Order, Linked, Linking
<1>5. Own' = Own /\ \A l : Counting(l)' <=> Counting(l)
  BY <1>1 DEF Own, Counting
<1>. QED BY <1>1, <1>3, <1>4, <1>5 DEF Order, Linked, Linking

(* What WndProc passes on: a link, the closing of one, or nothing that     *)
(* concerns the links; a conversation that is closed has none left.        *)
LEMMA LinkedPassedOn ==
  ASSUME EInv, Order, PassOn
  PROVE  Linked'
<1> DEFINE m == Head(window)
<1>1. /\ UNCHANGED <<at, pair, answered, streams, conv>> /\ window # <<>>
      /\ m.kind \in {"REQUEST", "LINK", "DELINK", "CLOSE"}
  BY PassOnOrderly DEF PassOn, main, counts, convos
<1>2. Own' = Own /\ \A l : Counting(l)' <=> Counting(l)
  BY <1>1 DEF Own, Counting
<1>3. Sort(m) = m.kind
  BY <1>1 DEF Sort
<1>4. CASE links' = links /\ (Has({"yes"})' <=> Has({"yes"}))
           /\ (Has({"DELINK"})' <=> Has({"DELINK"}))
  BY <1>1, <1>2, <1>4 DEF Order, Linked
<1>5. CASE m.kind = "CLOSE"
  <2>1. /\ window' = Tail(window)
        /\ links' = {l \in links : l[1] # m.hwnd}
    BY <1>5, PassOnOrderly
  <2>2. \A t \in Topics : conv[t] = m.hwnd => Forgotten(t)
    <3>1. Len(window) \in Nat \ {0} /\ m = window[1]
      BY <1>1, TailOf DEF EInv
    <3>2. 1 \in Closings
      BY <1>5, <3>1 DEF Closings
    <3>. QED BY <3>1, <3>2 DEF Order, OpenOrClosing
  <2>3. ASSUME NEW l \in links, l[1] = m.hwnd
        PROVE  FALSE
    <3>0. l \in Handles \X Items
      BY DEF EInv, Convos
    <3>1. CASE at \in Linking \ {"destroy"} /\ l = Own
      <4>1. pair[1] \in Topics /\ conv[pair[1]] = m.hwnd
        BY <2>3, <3>1, OwnOpen DEF Exchanging, Linking, Own
      <4>. QED BY <2>2, <3>1, <4>1 DEF Forgotten, Linking
    <3>2. CASE Counting(l)
      <4>1. PICK p \in streams : l = <<conv[p[1]], p[2]>>
        BY <3>2 DEF Counting
      <4>2. p[1] \in Topics /\ p[1] \in known
        BY DEF EInv, Table, StreamsHaveBuffers, Pairs
      <4>3. Forgotten(p[1])
        BY <2>2, <2>3, <4>1, <4>2
      <4>. QED BY <4>2, <4>3 DEF Forgotten, EInv, Table
    <3>3. at = "destroy" => l # Own
      BY DEF Order, Linked
    <3>. QED BY <3>0, <3>1, <3>2, <3>3 DEF Order, Linked, Linking
  <2>4. links' = links
    BY <2>1, <2>3
  <2>. QED BY <1>1, <1>3, <1>4, <1>5, <2>1, <2>4, OthersAsBefore
<1>6. CASE m.kind = "REQUEST"
  <2>1. links' = links /\ (window' = Tail(window) \/ Acks(m, "no"))
    BY <1>6, PassOnOrderly
  <2>. QED BY <1>1, <1>3, <1>4, <1>6, <2>1, OthersAsBefore
<1>7. CASE m.kind = "LINK"
  <2>1. Acks(m, "yes") /\ links' = links \cup {Own}
    BY <1>7, PassOnOrderly
  <2>2. at = "link"
    <3>1. Sort(m) \in Expected
      BY <1>1, <1>7, HeadOrderly
    <3>. QED BY <1>3, <1>7, <3>1 DEF Expected
  <2>3. Has({"yes"})'
    <3>1. /\ Len(window) \in Nat \ {0} /\ Len(window') = Len(window)
          /\ Sort(window'[Len(window)]) = "yes"
      BY <1>1, <1>7, <2>1, Acknowledges
    <3>2. Len(window) \in 1 .. Len(window')
      BY <3>1
    <3>. QED BY <3>1, <3>2 DEF Has
  <2>. QED BY <1>1, <1>2, <2>1, <2>2, <2>3 DEF Order, Linked, Linking
<1>8. CASE m.kind = "DELINK"
  <2>1. Acks(m, "yes") /\ links' = links \ {Own}
    BY <1>8, PassOnOrderly
  <2>2. at \in {"unwind", "delink"}
    <3>1. Sort(m) \in Expected
      BY <1>1, <1>8, HeadOrderly
    <3>. QED BY <1>3, <1>8, <3>1 DEF Expected
  <2>3. ~Has({"DELINK"})'
    <3>1. /\ Len(window) \in Nat \ {0} /\ Len(window') = Len(window) /\ m = window[1]
          /\ Sort(window'[Len(window)]) = "yes"
          /\ \A k \in 1 .. Len(window) - 1 :
               k + 1 \in 2 .. Len(window) /\ window'[k] = window[k + 1]
      BY <1>1, <1>8, <2>1, Acknowledges
    <3>2. \A k \in 2 .. Len(window) : window[k].kind = "CLOSE"
      <4>1. ASSUME NEW k \in 2 .. Len(window), window[k].kind # "CLOSE"
            PROVE  <<Sort(window[1]), Sort(window[k])>> \in Follows
        <5>1. 1 \in 1 .. Len(window) /\ k \in 1 .. Len(window) /\ 1 < k
          BY <3>1, <4>1
        <5>2. window[1].kind # "CLOSE"
          BY <1>8, <3>1
        <5>. QED BY <4>1, <5>1, <5>2 DEF Order, Ordered
      <4>2. Sort(window[1]) = "DELINK"
        BY <1>3, <1>8, <3>1
      <4>. QED BY <4>1, <4>2 DEF Follows
    <3>3. \A k \in 1 .. Len(window) - 1 : Sort(window'[k]) = "CLOSE"
      BY <3>1, <3>2 DEF Sort
    <3>4. \A k \in 1 .. Len(window') : k = Len(window) \/ k \in 1 .. Len(window) - 1
      BY <3>1
    <3>. QED BY <3>1, <3>3, <3>4 DEF Has
  <2>. QED BY <1>1, <1>2, <2>1, <2>2, <2>3 DEF Order, Linked, Linking
<1>. QED BY <1>1, <1>5, <1>6, <1>7, <1>8

LEMMA LinkedTaken ==
  ASSUME EInv, Order, TakeAck, orderly'
  PROVE  Linked'
<1>1. /\ UNCHANGED <<at, pair, streams, conv, links>>
      /\ window # <<>> /\ Sort(Head(window)) = "yes" /\ window' = Tail(window)
      /\ at \in Linking /\ answered'
  BY TakeAckOrderly DEF TakeAck, main, counts, convos, platform, Linking
<1>2. Own' = Own /\ \A l : Counting(l)' <=> Counting(l)
  BY <1>1 DEF Own, Counting
<1>3. Has({"DELINK"})' <=> Has({"DELINK"})
  BY <1>1, OthersAsBefore
<1>4. Has({"yes"})
  <2>1. Len(window) \in Nat \ {0} /\ Head(window) = window[1]
    BY <1>1, TailOf DEF EInv
  <2>. QED BY <1>1, <2>1 DEF Has
<1>. QED BY <1>1, <1>2, <1>3, <1>4 DEF Order, Linked, Linking

LEMMA LinkedKept ==
  ASSUME EInv, Order, Next, orderly'
  PROVE  Linked'
<1>a. streams \subseteq Pairs /\ \A p \in streams : p[1] \in known /\ p[1] \in Topics
  BY DEF EInv, Table, StreamsHaveBuffers, Pairs
<1>1. CASE Receive \/ RemoveAllStreams \/ AddStream \/ CreateTopic \/ PostItem
  BY <1>1, SameLinks
  DEF Receive, RemoveAllStreams, AddStream, CreateTopic, PostItem, Done, counts,
      convos, platform, Linking
<1>2. CASE PostLink
  BY <1>2, LinkPosted
<1>3. CASE ItemAnswered
  BY <1>3, ItemLinked
<1>4. CASE CreateBuffer
  <2>1. /\ at = "create" /\ UNCHANGED <<streams, conv, links>> /\ pair \in streams
        /\ (PostCloseItem /\ at' = "unwind") \/ at' \notin Linking
    BY <1>4 DEF CreateBuffer, Done, counts, convos, platform, Linking, EInv, Table
  <2>. QED BY <2>1, CloseItemPosted, SameLinks DEF Linking
<1>5. CASE Unwound \/ CloseItem \/ DestroyBuffer
  BY <1>5, ItemClosed
<1>6. CASE RemoveStream
  <2>1. /\ at = "begin" /\ UNCHANGED <<streams, conv, links>>
        /\ (PostCloseItem /\ at' = "delink" /\ pair \in streams) \/ at' \notin Linking
    BY <1>6 DEF RemoveStream, Done, CloseIfEmpty, convos, platform, Linking
  <2>. QED BY <2>1, CloseItemPosted, SameLinks DEF Linking
<1>7. CASE CloseTopic
  <2>1. /\ at = "close" /\ at' = "forget" /\ UNCHANGED <<conv, links>>
        /\ streams' = streams \ ItemsOf(pair[1]) /\ ItemsOf(pair[1]) = {}
    BY <1>7 DEF CloseTopic, convos, platform, EInv, Table
  <2>. QED BY <2>1, SameLinks DEF Linking
<1>8. CASE ForgetConversation
  <2>1. /\ at = "forget" /\ at' \notin Linking /\ UNCHANGED <<streams, links>>
        /\ conv' = [conv EXCEPT ![pair[1]] = NULL] /\ pair[1] \notin known
    BY <1>8 DEF ForgetConversation, RemoveTopic, Done, counts, platform, Linking,
                EInv, Table
  <2>2. \A p \in streams : conv'[p[1]] = conv[p[1]]
    BY <1>a, <2>1 DEF EInv, Convos
  <2>. QED BY <2>1, <2>2, SameLinks DEF Linking
<1>9. CASE WokenUp \/ RouteToBuffer \/ Written \/ FinishSignal
  <2>1. UNCHANGED <<at, pair, answered, streams, conv, links, window>>
    BY <1>9 DEF WokenUp, RouteToBuffer, Written, FinishSignal, main, counts, convos,
                platform
  <2>2. Own' = Own /\ \A l : Counting(l)' <=> Counting(l)
    BY <2>1 DEF Own, Counting
  <2>. QED BY <2>1, <2>2 DEF Order, Linked, Has
<1>10. CASE PassOn
  BY <1>10, LinkedPassedOn
<1>11. CASE TakeAck
  BY <1>11, LinkedTaken
<1>12. CASE \E t \in Topics : TopicAck(t)
  <2>1. PICK t \in Topics : TopicAck(t)
    BY <1>12
  <2>2. /\ at = "topic" /\ at' = at /\ UNCHANGED <<streams, links>> /\ t \notin known
        /\ conv' = [conv EXCEPT ![t] = Len(opened')]
    BY <2>1, TopicAckOrderly DEF TopicAck, Insert, main, counts
  <2>3. \A p \in streams : conv'[p[1]] = conv[p[1]]
    BY <1>a, <2>2 DEF EInv, Convos
  <2>. QED BY <2>2, <2>3, SameLinks DEF Linking
<1>. QED
  BY <1>1, <1>2, <1>3, <1>4, <1>5, <1>6, <1>7, <1>8, <1>9, <1>10, <1>11, <1>12,
     OrderlySteps

-----------------------------------------------------------------------------
LEMMA OInvKept ==
  ASSUME OInv, [Next]_vars
  PROVE  OInv'
<1>1. EInv'
  BY EInvKept DEF OInv
<1>2. ASSUME Next, orderly' PROVE Order'
  <2>1. EInv /\ Order
    BY <1>2, OrderlySteps DEF OInv
  <2>. QED
    BY <1>2, <2>1, FlaggedKept, ConversingKept, QueueOrderKept, OpenOrClosingKept,
       LinkedKept DEF Order
<1>3. ASSUME UNCHANGED vars, orderly' PROVE Order'
  <2>1. /\ UNCHANGED <<known, streams, buffers, pair, at, sid, woke, conv, topicOf>>
        /\ UNCHANGED <<window, inits, opened, open, links, flags, event, setting, answered>>
        /\ Order
    BY <1>3 DEF vars, counts, main, convos, platform, signals, OInv
  <2>2. Own' = Own
    BY <2>1 DEF Own
  <2>3. Flagged' /\ Conversing'
    BY <2>1, <2>2 DEF Order, Flagged, Conversing
  <2>4. Letters' /\ Ordered'
    BY <2>1 DEF Order, Letters, Expected, Ordered, Has
  <2>5. OpenOrClosing'
    BY <2>1 DEF Order, OpenOrClosing, Closings, Forgotten
  <2>6. Linked'
    BY <2>1, <2>2 DEF Order, Linked, Counting, Has
  <2>. QED BY <2>3, <2>4, <2>5, <2>6 DEF Order
<1>. QED BY <1>1, <1>2, <1>3 DEF OInv

LEMMA OrderlyInvariant == Spec => []OInv
BY InitOInv, OInvKept, PTL DEF Spec

-----------------------------------------------------------------------------
(* A wait of the main thread is ended only by an answer to what it waits   *)
(* for: no signal is left over from an earlier wait (SignalManager has one *)
(* event for all ids), as long as no wait has timed out, no item has been  *)
(* refused and the platform has not quit.                                  *)
THEOREM AnswersAreOwn == Spec => []OwnAnswer
<1>1. OInv => OwnAnswer
  BY DEF OInv, Order, Flagged, OwnAnswer
<1>. QED BY <1>1, OrderlyInvariant, PTL

(* Between the requests of an orderly exchange the platform sends the      *)
(* values of just the pairs that AddStream and RemoveStream count.         *)
THEOREM PlatformSendsWhatIsCounted == Spec => []LinkedAsCounted
<1>1. ASSUME OInv, orderly, at \in {"idle", "gone"}
      PROVE  {<<conv[p[1]], p[2]>> : p \in streams} = {l \in links : l[2] \notin BadItems}
  <2>1. \A l \in Handles \X Items : l \in links <=> Counting(l)
    BY <1>1 DEF OInv, Order, Linked, Linking
  <2>2. links \subseteq Handles \X Items
    BY <1>1 DEF OInv, EInv, Convos
  <2>3. ASSUME NEW p \in streams
        PROVE  <<conv[p[1]], p[2]>> \in Handles \X Items /\ p[2] \notin BadItems
    <3>1. p[1] \in known /\ p[1] \in Topics /\ p[2] \in Items
      BY <1>1 DEF OInv, EInv, Table, StreamsHaveBuffers, Pairs
    <3>2. conv[p[1]] \in Handles
      BY <1>1, <3>1 DEF OInv, Order, Conversing, EInv, Convos
    <3>. QED BY <1>1, <3>1, <3>2 DEF OInv, Order, Linked
  <2>. QED BY <2>1, <2>2, <2>3 DEF Counting
<1>2. OInv => LinkedAsCounted
  BY <1>1 DEF LinkedAsCounted
<1>. QED BY <1>2, OrderlyInvariant, PTL

(* CloseTopic leaves no conversation behind: once the queue is empty, those*)
(* that are open with the platform are those of the topics that are known. *)
THEOREM ClosedTopicsLeaveNothing == Spec => []NoConversationLeft
<1>1. ASSUME OInv, orderly, at \in {"idle", "gone"}, window = <<>>
      PROVE  open = {conv[t] : t \in known}
  <2>1. Closings = {}
    <3>1. Len(window) = 0
      BY <1>1
    <3>. QED BY <3>1 DEF Closings
  <2>2. \A t \in Topics : ~Forgotten(t) /\ (t \notin known => conv[t] = NULL)
    BY <1>1 DEF Forgotten, OInv, Order, Conversing
  <2>3. \A h \in Handles : h \in open <=> \E t \in Topics : conv[t] = h
    BY <1>1, <2>1, <2>2 DEF OInv, Order, OpenOrClosing
  <2>4. known \subseteq Topics /\ open \subseteq Handles
    BY <1>1 DEF OInv, EInv, Table, Convos
  <2>5. \A t \in known : conv[t] \in Handles
    BY <1>1, <2>4 DEF OInv, Order, Conversing, EInv, Convos
  <2>. QED BY <2>2, <2>3, <2>4, <2>5, NullAssumption
<1>2. OInv => NoConversationLeft
  BY <1>1 DEF NoConversationLeft
<1>. QED BY <1>2, OrderlyInvariant, PTL

(* Each side of convos is the other's inverse in an orderly exchange, and  *)
(* the topic of a window is always found again from where its topic is.    *)
THEOREM MapSidesMatch == Spec => []ConversationsMatch
<1>1. OInv => ConversationsMatch
  BY DEF OInv, Order, Conversing, EInv, Convos, ConversationsMatch
<1>. QED BY <1>1, OrderlyInvariant, PTL

(* HandleData never routes a value to the buffer of another topic than its *)
(* conversation was opened for; and between the requests of an orderly     *)
(* exchange the values of every stream reach its buffer.                   *)
THEOREM ValuesRoutedToOwnStream == Spec => []ValuesReachOwnStream
<1>1. ASSUME OInv, orderly, at = "idle", NEW p \in streams
      PROVE  p \in Routed(conv[p[1]], p[2])
  <2>1. p \in buffers /\ p[1] \in known /\ p[1] \in Topics /\ p = <<p[1], p[2]>>
    BY <1>1 DEF OInv, EInv, Table, StreamsHaveBuffers, Pairs
  <2>2. conv[p[1]] # NULL
    BY <1>1, <2>1 DEF OInv, Order, Conversing
  <2>3. topicOf[conv[p[1]]] = p[1]
    BY <1>1, <2>1, <2>2 DEF OInv, EInv, Convos
  <2>. QED BY <2>1, <2>3 DEF Routed
<1>2. OInv /\ NoValueAstray => ValuesReachOwnStream
  BY <1>1 DEF ValuesReachOwnStream, NoValueAstray
<1>. QED BY <1>2, OrderlyInvariant, ValuesStayWithTheirTopic, PTL
=============================================================================
