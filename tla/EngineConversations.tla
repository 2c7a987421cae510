------------------------- MODULE EngineConversations -------------------------
(***************************************************************************)
(* The engine process and the platform: how a request of a client becomes  *)
(* a stream (AddStream, RemoveStream, TestStream, RemoveAllStreams and     *)
(* what they call, in service/engine.cpp).                                 *)
(*                                                                         *)
(* The main thread takes one request at a time.  It opens a conversation   *)
(* for a topic and a link for an item by messages to the engine's window,  *)
(* and after each waits for an acknowledgement with a timeout.  The        *)
(* message thread (WndProc) passes the messages on to the platform and     *)
(* takes its acknowledgements and values in.  The two threads meet in the  *)
(* window's queue, in the signal manager, in convos, a TwoWayHashMap, and  *)
(* in the map of buffers, which buffer_mtx guards.                         *)
(*                                                                         *)
(* The platform answers what it is sent in order, sooner or later or, when *)
(* it quits, never.  An item it does not know gets a refusal when its      *)
(* value is requested and an acknowledgement when it is linked.            *)
(***************************************************************************)
EXTENDS SignalManager, Integers, Sequences

CONSTANTS
  Topics, Items,
  BadItems,       \* the items that the platform does not know
  NULL,           \* no window
  Asked,          \* bound: the pairs that clients ask for
  MaxRequests,    \* bound: requests of clients, a test for two
  MaxHandles,     \* bound: conversations the platform opens
  MaxQuits        \* bound: times the platform quits

ASSUME ItemsAssumption == BadItems \subseteq Items
ASSUME BoundsAssumption == {MaxRequests, MaxHandles, MaxQuits} \subseteq Nat

Pairs   == Topics \X Items
ASSUME AskedAssumption == Asked \subseteq Pairs

Handles == 1 .. MaxHandles
ASSUME NullAssumption == NULL \notin Handles

(* Acknowledgements are told apart by the topic, or by the conversation    *)
(* and the item.                                                           *)
AckIds == Topics \cup ((Handles \cup {NULL}) \X Items)
ASSUME IdsAssumption ==
  /\ NULL \notin AckIds
  /\ Topics \cap ((Handles \cup {NULL}) \X Items) = {}

VARIABLES
  known,      \* topic_refcounts: its topics,
  streams,    \*   the items of each, as pairs,
  count,      \*   and their counts
  buffers,    \* the pairs in buffers
  writing,    \* the one whose buffer the message thread is about to write
              \* a value to: it has buffer_mtx and waits for the buffer's
  op, pair,   \* the request the main thread is at, and its topic and item
  at,         \* where it is in that request
  sid,        \* the id it waits under
  woke,       \* how its wait ended
  todo,       \* RemoveAllStreams: the pairs left of its copies
  conv,       \* convos, from topic to window
  topicOf,    \* convos, from window to topic
  window,     \* the queue of the engine's window
  inits,      \* broadcasts that the platform has not dealt with
  opened,     \* history: the topic of each conversation the platform opened
  open,       \* the conversations that are open with the platform
  links,      \* the items it sends the values of, by conversation
  requests, quits,
  answered,   \* history: an answer was signalled for the flag
  orderly     \* history: no wait has timed out, no item has been refused
              \* and the platform has not quit

counts   == <<known, streams, count>>
main     == <<op, pair, at, sid, woke, todo>>
convos   == <<conv, topicOf>>
platform == <<inits, opened, open, links, quits>>
vars == <<counts, buffers, writing, main, convos, window, platform, signals,
          requests, answered, orderly>>

NoPair == <<>>
Waiting == {"topic", "link", "unwind", "delink"}  \* main is in wait_for
Where   == Waiting \cup {"idle", "begin", "post", "request", "create",
                         "destroy", "close", "forget", "gone"}

(* Messages of the window's queue and of the platform's.  The engine's own *)
(* messages for an item carry a pointer to a string of the main thread's,  *)
(* which is gone once the function that posted them has returned.          *)
Dangling == "dangling"
ASSUME DanglingAssumption == Dangling \notin Items \cup {NULL}

Message(kind, h, i) == [kind |-> kind, hwnd |-> h, item |-> i]
OwnKinds == {"REQUEST", "LINK", "DELINK"}
ItemsOf(t) == {p \in streams : p[1] = t}

Init ==
  /\ known = {} /\ streams = {} /\ count = [p \in Pairs |-> 0]
  /\ buffers = {} /\ writing = NoPair
  /\ op = "none" /\ pair = NoPair /\ at = "idle" /\ sid = NULL
  /\ woke = "awake" /\ todo = {}
  /\ conv = [t \in Topics |-> NULL] /\ topicOf = [h \in Handles |-> NULL]
  /\ window = <<>>
  /\ inits = [t \in Topics |-> 0]
  /\ opened = <<>> /\ open = {} /\ links = {} /\ quits = 0
  /\ SignalsInit(AckIds)
  /\ requests = 0
  /\ answered = FALSE
  /\ orderly = TRUE

-----------------------------------------------------------------------------
(***************************************************************************)
(* convos, the TwoWayHashMap of containers.hpp.                            *)
(***************************************************************************)

(* Mutant: only the first map is filled.                                   *)
InsertOneWay(t, h) ==
  /\ conv' = [conv EXCEPT ![t] = h]
  /\ UNCHANGED topicOf

(* _insert: the entries of t and of h are replaced; one that led from      *)
(* another window to t stays.                                              *)
Insert(t, h) ==
  /\ conv' = [conv EXCEPT ![t] = h]
  /\ topicOf' = [topicOf EXCEPT ![h] = t]

(* Mutant: only the first map is cleared.                                  *)
RemoveOneWay(t) ==
  /\ conv' = [conv EXCEPT ![t] = NULL]
  /\ UNCHANGED topicOf

RemoveTopic(t) ==
  /\ conv' = [conv EXCEPT ![t] = NULL]
  /\ topicOf' = [h \in Handles |-> IF h = conv[t] THEN NULL ELSE topicOf[h]]

-----------------------------------------------------------------------------
(***************************************************************************)
(* The main thread.                                                        *)
(***************************************************************************)

(* A request is dealt with; a test that could add goes on to remove.       *)
Done(good) ==
  IF op = "test" /\ good
  THEN /\ at' = "begin" /\ op' = "remove"
       /\ UNCHANGED pair
  ELSE /\ at' = "idle" /\ pair' = NoPair
       /\ op' = IF op = "stop" THEN "stop" ELSE "none"

(* RunMainCommLoop has a message for a stream, or the one to stop.         *)
Receive ==
  /\ at = "idle" /\ op = "none"
  /\ requests' \in requests + 1 .. MaxRequests
  /\ \/ /\ \/ op' \in {"add", "remove"} /\ requests' = requests + 1
           \/ op' = "test" /\ requests' = requests + 2
        /\ pair' \in Asked
        /\ at' = "begin"
        /\ UNCHANGED todo
     \/ /\ op' = "stop" /\ requests' = requests + 1
        /\ todo' = streams
        /\ UNCHANGED <<pair, at>>
  /\ UNCHANGED <<counts, buffers, writing, sid, woke, convos, window,
                 platform, signals, answered, orderly>>

(* set_signal_ID, and from then on the main thread will wait.              *)
Asks(id) ==
  /\ set_signal_ID(id)
  /\ sid' = id
  /\ woke' = "asleep"
  /\ answered' = FALSE

(* Its wait is over.  What wait_for is about to return, and its return:    *)
(* strings that posted messages point to are no more.                      *)
Awake == at \in Waiting /\ woke # "asleep"
Acked == Answer(sid, woke = "signalled")

Returns ==
  /\ Awake
  /\ Erase(sid)
  /\ sid' = NULL
  /\ woke' = "awake"
  /\ window' = [k \in DOMAIN window |->
                  IF window[k].kind \in OwnKinds
                  THEN [window[k] EXCEPT !.item = Dangling] ELSE window[k]]
  /\ UNCHANGED answered

(* Mutant: a stream that is there is shared without being counted again.   *)
RaisedOnce == [count EXCEPT ![pair] = 1]

Raised  == [count EXCEPT ![pair] = @ + 1]
Lowered == [count EXCEPT ![pair] = @ - 1]

(* AddStream, up to the first message.  A new topic is a broadcast.        *)
AddStream ==
  /\ at = "begin" /\ op \in {"add", "test"}
  /\ CASE pair[1] \notin known ->
            /\ Asks(pair[1])
            /\ inits' = [inits EXCEPT ![pair[1]] = @ + 1]
            /\ at' = "topic"
            /\ UNCHANGED <<op, pair, count>>
       [] pair[1] \in known /\ pair \notin streams ->
            /\ at' = "post"
            /\ UNCHANGED <<op, pair, count, sid, woke, answered, signals, inits>>
       [] OTHER ->
            /\ count' = Raised
            /\ Done(TRUE)
            /\ UNCHANGED <<sid, woke, answered, signals, inits>>
  /\ UNCHANGED <<known, streams, buffers, writing, todo, convos, window,
                 opened, open, links, quits, requests, orderly>>

(* CreateTopic, once wait_for returns.                                     *)
CreateTopic ==
  /\ at = "topic"
  /\ Returns
  /\ IF Acked
     THEN at' = "post" /\ known' = known \cup {pair[1]}
     ELSE at' = "close" /\ UNCHANGED known
  /\ UNCHANGED <<streams, count, buffers, writing, op, pair, todo, convos,
                 platform, requests, orderly>>

(* PostItem: the value is requested, then the item linked.                 *)
PostItem ==
  /\ at = "post"
  /\ Asks(<<conv[pair[1]], pair[2]>>)
  /\ window' = Append(window, Message("REQUEST", conv[pair[1]], pair[2]))
  /\ at' = "request"
  /\ UNCHANGED <<counts, buffers, writing, op, pair, todo, convos, platform,
                 requests, orderly>>

PostLink ==
  /\ at = "request"
  /\ window' = Append(window, Message("LINK", sid[1], pair[2]))
  /\ at' = "link"
  /\ UNCHANGED <<counts, buffers, writing, op, pair, sid, woke, todo, convos,
                 platform, signals, requests, answered, orderly>>

(* The rest of AddStream where its topic may have no item: it is closed.   *)
CloseIfEmpty(left) ==
  IF \E p \in left : p[1] = pair[1]
  THEN Done(FALSE)
  ELSE at' = "close" /\ UNCHANGED <<op, pair>>

(* The end of PostItem in CreateItem and CreateTopic.                      *)
ItemAnswered ==
  /\ at = "link"
  /\ Returns
  /\ IF Acked
     THEN /\ streams' = streams \cup {pair}
          /\ count' = [count EXCEPT ![pair] = 1]
          /\ at' = "create"
          /\ UNCHANGED <<op, pair>>
     ELSE /\ CloseIfEmpty(streams)
          /\ UNCHANGED <<streams, count>>
  /\ UNCHANGED <<known, buffers, writing, todo, convos, platform, requests,
                 orderly>>

(* PostCloseItem, up to its wait.                                          *)
PostCloseItem ==
  /\ Asks(<<conv[pair[1]], pair[2]>>)
  /\ window' = Append(window, Message("DELINK", conv[pair[1]], pair[2]))
  /\ UNCHANGED <<op, pair>>

(* Mutant: the buffer that could not be made leaves the item linked.       *)
CreateBufferLinked ==
  /\ at = "create" /\ writing = NoPair
  /\ \/ /\ pair \notin buffers
        /\ buffers' = buffers \cup {pair}
        /\ Done(TRUE)
        /\ UNCHANGED <<streams, count>>
     \/ /\ streams' = streams \ {pair}
        /\ count' = [count EXCEPT ![pair] = 0]
        /\ CloseIfEmpty(streams')
        /\ UNCHANGED buffers
  /\ UNCHANGED <<known, writing, sid, woke, answered, window, signals, todo,
                 convos, platform, requests, orderly>>

(* CreateBuffer, which takes buffer_mtx to look into buffers and again to  *)
(* insert.  In between only the system comes in, which may refuse memory   *)
(* or mutex: AddStream unwinds.                                            *)
CreateBuffer ==
  /\ at = "create" /\ writing = NoPair
  /\ \/ /\ pair \notin buffers
        /\ buffers' = buffers \cup {pair}
        /\ Done(TRUE)
        /\ UNCHANGED <<sid, woke, answered, window, signals>>
     \/ /\ PostCloseItem
        /\ at' = "unwind"
        /\ UNCHANGED buffers
  /\ UNCHANGED <<counts, writing, todo, convos, platform, requests, orderly>>

(* Mutant: the item is closed with the platform and stays counted.         *)
UnwoundHalf ==
  /\ at = "unwind"
  /\ Returns
  /\ CloseIfEmpty(streams)
  /\ UNCHANGED <<counts, buffers, writing, todo, convos, platform, requests,
                 orderly>>

(* AddStream after an item whose buffer could not be made was closed.      *)
Unwound ==
  /\ at = "unwind"
  /\ Returns
  /\ streams' = streams \ {pair}
  /\ count' = [count EXCEPT ![pair] = 0]
  /\ CloseIfEmpty(streams')
  /\ UNCHANGED <<known, buffers, writing, todo, convos, platform, requests,
                 orderly>>

(* RemoveStream, up to the first message.                                  *)
RemoveStream ==
  /\ at = "begin" /\ op \in {"remove", "stop"}
  /\ CASE pair \in streams /\ count[pair] = 1 ->
            /\ count' = Lowered
            /\ PostCloseItem
            /\ at' = "delink"
       [] pair \in streams /\ count[pair] # 1 ->
            /\ count' = Lowered
            /\ Done(TRUE)
            /\ UNCHANGED <<sid, woke, answered, window, signals>>
       [] pair[1] \in known /\ pair \notin streams ->
            /\ CloseIfEmpty(streams)
            /\ UNCHANGED <<count, sid, woke, answered, window, signals>>
       [] OTHER ->
            /\ Done(TRUE)
            /\ UNCHANGED <<count, sid, woke, answered, window, signals>>
  /\ UNCHANGED <<known, streams, buffers, writing, todo, convos, platform,
                 requests, orderly>>

(* Mutant: the reference is given up a second time.                        *)
CloseItemTwice ==
  /\ at = "delink"
  /\ Returns
  /\ count' = Lowered
  /\ at' = "destroy"
  /\ UNCHANGED <<known, streams, buffers, writing, op, pair, todo, convos,
                 platform, requests, orderly>>

(* CloseItem after the wait, whatever that returned.                       *)
CloseItem ==
  /\ at = "delink"
  /\ Returns
  /\ at' = "destroy"
  /\ UNCHANGED <<counts, buffers, writing, op, pair, todo, convos, platform,
                 requests, orderly>>

(* DestroyBuffer, once it has buffer_mtx, and the rest of RemoveStream.    *)
DestroyBuffer ==
  /\ at = "destroy" /\ writing = NoPair
  /\ buffers' = buffers \ {pair}
  /\ streams' = streams \ {pair}
  /\ CloseIfEmpty(streams')
  /\ UNCHANGED <<known, count, writing, sid, woke, answered, window, signals,
                 todo, convos, platform, requests, orderly>>

(* Mutant: the conversation is looked up when it is forgotten already.     *)
CloseTopicForgotten ==
  /\ at = "close"
  /\ window' = Append(window, Message("CLOSE", NULL, NULL))
  /\ known' = known \ {pair[1]}
  /\ streams' = streams \ ItemsOf(pair[1])
  /\ at' = "forget"
  /\ UNCHANGED <<count, buffers, writing, op, pair, sid, woke, todo, convos,
                 platform, signals, requests, answered, orderly>>

(* CloseTopic; the conversation may be acknowledged between its two reads  *)
(* of convos.                                                              *)
CloseTopic ==
  /\ at = "close"
  /\ window' = Append(window, Message("CLOSE", conv[pair[1]], NULL))
  /\ known' = known \ {pair[1]}
  /\ streams' = streams \ ItemsOf(pair[1])
  /\ at' = "forget"
  /\ UNCHANGED <<count, buffers, writing, op, pair, sid, woke, todo, convos,
                 platform, signals, requests, answered, orderly>>

ForgetConversation ==
  /\ at = "forget"
  /\ RemoveTopic(pair[1])
  /\ Done(FALSE)
  /\ UNCHANGED <<counts, buffers, writing, sid, woke, todo, window, platform,
                 signals, requests, answered, orderly>>

(* RemoveAllStreams goes through its copies; then the process ends.        *)
RemoveAllStreams ==
  /\ at = "idle" /\ op = "stop"
  /\ IF todo = {}
     THEN at' = "gone" /\ UNCHANGED <<pair, todo>>
     ELSE /\ \E p \in todo : pair' = p /\ todo' = todo \ {p}
          /\ at' = "begin"
  /\ UNCHANGED <<counts, buffers, writing, op, sid, woke, convos, window,
                 platform, signals, requests, answered, orderly>>

(* WaitForSingleObject in wait_for.                                        *)
WokenUp ==
  /\ at \in Waiting /\ woke = "asleep"
  /\ Wakes
  /\ woke' = "signalled"
  /\ UNCHANGED <<counts, buffers, writing, op, pair, at, sid, todo, convos,
                 window, platform, requests, answered, orderly>>

(* Mutant: only what a client waits for is waited for with a timeout.      *)
TimesOutAdding ==
  /\ at \in {"topic", "link"} /\ woke = "asleep"
  /\ ~event
  /\ woke' = "timed_out"
  /\ orderly' = FALSE
  /\ UNCHANGED <<counts, buffers, writing, op, pair, at, sid, todo, convos,
                 window, platform, signals, requests, answered>>

TimesOut ==
  /\ at \in Waiting /\ woke = "asleep"
  /\ ~event
  /\ woke' = "timed_out"
  /\ orderly' = FALSE
  /\ UNCHANGED <<counts, buffers, writing, op, pair, at, sid, todo, convos,
                 window, platform, signals, requests, answered>>

Main ==
  \/ AddStream \/ CreateTopic \/ PostItem \/ PostLink \/ ItemAnswered
  \/ CreateBuffer \/ Unwound \/ RemoveStream \/ CloseItem \/ DestroyBuffer
  \/ CloseTopic \/ ForgetConversation \/ RemoveAllStreams \/ WokenUp
  \/ TimesOut

-----------------------------------------------------------------------------
(***************************************************************************)
(* The platform.  How long it takes to answer is how long its answer is in *)
(* the window's queue.                                                     *)
(***************************************************************************)
Drops ==
  /\ window' = Tail(window)
  /\ UNCHANGED <<open, links>>

Acks(m, flag) ==
  window' = Append(Tail(window), [kind |-> "ACK", hwnd |-> m.hwnd,
                                  item |-> m.item, flag |-> flag])

(* What it does with a message for one of its conversations.               *)
Serves(m) ==
  CASE m.kind = "REQUEST" ->
         /\ IF m.item \in BadItems THEN Acks(m, "no") ELSE window' = Tail(window)
         /\ UNCHANGED <<open, links>>
    [] m.kind = "LINK" ->
         /\ Acks(m, "yes")
         /\ links' = links \cup {<<m.hwnd, m.item>>}
         /\ UNCHANGED open
    [] m.kind = "DELINK" ->
         /\ Acks(m, "yes")
         /\ links' = links \ {<<m.hwnd, m.item>>}
         /\ UNCHANGED open
    [] m.kind = "CLOSE" ->
         /\ open' = open \ {m.hwnd}
         /\ links' = {l \in links : l[1] # m.hwnd}
         /\ window' = Tail(window)

(* It quits, and may be started again; what WndProc is told of that it     *)
(* leaves to DefWindowProc.                                                *)
Quit ==
  /\ quits < MaxQuits
  /\ quits' = quits + 1
  /\ inits' = [t \in Topics |-> 0]
  /\ open' = {} /\ links' = {}
  /\ orderly' = FALSE
  /\ UNCHANGED <<counts, buffers, writing, main, convos, window, opened,
                 signals, requests, answered>>

-----------------------------------------------------------------------------
(***************************************************************************)
(* The message thread; it ends with the process.                           *)
(***************************************************************************)
Running == at # "gone" /\ ~setting /\ writing = NoPair

(* WndProc passes one of the engine's own messages on, if the window it is *)
(* for is open, and the platform deals with it.  Where the string of the   *)
(* item is no more, what is read may be an item or no item at all.         *)
PassOn ==
  /\ Running /\ window # <<>> /\ Head(window).kind # "ACK"
  /\ LET m == Head(window) IN
     IF m.hwnd \in open
     THEN IF m.item = Dangling
          THEN \/ Drops
               \/ \E i \in Items : Serves([m EXCEPT !.item = i])
          ELSE Serves(m)
     ELSE Drops
  /\ UNCHANGED <<counts, buffers, writing, main, convos, inits, opened, quits,
                 signals, requests, answered, orderly>>

(* The signal to the main thread, which may have had one, or be gone.      *)
Signals(id, secondary) ==
  /\ signal(id, secondary)
  /\ answered' = (answered \/ flags[id] # Unset)
  /\ orderly' = (orderly /\ secondary = "yes")

(* WM_DDE_ACK for an item.                                                 *)
TakeAck ==
  /\ Running /\ window # <<>> /\ Head(window).kind = "ACK"
  /\ Signals(<<Head(window).hwnd, Head(window).item>>, Head(window).flag)
  /\ window' = Tail(window)
  /\ UNCHANGED <<counts, buffers, writing, main, convos, platform, requests>>

(* WM_DDE_ACK for a topic.  The platform opens a conversation and sends    *)
(* the acknowledgement, which does not queue.                              *)
TopicAck(t) ==
  /\ Running /\ inits[t] > 0 /\ Len(opened) < MaxHandles
  /\ inits' = [inits EXCEPT ![t] = @ - 1]
  /\ opened' = Append(opened, t)
  /\ open' = open \cup {Len(opened')}
  /\ Insert(t, Len(opened'))
  /\ Signals(t, "yes")
  /\ UNCHANGED <<counts, buffers, writing, main, window, links, quits,
                 requests>>

(* HandleData: the buffer that takes a value of item i from conversation h, *)
(* if there is one.                                                        *)
Routed(h, i) == buffers \cap {<<topicOf[h], i>>}

(* RouteToBuffer has a value.  It keeps buffer_mtx from its look into      *)
(* buffers to the end, and waits for the mutex that the buffer shares with *)
(* the clients.                                                            *)
RouteToBuffer ==
  /\ Running
  /\ \E h \in Handles, i \in Items : \E p \in Routed(h, i) : writing' = p
  /\ UNCHANGED <<counts, buffers, main, convos, window, platform, signals,
                 requests, answered, orderly>>

(* It got that mutex, writes, and gives both up.  It never gets it from a  *)
(* client that has died inside (SharedBuffer).                             *)
Written ==
  /\ at # "gone" /\ writing # NoPair
  /\ writing' = NoPair
  /\ UNCHANGED <<counts, buffers, main, convos, window, platform, signals,
                 requests, answered, orderly>>

FinishSignal ==
  /\ at # "gone"
  /\ SetEvent
  /\ UNCHANGED <<counts, buffers, writing, main, convos, window, platform,
                 requests, answered, orderly>>

Next ==
  \/ Receive \/ Main
  \/ PassOn \/ TakeAck \/ RouteToBuffer \/ Written \/ FinishSignal
  \/ \E t \in Topics : TopicAck(t)
  \/ Quit

(* The main thread runs when it can, and its waits for an answer end.  Of  *)
(* buffer_mtx it is sure only to get it when the message thread gives it   *)
(* up again and again: it need not be free at the moment main asks.        *)
Fairness == WF_vars(Main) /\ SF_vars(CreateBuffer \/ DestroyBuffer)

Spec == Init /\ [][Next]_vars /\ Fairness

-----------------------------------------------------------------------------
(* Correctness                                                             *)

Messages ==
  [kind : OwnKinds, hwnd : Handles \cup {NULL}, item : Items \cup {Dangling}]
    \cup [kind : {"CLOSE"}, hwnd : Handles \cup {NULL}, item : {NULL}]
    \cup [kind : {"ACK"}, hwnd : Handles, item : Items, flag : {"yes", "no"}]

(* The only flag is the one the main thread waits for: set_signal_ID finds *)
(* its id free and wait_for finds it taken.  The buffer that is written to *)
(* is there.                                                               *)
TypeOK ==
  /\ known \subseteq Topics /\ streams \subseteq Pairs /\ buffers \subseteq Pairs
  /\ writing \in buffers \cup {NoPair}
  /\ count \in [Pairs -> Nat]
  /\ op \in {"none", "add", "remove", "test", "stop"} /\ at \in Where
  /\ pair \in IF at \in {"idle", "gone"} THEN {NoPair} ELSE Pairs
  /\ sid \in AckIds \cup {NULL}
  /\ sid # NULL <=> at \in Waiting \cup {"request"}
  /\ woke \in {"awake", "asleep", "signalled", "timed_out"}
  /\ todo \subseteq Pairs
  /\ conv \in [Topics -> Handles \cup {NULL}]
  /\ topicOf \in [Handles -> Topics \cup {NULL}]
  /\ window \in Seq(Messages)
  /\ inits \in [Topics -> Nat] /\ opened \in Seq(Topics)
  /\ Len(opened) <= MaxHandles
  /\ open \subseteq Handles /\ links \subseteq Handles \X Items
  /\ flags \in [AckIds -> FlagValues]
  /\ \A id \in AckIds : flags[id] # Unset <=> id = sid
  /\ {event, setting, answered, orderly} \subseteq BOOLEAN
  /\ requests \in 0 .. MaxRequests /\ quits \in 0 .. MaxQuits

(* Between requests the engine has a buffer for each pair it counts and    *)
(* for no other, and no topic without items; while it makes or gives up a  *)
(* stream, only that one differs.  Every way that AddStream unwinds and    *)
(* RemoveStream goes on after an error ends there.                         *)
StreamsHaveBuffers ==
  /\ buffers \subseteq streams
  /\ \A p \in streams \ buffers : at \in {"create", "unwind"} /\ p = pair
  /\ \A p \in streams :
       /\ p[1] \in known
       /\ count[p] = 0 => at \in {"delink", "destroy"} /\ p = pair
  /\ \A p \in Pairs \ streams : count[p] = 0
  /\ \A t \in known : ItemsOf(t) = {} => at # "idle" /\ pair[1] = t

(* A wait of the main thread is ended only by an answer to what it waits   *)
(* for, as long as no wait has timed out, no item has been refused and the *)
(* platform has not quit.                                                  *)
OwnAnswer ==
  orderly /\ (event \/ setting \/ woke = "signalled") => answered

(* Between requests, and under the same condition, the platform sends the  *)
(* values of just the pairs the engine counts; so no item that it refuses  *)
(* has a stream.                                                           *)
LinkedAsCounted ==
  orderly /\ at \in {"idle", "gone"} =>
    {<<conv[p[1]], p[2]>> : p \in streams} = {l \in links : l[2] \notin BadItems}

(* No conversation is left open with the platform for a topic that the     *)
(* engine has closed.                                                      *)
NoConversationLeft ==
  orderly /\ at \in {"idle", "gone"} /\ window = <<>> =>
    open = {conv[t] : t \in known}

(* A value never reaches the buffer of another topic than that its         *)
(* conversation was opened for; and between requests the values of every   *)
(* stream reach its buffer, as long as no wait has timed out, no item been *)
(* refused and the platform has not quit.                                  *)
ValuesReachOwnStream ==
  /\ \A h \in Handles, i \in Items : \A p \in Routed(h, i) : p[1] = opened[h]
  /\ orderly /\ at = "idle" =>
       \A p \in streams : p \in Routed(conv[p[1]], p[2])

(* The map's two sides are each other's inverse, as size() in              *)
(* containers.hpp expects, unless a conversation was acknowledged late.    *)
ConversationsMatch ==
  /\ \A t \in Topics : conv[t] # NULL => topicOf[conv[t]] = t
  /\ orderly => \A h \in Handles : topicOf[h] # NULL => conv[topicOf[h]] = h

(* Every request is dealt with, whatever the platform does or fails to do, *)
(* unless the main thread waits for ever for buffer_mtx, in CreateBuffer   *)
(* or DestroyBuffer, because the message thread waits for ever, with       *)
(* buffer_mtx, for the mutex of a buffer.  Nothing else holds it up.       *)
HeldUp == at \in {"create", "destroy"} /\ writing # NoPair

EveryRequestAnswered ==
  (at # "idle" \/ op = "stop") ~>
    (at = "gone" \/ (at = "idle" /\ op = "none") \/ []HeldUp)

(* Requests change the counts as StreamCounts says.                        *)
Undecided ==
  \/ op \in {"add", "test"} /\ at \in {"begin", "topic", "post", "request",
                                       "link", "create"}
  \/ op = "remove" /\ at = "begin"
Counted   == [p \in Pairs |->
                IF at \in {"create", "unwind"} /\ p = pair THEN 0 ELSE count[p]]
Asking    == IF Undecided THEN [op |-> op, pair |-> pair] ELSE [op |-> "none"]
Stopped   == op = "stop"
Remaining == todo \cup IF op = "stop" /\ at = "begin" THEN {pair} ELSE {}
Counts == INSTANCE StreamCounts WITH
  refs <- Counted, request <- Asking, stopped <- Stopped, remaining <- Remaining
CountsSpec == Counts!Spec
=============================================================================
