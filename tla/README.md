# TOSDataBridge: a verification development

TOSDataBridge carries live data of the TOS trading platform from a Windows
service to programs in C++, Python and Java.  This directory holds TLA+ models of
its parts, the TLC runs that check them on small instances, and TLAPS proofs of
what matters most for every instance.  `PROJECT.json` lists the components, the
runs, the source lines each definition models, the hazards and the theorems.

Paths below are relative to the repository; `engine.cpp` is
`src/service/engine.cpp`, `client_admin.cpp` and `client_get.cpp` are under
`src/client/`, `_win.py` is `python/tosdb/_win.py`.

## 1. The system

    TOS platform --DDE--> engine process --shared memory--> client library --> application
                             ^   ^                              |
                       service   +-------- named pipes ---------+

| component | state | operations | interacts with |
|---|---|---|---|
| **engine streams** (`engine.cpp`) | `topic_refcounts`, `buffers` | AddStream, RemoveStream, RemoveAllStreams, TestStream | asked by clients over the pipe, one message at a time; opens conversations, creates buffers |
| **engine DDE conversations** (`engine.cpp`) | `convos`, the message window | CreateTopic, CreateItem, PostItem, PostCloseItem, CloseTopic, HandleData | main thread posts to the message thread and waits for acknowledgements |
| **signal manager** (`concurrency.cpp`) | flags by id, one auto-reset event | set_signal_ID, wait_for, signal | between the engine's two threads |
| **shared memory buffer** (`engine.cpp`, `client_admin.cpp`) | header, ring of elements, named mutex | CreateBuffer, RouteToBuffer, DestroyBuffer; _captureBuffer, _extractFromBuffer, _releaseBuffer | one writer thread, one reader thread per client process |
| **client blocks** (`client_admin.cpp`, `raw_data_block.tpp`) | `dde_blocks`, local `buffers`, pre-caches, a stream for each (topic, item) | CreateBlock, Add, RemoveTopic, RemoveItem, CloseBlock, DllMain | ADD and REMOVE messages to the engine |
| **client connection** (`client_admin.cpp`) | `aware_of_connection`, `buffer_thread` | Connect, Disconnect, the extraction loop's probes | pipe probes |
| **data stream** (`data_stream.tpp`) | two deques, bound, count, marker, dirty flag | push, bound_size, copy..., copy_from_marker, ncopy_from_marker | pushed to by the extraction thread, read by the application |
| **get API** (`client_get.cpp`, `raw_data_block.tpp`) and **Python block** (`_win.py`) | none; several stream operations per call | get, stream_snapshot, stream_snapshot_from_marker, n_from_marker | the stream, whose state moves between two operations |
| **IPC** (`ipc.cpp`) | main pipe, probe pipe, a named mutex | call, recv, send, connected | clients and engine |
| **stream types** (`tos_databridge.h`, `data_stream.hpp`) | none | the type bits of a topic, the switches on them, the chain of casts | engine, buffer, stream and application must agree on them |
| **service** (`service.cpp`) | service status, two flags | start, pause, continue, stop | spawns and signals the engine |
| **Python virtual layer** (`python/tosdb/__init__.py`) | served blocks, sockets | calls forwarded to another host | Python block |
| **Python intervals, streaming** (`ohlc.py`, `streaming.py`) | intervals by time | n_from_marker in a loop; merge of several streams | Python block |
| containers, generic values, logging, shell, Java binding | values, output | | |

What is hard in it:

* *Two processes in one piece of memory.*  A client looks at the header without the
  mutex, and never waits for it; the writer waits without a time limit.  Processes die
  inside the mutex.  Position and loop counter are two words, and the counter wraps.
* *A reader that resumes.*  The marker moves with every push, and with every read;
  whether a value was lost is known only from a flag that several operations set.
  A caller sizes its array in one call and fills it in another, while values arrive.
* *Counting by messages.*  A call on a block is a series of messages, each of which may
  fail on its own; calls of several clients mix; processes leave without a word.
* *Two threads in the engine* that answer each other through one event, with time limits,
  and share the map of buffers under one lock, without any.

What makes each part correct: a stream holds the newest values, and a reader is
given every value once or told that some were lost; a buffer delivers what was
written, in order, and lives while anybody reads it; the engine's count of a pair is the
number of streams that use it; the pre-cache holds what a block without streams still
knows; the conversations end in the state their last acknowledgement says; a client
that believes it is connected is.

## 2. Plan

The modules, in the order they were planned; all that are named are written.

1. `MarkerLog` - what a resuming reader is promised; `DataStream` - the stream,
   shown to implement it.
2. `StreamApi`, `StreamClient` (each extends the one before, from `DataStream` on) - the
   calls of the library, and those of an application that take several; `StreamTypes` - the
   type a value has on its way.
3. `ValueFeed` - what the readers of a buffer are promised; `SharedBuffer` - one buffer, its writer
   and its readers, shown to implement it.
4. `BlockStreams` - blocks of several clients and the engine's counts.
5. `SignalManager`, extended by `EngineConversations` - requests, conversations and the
   platform; `StreamCounts` - what the engine promises of a request, which is what
   `BlockStreams` takes the engine for.
6. `Connection` - service, engine, clients, and the pipes between them.
7. The modules of proofs (section 5).

What is left:

* Buffers across a restart: `Connection` restarts the engine, and `SharedBuffer` has the
  memory that a client keeps mapped, but no module has both.
* `SharedBuffer` and `BlockStreams` composed, so that the extraction thread pushes
  into the streams of a block.  The interface between the two is checked on either side
  (`ServedWhileCaptured`, `CapturedInTable`); their product is beyond TLC at the present bounds.
* Open-high-low-close intervals from n-from-marker reads (`ohlc.py`), and the time-ordered
  merge of `streaming.py`.

## 3. What is modelled

### DataStream, MarkerLog

One stream of one pair.  Every method of `DataStream<>` holds the stream's mutex from
its first read to its last write, so a method is one action: `Push`, `BoundSize`, `Copy`,
`Vector`, `At`, `LeaveMarker`, `CopyFromMarker`, `NCopyFromMarker`.  `deque`, `stamps`, `qbound`,
`qcount`, `mark`, `dirty` are the class's fields.  A value is the number of its push.
`pushed`, `cursor` and `out` are history: how many arrived, up to which the reader is
done, and what the last read found and returned.  The three shapes of copy (numbers,
strings, strings with stamps) differ at single indices, and are kept apart.

`MarkerLog` is the promise of README_API.md:587, "pick up where the last ... call
ended": a log, a cursor, and a floor below which nothing can be resumed.  A read
delivers everything since the cursor, or says that it does not.
`RefinesLog` maps the stream to it: `floor` is `pushed - mark - 1`.

### StreamApi, StreamClient

`StreamApi` says which operation of the stream each call of client_get.cpp and each
method of RawDataBlock is: the getters of a value, of a snapshot, from the marker, and the
frames (one value of each stream of a block, which must not move any marker).

`StreamClient` has the calls of an application, each a series of those operations between which
only pushes come: every C call holds `GLOBAL_RLOCK`, and a `TOSDB_ThreadSafeDataBlock` its own lock
for the whole call.  `req` is the call under way and what it has read so far (`at` is
`pushed` when the room was chosen), `answer` what it gave back.  `CallFromMarker`,
`CheckDirty`, `ReadPosition`, `CopyMarked` are `stream_snapshot_from_marker` and
`n_from_marker`; `CallGet`, `ReadAt`, `CallSnapshot`, `CopySnapshot` are `get` and
`stream_snapshot`; `CallPair`, `PairValues`, `PairStamps` the C++ snapshot of generic values and
stamps (only in `GenericSpec`); `Look` a frame, `Arrival` a push by the extraction thread.

### StreamTypes

No state: the switches on the type bits of a topic (which stream is made, how much room an
element has, what is parsed, extracted, and read from Python or C++) and the two chains of
casts between the overloads of `push` and `copy`, as functions.  Its three named assumptions
are what these are for, and TLC evaluates them in every run of `MCStreamClient`:
`CopyNeverNarrows` and `PushNeverNarrows` (a number is passed on only to types of its
own family, never to a narrower one) and `SwitchesAgree` (the switches say the same type for
every combination of bits that occurs, and a value fits its element).

### SharedBuffer, ValueFeed

One buffer: `loop_seq`, `next_offset` and `mem` are the mapping with the code's byte
offsets, `writer` the place of the engine's message thread in RouteToBuffer (`Arrive`,
`Wait`, `Put`, `Loop`), `reader[c]` the place of client c's thread in _extractFromBuffer (`Peek`,
`TryLock`, `Extract`).  `Add`, `Capture`, `Release`, `Remove` are the four steps of a client's use of
the pair, with the engine's creation and destruction of the buffer.  `Die` ends a client
anywhere.  From Windows the model takes this: a mutex whose owner ends is handed, as
abandoned, to the next that waits for it, who then owns it (`HandOver`; a waiting engine
gets a released mutex at once); an owner that waits again owns it twice (`stuck`); a section
and a mutex keep their names while the engine has a handle.

`ValueFeed` is the promise, without mapping, offsets, loops or mutex: values are sent, readers come and
go, and a `Fetch` gives a reader the newest of what it has not had, in order, as many as there is
room for.  In `FeedSpec` a value is sent when it is put into the ring, `readers` are the clients that have
captured the buffer, and `cursor` is `seen`: the number of the last write that the header showed the
reader when it was last inside.  All other steps (peeks, waits, the loop, hand-overs of the mutex,
deaths inside and outside of it, re-creation of the buffer) give nobody anything.

### BlockStreams

Several processes with blocks, and the engine's `topic_refcounts` (`refs`).  `topics[b]` and
`items[b]` are the block's table (raw_data_block.tpp), `captured[b]` the pairs whose local
buffer lists the block.  A call is `call[c]`: `Add` (and its wrappers `AddTopics`, `AddItems`)
computes the pairs to ask for as the code does,
from arguments, pre-cache and table; then, one message at a time, `AddOne` or
`AddOneFails`, and `Capture`.  `RemoveTopic`, `RemoveItem` and `CloseBlock` go through `RemoveOne`
to `RemoveEnds` or `CloseEnds`.  `Detach` is DllMain's DLL_PROCESS_DETACH, all of its REMOVE messages
in one step (each is for another pair, so that it makes no difference what others do in between), `Die` one where some of them fail, or
the end of a process that sends nothing.  `RemoveOrphanedStream` is the call a user may make for references
that nobody will give back, as its documentation demands, and only for these.
`missed` (pairs an ADD of which failed) and `left`
(the references nobody will give back) are history.  The order of the pairs within
a loop, which is that of a std::set, is left open.  A process that is not connected is one
whose messages fail.  `GetTopicNames` and its like are what a block tells of itself.

### EngineConversations, SignalManager, StreamCounts

The engine's two threads and the platform.  `known`, `streams`, `count` are
`topic_refcounts`, `buffers` the map of buffers, `conv` and `topicOf` the two sides of `convos`
(`Insert`, `RemoveTopic` of containers.hpp).  The main thread is at `at` in request `op`
for `pair`: `Receive` takes a message from the pipe; `AddStream`, `CreateTopic`, `PostItem`,
`PostLink`, `ItemAnswered`, `CreateBuffer`, `PostCloseItem`, `Unwound`, `RemoveStream`, `CloseItem`,
`DestroyBuffer`, `CloseTopic`, `ForgetConversation` are its steps between two points where the other thread can see
or change something, and `RemoveAllStreams` the loop at shutdown.  `WokenUp`, `TimesOut` and
`Returns` are the two ends of a wait, and what follows it.  The message thread is `PassOn` (the engine's own
messages, on to the platform), `TakeAck`, `TopicAck` and `FinishSignal`, and for a value
`RouteToBuffer` and `Written`.

Between these two the message thread has `buffer_mtx` (`writing` is the pair whose buffer it is at) and waits without a time
limit for the mutex that the buffer shares with its clients, engine.cpp:980.  `CreateBuffer` and `DestroyBuffer`
take `buffer_mtx` too, also without a time limit, and so wait for `writing = NoPair`.  How long the message thread waits, and that
it may be for ever, is `SharedBuffer`'s: here `Written` may happen or not.

`SignalManager` keeps the three steps that concurrency.cpp does not do under one lock apart: the
event wakes the waiter, the waiter reads the flag, and the signaller sets the event after it
has written the flag.

A message for an item carries a pointer to a string of the main thread.  When that has gone on,
the item is `Dangling`, and the message thread then reads some item, or none (`Serves`).

The platform is external: it answers in order, late or never, opens a conversation for each
broadcast it gets to (`inits`, `opened`, `open`), refuses the value of a `BadItems` item and
acknowledges its link (as engine.cpp:809 has it; an item that is bad and that the platform only ever acknowledges, README_DETAILS.md:71,
is to the engine an item as any other, and has a stream), and may `Quit`, when all that is open is lost without the engine's
hearing of it (WM_DDE_TERMINATE goes to DefWindowProc).

`StreamCounts` is the promise: a request raises or lowers the count of its own pair once, or
is refused and changes nothing.  In the mapping a pair counts from when its
buffer is made, not from the moment the code raises the number, since what comes in between
is undone if there is no buffer.

### Connection

`engine` is where WinMain and RunMainCommLoop are, `pipe` who has the main pipe's one instance,
`call[p]` where a caller is in IPCMaster::call: `Probe`, `Connects`, `GivesUp` (its wait for the pipe
ends), `Broken` (the engine is gone).  `Open`, `OpenFails`, `EnterLoop`, `WaitForMaster`,
`Handle`, `Reply`, `DropMaster`, `Leave` are the engine's steps and `Crash` its end from outside.
`Start`, `Running`, `Watch`, `ForceExit`, `Stopped` are ServiceMain; `Control`, `Pending`, `Resumed`,
`Controlled` the handler of controls, which runs at the same time and sends messages as any caller.
`Connect`, `NoteThread`, `Disconnect`, `Request`, `RequestReturns` are a client's own thread;
`FirstProbe`, `Check`, `Ending`, `Finish` its connection thread.  That TOSDB_Connect stores the
handle of the thread after making it is a step of its own.  `handled`, `answered`, `killed` are history.
A client's requests are all alike here; what they do is `EngineConversations`.

## 4. Runs

| run | checks | shows | distinct states |
|---|---|---|---|
| `data_stream` | TypeOK, HoldsNewest, DirtyIsLoss, ResumesExactly, NegativeIsExplained, NFromMarkerKeepsTheRest | the deques hold the newest values through pushes and resizes; the dirty flag is set exactly when an unread value fell off; a non-negative from-marker size means nothing is missing, a negative one is explained; reading n at a time loses nothing | 55 107 |
| `stream_client` | ClientTypeOK, RaisesOnlyForLoss, NoSilentLoss, SnapshotFull, NoneIsCaughtUp, RefinesLog | calls of several steps keep those promises while values arrive in between; the stream implements the marker log | 531 337 |
| `shared_buffer` | TypeOK, ServedWhileCaptured, OneInside, RingHoldsNewest, ReadsInOrder, FeedSpec, CatchesUp | a reader gets each value that is not overwritten once and in order, whatever the writer's loop, at every step of every process, and catches up | 598 294 |
| `block_streams` | TypeOK, CapturedInTable, OneOfThree, TableIsCaptured, ReferencesAccounted, NothingForgotten | calls of two processes mixed message by message, with failures: counts are exact, streams are read, the pre-cache excludes streams, and no name is forgotten on its way between the two | 2 164 883 |
| `engine_conversations` | TypeOK, StreamsHaveBuffers, OwnAnswer, LinkedAsCounted, NoConversationLeft, ValuesReachOwnStream, ConversationsMatch, CountsSpec | whatever times out, comes late or quits, table and buffers go together and requests change the counts as promised; in an orderly exchange an answer ends its own wait and the platform sends just what is counted | 1 733 512 |
| `engine_requests` | EveryRequestAnswered | whatever times out or quits, and however many values come, each request, a stop too, comes to its end, unless the message thread never gives `buffer_mtx` up again | 102 121 |
| `connection` | TypeOK, CallsHandledOnce, PausedAsSaid, OneThread, LossIsNoticed, ServiceEnds | calls are handled once or not at all; the service's status is the engine's; there is one connection thread, and both sides notice when the other is gone | 354 895 |
| `n_from_marker_negative` | NFromMarkerNegativeIsDirty | *violated*, see below | |
| `generic_snapshot_torn` | PairMatches | *violated* | |
| `raise_moves_marker` | RaiseKeepsMarker | *violated* | |
| `buffer_mutex_abandoned` | KeepsWriting | *violated* | |
| `refused_add_steals` | ReadersAreCounted | *violated* | |

What the violated ones show of the code:

* `n_from_marker_negative`: README_API.md:619 says a negative size means the stream is
  dirty.  ncopy_from_marker also negates it when an indexed read left the marker
  past the occupied slots.
* `generic_snapshot_torn`: the C++ snapshot of generic values with stamps reads values and
  stamps in two operations; a push in between shifts one against the other
  (README_API.md:580, "matching DateTimeStamps").
* `raise_moves_marker`: `_win.py:782` checks the flag first "so we don't move marker if
  dirty"; the stream may get dirty between the check and the copy, and then the call
  raises after it moved the marker.
* `buffer_mutex_abandoned`: a client that dies inside the mutex leaves it to the next client's
  poll as WAIT_ABANDONED, which bails as from a busy mutex, though it now owns it.  The
  engine's only writer thread waits for it for ever.  It has `buffer_mtx` meanwhile, so that the
  next request that makes or destroys a buffer does not return, nor does any after it: the case that `EveryRequestAnswered` excepts.
* `refused_add_steals`: a pair whose ADD failed is in the block if its topic and its item
  are by other pairs; it is given back with them.  That is another client's reference, and the
  engine destroys the buffer under it.

Not a finding, though the model has it: the acknowledgement of a bad item's link may overwrite the
refusal of its value (concurrency.cpp:151) before the main thread reads the flag (line 136), and the item then has a stream.
engine.cpp:809 calls the order of the two messages no more than a chance, and README_DETAILS.md:71 leaves bad
items to the user.  What the order does achieve is in `LinkedAsCounted`: it fails if the link is posted first.

### Bounds, and why they are enough

* `MaxBound` 3 (2 in two violation runs), `MaxPush` 4 and 5: a stream that fills, overflows
  past its marker and is resized on either side; two more values than fit between two steps of a call.
  `Sizes` 0 to 4: no room, less than, as much as and more than is there; of block sizes
  the calls let only 1 to `MaxBound` through.
* `Margin` 1: less and more than the margin arrives within `MaxPush`.
* `Slots` 2, `HeadSz` 1, `ElemSz` 2: the smallest ring with a middle.  `SeqMod` 3 stands for
  2^32 and makes the counter wrap within `MaxWrites` 7.  The model's writer does not loop `SeqMod`
  times between two reads, which with 2^32 loops of a page of elements no client is
  late enough for; and a client does not capture a buffer right before the counter wraps
  to its initial value.  `MaxDeaths` 1: one process that owned the mutex, one that inherits it.
* `BlockStreams`: two processes, two blocks (in one process, or one in each), two topics and two
  items are the least in which a call has new topics and old items, old topics and new items,
  and a pair that is in the table only by others.  `MaxFaults` 1: one message fails or one
  process dies; a second fault multiplies the states without a new kind of behaviour, and the
  properties speak of each pair by itself.
* `EngineConversations`: `Asked` has two items of one topic, one of them unknown to the platform,
  and an item of a second topic: a topic that stays when one of its items goes, and one that goes
  with its item.  `MaxRequests` 3 (a test, which adds and removes, counts as two): enough
  to add, fail and add again under late answers to the first.  `MaxHandles` 2: a second conversation
  for a topic after the first was given up.  `MaxQuits` 1: a platform that comes back.
  `engine_requests` has `MaxRequests` 2: what a request waits for is its own, and the one before it
  leaves late answers, a wrong signal and values for the buffers it made.
* `Connection`: one client, since to a caller the service is another one that takes the pipe;
  `MaxThreads` 2 connections, `MaxCalls` 1, `MaxControls` 2 (a pause before the stop), `MaxStarts` 2,
  `MaxCrashes` 1: a restart after a crash in each place, with what is left of before.

The runs without deadlock checking really stop: clients are gone and no more values arrive
(`SharedBuffer`, `BlockStreams`), the engine was told to stop (`EngineConversations`), the service
is stopped and not started again (`Connection`).

### Fairness

* `SharedBuffer`: weak fairness of the writer's own steps (`Wait`, `Put`, `Loop`), of
  a thread that runs until it blocks, and of each client's polling loop (`Peek`, `TryLock`, `Extract`),
  which _threadedExtractLoop repeats every `buffer_latency` milliseconds.  A value need not
  arrive, a client need not come, go or die.  `CatchesUp` needs no strong fairness although
  `TryLock` may find the mutex busy each time: its premise is that clients stop coming
  and going, and values are bounded, so the writer is idle in the end.
* `EngineConversations`: weak fairness of the main thread's steps, whose waits for an answer have
  time limits; nothing is asked of the platform.  For the two steps that take `buffer_mtx` weak fairness is not
  enough, since the message thread takes it for each value: they have strong fairness.  That is what a CRITICAL_SECTION gives
  a thread that waits for it while the other gives it up again and again, and between two values gets its next
  message from the system.  Without the strong part TLC finds the main thread kept out by values that never stop.  The
  message thread itself has no fairness: it may keep `buffer_mtx` for ever, and `EveryRequestAnswered` says that this (`[]HeldUp`) is the
  only thing that keeps a request from its end.  Without that exception TLC finds it violated.
* `Connection`: weak fairness of every thread's own steps: a caller in a call (whose wait for the pipe
  has a time limit), the engine, ServiceMain (which polls), the control handler, a client's return
  from a call and its connection thread.  That a user starts, controls, connects or calls, and
  that an engine crashes, is not assumed.

The other modules assume none.

## 5. Proofs

All theorems hold for every value of the constants that the modules' named assumptions
allow.  Each module of proofs builds on one inductive invariant, with a lemma for each action.

* `DataStreamProofs`: `IInv` is TypeOK, HoldsNewest and DirtyIsLoss, which is inductive as
  it stands: where a value sits in the deque, and what the marker and the flag say of it,
  determine each other.  From it: `TypeCorrect`, `NewestHeld`, `DirtyMeansLoss`; as
  properties of the step that sets `out`, `MarkerResumes`, `NegativeExplained`,
  `NFromMarkerComplete`; and `StreamRefinesLog`, step by step, for callers that stay
  inside the occupied slots and offer room.
* `StreamClientProofs`: `CInv` adds that the marker is inside the occupied slots, and `Grounds`:
  what a call under way read of the stream is still good, because pushes only move occupied
  slots back and add new ones in front.  From it: `ClientTypeCorrect`, `RaisesExplained`,
  `NothingLostSilently`, `SnapshotsFull`, `NoneMeansCaughtUp` (an action property) and
  `ClientRefinesLog`.
* `SharedBufferProofs`, in three parts.  `SInv` adds `Locks` to type and service: the engine owns the mutex exactly
  while its writer is between wait and release, a reader that is inside owns it, and a
  thread is inside only while the buffer is live and captured.  Re-creating the buffer, which
  makes a new mutex, needs the last: there is no client with the buffer then.
  From it: `BufferTypeCorrect`, `Served`, `MutualExclusion`; and, with `WaitsForReader`,
  `WriterWaitsForReaders`: what `buffer_mutex_abandoned` shows is the only way to keep the writer waiting.
  Then `BufferInv` adds `RingInv` and `ReadsInv`.  The header and a reader's
  last position each stand for a number of writes, which position plus loop counter give modulo
  `SeqMod * Slots`; a reader is less than that behind; and a slot holds the last write that was
  its own.  So differences of the wrapped counters are differences of writes (`UnreadCounted`), and
  what an extraction takes is what came since the last.  From it: `NewestInRing`, `InOrder`, and
  `LookIsRight`: comparing the header with the last position without the mutex tells exactly whether
  there is something to read, unless the writer is between its two steps.
  Last, `BufferIsFeed`: each step sends, joins, leaves, fetches or is a stutter of
  `ValueFeed` (a lemma each); that an extraction is a `Fetch` is where all of `BufferInv` is used.
* `BlockStreamsProofs`: that counts are exact is not inductive without what each call under way
  knows.  `BInv` adds `Fits`: an Add's topics and items, in the block or still to come, have no
  pair but those captured, to be asked for, or missed, so that taking in one pair makes no
  stream that was not counted; a removal's pairs are all that go with its topic or item, and
  those it gave back are released.  `StepOn` says what a step of one process cannot touch, and
  `HoldersKeep`, `HoldersGain`, `HoldersLose` what it does to the count of a pair.  From it:
  `BlockTypeCorrect`, `CapturedHasStream`, `TableRead`, `ReferencesExact`,
  `EachReaderCounted` (every captured pair has its reference, a part of ReferencesAccounted with no
  run of its own), and with it `PreCacheApart`.  `OrderlyInv` says which faults account for
  `missed` and `left`: until a message fails or a process leaves, `NothingLostUnlessFaulty` makes the count of a pair just the
  number of its readers; and `DetachGivesOneBack` says what a process that is unloaded in no call leaves
  behind, one less than its blocks that shared a local buffer (client_admin.cpp:454).
* `BlockNamesProofs`: `NInv` adds `AllWait`: what waits in the pre-cache of a block during an Add is
  in a pair the call still asks for, or in one that failed.  That is why TOSDB_Add may clear the
  pre-cache at its first success.  From it: `NamesKept` (an action property).
* `EngineConversationsProofs`: `EInv` is `Control` (what is true at each place of the main
  thread), `Table` (counts, topics and buffers), `Wait` (a flag is there exactly for the id waited
  for), `Convos` (each side of the map, and which topic a window was opened for) and `Queue`.
  From it: `TypeCorrect`, `BuffersFollowStreams`, `ImplementsStreamCounts` (the refinement, of every
  step), and `RequestsTakeBoundedSteps`.  The last orders the places of the main thread by
  what they lead to (`Left`, at most 50): each of its steps has less left, or one pair less to remove
  at shutdown, whether a wait is answered or times out, and no other thread changes what is left.  What
  the theorem does not say is that the main thread has a step: it has none while it waits for `buffer_mtx`.
* `EngineOrderProofs`: what an orderly exchange (no timeout, no refusal taken, no quit) adds to `EInv`.
  `OInv` follows the one message that the main thread waits on all the way round: `Letters` and
  `Ordered` say what may be in the queue at each place, of whose conversation, and in which order
  (request before link, refusal before acknowledgement), `Flagged` where the answer is between the queue
  and the wait (flag, event, neither), `Conversing` and `OpenOrClosing` that a conversation is open while the map leads to
  it and then until its closing has been passed on, once, and `Linked` that the platform has an item
  linked while it is counted, or from the acknowledgement under way, or no longer while its buffer is being destroyed.  None holds alone: that an answer
  is the right one rests on the queue having had nothing older, which rests on the request before having been
  answered.  From it: `AnswersAreOwn`, `PlatformSendsWhatIsCounted`, `ClosedTopicsLeaveNothing`,
  `MapSidesMatch` and `ValuesRoutedToOwnStream`.  The first halves of the last two need no orderly exchange, and
  are from `EInv` alone.
* `ConnectionProofs`: `ConnectionInv` is type, `Exchange` (the engine serves who has
  the pipe, and that caller waits for it), `Controls` and `PauseInv` (the service calls
  only within a control, and an engine that has just started is not paused) and `ThreadInv` (which of a client's threads lives,
  and whether its handle is stored).  From it: `ConnectionTypeCorrect`, `EachCallHandledOnce`,
  `StatusIsTheEngines`, `OneConnectionThread`.  And of the two liveness properties what is not
  fairness: `StopComesNearer` (a service that stops has at most three steps of ServiceMain left, counted
  by `Remaining`, each takes one off and nobody adds one) and `LossComesNearer` (a client that believes in an
  engine that has gone has one thread, at one of the two steps that end the belief).

Only model-checked: EveryRequestAnswered, LossIsNoticed, ServiceEnds and CatchesUp, since liveness under
fairness and ENABLED are beyond the prover.  What each rests on besides fairness is proved:
`RequestsTakeBoundedSteps`, `LossComesNearer`, `StopComesNearer`, and `LookIsRight` with `BufferIsFeed`.
The definitions these theorems add (in the modules of proofs) have been checked by TLC over the state spaces
of the runs of the same component.
`StreamTypes` is a finite table that TLC evaluates whole.

## 6. Not modelled, and why

* The memory of an engine that restarts under clients with open blocks (`client_admin.cpp:172`): it
  takes `Connection`, `SharedBuffer` and `BlockStreams` together, more than TLC finishes.
* A caller that ends in the middle of a call over the pipe; a failed UpdateStatus of the service;
  the --noservice mode, which is the engine without the service; registration and the choice of
  the session.
* Block ids and the limit on blocks; the formatted output of client_out.cpp, which uses the getters.
* Copy and move construction of streams, which nothing calls on one in use.
* The numbers themselves: sizes beyond INT_MAX (`data_stream.tpp:340`), generic values, and
  the text of a DDE value.  The types are in `StreamTypes`.
* RemoveOrphanedStream for a reference that somebody still uses: it sends the message it is told to;
  its documentation warns of exactly what `refused_add_steals` shows.
* The Python virtual layer (one request and one reply per call, on a connection of its own),
  intervals and streaming: programs on top of the library.
* DumpBufferStatus, which writes a log; it takes `buffer_mtx` too (engine.cpp:1500), and so may wait as
  `CreateBuffer` does.  `Connection` takes each message to be handled in the end, that is, with `buffer_mtx` free in the end.
* Logging and exceptions, the shell, the initializers of the static tables: output, input and
  values without state.
* The Java binding wraps the same C calls as the Python one.
