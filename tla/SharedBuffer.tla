---------------------------- MODULE SharedBuffer ----------------------------
(***************************************************************************)
(* One circular buffer in shared memory: the engine process writes the     *)
(* values of a (topic, item) pair into it, client processes extract them   *)
(* (RouteToBuffer, CreateBuffer and DestroyBuffer in service/engine.cpp;   *)
(* _captureBuffer, _releaseBuffer and _extractFromBuffer in                *)
(* client/client_admin.cpp).                                               *)
(*                                                                         *)
(* The buffer is a header, BufferHead, and Slots elements.  The engine's   *)
(* message thread is the only writer, its main thread creates and destroys *)
(* the buffer as clients ask for it; each client has one thread that polls *)
(* the header and never waits for the mutex.  Named kernel objects live as *)
(* long as a process has a handle to them, and a mutex whose owner dies is *)
(* handed, as abandoned, to whoever waits for it next.                     *)
(*                                                                         *)
(* Offsets are the code's byte offsets from the front of the mapping.  An  *)
(* element is the number of the write that stored it.                      *)
(***************************************************************************)
EXTENDS Integers, FiniteSets

CONSTANTS
  Clients,     \* the client processes
  Slots,       \* elements in the buffer
  HeadSz,      \* sizeof(BufferHead), which is beg_offset
  ElemSz,      \* elem_size
  SeqMod,      \* loop_seq is an unsigned int: it counts modulo SeqMod
  MaxWrites,   \* bound: number of values that arrive
  MaxDeaths    \* bound: number of clients that die

ASSUME ClientsAssumption == IsFiniteSet(Clients)
ASSUME LayoutAssumption ==
  /\ Slots \in Nat \ {0}
  /\ HeadSz \in Nat \ {0}
  /\ ElemSz \in Nat
  /\ HeadSz < ElemSz       \* 20 bytes, and TypeSize + sizeof(DateTimeStamp)
ASSUME SeqModAssumption == SeqMod \in Nat \ {0, 1}
ASSUME BoundsAssumption == {MaxWrites, MaxDeaths} \subseteq Nat

Free   == "free"
Engine == "engine"
ASSUME ProcessesAssumption == {Free, Engine} \cap Clients = {}

VARIABLES
  refs,       \* topic_refcounts: the requests for the pair
  live,       \* the engine's buffers map has the buffer
  loop_seq, next_offset, mem,  \* the mapping: header and elements, by offset
  writer,     \* where the engine's message thread is in RouteToBuffer
  owner,      \* who owns the mutex
  abandoned,  \* the mutex was last owned by a process that died
  client,     \* where each client stands with the pair
  reader,     \* where each client's thread is in _extractFromBuffer
  last,       \* buffer_info_ty's first two: position and loop at the last read
  stuck,      \* clients that own the mutex by a wait that returned abandoned
  dead,       \* clients that died, or were terminated by an exception
  written,    \* history: number of writes
  born,       \* history: number of writes when the buffer was initialised
  seen,       \* history: the write number that last[c] stands for
  batch       \* history: what the last extraction delivered

mapping == <<loop_seq, next_offset, mem>>
mutex   == <<owner, abandoned>>
extract == <<reader, last, stuck, seen, batch>>
vars == <<refs, live, mapping, writer, mutex, client, extract, dead, written,
          born>>

DataLen   == Slots * ElemSz          \* end_offset - beg_offset
EndOffset == HeadSz + DataLen
Offsets   == 0 .. EndOffset - 1
Garbage   == 0                       \* what was never stored
NoBatch   == [after |-> 0, negative |-> FALSE, vals |-> [i \in {} |-> 0]]

Smaller(a, b) == IF a < b THEN a ELSE b
Larger(a, b)  == IF a < b THEN b ELSE a

Idle     == "idle"
Captured == {c \in Clients : client[c] = "captured"}

Init ==
  /\ refs = 0
  /\ live = FALSE
  /\ loop_seq = 0
  /\ next_offset = HeadSz
  /\ mem = [o \in Offsets |-> Garbage]
  /\ writer = Idle
  /\ owner = Free
  /\ abandoned = FALSE
  /\ client = [c \in Clients |-> "none"]
  /\ reader = [c \in Clients |-> Idle]
  /\ last = [c \in Clients |-> [pos |-> 0, seq |-> 0]]
  /\ stuck = {}
  /\ dead = {}
  /\ written = 0
  /\ born = 0
  /\ seen = [c \in Clients |-> 0]
  /\ batch = [c \in Clients |-> NoBatch]

-----------------------------------------------------------------------------
(***************************************************************************)
(* The engine.                                                             *)
(***************************************************************************)

(* CreateBuffer: a new mapping and a new mutex, the names of those before  *)
(* having gone with their last handles.                                    *)
CreateBuffer ==
  /\ live' = TRUE
  /\ loop_seq' = 0
  /\ next_offset' = HeadSz
  /\ mem' = [o \in Offsets |-> Garbage]
  /\ owner' = Free
  /\ abandoned' = FALSE
  /\ stuck' = {}
  /\ born' = written

(* RouteToBuffer.  A value arrives; buffer_mtx is held from here until the *)
(* writer is idle again.  Bound: between two reads of a client the writer  *)
(* loops fewer than SeqMod times.                                          *)
Arrive ==
  /\ live
  /\ writer = Idle
  /\ written < MaxWrites
  /\ \A c \in Captured : written + 1 - seen[c] <= (SeqMod - 1) * Slots
  /\ writer' = "arrived"
  /\ UNCHANGED <<refs, live, mapping, mutex, client, extract, dead, written,
                 born>>

(* WaitForSingleObject(hmtx, INFINITE); its result is not looked at.       *)
Wait ==
  /\ writer = "arrived"
  /\ IF owner = Free
     THEN owner' = Engine /\ abandoned' = FALSE /\ writer' = "holding"
     ELSE writer' = "waiting" /\ UNCHANGED mutex
  /\ UNCHANGED <<refs, live, mapping, client, extract, dead, written,
                 born>>

(* A client gives the mutex up, or is gone (left): the kernel hands it to  *)
(* the engine if that waits for it.                                        *)
HandOver(left) ==
  IF writer = "waiting"
  THEN owner' = Engine /\ abandoned' = FALSE /\ writer' = "holding"
  ELSE owner' = Free /\ abandoned' = left /\ UNCHANGED writer

(* Mutant: the writer goes one slot past the end before it starts over.    *)
PutPastEnd ==
  /\ writer = "holding"
  /\ mem' = [mem EXCEPT ![next_offset] = written + 1]
  /\ written' = written + 1
  /\ next_offset' = next_offset + ElemSz
  /\ writer' = Idle
  /\ owner' = Free
  /\ UNCHANGED <<refs, live, loop_seq, abandoned, client, extract, dead,
                 born>>

(* Stores the element and moves next_offset, back to the beginning after   *)
(* the last slot, in which case loop_seq is still to be incremented.       *)
Put ==
  /\ writer = "holding"
  /\ mem' = [mem EXCEPT ![next_offset] = written + 1]
  /\ written' = written + 1
  /\ IF next_offset + ElemSz >= EndOffset
     THEN /\ next_offset' = HeadSz
          /\ writer' = "looping"
          /\ UNCHANGED owner
     ELSE /\ next_offset' = next_offset + ElemSz
          /\ writer' = Idle
          /\ owner' = Free
  /\ UNCHANGED <<refs, live, loop_seq, abandoned, client, extract, dead,
                 born>>

(* Mutant: the loop is not counted.                                        *)
LoopUncounted ==
  /\ writer = "looping"
  /\ writer' = Idle
  /\ owner' = Free
  /\ UNCHANGED <<refs, live, loop_seq, next_offset, mem, abandoned, client,
                 extract, dead, written, born>>

Loop ==
  /\ writer = "looping"
  /\ loop_seq' = (loop_seq + 1) % SeqMod
  /\ writer' = Idle
  /\ owner' = Free
  /\ UNCHANGED <<refs, live, next_offset, mem, abandoned, client, extract,
                 dead, written, born>>

-----------------------------------------------------------------------------
(***************************************************************************)
(* The clients.  An IPC request is answered by the engine's main thread    *)
(* within the step; DestroyBuffer waits for the writer's buffer_mtx.       *)
(***************************************************************************)

Add(c) ==
  /\ c \notin dead /\ client[c] = "none"
  /\ refs' = refs + 1
  /\ IF refs = 0
     THEN CreateBuffer
     ELSE UNCHANGED <<live, mapping, mutex, stuck, born>>
  /\ client' = [client EXCEPT ![c] = "added"]
  /\ UNCHANGED <<writer, reader, last, dead, written, seen, batch>>

(* _captureBuffer: opens the mapping and the mutex by name, and will read  *)
(* from loop 0, position 0 on.  Bound: not right before loop_seq wraps.    *)
Capture(c) ==
  /\ client[c] = "added"
  /\ (written - born) % (SeqMod * Slots) # SeqMod * Slots - 1
  /\ live
  /\ client' = [client EXCEPT ![c] = "captured"]
  /\ last' = [last EXCEPT ![c] = [pos |-> 0, seq |-> 0]]
  /\ seen' = [seen EXCEPT ![c] =
                written - ((written - born) % (SeqMod * Slots))]
  /\ batch' = [batch EXCEPT ![c] = NoBatch]
  /\ UNCHANGED <<refs, live, mapping, writer, mutex, reader, stuck, dead,
                 written, born>>

(* _releaseBuffer, which waits for the reader's buffers_mtx.               *)
Release(c) ==
  /\ client[c] = "captured"
  /\ reader[c] = Idle
  /\ client' = [client EXCEPT ![c] = "released"]
  /\ UNCHANGED <<refs, live, mapping, writer, mutex, extract, dead,
                 written, born>>

(* Mutant: the buffer goes with the first REMOVE.                          *)
RemoveDestroys(c) ==
  /\ client[c] = "released"
  /\ client' = [client EXCEPT ![c] = "none"]
  /\ refs' = Larger(refs - 1, 0)
  /\ writer = Idle
  /\ live' = FALSE
  /\ UNCHANGED <<mapping, writer, mutex, extract, dead, written, born>>

(* The REMOVE request; the engine destroys the buffer with the last one.   *)
Remove(c) ==
  /\ client[c] = "released"
  /\ client' = [client EXCEPT ![c] = "none"]
  /\ refs' = Larger(refs - 1, 0)
  /\ refs = 1 => writer = Idle
  /\ live' = (refs > 1)
  /\ UNCHANGED <<mapping, writer, mutex, extract, dead, written, born>>

(* Mutant: only the position is compared, not the loop.                    *)
PeekPosition(c) ==
  /\ client[c] = "captured"
  /\ reader[c] = Idle
  /\ next_offset - HeadSz # last[c].pos
  /\ reader' = [reader EXCEPT ![c] = "peeked"]
  /\ UNCHANGED <<refs, live, mapping, writer, mutex, client, last, stuck,
                 dead, written, born, seen, batch>>

(* _extractFromBuffer looks at the header first, without the mutex.        *)
Peek(c) ==
  /\ client[c] = "captured"
  /\ reader[c] = Idle
  /\ \/ next_offset - HeadSz # last[c].pos
     \/ loop_seq # last[c].seq
  /\ reader' = [reader EXCEPT ![c] = "peeked"]
  /\ UNCHANGED <<refs, live, mapping, writer, mutex, client, last, stuck,
                 dead, written, born, seen, batch>>

(* Mutant: the result of the wait is not looked at.                        *)
TryLockAnyway(c) ==
  /\ reader[c] = "peeked"
  /\ owner' = IF owner = Free THEN c ELSE owner
  /\ abandoned' = FALSE
  /\ reader' = [reader EXCEPT ![c] = "locked"]
  /\ UNCHANGED <<refs, live, mapping, writer, client, last, stuck, dead,
                 written, born, seen, batch>>

(* WaitForSingleObject(mtx, 0): anything but WAIT_OBJECT_0 makes it bail,  *)
(* WAIT_ABANDONED too, which has made it the owner.                        *)
TryLock(c) ==
  /\ reader[c] = "peeked"
  /\ \/ /\ owner = c \/ (owner = Free /\ ~abandoned)
        /\ owner' = c
        /\ reader' = [reader EXCEPT ![c] = "locked"]
        /\ UNCHANGED <<abandoned, stuck>>
     \/ /\ owner = Free /\ abandoned
        /\ owner' = c
        /\ abandoned' = FALSE
        /\ stuck' = stuck \cup {c}
        /\ reader' = [reader EXCEPT ![c] = Idle]
     \/ /\ owner \notin {Free, c}
        /\ reader' = [reader EXCEPT ![c] = Idle]
        /\ UNCHANGED <<mutex, stuck>>
  /\ UNCHANGED <<refs, live, mapping, writer, client, last, dead, written,
                 born, seen, batch>>

(* Mutant: no dataLen is borrowed when the writer has looped.              *)
ElementsThisLoop(c) == (next_offset - HeadSz - last[c].pos) \div ElemSz

(* nelems: loop_seq - last is an unsigned difference, the rest is signed.  *)
Elements(c) ==
  (next_offset - HeadSz - last[c].pos
     + ((loop_seq - last[c].seq) % SeqMod) * DataLen) \div ElemSz

(* Mutant: more than the buffer holds.                                     *)
ToCopyAll(nelems) == nelems

(* "make sure we don't insert more than the max elems".                    *)
ToCopy(nelems) == Smaller(nelems, Slots)

(* The offset of the element k writes back.                                *)
Spot(k) == (next_offset - k * ElemSz + DataLen) % DataLen

(* The rest of _extractFromBuffer.  A negative number of elements throws   *)
(* in a thread that does not catch it and terminates the client.           *)
Extract(c) ==
  LET nelems == Elements(c)
      n      == ToCopy(nelems)
  IN
  /\ reader[c] = "locked"
  /\ IF nelems < 0
     THEN /\ dead' = dead \cup {c}
          /\ client' = [client EXCEPT ![c] = "none"]
          /\ stuck' = stuck \ {c}
     ELSE UNCHANGED <<dead, client, stuck>>
  /\ IF c \in stuck'         \* ReleaseMutex undoes one wait of the owner's
     THEN UNCHANGED <<mutex, writer>>
     ELSE HandOver(c \in stuck)
  /\ reader' = [reader EXCEPT ![c] = Idle]
  /\ batch' = [batch EXCEPT ![c] =
                 [after |-> seen[c], negative |-> nelems < 0,
                  vals |-> [i \in 1 .. n |-> mem[Spot(n + 1 - i)]]]]
  /\ IF nelems > 0
     THEN /\ last' = [last EXCEPT ![c] =
                        [pos |-> next_offset - HeadSz, seq |-> loop_seq]]
          /\ seen' = [seen EXCEPT ![c] = written]
     ELSE UNCHANGED <<last, seen>>
  /\ UNCHANGED <<refs, live, mapping, written, born>>

(* A client process is killed.  The engine keeps what it asked for, and    *)
(* the mutex, if it was its own, is abandoned.                             *)
Die(c) ==
  /\ Cardinality(dead) < MaxDeaths
  /\ c \notin dead /\ client[c] # "none"
  /\ dead' = dead \cup {c}
  /\ client' = [client EXCEPT ![c] = "none"]
  /\ reader' = [reader EXCEPT ![c] = Idle]
  /\ stuck' = stuck \ {c}
  /\ IF owner = c
     THEN HandOver(TRUE)
     ELSE UNCHANGED <<mutex, writer>>
  /\ UNCHANGED <<refs, live, mapping, last, written, born, seen, batch>>

-----------------------------------------------------------------------------

Next ==
  \/ Arrive \/ Wait \/ Put \/ Loop
  \/ \E c \in Clients : Add(c) \/ Capture(c) \/ Release(c) \/ Remove(c)
  \/ \E c \in Clients : Peek(c) \/ TryLock(c) \/ Extract(c)
  \/ \E c \in Clients : Die(c)

(* The engine's message thread runs on, and so does every client's loop;   *)
(* nobody has to send a value, or to add, remove or die.                   *)
Fairness ==
  /\ WF_vars(Wait) /\ WF_vars(Put) /\ WF_vars(Loop)
  /\ \A c \in Clients :
        WF_vars(Peek(c)) /\ WF_vars(TryLock(c)) /\ WF_vars(Extract(c))

Spec == Init /\ [][Next]_vars /\ Fairness

-----------------------------------------------------------------------------
(***************************************************************************)
(* Properties.                                                             *)
(***************************************************************************)

(* Every variable has its type, the offsets are inside the mapping.        *)
TypeOK ==
  /\ live \in BOOLEAN /\ abandoned \in BOOLEAN
  /\ {refs, written, born} \subseteq Nat
  /\ loop_seq \in 0 .. SeqMod - 1
  /\ next_offset \in Offsets
  /\ mem \in [Offsets -> Nat]
  /\ writer \in {Idle, "arrived", "waiting", "holding", "looping"}
  /\ owner \in {Free, Engine} \cup Clients
  /\ client \in [Clients -> {"none", "added", "captured", "released"}]
  /\ reader \in [Clients -> {Idle, "peeked", "locked"}]
  /\ stuck \subseteq Clients /\ dead \subseteq Clients
  /\ last \in [Clients -> [pos : 0 .. DataLen - 1, seq : 0 .. SeqMod - 1]]
  /\ seen \in [Clients -> Int]

(* A client never has a buffer mapped that the engine has given up, and    *)
(* the engine counts at least one request for each client that uses it, so *)
(* that the buffer lives until the last of them has sent its REMOVE.       *)
ServedWhileCaptured ==
  /\ live <=> refs > 0
  /\ Cardinality({c \in Clients : client[c] # "none"}) <= refs

(* The writer and the readers are inside the mutex one at a time, whatever *)
(* clients die inside it, wait for it twice or get it abandoned.           *)
OneInside ==
  /\ writer \in {"holding", "looping"} => \A c \in Clients : reader[c] # "locked"
  /\ \A c, d \in Clients :
        reader[c] = "locked" /\ reader[d] = "locked" => c = d

(* The newest writes, as many as there are slots, are where a reader looks *)
(* for them, whatever loop the writer is in, and the header's two counters *)
(* count them.                                                             *)
RingHoldsNewest ==
  /\ \A k \in 1 .. Smaller(written - born, Slots) :
        mem[Spot(k)] = written + 1 - k
  /\ writer # "looping" =>
        (written - born) % (SeqMod * Slots)
          = loop_seq * Slots + ((next_offset - HeadSz) \div ElemSz)

(* An extraction delivers what was written since the one before, in order  *)
(* and each value once, up to the newest; a value is only missing if the   *)
(* ring had already overwritten it.  The number of elements since the last *)
(* read is never negative ("if something very bad happened",               *)
(* client_admin.cpp:282), which would throw and end the client.            *)
ReadsInOrder ==
  \A c \in Clients :
    LET b == batch[c]
        n == Cardinality(DOMAIN b.vals)
    IN  /\ ~b.negative
        /\ n > 0 =>
             /\ b.vals[n] = seen[c]
             /\ \A i \in 1 .. n : b.vals[i] = b.vals[n] - (n - i)
             /\ n = Smaller(b.vals[n] - b.after, Slots)

(* The buffer feeds its clients as ValueFeed says, at every step of any    *)
(* process.                                                                *)
Feed == INSTANCE ValueFeed WITH
  Readers <- Clients, Room <- Slots, sent <- written, readers <- Captured,
  cursor <- seen, got <- [c \in Clients |-> batch[c].vals]
FeedSpec == Feed!Spec

(* Once clients stop coming and going and values stop arriving, every      *)
(* client that has the buffer captured has read up to the newest value,    *)
(* unless some client died: bailing out of a busy mutex loses nothing.     *)
CatchesUp ==
  <>[][FALSE]_client
    => <>[](dead # {} \/ \A c \in Captured : seen[c] = written)

(* The service will "continually pull data from the Platform, putting it   *)
(* into circular buffers" (README_DETAILS.md:14): the engine's message     *)
(* thread does not wait for a buffer's mutex for ever.                     *)
KeepsWriting == (writer = "waiting") ~> (writer # "waiting")
=============================================================================
