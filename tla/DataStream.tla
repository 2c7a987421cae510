----------------------------- MODULE DataStream -----------------------------
(***************************************************************************)
(* One client-side data stream: the bounded deque of the most recent       *)
(* values of a (topic, item) pair, newest at index 0, with the marker that *)
(* the ...FromMarker calls resume from (include/data_stream.hpp,           *)
(* src/data_stream.tpp).                                                   *)
(*                                                                         *)
(* Every operation of the class holds the stream's mutex from its first    *)
(* read of the state to its last write, so an operation is one step.  The  *)
(* connection thread pushes, application threads do everything else.       *)
(*                                                                         *)
(* A value is the number of the push that brought it, so that a value      *)
(* tells where in the history of the stream it belongs; the slots the      *)
(* constructor and resize() fill hold Blank.                               *)
(***************************************************************************)
EXTENDS Integers

CONSTANTS
  MaxBound,  \* MAX_BOUND_SIZE, the largest bound a stream may have
  Sizes,     \* the bound and destination sizes a caller asks for
  MaxPush    \* bound: number of values that arrive

ASSUME MaxBoundAssumption == MaxBound \in Nat \ {0}
ASSUME SizesAssumption    == Sizes \subseteq Nat
ASSUME MaxPushAssumption  == MaxPush \in Nat

VARIABLES
  deque,   \* _deque_primary: the values
  stamps,  \* _deque_secondary: their DateTimeStamps
  qbound,  \* _qbound
  qcount,  \* _qcount
  mark,    \* *_mark_count: index of the oldest value not read yet, or -1
  dirty,   \* *_mark_is_dirty
  pushed,  \* history: number of values pushed so far
  cursor,  \* history: number of the newest value the reader is done with
  out      \* history: what the last read returned

vars  == <<deque, stamps, qbound, qcount, mark, dirty, pushed, cursor, out>>

Blank == 0

(* The three shapes of copy: numbers, strings, and strings with a          *)
(* DateTimeStamp array.                                                    *)
Kinds == {"numbers", "strings", "stamped"}

Indices == -MaxBound .. MaxBound

Lesser(a, b)  == IF a < b THEN a ELSE b
Greater(a, b) == IF a < b THEN b ELSE a

(* What a read found and returned: the call, the caller's room, the size   *)
(* returned, the values and the stamps written; and, when it started, the  *)
(* cursor, the number of values in front of the marker, whether the marker *)
(* was dirty and whether it was inside the occupied part of the deque.     *)
Nothing  == [i \in {} |-> Blank]
NoResult == [call |-> "none", room |-> 0, size |-> 0, vals |-> Nothing,
             dts |-> Nothing, since |-> 0, unread |-> 0, wasDirty |-> FALSE,
             inside |-> TRUE]

(***************************************************************************)
(* Helpers.                                                                *)
(***************************************************************************)

ClampBound(sz) == Greater(Lesser(sz, MaxBound), 1)

Adjust(indx) == IF indx < 0 THEN indx + qbound ELSE indx

ValidRange(end, beg) ==          \* _check_adj returns instead of throwing
  /\ Adjust(beg) \in 0 .. qbound - 1
  /\ Adjust(end) \in 0 .. qbound - 1
  /\ Adjust(beg) <= Adjust(end)

(* The slots _copy_to_ptr copies, an end index being included: no more     *)
(* than the caller has room for, and none past the occupied ones.          *)
CopyCount(room, end, beg) ==
  Greater(Lesser(room + beg, Lesser(end + 1, qcount)) - beg, 0)

(* The numbers copy() writes one value without looking at the occupancy    *)
(* when the range is a single index; the strings one does not.             *)
Written(kind, room, end, beg) ==
  IF kind = "numbers" /\ end = beg THEN 1 ELSE CopyCount(room, end, beg)

(* With a DateTimeStamp array the return value is the secondary copy's.    *)
Returned(kind, room, end, beg) ==
  IF kind \in {"numbers", "stamped"} /\ end = beg
  THEN 1 ELSE CopyCount(room, end, beg)

StampCount(kind, n) == IF kind = "strings" THEN 0 ELSE n

Slice(d, beg, n) == [i \in 0 .. n - 1 |-> d[beg + i]]

(* Mutant: a read that does not clear the dirty flag.                      *)
MoveMarkerKeepDirty(beg) ==
  /\ mark' = beg - 1
  /\ cursor' = pushed - beg
  /\ UNCHANGED <<deque, stamps, qbound, qcount, dirty, pushed>>

(* What every read does last: the marker goes in front of beg, the newest  *)
(* index the caller has seen, and is clean.                                *)
MoveMarker(beg) ==
  /\ mark' = beg - 1
  /\ dirty' = FALSE
  /\ cursor' = pushed - beg
  /\ UNCHANGED <<deque, stamps, qbound, qcount, pushed>>

(* The result of a read of n values and m stamps from index beg on.        *)
Result(call, room, size, beg, n, m) ==
  [call |-> call, room |-> room, size |-> size,
   vals |-> Slice(deque, beg, n), dts |-> Slice(stamps, beg, m),
   since |-> cursor, unread |-> mark + 1, wasDirty |-> dirty,
   inside |-> mark < qcount]

(***************************************************************************)
(* Operations.                                                             *)
(***************************************************************************)

Init ==
  /\ qbound \in 1 .. MaxBound
  /\ deque = [i \in 0 .. qbound - 1 |-> Blank]
  /\ stamps = [i \in 0 .. qbound - 1 |-> Blank]
  /\ qcount = 0
  /\ mark = -1
  /\ dirty = FALSE
  /\ pushed = 0
  /\ cursor = 0
  /\ out = NoResult

(* Mutant: the marker is not stopped at the last slot.                     *)
IncrNoStop ==
  /\ qcount' = IF qcount < qbound THEN qcount + 1 ELSE qcount
  /\ mark' = mark + 1
  /\ dirty' = dirty

(* Mutant: the marker stops, but the loss is not flagged.                  *)
IncrNoFlag ==
  /\ qcount' = IF qcount < qbound THEN qcount + 1 ELSE qcount
  /\ mark' = IF mark = qbound - 1 THEN mark ELSE mark + 1
  /\ dirty' = dirty

(* _incr_internal_counts: the marker moves back with the value it points   *)
(* at, until that value is the one that falls off the back.                *)
IncrInternalCounts ==
  /\ qcount' = IF qcount < qbound THEN qcount + 1 ELSE qcount
  /\ mark' = IF mark = qbound - 1 THEN mark
             ELSE IF mark < qbound - 1 THEN mark + 1 ELSE mark - 1
  /\ dirty' = (dirty \/ mark >= qbound - 1)

Shifted(d, v) == [i \in 0 .. qbound - 1 |-> IF i = 0 THEN v ELSE d[i - 1]]

Push ==
  /\ pushed < MaxPush
  /\ pushed' = pushed + 1
  /\ deque' = Shifted(deque, pushed + 1)
  /\ stamps' = Shifted(stamps, pushed + 1)
  /\ IncrInternalCounts
  /\ UNCHANGED <<qbound, cursor, out>>

(* Mutant: a shrinking bound gives up the newest values.                   *)
ResizedInFront(d, sz) ==
  [i \in 0 .. sz - 1 |->
     IF sz < qbound THEN d[i + qbound - sz]
     ELSE IF i < qbound THEN d[i] ELSE Blank]

Resized(d, sz) ==
  [i \in 0 .. sz - 1 |-> IF i < qbound THEN d[i] ELSE Blank]

(* Mutant: a bound that clips the marker does not flag the loss.           *)
BoundSizeNoFlag(request) ==
  LET sz == ClampBound(request) IN
  /\ deque' = Resized(deque, sz)
  /\ stamps' = Resized(stamps, sz)
  /\ qbound' = sz
  /\ qcount' = Lesser(sz, qcount)
  /\ mark' = IF sz <= mark THEN sz - 1 ELSE mark
  /\ UNCHANGED <<dirty, pushed, cursor, out>>

BoundSize(request) ==
  LET sz == ClampBound(request) IN
  /\ deque' = Resized(deque, sz)
  /\ stamps' = Resized(stamps, sz)
  /\ qbound' = sz
  /\ qcount' = Lesser(sz, qcount)
  /\ IF sz < qbound /\ sz <= mark
     THEN mark' = sz - 1 /\ dirty' = TRUE
     ELSE UNCHANGED <<mark, dirty>>
  /\ UNCHANGED <<pushed, cursor, out>>

Copy(kind, room, end, beg) ==
  LET e == Adjust(end)
      b == Adjust(beg)
  IN
  /\ ValidRange(end, beg)
  /\ out' = Result("copy", room, Returned(kind, room, e, b), b,
                   Written(kind, room, e, b),
                   StampCount(kind, Returned(kind, room, e, b)))
  /\ MoveMarker(b)

(* vector() and secondary_vector(): as many values as there are.           *)
Vector(end, beg) ==
  LET n == CopyCount(MaxBound, Adjust(end), Adjust(beg)) IN
  /\ ValidRange(end, beg)
  /\ out' = Result("vector", MaxBound, n, Adjust(beg), n, n)
  /\ MoveMarker(Adjust(beg))

(* operator[](), both() and secondary(): one value at an index, occupied   *)
(* or not.                                                                 *)
At(indx) ==
  /\ ValidRange(indx, 0)
  /\ out' = Result("at", 1, 1, Adjust(indx), 1, 1)
  /\ MoveMarker(Adjust(indx))

(* get_leave_marker() and both_leave_marker(): one value at an index, for  *)
(* callers that look without reading.                                      *)
LeaveMarker(indx) ==
  /\ ValidRange(indx, 0)
  /\ out' = Result("peek", 1, 1, Adjust(indx), 1, 1)
  /\ UNCHANGED <<deque, stamps, qbound, qcount, mark, dirty, pushed, cursor>>

(* Mutant: the marker's own value is counted twice in the size wanted.     *)
CopyFromMarkerWantsMore(call, kind, room, b) ==
  LET wanted   == mark - b + 1
      returned == Returned(kind, room, mark, b)
  IN
  \/ /\ b < 0 \/ wanted < 1
     /\ out' = Result(call, room, 0, 0, 0, 0)
     /\ UNCHANGED <<deque, stamps, qbound, qcount, mark, dirty, pushed, cursor>>
  \/ /\ b >= 0 /\ wanted >= 1
     /\ ValidRange(mark, b)
     /\ out' = Result(call, room,
                      IF dirty \/ returned <= wanted THEN -returned ELSE returned,
                      b, Written(kind, room, mark, b), StampCount(kind, returned))
     /\ MoveMarker(b)

(* copy_from_marker: everything from index beg back to the marker.  The    *)
(* returned size is negated when data was lost behind the marker or the    *)
(* caller's room was too small.  A negative beg counts from the occupancy  *)
(* here, not from the bound.                                               *)
CopyFromMarkerAt(call, kind, room, b) ==
  LET wanted   == mark - b + 1
      returned == Returned(kind, room, mark, b)
  IN
  \/ /\ b < 0 \/ wanted < 1
     /\ out' = Result(call, room, 0, 0, 0, 0)
     /\ UNCHANGED <<deque, stamps, qbound, qcount, mark, dirty, pushed, cursor>>
  \/ /\ b >= 0 /\ wanted >= 1
     /\ ValidRange(mark, b)
     /\ out' = Result(call, room,
                      IF dirty \/ returned < wanted THEN -returned ELSE returned,
                      b, Written(kind, room, mark, b), StampCount(kind, returned))
     /\ MoveMarker(b)

CopyFromMarker(kind, room, beg) ==
  CopyFromMarkerAt("from_marker", kind, room,
                   IF beg < 0 THEN beg + qcount ELSE beg)

(* Mutant: n-from-marker starts one value too far to the front.            *)
NCopyOneTooMany(kind, room) ==
  CopyFromMarkerAt("n_from_marker", kind, room, Greater(mark - room, 0))

(* ncopy_from_marker: the room oldest values not read yet.                 *)
NCopyFromMarker(kind, room) ==
  CopyFromMarkerAt("n_from_marker", kind, room, Greater(mark - room + 1, 0))

Next ==
  \/ Push
  \/ \E sz \in Sizes : BoundSize(sz)
  \/ \E kind \in Kinds, room \in Sizes, end, beg \in Indices :
        Copy(kind, room, end, beg)
  \/ \E end, beg \in Indices : Vector(end, beg)
  \/ \E indx \in Indices : At(indx) \/ LeaveMarker(indx)
  \/ \E kind \in Kinds, room \in Sizes, beg \in Indices :
        CopyFromMarker(kind, room, beg)
  \/ \E kind \in Kinds, room \in Sizes : NCopyFromMarker(kind, room)

Spec == Init /\ [][Next]_vars

(* The same for callers that compare an index with TOSDB_GetStreamOccupancy *)
(* first, as the Python get() and stream_snapshot() do by default, and so   *)
(* never leave the marker past the occupied slots.                          *)
SpecInside == Init /\ [][Next /\ mark' < qcount']_vars

-----------------------------------------------------------------------------
(***************************************************************************)
(* Properties.                                                             *)
(***************************************************************************)

FromMarkerCalls == {"from_marker", "n_from_marker"}

(* Every variable has its type; the deque always has exactly _qbound       *)
(* slots, which is what _check_adj throws "internal size/bounds violation" *)
(* about.                                                                  *)
TypeOK ==
  /\ qbound \in 1 .. MaxBound
  /\ deque \in [0 .. qbound - 1 -> Nat]
  /\ stamps \in [0 .. qbound - 1 -> Nat]
  /\ qcount \in 0 .. qbound
  /\ mark \in -1 .. qbound - 1
  /\ dirty \in BOOLEAN
  /\ pushed \in Nat
  /\ cursor \in Int

(* Through any sequence of pushes and resizes the occupied slots hold the  *)
(* newest values in order, none missing and none twice, each beside its    *)
(* own DateTimeStamp, and the others are blank.                            *)
HoldsNewest ==
  /\ qcount <= pushed
  /\ \A i \in 0 .. qbound - 1 :
        /\ deque[i] = IF i < qcount THEN pushed - i ELSE Blank
        /\ stamps[i] = deque[i]

(* The dirty flag is set exactly when a value the reader has not seen has  *)
(* fallen off the back: the values still reachable from the marker start   *)
(* at pushed - mark, those the reader is owed at cursor + 1.               *)
DirtyIsLoss ==
  /\ dirty => cursor < pushed - mark - 1
  /\ ~dirty => cursor = pushed - mark - 1

(* A from-marker read that returns a size and not a negative one picks up  *)
(* exactly where the last read ended: it delivers every value from there   *)
(* to the new cursor, newest first, once each, with its stamp.             *)
ResumesExactly ==
  (/\ out.call \in FromMarkerCalls
   /\ out.inside
   /\ out.room > 0
   /\ out.size >= 0)
    => /\ cursor - out.since = out.size
       /\ out.vals = [i \in 0 .. out.size - 1 |-> cursor - i]
       /\ out.dts \in {Nothing, out.vals}

(* A negative size tells the truth: data was lost, or the caller's room    *)
(* was smaller than what was there to read; and even then the values       *)
(* delivered are the newest of the range, without a gap.                   *)
NegativeIsExplained ==
  (/\ out.call \in FromMarkerCalls
   /\ out.inside
   /\ out.room > 0
   /\ out.size < 0)
    => /\ out.wasDirty \/ out.room < cursor - out.since
       /\ out.vals = [i \in 0 .. -out.size - 1 |-> cursor - i]

(* Reading n values at a time from a clean marker never loses one: the     *)
(* call returns as many as there are, up to n, and leaves the rest in      *)
(* front of the marker.                                                    *)
NFromMarkerKeepsTheRest ==
  (/\ out.call = "n_from_marker"
   /\ out.inside
   /\ out.room > 0
   /\ ~out.wasDirty)
    => out.size = Lesser(out.room, out.unread)

(* A negative size of an n-from-marker read indicates that the stream is   *)
(* dirty (README_API.md:619).  The code also negates the size when the     *)
(* marker was left past the occupied slots by an indexed read.             *)
NFromMarkerNegativeIsDirty ==
  (out.call = "n_from_marker" /\ out.room > 0 /\ out.size < 0) => out.wasDirty

-----------------------------------------------------------------------------
(***************************************************************************)
(* The stream implements the marker log: the reader can resume right after *)
(* the values the deque no longer holds in front of the marker.            *)
(***************************************************************************)

Log == INSTANCE MarkerLog WITH
  floor <- pushed - mark - 1,
  got   <- IF out.call \in FromMarkerCalls
           THEN [since |-> out.since, size |-> out.size, vals |-> out.vals]
           ELSE [since |-> 0, size |-> 0, vals |-> Nothing]

(* README_API.md:587, "These calls guarantee to pick up where the last ... *)
(* call ended": every behaviour of the stream under callers that stay      *)
(* inside the occupied slots is one of the marker log.                     *)
RefinesLog == Log!Spec
=============================================================================
