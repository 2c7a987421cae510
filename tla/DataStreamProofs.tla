-------------------------- MODULE DataStreamProofs --------------------------
(***************************************************************************)
(* Proofs about DataStream, for every bound, every number of pushes and    *)
(* every set of sizes a caller may ask for.                                *)
(*                                                                         *)
(* The inductive invariant is the conjunction of the type, of what the     *)
(* slots hold and of what the dirty flag means: the exactness of a         *)
(* from-marker read follows from it, because the slots the read copies are *)
(* then numbered down from pushed - beg and the oldest of them is the one  *)
(* after the cursor.                                                       *)
(***************************************************************************)
EXTENDS DataStream, TLAPS

IInv == TypeOK /\ HoldsNewest /\ DirtyIsLoss

-----------------------------------------------------------------------------
(* Operators. *)

(* A clamped bound is a bound the class allows (bound_size, constructor).  *)
LEMMA ClampBoundType ==
  ASSUME NEW sz \in Nat
  PROVE  ClampBound(sz) \in 1 .. MaxBound
BY MaxBoundAssumption DEF ClampBound, Greater, Lesser

(* A range that _check_adj accepts is one of slots of the deque.           *)
LEMMA ValidRangeBounds ==
  ASSUME TypeOK, NEW end \in Int, NEW beg \in Int, ValidRange(end, beg)
  PROVE  /\ Adjust(beg) \in 0 .. qbound - 1
         /\ Adjust(end) \in 0 .. qbound - 1
         /\ Adjust(beg) <= Adjust(end)
BY DEF ValidRange

-----------------------------------------------------------------------------
(* The inductive invariant. *)

LEMMA InitIInv == Init => IInv
<1> SUFFICES ASSUME Init PROVE IInv
  OBVIOUS
<1>1. TypeOK
  <2>1. dirty \in BOOLEAN
    BY DEF Init
  <2>2. deque \in [0 .. qbound - 1 -> Nat] /\ stamps \in [0 .. qbound - 1 -> Nat]
    BY MaxBoundAssumption DEF Init, Blank
  <2>. QED BY <2>1, <2>2, MaxBoundAssumption DEF Init, TypeOK
<1>2. HoldsNewest
  BY DEF Init, HoldsNewest, Blank
<1>3. DirtyIsLoss
  BY DEF Init, DirtyIsLoss
<1>. QED BY <1>1, <1>2, <1>3 DEF IInv

(* A push keeps the slots numbered down from the newest, and sets the      *)
(* dirty flag when it drops the value the marker points at.                *)
LEMMA PushIInv == IInv /\ Push => IInv'
<1> SUFFICES ASSUME IInv, Push PROVE IInv'
  OBVIOUS
<1> USE DEF IInv
<1>1. /\ pushed' = pushed + 1
      /\ qcount' = IF qcount < qbound THEN qcount + 1 ELSE qcount
      /\ qbound' = qbound
      /\ cursor' = cursor
      /\ deque' = Shifted(deque, pushed + 1)
      /\ stamps' = Shifted(stamps, pushed + 1)
  BY DEF Push, IncrInternalCounts
<1>2. /\ mark' \in -1 .. qbound - 1
      /\ mark = qbound - 1 => mark' = mark
      /\ mark < qbound - 1 => mark' = mark + 1
  BY DEF Push, IncrInternalCounts, TypeOK
<1>3. /\ dirty' \in BOOLEAN
      /\ dirty' <=> dirty \/ mark >= qbound - 1
  BY DEF Push, IncrInternalCounts
<1>4. TypeOK'
  <2>1. deque' \in [0 .. qbound - 1 -> Nat] /\ stamps' \in [0 .. qbound - 1 -> Nat]
    BY <1>1 DEF TypeOK, Shifted
  <2>2. qcount' \in 0 .. qbound /\ pushed' \in Nat /\ cursor' \in Int
    BY <1>1 DEF TypeOK
  <2>3. qbound' \in 1 .. MaxBound /\ qbound' = qbound
    BY <1>1 DEF TypeOK
  <2>. QED BY <1>2, <1>3, <2>1, <2>2, <2>3 DEF TypeOK
<1>5. HoldsNewest'
  <2>1. (qcount <= pushed)'
    BY <1>1 DEF TypeOK, HoldsNewest
  <2>2. ASSUME NEW i \in 0 .. qbound - 1
        PROVE  /\ deque'[i] = IF i < qcount' THEN pushed' - i ELSE Blank
               /\ stamps'[i] = deque'[i]
    <3>1. CASE i = 0
      <4>1. deque'[i] = pushed + 1 /\ stamps'[i] = pushed + 1
        BY <1>1, <3>1 DEF Shifted
      <4>2. QED
        BY <1>1, <3>1, <4>1 DEF TypeOK
    <3>2. CASE i # 0
      <4>1. i - 1 \in 0 .. qbound - 1
        BY <3>2 DEF TypeOK
      <4>2. deque'[i] = deque[i - 1] /\ stamps'[i] = stamps[i - 1]
        BY <1>1, <3>2 DEF Shifted
      <4>3. QED
        BY <1>1, <3>2, <4>1, <4>2 DEF TypeOK, HoldsNewest
    <3>3. QED BY <3>1, <3>2
  <2>3. QED
    BY <1>1, <2>1, <2>2 DEF HoldsNewest
<1>6. DirtyIsLoss'
  <2>1. CASE mark = qbound - 1
    BY <1>1, <1>2, <1>3, <2>1 DEF TypeOK, DirtyIsLoss
  <2>2. CASE mark < qbound - 1
    BY <1>1, <1>2, <1>3, <2>2 DEF TypeOK, DirtyIsLoss
  <2>. QED BY <2>1, <2>2 DEF TypeOK
<1>. QED BY <1>4, <1>5, <1>6

(* Resizing cuts the oldest slots off or adds blank ones.                  *)
LEMMA BoundSizeIInv ==
  ASSUME NEW sz \in Nat, IInv, BoundSize(sz)
  PROVE  IInv'
<1> DEFINE s == ClampBound(sz)
<1>1. s \in 1 .. MaxBound
  BY ClampBoundType
<1> HIDE DEF s
<1>2. /\ deque' = Resized(deque, s)
      /\ stamps' = Resized(stamps, s)
      /\ qbound' = s
      /\ qcount' = Lesser(s, qcount)
      /\ IF s < qbound /\ s <= mark
         THEN mark' = s - 1 /\ dirty' = TRUE
         ELSE UNCHANGED <<mark, dirty>>
      /\ UNCHANGED <<pushed, cursor, out>>
  BY DEF BoundSize, s
<1> USE DEF IInv
<1>3. TypeOK'
  <2>1. dirty' \in BOOLEAN
    BY <1>2 DEF TypeOK
  <2>2. deque' \in [0 .. s - 1 -> Nat] /\ stamps' \in [0 .. s - 1 -> Nat]
    <3>1. qbound \in Nat /\ deque \in [0 .. qbound - 1 -> Nat]
          /\ stamps \in [0 .. qbound - 1 -> Nat]
      BY DEF TypeOK
    <3>2. ASSUME NEW d \in [0 .. qbound - 1 -> Nat]
          PROVE  Resized(d, s) \in [0 .. s - 1 -> Nat]
      BY <1>1, <3>1 DEF Resized, Blank
    <3>. QED BY <1>2, <3>1, <3>2
  <2>3. qcount' \in 0 .. s
    BY <1>1, <1>2 DEF TypeOK, Lesser
  <2>4. mark' \in -1 .. s - 1
    BY <1>1, <1>2 DEF TypeOK
  <2>5. qbound' = s /\ pushed' \in Nat /\ cursor' \in Int
    BY <1>2 DEF TypeOK
  <2>. QED BY <1>1, <2>1, <2>2, <2>3, <2>4, <2>5 DEF TypeOK
<1>4. HoldsNewest'
  BY <1>1, <1>2 DEF TypeOK, HoldsNewest, Resized, Lesser, Blank
<1>5. DirtyIsLoss'
  <2>1. CASE s < qbound /\ s <= mark
    BY <1>1, <1>2, <2>1 DEF TypeOK, DirtyIsLoss
  <2>2. CASE ~(s < qbound /\ s <= mark)
    BY <1>2, <2>2 DEF DirtyIsLoss
  <2>. QED BY <2>1, <2>2
<1>. QED BY <1>3, <1>4, <1>5

(* Every read ends by moving the marker in front of the newest index read. *)
LEMMA MoveMarkerIInv ==
  ASSUME IInv, NEW b \in 0 .. qbound - 1, MoveMarker(b)
  PROVE  IInv'
<1> USE DEF IInv, MoveMarker
<1>1. TypeOK'
  <2>1. dirty' \in BOOLEAN
    OBVIOUS
  <2>2. mark' \in -1 .. qbound - 1 /\ cursor' \in Int
    BY DEF TypeOK
  <2>. QED BY <2>1, <2>2 DEF TypeOK
<1>2. HoldsNewest'
  BY DEF HoldsNewest
<1>3. DirtyIsLoss'
  BY DEF TypeOK, DirtyIsLoss
<1>. QED BY <1>1, <1>2, <1>3

LEMMA FromMarkerIInv ==
  ASSUME IInv, NEW call, NEW kind, NEW room, NEW b \in Int,
         CopyFromMarkerAt(call, kind, room, b)
  PROVE  IInv'
<1>0. mark \in Int
  BY DEF IInv, TypeOK
<1>1. CASE b < 0 \/ mark - b + 1 < 1
  BY <1>1 DEF CopyFromMarkerAt, IInv, TypeOK, HoldsNewest, DirtyIsLoss
<1>2. CASE b >= 0 /\ mark - b + 1 >= 1
  <2>1. MoveMarker(b)
    BY <1>2 DEF CopyFromMarkerAt, IInv, TypeOK
  <2>2. b \in 0 .. qbound - 1
    BY <1>2 DEF IInv, TypeOK
  <2>. QED BY <2>1, <2>2, MoveMarkerIInv
<1>. QED BY <1>0, <1>1, <1>2

LEMMA NextIInv == IInv /\ [Next]_vars => IInv'
<1> SUFFICES ASSUME IInv, [Next]_vars PROVE IInv'
  OBVIOUS
<1> USE SizesAssumption, MaxBoundAssumption
<1>1. CASE Push
  BY <1>1, PushIInv
<1>2. ASSUME NEW sz \in Sizes, BoundSize(sz) PROVE IInv'
  BY <1>2, BoundSizeIInv
<1>3. ASSUME NEW kind \in Kinds, NEW room \in Sizes,
             NEW end \in Indices, NEW beg \in Indices,
             Copy(kind, room, end, beg)
      PROVE  IInv'
  <2>1. MoveMarker(Adjust(beg)) /\ Adjust(beg) \in 0 .. qbound - 1
    BY <1>3 DEF Copy, ValidRange
  <2>. QED BY <2>1, MoveMarkerIInv
<1>4. ASSUME NEW end \in Indices, NEW beg \in Indices, Vector(end, beg)
      PROVE  IInv'
  <2>1. MoveMarker(Adjust(beg)) /\ Adjust(beg) \in 0 .. qbound - 1
    BY <1>4 DEF Vector, ValidRange
  <2>. QED BY <2>1, MoveMarkerIInv
<1>5. ASSUME NEW indx \in Indices, At(indx) PROVE IInv'
  <2>1. MoveMarker(Adjust(indx)) /\ Adjust(indx) \in 0 .. qbound - 1
    BY <1>5 DEF At, ValidRange
  <2>. QED BY <2>1, MoveMarkerIInv
<1>6. ASSUME NEW kind \in Kinds, NEW room \in Sizes, NEW beg \in Indices,
             CopyFromMarker(kind, room, beg)
      PROVE  IInv'
  <2>1. (IF beg < 0 THEN beg + qcount ELSE beg) \in Int
    BY DEF Indices, IInv, TypeOK
  <2>. QED BY <1>6, <2>1, FromMarkerIInv DEF CopyFromMarker
<1>7. ASSUME NEW kind \in Kinds, NEW room \in Sizes,
             NCopyFromMarker(kind, room)
      PROVE  IInv'
  <2>1. Greater(mark - room + 1, 0) \in Int
    BY DEF Greater, IInv, TypeOK
  <2>. QED BY <1>7, <2>1, FromMarkerIInv DEF NCopyFromMarker
<1>8. ASSUME NEW indx \in Indices, LeaveMarker(indx) PROVE IInv'
  BY <1>8 DEF LeaveMarker, IInv, TypeOK, HoldsNewest, DirtyIsLoss
<1>9. CASE UNCHANGED vars
  BY <1>9 DEF vars, IInv, TypeOK, HoldsNewest, DirtyIsLoss
<1>. QED BY <1>1, <1>2, <1>3, <1>4, <1>5, <1>6, <1>7, <1>8, <1>9 DEF Next

LEMMA IInvInvariant == Spec => []IInv
BY InitIInv, NextIInv, PTL DEF Spec

(* Every variable keeps its type: in particular the deque has _qbound      *)
(* slots and the marker is one of them, so that the decrement meant for an *)
(* inconsistent marker in _incr_internal_counts is never reached.          *)
THEOREM TypeCorrect == Spec => []TypeOK
BY IInvInvariant, PTL DEF IInv

(* The occupied slots always hold the newest values, each beside its own   *)
(* stamp, whatever pushes and resizes came before.                         *)
THEOREM NewestHeld == Spec => []HoldsNewest
BY IInvInvariant, PTL DEF IInv

(* The dirty flag is set exactly when an unread value has been dropped.    *)
THEOREM DirtyMeansLoss == Spec => []DirtyIsLoss
BY IInvInvariant, PTL DEF IInv

-----------------------------------------------------------------------------
(* What the from-marker reads return. *)

(* With room for anything at all, a read from an occupied marker back to   *)
(* index b copies all of it or as much as there is room for, in each of    *)
(* the three shapes of copy.                                               *)
LEMMA CountInside ==
  ASSUME TypeOK, NEW kind \in Kinds, NEW room \in Nat, room > 0,
         mark < qcount, NEW b \in 0 .. mark
  PROVE  /\ Returned(kind, room, mark, b) = Lesser(room, mark - b + 1)
         /\ Written(kind, room, mark, b) = Lesser(room, mark - b + 1)
<1>1. CopyCount(room, mark, b) = Lesser(room, mark - b + 1)
  BY DEF TypeOK, CopyCount, Lesser, Greater
<1>2. mark = b => Lesser(room, mark - b + 1) = 1
  BY DEF TypeOK, Lesser
<1>. QED BY <1>1, <1>2 DEF Returned, Written

(* The slots from b on are the values down from the one number b behind    *)
(* the newest, and their stamps.                                           *)
LEMMA SliceInside ==
  ASSUME TypeOK, HoldsNewest, NEW b \in Nat, NEW n \in Nat, b + n <= qcount
  PROVE  /\ Slice(deque, b, n) = [i \in 0 .. n - 1 |-> pushed - b - i]
         /\ Slice(stamps, b, n) = Slice(deque, b, n)
<1>1. ASSUME NEW i \in 0 .. n - 1
      PROVE  deque[b + i] = pushed - b - i /\ stamps[b + i] = deque[b + i]
  <2>1. b + i \in 0 .. qbound - 1 /\ b + i < qcount
    BY DEF TypeOK
  <2>. QED BY <2>1 DEF TypeOK, HoldsNewest
<1>. QED BY <1>1 DEF Slice

LEMMA EmptySlice ==
  ASSUME NEW d, NEW b
  PROVE  Slice(d, b, 0) = Nothing
<1>1. 0 .. 0 - 1 = {}
  OBVIOUS
<1>. QED BY <1>1 DEF Slice, Nothing

(* A from-marker read with room, from a marker inside the occupied part:   *)
(* either nothing happened, or the values from the marker to index b were  *)
(* copied as far as the room went, and the size says which.                *)
LEMMA FromMarkerRead ==
  ASSUME IInv, NEW call \in FromMarkerCalls, NEW kind \in Kinds,
         NEW room \in Nat, room > 0, NEW b \in Int, mark < qcount,
         b >= 0, mark - b + 1 >= 1,
         CopyFromMarkerAt(call, kind, room, b)
  PROVE  LET n == Lesser(room, mark - b + 1) IN
         /\ n \in 1 .. mark - b + 1
         /\ out'.call = call
         /\ out'.room = room
         /\ out'.since = cursor
         /\ out'.unread = mark + 1
         /\ out'.wasDirty = dirty
         /\ out'.inside = TRUE
         /\ out'.size = IF dirty \/ n < mark - b + 1 THEN -n ELSE n
         /\ out'.vals = [i \in 0 .. n - 1 |-> cursor' - i]
         /\ out'.dts \in {Nothing, out'.vals}
         /\ cursor' = pushed - b
<1> DEFINE n == Lesser(room, mark - b + 1)
<1> USE DEF IInv
<1>1. b \in 0 .. mark /\ b \in Nat
  BY DEF TypeOK
<1>2. n \in 1 .. mark - b + 1 /\ n \in Nat /\ b + n <= qcount
  BY <1>1 DEF TypeOK, Lesser
<1>3. Returned(kind, room, mark, b) = n /\ Written(kind, room, mark, b) = n
  BY <1>1, CountInside
<1> HIDE DEF n
<1>4. /\ out' = Result(call, room,
                       IF dirty \/ n < mark - b + 1 THEN -n ELSE n,
                       b, n, StampCount(kind, n))
      /\ MoveMarker(b)
  BY <1>1, <1>3 DEF CopyFromMarkerAt, TypeOK
<1>5. cursor' = pushed - b
  BY <1>4 DEF MoveMarker
<1>6. Slice(deque, b, n) = [i \in 0 .. n - 1 |-> cursor' - i]
  BY <1>1, <1>2, <1>5, SliceInside
<1>7. Slice(stamps, b, StampCount(kind, n)) \in {Nothing, Slice(deque, b, n)}
  <2>1. CASE kind = "strings"
    BY <2>1, EmptySlice DEF StampCount
  <2>2. CASE kind # "strings"
    BY <1>1, <1>2, <2>2, SliceInside DEF StampCount
  <2>. QED BY <2>1, <2>2
<1>8. (mark < qcount) = TRUE
  OBVIOUS
<1>9. /\ out'.call = call
      /\ out'.room = room
      /\ out'.since = cursor
      /\ out'.unread = mark + 1
      /\ out'.wasDirty = dirty
      /\ out'.inside = TRUE
      /\ out'.size = IF dirty \/ n < mark - b + 1 THEN -n ELSE n
      /\ out'.vals = Slice(deque, b, n)
      /\ out'.dts = Slice(stamps, b, StampCount(kind, n))
  BY <1>4, <1>8 DEF Result
<1>. QED BY <1>2, <1>5, <1>6, <1>7, <1>9 DEF n

(* A from-marker read that has nothing to do changes the result only.      *)
LEMMA FromMarkerEmpty ==
  ASSUME NEW call, NEW kind, NEW room, NEW b \in Int, mark \in Int,
         b < 0 \/ mark - b + 1 < 1,
         CopyFromMarkerAt(call, kind, room, b)
  PROVE  /\ UNCHANGED <<deque, stamps, qbound, qcount, mark, dirty, pushed, cursor>>
         /\ out'.call = call
         /\ out'.room = room
         /\ out'.since = cursor
         /\ out'.unread = mark + 1
         /\ out'.size = 0
         /\ out'.vals = Nothing
         /\ out'.dts = Nothing
<1>1. /\ out' = Result(call, room, 0, 0, 0, 0)
      /\ UNCHANGED <<deque, stamps, qbound, qcount, mark, dirty, pushed, cursor>>
  BY DEF CopyFromMarkerAt
<1>. QED BY <1>1, EmptySlice DEF Result

Results == ResumesExactly /\ NegativeIsExplained

LEMMA FromMarkerResults ==
  ASSUME IInv, NEW call \in FromMarkerCalls, NEW kind \in Kinds,
         NEW room \in Nat, NEW b \in Int,
         CopyFromMarkerAt(call, kind, room, b)
  PROVE  Results'
<1>1. CASE b < 0 \/ mark - b + 1 < 1
  <2>0. mark \in Int
    BY DEF IInv, TypeOK
  <2>1. /\ cursor' = cursor /\ out'.since = cursor /\ out'.size = 0
        /\ out'.vals = Nothing /\ out'.dts = Nothing
    BY <1>1, <2>0, FromMarkerEmpty
  <2>2. Nothing = [i \in 0 .. 0 - 1 |-> cursor' - i]
    BY DEF Nothing
  <2>. QED
    BY <2>1, <2>2 DEF Results, ResumesExactly, NegativeIsExplained, IInv, TypeOK
<1>2. CASE b >= 0 /\ mark - b + 1 >= 1 /\ room > 0 /\ mark < qcount
  <2> DEFINE n == Lesser(room, mark - b + 1)
  <2>1. /\ n \in 1 .. mark - b + 1
        /\ out'.room = room
        /\ out'.since = cursor
        /\ out'.wasDirty = dirty
        /\ out'.size = IF dirty \/ n < mark - b + 1 THEN -n ELSE n
        /\ out'.vals = [i \in 0 .. n - 1 |-> cursor' - i]
        /\ out'.dts \in {Nothing, out'.vals}
        /\ cursor' = pushed - b
    BY <1>2, FromMarkerRead
  <2>2. n < mark - b + 1 => n = room
    BY DEF Lesser, IInv, TypeOK
  <2> HIDE DEF n
  <2>3. CASE dirty
    <3>1. out'.size = -n /\ -(-n) = n /\ out'.wasDirty
      BY <2>1, <2>3 DEF IInv, TypeOK
    <3>. QED BY <2>1, <3>1 DEF Results, ResumesExactly, NegativeIsExplained
  <2>4. CASE ~dirty /\ n < mark - b + 1
    <3>1. out'.size = -n /\ -(-n) = n
      BY <2>1, <2>4 DEF IInv, TypeOK
    <3>2. out'.room < cursor' - out'.since
      BY <2>1, <2>2, <2>4 DEF IInv, TypeOK, DirtyIsLoss
    <3>. QED BY <2>1, <3>1, <3>2 DEF Results, ResumesExactly, NegativeIsExplained
  <2>5. CASE ~dirty /\ ~(n < mark - b + 1)
    <3>1. out'.size = n /\ cursor' - out'.since = n
      BY <2>1, <2>5 DEF IInv, TypeOK, DirtyIsLoss
    <3>. QED BY <2>1, <3>1 DEF Results, ResumesExactly, NegativeIsExplained
  <2>. QED BY <2>3, <2>4, <2>5
<1>3. CASE b >= 0 /\ mark - b + 1 >= 1 /\ ~(room > 0 /\ mark < qcount)
  <2>1. out'.room = room /\ out'.inside = (mark < qcount)
    BY <1>3 DEF CopyFromMarkerAt, Result, IInv, TypeOK
  <2>. QED BY <1>3, <2>1 DEF Results, ResumesExactly, NegativeIsExplained
<1>. QED BY <1>1, <1>2, <1>3 DEF IInv, TypeOK

(* Any other step leaves the last result and the cursor alone, or is a     *)
(* read that does not start from the marker.                               *)
LEMMA OtherResults ==
  ASSUME Results, UNCHANGED <<cursor, out>> \/ out'.call \notin FromMarkerCalls
  PROVE  Results'
BY DEF Results, ResumesExactly, NegativeIsExplained

LEMMA IndexedReadResult ==
  ASSUME NEW call, NEW room, NEW size, NEW beg, NEW n, NEW m,
         call \notin FromMarkerCalls, out' = Result(call, room, size, beg, n, m)
  PROVE  out'.call \notin FromMarkerCalls
BY DEF Result

LEMMA NextResults == IInv /\ Results /\ [Next]_vars => Results'
<1> SUFFICES ASSUME IInv, Results, [Next]_vars PROVE Results'
  OBVIOUS
<1>1. CASE Push
  BY <1>1, OtherResults DEF Push
<1>2. ASSUME NEW sz \in Sizes, BoundSize(sz) PROVE Results'
  BY <1>2, OtherResults DEF BoundSize
<1>3. ASSUME NEW kind \in Kinds, NEW room \in Sizes,
             NEW end \in Indices, NEW beg \in Indices,
             Copy(kind, room, end, beg)
      PROVE  Results'
  BY <1>3, OtherResults, IndexedReadResult DEF Copy, FromMarkerCalls
<1>4. ASSUME NEW end \in Indices, NEW beg \in Indices, Vector(end, beg)
      PROVE  Results'
  BY <1>4, OtherResults, IndexedReadResult DEF Vector, FromMarkerCalls
<1>5. ASSUME NEW indx \in Indices, At(indx) PROVE Results'
  BY <1>5, OtherResults, IndexedReadResult DEF At, FromMarkerCalls
<1>6. ASSUME NEW kind \in Kinds, NEW room \in Sizes, NEW beg \in Indices,
             CopyFromMarker(kind, room, beg)
      PROVE  Results'
  <2>1. (IF beg < 0 THEN beg + qcount ELSE beg) \in Int
    BY MaxBoundAssumption DEF Indices, IInv, TypeOK
  <2>. QED BY <1>6, <2>1, FromMarkerResults, SizesAssumption
           DEF CopyFromMarker, FromMarkerCalls
<1>7. ASSUME NEW kind \in Kinds, NEW room \in Sizes,
             NCopyFromMarker(kind, room)
      PROVE  Results'
  <2>1. Greater(mark - room + 1, 0) \in Int
    BY SizesAssumption DEF Greater, IInv, TypeOK
  <2>. QED BY <1>7, <2>1, FromMarkerResults, SizesAssumption
           DEF NCopyFromMarker, FromMarkerCalls
<1>8. ASSUME NEW indx \in Indices, LeaveMarker(indx) PROVE Results'
  BY <1>8, OtherResults, IndexedReadResult DEF LeaveMarker, FromMarkerCalls
<1>9. CASE UNCHANGED vars
  BY <1>9, OtherResults DEF vars
<1>. QED BY <1>1, <1>2, <1>3, <1>4, <1>5, <1>6, <1>7, <1>8, <1>9 DEF Next

LEMMA ResultsInvariant == Spec => []Results
<1>1. Init => Results
  BY DEF Init, NoResult, Results, ResumesExactly, NegativeIsExplained, FromMarkerCalls
<1>. QED BY <1>1, NextResults, IInvInvariant, PTL DEF Spec

(* README_API.md:587: a from-marker read that reports no loss delivers     *)
(* exactly the values since the last read ended, in order.                 *)
THEOREM MarkerResumes == Spec => []ResumesExactly
BY ResultsInvariant, PTL DEF Results

(* README_API.md:597: a negative size means loss or too little room.       *)
THEOREM NegativeExplained == Spec => []NegativeIsExplained
BY ResultsInvariant, PTL DEF Results

(* ncopy_from_marker picks the index so that the room is filled from the   *)
(* marker on.                                                              *)
LEMMA NFromMarkerResult ==
  ASSUME IInv, NEW kind \in Kinds, NEW room \in Nat,
         NCopyFromMarker(kind, room)
  PROVE  NFromMarkerKeepsTheRest'
<1> DEFINE b == Greater(mark - room + 1, 0)
<1>1. b \in Nat /\ (b = mark - room + 1 \/ (b = 0 /\ mark - room + 1 <= 0))
  BY DEF Greater, IInv, TypeOK
<1> HIDE DEF b
<1>2. CopyFromMarkerAt("n_from_marker", kind, room, b)
  BY DEF NCopyFromMarker, b
<1>3. CASE room > 0 /\ mark - b + 1 < 1
  <2>1. out'.size = 0 /\ out'.room = room /\ out'.unread = mark + 1
    BY <1>1, <1>2, <1>3, FromMarkerEmpty DEF IInv, TypeOK
  <2>2. Lesser(room, mark + 1) = 0
    BY <1>1, <1>3 DEF Lesser, IInv, TypeOK
  <2>. QED BY <2>1, <2>2 DEF NFromMarkerKeepsTheRest
<1>4. CASE room > 0 /\ mark - b + 1 >= 1 /\ mark < qcount
  <2> DEFINE n == Lesser(room, mark - b + 1)
  <2>1. /\ out'.room = room
        /\ out'.unread = mark + 1
        /\ out'.wasDirty = dirty
        /\ out'.size = IF dirty \/ n < mark - b + 1 THEN -n ELSE n
    <3>1. b \in Int /\ b >= 0 /\ "n_from_marker" \in FromMarkerCalls
      BY <1>1 DEF FromMarkerCalls
    <3>. QED BY <1>2, <1>4, <3>1, FromMarkerRead
  <2>2. n = mark - b + 1 /\ n = Lesser(room, mark + 1)
    BY <1>1, <1>4 DEF Lesser, IInv, TypeOK
  <2> HIDE DEF n
  <2>3. ~dirty => out'.size = n
    BY <2>1, <2>2 DEF IInv, TypeOK
  <2>. QED BY <2>1, <2>2, <2>3 DEF NFromMarkerKeepsTheRest
<1>5. CASE ~(room > 0) \/ (mark - b + 1 >= 1 /\ ~(mark < qcount))
  <2>1. out'.room = room /\ out'.inside = (mark < qcount)
    BY <1>2, <1>5 DEF CopyFromMarkerAt, Result, IInv, TypeOK
  <2>. QED BY <1>5, <2>1 DEF NFromMarkerKeepsTheRest
<1>. QED BY <1>1, <1>3, <1>4, <1>5 DEF IInv, TypeOK

LEMMA NextNFromMarker ==
  IInv /\ NFromMarkerKeepsTheRest /\ [Next]_vars => NFromMarkerKeepsTheRest'
<1> SUFFICES ASSUME IInv, NFromMarkerKeepsTheRest, [Next]_vars
             PROVE  NFromMarkerKeepsTheRest'
  OBVIOUS
<1>1. CASE UNCHANGED out
  BY <1>1 DEF NFromMarkerKeepsTheRest
<1>2. CASE out'.call # "n_from_marker"
  BY <1>2 DEF NFromMarkerKeepsTheRest
<1>3. ASSUME NEW kind \in Kinds, NEW room \in Sizes, NCopyFromMarker(kind, room)
      PROVE  NFromMarkerKeepsTheRest'
  BY <1>3, NFromMarkerResult, SizesAssumption
<1>4. ASSUME NEW kind \in Kinds, NEW room \in Sizes, NEW beg \in Indices,
             CopyFromMarker(kind, room, beg)
      PROVE  out'.call # "n_from_marker"
  BY <1>4 DEF CopyFromMarker, CopyFromMarkerAt, Result
<1>5. ASSUME \/ \E kind \in Kinds, room \in Sizes, end, beg \in Indices :
                  Copy(kind, room, end, beg)
             \/ \E end, beg \in Indices : Vector(end, beg)
             \/ \E indx \in Indices : At(indx) \/ LeaveMarker(indx)
      PROVE  out'.call # "n_from_marker"
  BY <1>5 DEF Copy, Vector, At, LeaveMarker, Result
<1>6. ASSUME Push \/ (\E sz \in Sizes : BoundSize(sz)) \/ UNCHANGED vars
      PROVE  UNCHANGED out
  BY <1>6 DEF Push, BoundSize, vars
<1>. QED BY <1>1, <1>2, <1>3, <1>4, <1>5, <1>6 DEF Next

(* README_API.md:616: n values at a time, a clean reader misses none.      *)
THEOREM NFromMarkerComplete == Spec => []NFromMarkerKeepsTheRest
<1>1. Init => NFromMarkerKeepsTheRest
  BY DEF Init, NoResult, NFromMarkerKeepsTheRest
<1>. QED BY <1>1, NextNFromMarker, IInvInvariant, PTL DEF Spec

-----------------------------------------------------------------------------
(* The stream implements the marker log. *)

Inside == mark < qcount

Step == Next /\ mark' < qcount'

LEMMA InsideInvariant == SpecInside => [](IInv /\ Inside)
<1>1. Init => IInv /\ Inside
  BY InitIInv DEF Init, Inside
<1>2. IInv /\ Inside /\ [Step]_vars => (IInv /\ Inside)'
  BY NextIInv DEF Step, Inside, vars
<1>. QED BY <1>1, <1>2, PTL DEF SpecInside, Step

LEMMA LogInit == Init => Log!Init
BY DEF Init, Log!Init, Log!NoGot, NoResult, Nothing, Blank, FromMarkerCalls

(* A read by index repositions the reader of the log.                      *)
LEMMA LogReposition ==
  ASSUME IInv, NEW b \in 0 .. qbound - 1, MoveMarker(b), mark' < qcount',
         out'.call \notin FromMarkerCalls
  PROVE  Log!Reposition
<1>1. cursor' = pushed - b /\ mark' = b - 1 /\ pushed' = pushed /\ qcount' = qcount
  BY DEF MoveMarker
<1>2. cursor' \in 0 .. pushed /\ pushed' - mark' - 1 = cursor'
  BY <1>1 DEF IInv, TypeOK, HoldsNewest
<1>. QED BY <1>1, <1>2 DEF Log!Reposition, Log!NoGot, Nothing, Blank

(* A from-marker read resumes the reader of the log.                       *)
LEMMA LogResume ==
  ASSUME IInv, Inside, NEW call \in FromMarkerCalls, NEW kind \in Kinds,
         NEW room \in Nat, room > 0, NEW b \in Int,
         CopyFromMarkerAt(call, kind, room, b)
  PROVE  Log!Resume \/ Log!ResumeEmpty
<1>1. CASE b < 0 \/ mark - b + 1 < 1
  <2>1. mark \in Int
    BY DEF IInv, TypeOK
  <2>2. /\ UNCHANGED <<deque, stamps, qbound, qcount, mark, dirty, pushed, cursor>>
        /\ out'.call = call /\ out'.since = cursor
        /\ out'.size = 0 /\ out'.vals = Nothing
    BY <1>1, <2>1, FromMarkerEmpty
  <2>. QED BY <2>2 DEF Log!ResumeEmpty, Log!NoGot, Nothing, Blank
<1>2. CASE b >= 0 /\ mark - b + 1 >= 1
  <2> DEFINE n == Lesser(room, mark - b + 1)
             upto == pushed - b
             floor == pushed - mark - 1
  <2>1. /\ n \in 1 .. mark - b + 1
        /\ out'.call = call
        /\ out'.since = cursor
        /\ out'.size = IF dirty \/ n < mark - b + 1 THEN -n ELSE n
        /\ out'.vals = [i \in 0 .. n - 1 |-> cursor' - i]
        /\ cursor' = upto
    BY <1>2, FromMarkerRead DEF Inside
  <2>2. mark' = b - 1 /\ pushed' = pushed
    BY <1>2 DEF CopyFromMarkerAt, MoveMarker, IInv, TypeOK
  <2> HIDE DEF n
  <2>. /\ mark \in -1 .. qbound - 1 /\ qbound \in Nat /\ pushed \in Nat
       /\ dirty \in BOOLEAN
    BY DEF IInv, TypeOK
  <2>3. upto \in floor + 1 .. pushed /\ n \in 1 .. upto - floor
    BY <1>2, <2>1
  <2>4. n < mark - b + 1 <=> n # upto - floor
    BY <2>1 DEF IInv, TypeOK
  <2>5. dirty <=> floor # cursor
    BY DEF IInv, TypeOK, DirtyIsLoss
  <2>6. out'.size = IF floor = cursor /\ n = upto - floor THEN n ELSE -n
    BY <2>1, <2>4, <2>5 DEF IInv, TypeOK
  <2>7. pushed' - mark' - 1 = upto
    BY <2>2 DEF IInv, TypeOK
  <2>. QED BY <2>1, <2>2, <2>3, <2>6, <2>7 DEF Log!Resume
<1>. QED BY <1>1, <1>2 DEF IInv, TypeOK

(* Moving the marker to a newer value moves the floor of the log up.       *)
LEMMA FloorAdvances ==
  ASSUME NEW p \in Nat, NEW m \in Int, NEW n \in Int, -1 <= n, n <= m
  PROVE  p - n - 1 \in p - m - 1 .. p
OBVIOUS

(* A push appends to the log; the floor follows when a value fell off.     *)
LEMMA LogAppend == IInv /\ Push => Log!Append
<1> SUFFICES ASSUME IInv, Push PROVE Log!Append
  OBVIOUS
<1>0. qbound \in Nat /\ pushed \in Nat /\ mark \in Int /\ mark <= qbound - 1
  BY MaxBoundAssumption DEF IInv, TypeOK
<1>1. pushed' = pushed + 1 /\ cursor' = cursor /\ out' = out
  BY DEF Push
<1>2. mark' = mark \/ mark' = mark + 1
  <2>1. mark' = IF mark = qbound - 1 THEN mark
                ELSE IF mark < qbound - 1 THEN mark + 1 ELSE mark - 1
    BY DEF Push, IncrInternalCounts
  <2>. QED BY <1>0, <2>1
<1>3. pushed' - mark' - 1 \in {pushed - mark - 1, pushed - mark - 1 + 1}
  <2>1. ASSUME mark' = mark PROVE pushed' - mark' - 1 = pushed - mark - 1 + 1
    BY <1>0, <1>1, <2>1
  <2>2. ASSUME mark' = mark + 1 PROVE pushed' - mark' - 1 = pushed - mark - 1
    BY <1>0, <1>1, <2>2
  <2>. QED BY <1>2, <2>1, <2>2
<1>. QED BY <1>1, <1>3 DEF Log!Append

(* A new bound trims the log.                                              *)
LEMMA LogTrim ==
  ASSUME IInv, NEW sz \in Nat, BoundSize(sz)
  PROVE  Log!Trim
<1>0. pushed \in Nat /\ mark \in Int /\ -1 <= mark
  BY DEF IInv, TypeOK
<1>1. pushed' = pushed /\ cursor' = cursor /\ out' = out
  BY DEF BoundSize
<1>2. mark' \in Int /\ -1 <= mark' /\ mark' <= mark
  <2>1. ClampBound(sz) \in 1 .. MaxBound
    BY ClampBoundType
  <2>2. mark' = mark \/ (ClampBound(sz) <= mark /\ mark' = ClampBound(sz) - 1)
    BY DEF BoundSize
  <2>. QED BY <1>0, <2>1, <2>2, MaxBoundAssumption
<1>3. pushed' - mark' - 1 \in pushed - mark - 1 .. pushed
  BY <1>0, <1>1, <1>2, FloorAdvances
<1>. QED BY <1>1, <1>3 DEF Log!Trim

(* Looking at a value leaves the reader of the log where it is.            *)
LEMMA LogLook ==
  ASSUME NEW indx, LeaveMarker(indx)
  PROVE  Log!Look
<1>1. /\ pushed' = pushed /\ cursor' = cursor /\ mark' = mark
      /\ out'.call \notin FromMarkerCalls
  BY DEF LeaveMarker, Result, FromMarkerCalls
<1>. QED BY <1>1 DEF Log!Look, Log!NoGot, Nothing, Blank

LEMMA LogNext ==
  ASSUME 0 \notin Sizes, IInv, Inside, Step
  PROVE  [Log!Next]_(Log!vars)
<1>0. /\ qbound \in Nat /\ qcount \in Nat /\ pushed \in Nat
      /\ mark \in Int /\ -1 <= mark /\ mark <= qbound - 1
  BY MaxBoundAssumption DEF IInv, TypeOK
<1>1. CASE Push
  BY <1>1, LogAppend DEF Log!Next
<1>2. ASSUME NEW sz \in Sizes, BoundSize(sz) PROVE Log!Trim
  BY <1>2, LogTrim, SizesAssumption
<1>3. ASSUME NEW kind \in Kinds, NEW room \in Sizes,
             NEW end \in Indices, NEW beg \in Indices,
             Copy(kind, room, end, beg)
      PROVE  Log!Reposition
  <2>1. MoveMarker(Adjust(beg)) /\ Adjust(beg) \in 0 .. qbound - 1
    BY <1>3 DEF Copy, ValidRange
  <2>2. out'.call \notin FromMarkerCalls
    BY <1>3, IndexedReadResult DEF Copy, FromMarkerCalls
  <2>. QED BY <2>1, <2>2, LogReposition DEF Step
<1>4. ASSUME NEW end \in Indices, NEW beg \in Indices, Vector(end, beg)
      PROVE  Log!Reposition
  <2>1. MoveMarker(Adjust(beg)) /\ Adjust(beg) \in 0 .. qbound - 1
    BY <1>4 DEF Vector, ValidRange
  <2>2. out'.call \notin FromMarkerCalls
    BY <1>4, IndexedReadResult DEF Vector, FromMarkerCalls
  <2>. QED BY <2>1, <2>2, LogReposition DEF Step
<1>5. ASSUME NEW indx \in Indices, At(indx) PROVE Log!Reposition
  <2>1. MoveMarker(Adjust(indx)) /\ Adjust(indx) \in 0 .. qbound - 1
    BY <1>5 DEF At, ValidRange
  <2>2. out'.call \notin FromMarkerCalls
    BY <1>5, IndexedReadResult DEF At, FromMarkerCalls
  <2>. QED BY <2>1, <2>2, LogReposition DEF Step
<1>6. ASSUME NEW kind \in Kinds, NEW room \in Sizes, NEW beg \in Indices,
             CopyFromMarker(kind, room, beg)
      PROVE  Log!Resume \/ Log!ResumeEmpty
  <2>1. (IF beg < 0 THEN beg + qcount ELSE beg) \in Int
    BY <1>0, MaxBoundAssumption DEF Indices
  <2>. QED BY <1>6, <2>1, LogResume, SizesAssumption DEF CopyFromMarker, FromMarkerCalls
<1>7. ASSUME NEW kind \in Kinds, NEW room \in Sizes,
             NCopyFromMarker(kind, room)
      PROVE  Log!Resume \/ Log!ResumeEmpty
  <2>1. Greater(mark - room + 1, 0) \in Int
    BY <1>0, SizesAssumption DEF Greater
  <2>. QED BY <1>7, <2>1, LogResume, SizesAssumption DEF NCopyFromMarker, FromMarkerCalls
<1>8. ASSUME NEW indx \in Indices, LeaveMarker(indx) PROVE Log!Look
  BY <1>8, LogLook
<1>. QED BY <1>1, <1>2, <1>3, <1>4, <1>5, <1>6, <1>7, <1>8
         DEF Step, Next, Log!Next

(* README_API.md:587: for callers that stay inside the occupied slots and  *)
(* pass some room, the stream is a log read through a cursor that loses    *)
(* nothing without saying so.                                              *)
THEOREM StreamRefinesLog == 0 \notin Sizes => (SpecInside => RefinesLog)
<1> SUFFICES ASSUME 0 \notin Sizes PROVE SpecInside => RefinesLog
  OBVIOUS
<1>1. IInv /\ Inside /\ [Step]_vars => [Log!Next]_(Log!vars)
  <2>1. UNCHANGED vars => UNCHANGED Log!vars
    BY DEF vars, Log!vars
  <2>. QED BY <2>1, LogNext
<1>. QED BY <1>1, LogInit, InsideInvariant, PTL
         DEF SpecInside, RefinesLog, Log!Spec, Step
=============================================================================
