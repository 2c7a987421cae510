------------------------- MODULE StreamClientProofs -------------------------
(***************************************************************************)
(* Proofs about StreamClient: what its calls answer, and that they and the *)
(* stream together implement the marker log, for every bound, margin and   *)
(* number of pushes.                                                       *)
(*                                                                         *)
(* The invariant adds to that of the stream what a call under way still    *)
(* knows of it when values have come in since: the indices it chose are    *)
(* occupied, because the occupancy never shrinks under a call, and the     *)
(* room it chose is what is in front of the marker and the margin, less    *)
(* what came in since.                                                     *)
(***************************************************************************)
EXTENDS StreamClient, DataStreamProofs

Requests ==
  [op : Ops, step : Steps, end : 0 .. qbound - 1, beg : 0 .. qbound - 1,
   room : Nat, throws : BOOLEAN, at : 0 .. pushed]

(* What the step that comes next relies on.                                *)
Grounds ==
  /\ req.step \in {"idle", "check", "position", "copy", "read", "snapshot"}
  /\ req.step \in {"check", "copy"} => req.op \in FromMarkerCalls
  /\ req.step = "position" => req.op = "from_marker"
  /\ (req.step = "check" /\ req.op = "n_from_marker") => req.room > 0
  /\ req.step = "copy" => req.room > 0
  /\ (req.step = "copy" /\ req.op = "from_marker")
       => mark - req.beg + 1 + Margin <= req.room + pushed - req.at
  /\ req.step = "read" => req.op = "get" /\ req.room = 1 /\ req.beg < qcount
  /\ req.step = "snapshot" => /\ req.op = "snapshot"
                              /\ req.beg <= req.end
                              /\ req.room > 0
                              /\ req.room + req.beg <= qcount
                              /\ req.room + req.beg <= req.end + 1

Hows == {"data", "empty", "raise"}

CInv ==
  /\ IInv
  /\ Inside
  /\ req \in Requests
  /\ Grounds
  /\ answer.how \in Hows

-----------------------------------------------------------------------------
(* The invariant. *)

LEMMA BoundsNat ==
  ASSUME IInv, Inside
  PROVE  /\ qbound \in Nat /\ qbound >= 1 /\ qcount \in Nat /\ qcount <= qbound
         /\ pushed \in Nat /\ mark \in Int /\ -1 <= mark /\ mark < qcount
BY MaxBoundAssumption DEF IInv, TypeOK, Inside

(* The idle request has its type whatever the bound, and needs no grounds. *)
LEMMA IdleTyped ==
  ASSUME NEW b \in Nat, b >= 1, NEW p \in Nat
  PROVE  Idle \in [op : Ops, step : Steps, end : 0 .. b - 1, beg : 0 .. b - 1,
                   room : Nat, throws : BOOLEAN, at : 0 .. p]
BY DEF Idle, Ops, Steps

LEMMA IdleGrounds == req = Idle => Grounds
BY DEF Idle, Grounds

LEMMA InitCInv == ClientInit => CInv
<1> SUFFICES ASSUME ClientInit PROVE CInv
  OBVIOUS
<1>1. IInv /\ Inside
  BY InitIInv DEF ClientInit, Init, Inside
<1>2. req = Idle /\ answer.how \in Hows
  BY DEF ClientInit, NoAnswer, Hows
<1>3. req \in Requests /\ Grounds
  BY <1>1, <1>2, BoundsNat, IdleTyped, IdleGrounds DEF Requests
<1>. QED BY <1>1, <1>2, <1>3 DEF CInv

(* The counters after a push, for a call under way.                        *)
LEMMA PushCounts ==
  ASSUME IInv, Inside, Push
  PROVE  /\ qbound' = qbound /\ pushed' = pushed + 1 /\ qcount' >= qcount
         /\ mark' <= mark + 1 /\ mark' < qcount' /\ mark' \in Int
         /\ qcount' \in Nat
<1>1. qbound' = qbound /\ pushed' = pushed + 1 /\ IncrInternalCounts
  BY DEF Push
<1>. QED BY <1>1, BoundsNat DEF IncrInternalCounts, Inside

LEMMA ArrivalCInv == CInv /\ Arrival => CInv'
<1> SUFFICES ASSUME CInv, Arrival PROVE CInv'
  OBVIOUS
<1> USE DEF CInv
<1>1. Push /\ req' = req /\ answer' = answer
  BY DEF Arrival, insert_data
<1>2. IInv'
  BY <1>1, PushIInv
<1>3. Inside'
  BY <1>1, PushCounts DEF Inside
<1>4. req' \in Requests'
  BY <1>1, PushCounts, BoundsNat DEF Requests
<1>5. Grounds'
  <2>1. req.at \in Nat /\ req.room \in Nat /\ req.beg \in Nat /\ req.end \in Nat
    BY BoundsNat DEF Requests
  <2>2. (req.step = "copy" /\ req.op = "from_marker")
          => mark' - req.beg + 1 + Margin <= req.room + pushed' - req.at
    BY <1>1, <2>1, PushCounts, BoundsNat, MarginAssumption DEF Grounds
  <2>3. req.step = "read" => req.beg < qcount'
    BY <1>1, <2>1, PushCounts, BoundsNat DEF Grounds
  <2>4. req.step = "snapshot" => req.room + req.beg <= qcount'
    BY <1>1, <2>1, PushCounts, BoundsNat DEF Grounds
  <2>. QED BY <1>1, <2>2, <2>3, <2>4 DEF Grounds
<1>. QED BY <1>1, <1>2, <1>3, <1>4, <1>5

(* A call that returns leaves nothing to be relied on.                     *)
LEMMA FinishCInv ==
  ASSUME CInv, IInv', Inside', NEW how \in Hows, Finish(how)
  PROVE  CInv'
<1>1. req' = Idle /\ answer'.how = how
  BY DEF Finish
<1>2. qbound' \in Nat /\ qbound' >= 1 /\ pushed' \in Nat
  BY MaxBoundAssumption DEF IInv, TypeOK
<1>3. req' \in Requests'
  BY <1>1, <1>2, IdleTyped DEF Requests
<1>4. Grounds'
  BY <1>1 DEF Idle, Grounds
<1>. QED BY <1>1, <1>3, <1>4 DEF CInv

(* A block size that is accepted is the bound the streams are given.       *)
LEMMA SetBlockSizeStream ==
  ASSUME NEW size \in Sizes, CallSetBlockSize(size)
  PROVE  BoundSize(size) /\ req = Idle /\ req' = Idle /\ answer' = answer
<1>1. SetBlockSize(size) /\ req = Idle /\ req' = req /\ answer' = answer
  BY DEF CallSetBlockSize
<1>2. Lesser(size, MaxBound) = size
  BY <1>1, MaxBoundAssumption DEF SetBlockSize, IsValidBlockSize, Lesser
<1>. QED BY <1>1, <1>2 DEF SetBlockSize, block_size

LEMMA SetBlockSizeCInv ==
  ASSUME CInv, NEW size \in Sizes, CallSetBlockSize(size)
  PROVE  CInv'
<1>1. BoundSize(size) /\ req = Idle /\ req' = Idle /\ answer' = answer
  BY SetBlockSizeStream
<1>2. IInv'
  BY <1>1, BoundSizeIInv, SizesAssumption DEF CInv
<1>3. Inside'
  <2>1. ClampBound(size) \in 1 .. MaxBound
    BY SizesAssumption, ClampBoundType
  <2>2. qcount' = Lesser(ClampBound(size), qcount)
    BY <1>1 DEF BoundSize
  <2>3. \/ ClampBound(size) <= mark /\ mark' = ClampBound(size) - 1
        \/ ~(ClampBound(size) < qbound /\ ClampBound(size) <= mark) /\ mark' = mark
    BY <1>1 DEF BoundSize
  <2>. QED BY <2>1, <2>2, <2>3, BoundsNat, MaxBoundAssumption DEF Inside, Lesser, CInv
<1>4. qbound' \in Nat /\ qbound' >= 1 /\ pushed' \in Nat
  BY <1>2, MaxBoundAssumption DEF IInv, TypeOK
<1>5. req' \in Requests'
  BY <1>1, <1>4, IdleTyped DEF Requests
<1>6. Grounds'
  BY <1>1 DEF Idle, Grounds
<1>. QED BY <1>1, <1>2, <1>3, <1>5, <1>6 DEF CInv

(* A step of a call that leaves the stream alone keeps its invariant.      *)
LEMMA StreamUnchangedIInv ==
  ASSUME IInv, Inside, UNCHANGED vars
  PROVE  IInv' /\ Inside'
BY DEF vars, IInv, TypeOK, HoldsNewest, DirtyIsLoss, Inside

(* A call that begins with grounds for its first step keeps the invariant. *)
LEMMA BeginCInv ==
  ASSUME CInv, NEW op, NEW step, NEW end, NEW beg, NEW room, NEW throws,
         Begin(op, step, end, beg, room, throws),
         [op |-> op, step |-> step, end |-> end, beg |-> beg, room |-> room,
          throws |-> throws, at |-> pushed] \in Requests,
         Grounds'
  PROVE  CInv'
<1>1. UNCHANGED vars /\ answer'.how \in Hows
  BY DEF Begin, streamUnchanged, NoAnswer, Hows
<1>2. req' \in Requests'
  BY <1>1 DEF Begin, Requests, vars
<1>. QED BY <1>1, <1>2, StreamUnchangedIInv DEF CInv

LEMMA CallFromMarkerCInv ==
  ASSUME CInv, NEW beg \in Positions, NEW throws \in BOOLEAN,
         CallFromMarker(beg, throws)
  PROVE  CInv'
<1> DEFINE step == IF throws THEN "check" ELSE "position"
<1>1. beg < qbound /\ Begin("from_marker", step, 0, beg, 0, throws)
  BY DEF CallFromMarker
<1>2. beg \in 0 .. qbound - 1
  BY <1>1, BoundsNat, MaxBoundAssumption DEF Positions, CInv
<1>3. step \in {"check", "position"}
  OBVIOUS
<1> HIDE DEF step
<1>4. [op |-> "from_marker", step |-> step, end |-> 0, beg |-> beg, room |-> 0,
       throws |-> throws, at |-> pushed] \in Requests
  BY <1>2, <1>3, BoundsNat DEF Requests, Ops, Steps, FromMarkerCalls, CInv
<1>5. Grounds'
  BY <1>1, <1>3 DEF Begin, Grounds, FromMarkerCalls
<1>. QED BY <1>1, <1>4, <1>5, BeginCInv

LEMMA CallNFromMarkerCInv ==
  ASSUME CInv, NEW n \in Sizes, NEW throws \in BOOLEAN,
         CallNFromMarker(n, throws)
  PROVE  CInv'
<1> DEFINE step == IF throws THEN "check" ELSE "copy"
<1>1. n > 0 /\ Begin("n_from_marker", step, 0, 0, n, throws)
  BY DEF CallNFromMarker
<1>2. n \in Nat
  BY SizesAssumption
<1>3. step \in {"check", "copy"}
  OBVIOUS
<1> HIDE DEF step
<1>4. [op |-> "n_from_marker", step |-> step, end |-> 0, beg |-> 0, room |-> n,
       throws |-> throws, at |-> pushed] \in Requests
  BY <1>2, <1>3, BoundsNat DEF Requests, Ops, Steps, FromMarkerCalls, CInv
<1>5. Grounds'
  BY <1>1, <1>3 DEF Begin, Grounds, FromMarkerCalls
<1>. QED BY <1>1, <1>4, <1>5, BeginCInv

LEMMA ProceedCInv ==
  ASSUME CInv, UNCHANGED vars, answer'.how \in Hows,
         req' \in Requests, Grounds'
  PROVE  CInv'
<1>1. req' \in Requests'
  BY DEF Requests, vars
<1>. QED BY <1>1, StreamUnchangedIInv DEF CInv

LEMMA CheckDirtyCInv == CInv /\ CheckDirty => CInv'
<1> SUFFICES ASSUME CInv, CheckDirty PROVE CInv'
  OBVIOUS
<1>1. UNCHANGED vars /\ req.step = "check"
  BY DEF CheckDirty, IsMarkerDirty, streamUnchanged
<1>2. CASE dirty
  BY <1>1, <1>2, FinishCInv, StreamUnchangedIInv DEF CheckDirty, IsMarkerDirty, Hows, CInv
<1>3. CASE ~dirty
  <2> DEFINE step == IF req.op = "from_marker" THEN "position" ELSE "copy"
  <2>1. req' = [req EXCEPT !.step = step] /\ answer' = answer
    BY <1>3 DEF CheckDirty, IsMarkerDirty, Proceed
  <2>2. req \in Requests /\ req.op \in FromMarkerCalls
    BY <1>1 DEF CInv, Grounds
  <2>3. req' \in Requests
    BY <2>1, <2>2 DEF Requests, Steps
  <2>4. Grounds'
    <3>1. CASE req.op = "from_marker"
      BY <2>1, <2>2, <3>1 DEF Grounds, Requests
    <3>2. CASE req.op = "n_from_marker"
      BY <1>1, <2>1, <2>2, <3>2 DEF Grounds, Requests, CInv, FromMarkerCalls
    <3>. QED BY <2>2, <3>1, <3>2 DEF FromMarkerCalls
  <2>. QED BY <1>1, <2>1, <2>3, <2>4, ProceedCInv DEF CInv
<1>. QED BY <1>2, <1>3

LEMMA ReadPositionCInv == CInv /\ ReadPosition => CInv'
<1> SUFFICES ASSUME CInv, ReadPosition PROVE CInv'
  OBVIOUS
<1> DEFINE size == mark - req.beg + 1
<1>1. UNCHANGED vars /\ req.step = "position"
  BY DEF ReadPosition, GetMarkerPosition, streamUnchanged
<1>2. req \in Requests /\ req.op = "from_marker" /\ req.beg \in Nat /\ size \in Int
  BY <1>1, BoundsNat DEF CInv, Grounds, Requests
<1>3. CASE size < 0
  BY <1>1, <1>3, FinishCInv, StreamUnchangedIInv DEF ReadPosition, GetMarkerPosition, Hows, CInv
<1>4. CASE ~(size < 0)
  <2>1. /\ req' = [req EXCEPT !.step = "copy", !.room = RoomFor(size), !.at = pushed]
        /\ answer' = answer
    BY <1>4 DEF ReadPosition, GetMarkerPosition
  <2>2. RoomFor(size) \in Nat /\ RoomFor(size) > 0 /\ RoomFor(size) = size + Margin
    BY <1>2, <1>4, MarginAssumption DEF RoomFor
  <2>3. pushed \in 0 .. pushed
    BY BoundsNat DEF CInv
  <2>4. req' \in Requests
    BY <1>2, <2>1, <2>2, <2>3 DEF Requests, Steps
  <2>5. Grounds'
    <3>1. /\ req'.step = "copy" /\ req'.op = "from_marker" /\ req'.beg = req.beg
          /\ req'.room = size + Margin /\ req'.at = pushed
          /\ mark' = mark /\ pushed' = pushed
      BY <1>1, <1>2, <2>1, <2>2 DEF Requests, vars
    <3>2. mark' - req'.beg + 1 + Margin <= req'.room + pushed' - req'.at
      BY <1>2, <3>1, BoundsNat, MarginAssumption DEF CInv
    <3>. QED BY <2>2, <3>1, <3>2 DEF Grounds, FromMarkerCalls
  <2>. QED BY <1>1, <2>1, <2>4, <2>5, ProceedCInv DEF CInv
<1>. QED BY <1>3, <1>4

(* A copy from the marker leaves the marker inside the occupied slots.     *)
LEMMA FromMarkerInside ==
  ASSUME IInv, Inside, NEW call, NEW kind, NEW room, NEW b \in Int,
         CopyFromMarkerAt(call, kind, room, b)
  PROVE  Inside'
<1>1. CASE b < 0 \/ mark - b + 1 < 1
  BY <1>1, BoundsNat DEF CopyFromMarkerAt, Inside
<1>2. CASE b >= 0 /\ mark - b + 1 >= 1
  <2>1. mark' = b - 1 /\ qcount' = qcount
    BY <1>2, BoundsNat DEF CopyFromMarkerAt, MoveMarker
  <2>. QED BY <1>2, <2>1, BoundsNat DEF Inside
<1>. QED BY <1>1, <1>2, BoundsNat

(* Where the copy of a from-marker call starts, with the room it has.      *)
CopyStart == IF req.op = "from_marker" THEN req.beg
             ELSE Greater(mark - req.room + 1, 0)

(* What CopyMarked does to the stream, whichever call it belongs to.       *)
LEMMA CopyMarkedRead ==
  ASSUME CInv, NEW kind \in Kinds, CopyMarked(kind)
  PROVE  /\ req.op \in FromMarkerCalls /\ req.step = "copy"
         /\ req.room \in Nat /\ req.room > 0 /\ CopyStart \in Nat
         /\ CopyFromMarkerAt(req.op, kind, req.room, CopyStart)
         /\ Finish(Verdict(out'.size))
<1>1. req.step = "copy" /\ Finish(Verdict(out'.size))
  BY DEF CopyMarked
<1>2. req.op \in FromMarkerCalls /\ req.room > 0 /\ req \in Requests
  BY <1>1 DEF CInv, Grounds
<1>3. req.room \in Nat /\ req.beg \in Nat
  BY <1>2, BoundsNat DEF CInv, Requests
<1>4. CASE req.op = "from_marker"
  <2>1. CopyFromMarker(kind, req.room, req.beg)
    BY <1>4 DEF CopyMarked, GetStreamSnapshotFromMarker
  <2>. QED BY <1>1, <1>2, <1>3, <1>4, <2>1 DEF CopyFromMarker, CopyStart
<1>5. CASE req.op = "n_from_marker"
  <2>1. NCopyFromMarker(kind, req.room)
    BY <1>5 DEF CopyMarked, GetNFromMarker
  <2>2. CopyStart \in Nat
    BY <1>3, <1>5, BoundsNat DEF CopyStart, Greater, CInv
  <2>. QED BY <1>1, <1>2, <1>3, <1>5, <2>1, <2>2 DEF NCopyFromMarker, CopyStart
<1>. QED BY <1>2, <1>4, <1>5 DEF FromMarkerCalls

LEMMA CopyMarkedCInv ==
  ASSUME CInv, NEW kind \in Kinds, CopyMarked(kind)
  PROVE  CInv'
<1>1. CopyStart \in Int
  BY CopyMarkedRead
<1>2. IInv' /\ Inside'
  BY <1>1, CopyMarkedRead, FromMarkerIInv, FromMarkerInside DEF CInv
<1>3. Verdict(out'.size) \in Hows
  BY DEF Verdict, Hows
<1>. QED BY <1>2, <1>3, CopyMarkedRead, FinishCInv

(* An index in front of the marker's slot, occupied, is where the marker   *)
(* is put by get and stream_snapshot.                                      *)
LEMMA MoveMarkerInside ==
  ASSUME IInv, Inside, NEW b \in Nat, b < qcount, MoveMarker(b)
  PROVE  IInv' /\ Inside'
<1>1. b \in 0 .. qbound - 1
  BY BoundsNat
<1>2. mark' = b - 1 /\ qcount' = qcount
  BY DEF MoveMarker
<1>. QED BY <1>1, <1>2, MoveMarkerIInv, BoundsNat DEF Inside

(* What a get under way knows, and what its read does.                     *)
LEMMA ReadAtRead ==
  ASSUME CInv, NEW kind \in Kinds, ReadAt(kind)
  PROVE  /\ req.op = "get" /\ req.step = "read" /\ req.room = 1
         /\ req.beg \in Nat /\ req.beg < qcount
         /\ MoveMarker(req.beg)
         /\ out' = Result("copy", 1, 1, req.beg, 1, StampCount(kind, 1))
         /\ Finish("data")
<1>1. req.step = "read" /\ Copy(kind, 1, req.beg, req.beg) /\ Finish("data")
  BY DEF ReadAt, GetValue
<1>2. req.op = "get" /\ req.room = 1 /\ req.beg \in Nat /\ req.beg < qcount
  BY <1>1, BoundsNat DEF CInv, Grounds, Requests
<1>3. Adjust(req.beg) = req.beg
  BY <1>2 DEF Adjust
<1>4. CopyCount(1, req.beg, req.beg) = 1
  BY <1>2, BoundsNat DEF CopyCount, Lesser, Greater, CInv
<1>5. Returned(kind, 1, req.beg, req.beg) = 1 /\ Written(kind, 1, req.beg, req.beg) = 1
  BY <1>4 DEF Returned, Written
<1>. QED BY <1>1, <1>2, <1>3, <1>5 DEF Copy

LEMMA ReadAtCInv ==
  ASSUME CInv, NEW kind \in Kinds, ReadAt(kind)
  PROVE  CInv'
BY ReadAtRead, MoveMarkerInside, FinishCInv DEF CInv, Hows

(* The same for a snapshot: as much as it has room for is there.           *)
LEMMA CopySnapshotRead ==
  ASSUME CInv, NEW kind \in Kinds, CopySnapshot(kind)
  PROVE  /\ req.op = "snapshot" /\ req.step = "snapshot"
         /\ req.room \in Nat /\ req.room > 0
         /\ req.beg \in Nat /\ req.beg + req.room <= qcount /\ req.beg < qcount
         /\ MoveMarker(req.beg)
         /\ out' = Result("copy", req.room, req.room, req.beg, req.room,
                          StampCount(kind, req.room))
         /\ Finish("data")
<1>1. req.step = "snapshot" /\ Copy(kind, req.room, req.end, req.beg) /\ Finish("data")
  BY DEF CopySnapshot, GetStreamSnapshot
<1>2. /\ req.op = "snapshot" /\ req.room \in Nat /\ req.room > 0
      /\ req.beg \in Nat /\ req.end \in Nat /\ req.beg <= req.end
      /\ req.room + req.beg <= qcount /\ req.room + req.beg <= req.end + 1
  BY <1>1, BoundsNat DEF CInv, Grounds, Requests
<1>3. Adjust(req.beg) = req.beg /\ Adjust(req.end) = req.end
  BY <1>2 DEF Adjust
<1>4. CopyCount(req.room, req.end, req.beg) = req.room
  BY <1>2, BoundsNat DEF CopyCount, Lesser, Greater, CInv
<1>5. req.end = req.beg => req.room = 1
  BY <1>2
<1>6. /\ Returned(kind, req.room, req.end, req.beg) = req.room
      /\ Written(kind, req.room, req.end, req.beg) = req.room
  BY <1>4, <1>5 DEF Returned, Written
<1>7. req.beg < qcount
  BY <1>2, BoundsNat DEF CInv
<1>. QED BY <1>1, <1>2, <1>3, <1>6, <1>7 DEF Copy

LEMMA CopySnapshotCInv ==
  ASSUME CInv, NEW kind \in Kinds, CopySnapshot(kind)
  PROVE  CInv'
BY CopySnapshotRead, MoveMarkerInside, FinishCInv DEF CInv, Hows

LEMMA CallGetCInv ==
  ASSUME CInv, NEW indx \in Positions, CallGet(indx)
  PROVE  CInv'
<1>0. indx \in Nat /\ indx < qbound
  BY MaxBoundAssumption DEF CallGet, GetStreamOccupancy, Positions
<1>1. CASE indx >= qcount
  <2>1. UNCHANGED vars /\ req' = req /\ answer'.how = "raise" /\ req = Idle
    BY <1>1 DEF CallGet, GetStreamOccupancy, NoAnswer
  <2>2. Grounds'
    BY <2>1 DEF Idle, Grounds
  <2>. QED BY <2>1, <2>2, ProceedCInv DEF CInv, Hows
<1>2. CASE ~(indx >= qcount)
  <2>1. Begin("get", "read", indx, indx, 1, FALSE)
    BY <1>2 DEF CallGet, GetStreamOccupancy, GetStreamOccupancy
  <2>2. [op |-> "get", step |-> "read", end |-> indx, beg |-> indx, room |-> 1,
         throws |-> FALSE, at |-> pushed] \in Requests
    BY <1>0, BoundsNat DEF Requests, Ops, Steps, CInv
  <2>3. Grounds'
    <3>1. indx < qcount' /\ req' = [op |-> "get", step |-> "read", end |-> indx,
             beg |-> indx, room |-> 1, throws |-> FALSE, at |-> pushed]
      BY <1>0, <1>2, <2>1, BoundsNat DEF Begin, streamUnchanged, vars, CInv
    <3>. QED BY <3>1 DEF Grounds
  <2>. QED BY <2>1, <2>2, <2>3, BeginCInv
<1>. QED BY <1>1, <1>2

LEMMA CallSnapshotCInv ==
  ASSUME CInv, NEW end \in Positions, NEW beg \in Positions,
         CallSnapshot(end, beg)
  PROVE  CInv'
<1>0. end \in Nat /\ beg \in Nat /\ beg <= end /\ end < qbound
  BY MaxBoundAssumption DEF CallSnapshot, GetStreamOccupancy, Positions
<1>1. CASE qcount <= beg
  <2>1. UNCHANGED vars /\ req' = req /\ answer'.how = "empty" /\ req = Idle
    BY <1>1 DEF CallSnapshot, GetStreamOccupancy, NoAnswer
  <2>2. Grounds'
    BY <2>1 DEF Idle, Grounds
  <2>. QED BY <2>1, <2>2, ProceedCInv DEF CInv, Hows
<1>2. CASE ~(qcount <= beg)
  <2> DEFINE room == CutAtOccupancy(end) - beg + 1
  <2>1. PICK e \in {end, CutAtOccupancy(end)} :
          Begin("snapshot", "snapshot", e, beg, room, FALSE)
    BY <1>2 DEF CallSnapshot, GetStreamOccupancy, GetStreamOccupancy
  <2>2. /\ room \in Nat /\ room > 0 /\ room + beg <= qcount
        /\ e \in Nat /\ e <= end /\ beg <= e /\ room + beg <= e + 1
    BY <1>0, <1>2, BoundsNat DEF CutAtOccupancy, GetStreamOccupancy, Lesser, CInv
  <2> HIDE DEF room
  <2>3. [op |-> "snapshot", step |-> "snapshot", end |-> e, beg |-> beg,
         room |-> room, throws |-> FALSE, at |-> pushed] \in Requests
    BY <1>0, <2>2, BoundsNat DEF Requests, Ops, Steps, CInv
  <2>4. Grounds'
    <3>1. /\ qcount' = qcount
          /\ req' = [op |-> "snapshot", step |-> "snapshot", end |-> e,
                     beg |-> beg, room |-> room, throws |-> FALSE, at |-> pushed]
      BY <2>1 DEF Begin, streamUnchanged, vars
    <3>. QED BY <2>2, <3>1 DEF Grounds
  <2>. QED BY <2>1, <2>3, <2>4, BeginCInv
<1>. QED BY <1>1, <1>2

(* A frame looks at the newest value and leaves everything as it was.      *)
LEMMA CallFrameStream ==
  ASSUME CallFrame
  PROVE  LeaveMarker(0) /\ req' = req /\ req = Idle /\ answer'.how \in Hows
<1>1. GetItemFrame \/ GetItemFrameStrings \/ GetTopicFrame \/ GetTotalFrame
  BY DEF CallFrame
<1>2. LeaveMarker(0)
  BY <1>1 DEF GetItemFrame, GetItemFrameStrings, GetTopicFrame, GetTotalFrame,
              map_of_frame_items, map_of_frame_topics, matrix_of_frame
<1>3. req' = req /\ req = Idle /\ answer'.how = "data"
  BY DEF CallFrame, NoAnswer
<1>. QED BY <1>2, <1>3 DEF Hows

LEMMA CallFrameCInv == CInv /\ CallFrame => CInv'
<1> SUFFICES ASSUME CInv, CallFrame PROVE CInv'
  OBVIOUS
<1>1. LeaveMarker(0) /\ req' = req /\ req = Idle /\ answer'.how \in Hows
  BY CallFrameStream
<1>2. UNCHANGED <<deque, stamps, qbound, qcount, mark, dirty, pushed, cursor>>
  BY <1>1 DEF LeaveMarker
<1>3. IInv' /\ Inside'
  BY <1>2 DEF CInv, IInv, TypeOK, HoldsNewest, DirtyIsLoss, Inside
<1>4. req' \in Requests'
  BY <1>1, <1>2 DEF CInv, Requests
<1>5. Grounds'
  BY <1>1 DEF Idle, Grounds
<1>. QED BY <1>1, <1>3, <1>4, <1>5 DEF CInv

LEMMA NextCInv == CInv /\ [ClientNext]_cvars => CInv'
<1> SUFFICES ASSUME CInv, [ClientNext]_cvars PROVE CInv'
  OBVIOUS
<1>1. CASE UNCHANGED cvars
  <2>1. UNCHANGED vars /\ req' = req /\ answer' = answer
    BY <1>1 DEF cvars
  <2>2. Grounds'
    BY <2>1 DEF CInv, Grounds, vars
  <2>. QED BY <2>1, <2>2, ProceedCInv DEF CInv
<1>2. CASE ClientNext
  BY <1>2, ArrivalCInv, SetBlockSizeCInv, CallFromMarkerCInv,
     CallNFromMarkerCInv, CheckDirtyCInv, ReadPositionCInv, CopyMarkedCInv,
     CallGetCInv, ReadAtCInv, CallSnapshotCInv, CopySnapshotCInv, CallFrameCInv
  DEF ClientNext
<1>. QED BY <1>1, <1>2

LEMMA CInvInvariant == ClientSpec => []CInv
BY InitCInv, NextCInv, PTL DEF ClientSpec

(* The range a call asks for stays inside the stream (_check_adj never     *)
(* throws under it), and get and stream_snapshot never read a slot that    *)
(* is not occupied, whatever comes in after their look at the occupancy.   *)
THEOREM ClientTypeCorrect == ClientSpec => []ClientTypeOK
<1>1. CInv => ClientTypeOK
  <2> SUFFICES ASSUME CInv PROVE ClientTypeOK
    OBVIOUS
  <2>1. TypeOK /\ req \in Requests
    BY DEF CInv, IInv
  <2>2. /\ req.step = "copy" => req.room > 0
        /\ req.step \in {"read", "snapshot"} => req.beg < qcount
    <3>1. CASE req.step = "snapshot"
      <4>1. req.room \in Nat /\ req.beg \in Nat /\ req.room > 0
            /\ req.room + req.beg <= qcount
        BY <2>1, <3>1, BoundsNat DEF CInv, Grounds, Requests
      <4>. QED BY <3>1, <4>1, BoundsNat DEF CInv
    <3>2. CASE req.step # "snapshot"
      BY <3>2 DEF CInv, Grounds
    <3>. QED BY <3>1, <3>2
  <2>3. answer.how \in {"data", "empty", "raise"}
    BY DEF CInv, Hows
  <2>. QED BY <2>1, <2>2, <2>3 DEF ClientTypeOK, Requests
<1>. QED BY <1>1, CInvInvariant, PTL

-----------------------------------------------------------------------------
(* What the calls answer. *)

Answers == RaisesOnlyForLoss /\ NoSilentLoss /\ SnapshotFull

(* How far the marker of a call under way can have moved since it chose    *)
(* its room.                                                               *)
LEMMA MarginCovers ==
  ASSUME NEW m \in Int, NEW b \in Int, NEW r \in Int, NEW p \in Int,
         NEW a \in Int, NEW g \in Int,
         m - b + 1 + g <= r + p - a, r < m - b + 1
  PROVE  p - a > g
OBVIOUS

LEMMA CopyMarkedAnswers ==
  ASSUME CInv, NEW kind \in Kinds, CopyMarked(kind)
  PROVE  Answers'
<1> DEFINE b == CopyStart
           wanted == mark - b + 1
           n == Lesser(req.room, wanted)
<1>0. /\ req.op \in FromMarkerCalls /\ req.step = "copy"
      /\ req.room \in Nat /\ req.room > 0 /\ b \in Nat
      /\ CopyFromMarkerAt(req.op, kind, req.room, b)
      /\ Finish(Verdict(out'.size))
  BY CopyMarkedRead
<1>1. /\ answer'.op = req.op /\ answer'.step = "copy"
      /\ answer'.how = Verdict(out'.size) /\ answer'.throws = req.throws
      /\ answer'.arrived = pushed - req.at
  BY <1>0 DEF Finish
<1>2. SnapshotFull'
  BY <1>0, <1>1 DEF SnapshotFull, FromMarkerCalls
<1>3. /\ mark \in Int /\ mark < qcount /\ pushed \in Nat /\ wanted \in Int
      /\ cursor \in Int
  BY <1>0, BoundsNat DEF CInv, IInv, TypeOK
<1>4. CASE b < 0 \/ wanted < 1
  <2>1. out'.size = 0
    BY <1>0, <1>3, <1>4, FromMarkerEmpty
  <2>2. answer'.how = "empty"
    BY <1>1, <2>1 DEF Verdict
  <2>. QED BY <1>2, <2>2 DEF Answers, RaisesOnlyForLoss, NoSilentLoss
<1>5. CASE b >= 0 /\ wanted >= 1
  <2>0. /\ IInv /\ mark < qcount /\ b \in Int /\ b >= 0
        /\ mark - b + 1 >= 1
    BY <1>0, <1>3, <1>5 DEF CInv
  <2> HIDE DEF b
  <2>1. /\ n \in 1 .. wanted
        /\ out'.since = cursor /\ out'.wasDirty = dirty
        /\ out'.size = IF dirty \/ n < wanted THEN -n ELSE n
        /\ out'.vals = [i \in 0 .. n - 1 |-> cursor' - i]
        /\ cursor' = pushed - b
    BY <1>0, <2>0, FromMarkerRead
  <2>2. RaisesOnlyForLoss'
    <3> SUFFICES ASSUME answer'.how = "raise", ~out'.wasDirty
                 PROVE  answer'.op = "from_marker" /\ answer'.arrived > Margin
      BY DEF RaisesOnlyForLoss
    <3>1. out'.size < 0 /\ ~dirty
      BY <1>1, <2>1 DEF Verdict
    <3>2. req.room < wanted
      BY <1>0, <1>3, <2>1, <3>1 DEF Lesser
    <3>3. req.op = "from_marker"
      <4>1. ASSUME req.op = "n_from_marker" PROVE wanted <= req.room
        BY <1>0, <1>3, <4>1 DEF b, CopyStart, Greater
      <4>. QED BY <1>0, <1>3, <3>2, <4>1 DEF FromMarkerCalls
    <3>4. b = req.beg /\ req.at \in Int
      BY <3>3, BoundsNat DEF b, CopyStart, CInv, Requests
    <3>5. mark - b + 1 + Margin <= req.room + pushed - req.at
      BY <1>0, <3>3, <3>4 DEF CInv, Grounds
    <3>6. pushed - req.at > Margin
      BY <1>0, <1>3, <3>2, <3>4, <3>5, MarginCovers, MarginAssumption
    <3>. QED BY <1>1, <3>3, <3>6
  <2>3. NoSilentLoss'
    <3> SUFFICES ASSUME answer'.throws, answer'.how = "data"
                 PROVE  out'.vals = [i \in 0 .. cursor' - out'.since - 1 |-> cursor' - i]
      BY DEF NoSilentLoss
    <3>1. out'.size >= 0
      BY <1>1, <1>3, <2>1 DEF Verdict
    <3>2. ~dirty /\ n = wanted
      BY <1>3, <2>1, <3>1
    <3>3. cursor = pushed - mark - 1
      BY <3>2 DEF CInv, IInv, DirtyIsLoss
    <3>4. cursor' - out'.since = n
      BY <1>0, <1>3, <2>1, <3>2, <3>3
    <3>. QED BY <2>1, <3>4
  <2>. QED BY <1>2, <2>2, <2>3 DEF Answers
<1>. QED BY <1>0, <1>3, <1>4, <1>5

(* get and stream_snapshot: full, numbered down, none blank.               *)
LEMMA FullAnswer ==
  ASSUME CInv, NEW beg \in Nat, NEW n \in Nat, n > 0, beg + n <= qcount,
         NEW op \in {"get", "snapshot"},
         answer'.op = op, answer'.how = "data", answer'.room = n,
         out'.size = n, out'.vals = Slice(deque, beg, n)
  PROVE  Answers'
<1>1. out'.vals = [i \in 0 .. n - 1 |-> pushed - beg - i]
  BY SliceInside DEF CInv, IInv
<1>2. pushed \in Nat /\ qcount <= pushed /\ qcount \in Nat
  BY BoundsNat DEF CInv, IInv, HoldsNewest
<1>3. 0 \in 0 .. n - 1 /\ n - 1 \in 0 .. n - 1
  OBVIOUS
<1>4. out'.vals[0] = pushed - beg /\ out'.vals[n - 1] = pushed - beg - (n - 1)
  BY <1>1, <1>2, <1>3
<1>5. out'.vals = [i \in 0 .. n - 1 |-> out'.vals[0] - i]
  BY <1>1, <1>4
<1>6. out'.vals[0] > Blank /\ out'.vals[n - 1] > Blank
  BY <1>2, <1>4 DEF Blank
<1>. QED BY <1>5, <1>6
         DEF Answers, RaisesOnlyForLoss, NoSilentLoss, SnapshotFull, FromMarkerCalls

LEMMA ReadAtAnswers ==
  ASSUME CInv, NEW kind \in Kinds, ReadAt(kind)
  PROVE  Answers'
<1>1. answer'.op = "get" /\ answer'.how = "data" /\ answer'.room = 1
  BY ReadAtRead DEF Finish
<1>2. out'.size = 1 /\ out'.vals = Slice(deque, req.beg, 1)
  BY ReadAtRead DEF Result
<1>3. req.beg \in Nat /\ req.beg + 1 <= qcount
  BY ReadAtRead, BoundsNat DEF CInv
<1>. QED BY <1>1, <1>2, <1>3, FullAnswer

LEMMA CopySnapshotAnswers ==
  ASSUME CInv, NEW kind \in Kinds, CopySnapshot(kind)
  PROVE  Answers'
<1>1. answer'.op = "snapshot" /\ answer'.how = "data" /\ answer'.room = req.room
  BY CopySnapshotRead DEF Finish
<1>2. out'.size = req.room /\ out'.vals = Slice(deque, req.beg, req.room)
  BY CopySnapshotRead DEF Result
<1>. QED BY <1>1, <1>2, CopySnapshotRead, FullAnswer

(* A frame answers with what it looked at.                                 *)
LEMMA CallFrameAnswers == CInv /\ CallFrame => Answers'
<1> SUFFICES ASSUME CInv, CallFrame PROVE Answers'
  OBVIOUS
<1>1. answer'.op = "frame" /\ answer'.how = "data"
  BY DEF CallFrame, NoAnswer
<1>. QED BY <1>1 DEF Answers, RaisesOnlyForLoss, NoSilentLoss, SnapshotFull,
                     FromMarkerCalls

(* Every other step either leaves the last answer and what was read, or    *)
(* answers without data.                                                   *)
LEMMA OtherAnswers ==
  ASSUME Answers,
         \/ answer' = answer /\ out' = out /\ cursor' = cursor
         \/ answer'.how # "data" /\ answer'.step # "copy"
  PROVE  Answers'
BY DEF Answers, RaisesOnlyForLoss, NoSilentLoss, SnapshotFull

LEMMA NextAnswers == CInv /\ Answers /\ [ClientNext]_cvars => Answers'
<1> SUFFICES ASSUME CInv, Answers, [ClientNext]_cvars PROVE Answers'
  OBVIOUS
<1>1. CASE UNCHANGED cvars
  BY <1>1, OtherAnswers DEF cvars, vars
<1>2. CASE Arrival
  BY <1>2, OtherAnswers DEF Arrival, insert_data, Push
<1>3. ASSUME NEW size \in Sizes, CallSetBlockSize(size) PROVE Answers'
  BY <1>3, SetBlockSizeStream, OtherAnswers DEF BoundSize
<1>4. ASSUME NEW beg \in Positions, NEW throws \in BOOLEAN,
             CallFromMarker(beg, throws)
      PROVE  Answers'
  BY <1>4, OtherAnswers DEF CallFromMarker, Begin, NoAnswer
<1>5. ASSUME NEW n \in Sizes, NEW throws \in BOOLEAN, CallNFromMarker(n, throws)
      PROVE  Answers'
  BY <1>5, OtherAnswers DEF CallNFromMarker, Begin, NoAnswer
<1>6. CASE CheckDirty
  <2>1. CASE dirty
    BY <1>6, <2>1, OtherAnswers DEF CheckDirty, IsMarkerDirty, Finish
  <2>2. CASE ~dirty
    BY <1>6, <2>2, OtherAnswers DEF CheckDirty, IsMarkerDirty, Proceed, streamUnchanged, vars
  <2>. QED BY <2>1, <2>2
<1>7. CASE ReadPosition
  <2>1. CASE mark - req.beg + 1 < 0
    BY <1>7, <2>1, OtherAnswers DEF ReadPosition, GetMarkerPosition, Finish
  <2>2. CASE ~(mark - req.beg + 1 < 0)
    BY <1>7, <2>2, OtherAnswers DEF ReadPosition, GetMarkerPosition, streamUnchanged, vars
  <2>. QED BY <2>1, <2>2
<1>8. ASSUME NEW indx \in Positions, CallGet(indx) PROVE Answers'
  <2>1. CASE indx >= qcount
    BY <1>8, <2>1, OtherAnswers DEF CallGet, GetStreamOccupancy, NoAnswer
  <2>2. CASE ~(indx >= qcount)
    BY <1>8, <2>2, OtherAnswers DEF CallGet, GetStreamOccupancy, Begin, NoAnswer
  <2>. QED BY <2>1, <2>2
<1>9. ASSUME NEW end \in Positions, NEW beg \in Positions, CallSnapshot(end, beg)
      PROVE  Answers'
  BY <1>9, OtherAnswers DEF CallSnapshot, GetStreamOccupancy, Begin, NoAnswer
<1>. QED BY <1>1, <1>2, <1>3, <1>4, <1>5, <1>6, <1>7, <1>8, <1>9,
            CopyMarkedAnswers, ReadAtAnswers, CopySnapshotAnswers, CallFrameAnswers
         DEF ClientNext

LEMMA AnswersInvariant == ClientSpec => []Answers
<1>1. ClientInit => Answers
  BY DEF ClientInit, NoAnswer, Answers, RaisesOnlyForLoss, NoSilentLoss,
         SnapshotFull, FromMarkerCalls
<1>. QED BY <1>1, NextAnswers, CInvInvariant, PTL DEF ClientSpec

(* A from-marker call of Python raises at its copy only for a dirty        *)
(* marker, or for more values than the margin of safety (_common.py:303).  *)
THEOREM RaisesExplained == ClientSpec => []RaisesOnlyForLoss
BY AnswersInvariant, PTL DEF Answers

(* A from-marker call that could have raised and did not has delivered     *)
(* everything since the last read, whatever came in between its steps.     *)
THEOREM NothingLostSilently == ClientSpec => []NoSilentLoss
BY AnswersInvariant, PTL DEF Answers

(* get and stream_snapshot hand out full buffers of consecutive values.    *)
THEOREM SnapshotsFull == ClientSpec => []SnapshotFull
BY AnswersInvariant, PTL DEF Answers

-----------------------------------------------------------------------------
(* None means that there is nothing to read. *)

(* A dirty marker has something in front of it.                            *)
DirtyBehind == dirty => mark >= 0

LEMMA MoveMarkerBehind == \A b : MoveMarker(b) => DirtyBehind'
BY DEF MoveMarker, DirtyBehind

LEMMA NextDirtyBehind == CInv /\ DirtyBehind /\ [ClientNext]_cvars => DirtyBehind'
<1> SUFFICES ASSUME CInv, DirtyBehind, [ClientNext]_cvars PROVE DirtyBehind'
  OBVIOUS
<1>0. UNCHANGED <<mark, dirty>> => DirtyBehind'
  BY DEF DirtyBehind
<1>1. CASE UNCHANGED vars
  BY <1>0, <1>1 DEF vars
<1>2. CASE Arrival
  <2>1. qbound \in Nat /\ qbound >= 1 /\ mark \in Int /\ mark < qbound
    BY BoundsNat DEF CInv
  <2>2. /\ mark' = IF mark = qbound - 1 THEN mark
                   ELSE IF mark < qbound - 1 THEN mark + 1 ELSE mark - 1
        /\ dirty' => (dirty \/ mark >= qbound - 1)
    BY <1>2 DEF Arrival, insert_data, Push, IncrInternalCounts
  <2>. QED BY <2>1, <2>2 DEF DirtyBehind
<1>3. ASSUME NEW size \in Sizes, CallSetBlockSize(size) PROVE DirtyBehind'
  <2>1. ClampBound(size) \in 1 .. MaxBound
    BY SizesAssumption, ClampBoundType
  <2>2. \/ mark' = ClampBound(size) - 1
        \/ UNCHANGED <<mark, dirty>>
    BY <1>3, SetBlockSizeStream DEF BoundSize
  <2>3. ASSUME mark' = ClampBound(size) - 1 PROVE mark' >= 0
    BY <2>1, <2>3, MaxBoundAssumption
  <2>. QED BY <1>0, <2>2, <2>3 DEF DirtyBehind
<1>4. ASSUME NEW kind \in Kinds, CopyMarked(kind) PROVE DirtyBehind'
  <2>1. CopyStart \in Int /\ CopyFromMarkerAt(req.op, kind, req.room, CopyStart)
    BY <1>4, CopyMarkedRead
  <2>2. MoveMarker(CopyStart) \/ UNCHANGED <<mark, dirty>>
    BY <2>1 DEF CopyFromMarkerAt
  <2>. QED BY <1>0, <2>2, MoveMarkerBehind
<1>5. ASSUME NEW kind \in Kinds, ReadAt(kind) PROVE DirtyBehind'
  BY <1>5, ReadAtRead, MoveMarkerBehind
<1>6. ASSUME NEW kind \in Kinds, CopySnapshot(kind) PROVE DirtyBehind'
  BY <1>6, CopySnapshotRead, MoveMarkerBehind
<1>7. ASSUME NEW beg \in Positions, NEW throws \in BOOLEAN,
             CallFromMarker(beg, throws)
      PROVE  UNCHANGED vars
  BY <1>7 DEF CallFromMarker, Begin, streamUnchanged
<1>8. ASSUME NEW n \in Sizes, NEW throws \in BOOLEAN, CallNFromMarker(n, throws)
      PROVE  UNCHANGED vars
  BY <1>8 DEF CallNFromMarker, Begin, streamUnchanged
<1>9. CheckDirty \/ ReadPosition => UNCHANGED vars
  BY DEF CheckDirty, IsMarkerDirty, ReadPosition, streamUnchanged
<1>10. ASSUME NEW indx \in Positions, CallGet(indx) PROVE UNCHANGED vars
  BY <1>10 DEF CallGet, GetStreamOccupancy, Begin, streamUnchanged
<1>11. ASSUME NEW end \in Positions, NEW beg \in Positions, CallSnapshot(end, beg)
       PROVE  UNCHANGED vars
  BY <1>11 DEF CallSnapshot, GetStreamOccupancy, Begin, streamUnchanged
<1>12. CASE UNCHANGED cvars
  BY <1>1, <1>12 DEF cvars
<1>13. CASE CallFrame
  BY <1>0, <1>13, CallFrameStream DEF LeaveMarker
<1>. QED BY <1>1, <1>2, <1>3, <1>4, <1>5, <1>6, <1>7, <1>8, <1>9, <1>10, <1>11,
            <1>12, <1>13
         DEF ClientNext

Untold == /\ req.op \in FromMarkerCalls
          /\ req.beg = 0
          /\ req' = Idle
          /\ answer'.how = "empty"

(* The copy finds nothing only when the marker is in front of everything.  *)
LEMMA CopyMarkedUntold ==
  ASSUME CInv, DirtyBehind, NEW kind \in Kinds, CopyMarked(kind), Untold
  PROVE  cursor = pushed
<1>0. /\ req.op \in FromMarkerCalls
      /\ req.room \in Nat /\ req.room > 0 /\ CopyStart \in Nat
      /\ CopyFromMarkerAt(req.op, kind, req.room, CopyStart)
      /\ answer'.how = Verdict(out'.size)
  BY CopyMarkedRead DEF Finish
<1>1. /\ mark \in Int /\ -1 <= mark /\ mark < qcount /\ pushed \in Nat
      /\ cursor \in Int
  BY BoundsNat DEF CInv, IInv, TypeOK
<1>2. ASSUME mark - CopyStart + 1 >= 1 PROVE FALSE
  <2>0. IInv /\ mark < qcount /\ CopyStart \in Int /\ CopyStart >= 0
    BY <1>0, <1>1 DEF CInv
  <2>1. LET n == Lesser(req.room, mark - CopyStart + 1) IN
          /\ n \in 1 .. mark - CopyStart + 1
          /\ out'.size = IF dirty \/ n < mark - CopyStart + 1 THEN -n ELSE n
    BY <1>0, <1>2, <2>0, FromMarkerRead
  <2>2. out'.size # 0
    BY <2>1
  <2>. QED BY <1>0, <2>2 DEF Verdict, Untold
<1>3. mark = -1
  <2>1. CASE req.op = "from_marker"
    BY <1>1, <1>2, <2>1 DEF CopyStart, Untold
  <2>2. CASE req.op = "n_from_marker"
    BY <1>0, <1>1, <1>2, <2>2 DEF CopyStart, Greater
  <2>. QED BY <1>0, <2>1, <2>2 DEF FromMarkerCalls
<1>4. ~dirty
  BY <1>3 DEF DirtyBehind
<1>. QED BY <1>1, <1>3, <1>4 DEF CInv, IInv, DirtyIsLoss

LEMMA NextUntold == CInv /\ DirtyBehind /\ [ClientNext]_cvars /\ Untold => cursor = pushed
<1> SUFFICES ASSUME CInv, DirtyBehind, [ClientNext]_cvars, Untold
             PROVE  cursor = pushed
  OBVIOUS
<1>1. req # Idle /\ req' # req
  BY DEF Untold, Idle, FromMarkerCalls
<1>2. ~CheckDirty
  BY <1>1 DEF CheckDirty, IsMarkerDirty, Finish, Proceed, Untold, Idle, CInv, Requests
<1>3. ~ReadPosition
  <2>1. SUFFICES ASSUME ReadPosition PROVE FALSE
    OBVIOUS
  <2>2. ~(mark - req.beg + 1 < 0)
    BY BoundsNat DEF Untold, CInv
  <2>3. req'.step = "copy"
    BY <2>1, <2>2 DEF ReadPosition, GetMarkerPosition, CInv, Requests
  <2>. QED BY <2>3 DEF Untold, Idle
<1>4. ASSUME NEW kind \in Kinds PROVE ~ReadAt(kind)
  BY ReadAtRead DEF Untold, FromMarkerCalls
<1>5. ASSUME NEW kind \in Kinds PROVE ~CopySnapshot(kind)
  BY CopySnapshotRead DEF Untold, FromMarkerCalls
<1>6. ~UNCHANGED cvars /\ ~Arrival
  BY <1>1 DEF cvars, Arrival
<1>7. ASSUME NEW size \in Sizes PROVE ~CallSetBlockSize(size)
  BY <1>1 DEF CallSetBlockSize
<1>8. /\ \A beg \in Positions, throws \in BOOLEAN : ~CallFromMarker(beg, throws)
      /\ \A n \in Sizes, throws \in BOOLEAN : ~CallNFromMarker(n, throws)
  BY <1>1 DEF CallFromMarker, CallNFromMarker, Begin
<1>9. /\ \A indx \in Positions : ~CallGet(indx)
      /\ \A end, beg \in Positions : ~CallSnapshot(end, beg)
  BY <1>1 DEF CallGet, CallSnapshot
<1>10. ~CallFrame
  BY <1>1 DEF CallFrame
<1>. QED BY <1>2, <1>3, <1>4, <1>5, <1>6, <1>7, <1>8, <1>9, <1>10,
            CopyMarkedUntold
         DEF ClientNext

(* An application that polls until None has missed nothing (_win.py:809).  *)
THEOREM NoneMeansCaughtUp == ClientSpec => NoneIsCaughtUp
<1>1. ClientInit => DirtyBehind
  BY DEF ClientInit, Init, DirtyBehind
<1>2. CInv /\ DirtyBehind /\ [ClientNext]_cvars
        => [Untold => cursor = pushed]_cvars
  BY NextUntold
<1>. QED BY <1>1, <1>2, NextDirtyBehind, CInvInvariant, PTL
         DEF ClientSpec, NoneIsCaughtUp, Untold

-----------------------------------------------------------------------------
(* The calls and the stream implement the marker log. *)

LEMMA ClientLogNext == CInv /\ [ClientNext]_cvars => [Log!Next]_(Log!vars)
<1> SUFFICES ASSUME CInv, [ClientNext]_cvars PROVE [Log!Next]_(Log!vars)
  OBVIOUS
<1>0. UNCHANGED vars => UNCHANGED Log!vars
  BY DEF vars, Log!vars
<1>1. CASE UNCHANGED cvars
  BY <1>0, <1>1 DEF cvars
<1>2. CASE Arrival
  BY <1>2, LogAppend DEF Arrival, insert_data, Log!Next, CInv
<1>3. ASSUME NEW size \in Sizes, CallSetBlockSize(size) PROVE Log!Next
  BY <1>3, SetBlockSizeStream, LogTrim, SizesAssumption DEF Log!Next, CInv
<1>4. ASSUME NEW kind \in Kinds, CopyMarked(kind) PROVE Log!Next
  <2>1. /\ req.op \in FromMarkerCalls /\ req.room \in Nat /\ req.room > 0
        /\ CopyStart \in Int
        /\ CopyFromMarkerAt(req.op, kind, req.room, CopyStart)
    BY <1>4, CopyMarkedRead
  <2>. QED BY <2>1, LogResume DEF Log!Next, CInv
<1>5. ASSUME NEW kind \in Kinds, ReadAt(kind) PROVE Log!Next
  <2>1. /\ req.beg \in 0 .. qbound - 1 /\ MoveMarker(req.beg)
        /\ out'.call = "copy"
    BY <1>5, ReadAtRead, BoundsNat DEF CInv, Result
  <2>2. mark' < qcount'
    BY <1>5, ReadAtRead, MoveMarkerInside DEF CInv, Inside
  <2>. QED BY <2>1, <2>2, LogReposition DEF Log!Next, CInv, FromMarkerCalls
<1>6. ASSUME NEW kind \in Kinds, CopySnapshot(kind) PROVE Log!Next
  <2>1. /\ req.beg \in 0 .. qbound - 1 /\ MoveMarker(req.beg)
        /\ out'.call = "copy"
    BY <1>6, CopySnapshotRead, BoundsNat DEF CInv, Result
  <2>2. mark' < qcount'
    BY <1>6, CopySnapshotRead, MoveMarkerInside DEF CInv, Inside
  <2>. QED BY <2>1, <2>2, LogReposition DEF Log!Next, CInv, FromMarkerCalls
<1>7. ASSUME NEW beg \in Positions, NEW throws \in BOOLEAN,
             CallFromMarker(beg, throws)
      PROVE  UNCHANGED vars
  BY <1>7 DEF CallFromMarker, Begin, streamUnchanged
<1>8. ASSUME NEW n \in Sizes, NEW throws \in BOOLEAN, CallNFromMarker(n, throws)
      PROVE  UNCHANGED vars
  BY <1>8 DEF CallNFromMarker, Begin, streamUnchanged
<1>9. CheckDirty \/ ReadPosition => UNCHANGED vars
  BY DEF CheckDirty, IsMarkerDirty, ReadPosition, streamUnchanged
<1>10. ASSUME NEW indx \in Positions, CallGet(indx) PROVE UNCHANGED vars
  BY <1>10 DEF CallGet, GetStreamOccupancy, Begin, streamUnchanged
<1>11. ASSUME NEW end \in Positions, NEW beg \in Positions, CallSnapshot(end, beg)
       PROVE  UNCHANGED vars
  BY <1>11 DEF CallSnapshot, GetStreamOccupancy, Begin, streamUnchanged
<1>12. CASE CallFrame
  BY <1>12, CallFrameStream, LogLook DEF Log!Next
<1>. QED BY <1>0, <1>1, <1>2, <1>3, <1>4, <1>5, <1>6, <1>7, <1>8, <1>9, <1>10,
            <1>11, <1>12
         DEF ClientNext

(* README_API.md:587: whatever arrives between the steps of the calls, the *)
(* application reads a log through a cursor that loses nothing without     *)
(* saying so.                                                              *)
THEOREM ClientRefinesLog == ClientSpec => RefinesLog
<1>1. ClientInit => Log!Init
  BY LogInit DEF ClientInit
<1>. QED BY <1>1, ClientLogNext, CInvInvariant, PTL
         DEF ClientSpec, RefinesLog, Log!Spec
=============================================================================
