---------------------------- MODULE StreamClient ----------------------------
(***************************************************************************)
(* The calls an application makes on one stream of a block, each of them   *)
(* several operations of the stream, while the connection thread pushes    *)
(* between any two (python/tosdb/_win.py, client/client_get.cpp).          *)
(*                                                                         *)
(* Only pushes come in between: every C call holds the library's one       *)
(* recursive mutex (GLOBAL_RLOCK_GUARD), and a TOSDB_ThreadSafeDataBlock   *)
(* holds its own lock for the whole of a Python call.  (A plain            *)
(* TOSDB_DataBlock is documented as not thread safe.)  So one call is      *)
(* under way at a time.                                                    *)
(*                                                                         *)
(* The calls have their default arguments check_indx and smart_size.       *)
(***************************************************************************)
EXTENDS StreamApi

CONSTANT
  Margin   \* margin_of_safety: room for pushes between sizing and copying

ASSUME MarginAssumption == Margin \in Nat \ {0}

VARIABLES
  req,     \* the call under way: its arguments and its next step
  answer   \* what the last call that finished gave its caller

cvars == <<vars, req, answer>>

(* op and step of the call, the range and room it asks the stream for,     *)
(* throw_if_data_lost, and pushed when the room was chosen.                *)
Idle == [op |-> "none", step |-> "idle", end |-> 0, beg |-> 0, room |-> 0,
         throws |-> FALSE, at |-> 0]

(* how is "data" (the values and stamps are in out), "empty" (None or an   *)
(* empty list) or "raise"; arrived counts the values that came between the *)
(* sizing and the copying.                                                 *)
NoAnswer == [op |-> "none", step |-> "idle", how |-> "empty", beg |-> 0,
             throws |-> FALSE, room |-> 0, arrived |-> 0]

ClientInit == Init /\ req = Idle /\ answer = NoAnswer

(* The call under way returns to the application.                          *)
Finish(how) ==
  /\ req' = Idle
  /\ answer' = [op |-> req.op, step |-> req.step, how |-> how, beg |-> req.beg,
                throws |-> req.throws, room |-> req.room,
                arrived |-> pushed - req.at]

Proceed(step) ==
  /\ req' = [req EXCEPT !.step = step]
  /\ UNCHANGED answer

(* The application calls op.                                               *)
Begin(op, step, end, beg, room, throws) ==
  /\ req = Idle
  /\ req' = [op |-> op, step |-> step, end |-> end, beg |-> beg,
             room |-> room, throws |-> throws, at |-> pushed]
  /\ answer' = NoAnswer
  /\ streamUnchanged

-----------------------------------------------------------------------------
(* stream_snapshot_from_marker and n_from_marker.  With throw_if_data_lost *)
(* they look at the dirty flag first.                                      *)

CallFromMarker(beg, throws) ==
  /\ beg < qbound
  /\ Begin("from_marker", IF throws THEN "check" ELSE "position",
           0, beg, 0, throws)

CallNFromMarker(n, throws) ==
  /\ n > 0
  /\ Begin("n_from_marker", IF throws THEN "check" ELSE "copy",
           0, 0, n, throws)

CheckDirty ==
  /\ req.step = "check"
  /\ IF IsMarkerDirty THEN Finish("raise")
     ELSE Proceed(IF req.op = "from_marker" THEN "position" ELSE "copy")
  /\ streamUnchanged

(* Mutant: no margin for what is pushed before the copy.                   *)
RoomExact(size) == size

RoomFor(size) == size + Margin

(* Mutant: a marker in front of beg is sized all the same.                 *)
ReadPositionUnguarded ==
  /\ req.step = "position"
  /\ req' = [req EXCEPT !.step = "copy", !.at = pushed,
                        !.room = RoomFor(GetMarkerPosition - req.beg + 1)]
  /\ UNCHANGED answer
  /\ streamUnchanged

(* The room for the copy is what is in front of the marker now and a       *)
(* margin.                                                                 *)
ReadPosition ==
  LET cur_sz == GetMarkerPosition - req.beg + 1 IN
  /\ req.step = "position"
  /\ IF cur_sz < 0 THEN Finish("empty")
     ELSE /\ req' = [req EXCEPT !.step = "copy", !.room = RoomFor(cur_sz),
                                !.at = pushed]
          /\ UNCHANGED answer
  /\ streamUnchanged

(* Mutant: a negative size is taken for its magnitude.                     *)
VerdictNegated(size) == IF size = 0 THEN "empty" ELSE "data"

(* Mutant: a negative size is taken for nothing to read.                   *)
VerdictNegativeIsNone(size) == IF size <= 0 THEN "empty" ELSE "data"

(* How a returned size is reported.                                        *)
Verdict(size) ==
  IF size = 0 THEN "empty"
  ELSE IF size < 0 /\ req.throws THEN "raise" ELSE "data"

CopyMarked(kind) ==
  /\ req.step = "copy"
  /\ \/ /\ req.op = "from_marker"
        /\ GetStreamSnapshotFromMarker(kind, req.room, req.beg)
     \/ /\ req.op = "n_from_marker"
        /\ GetNFromMarker(kind, req.room)
  /\ Finish(Verdict(out'.size))

-----------------------------------------------------------------------------
(* get and stream_snapshot look at the occupancy first.                    *)

(* get(indx): an index that is not occupied yet raises.                    *)
CallGet(indx) ==
  /\ req = Idle
  /\ indx < qbound
  /\ IF indx >= GetStreamOccupancy
     THEN /\ answer' = [NoAnswer EXCEPT !.op = "get", !.how = "raise"]
          /\ UNCHANGED <<vars, req>>
     ELSE Begin("get", "read", indx, indx, 1, FALSE)

ReadAt(kind) ==
  /\ req.step = "read"
  /\ GetValue(kind, req.beg)
  /\ Finish("data")

(* Mutant: the snapshot is not cut at the occupancy.                       *)
CutNowhere(end) == end

CutAtOccupancy(end) == Lesser(end, GetStreamOccupancy - 1)

(* stream_snapshot(end, beg), and TOSDB_GetStreamSnapshot<T,b>, which cuts *)
(* the size, not the range.                                                *)
CallSnapshot(end, beg) ==
  /\ req = Idle
  /\ beg <= end
  /\ end < qbound
  /\ IF GetStreamOccupancy <= beg
     THEN /\ answer' = [NoAnswer EXCEPT !.op = "snapshot"]
          /\ UNCHANGED <<vars, req>>
     ELSE \E e \in {end, CutAtOccupancy(end)} :
            Begin("snapshot", "snapshot", e, beg,
                  CutAtOccupancy(end) - beg + 1, FALSE)

CopySnapshot(kind) ==
  /\ req.step = "snapshot"
  /\ GetStreamSnapshot(kind, req.room, req.end, req.beg)
  /\ Finish("data")

-----------------------------------------------------------------------------
(* item_frame, topic_frame and total_frame: the newest value of each       *)
(* stream of the block, none of them read.                                 *)
CallFrame ==
  /\ req = Idle
  /\ GetItemFrame \/ GetItemFrameStrings \/ GetTopicFrame \/ GetTotalFrame
  /\ answer' = [NoAnswer EXCEPT !.op = "frame", !.how = "data"]
  /\ UNCHANGED req

(* set_block_size.                                                         *)
CallSetBlockSize(size) ==
  /\ req = Idle
  /\ SetBlockSize(size)
  /\ UNCHANGED <<req, answer>>

Arrival == insert_data /\ UNCHANGED <<req, answer>>

Positions == 0 .. MaxBound - 1

(* The calls of the Python block and of the typed C++ templates.           *)
ClientNext ==
  \/ Arrival
  \/ \E size \in Sizes : CallSetBlockSize(size)
  \/ \E beg \in Positions, throws \in BOOLEAN : CallFromMarker(beg, throws)
  \/ \E n \in Sizes, throws \in BOOLEAN : CallNFromMarker(n, throws)
  \/ CheckDirty
  \/ ReadPosition
  \/ \E kind \in Kinds : CopyMarked(kind)
  \/ \E indx \in Positions : CallGet(indx)
  \/ \E kind \in Kinds : ReadAt(kind)
  \/ \E end, beg \in Positions : CallSnapshot(end, beg)
  \/ \E kind \in Kinds : CopySnapshot(kind)
  \/ CallFrame

ClientSpec == ClientInit /\ [][ClientNext]_cvars

-----------------------------------------------------------------------------
(* TOSDB_GetStreamSnapshot<generic_type,true>: the values by one operation *)
(* of the stream and the stamps by another.                                *)

CallPair(end, beg) ==
  /\ beg <= end
  /\ end < qbound
  /\ Begin("pair", "vector", end, beg, MaxBound, FALSE)

PairValues ==
  /\ req.step = "vector"
  /\ GetGenericSnapshot(req.end, req.beg)
  /\ Proceed("stamps")

PairStamps ==
  LET n == CopyCount(MaxBound, req.end, req.beg) IN
  /\ req.step = "stamps"
  /\ out' = [out EXCEPT !.call = "pair", !.dts = Slice(stamps, req.beg, n)]
  /\ MoveMarker(req.beg)
  /\ Finish("data")

(* TOSDB_Get<generic_type,b>.                                              *)
CallGetGeneric(indx) ==
  /\ req = Idle
  /\ GetGeneric(indx)
  /\ answer' = [NoAnswer EXCEPT !.op = "at", !.how = "data"]
  /\ UNCHANGED req

GenericNext ==
  \/ ClientNext
  \/ \E indx \in Positions : CallGetGeneric(indx)
  \/ \E end, beg \in Positions : CallPair(end, beg)
  \/ PairValues
  \/ PairStamps

(* The same with the C++ snapshot of generic values, which does not look   *)
(* at the occupancy and may leave the marker past it.                      *)
GenericSpec == ClientInit /\ [][GenericNext]_cvars

-----------------------------------------------------------------------------
(***************************************************************************)
(* Properties.                                                             *)
(***************************************************************************)

Steps == {"idle", "check", "position", "copy", "read", "snapshot", "vector",
          "stamps"}

Ops == FromMarkerCalls \cup {"none", "get", "snapshot", "pair"}

(* Every variable has its type, and a call under way stands on what it     *)
(* read of the stream: the range of a snapshot and the index of a get are  *)
(* still occupied when the copy is made.                                   *)
ClientTypeOK ==
  /\ TypeOK
  /\ req.op \in Ops /\ req.step \in Steps /\ req.throws \in BOOLEAN
  /\ req.end \in 0 .. qbound - 1 /\ req.beg \in 0 .. qbound - 1
  /\ req.room \in Nat /\ (req.step = "copy" => req.room > 0)
  /\ req.step \in {"read", "snapshot"} => req.beg < qcount
  /\ req.at \in 0 .. pushed
  /\ answer.how \in {"data", "empty", "raise"}

(* stream_snapshot_from_marker raises at the copy only for a reason its    *)
(* documentation gives (_common.py:303): the marker had hit the back of    *)
(* the stream, or more than margin_of_safety values came after the room    *)
(* was chosen.  n_from_marker raises only for the first.                   *)
RaisesOnlyForLoss ==
  (answer.how = "raise" /\ answer.step = "copy")
    => out.wasDirty \/ (answer.op = "from_marker" /\ answer.arrived > Margin)

(* A from-marker call asked to raise when data is lost, and that does not, *)
(* has delivered every value between where the last read ended and its own *)
(* end, newest first, once each.                                           *)
NoSilentLoss ==
  (answer.op \in FromMarkerCalls /\ answer.throws /\ answer.how = "data")
    => out.vals = [i \in 0 .. cursor - out.since - 1 |-> cursor - i]

(* get and stream_snapshot, which size their buffers by an occupancy read  *)
(* earlier and hand the whole buffer to the application, return as many    *)
(* values as the buffer holds, none of them blank, without a gap.          *)
SnapshotFull ==
  (answer.op \in {"get", "snapshot"} /\ answer.how = "data")
    => /\ out.size = answer.room
       /\ out.vals[0] > Blank
       /\ out.vals = [i \in 0 .. answer.room - 1 |-> out.vals[0] - i]
       /\ out.vals[answer.room - 1] > Blank

(* A from-marker call for everything up to the newest value that answers   *)
(* None is right: its caller has been given or told of every value there   *)
(* is.                                                                     *)
NoneIsCaughtUp ==
  [][(/\ req.op \in FromMarkerCalls
      /\ req.beg = 0
      /\ req' = Idle
      /\ answer'.how = "empty") => cursor = pushed]_cvars

(* "Returns pair of vectors of historical data, as generic_types, and      *)
(* matching DateTimeStamps" (README_API.md:580): the i-th stamp is that of *)
(* the i-th value.                                                         *)
PairMatches == out.call = "pair" => out.dts = out.vals

(* "check this first so we don't move marker if dirty" (_win.py:782): a    *)
(* from-marker call that raises for lost data leaves the marker alone.     *)
RaiseKeepsMarker ==
  [][(req.throws /\ req' = Idle /\ answer'.how = "raise") => mark' = mark]_cvars
=============================================================================
