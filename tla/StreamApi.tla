----------------------------- MODULE StreamApi ------------------------------
(***************************************************************************)
(* The calls of the client library on a stream of a block                  *)
(* (client/client_get.cpp, raw_data_block.tpp).                            *)
(*                                                                         *)
(* A call checks its arguments, takes the library's one recursive mutex    *)
(* (GLOBAL_RLOCK_GUARD), finds the block and the stream and runs one       *)
(* operation of the stream.  With a name that is not valid or not there,   *)
(* or when the operation throws, it returns an error code and the stream   *)
(* is as it was.  The calls for the several number types, with and without *)
(* DateTimeStamps, and those of the C++ API differ in how they report      *)
(* only.                                                                   *)
(*                                                                         *)
(* MaxBound stands for TOSDB_MAX_BLOCK_SZ: no stream of a block is larger. *)
(***************************************************************************)
EXTENDS DataStream

streamUnchanged == UNCHANGED vars

(* What RawDataBlock does with a stream of its: block_size resizes every   *)
(* one, insert_data pushes to the one of its item and topic, and the       *)
(* frames look at the newest value of each.                                *)
block_size(b)       == BoundSize(Lesser(b, MaxBound))
insert_data         == Push
map_of_frame_topics == LeaveMarker(0)
map_of_frame_items  == LeaveMarker(0)
matrix_of_frame     == LeaveMarker(0)

-----------------------------------------------------------------------------
(* The state of the stream. *)

GetStreamOccupancy == qcount
GetMarkerPosition  == mark
IsMarkerDirty      == dirty
GetBlockSize       == qbound

IsValidBlockSize(sz) == sz \in 1 .. MaxBound

SetBlockSize(sz) ==
  /\ IsValidBlockSize(sz)
  /\ block_size(sz)

-----------------------------------------------------------------------------
(* The values. *)

GetValue(kind, indx) == Copy(kind, 1, indx, indx)

GetGeneric(indx) == At(indx)

GetGenericSnapshot(end, beg) == Vector(end, beg)

GetStreamSnapshot(kind, room, end, beg) == Copy(kind, room, end, beg)

GetStreamSnapshotFromMarker(kind, room, beg) == CopyFromMarker(kind, room, beg)

GetNFromMarker(kind, n) == NCopyFromMarker(kind, n)

GetItemFrame        == map_of_frame_items
GetItemFrameStrings == map_of_frame_items
GetTopicFrame       == map_of_frame_topics
GetTotalFrame       == matrix_of_frame
=============================================================================
