---------------------------- MODULE MCDataStream ----------------------------
(* Instances of DataStream for TLC. *)
EXTENDS DataStream

(* Requests below, at and above MaxBound, the empty one included.          *)
AnyRoom == 0 .. MaxBound + 1

(* The same, with some room in every call.                                 *)
SomeRoom == AnyRoom \ {0}
=============================================================================
