--------------------------- MODULE MCStreamClient ---------------------------
(* Instances of StreamClient for TLC. *)
EXTENDS StreamClient, StreamTypes

(* Requests below, at and above the largest block, the empty one included. *)
AnySize == 0 .. MaxBound + 1
=============================================================================
