--------------------------- MODULE MCBlockStreams ---------------------------
(* Instances of BlockStreams: the processes, the blocks, the topics and    *)
(* the items are interchangeable.                                          *)
EXTENDS BlockStreams, TLC

Interchangeable ==
  Permutations(Clients) \cup Permutations(Blocks)
    \cup Permutations(Topics) \cup Permutations(Items)
=============================================================================
