------------------------ MODULE MCEngineConversations ------------------------
(* Instances of EngineConversations: two items of one topic, one of which  *)
(* the platform does not know, and an item of another topic.               *)
EXTENDS EngineConversations

CONSTANTS LAST, BID, IBM, XXX

SomePairs == {<<LAST, IBM>>, <<LAST, XXX>>, <<BID, IBM>>}
=============================================================================
