---------------------------- MODULE StreamCounts ----------------------------
(***************************************************************************)
(* What the engine promises of a request: it counts references to streams, *)
(* and each request changes the count of its own pair, once, or is refused *)
(* and changes nothing.  BlockStreams is built on it.                      *)
(***************************************************************************)
EXTENDS Naturals

CONSTANTS Pairs

VARIABLES
  refs,      \* the references of each pair
  request,   \* what the engine was asked and has not decided yet
  stopped,   \* the engine was told to stop
  remaining  \* the pairs it then has still to give up

vars == <<refs, request, stopped, remaining>>

Nothing == [op |-> "none"]
Request(op, p) == [op |-> op, pair |-> p]

Raised(p)  == [refs EXCEPT ![p] = @ + 1]
Dropped(p) == [refs EXCEPT ![p] = IF @ > 0 THEN @ - 1 ELSE 0]

Init ==
  /\ refs = [p \in Pairs |-> 0]
  /\ request = Nothing
  /\ stopped = FALSE
  /\ remaining = {}

Ask ==
  /\ request = Nothing /\ ~stopped
  /\ \E op \in {"add", "remove", "test"}, p \in Pairs : request' = Request(op, p)
  /\ UNCHANGED <<refs, stopped, remaining>>

(* A test adds the pair, and takes it back.                                *)
Add(p) ==
  /\ refs' = Raised(p)
  /\ \/ request = Request("add", p) /\ request' = Nothing
     \/ request = Request("test", p) /\ request' = Request("remove", p)
  /\ UNCHANGED <<stopped, remaining>>

Refuse(p) ==
  /\ request \in {Request("add", p), Request("test", p)}
  /\ request' = Nothing
  /\ UNCHANGED <<refs, stopped, remaining>>

Remove(p) ==
  /\ request = Request("remove", p)
  /\ request' = Nothing
  /\ refs' = Dropped(p)
  /\ UNCHANGED <<stopped, remaining>>

(* The engine stops: one reference less for each pair it knows, in turn.   *)
Stop ==
  /\ request = Nothing /\ ~stopped
  /\ stopped' = TRUE
  /\ remaining' = {p \in Pairs : refs[p] > 0}
  /\ UNCHANGED <<refs, request>>

GiveUp(p) ==
  /\ p \in remaining
  /\ remaining' = remaining \ {p}
  /\ refs' = Dropped(p)
  /\ UNCHANGED <<request, stopped>>

Next ==
  \/ Ask \/ Stop
  \/ \E p \in Pairs : Add(p) \/ Refuse(p) \/ Remove(p) \/ GiveUp(p)

Spec == Init /\ [][Next]_vars
=============================================================================
