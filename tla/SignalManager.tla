---------------------------- MODULE SignalManager ----------------------------
(***************************************************************************)
(* SignalManager of concurrency.cpp (the Windows build): a thread asks for *)
(* an answer under an id and waits, another thread brings the answer.      *)
(*                                                                         *)
(*   asking thread:     set_signal_ID(id)  ...  wait_for(id, timeout)      *)
(*   answering thread:  signal(id, secondary)                              *)
(*                                                                         *)
(* There is a flag per id and one event, auto-reset, for all of them.  A   *)
(* flag is born true, and an answer writes it.  wait_for waits for the     *)
(* event without the lock, then reads the flag and erases it; signal       *)
(* writes the flag with the lock and sets the event after giving it up.    *)
(*                                                                         *)
(* The flags are a multimap in the code.  Only one thread of the engine    *)
(* asks, and it waits before it asks again, so an id is there at most      *)
(* once.                                                                   *)
(***************************************************************************)
EXTENDS Naturals

VARIABLES
  flags,     \* _unq_flags: by id, Unset when it is not there
  event,     \* _event is set
  setting    \* the answering thread is between the flag and SetEvent

signals == <<flags, event, setting>>

Unset == "unset"
FlagValues == {Unset, "yes", "no"}

SignalsInit(ids) ==
  /\ flags = [id \in ids |-> Unset]
  /\ event = FALSE
  /\ setting = FALSE

set_signal_ID(id) ==
  /\ flags' = [flags EXCEPT ![id] = "yes"]
  /\ UNCHANGED <<event, setting>>

(* Mutant: the event is one that is reset by hand, and is not.             *)
WakesAndLeaves ==
  /\ event
  /\ UNCHANGED signals

(* WaitForSingleObject returns because of the event, and resets it.        *)
Wakes ==
  /\ event
  /\ event' = FALSE
  /\ UNCHANGED <<flags, setting>>

(* The rest of wait_for: what it returns, and the flag erased.             *)
Answer(id, signalled) == signalled /\ flags[id] = "yes"

Erase(id) ==
  /\ flags' = [flags EXCEPT ![id] = Unset]
  /\ UNCHANGED <<event, setting>>

(* signal, up to the end of its critical section; the event is not set     *)
(* when nobody has asked under the id.                                     *)
signal(id, secondary) ==
  /\ ~setting
  /\ IF flags[id] = Unset
     THEN UNCHANGED <<flags, setting>>
     ELSE /\ flags' = [flags EXCEPT ![id] = secondary]
          /\ setting' = TRUE
  /\ UNCHANGED event

SetEvent ==
  /\ setting
  /\ setting' = FALSE
  /\ event' = TRUE
  /\ UNCHANGED flags
=============================================================================
