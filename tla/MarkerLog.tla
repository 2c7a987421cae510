----------------------------- MODULE MarkerLog ------------------------------
(***************************************************************************)
(* What a data stream with a marker promises to its reader, without        *)
(* deques, indices or counts: a log of values 1, 2, 3, ... of which only a *)
(* suffix is retained, and a reader that resumes where it stopped and is   *)
(* told when something it had not read is gone.                            *)
(***************************************************************************)
EXTENDS Integers

VARIABLES
  pushed,  \* the log is 1 .. pushed
  cursor,  \* the reader is done with everything up to here
  floor,   \* nothing up to here can be read any more by resuming
  got      \* what the last resuming read delivered

vars == <<pushed, cursor, floor, got>>

NoGot == [since |-> 0, size |-> 0, vals |-> [i \in {} |-> 0]]

Init ==
  /\ pushed = 0
  /\ cursor = 0
  /\ floor = 0
  /\ got = NoGot

(* A value arrives; the oldest one not read yet may have to go for it.     *)
Append ==
  /\ pushed' = pushed + 1
  /\ floor' \in {floor, floor + 1}
  /\ UNCHANGED <<cursor, got>>

(* Less is retained from now on.                                           *)
Trim ==
  /\ floor' \in floor .. pushed
  /\ UNCHANGED <<pushed, cursor, got>>

(* The reader goes to a place of its choice.                               *)
Reposition ==
  /\ cursor' \in 0 .. pushed
  /\ floor' = cursor'
  /\ got' = NoGot
  /\ UNCHANGED pushed

(* The reader resumes, up to the value numbered upto, with room for n.  It *)
(* gets the newest n of what is left, and a size that is not negative only *)
(* if that is everything since it last stopped.                            *)
Resume ==
  \E upto \in floor + 1 .. pushed :
    \E n \in 1 .. upto - floor :
      /\ got' = [since |-> cursor,
                 size  |-> IF floor = cursor /\ n = upto - floor THEN n ELSE -n,
                 vals  |-> [i \in 0 .. n - 1 |-> upto - i]]
      /\ cursor' = upto
      /\ floor' = upto
      /\ UNCHANGED pushed

(* There is nothing to resume with.                                        *)
ResumeEmpty ==
  /\ got' = [NoGot EXCEPT !.since = cursor]
  /\ UNCHANGED <<pushed, cursor, floor>>

(* The reader looks at a value without moving.                             *)
Look ==
  /\ got' = NoGot
  /\ UNCHANGED <<pushed, cursor, floor>>

Next == Append \/ Trim \/ Reposition \/ Resume \/ ResumeEmpty \/ Look

Spec == Init /\ [][Next]_vars
=============================================================================
