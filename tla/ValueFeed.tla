----------------------------- MODULE ValueFeed ------------------------------
(***************************************************************************)
(* What a shared buffer promises to the clients that read it, without      *)
(* mapping, offsets, loops or mutex: values 1, 2, 3, ... are sent to all   *)
(* readers; each comes when it likes, and gets the newest of what it has   *)
(* not had, in order, as many as there is room for.  More than that it     *)
(* does not get, and it is up to date then.                                *)
(***************************************************************************)
EXTENDS Integers

CONSTANTS Readers, Room

VARIABLES
  sent,     \* the values sent are 1 .. sent
  readers,  \* those that are in
  cursor,   \* each reader is done with everything up to here
  got       \* what each was given last

vars == <<sent, readers, cursor, got>>

(* The newest n values, the oldest of them first.                          *)
Newest(n) == [i \in 1 .. n |-> sent - n + i]

(* What reader r has not had, or what there is room for of it.             *)
Share(r) == IF sent - cursor[r] < Room THEN sent - cursor[r] ELSE Room

Init ==
  /\ sent = 0
  /\ readers = {}
  /\ cursor = [r \in Readers |-> 0]
  /\ got = [r \in Readers |-> Newest(0)]

Send ==
  /\ sent' = sent + 1
  /\ UNCHANGED <<readers, cursor, got>>

(* A reader starts at some value that was sent before it came, and may get *)
(* that and later ones again that it had when it was in before.            *)
Join(r) ==
  /\ r \notin readers
  /\ readers' = readers \cup {r}
  /\ \E k \in 0 .. sent : cursor' = [cursor EXCEPT ![r] = k]
  /\ got' = [got EXCEPT ![r] = Newest(0)]
  /\ UNCHANGED sent

Leave(r) ==
  /\ r \in readers
  /\ readers' = readers \ {r}
  /\ UNCHANGED <<sent, cursor, got>>

Fetch(r) ==
  /\ r \in readers
  /\ got' = [got EXCEPT ![r] = Newest(Share(r))]
  /\ cursor' = [cursor EXCEPT ![r] = sent]
  /\ UNCHANGED <<sent, readers>>

Next ==
  \/ Send
  \/ \E r \in Readers : Join(r) \/ Leave(r) \/ Fetch(r)

Spec == Init /\ [][Next]_vars
=============================================================================
