------------------------- MODULE SharedBufferProofs -------------------------
(***************************************************************************)
(* Proofs about SharedBuffer, for any number of clients, deaths, slots,    *)
(* and any sizes of header, element and loop counter.                      *)
(*                                                                         *)
(* The invariant ties the mutex to the program counters: the engine owns   *)
(* it exactly while its writer is between Wait and ReleaseMutex, a reader  *)
(* that is inside owns it, and nobody is inside a buffer that is not live. *)
(* The last is why a new mutex, made with a new buffer, finds nobody       *)
(* inside: no request is counted then, so no client has the buffer.        *)
(***************************************************************************)
EXTENDS SharedBuffer, FiniteSetTheorems, TLAPS

Using == {c \in Clients : client[c] # "none"}

Locks ==
  /\ writer # Idle => live
  /\ writer \in {"holding", "looping"} <=> owner = Engine
  /\ \A c \in Clients : reader[c] = "locked" => owner = c
  /\ \A c \in Clients : reader[c] # Idle => client[c] = "captured"

SInv ==
  /\ TypeOK
  /\ next_offset >= HeadSz
  /\ ServedWhileCaptured
  /\ Locks

-----------------------------------------------------------------------------

LEMMA Layout ==
  /\ DataLen \in Nat /\ DataLen >= ElemSz /\ ElemSz > 0
  /\ EndOffset \in Nat /\ HeadSz \in Nat /\ ElemSz \in Nat
  /\ HeadSz \in Offsets /\ EndOffset = HeadSz + DataLen
<1>1. /\ Slots \in Nat /\ Slots >= 1 /\ HeadSz \in Nat /\ HeadSz >= 1
      /\ ElemSz \in Nat /\ ElemSz > 0
  BY LayoutAssumption
<1>2. Slots * ElemSz \in Nat /\ Slots * ElemSz >= ElemSz
  BY <1>1
<1>. QED BY <1>1, <1>2 DEF DataLen, EndOffset, Offsets

LEMMA Round ==
  /\ SeqMod \in Nat /\ SeqMod >= 1
  /\ SeqMod * Slots \in Nat /\ SeqMod * Slots >= 1
<1>1. Slots \in Nat /\ Slots >= 1 /\ SeqMod \in Nat /\ SeqMod >= 1
  BY LayoutAssumption, SeqModAssumption
<1>. QED BY <1>1

LEMMA Processes ==
  Free # Engine /\ Free \notin Clients /\ Engine \notin Clients
BY ProcessesAssumption DEF Free, Engine

(* How the clients that use the buffer are counted.                        *)
LEMMA UsingFinite == IsFiniteSet(Using) /\ Cardinality(Using) \in Nat
BY ClientsAssumption, FS_Subset, FS_CardinalityType DEF Using

LEMMA NobodyUsing ==
  ASSUME Cardinality(Using) = 0, NEW c \in Clients
  PROVE  client[c] = "none"
BY UsingFinite, FS_EmptySet DEF Using

LEMMA InitSInv == Init => SInv
<1> SUFFICES ASSUME Init PROVE SInv
  OBVIOUS
<1>1. TypeOK /\ next_offset >= HeadSz
  <2>1. last \in [Clients -> [pos : 0 .. DataLen - 1, seq : 0 .. SeqMod - 1]]
    BY Layout, Round DEF Init
  <2>2. live \in BOOLEAN /\ abandoned \in BOOLEAN
    BY DEF Init
  <2>. QED BY <2>1, <2>2, Layout, Round DEF Init, TypeOK, Idle, Garbage
<1>2. ServedWhileCaptured
  <2>1. Using = {}
    BY DEF Init, Using
  <2>. QED BY <2>1, FS_EmptySet DEF Init, ServedWhileCaptured, Using
<1>3. Locks
  BY Processes DEF Init, Locks, Idle
<1>. QED BY <1>1, <1>2, <1>3 DEF SInv

-----------------------------------------------------------------------------
(* The engine's steps. *)

(* Steps that neither use nor count.                                       *)
LEMMA SameUse ==
  ASSUME ServedWhileCaptured, UNCHANGED <<refs, live, client>>
  PROVE  ServedWhileCaptured'
BY DEF ServedWhileCaptured

LEMMA ArriveSInv == SInv /\ Arrive => SInv'
<1> SUFFICES ASSUME SInv, Arrive PROVE SInv'
  OBVIOUS
<1> USE DEF SInv, Arrive, mapping, mutex, extract
<1>1. TypeOK' /\ (next_offset >= HeadSz)'
  BY DEF TypeOK
<1>2. ServedWhileCaptured'
  BY SameUse
<1>3. Locks'
  BY DEF Locks, Idle
<1>. QED BY <1>1, <1>2, <1>3

LEMMA WaitSInv == SInv /\ Wait => SInv'
<1> SUFFICES ASSUME SInv, Wait PROVE SInv'
  OBVIOUS
<1> USE DEF SInv, Wait, mapping, mutex, extract
<1>1. TypeOK' /\ (next_offset >= HeadSz)'
  <2>1. abandoned' \in BOOLEAN
    BY DEF TypeOK
  <2>2. /\ owner' \in {Free, Engine} \cup Clients
        /\ writer' \in {"waiting", "holding"}
    BY DEF TypeOK
  <2>. QED BY <2>1, <2>2 DEF TypeOK
<1>2. ServedWhileCaptured'
  BY SameUse
<1>3. Locks'
  BY Processes DEF Locks, Idle
<1>. QED BY <1>1, <1>2, <1>3

LEMMA PutSInv == SInv /\ Put => SInv'
<1> SUFFICES ASSUME SInv, Put PROVE SInv'
  OBVIOUS
<1> USE DEF SInv, Put, extract
<1>1. next_offset' \in Offsets /\ next_offset' >= HeadSz
  <2>1. next_offset \in Int /\ next_offset >= HeadSz
    BY DEF TypeOK, Offsets
  <2>2. CASE next_offset + ElemSz >= EndOffset
    BY <2>2, Layout
  <2>3. CASE ~(next_offset + ElemSz >= EndOffset)
    BY <2>1, <2>3, Layout DEF Offsets
  <2>. QED BY <2>2, <2>3
<1>2. TypeOK'
  <2>1. /\ mem' \in [Offsets -> Nat]
        /\ written' \in Nat
    BY DEF TypeOK
  <2>2. writer' \in {Idle, "looping"} /\ owner' \in {Free, owner}
    OBVIOUS
  <2>. QED BY <1>1, <2>1, <2>2 DEF TypeOK
<1>3. ServedWhileCaptured'
  BY SameUse
<1>4. Locks'
  BY Processes DEF Locks, Idle
<1>. QED BY <1>1, <1>2, <1>3, <1>4

LEMMA LoopSInv == SInv /\ Loop => SInv'
<1> SUFFICES ASSUME SInv, Loop PROVE SInv'
  OBVIOUS
<1> USE DEF SInv, Loop, extract
<1>1. loop_seq' \in 0 .. SeqMod - 1
  BY Round DEF TypeOK
<1>2. TypeOK' /\ (next_offset >= HeadSz)'
  BY <1>1 DEF TypeOK
<1>3. ServedWhileCaptured'
  BY SameUse
<1>4. Locks'
  BY Processes DEF Locks, Idle
<1>. QED BY <1>2, <1>3, <1>4

-----------------------------------------------------------------------------
(* The clients' requests. *)

(* A new mutex is made when no request is counted: nobody is inside.       *)
LEMMA NobodyInside ==
  ASSUME SInv, refs = 0
  PROVE  writer = Idle /\ \A c \in Clients : reader[c] = Idle /\ client[c] = "none"
<1>1. writer = Idle
  BY DEF SInv, Locks, ServedWhileCaptured
<1>2. Cardinality(Using) = 0
  BY UsingFinite DEF SInv, ServedWhileCaptured, Using
<1>. QED BY <1>1, <1>2, NobodyUsing DEF SInv, Locks

LEMMA AddSInv ==
  ASSUME SInv, NEW c \in Clients, Add(c)
  PROVE  SInv'
<1> USE DEF SInv, Add, mapping, mutex, CreateBuffer
<1>1. TypeOK' /\ (next_offset >= HeadSz)'
  <2>1. /\ refs' \in Nat /\ born' \in Nat /\ stuck' \subseteq Clients
        /\ mem' \in [Offsets -> Nat] /\ loop_seq' \in 0 .. SeqMod - 1
        /\ owner' \in {Free, Engine} \cup Clients
    BY Round DEF TypeOK, Garbage
  <2>2. next_offset' \in Offsets /\ next_offset' >= HeadSz
    BY Layout DEF TypeOK
  <2>3. live' \in BOOLEAN /\ abandoned' \in BOOLEAN
    BY DEF TypeOK
  <2>4. client' \in [Clients -> {"none", "added", "captured", "released"}]
    BY DEF TypeOK
  <2>. QED BY <2>1, <2>2, <2>3, <2>4 DEF TypeOK
<1>2. ServedWhileCaptured'
  <2>1. Using' = Using \cup {c} /\ c \notin Using
    BY DEF Using, TypeOK
  <2>2. Cardinality(Using') = Cardinality(Using) + 1
    BY <2>1, UsingFinite, FS_AddElement
  <2>3. refs' = refs + 1 /\ refs \in Nat
    BY DEF TypeOK
  <2>4. Cardinality(Using') <= refs'
    BY <2>2, <2>3, UsingFinite DEF ServedWhileCaptured, Using
  <2>5. live' <=> refs' > 0
    <3>1. refs' > 0
      BY <2>3
    <3>2. live'
      BY <2>3 DEF ServedWhileCaptured
    <3>. QED BY <3>1, <3>2
  <2>. QED BY <2>4, <2>5 DEF ServedWhileCaptured, Using
<1>3. Locks'
  <2>1. CASE refs = 0
    BY <2>1, NobodyInside, Processes DEF Locks, Idle
  <2>2. CASE refs # 0
    BY <2>2 DEF Locks, TypeOK, Idle
  <2>. QED BY <2>1, <2>2
<1>. QED BY <1>1, <1>2, <1>3

(* Steps that move a client on, from one use of the buffer to another.     *)
LEMMA StillUsing ==
  ASSUME ServedWhileCaptured, refs \in Nat, UNCHANGED <<refs, live>>,
         Using' \subseteq Using
  PROVE  ServedWhileCaptured'
<1>1. Cardinality(Using') <= Cardinality(Using) /\ Cardinality(Using') \in Nat
  BY UsingFinite, FS_Subset, FS_CardinalityType
<1>2. Cardinality(Using) <= refs
  BY DEF ServedWhileCaptured, Using
<1>3. Cardinality(Using') <= refs'
  BY <1>1, <1>2, UsingFinite
<1>. QED BY <1>3 DEF ServedWhileCaptured, Using

LEMMA CaptureSInv ==
  ASSUME SInv, NEW c \in Clients, Capture(c)
  PROVE  SInv'
<1> USE DEF SInv, Capture, mapping, mutex
<1>1. TypeOK' /\ (next_offset >= HeadSz)'
  <2>1. client' \in [Clients -> {"none", "added", "captured", "released"}]
    BY DEF TypeOK
  <2>2. last' \in [Clients -> [pos : 0 .. DataLen - 1, seq : 0 .. SeqMod - 1]]
    BY Layout, Round DEF TypeOK
  <2>3. seen' \in [Clients -> Int]
    <3>1. written \in Int /\ written - born \in Int
      BY DEF TypeOK
    <3> DEFINE r == (written - born) % (SeqMod * Slots)
    <3>2. r \in Int
      BY <3>1, Round
    <3> HIDE DEF r
    <3>3. seen' = [seen EXCEPT ![c] = written - r]
      BY DEF r
    <3>. QED BY <3>1, <3>2, <3>3 DEF TypeOK
  <2>. QED BY <2>1, <2>2, <2>3 DEF TypeOK
<1>2. Using' \subseteq Using /\ refs \in Nat
  BY DEF Using, TypeOK
<1>3. ServedWhileCaptured'
  BY <1>2, StillUsing
<1>4. Locks'
  BY DEF Locks, TypeOK
<1>. QED BY <1>1, <1>3, <1>4

LEMMA ReleaseSInv ==
  ASSUME SInv, NEW c \in Clients, Release(c)
  PROVE  SInv'
<1> USE DEF SInv, Release, mapping, mutex, extract
<1>1. TypeOK' /\ (next_offset >= HeadSz)'
  <2>1. client' \in [Clients -> {"none", "added", "captured", "released"}]
    BY DEF TypeOK
  <2>. QED BY <2>1 DEF TypeOK
<1>2. Using' \subseteq Using /\ refs \in Nat
  BY DEF Using, TypeOK
<1>3. ServedWhileCaptured'
  BY <1>2, StillUsing
<1>4. Locks'
  BY DEF Locks, TypeOK
<1>. QED BY <1>1, <1>3, <1>4

LEMMA RemoveSInv ==
  ASSUME SInv, NEW c \in Clients, Remove(c)
  PROVE  SInv'
<1> USE DEF SInv, Remove, mapping, mutex, extract
<1>1. c \in Using /\ Using' = Using \ {c}
  BY DEF Using, TypeOK
<1>2. Cardinality(Using') = Cardinality(Using) - 1
  BY <1>1, UsingFinite, FS_RemoveElement
<1>3. Cardinality(Using) <= refs /\ refs \in Nat /\ Cardinality(Using) >= 1
  <2>1. Cardinality(Using) # 0
    BY <1>1, UsingFinite, FS_EmptySet
  <2>. QED BY <2>1, UsingFinite DEF ServedWhileCaptured, Using, TypeOK
<1>4. refs' = refs - 1
  BY <1>3, UsingFinite DEF Larger
<1>5. TypeOK' /\ (next_offset >= HeadSz)'
  <2>1. refs' \in Nat
    BY <1>3, <1>4, UsingFinite
  <2>2. live' \in BOOLEAN
    OBVIOUS
  <2>3. client' \in [Clients -> {"none", "added", "captured", "released"}]
    BY DEF TypeOK
  <2>. QED BY <2>1, <2>2, <2>3 DEF TypeOK
<1>6. ServedWhileCaptured'
  <2>1. Cardinality(Using') <= refs'
    BY <1>2, <1>3, <1>4, UsingFinite
  <2>2. live' <=> refs' > 0
    <3>1. refs > 1 <=> refs' > 0
      BY <1>3, <1>4
    <3>. QED BY <3>1
  <2>. QED BY <2>1, <2>2 DEF ServedWhileCaptured, Using
<1>7. Locks'
  <2>1. writer' # Idle => live'
    <3>1. CASE refs = 1
      BY <3>1
    <3>2. CASE refs # 1
      <4>1. refs > 1
        BY <1>3, <3>2, UsingFinite
      <4>. QED BY <4>1
    <3>. QED BY <3>1, <3>2
  <2>2. \A d \in Clients : reader'[d] # Idle => client'[d] = "captured"
    BY DEF Locks, TypeOK
  <2>. QED BY <2>1, <2>2 DEF Locks
<1>. QED BY <1>5, <1>6, <1>7

-----------------------------------------------------------------------------
(* The clients' extraction. *)

LEMMA PeekSInv ==
  ASSUME SInv, NEW c \in Clients, Peek(c)
  PROVE  SInv'
<1> USE DEF SInv, Peek, mapping, mutex
<1>1. TypeOK' /\ (next_offset >= HeadSz)'
  <2>1. reader' \in [Clients -> {Idle, "peeked", "locked"}]
    BY DEF TypeOK
  <2>. QED BY <2>1 DEF TypeOK
<1>2. ServedWhileCaptured'
  BY SameUse
<1>3. Locks'
  BY DEF Locks, TypeOK, Idle
<1>. QED BY <1>1, <1>2, <1>3

LEMMA TryLockSInv ==
  ASSUME SInv, NEW c \in Clients, TryLock(c)
  PROVE  SInv'
<1> USE DEF SInv, TryLock, mapping, mutex
<1>1. /\ owner' \in {owner, c} /\ stuck' \subseteq Clients
      /\ reader' \in {[reader EXCEPT ![c] = "locked"], [reader EXCEPT ![c] = Idle]}
      /\ owner' = c => owner \in {Free, c}
      /\ reader' = [reader EXCEPT ![c] = "locked"] => owner' = c
  BY Processes DEF TypeOK, Idle
<1>2. TypeOK' /\ (next_offset >= HeadSz)'
  <2>1. abandoned' \in BOOLEAN
    BY DEF TypeOK
  <2>2. reader' \in [Clients -> {Idle, "peeked", "locked"}]
    BY <1>1 DEF TypeOK
  <2>. QED BY <1>1, <2>1, <2>2 DEF TypeOK
<1>3. ServedWhileCaptured'
  BY SameUse
<1>4. Locks'
  <2>1. owner' = Engine <=> owner = Engine
    BY <1>1, Processes
  <2>2. ASSUME NEW d \in Clients, reader'[d] = "locked" PROVE owner' = d
    <3>1. CASE d = c
      BY <1>1, <2>2, <3>1 DEF TypeOK, Idle
    <3>2. CASE d # c
      BY <1>1, <2>2, <3>2, Processes DEF TypeOK, Locks
    <3>. QED BY <3>1, <3>2
  <2>3. \A d \in Clients : reader'[d] # Idle => client'[d] = "captured"
    BY <1>1 DEF Locks, TypeOK, Idle
  <2>. QED BY <2>1, <2>2, <2>3 DEF Locks
<1>. QED BY <1>2, <1>3, <1>4

(* A client that owned the mutex is inside no more; the engine may be.     *)
LEMMA HandOverLocks ==
  ASSUME SInv, NEW c \in Clients, NEW left \in BOOLEAN, owner = c, HandOver(left),
         live' = live, reader' = [reader EXCEPT ![c] = Idle],
         \A d \in Clients : d # c => client'[d] = client[d]
  PROVE  /\ Locks'
         /\ owner' \in {Free, Engine} /\ abandoned' \in BOOLEAN
         /\ writer' \in {writer, "holding"}
<1> USE DEF SInv
<1>1. writer \notin {"holding", "looping"}
  BY Processes DEF Locks
<1>2. \A d \in Clients : d # c => reader'[d] = reader[d] /\ reader[d] # "locked"
  BY DEF Locks, TypeOK
<1>3. reader'[c] = Idle
  BY DEF TypeOK
<1>4. \A d \in Clients : reader'[d] # "locked" /\ (reader'[d] # Idle => client'[d] = "captured")
  BY <1>2, <1>3 DEF Locks, Idle
<1>5. CASE writer = "waiting"
  BY <1>4, <1>5, Processes DEF HandOver, Locks, Idle
<1>6. CASE writer # "waiting"
  BY <1>1, <1>4, <1>6, Processes DEF HandOver, Locks, Idle
<1>. QED BY <1>5, <1>6

LEMMA DieSInv ==
  ASSUME SInv, NEW c \in Clients, Die(c)
  PROVE  SInv'
<1> USE DEF SInv, Die, mapping, mutex
<1>1. /\ client' \in [Clients -> {"none", "added", "captured", "released"}]
      /\ reader' \in [Clients -> {Idle, "peeked", "locked"}]
      /\ Using' \subseteq Using /\ refs \in Nat
      /\ \A d \in Clients : d # c => client'[d] = client[d] /\ reader'[d] = reader[d]
      /\ reader'[c] = Idle
  BY DEF TypeOK, Using
<1>2. ServedWhileCaptured'
  BY <1>1, StillUsing
<1>3. /\ Locks'
      /\ owner' \in {Free, Engine, owner} /\ abandoned' \in BOOLEAN
      /\ writer' \in {writer, "holding"}
  <2>1. CASE owner = c
    BY <1>1, <2>1, HandOverLocks
  <2>2. CASE owner # c
    <3>1. UNCHANGED <<owner, abandoned, writer>>
      BY <2>2
    <3>2. abandoned' \in BOOLEAN
      BY <3>1 DEF TypeOK
    <3>3. Locks'
      <4>1. \A d \in Clients : reader'[d] = "locked" => owner' = d
        BY <1>1, <3>1 DEF Locks, Idle
      <4>2. \A d \in Clients : reader'[d] # Idle => client'[d] = "captured"
        BY <1>1 DEF Locks
      <4>. QED BY <3>1, <4>1, <4>2 DEF Locks
    <3>. QED BY <3>1, <3>2, <3>3
  <2>. QED BY <2>1, <2>2
<1>4. TypeOK' /\ (next_offset >= HeadSz)'
  BY <1>1, <1>3 DEF TypeOK
<1>. QED BY <1>2, <1>3, <1>4

LEMMA ExtractSInv ==
  ASSUME SInv, NEW c \in Clients, Extract(c)
  PROVE  SInv'
<1> USE DEF SInv, Extract, mapping, mutex
<1>1. /\ client' \in {client, [client EXCEPT ![c] = "none"]}
      /\ stuck' \subseteq stuck /\ dead' \subseteq dead \cup {c}
      /\ reader' = [reader EXCEPT ![c] = Idle]
      /\ UNCHANGED <<refs, live, loop_seq, next_offset, mem, written, born>>
  OBVIOUS
<1>2. /\ client' \in [Clients -> {"none", "added", "captured", "released"}]
      /\ reader' \in [Clients -> {Idle, "peeked", "locked"}]
      /\ Using' \subseteq Using /\ refs \in Nat
      /\ \A d \in Clients : d # c => client'[d] = client[d] /\ reader'[d] = reader[d]
      /\ reader'[c] = Idle
  BY <1>1 DEF TypeOK, Using
<1>3. ServedWhileCaptured'
  BY <1>1, <1>2, StillUsing
<1>4. owner = c
  BY DEF Locks
<1>5. /\ Locks'
      /\ owner' \in {Free, Engine, owner} /\ abandoned' \in BOOLEAN
      /\ writer' \in {writer, "holding"}
  <2>1. CASE c \in stuck'
    <3>1. UNCHANGED <<owner, abandoned, writer>>
      BY <2>1
    <3>. QED BY <1>1, <1>2, <3>1 DEF Locks, TypeOK
  <2>2. CASE c \notin stuck'
    <3>1. HandOver(c \in stuck)
      BY <2>2
    <3>2. (c \in stuck) \in BOOLEAN
      OBVIOUS
    <3>3. /\ live' = live /\ reader' = [reader EXCEPT ![c] = Idle]
          /\ \A d \in Clients : d # c => client'[d] = client[d]
      BY <1>1, <1>2
    <3>4. SInv
      OBVIOUS
    <3>. HIDE DEF SInv, Extract, mapping, mutex
    <3>. QED BY <1>4, <3>1, <3>2, <3>3, <3>4, HandOverLocks
  <2>. QED BY <2>1, <2>2
<1>6. /\ last' \in [Clients -> [pos : 0 .. DataLen - 1, seq : 0 .. SeqMod - 1]]
      /\ seen' \in [Clients -> Int]
  <2>1. next_offset - HeadSz \in 0 .. DataLen - 1
    BY Layout DEF TypeOK, Offsets
  <2>2. \/ UNCHANGED <<last, seen>>
        \/ /\ last' = [last EXCEPT ![c] = [pos |-> next_offset - HeadSz, seq |-> loop_seq]]
           /\ seen' = [seen EXCEPT ![c] = written]
    OBVIOUS
  <2>3. CASE UNCHANGED <<last, seen>>
    BY <2>3 DEF TypeOK
  <2>4. CASE /\ last' = [last EXCEPT ![c] = [pos |-> next_offset - HeadSz, seq |-> loop_seq]]
             /\ seen' = [seen EXCEPT ![c] = written]
    BY <2>1, <2>4 DEF TypeOK
  <2>. QED BY <2>2, <2>3, <2>4
<1>7. TypeOK' /\ (next_offset >= HeadSz)'
  <2>1. /\ UNCHANGED <<live, refs, written, born, loop_seq, next_offset, mem>>
        /\ stuck' \subseteq Clients /\ dead' \subseteq Clients
    BY <1>1 DEF TypeOK
  <2>2. /\ owner' \in {Free, Engine} \cup Clients
        /\ writer' \in {Idle, "arrived", "waiting", "holding", "looping"}
    BY <1>5 DEF TypeOK
  <2>. QED BY <2>1, <2>2, <1>2, <1>5, <1>6 DEF TypeOK
<1>. QED BY <1>3, <1>5, <1>7

-----------------------------------------------------------------------------

LEMMA NextSInv == SInv /\ [Next]_vars => SInv'
<1> SUFFICES ASSUME SInv, [Next]_vars PROVE SInv'
  OBVIOUS
<1>1. CASE UNCHANGED vars
  BY <1>1 DEF vars, mapping, mutex, extract, SInv, TypeOK, ServedWhileCaptured,
     Locks
<1>2. CASE Next
  BY <1>2, ArriveSInv, WaitSInv, PutSInv, LoopSInv, AddSInv, CaptureSInv,
     ReleaseSInv, RemoveSInv, PeekSInv, TryLockSInv, ExtractSInv, DieSInv
  DEF Next
<1>. QED BY <1>1, <1>2

LEMMA SInvInvariant == Spec => []SInv
BY InitSInv, NextSInv, PTL DEF Spec

(* Every variable keeps its type; in particular the writer stays inside    *)
(* the mapping for every size of header and element.                       *)
THEOREM BufferTypeCorrect == Spec => []TypeOK
BY SInvInvariant, PTL DEF SInv

(* The engine keeps the buffer as long as any client uses it, whichever    *)
(* clients come, go and die.                                               *)
THEOREM Served == Spec => []ServedWhileCaptured
BY SInvInvariant, PTL DEF SInv

(* One process at a time is inside the mutex: also when it is made anew,   *)
(* handed over, abandoned, or waited for twice by its owner.               *)
THEOREM MutualExclusion == Spec => []OneInside
<1>1. SInv => OneInside
  BY Processes DEF SInv, Locks, OneInside
<1>. QED BY <1>1, SInvInvariant, PTL

(* Whom the engine's writer, which waits without a time limit, may wait    *)
(* for: a client within an extraction, which gives the mutex back, or one  *)
(* that was handed it abandoned (stuck) and does not; and nobody has it    *)
(* abandoned, or was handed it so, unless some client has died.            *)
WaitsForReader ==
  /\ writer = "waiting" => owner \in Clients
  /\ owner \in Clients => reader[owner] = "locked" \/ owner \in stuck
  /\ stuck \subseteq {owner}
  /\ abandoned \/ stuck # {} => dead # {}

LEMMA HandOverWaits ==
  ASSUME NEW left \in BOOLEAN, HandOver(left), stuck' = {}, left => dead' # {}
  PROVE  WaitsForReader'
<1>1. CASE writer = "waiting"
  BY <1>1, Processes DEF HandOver, WaitsForReader
<1>2. CASE writer # "waiting"
  BY <1>2, Processes DEF HandOver, WaitsForReader
<1>. QED BY <1>1, <1>2

LEMMA WaitsKept ==
  ASSUME SInv, WaitsForReader, [Next]_vars
  PROVE  WaitsForReader'
<1>1. CASE UNCHANGED vars
  BY <1>1 DEF vars, mutex, extract, WaitsForReader
<1>2. CASE Arrive \/ Put \/ Loop
  <2>1. /\ owner \in Clients => owner' = owner
        /\ owner' \in {owner, Free} /\ writer' # "waiting"
        /\ UNCHANGED <<abandoned, reader, stuck, dead>>
        /\ owner' # owner => owner = Engine
    <3>1. CASE Arrive
      BY <3>1 DEF Arrive, mutex, extract
    <3>2. CASE Put \/ Loop
      <4>1. owner = Engine /\ owner' \in {owner, Free} /\ writer' \in {Idle, "looping"}
        BY <3>2 DEF Put, Loop, SInv, Locks
      <4>2. UNCHANGED <<abandoned, reader, stuck, dead>>
        BY <3>2 DEF Put, Loop, extract
      <4>. QED BY <4>1, <4>2, Processes DEF Idle
    <3>. QED BY <1>2, <3>1, <3>2
  <2>2. stuck \subseteq Clients
    BY DEF SInv, TypeOK
  <2>. QED BY <2>1, <2>2, Processes DEF WaitsForReader
<1>3. CASE Wait
  <2>1. UNCHANGED <<reader, stuck, dead>> /\ writer = "arrived"
    BY <1>3 DEF Wait, extract
  <2>2. CASE owner = Free
    <3>1. owner' = Engine /\ ~abandoned' /\ writer' = "holding" /\ stuck = {}
      BY <1>3, <2>2, Processes DEF Wait, WaitsForReader, SInv, TypeOK
    <3>. QED BY <2>1, <3>1, Processes DEF WaitsForReader
  <2>3. CASE owner # Free
    <3>1. owner \in Clients
      BY <2>1, <2>3 DEF SInv, Locks, TypeOK
    <3>2. UNCHANGED <<owner, abandoned>>
      BY <1>3, <2>3 DEF Wait, mutex
    <3>. QED BY <2>1, <3>1, <3>2 DEF WaitsForReader
  <2>. QED BY <2>2, <2>3
<1>4. ASSUME NEW c \in Clients, Add(c) PROVE WaitsForReader'
  <2>1. CASE refs = 0
    <3>1. writer' = Idle /\ owner' = Free /\ ~abandoned' /\ stuck' = {}
      BY <1>4, <2>1, NobodyInside DEF Add, CreateBuffer
    <3>. QED BY <3>1, Processes DEF WaitsForReader, Idle
  <2>2. CASE refs # 0
    BY <1>4, <2>2 DEF Add, mutex, WaitsForReader
  <2>. QED BY <2>1, <2>2
<1>5. ASSUME NEW c \in Clients, Capture(c) \/ Release(c) \/ Remove(c)
      PROVE  WaitsForReader'
  BY <1>5 DEF Capture, Release, Remove, mutex, extract, WaitsForReader
<1>6. ASSUME NEW c \in Clients, Peek(c) PROVE WaitsForReader'
  <2>1. /\ UNCHANGED <<writer, owner, abandoned, stuck, dead>>
        /\ \A d \in Clients : reader[d] = "locked" => reader'[d] = "locked"
    BY <1>6 DEF Peek, mutex, SInv, TypeOK, Idle
  <2>. QED BY <2>1 DEF WaitsForReader
<1>7. ASSUME NEW c \in Clients, TryLock(c) PROVE WaitsForReader'
  <2>1. /\ UNCHANGED <<writer, dead>>
        /\ \A d \in Clients : d # c => reader'[d] = reader[d]
        /\ reader \in [Clients -> {Idle, "peeked", "locked"}] /\ stuck \subseteq Clients
    BY <1>7 DEF TryLock, SInv, TypeOK
  <2>2. CASE owner' = c /\ reader'[c] = "locked" /\ UNCHANGED <<abandoned, stuck>>
             /\ owner \in {c, Free}
    BY <2>1, <2>2, Processes DEF WaitsForReader
  <2>3. CASE owner' = c /\ owner = Free /\ abandoned /\ ~abandoned' /\ stuck' = stuck \cup {c}
    BY <2>1, <2>3, Processes DEF WaitsForReader
  <2>4. CASE owner # c /\ UNCHANGED <<owner, abandoned, stuck>>
    BY <2>1, <2>4 DEF WaitsForReader
  <2>. QED BY <1>7, <2>1, <2>2, <2>3, <2>4 DEF TryLock, mutex
<1>8. ASSUME NEW c \in Clients, Extract(c) PROVE WaitsForReader'
  <2>1. /\ owner = c /\ stuck \subseteq {c}
        /\ stuck' \subseteq stuck /\ dead \subseteq dead'
    BY <1>8 DEF Extract, SInv, Locks, WaitsForReader
  <2>2. CASE c \in stuck'
    <3>1. UNCHANGED <<owner, abandoned, writer>>
      BY <1>8, <2>2 DEF Extract, mutex
    <3>2. stuck' = {c} /\ dead' # {}
      BY <2>1, <2>2 DEF WaitsForReader
    <3>. QED BY <2>1, <3>1, <3>2 DEF WaitsForReader
  <2>3. CASE c \notin stuck'
    <3>1. HandOver(c \in stuck) /\ stuck' = {}
      BY <1>8, <2>1, <2>3 DEF Extract
    <3>2. c \in stuck => dead' # {}
      BY <2>1 DEF WaitsForReader
    <3>3. (c \in stuck) \in BOOLEAN
      OBVIOUS
    <3>. QED BY <3>1, <3>2, <3>3, HandOverWaits
  <2>. QED BY <2>2, <2>3
<1>9. ASSUME NEW c \in Clients, Die(c) PROVE WaitsForReader'
  <2>1. /\ dead' # {} /\ stuck' = stuck \ {c}
        /\ \A d \in Clients : d # c => reader'[d] = reader[d]
    BY <1>9 DEF Die, SInv, TypeOK
  <2>2. CASE owner = c
    <3>1. HandOver(TRUE) /\ stuck' = {}
      BY <1>9, <2>1, <2>2 DEF Die, WaitsForReader
    <3>. QED BY <2>1, <3>1, HandOverWaits
  <2>3. CASE owner # c
    BY <1>9, <2>1, <2>3 DEF Die, mutex, WaitsForReader
  <2>. QED BY <2>2, <2>3
<1>. QED BY <1>1, <1>2, <1>3, <1>4, <1>5, <1>6, <1>7, <1>8, <1>9 DEF Next

(* The writer waits for ever only as buffer_mutex_abandoned shows: while   *)
(* no client has died, whoever it waits for is within an extraction, and   *)
(* at its end the writer gets the mutex at once.                           *)
WaitsForExtraction ==
  /\ writer = "waiting" /\ stuck = {} => owner \in Clients /\ reader[owner] = "locked"
  /\ stuck # {} => dead # {}

LetsIn(c) ==
  writer = "waiting" /\ stuck = {} /\ Extract(c) => writer' = "holding"

WriterIsServed ==
  []WaitsForExtraction /\ [][\A c \in Clients : LetsIn(c)]_vars

THEOREM WriterWaitsForReaders == Spec => WriterIsServed
<1>1. Init => WaitsForReader
  BY Processes DEF Init, WaitsForReader, Idle
<1>2. Spec => []WaitsForReader
  BY <1>1, WaitsKept, SInvInvariant, PTL DEF Spec
<1>3. WaitsForReader => WaitsForExtraction
  BY DEF WaitsForReader, WaitsForExtraction
<1>4. Next => \A c \in Clients : LetsIn(c)
  <2> SUFFICES ASSUME NEW c \in Clients, writer = "waiting", stuck = {}, Extract(c)
               PROVE  writer' = "holding"
    BY DEF LetsIn
  <2>1. c \notin stuck'
    BY DEF Extract
  <2>. QED BY <2>1 DEF Extract, HandOver
<1>5. Spec => []WaitsForExtraction
  BY <1>2, <1>3, PTL
<1>6. Spec => [][\A c \in Clients : LetsIn(c)]_vars
  BY <1>4, PTL DEF Spec
<1>. QED BY <1>5, <1>6 DEF WriterIsServed

-----------------------------------------------------------------------------
(***************************************************************************)
(* The ring: it holds the newest writes, and a client reads what was       *)
(* written, in order and each value once.                                  *)
(*                                                                         *)
(* The header's offset and loop counter are the number of writes modulo    *)
(* the ring and the counter, and a client's last position and loop that of *)
(* the writes it has seen.  That the difference of the two is the number   *)
(* of unread values, although it is taken from a signed difference of      *)
(* positions and an unsigned one of loops, rests on the client never being *)
(* a whole wrap of the counter behind.                                     *)
(***************************************************************************)

(* Arithmetic. *)

LEMMA Multiple ==
  ASSUME NEW n \in Nat \ {0}, NEW x \in Int, x * n < n, -n < x * n
  PROVE  x = 0
<1>1. CASE x >= 1
  <2>1. x * n >= 1 * n
    BY <1>1
  <2>. QED BY <2>1
<1>2. CASE x <= -1
  <2>1. x * n <= (-1) * n
    BY <1>2
  <2>. QED BY <2>1
<1>. QED BY <1>1, <1>2

LEMMA DivideDef ==
  ASSUME NEW n \in Nat \ {0}, NEW a \in Int
  PROVE  /\ a % n \in 0 .. n - 1 /\ a \div n \in Int
         /\ a = (a \div n) * n + (a % n)
OBVIOUS

LEMMA Quotient ==
  ASSUME NEW n \in Nat \ {0}, NEW q \in Int, NEW r \in 0 .. n - 1,
         NEW a \in Int, a = q * n + r
  PROVE  a % n = r /\ a \div n = q
<1> DEFINE d == a \div n
           m == a % n
<1>1. m \in 0 .. n - 1 /\ d \in Int /\ a = d * n + m
  BY DivideDef
<1> HIDE DEF d, m
<1>2. (q - d) * n = m - r
  <2>1. (q - d) * n = q * n - d * n
    BY <1>1
  <2>. QED BY <1>1, <2>1
<1>3. q - d = 0
  <2>1. m - r < n /\ -n < m - r
    BY <1>1
  <2>. QED BY <1>1, <1>2, <2>1, Multiple
<1>4. m = r
  BY <1>1, <1>2, <1>3
<1>. QED BY <1>1, <1>3, <1>4 DEF d, m

(* The same, with the division named for the lemma to be found by.         *)
Splits(a, n, q, r) == a = q * n + r

LEMMA QuotientOf ==
  ASSUME NEW n \in Nat \ {0}, NEW q \in Int, NEW r \in 0 .. n - 1,
         NEW a \in Int, Splits(a, n, q, r)
  PROVE  a % n = r /\ a \div n = q
BY Quotient DEF Splits

LEMMA NextMod ==
  ASSUME NEW n \in Nat \ {0}, NEW a \in Int
  PROVE  (a + 1) % n = IF a % n = n - 1 THEN 0 ELSE (a % n) + 1
<1> DEFINE d == a \div n
           m == a % n
<1>1. m \in 0 .. n - 1 /\ d \in Int /\ a = d * n + m
  BY DivideDef
<1> HIDE DEF d, m
<1> DEFINE x == a + 1
<1>0. x = a + 1 /\ x \in Int
  OBVIOUS
<1> HIDE DEF x
<1>2. CASE m = n - 1
  <2> DEFINE q == d + 1
  <2>1. q \in Int /\ Splits(x, n, q, 0) /\ 0 \in 0 .. n - 1
    BY <1>0, <1>1, <1>2 DEF Splits
  <2> HIDE DEF q
  <2>2. x % n = 0
    BY <1>0, <2>1, QuotientOf
  <2>. QED BY <1>2, <2>2 DEF m, x
<1>3. CASE m # n - 1
  <2> DEFINE r == m + 1
  <2>1. r \in 0 .. n - 1 /\ Splits(x, n, d, r)
    BY <1>0, <1>1, <1>3 DEF Splits
  <2> HIDE DEF r
  <2>2. x % n = r
    BY <1>0, <1>1, <2>1, QuotientOf
  <2>. QED BY <1>3, <2>2 DEF m, r, x
<1>. QED BY <1>2, <1>3

(* How far apart two numbers are, from their remainders, if they are less  *)
(* than a round apart.                                                     *)
LEMMA Apart ==
  ASSUME NEW n \in Nat \ {0}, NEW a \in Int, NEW b \in Int, a - b \in 0 .. n - 1
  PROVE  a - b = IF a % n >= b % n THEN (a % n) - (b % n)
                 ELSE (a % n) - (b % n) + n
<1> DEFINE d == a \div n
           e == b \div n
           m == a % n
           k == b % n
<1>1. /\ m \in 0 .. n - 1 /\ d \in Int /\ a = d * n + m
      /\ k \in 0 .. n - 1 /\ e \in Int /\ b = e * n + k
  BY DivideDef
<1> HIDE DEF d, e, m, k
<1>2. a - b = (d - e) * n + (m - k)
  BY <1>1
<1>3. ASSUME m >= k PROVE a - b = m - k
  <2>1. (d - e) * n = (a - b) - (m - k) /\ m - k \in 0 .. n - 1
    BY <1>1, <1>2, <1>3
  <2>2. (d - e) * n < n /\ -n < (d - e) * n
    BY <2>1
  <2>3. d - e = 0
    BY <1>1, <2>2, Multiple
  <2>4. a - b = m - k
    <3>1. (d - e) * n = 0
      BY <2>3
    <3>. QED BY <1>1, <1>2, <3>1
  <2>. QED BY <2>4
<1>4. ASSUME m < k PROVE a - b = m - k + n
  <2>1. (d - e - 1) * n = (d - e) * n - n
    BY <1>1
  <2>2. (d - e - 1) * n = (a - b) - (m - k + n) /\ m - k + n \in 0 .. n - 1
    BY <1>1, <1>2, <1>4, <2>1
  <2>3. (d - e - 1) * n < n /\ -n < (d - e - 1) * n
    BY <2>2
  <2>4. d - e - 1 = 0
    BY <1>1, <2>3, Multiple
  <2>5. a - b = m - k + n
    BY <1>1, <1>2, <2>1, <2>4
  <2>. QED BY <2>5
<1>. QED BY <1>1, <1>3, <1>4 DEF m, k
-----------------------------------------------------------------------------
(* The slots of the ring. *)

Place(a)   == HeadSz + a * ElemSz
Back(s, k) == IF k <= s THEN s - k ELSE s - k + Slots
Rounds     == SeqMod * Slots

LEMMA Sizes ==
  /\ Slots \in Nat \ {0} /\ ElemSz \in Nat \ {0} /\ SeqMod \in Nat \ {0}
  /\ HeadSz \in Nat /\ HeadSz > 0 /\ HeadSz < ElemSz
  /\ DataLen = Slots * ElemSz /\ DataLen \in Nat \ {0}
  /\ Rounds \in Nat \ {0} /\ Rounds = SeqMod * Slots
<1>1. DataLen \in Nat /\ DataLen # 0
  BY Layout
<1>2. Rounds \in Nat /\ Rounds # 0
  BY Round DEF Rounds
<1>. QED BY <1>1, <1>2, LayoutAssumption, SeqModAssumption DEF DataLen, Rounds

LEMMA Within ==
  ASSUME NEW a \in 0 .. Slots - 1
  PROVE  /\ Place(a) \in Offsets /\ Place(a) \in 0 .. DataLen - 1
         /\ Place(a) >= HeadSz
<1>1. a * ElemSz \in Nat
  BY Sizes
<1>2. (a + 1) * ElemSz <= Slots * ElemSz
  BY Sizes
<1>3. (a + 1) * ElemSz = a * ElemSz + ElemSz
  BY Sizes
<1>. QED BY <1>1, <1>2, <1>3, Sizes, Layout DEF Place, Offsets

LEMMA OwnPlaces ==
  ASSUME NEW a \in 0 .. Slots - 1, NEW b \in 0 .. Slots - 1, Place(a) = Place(b)
  PROVE  a = b
<1>1. (a - b) * ElemSz = a * ElemSz - b * ElemSz /\ a * ElemSz \in Int /\ b * ElemSz \in Int
  BY Sizes
<1>2. (a - b) * ElemSz = 0
  BY <1>1, Sizes DEF Place
<1>3. a - b = 0
  BY <1>2, Sizes, Multiple
<1>. QED BY <1>3

LEMMA BackIn ==
  ASSUME NEW s \in 0 .. Slots - 1, NEW k \in 1 .. Slots
  PROVE  Back(s, k) \in 0 .. Slots - 1
BY Sizes DEF Back

LEMMA SpotIsPlace ==
  ASSUME NEW s \in 0 .. Slots - 1, NEW k \in 1 .. Slots, next_offset = Place(s)
  PROVE  Spot(k) = Place(Back(s, k))
<1> DEFINE b == Back(s, k)
           a == next_offset - k * ElemSz + DataLen
<1>0. DataLen \in Nat \ {0}
  BY Sizes
<1>1. b \in 0 .. Slots - 1
  BY BackIn
<1>2. Place(b) \in 0 .. DataLen - 1
  BY <1>1, Within
<1>3. (s - k) * ElemSz = s * ElemSz - k * ElemSz
      /\ s * ElemSz \in Int /\ k * ElemSz \in Int
  BY Sizes
<1>4. a = HeadSz + (s - k) * ElemSz + DataLen /\ a \in Int
  BY <1>3, Sizes DEF Place
<1>5. CASE k <= s
  <2>1. b = s - k
    BY <1>5 DEF Back
  <2>2. a = 1 * DataLen + Place(b)
    BY <1>4, <2>1, Sizes DEF Place
  <2> DEFINE r == Place(b)
  <2> HIDE DEF a, b, r
  <2>3. a % DataLen = r
    BY <1>0, <1>2, <1>4, <2>2, Quotient DEF r
  <2>. QED BY <2>3 DEF a, b, r, Spot
<1>6. CASE ~(k <= s)
  <2>1. b = s - k + Slots
    BY <1>6 DEF Back
  <2>2. b * ElemSz = (s - k) * ElemSz + Slots * ElemSz
    BY <2>1, Sizes
  <2>3. a = 0 * DataLen + Place(b)
    BY <1>4, <2>2, Sizes DEF Place
  <2> DEFINE r == Place(b)
  <2> HIDE DEF a, b, r
  <2>4. a % DataLen = r
    BY <1>0, <1>2, <1>4, <2>3, Quotient DEF r
  <2>. QED BY <2>4 DEF a, b, r, Spot
<1>. QED BY <1>5, <1>6

(* The number of elements a reader at position p of loop q finds, where    *)
(* the header is at slot s of loop l, is the number d of unread values.    *)
LEMMA Unread ==
  ASSUME NEW s \in 0 .. Slots - 1, NEW l \in 0 .. SeqMod - 1,
         NEW p \in 0 .. Slots - 1, NEW q \in 0 .. SeqMod - 1, NEW d \in Int,
         LET t == l * Slots + s
             u == q * Slots + p
         IN  d = IF t >= u THEN t - u ELSE t - u + Rounds,
         d <= Rounds - Slots \/ (p = 0 /\ q = 0)
  PROVE  (Place(s) - HeadSz - p * ElemSz + ((l - q) % SeqMod) * DataLen) \div ElemSz = d
<1> DEFINE t == l * Slots + s
           u == q * Slots + p
           m == IF l >= q THEN l - q ELSE l - q + SeqMod
<1>1. (l - q) % SeqMod = m
  <2>1. CASE l >= q
    <3>1. l - q = 0 * SeqMod + m /\ m \in 0 .. SeqMod - 1 /\ l - q \in Int
      BY <2>1, Sizes
    <3> HIDE DEF m
    <3>. QED BY <3>1, Sizes, Quotient
  <2>2. CASE ~(l >= q)
    <3>1. l - q = (-1) * SeqMod + m /\ m \in 0 .. SeqMod - 1 /\ l - q \in Int
      BY <2>2, Sizes
    <3> HIDE DEF m
    <3>. QED BY <3>1, Sizes, Quotient
  <2>. QED BY <2>1, <2>2
<1>2. /\ t \in Int /\ u \in Int /\ t >= 0 /\ m \in Int
      /\ (l - q) * Slots + (s - p) = t - u
  <2>1. l * Slots \in Nat /\ q * Slots \in Nat /\ (l - q) * Slots = l * Slots - q * Slots
    BY Sizes
  <2>. QED BY <2>1, Sizes
<1>3. m * Slots + (s - p) = d
  <2>1. CASE l >= q
    <3>1. m * Slots + (s - p) = t - u
      BY <1>2, <2>1
    <3>2. t >= u
      <4>1. SUFFICES ASSUME ~(t >= u) PROVE FALSE
        BY <1>2
      <4>2. (l - q) * Slots + (s - p) < 0
        BY <1>2, <4>1
      <4>3. l = q
        <5>1. l - q >= 1 => (l - q) * Slots >= 1 * Slots
          BY Sizes
        <5>. QED BY <2>1, <4>2, <5>1, Sizes
      <4>4. t - u = s - p
        BY <1>2, <4>3, Sizes
      <4>5. CASE p = 0 /\ q = 0
        BY <1>2, <4>1, <4>4, <4>5
      <4>6. CASE d <= Rounds - Slots
        <5>1. d = s - p + Rounds
          BY <1>2, <4>1, <4>4
        <5>. QED BY <4>6, <5>1, Sizes
      <4>. QED BY <4>5, <4>6
    <3>. QED BY <3>1, <3>2
  <2>2. CASE ~(l >= q)
    <3>1. m * Slots = (l - q) * Slots + Rounds
      BY <2>2, Sizes
    <3>2. ~(t >= u)
      <4>1. (l - q) * Slots <= (-1) * Slots
        BY <2>2, Sizes
      <4>. QED BY <1>2, <4>1, Sizes
    <3>. QED BY <1>2, <3>1, <3>2, Sizes
  <2>. QED BY <2>1, <2>2
<1> HIDE DEF m, t, u
<1>4. Place(s) - HeadSz - p * ElemSz + m * DataLen = d * ElemSz + 0
  <2>1. d * ElemSz = (m * Slots) * ElemSz + (s - p) * ElemSz
    BY <1>2, <1>3, Sizes
  <2>2. (s - p) * ElemSz = s * ElemSz - p * ElemSz
        /\ s * ElemSz \in Int /\ p * ElemSz \in Int
    BY Sizes
  <2>3. m * DataLen = (m * Slots) * ElemSz /\ m * DataLen \in Int
    BY <1>2, Sizes
  <2>. QED BY <2>1, <2>2, <2>3, Sizes DEF Place
<1> DEFINE x == Place(s) - HeadSz - p * ElemSz + m * DataLen
<1>5. Splits(x, ElemSz, d, 0)
  BY <1>4 DEF Splits
<1>6. x \in Int /\ 0 \in 0 .. ElemSz - 1 /\ ElemSz \in Nat \ {0}
  BY <1>4, Sizes
<1> HIDE DEF x
<1>7. x \div ElemSz = d
  BY <1>5, <1>6, QuotientOf
<1>. QED BY <1>1, <1>7 DEF x

-----------------------------------------------------------------------------
(* The ring and its counters.                                              *)

Ring(s) ==
  /\ next_offset = Place(s)
  /\ (written - born) % Rounds =
       IF writer = "looping" THEN ((loop_seq + 1) % SeqMod) * Slots
       ELSE loop_seq * Slots + s
  /\ writer = "looping" => s = 0
  /\ \A k \in 1 .. Smaller(written - born, Slots) :
       mem[Place(Back(s, k))] = written + 1 - k

RingInv == born <= written /\ \E s \in 0 .. Slots - 1 : Ring(s)

LEMMA RingFrame ==
  ASSUME RingInv, UNCHANGED <<next_offset, loop_seq, mem, written, born>>,
         writer' = "looping" <=> writer = "looping"
  PROVE  RingInv'
BY DEF RingInv, Ring

LEMMA InitRing == Init => RingInv
<1> SUFFICES ASSUME Init PROVE RingInv
  OBVIOUS
<1>1. 0 = 0 * Rounds + 0 /\ 0 \in 0 .. Rounds - 1 /\ Rounds \in Nat \ {0}
  BY Sizes
<1>2. 0 % Rounds = 0
  BY <1>1, Quotient
<1>3. written - born = 0 /\ 0 * Slots + 0 = 0 /\ Smaller(0, Slots) = 0
  BY Sizes DEF Init, Smaller
<1>4. next_offset = Place(0) /\ 0 \in 0 .. Slots - 1
  BY Sizes DEF Init, Place
<1>. QED BY <1>2, <1>3, <1>4 DEF Init, RingInv, Ring, Idle

LEMMA CreateRing ==
  ASSUME SInv, CreateBuffer, written' = written, writer' = Idle
  PROVE  RingInv'
<1>1. 0 = 0 * Rounds + 0 /\ 0 \in 0 .. Rounds - 1 /\ Rounds \in Nat \ {0}
  BY Sizes
<1>2. 0 % Rounds = 0
  BY <1>1, Quotient
<1>3. /\ written' - born' = 0 /\ 0 * Slots + 0 = 0 /\ Smaller(0, Slots) = 0
      /\ born' <= written' /\ loop_seq' = 0
  BY Sizes DEF CreateBuffer, Smaller, SInv, TypeOK
<1>4. next_offset' = Place(0) /\ 0 \in 0 .. Slots - 1
  BY Sizes DEF CreateBuffer, Place
<1>. QED BY <1>2, <1>3, <1>4 DEF RingInv, Ring, Idle

(* One step on: what was k writes back is then k + 1 back.                 *)
LEMMA PutRing ==
  ASSUME SInv, RingInv, Put
  PROVE  RingInv'
<1> PICK s \in 0 .. Slots - 1 : Ring(s)
  BY DEF RingInv
<1> DEFINE last_slot == s = Slots - 1
           t == IF last_slot THEN 0 ELSE s + 1
           w == written - born
<1>1. /\ written \in Nat /\ born \in Nat /\ loop_seq \in 0 .. SeqMod - 1
      /\ born <= written /\ w \in Nat /\ next_offset = Place(s)
      /\ mem \in [Offsets -> Nat]
  BY DEF SInv, TypeOK, RingInv, Ring
<1>2. t \in 0 .. Slots - 1
  BY Sizes
<1>3. next_offset + ElemSz >= EndOffset <=> last_slot
  <2>1. next_offset + ElemSz = HeadSz + (s + 1) * ElemSz
    BY <1>1, Sizes DEF Place
  <2>2. EndOffset = HeadSz + Slots * ElemSz
    BY Sizes DEF EndOffset
  <2>3. s + 1 <= Slots - 1 => (s + 1) * ElemSz <= (Slots - 1) * ElemSz
    BY Sizes
  <2>4. (Slots - 1) * ElemSz = Slots * ElemSz - ElemSz /\ Slots * ElemSz \in Nat
    BY Sizes
  <2>. QED BY <2>1, <2>2, <2>3, <2>4, Sizes
<1>4. /\ next_offset' = Place(t)
      /\ writer' = "looping" <=> last_slot
      /\ written' = written + 1 /\ born' = born /\ loop_seq' = loop_seq
      /\ mem' = [mem EXCEPT ![next_offset] = written + 1]
  <2>1. CASE last_slot
    BY <1>3, <2>1, Sizes DEF Put, Place
  <2>2. CASE ~last_slot
    <3>1. next_offset + ElemSz = HeadSz + (s + 1) * ElemSz
      BY <1>1, Sizes DEF Place
    <3>. QED BY <1>3, <2>2, <3>1 DEF Put, Place, Idle
  <2>. QED BY <2>1, <2>2
<1>5. (written' - born') % Rounds =
        IF writer' = "looping" THEN ((loop_seq' + 1) % SeqMod) * Slots
        ELSE loop_seq' * Slots + t
  <2>1. w % Rounds = loop_seq * Slots + s
    BY DEF Put, Ring
  <2>2. (w + 1) % Rounds = IF loop_seq * Slots + s = Rounds - 1 THEN 0
                           ELSE loop_seq * Slots + s + 1
    <3>1. w \in Int /\ Rounds \in Nat \ {0}
      BY <1>1, Sizes
    <3> HIDE DEF w
    <3>2. (w + 1) % Rounds = IF w % Rounds = Rounds - 1 THEN 0 ELSE (w % Rounds) + 1
      BY <3>1, NextMod
    <3>. QED BY <2>1, <3>2
  <2>3. written' - born' = w + 1
    BY <1>1, <1>4
  <2>4. loop_seq * Slots + s = Rounds - 1 <=> last_slot /\ loop_seq = SeqMod - 1
    <3>1. loop_seq <= SeqMod - 2 => (loop_seq + 1) * Slots <= (SeqMod - 1) * Slots
      BY <1>1, Sizes
    <3>2. (SeqMod - 1) * Slots = Rounds - Slots
      BY Sizes
    <3>3. (loop_seq + 1) * Slots = loop_seq * Slots + Slots /\ loop_seq * Slots \in Nat
      BY <1>1, Sizes
    <3>4. loop_seq = SeqMod - 1 => loop_seq * Slots = Rounds - Slots
      BY <3>2
    <3>. QED BY <1>1, <3>1, <3>2, <3>3, <3>4, Sizes
  <2>5. CASE last_slot
    <3>1. loop_seq * Slots + s + 1 = (loop_seq + 1) * Slots
      BY <1>1, <2>5, Sizes
    <3>2. (loop_seq + 1) % SeqMod = IF loop_seq = SeqMod - 1 THEN 0 ELSE loop_seq + 1
      <4>1. CASE loop_seq = SeqMod - 1
        <5>1. loop_seq + 1 = 1 * SeqMod + 0 /\ 0 \in 0 .. SeqMod - 1 /\ loop_seq + 1 \in Int
          BY <1>1, <4>1, Sizes
        <5>. QED BY <4>1, <5>1, Sizes, Quotient
      <4>2. CASE loop_seq # SeqMod - 1
        <5>1. /\ loop_seq + 1 = 0 * SeqMod + (loop_seq + 1)
              /\ loop_seq + 1 \in 0 .. SeqMod - 1 /\ loop_seq + 1 \in Int
          BY <1>1, <4>2, Sizes
        <5>. QED BY <4>2, <5>1, Sizes, Quotient
      <4>. QED BY <4>1, <4>2
    <3>3. 0 * Slots = 0
      BY Sizes
    <3>4. (w + 1) % Rounds = ((loop_seq + 1) % SeqMod) * Slots
      <4>1. CASE loop_seq = SeqMod - 1
        BY <2>2, <2>4, <2>5, <3>2, <3>3, <4>1
      <4>2. CASE loop_seq # SeqMod - 1
        BY <2>2, <2>4, <3>1, <3>2, <4>2
      <4>. QED BY <4>1, <4>2
    <3> HIDE DEF w
    <3>. QED BY <1>4, <2>3, <2>5, <3>4
  <2>6. CASE ~last_slot
    <3>1. (w + 1) % Rounds = loop_seq * Slots + (s + 1)
      <4>1. loop_seq * Slots \in Nat
        BY <1>1, Sizes
      <4>. QED BY <2>2, <2>4, <2>6, <4>1
    <3> HIDE DEF w
    <3>. QED BY <1>4, <2>3, <2>6, <3>1
  <2>. QED BY <2>5, <2>6
<1>6. ASSUME NEW k \in 1 .. Smaller(written' - born', Slots)
      PROVE  mem'[Place(Back(t, k))] = written' + 1 - k
  <2>0. k \in 1 .. Slots /\ k <= w + 1
    BY <1>1, <1>4, Sizes DEF Smaller
  <2>1. CASE k = 1
    <3>1. Back(t, k) = s
      BY <2>1, Sizes DEF Back
    <3>2. Place(s) \in Offsets
      BY Within
    <3>. QED BY <1>1, <1>4, <2>1, <3>1, <3>2
  <2>2. CASE k # 1
    <3>1. k - 1 \in 1 .. Slots /\ k - 1 \in 1 .. Smaller(w, Slots)
      BY <1>1, <2>0, <2>2, Sizes DEF Smaller
    <3>2. Back(t, k) = Back(s, k - 1) /\ Back(s, k - 1) # s
      BY <2>0, <2>2, Sizes DEF Back
    <3>3. Back(s, k - 1) \in 0 .. Slots - 1
      BY <3>1, BackIn
    <3>4. Place(Back(s, k - 1)) # Place(s) /\ Place(Back(s, k - 1)) \in Offsets
      BY <3>2, <3>3, OwnPlaces, Within
    <3>5. mem'[Place(Back(s, k - 1))] = mem[Place(Back(s, k - 1))]
      BY <1>1, <1>4, <3>4
    <3>6. mem[Place(Back(s, k - 1))] = written + 1 - (k - 1)
      BY <3>1 DEF Ring
    <3>. QED BY <1>1, <1>4, <2>0, <3>2, <3>5, <3>6
  <2>. QED BY <2>1, <2>2
<1>7. born' <= written'
  BY <1>1, <1>4
<1>8. writer' = "looping" => t = 0
  BY <1>4
<1> HIDE DEF t
<1>. QED BY <1>2, <1>4, <1>5, <1>6, <1>7, <1>8 DEF RingInv, Ring

LEMMA LoopRing ==
  ASSUME SInv, RingInv, Loop
  PROVE  RingInv'
<1> PICK s \in 0 .. Slots - 1 : Ring(s)
  BY DEF RingInv
<1>1. /\ s = 0
      /\ (written - born) % Rounds = ((loop_seq + 1) % SeqMod) * Slots
  BY DEF Loop, Ring
<1>2. /\ UNCHANGED <<next_offset, mem, written, born>>
      /\ writer' # "looping" /\ loop_seq' = (loop_seq + 1) % SeqMod
  BY DEF Loop, Idle
<1>3. loop_seq' * Slots + s = loop_seq' * Slots
  <2>1. loop_seq' \in Int
    BY Sizes, <1>2 DEF SInv, TypeOK
  <2>. QED BY <1>1, <2>1, Sizes
<1>. QED BY <1>1, <1>2, <1>3 DEF RingInv, Ring

-----------------------------------------------------------------------------
(* The readers.                                                            *)

(* The writer is about to store a value.                                   *)
Pending == IF writer \in {"arrived", "waiting", "holding"} THEN 1 ELSE 0

(* Where a client stands that has read up to write number e.               *)
At(pos, seq, p, e) ==
  /\ pos = p * ElemSz
  /\ (e - born) % Rounds = seq * Slots + p

NotTooFar(pos, seq, ahead) ==
  \/ ahead <= Rounds - Slots
  \/ ahead <= Rounds - 1 /\ pos = 0 /\ seq = 0

Follows(c) ==
  client[c] = "captured" =>
    /\ seen[c] \in born .. written
    /\ \E p \in 0 .. Slots - 1 : At(last[c].pos, last[c].seq, p, seen[c])
    /\ NotTooFar(last[c].pos, last[c].seq, written - seen[c] + Pending)

Delivered(b, upto) ==
  LET n == Cardinality(DOMAIN b.vals)
  IN  n > 0 =>
        /\ b.vals[n] = upto
        /\ \A i \in 1 .. n : b.vals[i] = b.vals[n] - (n - i)
        /\ n = Smaller(b.vals[n] - b.after, Slots)

ReadsInv ==
  /\ DOMAIN batch = Clients
  /\ \A c \in Clients :
       Follows(c) /\ Delivered(batch[c], seen[c]) /\ ~batch[c].negative

(* Steps that concern neither what client c has read nor the writes.       *)
LEMMA FollowsFrame ==
  ASSUME NEW c \in Clients, Follows(c),
         client'[c] = "captured" => client[c] = "captured",
         seen'[c] = seen[c], last'[c] = last[c], written' = written, born' = born,
         Pending' = Pending
  PROVE  Follows(c)'
BY DEF Follows, At, NotTooFar

LEMMA ReadsFrame ==
  ASSUME ReadsInv, UNCHANGED <<seen, last, batch, written, born>>,
         Pending' = Pending,
         \A c \in Clients : client'[c] = "captured" => client[c] = "captured"
  PROVE  ReadsInv'
BY FollowsFrame DEF ReadsInv, Delivered

LEMMA ArriveReads ==
  ASSUME SInv, ReadsInv, Arrive
  PROVE  ReadsInv'
<1>1. UNCHANGED <<seen, last, batch, written, born, client>> /\ Pending' = 1
  BY DEF Arrive, mapping, extract, Pending
<1>2. ASSUME NEW c \in Clients, client[c] = "captured"
      PROVE  written - seen[c] + 1 <= Rounds - Slots
  <2>1. written + 1 - seen[c] <= (SeqMod - 1) * Slots
    BY <1>2 DEF Arrive, Captured
  <2>2. (SeqMod - 1) * Slots = Rounds - Slots
    BY Sizes
  <2>3. written \in Int /\ seen[c] \in Int
    BY DEF SInv, TypeOK
  <2>. QED BY <2>1, <2>2, <2>3, Sizes
<1>3. ASSUME NEW c \in Clients PROVE Follows(c)'
  BY <1>1, <1>2 DEF ReadsInv, Follows, At, NotTooFar
<1>. QED BY <1>1, <1>3 DEF ReadsInv, Delivered

LEMMA PutReads ==
  ASSUME SInv, ReadsInv, Put
  PROVE  ReadsInv'
<1>1. UNCHANGED <<seen, last, batch, born, client>> /\ written' = written + 1
  BY DEF Put, extract
<1>2. Pending = 1 /\ Pending' = 0
  BY DEF Put, Pending, Idle
<1>3. ASSUME NEW c \in Clients PROVE Follows(c)'
  <2>1. CASE client[c] = "captured"
    <3>1. seen[c] \in born .. written /\ written \in Nat /\ born \in Nat
      BY <2>1 DEF ReadsInv, Follows, SInv, TypeOK
    <3>2. /\ seen'[c] \in born' .. written'
          /\ written' - seen'[c] + Pending' = written - seen[c] + Pending
      BY <1>1, <1>2, <3>1
    <3>. QED BY <1>1, <2>1, <3>2 DEF ReadsInv, Follows, At, NotTooFar
  <2>2. CASE client[c] # "captured"
    BY <1>1, <2>2 DEF Follows
  <2>. QED BY <2>1, <2>2
<1>. QED BY <1>1, <1>3 DEF ReadsInv, Delivered

(* A capture starts at position 0 of loop 0, as if at the last wrap.       *)
LEMMA CaptureReads ==
  ASSUME SInv, RingInv, ReadsInv, NEW c \in Clients, Capture(c)
  PROVE  ReadsInv'
<1> DEFINE w == written - born
           r == w % Rounds
<1>1. /\ written \in Nat /\ born \in Nat /\ w \in Nat
      /\ Rounds \in Nat \ {0}
  BY Sizes DEF SInv, TypeOK, RingInv
<1>2. r \in 0 .. Rounds - 1 /\ (w \div Rounds) \in Int /\ w = (w \div Rounds) * Rounds + r
  <2> HIDE DEF w
  <2>. QED BY <1>1, DivideDef
<1>3. /\ UNCHANGED <<written, born, writer>> /\ r # Rounds - 1
      /\ seen' = [seen EXCEPT ![c] = written - r]
      /\ last' = [last EXCEPT ![c] = [pos |-> 0, seq |-> 0]]
      /\ batch' = [batch EXCEPT ![c] = NoBatch]
      /\ client' = [client EXCEPT ![c] = "captured"]
  BY DEF Capture, mapping, Rounds
<1> DEFINE q == w \div Rounds
<1> HIDE DEF q
<1>4. r <= w
  <2> HIDE DEF w, r
  <2>1. q >= 0
    <3>1. q <= -1 => q * Rounds <= (-1) * Rounds
      BY <1>1, <1>2 DEF q
    <3>. QED BY <1>1, <1>2, <3>1 DEF q
  <2>2. q * Rounds >= 0
    BY <1>1, <1>2, <2>1 DEF q
  <2>. QED BY <1>1, <1>2, <2>2 DEF q
<1>5. (w - r) % Rounds = 0
  <2> DEFINE x == w - r
  <2>1. x = q * Rounds + 0 /\ x \in Int /\ q \in Int /\ 0 \in 0 .. Rounds - 1
    <3> HIDE DEF w, r
    <3>. QED BY <1>1, <1>2 DEF q
  <2> HIDE DEF x
  <2>2. x % Rounds = 0
    BY <1>1, <2>1, Quotient
  <2>. QED BY <2>2 DEF x
<1>6. Follows(c)'
  <2>1. /\ seen'[c] = written - r /\ last'[c].pos = 0 /\ last'[c].seq = 0
    BY <1>3 DEF SInv, TypeOK
  <2>2. /\ seen'[c] \in born' .. written' /\ seen'[c] - born' = w - r
        /\ written' - seen'[c] = r
    <3> HIDE DEF r
    <3>. QED BY <1>1, <1>2, <1>3, <1>4, <2>1
  <2>3. 0 * ElemSz = 0 /\ 0 * Slots + 0 = 0 /\ 0 \in 0 .. Slots - 1
    BY Sizes
  <2>4. At(last[c].pos, last[c].seq, 0, seen[c])'
    <3>1. (seen'[c] - born') % Rounds = last'[c].seq * Slots + 0
      <4> HIDE DEF w, r
      <4>. QED BY <1>5, <2>1, <2>2, <2>3
    <3>2. last'[c].pos = 0 * ElemSz
      BY <2>1, <2>3
    <3>. QED BY <3>1, <3>2 DEF At
  <2>5. NotTooFar(last[c].pos, last[c].seq, written - seen[c] + Pending)'
    <3>1. Pending' \in {0, 1}
      BY DEF Pending
    <3>2. r + Pending' <= Rounds - 1
      <4>1. r # Rounds - 1
        BY <1>3
      <4>2. r \in 0 .. Rounds - 1
        BY <1>2
      <4>3. \A e \in {0, 1} : r + e <= Rounds - 1
        <5> HIDE DEF r
        <5>. QED BY <1>1, <4>1, <4>2
      <4> HIDE DEF r
      <4>. QED BY <3>1, <4>3
    <3> HIDE DEF r
    <3>. QED BY <2>1, <2>2, <3>2 DEF NotTooFar
  <2>. QED BY <2>2, <2>3, <2>4, <2>5 DEF Follows
<1>7. ASSUME NEW d \in Clients, d # c
      PROVE  Follows(d)' /\ batch'[d] = batch[d] /\ seen'[d] = seen[d]
  <2>1. /\ client'[d] = client[d] /\ seen'[d] = seen[d] /\ last'[d] = last[d]
        /\ Pending' = Pending
    BY <1>3, <1>7 DEF Pending, SInv, TypeOK
  <2>2. Follows(d)'
    BY <1>3, <2>1, FollowsFrame DEF ReadsInv
  <2>3. batch'[d] = batch[d]
    BY <1>3, <1>7 DEF ReadsInv
  <2>. QED BY <2>1, <2>2, <2>3
<1>8. /\ DOMAIN batch' = Clients /\ batch'[c] = NoBatch
  BY <1>3 DEF ReadsInv
<1>9. Delivered(NoBatch, seen'[c]) /\ ~NoBatch.negative
  <2>1. DOMAIN NoBatch.vals = {}
    BY DEF NoBatch
  <2>. QED BY <2>1, FS_EmptySet DEF Delivered, NoBatch
<1>10. ASSUME NEW d \in Clients
       PROVE  Follows(d)' /\ Delivered(batch'[d], seen'[d]) /\ ~batch'[d].negative
  <2>1. CASE d = c
    BY <1>6, <1>8, <1>9, <2>1
  <2>2. CASE d # c
    BY <1>7, <2>2 DEF ReadsInv
  <2>. QED BY <2>1, <2>2
<1>. QED BY <1>8, <1>10 DEF ReadsInv

(* The elements that a client counts are the unread, also when it does not *)
(* hold the mutex, but for where the writer has yet to count its loop.     *)
LEMMA UnreadCounted ==
  ASSUME SInv, RingInv, ReadsInv, NEW c \in Clients,
         client[c] = "captured", writer # "looping"
  PROVE  /\ Elements(c) = written - seen[c]
         /\ written - seen[c] \in 0 .. written - born
<1>1. /\ written \in Nat /\ born \in Nat /\ loop_seq \in 0 .. SeqMod - 1
      /\ last[c].seq \in 0 .. SeqMod - 1
  BY DEF SInv, TypeOK
<1>2. PICK s \in 0 .. Slots - 1 : Ring(s)
  BY DEF RingInv
<1>3. PICK p \in 0 .. Slots - 1 : At(last[c].pos, last[c].seq, p, seen[c])
  BY <1>1 DEF ReadsInv, Follows
<1>4. /\ seen[c] \in born .. written
      /\ NotTooFar(last[c].pos, last[c].seq, written - seen[c] + Pending)
  BY <1>1 DEF ReadsInv, Follows
<1> DEFINE d == written - seen[c]
           l == loop_seq
           q == last[c].seq
           t == l * Slots + s
           u == q * Slots + p
<1>5. d \in 0 .. Rounds - 1 /\ (d <= Rounds - Slots \/ (p = 0 /\ q = 0))
  <2>1. d <= d + Pending /\ d >= 0 /\ d \in Int /\ d + Pending \in Int
    BY <1>1, <1>4 DEF Pending
  <2>2. last[c].pos = p * ElemSz
    BY <1>3 DEF At
  <2>3. p * ElemSz = 0 => p = 0
    BY Sizes
  <2> DEFINE ahead == d + Pending
  <2>4. \/ ahead <= Rounds - Slots
        \/ ahead <= Rounds - 1 /\ last[c].pos = 0 /\ q = 0
    BY <1>4 DEF NotTooFar
  <2> HIDE DEF d, ahead, q
  <2>5. CASE ahead <= Rounds - Slots
    BY <2>1, <2>5, Sizes DEF ahead
  <2>6. CASE ahead <= Rounds - 1 /\ last[c].pos = 0 /\ q = 0
    BY <2>1, <2>2, <2>3, <2>6, Sizes DEF ahead
  <2>. QED BY <2>4, <2>5, <2>6
<1>6. (written - born) % Rounds = t
  BY <1>1, <1>2 DEF Ring
<1>7. (seen[c] - born) % Rounds = u
  BY <1>3 DEF At
<1>8. d = IF t >= u THEN t - u ELSE t - u + Rounds
  <2> DEFINE a == written - born
             b == seen[c] - born
  <2>1. a \in Int /\ b \in Int /\ a - b = d /\ Rounds \in Nat \ {0}
    BY <1>1, <1>4, Sizes
  <2>2. a % Rounds = t /\ b % Rounds = u
    BY <1>6, <1>7
  <2>3. a - b \in 0 .. Rounds - 1
    BY <1>5, <2>1
  <2>4. a - b = IF t >= u THEN t - u ELSE t - u + Rounds
    <3>1. /\ a - b = IF a % Rounds >= b % Rounds THEN (a % Rounds) - (b % Rounds)
                     ELSE (a % Rounds) - (b % Rounds) + Rounds
      <4> HIDE DEF a, b
      <4>. QED BY <2>1, <2>3, Apart
    <3> HIDE DEF a, b, t, u
    <3>. QED BY <2>2, <3>1
  <2>. QED BY <2>1, <2>4
<1>9. (Place(s) - HeadSz - p * ElemSz + ((l - q) % SeqMod) * DataLen) \div ElemSz = d
  <2>1. l \in 0 .. SeqMod - 1 /\ q \in 0 .. SeqMod - 1 /\ d \in Int
    BY <1>1, <1>5
  <2> HIDE DEF l, q, d
  <2>. QED BY <1>5, <1>8, <2>1, Unread
<1>10. Elements(c) = d
  <2>1. next_offset = Place(s) /\ last[c].pos = p * ElemSz
    BY <1>2, <1>3 DEF Ring, At
  <2>. QED BY <1>9, <2>1 DEF Elements
<1>11. d \in 0 .. written - born
  BY <1>1, <1>4
<1>. QED BY <1>1, <1>10, <1>11

(* The elements that a reader counts, inside the mutex, are the unread.    *)
LEMMA ElementsUnread ==
  ASSUME SInv, RingInv, ReadsInv, NEW c \in Clients, reader[c] = "locked"
  PROVE  /\ Elements(c) = written - seen[c]
         /\ written - seen[c] \in 0 .. written - born
         /\ client[c] = "captured" /\ writer \notin {"holding", "looping"}
<1>1. client[c] = "captured" /\ writer \notin {"holding", "looping"}
  BY Processes DEF SInv, Locks, TypeOK, Idle
<1>. QED BY <1>1, UnreadCounted

(* What is copied out: the newest n writes, oldest first.                  *)
LEMMA Newest ==
  ASSUME SInv, RingInv, NEW n \in 0 .. Smaller(written - born, Slots),
         NEW i \in 1 .. n
  PROVE  mem[Spot(n + 1 - i)] = written - (n - i)
<1>1. PICK s \in 0 .. Slots - 1 : Ring(s)
  BY DEF RingInv
<1>2. written \in Nat /\ born \in Nat
  BY DEF SInv, TypeOK
<1> DEFINE k == n + 1 - i
<1>3. k \in 1 .. Smaller(written - born, Slots) /\ k \in 1 .. Slots
  BY <1>2, Sizes DEF Smaller
<1>4. next_offset = Place(s) /\ mem[Place(Back(s, k))] = written + 1 - k
  BY <1>1, <1>3 DEF Ring
<1>5. Spot(k) = Place(Back(s, k))
  <2> HIDE DEF k
  <2>. QED BY <1>3, <1>4, SpotIsPlace
<1>. QED BY <1>2, <1>4, <1>5

(* What an extraction delivers that finds d unread values.                 *)
LEMMA ExtractDelivers ==
  ASSUME SInv, RingInv, NEW c \in Clients, NEW d \in 0 .. written - born,
         d = written - seen[c],
         NEW b, b.after = seen[c],
         b.vals = [i \in 1 .. Smaller(d, Slots) |-> mem[Spot(Smaller(d, Slots) + 1 - i)]]
  PROVE  \A upto : (d > 0 => upto = written) => Delivered(b, upto)
<1> DEFINE n == Smaller(d, Slots)
<1>1. /\ written \in Nat /\ born \in Nat /\ d \in Nat
      /\ n \in 0 .. Smaller(written - born, Slots) /\ (n > 0 => d > 0)
      /\ n = Smaller(written - seen[c], Slots)
  BY Sizes DEF Smaller, SInv, TypeOK
<1>2. n \in Nat
  BY <1>1
<1>3. DOMAIN b.vals = 1 .. n
  OBVIOUS
<1>4. ASSUME NEW i \in 1 .. n
      PROVE  b.vals[i] = written - (n - i)
  <2>1. b.vals[i] = mem[Spot(n + 1 - i)]
    BY <1>4
  <2> HIDE DEF n
  <2>2. mem[Spot(n + 1 - i)] = written - (n - i)
    BY <1>1, <1>4, Newest
  <2>. QED BY <2>1, <2>2
<1> HIDE DEF n
<1>5. Cardinality(DOMAIN b.vals) = n
  <2>1. Cardinality(1 .. n) = n
    BY <1>2, FS_Interval
  <2>. QED BY <1>3, <2>1
<1>6. ASSUME n > 0
      PROVE  /\ b.vals[n] = written
             /\ \A i \in 1 .. n : b.vals[i] = b.vals[n] - (n - i)
             /\ n = Smaller(b.vals[n] - b.after, Slots)
  <2>1. n \in 1 .. n
    BY <1>2, <1>6
  <2>2. b.vals[n] = written
    <3>1. b.vals[n] = written - (n - n)
      BY <1>4, <2>1
    <3>. QED BY <1>1, <1>2, <3>1
  <2>3. \A i \in 1 .. n : b.vals[i] = b.vals[n] - (n - i)
    BY <1>4, <2>2
  <2>4. n = Smaller(b.vals[n] - b.after, Slots)
    BY <1>1, <2>2
  <2>. QED BY <2>2, <2>3, <2>4
<1>. QED BY <1>1, <1>5, <1>6 DEF Delivered

LEMMA ExtractReads ==
  ASSUME SInv, RingInv, ReadsInv, NEW c \in Clients, Extract(c)
  PROVE  ReadsInv'
<1> DEFINE d == Elements(c)
           n == ToCopy(d)
           b == [after |-> seen[c], negative |-> d < 0,
                 vals |-> [i \in 1 .. n |-> mem[Spot(n + 1 - i)]]]
<1>1. /\ d = written - seen[c] /\ d \in 0 .. written - born
      /\ client[c] = "captured" /\ writer \notin {"holding", "looping"}
      /\ written \in Nat /\ born \in Nat
  <2>1. reader[c] = "locked"
    BY DEF Extract
  <2>. QED BY <2>1, ElementsUnread DEF SInv, TypeOK
<1>2. /\ batch' = [batch EXCEPT ![c] = b]
      /\ UNCHANGED <<written, born, next_offset, loop_seq>>
  BY DEF Extract, mapping
<1>3. client' = client
  <2>1. ~(d < 0)
    BY <1>1
  <2>. QED BY <2>1 DEF Extract
<1>4. IF d > 0
      THEN /\ last' = [last EXCEPT ![c] = [pos |-> next_offset - HeadSz, seq |-> loop_seq]]
           /\ seen' = [seen EXCEPT ![c] = written]
      ELSE UNCHANGED <<last, seen>>
  BY DEF Extract
<1>5. Pending' = Pending
  <2>1. writer' = writer \/ (writer = "waiting" /\ writer' = "holding")
    BY DEF Extract, HandOver
  <2>. QED BY <2>1 DEF Pending
<1>6. ~b.negative
  <2>1. ~(d < 0)
    BY <1>1
  <2> HIDE DEF d
  <2>. QED BY <2>1
<1>7. Delivered(b, seen'[c])
  <2>1. d > 0 => seen'[c] = written
    BY <1>4 DEF SInv, TypeOK
  <2>2. /\ b.after = seen[c]
        /\ b.vals = [i \in 1 .. Smaller(d, Slots) |-> mem[Spot(Smaller(d, Slots) + 1 - i)]]
    BY DEF ToCopy
  <2> HIDE DEF d, b
  <2>. QED BY <1>1, <2>1, <2>2, ExtractDelivers
<1>8. Follows(c)'
  <2>1. CASE d > 0
    <3>1. PICK s \in 0 .. Slots - 1 : Ring(s)
      BY DEF RingInv
    <3>2. /\ last'[c].pos = next_offset - HeadSz /\ last'[c].seq = loop_seq
          /\ seen'[c] = written
      BY <1>4, <2>1 DEF SInv, TypeOK
    <3>3. next_offset - HeadSz = s * ElemSz
      <4>1. next_offset = Place(s) /\ s * ElemSz \in Int /\ HeadSz \in Int
        BY <3>1, Sizes DEF Ring
      <4>. QED BY <4>1 DEF Place
    <3>4. (written - born) % Rounds = loop_seq * Slots + s
      BY <1>1, <3>1 DEF Ring
    <3>5. At(last[c].pos, last[c].seq, s, seen[c])'
      BY <1>2, <3>2, <3>3, <3>4 DEF At
    <3>6. NotTooFar(last[c].pos, last[c].seq, written - seen[c] + Pending)'
      <4>1. Rounds - Slots = (SeqMod - 1) * Slots
        BY Sizes
      <4>2. (SeqMod - 1) * Slots >= 1 * Slots
        BY Sizes, SeqModAssumption
      <4>3. Rounds - Slots >= 1 /\ Pending' <= 1 /\ Pending' \in Int
        BY <4>1, <4>2, Sizes DEF Pending
      <4>4. written' - seen'[c] = 0
        BY <1>1, <1>2, <3>2
      <4>5. \A e \in Int : e <= 1 => 0 + e <= Rounds - Slots
        BY <4>3, Sizes
      <4>. QED BY <4>3, <4>4, <4>5 DEF NotTooFar
    <3>7. seen'[c] \in born' .. written'
      BY <1>1, <1>2, <3>2 DEF RingInv
    <3>. QED BY <3>5, <3>6, <3>7 DEF Follows
  <2>2. CASE ~(d > 0)
    <3>1. UNCHANGED <<last, seen>>
      BY <1>4, <2>2
    <3>. QED BY <1>2, <1>3, <1>5, <3>1, FollowsFrame DEF ReadsInv
  <2>. QED BY <2>1, <2>2
<1>9. ASSUME NEW e \in Clients, e # c
      PROVE  Follows(e)' /\ batch'[e] = batch[e] /\ seen'[e] = seen[e]
  <2>1. seen'[e] = seen[e] /\ last'[e] = last[e]
    BY <1>4, <1>9 DEF SInv, TypeOK
  <2>2. Follows(e)'
    BY <1>2, <1>3, <1>5, <2>1, FollowsFrame DEF ReadsInv
  <2>3. batch'[e] = batch[e]
    BY <1>2, <1>9 DEF ReadsInv
  <2>. QED BY <2>1, <2>2, <2>3
<1>10. DOMAIN batch' = Clients /\ batch'[c] = b
  BY <1>2 DEF ReadsInv
<1> HIDE DEF b, d
<1>11. ASSUME NEW e \in Clients
       PROVE  Follows(e)' /\ Delivered(batch'[e], seen'[e]) /\ ~batch'[e].negative
  <2>1. CASE e = c
    BY <1>6, <1>7, <1>8, <1>10, <2>1
  <2>2. CASE e # c
    BY <1>9, <2>2 DEF ReadsInv
  <2>. QED BY <2>1, <2>2
<1>. QED BY <1>10, <1>11 DEF ReadsInv

LEMMA AddReads ==
  ASSUME SInv, ReadsInv, NEW c \in Clients, Add(c)
  PROVE  ReadsInv'
<1>1. /\ UNCHANGED <<seen, last, batch, written, writer>>
      /\ client' = [client EXCEPT ![c] = "added"]
  BY DEF Add
<1>2. Pending' = Pending
  BY <1>1 DEF Pending
<1>3. \A d \in Clients : client'[d] = "captured" => client[d] = "captured"
  BY <1>1 DEF SInv, TypeOK
<1>4. CASE refs = 0
  <2>1. \A d \in Clients : client'[d] # "captured"
    BY <1>1, <1>4, NobodyInside DEF SInv, TypeOK
  <2>. QED BY <1>1, <2>1 DEF ReadsInv, Follows, Delivered
<1>5. CASE refs # 0
  <2>1. born' = born
    BY <1>5 DEF Add
  <2>. QED BY <1>1, <1>2, <1>3, <2>1, ReadsFrame
<1>. QED BY <1>4, <1>5

(* The other steps leave writes and reads alone.                           *)
LEMMA OtherReads ==
  ASSUME SInv, ReadsInv,
         \/ Wait \/ Loop
         \/ \E c \in Clients : \/ Release(c) \/ Remove(c) \/ Peek(c)
                               \/ TryLock(c) \/ Die(c)
  PROVE  ReadsInv'
<1>1. UNCHANGED <<seen, last, batch, written, born>>
  BY DEF Wait, Loop, Release, Remove, Peek, TryLock, Die, mapping, extract
<1>2. Pending' = Pending
  <2>1. \/ writer' = writer
        \/ writer = "arrived" /\ writer' \in {"waiting", "holding"}
        \/ writer = "waiting" /\ writer' = "holding"
        \/ writer = "looping" /\ writer' = Idle
    BY DEF Wait, Loop, Release, Remove, Peek, TryLock, Die, HandOver
  <2>. QED BY <2>1 DEF Pending, Idle
<1>3. \A d \in Clients : client'[d] = "captured" => client[d] = "captured"
  BY DEF Wait, Loop, Release, Remove, Peek, TryLock, Die, SInv, TypeOK
<1>. QED BY <1>1, <1>2, <1>3, ReadsFrame

LEMMA InitReads == Init => ReadsInv
<1> SUFFICES ASSUME Init PROVE ReadsInv
  OBVIOUS
<1>1. ASSUME NEW c \in Clients
      PROVE  Follows(c) /\ Delivered(batch[c], seen[c]) /\ ~batch[c].negative
  <2>1. client[c] = "none" /\ batch[c] = NoBatch
    BY DEF Init
  <2>2. DOMAIN NoBatch.vals = {} /\ ~NoBatch.negative
    BY DEF NoBatch
  <2>. QED BY <2>1, <2>2, FS_EmptySet DEF Follows, Delivered
<1>2. DOMAIN batch = Clients
  BY DEF Init
<1>. QED BY <1>1, <1>2 DEF ReadsInv

-----------------------------------------------------------------------------

BufferInv == SInv /\ RingInv /\ ReadsInv

LEMMA NextRing ==
  ASSUME SInv, RingInv, Next
  PROVE  RingInv'
<1>1. CASE Put
  BY <1>1, PutRing
<1>2. CASE Loop
  BY <1>2, LoopRing
<1>3. ASSUME NEW c \in Clients, Add(c) PROVE RingInv'
  <2>1. CASE refs = 0
    <3>1. CreateBuffer /\ written' = written /\ writer' = writer
      BY <1>3, <2>1 DEF Add
    <3>2. writer = Idle
      BY <2>1, NobodyInside
    <3>. QED BY <3>1, <3>2, CreateRing
  <2>2. CASE refs # 0
    BY <1>3, <2>2, RingFrame DEF Add, mapping
  <2>. QED BY <2>1, <2>2
<1>4. CASE Arrive \/ Wait
  <2>1. /\ UNCHANGED <<next_offset, loop_seq, mem, written, born>>
        /\ writer' # "looping" /\ writer # "looping"
    BY <1>4 DEF Arrive, Wait, mapping, Idle
  <2>. QED BY <2>1, RingFrame
<1>5. ASSUME NEW c \in Clients, Capture(c) \/ Release(c) \/ Remove(c) \/ Peek(c) \/ TryLock(c)
      PROVE  RingInv'
  <2>1. UNCHANGED <<next_offset, loop_seq, mem, written, born, writer>>
    BY <1>5 DEF Capture, Release, Remove, Peek, TryLock, mapping
  <2>. QED BY <2>1, RingFrame
<1>6. ASSUME NEW c \in Clients, Extract(c) \/ Die(c)
      PROVE  RingInv'
  <2>1. UNCHANGED <<next_offset, loop_seq, mem, written, born>>
    BY <1>6 DEF Extract, Die, mapping
  <2>2. writer' = writer \/ (writer = "waiting" /\ writer' = "holding")
    BY <1>6 DEF Extract, Die, HandOver
  <2>. QED BY <2>1, <2>2, RingFrame
<1>. QED BY <1>1, <1>2, <1>3, <1>4, <1>5, <1>6 DEF Next

LEMMA NextReads ==
  ASSUME SInv, RingInv, ReadsInv, Next
  PROVE  ReadsInv'
BY ArriveReads, PutReads, CaptureReads, ExtractReads, AddReads, OtherReads
DEF Next

LEMMA NextBuffer == BufferInv /\ [Next]_vars => BufferInv'
<1> SUFFICES ASSUME BufferInv, [Next]_vars PROVE BufferInv'
  OBVIOUS
<1>1. SInv'
  BY NextSInv DEF BufferInv
<1>2. CASE Next
  BY <1>1, <1>2, NextRing, NextReads DEF BufferInv
<1>3. CASE UNCHANGED vars
  <2>1. /\ UNCHANGED <<next_offset, loop_seq, mem, written, born, writer>>
        /\ UNCHANGED <<seen, last, batch, client>>
    BY <1>3 DEF vars, mapping, extract
  <2>2. Pending' = Pending
    BY <2>1 DEF Pending
  <2>. QED BY <1>1, <2>1, <2>2, RingFrame, ReadsFrame DEF BufferInv
<1>. QED BY <1>2, <1>3

LEMMA BufferInvariant == Spec => []BufferInv
<1>1. Init => BufferInv
  BY InitSInv, InitRing, InitReads DEF BufferInv
<1>. QED BY <1>1, NextBuffer, PTL DEF Spec

(* The newest writes, as many as there are slots, are where a reader looks *)
(* for them, and the header's position and loop count them: for every size *)
(* of ring, element and counter.                                           *)
THEOREM NewestInRing == Spec => []RingHoldsNewest
<1>1. BufferInv => RingHoldsNewest
  <2> SUFFICES ASSUME BufferInv PROVE RingHoldsNewest
    OBVIOUS
  <2>1. SInv /\ RingInv
    BY DEF BufferInv
  <2>2. PICK s \in 0 .. Slots - 1 : Ring(s)
    BY <2>1 DEF RingInv
  <2>3. ASSUME NEW k \in 1 .. Smaller(written - born, Slots)
        PROVE  mem[Spot(k)] = written + 1 - k
    <3>1. k \in 1 .. Slots
      BY <2>1, Sizes DEF Smaller, SInv, TypeOK
    <3>2. next_offset = Place(s) /\ mem[Place(Back(s, k))] = written + 1 - k
      BY <2>2 DEF Ring
    <3>. QED BY <3>1, <3>2, SpotIsPlace
  <2>4. (next_offset - HeadSz) \div ElemSz = s
    <3> DEFINE a == next_offset - HeadSz
    <3>1. /\ a = s * ElemSz + 0 /\ a \in Int /\ s \in Int
          /\ 0 \in 0 .. ElemSz - 1 /\ ElemSz \in Nat \ {0}
      <4>1. next_offset = Place(s) /\ s * ElemSz \in Int /\ HeadSz \in Int
        BY <2>2, Sizes DEF Ring
      <4>. QED BY <4>1, Sizes DEF Place
    <3> HIDE DEF a
    <3>2. a \div ElemSz = s
      BY <3>1, Quotient
    <3>. QED BY <3>2 DEF a
  <2>5. writer # "looping" => (written - born) % (SeqMod * Slots) = loop_seq * Slots + s
    BY <2>2 DEF Ring, Rounds
  <2>. QED BY <2>3, <2>4, <2>5 DEF RingHoldsNewest
<1>. QED BY <1>1, BufferInvariant, PTL

(* A client that is never a whole wrap of the loop counter behind gets     *)
(* what was written since it read last, in order and each value once; and  *)
(* the difference of positions and loops that it takes for a number of     *)
(* elements never comes out negative, which would end it.                  *)
THEOREM InOrder == Spec => []ReadsInOrder
<1>1. BufferInv => ReadsInOrder
  BY DEF BufferInv, ReadsInv, Delivered, ReadsInOrder
<1>. QED BY <1>1, BufferInvariant, PTL

(* What _extractFromBuffer sees of the header without the mutex is right:  *)
(* position and loop are those of its last read just if there is nothing   *)
(* unread, however often the ring and the loop counter have gone round.    *)
(* Only between Put and Loop, where the two do not fit, may it be wrong,   *)
(* and the writer is about to leave that.  That it then comes back to read *)
(* is CatchesUp.                                                           *)
SameHeader(c) ==
  next_offset - HeadSz = last[c].pos /\ loop_seq = last[c].seq

LookTellsUnread ==
  \A c \in Captured :
    writer # "looping" => (SameHeader(c) <=> seen[c] = written)

THEOREM LookIsRight == Spec => []LookTellsUnread
<1>1. ASSUME BufferInv, NEW c \in Clients, client[c] = "captured",
             writer # "looping", SameHeader(c)
      PROVE  seen[c] = written
  <2>1. (loop_seq - last[c].seq) % SeqMod = 0 /\ 0 \div ElemSz = 0
    <3>1. loop_seq \in Int /\ loop_seq - last[c].seq = 0
      BY <1>1 DEF BufferInv, SInv, TypeOK, SameHeader
    <3>2. 0 = 0 * SeqMod + 0 /\ 0 = 0 * ElemSz + 0
      BY Sizes
    <3>3. 0 % SeqMod = 0 /\ 0 \div ElemSz = 0
      BY <3>2, Sizes, Quotient
    <3>. QED BY <3>1, <3>3
  <2>2. next_offset - HeadSz - last[c].pos + 0 * DataLen = 0
    BY <1>1, Sizes DEF BufferInv, SInv, TypeOK, SameHeader, Offsets
  <2>3. Elements(c) = 0
    BY <2>1, <2>2 DEF Elements
  <2>4. Elements(c) = written - seen[c] /\ written \in Nat /\ seen[c] \in Int
    BY <1>1, UnreadCounted DEF BufferInv, SInv, TypeOK
  <2>. QED BY <2>3, <2>4
<1>2. ASSUME BufferInv, NEW c \in Clients, client[c] = "captured",
             writer # "looping", seen[c] = written
      PROVE  SameHeader(c)
  <2>1. PICK s \in 0 .. Slots - 1 : Ring(s)
    BY <1>2 DEF BufferInv, RingInv
  <2>2. PICK p \in 0 .. Slots - 1 : At(last[c].pos, last[c].seq, p, seen[c])
    BY <1>2 DEF BufferInv, ReadsInv, Follows
  <2>3. loop_seq * Slots + s = last[c].seq * Slots + p
    BY <1>2, <2>1, <2>2 DEF Ring, At
  <2>4. loop_seq \in Int /\ last[c].seq \in Int
    BY <1>2 DEF BufferInv, SInv, TypeOK
  <2> DEFINE a == loop_seq * Slots + s
  <2>5. a \in Int /\ Splits(a, Slots, loop_seq, s) /\ Splits(a, Slots, last[c].seq, p)
    BY <2>3, <2>4, Sizes DEF Splits
  <2> HIDE DEF a
  <2>6. loop_seq = last[c].seq /\ s = p
    BY <2>4, <2>5, Sizes, QuotientOf
  <2>7. next_offset - HeadSz = s * ElemSz
    BY <2>1, Sizes DEF Ring, Place
  <2>. QED BY <2>2, <2>6, <2>7 DEF At, SameHeader
<1>3. BufferInv => LookTellsUnread
  BY <1>1, <1>2 DEF LookTellsUnread, Captured
<1>. QED BY <1>3, BufferInvariant, PTL

-----------------------------------------------------------------------------
(* The buffer implements ValueFeed.                                        *)

Got(b) == [c \in Clients |-> b[c].vals]

(* Steps that no client's feed takes notice of.                            *)
LEMMA FeedUnchanged ==
  ASSUME UNCHANGED <<written, seen, batch>>, Captured' = Captured
  PROVE  UNCHANGED Feed!vars
BY DEF Feed!vars

LEMMA FeedInit == Init => Feed!Init
<1> SUFFICES ASSUME Init PROVE Feed!Init
  OBVIOUS
<1>1. Captured = {}
  BY DEF Init, Captured
<1>2. \A c \in Clients : batch[c].vals = [i \in 1 .. 0 |-> written - 0 + i]
  BY DEF Init, NoBatch
<1>. QED BY <1>1, <1>2 DEF Init, Feed!Init, Feed!Newest

LEMMA CaptureJoins ==
  ASSUME BufferInv, NEW c \in Clients, Capture(c)
  PROVE  Feed!Join(c)
<1> DEFINE m == (written - born) % (SeqMod * Slots)
<1>1. /\ written \in Nat /\ born \in Nat /\ born <= written
      /\ client \in [Clients -> {"none", "added", "captured", "released"}]
  BY DEF BufferInv, SInv, TypeOK, RingInv
<1>2. m \in 0 .. written - born
  <2>1. Rounds \in Nat \ {0} /\ Rounds = SeqMod * Slots /\ written - born \in Nat
    BY <1>1, Sizes
  <2>2. \A a \in Nat, n \in Nat \ {0} : a % n \in 0 .. a
    OBVIOUS
  <2>. QED BY <2>1, <2>2
<1>3. seen' = [seen EXCEPT ![c] = written - m] /\ written - m \in 0 .. written
  BY <1>1, <1>2 DEF Capture
<1>4. c \notin Captured /\ Captured' = Captured \cup {c}
  BY <1>1 DEF Captured, Capture
<1>5. Got(batch') = [Got(batch) EXCEPT ![c] = [i \in 1 .. 0 |-> written - 0 + i]]
  <2>1. NoBatch.vals = [i \in 1 .. 0 |-> written - 0 + i]
    BY DEF NoBatch
  <2>2. batch' = [batch EXCEPT ![c] = NoBatch] /\ DOMAIN batch = Clients
    BY DEF Capture, BufferInv, ReadsInv
  <2>. QED BY <2>1, <2>2 DEF Got
<1>6. written' = written
  BY DEF Capture
<1> HIDE DEF m
<1>. QED BY <1>3, <1>4, <1>5, <1>6 DEF Feed!Join, Feed!Newest, Got

LEMMA ExtractFetches ==
  ASSUME BufferInv, NEW c \in Clients, Extract(c)
  PROVE  Feed!Fetch(c)
<1> DEFINE d == Elements(c)
           n == ToCopy(d)
           b == [after |-> seen[c], negative |-> d < 0,
                 vals |-> [i \in 1 .. n |-> mem[Spot(n + 1 - i)]]]
<1>1. /\ d = written - seen[c] /\ d \in 0 .. written - born
      /\ client[c] = "captured" /\ written \in Nat /\ born \in Nat
  <2>1. reader[c] = "locked"
    BY DEF Extract
  <2>. QED BY <2>1, ElementsUnread DEF BufferInv, SInv, TypeOK
<1>2. batch' = [batch EXCEPT ![c] = b] /\ written' = written
  BY DEF Extract
<1>3. client' = client
  <2>1. ~(d < 0)
    BY <1>1
  <2>. QED BY <2>1 DEF Extract
<1>4. seen' = [seen EXCEPT ![c] = written]
  <2>1. seen \in [Clients -> Int]
    BY DEF BufferInv, SInv, TypeOK
  <2>2. CASE d > 0
    BY <2>2 DEF Extract
  <2>3. CASE ~(d > 0)
    <3>1. seen' = seen
      BY <2>3 DEF Extract
    <3>2. seen[c] = written
      BY <1>1, <2>1, <2>3
    <3>. QED BY <2>1, <3>1, <3>2
  <2>. QED BY <2>2, <2>3
<1>5. n = Feed!Share(c) /\ n \in 0 .. Smaller(written - born, Slots)
  BY <1>1, Sizes DEF ToCopy, Smaller, Feed!Share
<1>6. b.vals = [i \in 1 .. n |-> written - n + i]
  <2>1. ASSUME NEW i \in 1 .. n
        PROVE  mem[Spot(n + 1 - i)] = written - n + i
    <3> HIDE DEF n, d
    <3>1. mem[Spot(n + 1 - i)] = written - (n - i)
      BY <1>5, Newest DEF BufferInv
    <3>2. n \in Int /\ i \in Int /\ written \in Int
      BY <1>1, <1>5
    <3>. QED BY <3>1, <3>2
  <2>. QED BY <2>1
<1>7. Got(batch') = [Got(batch) EXCEPT ![c] = [i \in 1 .. n |-> written - n + i]]
  <2>1. DOMAIN batch = Clients
    BY DEF BufferInv, ReadsInv
  <2> HIDE DEF b
  <2>. QED BY <1>2, <1>6, <2>1 DEF Got
<1>8. c \in Captured /\ Captured' = Captured
  BY <1>1, <1>3 DEF Captured
<1> HIDE DEF d, n, b
<1>. QED BY <1>2, <1>4, <1>5, <1>7, <1>8 DEF Feed!Fetch, Feed!Newest, Got

LEMMA FeedStep ==
  ASSUME BufferInv, [Next]_vars
  PROVE  [Feed!Next]_Feed!vars
<1>0. client \in [Clients -> {"none", "added", "captured", "released"}]
  BY DEF BufferInv, SInv, TypeOK
<1>1. CASE Put
  <2>1. written' = written + 1 /\ UNCHANGED <<seen, batch, client>>
    BY <1>1 DEF Put, extract
  <2>. QED BY <2>1 DEF Feed!Next, Feed!Send, Captured
<1>2. CASE Arrive \/ Wait \/ Loop \/ UNCHANGED vars
  <2>1. UNCHANGED <<written, seen, batch, client>>
    BY <1>2 DEF Arrive, Wait, Loop, vars, extract
  <2>. QED BY <2>1, FeedUnchanged DEF Captured
<1>3. ASSUME NEW c \in Clients, Add(c) \/ Remove(c) \/ Peek(c) \/ TryLock(c)
      PROVE  [Feed!Next]_Feed!vars
  <2>1. /\ UNCHANGED <<written, seen, batch>>
        /\ \/ client' = client
           \/ \E s \in {"none", "added"} :
                client[c] # "captured" /\ client' = [client EXCEPT ![c] = s]
    BY <1>3 DEF Add, Remove, Peek, TryLock, extract
  <2>2. Captured' = Captured
    BY <1>0, <2>1 DEF Captured
  <2>. QED BY <2>1, <2>2, FeedUnchanged
<1>4. ASSUME NEW c \in Clients, Capture(c)
      PROVE  [Feed!Next]_Feed!vars
  BY <1>4, CaptureJoins DEF Feed!Next
<1>5. ASSUME NEW c \in Clients, Extract(c)
      PROVE  [Feed!Next]_Feed!vars
  BY <1>5, ExtractFetches DEF Feed!Next
<1>6. ASSUME NEW c \in Clients, Release(c) \/ Die(c)
      PROVE  [Feed!Next]_Feed!vars
  <2>1. /\ UNCHANGED <<written, seen, batch>>
        /\ \E s \in {"none", "released"} : client' = [client EXCEPT ![c] = s]
    BY <1>6 DEF Release, Die, extract
  <2>2. Captured' = Captured \ {c}
    BY <1>0, <2>1 DEF Captured
  <2>3. CASE c \in Captured
    BY <2>1, <2>2, <2>3 DEF Feed!Next, Feed!Leave
  <2>4. CASE c \notin Captured
    BY <2>1, <2>2, <2>4, FeedUnchanged
  <2>. QED BY <2>3, <2>4
<1>. QED BY <1>1, <1>2, <1>3, <1>4, <1>5, <1>6 DEF Next

(* RouteToBuffer and _extractFromBuffer between them are a feed: every     *)
(* client gets the values that arrive, in order, each once, up to the      *)
(* newest, and lacks only what the ring had no room for; and no client,    *)
(* dead or alive, changes what another is given.                           *)
THEOREM BufferIsFeed == Spec => FeedSpec
<1>1. BufferInv /\ [Next]_vars => [Feed!Next]_Feed!vars
  BY FeedStep
<1>. QED BY <1>1, FeedInit, BufferInvariant, PTL DEF Spec, FeedSpec, Feed!Spec
=============================================================================
