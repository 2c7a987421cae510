------------------------- MODULE BlockStreamsProofs -------------------------
(***************************************************************************)
(* Proofs about BlockStreams, for any number of processes, blocks, topics, *)
(* items and faults.                                                       *)
(*                                                                         *)
(* The references the engine counts for a pair are those of the blocks     *)
(* that count as its holders, and those left behind.  What makes that      *)
(* inductive is what a call knows while it is under way: an Add that the   *)
(* grid of the topics and items it works on has no pair but those it has   *)
(* captured, has yet to ask for, or has failed to get; a removal that the  *)
(* pairs it has given back and those it has not are the ones it takes.     *)
(***************************************************************************)
EXTENDS BlockStreams, FiniteSetTheorems, TLAPS

Pending(k) == k.fresh \cup k.late

(* The topics and items an Add works on: the block's and the pending ones. *)
InGrid(k, t, i) ==
  /\ t \in topics[k.block] \/ \E j \in Items : <<t, j>> \in Pending(k)
  /\ i \in items[k.block] \/ \E s \in Topics : <<s, i>> \in Pending(k)

AddFits(k) ==
  /\ Pending(k) \cap captured[k.block] = {}
  /\ \A t \in Topics, i \in Items :
       <<t, i>> \in k.late => t \in topics[k.block]
  /\ \A t \in Topics, i \in Items :
       InGrid(k, t, i) =>
         \/ <<t, i>> \in captured[k.block] \cup missed \cup Pending(k)
         \/ k.op = "capture" /\ k.pair = <<t, i>>

CaptureFits(k) == k.pair \in Table(k.block) \ Pending(k)

(* The pairs a removal takes: all that has a topic or an item of its.      *)
RemoveFits(k) ==
  \A t \in topics[k.block], i \in items[k.block] :
    t \in k.topics \/ i \in k.items => <<t, i>> \in k.done \cup k.todo

DoneFits(k) ==
  /\ k.done \cap captured[k.block] = {}
  /\ k.done \cap k.todo = {}
  /\ k.todo \subseteq Table(k.block)
  /\ Table(k.block) \ (k.done \cup missed) \subseteq captured[k.block]

Taken(k) ==
  \A t \in Topics, i \in Items :
    <<t, i>> \in k.done \cup k.todo => t \in k.topics \/ i \in k.items

Fits(c) ==
  LET k == call[c] IN
  k # Idle =>
    /\ owner[k.block] = c
    /\ k.op \in {"add", "capture"} => AddFits(k)
    /\ k.op = "capture" => CaptureFits(k)
    /\ k.op \in {"remove", "close"} => DoneFits(k)
    /\ k.op = "remove" => RemoveFits(k) /\ Taken(k)
    /\ k.op = "close" => Table(k.block) \subseteq k.done \cup k.todo

IsRead(b) ==
  (\A c \in Clients : ~InCall(c, b)) => Table(b) \ missed \subseteq captured[b]

Accounted(p) == refs[p] = Cardinality(Holders(p)) + left[p]

BInv ==
  /\ TypeOK
  /\ \A c \in Clients : Fits(c)
  /\ \A b \in Blocks : captured[b] \subseteq Table(b) /\ IsRead(b)
  /\ \A p \in Pairs \ missed : Accounted(p)

-----------------------------------------------------------------------------

(* The values of call by their kind.                                       *)
LEMMA CallKinds ==
  ASSUME NEW k \in Calls, k # Idle
  PROVE  /\ k.block \in Blocks
         /\ k.op \in {"add", "capture", "remove", "close"}
         /\ k.op \in {"add", "capture"} =>
              k.fresh \in SUBSET Pairs /\ k.late \in SUBSET Pairs
         /\ k.op = "capture" => k.pair \in Pairs
         /\ k.op = "remove" =>
              k.topics \in SUBSET Topics /\ k.items \in SUBSET Items
         /\ k.op \in {"remove", "close"} =>
              k.done \in SUBSET Pairs /\ k.todo \in SUBSET Pairs
BY DEF Calls, Idle

LEMMA NewCalls ==
  /\ Idle \in Calls
  /\ \A b \in Blocks, fresh, late \in SUBSET Pairs :
       /\ Adding(b, fresh, late) \in Calls
       /\ Adding(b, fresh, late) # Idle
       /\ GoOn(b, fresh, late) \in Calls
       /\ GoOn(b, fresh, late) # Idle => fresh \cup late # {}
       /\ GoOn(b, fresh, late) # Idle =>
            GoOn(b, fresh, late) = Adding(b, fresh, late)
       /\ \A p \in Pairs : /\ Capturing(b, p, fresh, late) \in Calls
                           /\ Capturing(b, p, fresh, late) # Idle
  /\ \A b \in Blocks, done, todo \in SUBSET Pairs :
       /\ Closing(b, done, todo) \in Calls
       /\ Closing(b, done, todo) # Idle
       /\ \A ts \in SUBSET Topics, is \in SUBSET Items :
            /\ Removing(b, ts, is, done, todo) \in Calls
            /\ Removing(b, ts, is, done, todo) # Idle
<1>1. Idle \in Calls
  BY DEF Calls
<1>2. ASSUME NEW b \in Blocks, NEW fresh \in SUBSET Pairs,
             NEW late \in SUBSET Pairs
      PROVE  /\ Adding(b, fresh, late) \in Calls
             /\ Adding(b, fresh, late) # Idle
             /\ \A p \in Pairs : /\ Capturing(b, p, fresh, late) \in Calls
                                 /\ Capturing(b, p, fresh, late) # Idle
  <2>1. Adding(b, fresh, late) \in Calls
    BY DEF Calls, Adding
  <2>2. Adding(b, fresh, late).op # Idle.op
    BY DEF Adding, Idle
  <2>3. ASSUME NEW p \in Pairs
        PROVE  /\ Capturing(b, p, fresh, late) \in Calls
               /\ Capturing(b, p, fresh, late).op # Idle.op
    BY DEF Calls, Capturing, Idle
  <2>. QED BY <2>1, <2>2, <2>3
<1>3. ASSUME NEW b \in Blocks, NEW done \in SUBSET Pairs,
             NEW todo \in SUBSET Pairs
      PROVE  /\ Closing(b, done, todo) \in Calls
             /\ Closing(b, done, todo) # Idle
             /\ \A ts \in SUBSET Topics, is \in SUBSET Items :
                  /\ Removing(b, ts, is, done, todo) \in Calls
                  /\ Removing(b, ts, is, done, todo) # Idle
  <2>1. /\ Closing(b, done, todo) \in Calls
        /\ Closing(b, done, todo).op # Idle.op
    BY DEF Calls, Closing, Idle
  <2>2. ASSUME NEW ts \in SUBSET Topics, NEW is \in SUBSET Items
        PROVE  /\ Removing(b, ts, is, done, todo) \in Calls
               /\ Removing(b, ts, is, done, todo).op # Idle.op
    BY DEF Calls, Removing, Idle
  <2>. QED BY <2>1, <2>2
<1>. QED BY <1>1, <1>2, <1>3 DEF GoOn

LEMMA InitBInv == Init => BInv
<1> SUFFICES ASSUME Init PROVE BInv
  OBVIOUS
<1>1. TypeOK
  BY BlocksAssumption, NewCalls DEF Init, TypeOK
<1>2. \A c \in Clients : Fits(c)
  BY DEF Init, Fits
<1>3. \A b \in Blocks : captured[b] \subseteq Table(b) /\ IsRead(b)
  BY DEF Init, Table, IsRead
<1>4. \A p \in Pairs \ missed : Accounted(p)
  <2>1. \A p \in Pairs : Holders(p) = {}
    BY DEF Init, Holders, Counted, Table
  <2>2. ASSUME NEW p \in Pairs PROVE Accounted(p)
    <3>1. refs[p] = 0 /\ left[p] = 0
      BY DEF Init
    <3>2. Cardinality(Holders(p)) = 0
      BY <2>1, FS_EmptySet
    <3>. QED BY <3>1, <3>2 DEF Accounted
  <2>. QED BY <2>2
<1>. QED BY <1>1, <1>2, <1>3, <1>4 DEF BInv

-----------------------------------------------------------------------------

(* A step of c's, of a call on b.                                          *)
StepOn(c, b) ==
  /\ owner[b] = c \/ owner[b] = Nobody
  /\ call[c] # Idle => call[c].block = b
  /\ call'[c] # Idle => call'[c].block = b
  /\ \A d \in Clients \ {c} : call'[d] = call[d]
  /\ \A e \in Blocks \ {b} : /\ owner'[e] = owner[e]
                            /\ topics'[e] = topics[e]
                            /\ items'[e] = items[e]
                            /\ captured'[e] = captured[e]
  /\ missed \subseteq missed'

(* Nobody else's call is on the block, before the step or after.           *)
LEMMA OnlyOwn ==
  ASSUME BInv, NEW c \in Clients, NEW b \in Blocks, StepOn(c, b)
  PROVE  \A d \in Clients \ {c} :
           /\ ~InCall(d, b) /\ ~InCall(d, b)'
           /\ call[d] # Idle => call[d].block \in Blocks \ {b}
<1> SUFFICES ASSUME NEW d \in Clients \ {c}, call[d] # Idle
             PROVE  call[d].block \in Blocks \ {b}
  BY DEF InCall, StepOn
<1>1. owner[call[d].block] = d
  BY DEF BInv, Fits
<1>2. call[d].block \in Blocks
  BY CallKinds DEF BInv, TypeOK
<1>3. owner[b] # d
  BY BlocksAssumption DEF StepOn
<1>. QED BY <1>1, <1>2, <1>3

(* The other calls fit as before.                                          *)
LEMMA OthersFit ==
  ASSUME BInv, NEW c \in Clients, NEW b \in Blocks, StepOn(c, b)
  PROVE  \A d \in Clients \ {c} : Fits(d)'
<1> SUFFICES ASSUME NEW d \in Clients \ {c}, call[d] # Idle
             PROVE  Fits(d)'
  BY DEF Fits, StepOn
<1> DEFINE k == call[d]
<1>1. call'[d] = k /\ k.block \in Blocks \ {b}
  BY OnlyOwn DEF StepOn
<1>2. /\ owner'[k.block] = owner[k.block] /\ topics'[k.block] = topics[k.block]
      /\ items'[k.block] = items[k.block]
      /\ captured'[k.block] = captured[k.block] /\ missed \subseteq missed'
  BY <1>1 DEF StepOn
<1>3. Fits(d)
  BY DEF BInv
<1>4. AddFits(call[d]) => AddFits(call[d])'
  BY <1>1, <1>2 DEF AddFits, InGrid, Pending
<1>5. CaptureFits(call[d]) => CaptureFits(call[d])'
  BY <1>1, <1>2 DEF CaptureFits, Pending, Table
<1>6. DoneFits(call[d]) => DoneFits(call[d])'
  BY <1>1, <1>2 DEF DoneFits, Table
<1>7. RemoveFits(call[d]) /\ Taken(call[d])
        => RemoveFits(call[d])' /\ Taken(call[d])'
  BY <1>1, <1>2 DEF RemoveFits, Taken
<1>8. Table(call[d].block) = Table(call[d].block)'
  BY <1>1, <1>2 DEF Table
<1>. QED BY <1>1, <1>2, <1>3, <1>4, <1>5, <1>6, <1>7, <1>8 DEF Fits

(* The other blocks have the streams, the buffers and the references they  *)
(* had.                                                                    *)
LEMMA OtherBlocks ==
  ASSUME BInv, NEW c \in Clients, NEW b \in Blocks, StepOn(c, b)
  PROVE  \A e \in Blocks \ {b} :
           /\ captured'[e] \subseteq Table(e)' /\ IsRead(e)'
           /\ Counted(e)' = Counted(e)
<1> SUFFICES ASSUME NEW e \in Blocks \ {b}
             PROVE  /\ captured'[e] \subseteq Table(e)' /\ IsRead(e)'
                    /\ Counted(e)' = Counted(e)
  OBVIOUS
<1>1. Table(e)' = Table(e) /\ captured'[e] = captured[e]
  BY DEF StepOn, Table
<1>2. \A d \in Clients : InCall(d, e)' <=> InCall(d, e)
  BY DEF StepOn, InCall
<1>3. \A d \in Clients : InCall(d, e) => call'[d] = call[d]
  BY DEF StepOn, InCall
<1>4. IsRead(e)'
  BY <1>1, <1>2 DEF BInv, IsRead, StepOn
<1>5. Counted(e)' = Counted(e)
  BY <1>1, <1>2, <1>3 DEF Counted, Uncounted
<1>. QED BY <1>1, <1>4, <1>5 DEF BInv

(* What the engine counts for the block itself.                            *)
LEMMA OwnCounted ==
  ASSUME BInv, NEW c \in Clients, NEW b \in Blocks, StepOn(c, b)
  PROVE  /\ call[c] # Idle /\ InCall(c, b) => Counted(b) = Table(b) \ Uncounted(call[c])
         /\ call[c] = Idle => Counted(b) = Table(b)
         /\ call'[c] # Idle =>
              Counted(b)' = Table(b)' \ Uncounted(call[c])'
         /\ call'[c] = Idle => Counted(b)' = Table(b)'
<1>1. \A d \in Clients \ {c} : ~InCall(d, b) /\ ~InCall(d, b)'
  BY OnlyOwn
<1>2. /\ InCall(c, b) <=> call[c] # Idle
      /\ InCall(c, b)' <=> call'[c] # Idle
  BY DEF InCall, StepOn
<1>. QED BY <1>1, <1>2 DEF Counted

(* What remains to be shown of such a step.                                *)
LEMMA StepInv ==
  ASSUME BInv, NEW c \in Clients, NEW b \in Blocks, StepOn(c, b),
         TypeOK', Fits(c)', captured'[b] \subseteq Table(b)', IsRead(b)',
         \A p \in Pairs \ missed' : Accounted(p)'
  PROVE  BInv'
BY OthersFit, OtherBlocks DEF BInv

-----------------------------------------------------------------------------

(* The holders of a pair before and after.                                 *)
LEMMA HoldersKeep ==
  ASSUME BInv, NEW c \in Clients, NEW b \in Blocks, StepOn(c, b),
         NEW p \in Pairs, p \in Counted(b)' <=> p \in Counted(b),
         refs'[p] = refs[p], left'[p] = left[p], Accounted(p)
  PROVE  Accounted(p)'
<1>1. Holders(p)' = Holders(p)
  BY OtherBlocks DEF Holders
<1>. QED BY <1>1 DEF Accounted

LEMMA HoldersFinite ==
  \A p : IsFiniteSet(Holders(p)) /\ Cardinality(Holders(p)) \in Nat
BY BlocksAssumption, FS_Subset, FS_CardinalityType DEF Holders

LEMMA HoldersGain ==
  ASSUME BInv, TypeOK, NEW c \in Clients, NEW b \in Blocks, StepOn(c, b),
         NEW p \in Pairs, p \in Counted(b)', p \notin Counted(b),
         refs'[p] = refs[p] + 1, left'[p] = left[p], Accounted(p)
  PROVE  Accounted(p)'
<1>1. Holders(p)' = Holders(p) \cup {b} /\ b \notin Holders(p)
  BY OtherBlocks DEF Holders
<1>2. /\ Cardinality(Holders(p) \cup {b}) = Cardinality(Holders(p)) + 1
      /\ Cardinality(Holders(p)) \in Nat
  BY <1>1, HoldersFinite, FS_AddElement
<1>. QED BY <1>1, <1>2 DEF Accounted, TypeOK

LEMMA HoldersLose ==
  ASSUME BInv, TypeOK, NEW c \in Clients, NEW b \in Blocks, StepOn(c, b),
         NEW p \in Pairs, p \notin Counted(b)', p \in Counted(b),
         Accounted(p)
  PROVE  /\ refs[p] > 0
         /\ refs'[p] = refs[p] - 1 /\ left'[p] = left[p] => Accounted(p)'
         /\ refs'[p] = refs[p] /\ left'[p] = left[p] + 1 => Accounted(p)'
<1>1. Holders(p)' = Holders(p) \ {b} /\ b \in Holders(p)
  BY OtherBlocks DEF Holders
<1>2. /\ Cardinality(Holders(p) \ {b}) = Cardinality(Holders(p)) - 1
      /\ Cardinality(Holders(p)) \in Nat
      /\ Cardinality(Holders(p) \ {b}) \in Nat
  BY <1>1, HoldersFinite, FS_RemoveElement, FS_CardinalityType
<1>. QED BY <1>1, <1>2 DEF Accounted, TypeOK

-----------------------------------------------------------------------------

LEMMA CreateBlockStep ==
  ASSUME BInv, NEW c \in Clients, NEW b \in Blocks, CreateBlock(c, b)
  PROVE  BInv'
<1>1. StepOn(c, b)
  BY DEF StepOn, CreateBlock, tables
<1>2. TypeOK'
  BY DEF BInv, TypeOK, CreateBlock, tables, caches
<1>3. Fits(c)'
  BY DEF CreateBlock, Fits
<1>4. captured'[b] \subseteq Table(b)' /\ IsRead(b)'
  BY DEF BInv, CreateBlock, tables, Table, IsRead, InCall
<1>5. Counted(b)' = Counted(b)
  BY DEF CreateBlock, tables, Counted, Table, InCall, Uncounted
<1>6. refs' = refs /\ left' = left /\ missed' = missed
  BY DEF CreateBlock
<1>7. \A p \in Pairs \ missed' : Accounted(p)'
  BY <1>1, <1>5, <1>6, HoldersKeep DEF BInv
<1>. QED BY <1>1, <1>2, <1>3, <1>4, <1>7, StepInv

(* A step that changes at most the pre-cache and what the owner's call is. *)
Quiet(c, b) ==
  /\ owner[b] = c /\ call[c] = Idle
  /\ topic_precache' \in [Blocks -> SUBSET Topics]
  /\ item_precache' \in [Blocks -> SUBSET Items]
  /\ refs' = refs /\ owner' = owner /\ topics' = topics /\ items' = items
  /\ captured' = captured /\ dead' = dead /\ faults' = faults
  /\ missed' = missed /\ left' = left

LEMMA CachesStep ==
  ASSUME BInv, NEW c \in Clients, NEW b \in Blocks, Quiet(c, b), call' = call
  PROVE  BInv'
<1>1. StepOn(c, b)
  BY DEF StepOn, Quiet
<1>2. TypeOK'
  BY DEF BInv, TypeOK, Quiet
<1>3. Fits(c)' /\ captured'[b] \subseteq Table(b)' /\ IsRead(b)'
  BY DEF BInv, Quiet, Fits, Table, IsRead, InCall
<1>4. Counted(b)' = Counted(b)
  BY DEF Quiet, Counted, Table, InCall, Uncounted
<1>5. \A p \in Pairs \ missed' : Accounted(p)'
  BY <1>1, <1>4, HoldersKeep DEF BInv, Quiet
<1>. QED BY <1>1, <1>2, <1>3, <1>5, StepInv

(* A call begins: it has given nothing back, and what it will ask for is   *)
(* not in the table.                                                       *)
LEMMA CallStarts ==
  ASSUME BInv, NEW c \in Clients, NEW b \in Blocks, Quiet(c, b),
         call'[c] \in Calls, call'[c] # Idle, call'[c].block = b,
         call' = [call EXCEPT ![c] = call'[c]],
         Uncounted(call[c])' \cap Table(b) = {},
         Fits(c)'
  PROVE  BInv'
<1>1. StepOn(c, b)
  BY DEF StepOn, Quiet, BInv, TypeOK
<1>2. TypeOK'
  <2>1. call' \in [Clients -> Calls]
    BY DEF BInv, TypeOK
  <2>. QED BY <2>1 DEF BInv, TypeOK, Quiet
<1>3. Table(b)' = Table(b)
  BY DEF Quiet, Table
<1>4. captured'[b] \subseteq Table(b)' /\ IsRead(b)'
  <2>1. InCall(c, b)'
    BY DEF InCall
  <2>2. captured'[b] = captured[b] /\ captured[b] \subseteq Table(b)
    BY DEF Quiet, BInv
  <2>. QED BY <1>3, <2>1, <2>2 DEF IsRead
<1>5. Counted(b)' = Counted(b)
  <2>1. Counted(b) = Table(b)
    BY <1>1, OwnCounted DEF Quiet
  <2>2. Counted(b)' = Table(b)' \ Uncounted(call[c])'
    BY <1>1, OwnCounted
  <2>. QED BY <1>3, <2>1, <2>2
<1>6. \A p \in Pairs \ missed' : Accounted(p)'
  BY <1>1, <1>5, HoldersKeep DEF BInv, Quiet
<1>. QED BY <1>1, <1>2, <1>4, <1>6, StepInv

(* Between calls, a block reads its table.                                 *)
LEMMA IdleReads ==
  ASSUME BInv, NEW c \in Clients, NEW b \in Blocks, owner[b] = c,
         call[c] = Idle
  PROVE  /\ captured[b] \subseteq Table(b)
         /\ Table(b) \ missed \subseteq captured[b]
<1>1. \A d \in Clients : ~InCall(d, b)
  BY DEF BInv, Fits, InCall
<1>. QED BY <1>1 DEF BInv, IsRead

LEMMA ReadyOwner ==
  ASSUME TypeOK, NEW b \in Blocks, Ready(b)
  PROVE  \E c \in Clients : owner[b] = c /\ call[c] = Idle
BY DEF Ready, TypeOK

LEMMA AddStep ==
  ASSUME BInv, NEW b \in Blocks, NEW ts \in SUBSET Topics,
         NEW is \in SUBSET Items, Add(b, ts, is)
  PROVE  BInv'
<1>1. PICK c \in Clients : owner[b] = c /\ call[c] = Idle
  BY ReadyOwner DEF Add, BInv
<1> DEFINE tdiff == (ts \cup topic_precache[b]) \ topics[b]
           idiff == (is \cup item_precache[b]) \ items[b]
           fresh == NewTopics(b, tdiff, is)
           late  == topics[b] \X idiff
<1>2. /\ topic_precache' = IF is \cup item_precache[b] \cup items[b] = {}
                           THEN [topic_precache EXCEPT ![b] = @ \cup tdiff]
                           ELSE topic_precache
      /\ item_precache' = IF tdiff = {} /\ topics[b] = {}
                          THEN [item_precache EXCEPT ![b] = @ \cup is]
                          ELSE item_precache
      /\ call' = IF fresh \cup late = {}
                 THEN call
                 ELSE [call EXCEPT ![owner[b]] = Adding(b, fresh, late)]
  BY DEF Add
<1>3. /\ topics[b] \in SUBSET Topics /\ items[b] \in SUBSET Items
      /\ topic_precache[b] \in SUBSET Topics
      /\ item_precache[b] \in SUBSET Items
  BY DEF BInv, TypeOK
<1>4. tdiff \in SUBSET Topics /\ idiff \in SUBSET Items
  BY <1>3
<1>5. fresh \in SUBSET Pairs /\ late \in SUBSET Pairs
  BY <1>3, <1>4 DEF NewTopics, Pairs
<1>6. Quiet(c, b)
  <2>1. topic_precache' \in [Blocks -> SUBSET Topics]
    BY <1>2, <1>4 DEF BInv, TypeOK
  <2>2. item_precache' \in [Blocks -> SUBSET Items]
    BY <1>2 DEF BInv, TypeOK
  <2>. QED BY <1>1, <2>1, <2>2 DEF Quiet, Add, tables
<1>7. CASE fresh \cup late = {}
  BY <1>2, <1>6, <1>7, CachesStep
<1>8. CASE fresh \cup late # {}
  <2>1. call' = [call EXCEPT ![c] = Adding(b, fresh, late)]
    BY <1>1, <1>2, <1>8
  <2>2. call'[c] = Adding(b, fresh, late)
    BY <2>1 DEF BInv, TypeOK
  <2>3. /\ Adding(b, fresh, late) \in Calls
        /\ Adding(b, fresh, late) # Idle
    BY <1>5, NewCalls
  <2>4. /\ call'[c].op = "add" /\ call'[c].block = b
        /\ call'[c].fresh = fresh /\ call'[c].late = late
    BY <2>2 DEF Adding
  <2>5. topics' = topics /\ items' = items /\ captured' = captured
        /\ missed' = missed /\ owner' = owner
    BY <1>6 DEF Quiet
  <2>6. (fresh \cup late) \cap Table(b) = {}
    BY DEF NewTopics, Table
  <2>7. captured[b] \subseteq Table(b) /\ Table(b) \ missed \subseteq captured[b]
    BY <1>1, IdleReads
  <2>8. \A t \in Topics, i \in Items :
          InGrid(call[c], t, i)' =>
            <<t, i>> \in captured[b] \cup missed \cup fresh \cup late
    <3> SUFFICES ASSUME NEW t \in Topics, NEW i \in Items,
                        t \in topics[b]
                          \/ \E j \in Items : <<t, j>> \in fresh \cup late,
                        i \in items[b]
                          \/ \E u \in Topics : <<u, i>> \in fresh \cup late
                 PROVE  <<t, i>> \in captured[b] \cup missed \cup fresh \cup late
      BY <2>4, <2>5 DEF InGrid, Pending
    <3>1. t \in topics[b] \/ t \in tdiff
      BY DEF NewTopics
    <3>2. i \in items[b] \/ i \in idiff
      BY DEF NewTopics
    <3>3. CASE t \in tdiff
      BY <3>2, <3>3 DEF NewTopics
    <3>4. CASE t \in topics[b] /\ i \in idiff
      BY <3>4
    <3>5. CASE t \in topics[b] /\ i \in items[b]
      BY <2>7, <3>5 DEF Table
    <3>. QED BY <3>1, <3>2, <3>3, <3>4, <3>5
  <2>9. AddFits(call[c])'
    <3>1. \A t \in Topics, i \in Items : <<t, i>> \in late => t \in topics[b]
      OBVIOUS
    <3>2. Pending(call[c])' \cap captured'[b] = {}
      BY <2>4, <2>5, <2>6, <2>7 DEF Pending
    <3> HIDE DEF tdiff, idiff, fresh, late
    <3>. QED BY <2>4, <2>5, <2>8, <3>1, <3>2 DEF AddFits, Pending
  <2>10. Fits(c)'
    BY <1>1, <2>4, <2>5, <2>9 DEF Fits
  <2>11. Uncounted(call[c])' \cap Table(b) = {}
    BY <2>4, <2>6 DEF Uncounted
  <2> HIDE DEF tdiff, idiff, fresh, late
  <2>. QED BY <1>6, <2>1, <2>2, <2>3, <2>4, <2>10, <2>11, CallStarts
<1>. QED BY <1>7, <1>8

(* The pairs of a block's table that have one of ts or one of is.          *)
Takes(b, ts, is, todo) ==
  \A t \in topics[b], i \in items[b] :
    t \in ts \/ i \in is <=> <<t, i>> \in todo

(* A removal of the topics ts and the items is, or of all.                 *)
LEMMA RemovalStarts ==
  ASSUME BInv, NEW c \in Clients, NEW b \in Blocks, Quiet(c, b),
         NEW ts \in SUBSET Topics, NEW is \in SUBSET Items, NEW todo,
         todo \subseteq Table(b),
         \/ /\ call' = [call EXCEPT ![c] = Removing(b, ts, is, {}, todo)]
            /\ Takes(b, ts, is, todo)
         \/ /\ call' = [call EXCEPT ![c] = Closing(b, {}, todo)]
            /\ todo = Table(b)
  PROVE  BInv'
<1>1. topics[b] \in SUBSET Topics /\ items[b] \in SUBSET Items
  BY DEF BInv, TypeOK
<1>2. todo \in SUBSET Pairs
  BY <1>1 DEF Table, Pairs
<1>3. PICK k : /\ k \in {Removing(b, ts, is, {}, todo), Closing(b, {}, todo)}
               /\ call' = [call EXCEPT ![c] = k]
  OBVIOUS
<1>4. k \in Calls /\ k # Idle
  BY <1>2, <1>3, NewCalls
<1>5. call'[c] = k /\ call' = [call EXCEPT ![c] = call'[c]]
  BY <1>3 DEF BInv, TypeOK
<1>6. /\ k.block = b /\ k.done = {} /\ k.todo = todo
      /\ k.op \in {"remove", "close"}
  BY <1>3 DEF Removing, Closing
<1>7. topics' = topics /\ items' = items /\ captured' = captured
      /\ missed' = missed /\ owner' = owner /\ owner[b] = c
  BY DEF Quiet
<1>8. captured[b] \subseteq Table(b) /\ Table(b) \ missed \subseteq captured[b]
  BY IdleReads DEF Quiet
<1>9. DoneFits(call[c])'
  BY <1>5, <1>6, <1>7, <1>8 DEF DoneFits, Table
<1>10. call'[c].op = "remove" => RemoveFits(call[c])' /\ Taken(call[c])'
  <2> SUFFICES ASSUME call'[c].op = "remove"
               PROVE  RemoveFits(call[c])' /\ Taken(call[c])'
    OBVIOUS
  <2>1. \/ /\ call' = [call EXCEPT ![c] = Closing(b, {}, todo)]
           /\ call'[c].op = "close"
        \/ /\ call' = [call EXCEPT ![c] = Removing(b, ts, is, {}, todo)]
           /\ Takes(b, ts, is, todo)
    BY DEF BInv, TypeOK, Closing
  <2>2. call'[c].topics = ts /\ call'[c].items = is
    BY <2>1 DEF BInv, TypeOK, Removing
  <2>3. Takes(b, ts, is, todo)
    BY <2>1
  <2>. QED BY <1>5, <1>6, <1>7, <2>2, <2>3 DEF Takes, RemoveFits, Taken, Table
<1>11. call'[c].op = "close" => Table(b)' \subseteq todo
  <2>1. Removing(b, ts, is, {}, todo).op # "close"
    BY DEF Removing
  <2>. QED BY <1>5, <1>7, <2>1 DEF BInv, TypeOK, Table
<1>12. Fits(c)'
  BY <1>5, <1>6, <1>7, <1>9, <1>10, <1>11 DEF Fits
<1>13. Uncounted(call[c])' \cap Table(b) = {}
  BY <1>5, <1>6 DEF Uncounted
<1>. QED BY <1>4, <1>5, <1>6, <1>12, <1>13, CallStarts

LEMMA RemoveTopicStep ==
  ASSUME BInv, NEW b \in Blocks, RemoveTopic(b)
  PROVE  BInv'
<1>1. PICK c \in Clients : owner[b] = c /\ call[c] = Idle
  BY ReadyOwner DEF RemoveTopic, BInv
<1>2. PICK t \in topics[b] \cup topic_precache[b] :
        IF t \in topics[b]
        THEN /\ call' = [call EXCEPT ![c] =
                           Removing(b, {t}, {}, {}, {t} \X items[b])]
             /\ topic_precache' = topic_precache
        ELSE /\ topic_precache' = [topic_precache EXCEPT ![b] = @ \ {t}]
             /\ call' = call
  BY <1>1 DEF RemoveTopic
<1>3. Quiet(c, b)
  <2>1. topic_precache' \in [Blocks -> SUBSET Topics]
    BY <1>2 DEF BInv, TypeOK
  <2>. QED BY <1>1, <2>1 DEF Quiet, RemoveTopic, tables, BInv, TypeOK
<1>4. topics[b] \in SUBSET Topics
  BY DEF BInv, TypeOK
<1>5. CASE t \in topics[b]
  <2>1. {t} \X items[b] \subseteq Table(b)
    BY <1>5 DEF Table
  <2>2. Takes(b, {t}, {}, {t} \X items[b])
    BY DEF Takes
  <2>3. call' = [call EXCEPT ![c] = Removing(b, {t}, {}, {}, {t} \X items[b])]
    BY <1>2, <1>5
  <2>4. {t} \in SUBSET Topics /\ {} \in SUBSET Items
    BY <1>4, <1>5
  <2>. QED BY <1>3, <2>1, <2>2, <2>3, <2>4, RemovalStarts
<1>6. CASE t \notin topics[b]
  BY <1>2, <1>3, <1>6, CachesStep
<1>. QED BY <1>5, <1>6

LEMMA RemoveItemStep ==
  ASSUME BInv, NEW b \in Blocks, RemoveItem(b)
  PROVE  BInv'
<1>1. PICK c \in Clients : owner[b] = c /\ call[c] = Idle
  BY ReadyOwner DEF RemoveItem, BInv
<1>2. PICK i \in items[b] \cup item_precache[b] :
        IF i \in items[b]
        THEN /\ call' = [call EXCEPT ![c] =
                           Removing(b, {}, {i}, {}, topics[b] \X {i})]
             /\ item_precache' = item_precache
        ELSE /\ item_precache' = [item_precache EXCEPT ![b] = @ \ {i}]
             /\ call' = call
  BY <1>1 DEF RemoveItem
<1>3. Quiet(c, b)
  <2>1. item_precache' \in [Blocks -> SUBSET Items]
    BY <1>2 DEF BInv, TypeOK
  <2>. QED BY <1>1, <2>1 DEF Quiet, RemoveItem, tables, BInv, TypeOK
<1>4. items[b] \in SUBSET Items
  BY DEF BInv, TypeOK
<1>5. CASE i \in items[b]
  <2>1. topics[b] \X {i} \subseteq Table(b)
    BY <1>5 DEF Table
  <2>2. Takes(b, {}, {i}, topics[b] \X {i})
    BY DEF Takes
  <2>3. call' = [call EXCEPT ![c] = Removing(b, {}, {i}, {}, topics[b] \X {i})]
    BY <1>2, <1>5
  <2>4. {} \in SUBSET Topics /\ {i} \in SUBSET Items
    BY <1>4, <1>5
  <2>. QED BY <1>3, <2>1, <2>2, <2>3, <2>4, RemovalStarts
<1>6. CASE i \notin items[b]
  BY <1>2, <1>3, <1>6, CachesStep
<1>. QED BY <1>5, <1>6

LEMMA CloseBlockStep ==
  ASSUME BInv, NEW b \in Blocks, CloseBlock(b)
  PROVE  BInv'
<1>1. PICK c \in Clients : owner[b] = c /\ call[c] = Idle
  BY ReadyOwner DEF CloseBlock, BInv
<1>2. Quiet(c, b)
  BY <1>1 DEF Quiet, CloseBlock, tables, caches, BInv, TypeOK
<1>3. call' = [call EXCEPT ![c] = Closing(b, {}, Table(b))]
  BY <1>1 DEF CloseBlock
<1>. QED BY <1>2, <1>3, RemovalStarts

-----------------------------------------------------------------------------

(* What an Add under way knows, between two messages or before a capture.  *)
LEMMA AddKnows ==
  ASSUME BInv, NEW c \in Clients, call[c].op \in {"add", "capture"}
  PROVE  \E b \in Blocks, fresh \in SUBSET Pairs, late \in SUBSET Pairs :
           /\ call[c] # Idle /\ owner[b] = c
           /\ call[c].block = b /\ call[c].fresh = fresh /\ call[c].late = late
           /\ (fresh \cup late) \cap captured[b] = {}
           /\ captured[b] \subseteq Table(b)
           /\ \A t \in Topics, i \in Items :
                /\ <<t, i>> \in late => t \in topics[b]
                /\ InGrid(call[c], t, i) =>
                     \/ <<t, i>> \in captured[b] \cup missed \cup fresh \cup late
                     \/ call[c].op = "capture" /\ call[c].pair = <<t, i>>
           /\ call[c].op = "capture" =>
                /\ call[c].pair \in Pairs
                /\ call[c].pair \in Table(b)
                /\ call[c].pair \notin fresh \cup late
<1>1. call[c] # Idle /\ call[c] \in Calls
  BY DEF Idle, BInv, TypeOK
<1>2. /\ call[c].block \in Blocks /\ call[c].fresh \in SUBSET Pairs
      /\ call[c].late \in SUBSET Pairs
      /\ call[c].op = "capture" => call[c].pair \in Pairs
  BY <1>1, CallKinds
<1>3. /\ owner[call[c].block] = c /\ AddFits(call[c])
      /\ call[c].op = "capture" => CaptureFits(call[c])
  BY <1>1 DEF BInv, Fits
<1>4. captured[call[c].block] \subseteq Table(call[c].block)
  BY <1>2 DEF BInv
<1>. QED BY <1>1, <1>2, <1>3, <1>4 DEF AddFits, CaptureFits, Pending

LEMMA AddOneStep ==
  ASSUME BInv, NEW c \in Clients, AddOne(c)
  PROVE  BInv'
<1>1. PICK b \in Blocks, fresh \in SUBSET Pairs, late \in SUBSET Pairs :
        /\ call[c] # Idle /\ owner[b] = c
        /\ call[c].block = b /\ call[c].fresh = fresh /\ call[c].late = late
        /\ (fresh \cup late) \cap captured[b] = {}
        /\ captured[b] \subseteq Table(b)
        /\ \A t \in Topics, i \in Items :
             /\ <<t, i>> \in late => t \in topics[b]
             /\ InGrid(call[c], t, i) =>
                  <<t, i>> \in captured[b] \cup missed \cup fresh \cup late
  BY AddKnows DEF AddOne
<1>2. PICK p \in fresh \cup late :
        /\ fresh = {} \/ p \in fresh
        /\ refs' = Raised(p)
        /\ items' = [items EXCEPT ![b] = @ \cup {p[2]}]
        /\ IF fresh # {}
           THEN /\ topics' = [topics EXCEPT ![b] = @ \cup {p[1]}]
                /\ ClearPreCache(b)
           ELSE UNCHANGED <<topics, caches>>
        /\ call' = [call EXCEPT ![c] = Capturing(b, p, fresh \ {p}, late \ {p})]
  <2>1. PICK p \in Nexts(call[c]) :
          /\ refs' = Raised(p)
          /\ items' = [items EXCEPT ![call[c].block] = @ \cup {p[2]}]
          /\ IF call[c].fresh # {}
             THEN /\ topics' = [topics EXCEPT ![call[c].block] = @ \cup {p[1]}]
                  /\ ClearPreCache(call[c].block)
             ELSE UNCHANGED <<topics, caches>>
          /\ call' = [call EXCEPT ![c] = Capturing(call[c].block, p,
                         call[c].fresh \ {p}, call[c].late \ {p})]
    BY DEF AddOne
  <2>2. p \in fresh \cup late /\ (fresh = {} \/ p \in fresh)
    BY <1>1, <2>1 DEF Nexts
  <2>3. call[c].fresh = fresh /\ call[c].late = late /\ call[c].block = b
    BY <1>1
  <2>. QED BY <2>1, <2>2, <2>3
<1>3. /\ owner' = owner /\ captured' = captured /\ dead' = dead
      /\ faults' = faults /\ missed' = missed /\ left' = left
  BY DEF AddOne
<1>4. PICK t \in Topics, i \in Items : p = <<t, i>>
  BY DEF Pairs
<1>5. /\ topics \in [Blocks -> SUBSET Topics] /\ items \in [Blocks -> SUBSET Items]
      /\ refs \in [Pairs -> Nat] /\ left \in [Pairs -> Nat]
      /\ call \in [Clients -> Calls]
  BY DEF BInv, TypeOK
<1>6. t \in topics[b] \/ topics' = [topics EXCEPT ![b] = @ \cup {t}]
  BY <1>1, <1>2, <1>4
<1>7. /\ items' = [items EXCEPT ![b] = @ \cup {i}]
      /\ topics' \in {topics, [topics EXCEPT ![b] = @ \cup {t}]}
  BY <1>2, <1>4
<1>8. /\ topics'[b] = topics[b] \cup {t} /\ items'[b] = items[b] \cup {i}
  BY <1>5, <1>6, <1>7
<1>9. /\ call'[c].op = "capture" /\ call'[c].block = b /\ call'[c].pair = p
      /\ call'[c].fresh = fresh \ {p} /\ call'[c].late = late \ {p}
      /\ call'[c] # Idle
  BY <1>2, <1>5 DEF Capturing, Idle
<1>10. StepOn(c, b)
  BY <1>1, <1>2, <1>3, <1>5, <1>7, <1>9 DEF StepOn
<1>11. TypeOK'
  <2>1. call' \in [Clients -> Calls]
    BY <1>2, <1>5, NewCalls
  <2>2. topics' \in [Blocks -> SUBSET Topics] /\ items' \in [Blocks -> SUBSET Items]
    BY <1>5, <1>7
  <2>3. refs' \in [Pairs -> Nat]
    BY <1>2, <1>5 DEF Raised
  <2>4. /\ topic_precache' \in [Blocks -> SUBSET Topics]
        /\ item_precache' \in [Blocks -> SUBSET Items]
    BY <1>2 DEF BInv, TypeOK, ClearPreCache, caches
  <2>. QED BY <1>3, <2>1, <2>2, <2>3, <2>4 DEF BInv, TypeOK
(* A pair of the table was in the grid before.                             *)
<1>12. \A u \in Topics, j \in Items :
         InGrid(call[c], u, j)' => InGrid(call[c], u, j)
  <2> SUFFICES ASSUME NEW u \in Topics, NEW j \in Items,
                      InGrid(call[c], u, j)'
               PROVE  InGrid(call[c], u, j)
    OBVIOUS
  <2>1. <<t, i>> \in fresh \cup late
    BY <1>2, <1>4
  <2>2. u \in topics[b] \/ \E l \in Items : <<u, l>> \in fresh \cup late
    BY <1>8, <1>9, <2>1 DEF InGrid, Pending
  <2>3. j \in items[b] \/ \E v \in Topics : <<v, j>> \in fresh \cup late
    BY <1>8, <1>9, <2>1 DEF InGrid, Pending
  <2>. QED BY <1>1, <2>2, <2>3 DEF InGrid, Pending
<1>13. \A u \in Topics, j \in Items :
         InGrid(call[c], u, j)' =>
           \/ <<u, j>> \in captured[b] \cup missed
           \/ <<u, j>> \in (fresh \ {p}) \cup (late \ {p})
           \/ <<u, j>> = p
  BY <1>1, <1>12
<1>14. AddFits(call[c])'
  BY <1>1, <1>3, <1>8, <1>9, <1>13 DEF AddFits, Pending
<1>15. Table(b)' = (topics[b] \cup {t}) \X (items[b] \cup {i})
  BY <1>8 DEF Table
<1>16. p \in Table(b)' /\ Table(b) \subseteq Table(b)'
  BY <1>4, <1>15 DEF Table
<1>17. Fits(c)'
  BY <1>1, <1>3, <1>9, <1>14, <1>16 DEF Fits, CaptureFits, Pending
<1>18. captured'[b] \subseteq Table(b)' /\ IsRead(b)'
  <2>1. InCall(c, b)'
    BY <1>9 DEF InCall
  <2>. QED BY <1>1, <1>3, <1>16, <2>1 DEF IsRead
<1>19. /\ Counted(b) = Table(b) \ (fresh \cup late)
       /\ Counted(b)' = Table(b)' \ ((fresh \cup late) \ {p})
  <2>1. Uncounted(call[c]) = fresh \cup late
    BY <1>1 DEF Uncounted, AddOne
  <2>2. Uncounted(call[c])' = (fresh \cup late) \ {p}
    BY <1>9 DEF Uncounted
  <2>3. Counted(b) = Table(b) \ Uncounted(call[c])
    BY <1>1, <1>10, OwnCounted DEF InCall
  <2>4. Counted(b)' = Table(b)' \ Uncounted(call[c])'
    BY <1>9, <1>10, OwnCounted
  <2>. QED BY <2>1, <2>2, <2>3, <2>4
<1>20. ASSUME NEW q \in Pairs \ missed
       PROVE  Accounted(q)'
  <2>1. Accounted(q)
    BY DEF BInv
  <2>2. CASE q = p
    <3>1. p \in Counted(b)' /\ p \notin Counted(b)
      BY <1>16, <1>19
    <3>2. refs'[p] = refs[p] + 1 /\ left'[p] = left[p]
      BY <1>2, <1>3, <1>5, <2>2 DEF Raised
    <3>. QED BY <1>10, <2>1, <2>2, <3>1, <3>2, HoldersGain DEF BInv
  <2>3. CASE q # p
    <3>1. refs'[q] = refs[q] /\ left'[q] = left[q]
      BY <1>2, <1>3, <1>5, <2>3 DEF Raised
    <3>2. q \in Counted(b)' <=> q \in Counted(b)
      <4>1. PICK u \in Topics, j \in Items : q = <<u, j>>
        BY DEF Pairs
      <4>2. q \in Table(b)' => InGrid(call[c], u, j)'
        BY <1>8, <1>9, <1>15, <4>1 DEF InGrid
      <4>3. q \in Table(b)' /\ q \notin fresh \cup late => q \in captured[b]
        BY <1>13, <2>3, <4>1, <4>2
      <4>. QED BY <1>1, <1>16, <1>19, <2>3, <4>3
    <3>. QED BY <1>10, <2>1, <3>1, <3>2, HoldersKeep
  <2>. QED BY <2>2, <2>3
<1>. QED BY <1>3, <1>10, <1>11, <1>17, <1>18, <1>20, StepInv

(* In the next state, an Add with the pairs fresh and late to ask for      *)
(* leaves out no pair of the topics and items it works on.                 *)
LeavesOutNone(b, fresh, late) ==
  /\ (fresh \cup late) \cap captured'[b] = {}
  /\ captured'[b] \subseteq Table(b)
  /\ \A t \in Topics, i \in Items :
       /\ <<t, i>> \in late => t \in topics[b]
       /\ /\ t \in topics[b] \/ \E j \in Items : <<t, j>> \in fresh \cup late
          /\ i \in items[b] \/ \E s \in Topics : <<s, i>> \in fresh \cup late
          => <<t, i>> \in captured'[b] \cup missed' \cup fresh \cup late

(* An Add goes on with the pairs fresh and late, or ends.                  *)
Continues(c, b, fresh, late) ==
  /\ StepOn(c, b) /\ LeavesOutNone(b, fresh, late)
  /\ owner[b] = c /\ owner' = owner /\ topics' = topics /\ items' = items
  /\ call'[c] = GoOn(b, fresh, late)

Continued(c, b, fresh, late) ==
  /\ Fits(c)' /\ captured'[b] \subseteq Table(b)' /\ IsRead(b)'
  /\ Counted(b)' = Table(b) \ (fresh \cup late)

LEMMA GoesOn ==
  ASSUME BInv, NEW c \in Clients, NEW b \in Blocks,
         NEW fresh \in SUBSET Pairs, NEW late \in SUBSET Pairs,
         Continues(c, b, fresh, late)
  PROVE  Continued(c, b, fresh, late)
<1>. /\ StepOn(c, b) /\ LeavesOutNone(b, fresh, late)
     /\ owner[b] = c /\ owner' = owner /\ topics' = topics /\ items' = items
     /\ call'[c] = GoOn(b, fresh, late)
  BY DEF Continues
<1>1. Table(b)' = Table(b) /\ captured'[b] \subseteq Table(b)
  BY DEF Table, LeavesOutNone
<1>2. CASE fresh \cup late = {}
  <2>1. call'[c] = Idle
    BY <1>2 DEF GoOn
  <2>2. Table(b) \subseteq captured'[b] \cup missed'
    <3> SUFFICES ASSUME NEW t \in topics[b], NEW i \in items[b]
                 PROVE  <<t, i>> \in captured'[b] \cup missed'
      BY DEF Table
    <3>1. t \in Topics /\ i \in Items
      BY DEF BInv, TypeOK
    <3>. QED BY <1>2, <3>1 DEF LeavesOutNone
  <2>3. Counted(b)' = Table(b)'
    BY <2>1, OwnCounted
  <2>. QED BY <1>1, <1>2, <2>1, <2>2, <2>3 DEF Continued, Fits, IsRead
<1>3. CASE fresh \cup late # {}
  <2>1. call'[c] = Adding(b, fresh, late) /\ call'[c] # Idle
    BY <1>3, NewCalls DEF GoOn
  <2>2. /\ call'[c].op = "add" /\ call'[c].block = b
        /\ call'[c].fresh = fresh /\ call'[c].late = late
    BY <2>1 DEF Adding
  <2>3. AddFits(call[c])'
    BY <2>2 DEF LeavesOutNone, AddFits, InGrid, Pending
  <2>4. Fits(c)'
    BY <2>2, <2>3 DEF Fits
  <2>5. IsRead(b)'
    BY <2>1, <2>2 DEF IsRead, InCall
  <2>6. Uncounted(call[c])' = fresh \cup late
    BY <2>2 DEF Uncounted
  <2>7. Counted(b)' = Table(b)' \ Uncounted(call[c])'
    BY <2>1, OwnCounted
  <2>. QED BY <1>1, <2>4, <2>5, <2>6, <2>7 DEF Continued
<1>. QED BY <1>2, <1>3

LEMMA AddOneFailsStep ==
  ASSUME BInv, NEW c \in Clients, AddOneFails(c)
  PROVE  BInv'
<1>1. PICK b \in Blocks, fresh \in SUBSET Pairs, late \in SUBSET Pairs :
        /\ call[c] # Idle /\ owner[b] = c
        /\ call[c].block = b /\ call[c].fresh = fresh /\ call[c].late = late
        /\ (fresh \cup late) \cap captured[b] = {}
        /\ captured[b] \subseteq Table(b)
        /\ \A t \in Topics, i \in Items :
             /\ <<t, i>> \in late => t \in topics[b]
             /\ InGrid(call[c], t, i) =>
                  <<t, i>> \in captured[b] \cup missed \cup fresh \cup late
  <2>1. call[c].op = "add"
    BY DEF AddOneFails
  <2>. QED BY <2>1, AddKnows
<1>2. PICK p \in fresh \cup late :
        /\ refs' \in {refs, Raised(p)}
        /\ Miss({p})
        /\ call' = [call EXCEPT ![c] = GoOn(b, fresh \ {p}, late \ {p})]
  BY <1>1 DEF AddOneFails, Nexts
<1>3. /\ owner' = owner /\ captured' = captured /\ dead' = dead
      /\ topics' = topics /\ items' = items
      /\ topic_precache' = topic_precache /\ item_precache' = item_precache
      /\ faults' = faults + 1 /\ faults < MaxFaults
  BY DEF AddOneFails, tables, caches
<1>4. /\ refs \in [Pairs -> Nat] /\ left \in [Pairs -> Nat]
      /\ call \in [Clients -> Calls] /\ p \in Pairs
  BY DEF BInv, TypeOK
<1>5. missed' = missed \cup {p} /\ left' = [q \in Pairs |-> IF q \in {p} THEN 0 ELSE left[q]]
  BY <1>2 DEF Miss
<1>6. call'[c] = GoOn(b, fresh \ {p}, late \ {p})
  BY <1>2, <1>4
<1>7. GoOn(b, fresh \ {p}, late \ {p}) \in Calls
  BY NewCalls
<1>8. StepOn(c, b)
  <2>1. call'[c] # Idle => call'[c].block = b
    BY <1>6 DEF GoOn, Adding
  <2>. QED BY <1>1, <1>2, <1>3, <1>4, <1>5, <2>1 DEF StepOn
<1>9. TypeOK'
  <2>1. call' \in [Clients -> Calls]
    BY <1>2, <1>4, <1>7
  <2>2. refs' \in [Pairs -> Nat]
    BY <1>2, <1>4 DEF Raised
  <2>3. left' \in [Pairs -> Nat]
    BY <1>4, <1>5
  <2>4. faults' \in 0 .. MaxFaults
    BY <1>3, BlocksAssumption DEF BInv, TypeOK
  <2>. QED BY <1>3, <1>4, <1>5, <2>1, <2>2, <2>3, <2>4 DEF BInv, TypeOK
<1>10. LeavesOutNone(b, fresh \ {p}, late \ {p})
  <2>1. /\ ((fresh \ {p}) \cup (late \ {p})) \cap captured'[b] = {}
        /\ captured'[b] \subseteq Table(b)
    BY <1>1, <1>3
  <2>. QED BY <1>1, <1>3, <1>5, <2>1 DEF LeavesOutNone, InGrid, Pending
<1>11. /\ Fits(c)' /\ captured'[b] \subseteq Table(b)' /\ IsRead(b)'
       /\ Counted(b)' = Table(b) \ ((fresh \ {p}) \cup (late \ {p}))
  <2>1. owner[b] = c /\ fresh \ {p} \in SUBSET Pairs /\ late \ {p} \in SUBSET Pairs
    BY <1>1
  <2>2. Continues(c, b, fresh \ {p}, late \ {p})
    BY <1>3, <1>6, <1>8, <1>10, <2>1 DEF Continues
  <2>3. Continued(c, b, fresh \ {p}, late \ {p})
    BY <2>1, <2>2, GoesOn
  <2>. QED BY <2>3 DEF Continued
<1>12. Counted(b) = Table(b) \ (fresh \cup late)
  <2>1. Counted(b) = Table(b) \ Uncounted(call[c])
    BY <1>1, <1>8, OwnCounted DEF InCall
  <2>. QED BY <1>1, <2>1 DEF Uncounted, AddOneFails
<1>13. ASSUME NEW q \in Pairs \ missed'
       PROVE  Accounted(q)'
  <2>1. Accounted(q) /\ q # p
    BY <1>5 DEF BInv
  <2>2. refs'[q] = refs[q] /\ left'[q] = left[q]
    BY <1>2, <1>4, <1>5, <2>1 DEF Raised
  <2>3. q \in Counted(b)' <=> q \in Counted(b)
    BY <1>11, <1>12, <2>1
  <2>. QED BY <1>8, <2>1, <2>2, <2>3, HoldersKeep
<1>. QED BY <1>8, <1>9, <1>11, <1>13, StepInv

LEMMA CaptureStep ==
  ASSUME BInv, NEW c \in Clients, Capture(c)
  PROVE  BInv'
<1>1. PICK b \in Blocks, fresh \in SUBSET Pairs, late \in SUBSET Pairs :
        /\ call[c] # Idle /\ owner[b] = c
        /\ call[c].block = b /\ call[c].fresh = fresh /\ call[c].late = late
        /\ (fresh \cup late) \cap captured[b] = {}
        /\ captured[b] \subseteq Table(b)
        /\ \A t \in Topics, i \in Items :
             /\ <<t, i>> \in late => t \in topics[b]
             /\ InGrid(call[c], t, i) =>
                  \/ <<t, i>> \in captured[b] \cup missed \cup fresh \cup late
                  \/ call[c].pair = <<t, i>>
        /\ call[c].pair \in Pairs
        /\ call[c].pair \in Table(b)
        /\ call[c].pair \notin fresh \cup late
  BY AddKnows DEF Capture
<1>2. PICK p \in Pairs : call[c].pair = p
  BY <1>1
<1>3. /\ owner' = owner /\ dead' = dead /\ refs' = refs
      /\ topics' = topics /\ items' = items /\ faults' = faults
      /\ topic_precache' = topic_precache /\ item_precache' = item_precache
  BY DEF Capture, tables, caches
<1>4. /\ left \in [Pairs -> Nat] /\ call \in [Clients -> Calls]
      /\ captured \in [Blocks -> SUBSET Pairs]
  BY DEF BInv, TypeOK
<1>5. Counted(b) = Table(b) \ (fresh \cup late) \/ ~StepOn(c, b)
  <2>1. Uncounted(call[c]) = fresh \cup late
    BY <1>1 DEF Uncounted, Capture
  <2>. QED BY <1>1, <2>1, OwnCounted DEF InCall
<1>6. CASE p \in Local(c) \/ refs[p] > 0
  <2>1. /\ captured' = [captured EXCEPT ![b] = @ \cup {p}]
        /\ call' = [call EXCEPT ![c] = GoOn(b, fresh, late)]
        /\ missed' = missed /\ left' = left
    BY <1>1, <1>2, <1>6 DEF Capture
  <2>2. call'[c] = GoOn(b, fresh, late) /\ GoOn(b, fresh, late) \in Calls
    BY <1>4, <2>1, NewCalls
  <2>3. captured'[b] = captured[b] \cup {p}
    BY <1>4, <2>1
  <2>4. StepOn(c, b)
    <3>1. call'[c] # Idle => call'[c].block = b
      BY <2>2 DEF GoOn, Adding
    <3>. QED BY <1>1, <1>3, <1>4, <2>1, <3>1 DEF StepOn
  <2>5. TypeOK'
    <3>1. call' \in [Clients -> Calls]
      BY <1>4, <2>1, <2>2
    <3>2. captured' \in [Blocks -> SUBSET Pairs]
      BY <1>4, <2>1
    <3>. QED BY <1>3, <2>1, <3>1, <3>2 DEF BInv, TypeOK
  <2>6. (fresh \cup late) \cap captured'[b] = {} /\ captured'[b] \subseteq Table(b)
    BY <1>1, <1>2, <2>3
  <2>7. LeavesOutNone(b, fresh, late)
    BY <1>1, <1>2, <2>1, <2>3, <2>6 DEF LeavesOutNone, InGrid, Pending
  <2>8. /\ Fits(c)' /\ captured'[b] \subseteq Table(b)' /\ IsRead(b)'
        /\ Counted(b)' = Table(b) \ (fresh \cup late)
    <3>1. Continues(c, b, fresh, late)
      BY <1>1, <1>3, <2>2, <2>4, <2>7 DEF Continues
    <3>2. Continued(c, b, fresh, late)
      BY <3>1, GoesOn
    <3>. QED BY <3>2 DEF Continued
  <2>9. \A q \in Pairs \ missed' : Accounted(q)'
    BY <1>3, <1>5, <2>1, <2>4, <2>8, HoldersKeep DEF BInv
  <2>. QED BY <2>4, <2>5, <2>8, <2>9, StepInv
<1>7. CASE ~(p \in Local(c) \/ refs[p] > 0)
  <2>1. /\ captured' = captured
        /\ call' = [call EXCEPT ![c] = Idle]
        /\ Miss({p} \cup fresh \cup late)
    BY <1>1, <1>2, <1>7 DEF Capture
  <2>2. call'[c] = Idle /\ Idle = GoOn(b, {}, {})
    BY <1>4, <2>1 DEF GoOn
  <2>3. /\ missed' = missed \cup {p} \cup fresh \cup late
        /\ left' = [q \in Pairs |-> IF q \in {p} \cup fresh \cup late
                                   THEN 0 ELSE left[q]]
    BY <2>1 DEF Miss
  <2>4. StepOn(c, b)
    BY <1>1, <1>3, <1>4, <2>1, <2>2, <2>3 DEF StepOn
  <2>5. TypeOK'
    <3>1. call' \in [Clients -> Calls]
      BY <1>4, <2>1, NewCalls
    <3>2. left' \in [Pairs -> Nat]
      BY <1>4, <2>3
    <3>. QED BY <1>3, <2>1, <2>3, <3>1, <3>2 DEF BInv, TypeOK
  <2>6. ({} \cup {}) \cap captured'[b] = {} /\ captured'[b] \subseteq Table(b)
    BY <1>1, <2>1
  <2>7. LeavesOutNone(b, {}, {})
    BY <1>1, <1>2, <2>1, <2>3, <2>6 DEF LeavesOutNone, InGrid, Pending
  <2>8. call'[c] = GoOn(b, {}, {}) /\ {} \in SUBSET Pairs
    BY <2>2
  <2>9. /\ Fits(c)' /\ captured'[b] \subseteq Table(b)' /\ IsRead(b)'
        /\ Counted(b)' = Table(b) \ ({} \cup {})
    <3>1. Continues(c, b, {}, {})
      BY <1>1, <1>3, <2>4, <2>7, <2>8 DEF Continues
    <3>2. Continued(c, b, {}, {})
      BY <2>8, <3>1, GoesOn
    <3>. QED BY <3>2 DEF Continued
  <2>10. ASSUME NEW q \in Pairs \ missed'
         PROVE  Accounted(q)'
    <3>1. Accounted(q) /\ refs'[q] = refs[q] /\ left'[q] = left[q]
      BY <1>3, <2>3 DEF BInv
    <3>2. q \in Counted(b)' <=> q \in Counted(b)
      BY <1>5, <2>3, <2>4, <2>9
    <3>. QED BY <2>4, <3>1, <3>2, HoldersKeep
  <2>. QED BY <2>4, <2>5, <2>9, <2>10, StepInv
<1>. QED BY <1>6, <1>7

-----------------------------------------------------------------------------

(* What a removal under way knows.                                         *)
LEMMA RemovalKnows ==
  ASSUME BInv, NEW c \in Clients, call[c].op \in {"remove", "close"}
  PROVE  \E b \in Blocks, done \in SUBSET Pairs, todo \in SUBSET Pairs :
           /\ call[c] # Idle /\ owner[b] = c
           /\ call[c].block = b /\ call[c].done = done /\ call[c].todo = todo
           /\ done \cap captured[b] = {} /\ done \cap todo = {}
           /\ todo \subseteq Table(b) /\ captured[b] \subseteq Table(b)
           /\ Table(b) \ (done \cup missed) \subseteq captured[b]
           /\ call[c].op = "remove" => RemoveFits(call[c]) /\ Taken(call[c])
           /\ call[c].op = "close" => Table(b) \subseteq done \cup todo
<1>1. call[c] # Idle /\ call[c] \in Calls
  BY DEF Idle, BInv, TypeOK
<1>2. /\ call[c].block \in Blocks /\ call[c].done \in SUBSET Pairs
      /\ call[c].todo \in SUBSET Pairs
  BY <1>1, CallKinds
<1>3. /\ owner[call[c].block] = c /\ DoneFits(call[c])
      /\ call[c].op = "remove" => RemoveFits(call[c]) /\ Taken(call[c])
      /\ call[c].op = "close" =>
           Table(call[c].block) \subseteq call[c].done \cup call[c].todo
  BY <1>1 DEF BInv, Fits
<1>4. captured[call[c].block] \subseteq Table(call[c].block)
  BY <1>2 DEF BInv
<1>. QED BY <1>1, <1>2, <1>3, <1>4 DEF DoneFits

(* The removal once it has given p back.                                   *)
Less(k, p) == [k EXCEPT !.done = @ \cup {p}, !.todo = @ \ {p}]

IsLess(n, k, p) ==
  /\ n \in Calls
  /\ n.op = k.op /\ n.block = k.block
  /\ n.done = k.done \cup {p} /\ n.todo = k.todo \ {p}
  /\ k.op = "remove" => n.topics = k.topics /\ n.items = k.items

LEMMA OneLess ==
  ASSUME NEW k \in Calls, k.op \in {"remove", "close"}, NEW p \in Pairs
  PROVE  IsLess(Less(k, p), k, p)
<1>1. CASE k \in [op : {"remove"}, block : Blocks, topics : SUBSET Topics,
                  items : SUBSET Items, done : SUBSET Pairs,
                  todo : SUBSET Pairs]
  BY <1>1 DEF Calls, Less, IsLess
<1>2. CASE k \in [op : {"close"}, block : Blocks, done : SUBSET Pairs,
                  todo : SUBSET Pairs]
  BY <1>2 DEF Calls, Less, IsLess
<1>. QED BY <1>1, <1>2 DEF Calls, Idle

LEMMA RemoveOneStep ==
  ASSUME BInv, NEW c \in Clients, RemoveOne(c)
  PROVE  BInv'
<1>1. PICK b \in Blocks, done \in SUBSET Pairs, todo \in SUBSET Pairs :
        /\ call[c] # Idle /\ owner[b] = c
        /\ call[c].block = b /\ call[c].done = done /\ call[c].todo = todo
        /\ done \cap captured[b] = {} /\ done \cap todo = {}
        /\ todo \subseteq Table(b) /\ captured[b] \subseteq Table(b)
        /\ Table(b) \ (done \cup missed) \subseteq captured[b]
        /\ call[c].op = "remove" => RemoveFits(call[c]) /\ Taken(call[c])
        /\ call[c].op = "close" => Table(b) \subseteq done \cup todo
  <2>1. call[c].op \in {"remove", "close"}
    BY DEF RemoveOne
  <2>. QED BY <2>1, RemovalKnows
<1>2. PICK p \in todo :
        /\ captured' = Released(b, p)
        /\ call' = [call EXCEPT ![c].done = @ \cup {p}, ![c].todo = @ \ {p}]
        /\ \/ /\ refs' = Dropped(p)
              /\ left' = left /\ faults' = faults
           \/ /\ faults < MaxFaults
              /\ faults' = faults + 1
              /\ left' = [left EXCEPT ![p] = IF p \in missed THEN 0 ELSE @ + 1]
              /\ refs' = refs
  BY <1>1 DEF RemoveOne
<1>3. /\ owner' = owner /\ dead' = dead /\ missed' = missed
      /\ topics' = topics /\ items' = items
      /\ topic_precache' = topic_precache /\ item_precache' = item_precache
      /\ call[c].op \in {"remove", "close"}
  BY DEF RemoveOne, tables, caches
<1>4. /\ refs \in [Pairs -> Nat] /\ left \in [Pairs -> Nat]
      /\ call \in [Clients -> Calls] /\ captured \in [Blocks -> SUBSET Pairs]
      /\ faults \in 0 .. MaxFaults /\ p \in Pairs
  BY DEF BInv, TypeOK
<1>5. call' = [call EXCEPT ![c] = Less(call[c], p)]
  BY <1>2, <1>4 DEF Less
<1>6. /\ call'[c] \in Calls /\ call' = [call EXCEPT ![c] = call'[c]]
      /\ call'[c].op = call[c].op /\ call'[c].block = b
      /\ call'[c].done = done \cup {p} /\ call'[c].todo = todo \ {p}
      /\ call[c].op = "remove" => /\ call'[c].topics = call[c].topics
                                 /\ call'[c].items = call[c].items
  <2>1. call'[c] = Less(call[c], p)
    BY <1>4, <1>5
  <2>2. call[c] \in Calls
    BY <1>4
  <2>3. IsLess(Less(call[c], p), call[c], p)
    BY <1>3, <1>4, <2>2, OneLess
  <2>4. call' = [call EXCEPT ![c] = call'[c]]
    BY <1>5, <2>1
  <2>. QED BY <1>1, <2>1, <2>3, <2>4 DEF IsLess
<1>7. call'[c] # Idle
  BY <1>3, <1>6 DEF Idle
<1>8. /\ captured'[b] = captured[b] \ {p}
      /\ captured' = [captured EXCEPT ![b] = captured[b] \ {p}]
  BY <1>2, <1>4 DEF Released
<1>9. StepOn(c, b)
  BY <1>1, <1>3, <1>4, <1>6, <1>7, <1>8 DEF StepOn
<1>10. TypeOK'
  <2>1. call' \in [Clients -> Calls]
    BY <1>4, <1>6
  <2>2. captured' \in [Blocks -> SUBSET Pairs]
    BY <1>4, <1>8
  <2>3. refs' \in [Pairs -> Nat]
    BY <1>2, <1>4 DEF Dropped
  <2>4. left' \in [Pairs -> Nat]
    <3>1. left' \in {left, [left EXCEPT ![p] = 0], [left EXCEPT ![p] = @ + 1]}
      BY <1>2
    <3>. QED BY <1>4, <3>1
  <2>5. faults' \in 0 .. MaxFaults
    BY <1>2, <1>4, BlocksAssumption
  <2>. QED BY <1>3, <2>1, <2>2, <2>3, <2>4, <2>5 DEF BInv, TypeOK
<1>11. Table(b)' = Table(b) /\ captured'[b] \subseteq Table(b)'
  BY <1>1, <1>3, <1>8 DEF Table
<1>12. Fits(c)'
  <2>1. DoneFits(call[c])'
    BY <1>1, <1>3, <1>6, <1>8, <1>11 DEF DoneFits
  <2>2. call[c].op = "remove" => RemoveFits(call[c])' /\ Taken(call[c])'
    <3> SUFFICES ASSUME call[c].op = "remove"
                 PROVE  RemoveFits(call[c])' /\ Taken(call[c])'
      OBVIOUS
    <3>1. RemoveFits(call[c]) /\ Taken(call[c])
      BY <1>1
    <3>2. /\ call'[c].topics = call[c].topics /\ call'[c].items = call[c].items
          /\ call'[c].done \cup call'[c].todo = call[c].done \cup call[c].todo
      BY <1>1, <1>6
    <3>3. RemoveFits(call[c])'
      BY <1>1, <1>3, <1>6, <3>1, <3>2 DEF RemoveFits
    <3>4. Taken(call[c])'
      BY <3>1, <3>2 DEF Taken
    <3>. QED BY <3>3, <3>4
  <2>3. call[c].op = "close" => Table(b)' \subseteq call'[c].done \cup call'[c].todo
    BY <1>1, <1>6, <1>11
  <2>. QED BY <1>1, <1>3, <1>6, <2>1, <2>2, <2>3 DEF Fits
<1>13. IsRead(b)'
  BY <1>6, <1>7 DEF IsRead, InCall
<1>14. /\ Counted(b) = Table(b) \ done
       /\ Counted(b)' = Table(b) \ (done \cup {p})
  <2>1. Counted(b) = Table(b) \ Uncounted(call[c])
    BY <1>1, <1>9, OwnCounted DEF InCall
  <2>2. Counted(b)' = Table(b)' \ Uncounted(call[c])'
    BY <1>7, <1>9, OwnCounted
  <2>3. Uncounted(call[c]) = done /\ Uncounted(call[c])' = done \cup {p}
    BY <1>1, <1>3, <1>6 DEF Uncounted
  <2>. QED BY <1>11, <2>1, <2>2, <2>3
<1>15. ASSUME NEW q \in Pairs \ missed
       PROVE  Accounted(q)'
  <2>1. Accounted(q)
    BY DEF BInv
  <2>2. CASE q = p
    <3>1. p \notin Counted(b)' /\ p \in Counted(b)
      BY <1>1, <1>14
    <3>2. refs[p] > 0
      BY <1>4, <1>9, <2>1, <2>2, <3>1, HoldersLose DEF BInv
    <3>3. \/ refs'[p] = refs[p] - 1 /\ left'[p] = left[p]
          \/ refs'[p] = refs[p] /\ left'[p] = left[p] + 1
      BY <1>2, <1>4, <2>2, <3>2 DEF Dropped
    <3>. QED BY <1>4, <1>9, <2>1, <2>2, <3>1, <3>3, HoldersLose DEF BInv
  <2>3. CASE q # p
    <3>1. refs'[q] = refs[q] /\ left'[q] = left[q]
      BY <1>2, <1>4, <2>3 DEF Dropped
    <3>2. q \in Counted(b)' <=> q \in Counted(b)
      BY <1>14, <2>3
    <3>. QED BY <1>9, <2>1, <3>1, <3>2, HoldersKeep
  <2>. QED BY <2>2, <2>3
<1>. QED BY <1>3, <1>9, <1>10, <1>11, <1>12, <1>13, <1>15, StepInv

LEMMA RemoveEndsStep ==
  ASSUME BInv, NEW c \in Clients, RemoveEnds(c)
  PROVE  BInv'
<1>0. call[c].op = "remove" /\ call[c].todo = {}
  BY DEF RemoveEnds
<1>1. PICK b \in Blocks, done \in SUBSET Pairs, todo \in SUBSET Pairs :
        /\ call[c] # Idle /\ owner[b] = c
        /\ call[c].block = b /\ call[c].done = done /\ call[c].todo = todo
        /\ done \cap captured[b] = {} /\ done \cap todo = {}
        /\ todo \subseteq Table(b) /\ captured[b] \subseteq Table(b)
        /\ Table(b) \ (done \cup missed) \subseteq captured[b]
        /\ call[c].op = "remove" => RemoveFits(call[c]) /\ Taken(call[c])
        /\ call[c].op = "close" => Table(b) \subseteq done \cup todo
  BY <1>0, RemovalKnows
<1> DEFINE ts == topics[b] \ call[c].topics
           is == items[b] \ call[c].items
<1>2. /\ topics' = [topics EXCEPT ![b] = IF is = {} THEN {} ELSE ts]
      /\ items' = [items EXCEPT ![b] = IF ts = {} THEN {} ELSE is]
      /\ topic_precache' = [topic_precache EXCEPT ![b] =
                              IF is = {} THEN @ \cup ts ELSE @]
      /\ item_precache' = [item_precache EXCEPT ![b] =
                             IF ts = {} THEN @ \cup is ELSE @]
      /\ call' = [call EXCEPT ![c] = Idle]
  BY <1>1 DEF RemoveEnds
<1>3. /\ refs' = refs /\ owner' = owner /\ captured' = captured /\ dead' = dead
      /\ faults' = faults /\ missed' = missed /\ left' = left
  BY DEF RemoveEnds
<1>4. /\ topics \in [Blocks -> SUBSET Topics] /\ items \in [Blocks -> SUBSET Items]
      /\ topic_precache \in [Blocks -> SUBSET Topics]
      /\ item_precache \in [Blocks -> SUBSET Items]
      /\ call \in [Clients -> Calls]
  BY DEF BInv, TypeOK
<1>5. call'[c] = Idle
  BY <1>2, <1>4
<1>6. /\ topics'[b] = (IF is = {} THEN {} ELSE ts)
      /\ items'[b] = (IF ts = {} THEN {} ELSE is)
  BY <1>2, <1>4
<1>7. StepOn(c, b)
  BY <1>1, <1>2, <1>3, <1>4, <1>5 DEF StepOn
<1>8. TypeOK'
  <2>1. call' \in [Clients -> Calls]
    BY <1>2, <1>4, NewCalls
  <2>2. ts \in SUBSET Topics /\ is \in SUBSET Items
    BY <1>4
  <2> HIDE DEF ts, is
  <2>3. topics' \in [Blocks -> SUBSET Topics] /\ items' \in [Blocks -> SUBSET Items]
    BY <1>2, <1>4, <2>2
  <2>4. topic_precache' \in [Blocks -> SUBSET Topics]
    BY <1>2, <1>4, <2>2
  <2>5. item_precache' \in [Blocks -> SUBSET Items]
    BY <1>2, <1>4, <2>2
  <2>. QED BY <1>3, <2>1, <2>3, <2>4, <2>5 DEF BInv, TypeOK
(* What is left of the table is what has not been given back.              *)
<1>9. Table(b)' = Table(b) \ done
  <2>1. Table(b)' = ts \X is
    BY <1>6 DEF Table
  <2>2. ASSUME NEW t \in topics[b], NEW i \in items[b]
        PROVE  <<t, i>> \in done <=> t \in call[c].topics \/ i \in call[c].items
    <3>1. t \in Topics /\ i \in Items
      BY <1>4
    <3>2. t \in call[c].topics \/ i \in call[c].items => <<t, i>> \in done
      BY <1>0, <1>1 DEF RemoveFits
    <3>3. <<t, i>> \in done => t \in call[c].topics \/ i \in call[c].items
      BY <1>0, <1>1, <3>1 DEF Taken
    <3>. QED BY <3>2, <3>3
  <2>. QED BY <2>1, <2>2 DEF Table
<1>10. captured'[b] \subseteq Table(b)' /\ IsRead(b)'
  <2>1. captured'[b] \subseteq Table(b)'
    BY <1>1, <1>3, <1>9
  <2>2. Table(b)' \ missed' \subseteq captured'[b]
    BY <1>1, <1>3, <1>9
  <2>. QED BY <2>1, <2>2 DEF IsRead
<1>11. Fits(c)'
  BY <1>5 DEF Fits
<1>12. Counted(b)' = Counted(b)
  <2>1. Counted(b) = Table(b) \ Uncounted(call[c])
    BY <1>1, <1>7, OwnCounted DEF InCall
  <2>2. Counted(b)' = Table(b)'
    BY <1>5, <1>7, OwnCounted
  <2>3. Uncounted(call[c]) = done
    BY <1>0, <1>1 DEF Uncounted
  <2>. QED BY <1>9, <2>1, <2>2, <2>3
<1>13. \A p \in Pairs \ missed' : Accounted(p)'
  BY <1>3, <1>7, <1>12, HoldersKeep DEF BInv
<1>. QED BY <1>7, <1>8, <1>10, <1>11, <1>13, StepInv

LEMMA CloseEndsStep ==
  ASSUME BInv, NEW c \in Clients, CloseEnds(c)
  PROVE  BInv'
<1>0. call[c].op = "close" /\ call[c].todo = {}
  BY DEF CloseEnds
<1>1. PICK b \in Blocks, done \in SUBSET Pairs, todo \in SUBSET Pairs :
        /\ call[c] # Idle /\ owner[b] = c
        /\ call[c].block = b /\ call[c].done = done /\ call[c].todo = todo
        /\ done \cap captured[b] = {} /\ done \cap todo = {}
        /\ todo \subseteq Table(b) /\ captured[b] \subseteq Table(b)
        /\ Table(b) \ (done \cup missed) \subseteq captured[b]
        /\ call[c].op = "remove" => RemoveFits(call[c]) /\ Taken(call[c])
        /\ call[c].op = "close" => Table(b) \subseteq done \cup todo
  BY <1>0, RemovalKnows
<1>2. /\ owner' = [e \in Blocks |-> IF e \in {b} THEN Nobody ELSE owner[e]]
      /\ topics' = [e \in Blocks |-> IF e \in {b} THEN {} ELSE topics[e]]
      /\ items' = [e \in Blocks |-> IF e \in {b} THEN {} ELSE items[e]]
      /\ topic_precache' =
           [e \in Blocks |-> IF e \in {b} THEN {} ELSE topic_precache[e]]
      /\ item_precache' =
           [e \in Blocks |-> IF e \in {b} THEN {} ELSE item_precache[e]]
      /\ call' = [call EXCEPT ![c] = Idle]
  BY <1>1 DEF CloseEnds, Forget
<1>3. /\ refs' = refs /\ captured' = captured /\ dead' = dead
      /\ faults' = faults /\ missed' = missed /\ left' = left
  BY DEF CloseEnds
<1>4. call'[c] = Idle
  BY <1>2 DEF BInv, TypeOK
<1>5. StepOn(c, b)
  BY <1>1, <1>2, <1>3, <1>4 DEF StepOn, BInv, TypeOK
<1>6. TypeOK'
  <2>1. call' \in [Clients -> Calls]
    BY <1>2, NewCalls DEF BInv, TypeOK
  <2>2. /\ owner' \in [Blocks -> Clients \cup {Nobody}]
        /\ topics' \in [Blocks -> SUBSET Topics]
        /\ items' \in [Blocks -> SUBSET Items]
    BY <1>2 DEF BInv, TypeOK
  <2>3. /\ topic_precache' \in [Blocks -> SUBSET Topics]
        /\ item_precache' \in [Blocks -> SUBSET Items]
    BY <1>2 DEF BInv, TypeOK
  <2>. QED BY <1>3, <2>1, <2>2, <2>3 DEF BInv, TypeOK
<1>7. Table(b)' = {}
  BY <1>2 DEF Table
<1>8. Table(b) \subseteq done /\ captured'[b] = {}
  BY <1>0, <1>1, <1>3
<1>9. Fits(c)' /\ captured'[b] \subseteq Table(b)' /\ IsRead(b)'
  BY <1>4, <1>7, <1>8 DEF Fits, IsRead
<1>10. Counted(b)' = {} /\ Counted(b) = {}
  <2>1. Counted(b) = Table(b) \ Uncounted(call[c])
    BY <1>1, <1>5, OwnCounted DEF InCall
  <2>2. Uncounted(call[c]) = done
    BY <1>0, <1>1 DEF Uncounted
  <2>3. Counted(b)' = Table(b)'
    BY <1>4, <1>5, OwnCounted
  <2>. QED BY <1>7, <1>8, <2>1, <2>2, <2>3
<1>11. \A p \in Pairs \ missed' : Accounted(p)'
  BY <1>3, <1>5, <1>10, HoldersKeep DEF BInv
<1>. QED BY <1>5, <1>6, <1>9, <1>11, StepInv

-----------------------------------------------------------------------------

(* A block that has a pair's buffer counts as one of its holders.          *)
LEMMA CapturedCounted ==
  ASSUME BInv, NEW b \in Blocks
  PROVE  captured[b] \subseteq Counted(b)
<1> SUFFICES ASSUME NEW p \in captured[b], NEW c \in Clients, InCall(c, b)
             PROVE  p \notin Uncounted(call[c])
  BY DEF Counted, BInv
<1>1. call[c] # Idle /\ call[c] \in Calls /\ call[c].block = b /\ Fits(c)
  BY DEF InCall, BInv, TypeOK
<1>2. call[c].op \in {"add", "capture", "remove", "close"}
  BY <1>1, CallKinds
<1>3. CASE call[c].op \in {"add", "capture"}
  BY <1>1, <1>3 DEF Fits, AddFits, Pending, Uncounted
<1>4. CASE call[c].op \in {"remove", "close"}
  BY <1>1, <1>4 DEF Fits, DoneFits, Uncounted
<1>. QED BY <1>2, <1>3, <1>4

(* What a process that is gone held is no more than its references.        *)
LEMMA HeldSplit ==
  ASSUME BInv, NEW c \in Clients, NEW p
  PROVE  /\ Cardinality(Holders(p) \cap OwnedBy(c)) \in Nat
         /\ Cardinality(Holders(p) \ OwnedBy(c)) \in Nat
         /\ Cardinality(Holders(p)) = Cardinality(Holders(p) \ OwnedBy(c))
                                       + Cardinality(Holders(p) \cap OwnedBy(c))
         /\ p \in Local(c) => Cardinality(Holders(p) \cap OwnedBy(c)) > 0
<1>1. IsFiniteSet(Holders(p)) /\ Cardinality(Holders(p)) \in Nat
  BY HoldersFinite
<1>2. /\ IsFiniteSet(Holders(p) \cap OwnedBy(c))
      /\ IsFiniteSet(Holders(p) \ OwnedBy(c))
  BY <1>1, FS_Subset
<1>3. /\ Cardinality(Holders(p) \cap OwnedBy(c)) \in Nat
      /\ Cardinality(Holders(p) \ OwnedBy(c)) \in Nat
  BY <1>2, FS_CardinalityType
<1>4. Cardinality(Holders(p) \ OwnedBy(c))
        = Cardinality(Holders(p)) - Cardinality(Holders(p) \cap OwnedBy(c))
  BY <1>1, FS_Difference
<1>5. ASSUME p \in Local(c)
      PROVE  Cardinality(Holders(p) \cap OwnedBy(c)) # 0
  <2>1. PICK b \in OwnedBy(c) : p \in captured[b]
    BY <1>5 DEF Local
  <2>2. b \in Holders(p)
    BY <2>1, CapturedCounted DEF Holders, OwnedBy
  <2>. QED BY <1>2, <2>1, <2>2, FS_EmptySet
<1>. QED BY <1>1, <1>3, <1>4, <1>5

LEMMA GoneStep ==
  ASSUME BInv, NEW c \in Clients, NEW given, given \subseteq Local(c),
         Gone(c, given),
         faults' \in 0 .. MaxFaults,
         refs' = [p \in Pairs |-> IF p \in given /\ refs[p] > 0
                                 THEN refs[p] - 1 ELSE refs[p]]
  PROVE  BInv'
<1> DEFINE mine == OwnedBy(c)
<1>1. /\ owner' = [b \in Blocks |-> IF b \in mine THEN Nobody ELSE owner[b]]
      /\ topics' = [b \in Blocks |-> IF b \in mine THEN {} ELSE topics[b]]
      /\ items' = [b \in Blocks |-> IF b \in mine THEN {} ELSE items[b]]
      /\ topic_precache' =
           [b \in Blocks |-> IF b \in mine THEN {} ELSE topic_precache[b]]
      /\ item_precache' =
           [b \in Blocks |-> IF b \in mine THEN {} ELSE item_precache[b]]
      /\ captured' = [b \in Blocks |-> IF b \in mine THEN {} ELSE captured[b]]
      /\ call' = [call EXCEPT ![c] = Idle]
      /\ missed' = missed /\ dead' = dead \cup {c}
  BY DEF Gone, Forget
<1>2. \A p \in Pairs \ missed :
        left'[p] = left[p] + Cardinality(Holders(p) \cap mine)
                     - (IF p \in given THEN 1 ELSE 0)
  BY DEF Gone
<1>3. /\ owner \in [Blocks -> Clients \cup {Nobody}]
      /\ call \in [Clients -> Calls]
      /\ refs \in [Pairs -> Nat] /\ left \in [Pairs -> Nat]
  BY DEF BInv, TypeOK
<1>4. call'[c] = Idle /\ \A d \in Clients \ {c} : call'[d] = call[d]
  BY <1>1, <1>3
<1>5. \A b \in Blocks : b \in mine <=> owner[b] = c
  BY DEF OwnedBy
<1> HIDE DEF mine
(* The blocks that stay are those no call of c's is on.                    *)
<1>6. ASSUME NEW b \in Blocks \ mine, NEW d \in Clients
      PROVE  (InCall(d, b)' <=> InCall(d, b)) /\ (InCall(d, b) => d # c)
  <2>1. ~InCall(c, b)
    BY <1>5 DEF InCall, BInv, Fits
  <2>. QED BY <1>4, <2>1 DEF InCall
<1>7. \A b \in Blocks \ mine :
        /\ owner'[b] = owner[b] /\ topics'[b] = topics[b] /\ items'[b] = items[b]
        /\ captured'[b] = captured[b] /\ Table(b)' = Table(b)
  BY <1>1 DEF Table
<1>8. \A b \in mine : b \in Blocks => Table(b)' = {} /\ captured'[b] = {}
  BY <1>1 DEF Table
<1>9. TypeOK'
  <2>1. call' \in [Clients -> Calls]
    BY <1>1, <1>3, NewCalls
  <2>2. refs' \in [Pairs -> Nat]
    BY <1>3
  <2>3. left' \in [Pairs -> Nat]
    <3>1. ASSUME NEW p \in Pairs \ missed
          PROVE  left'[p] \in Nat
      <4>1. /\ Cardinality(Holders(p) \cap mine) \in Nat
            /\ p \in given => Cardinality(Holders(p) \cap mine) > 0
        BY HeldSplit DEF mine
      <4>2. left[p] \in Nat
        BY <1>3
      <4>. QED BY <1>2, <4>1, <4>2
    <3>2. \A p \in missed : p \in Pairs => left'[p] = 0
      BY DEF Gone
    <3>3. left' = [p \in Pairs |-> left'[p]]
      BY DEF Gone
    <3>. QED BY <3>1, <3>2, <3>3
  <2>4. /\ owner' \in [Blocks -> Clients \cup {Nobody}]
        /\ topics' \in [Blocks -> SUBSET Topics]
        /\ items' \in [Blocks -> SUBSET Items]
        /\ captured' \in [Blocks -> SUBSET Pairs]
    BY <1>1 DEF BInv, TypeOK
  <2>5. /\ topic_precache' \in [Blocks -> SUBSET Topics]
        /\ item_precache' \in [Blocks -> SUBSET Items]
    BY <1>1 DEF BInv, TypeOK
  <2>6. dead' \subseteq Clients /\ missed' \subseteq Pairs
    BY <1>1 DEF BInv, TypeOK
  <2>. QED BY <2>1, <2>2, <2>3, <2>4, <2>5, <2>6 DEF TypeOK
<1>10. ASSUME NEW d \in Clients
       PROVE  Fits(d)'
  <2>1. CASE d = c
    BY <1>4, <2>1 DEF Fits
  <2>2. CASE d # c /\ call[d] = Idle
    BY <1>4, <2>2 DEF Fits
  <2>3. CASE d # c /\ call[d] # Idle
    <3>1. Fits(d) /\ call'[d] = call[d]
      BY <1>4, <2>3 DEF BInv
    <3>2. call[d].block \in Blocks \ mine
      BY <1>3, <1>5, <2>3, <3>1, CallKinds DEF Fits
    <3>3. /\ owner'[call[d].block] = owner[call[d].block]
          /\ topics'[call[d].block] = topics[call[d].block]
          /\ items'[call[d].block] = items[call[d].block]
          /\ captured'[call[d].block] = captured[call[d].block]
          /\ missed' = missed
          /\ Table(call[d].block)' = Table(call[d].block)
      BY <1>1, <1>7, <3>1, <3>2 DEF Table
    <3>4. AddFits(call[d]) => AddFits(call[d])'
      BY <3>1, <3>3 DEF AddFits, InGrid, Pending
    <3>5. CaptureFits(call[d]) => CaptureFits(call[d])'
      BY <3>1, <3>3 DEF CaptureFits, Pending, Table
    <3>6. DoneFits(call[d]) => DoneFits(call[d])'
      BY <3>1, <3>3 DEF DoneFits, Table
    <3>7. RemoveFits(call[d]) /\ Taken(call[d])
            => RemoveFits(call[d])' /\ Taken(call[d])'
      BY <3>1, <3>3 DEF RemoveFits, Taken
    <3>. QED BY <2>3, <3>1, <3>3, <3>4, <3>5, <3>6, <3>7 DEF Fits
  <2>. QED BY <2>1, <2>2, <2>3
<1>11. ASSUME NEW b \in Blocks
       PROVE  captured'[b] \subseteq Table(b)' /\ IsRead(b)'
  <2>1. CASE b \in mine
    BY <1>8, <2>1 DEF IsRead
  <2>2. CASE b \notin mine
    <3>1. captured'[b] = captured[b] /\ Table(b)' = Table(b) /\ missed' = missed
      BY <1>1, <1>7, <2>2
    <3>2. (\A d \in Clients : ~InCall(d, b)') => \A d \in Clients : ~InCall(d, b)
      BY <1>6, <2>2
    <3>. QED BY <3>1, <3>2 DEF BInv, IsRead
  <2>. QED BY <2>1, <2>2
<1>12. ASSUME NEW p
       PROVE  Holders(p)' = Holders(p) \ mine
  <2>1. ASSUME NEW b \in Blocks \ mine
        PROVE  Counted(b)' = Counted(b)
    <3>1. \A d \in Clients : InCall(d, b)' <=> InCall(d, b)
      BY <1>6
    <3>2. \A d \in Clients : InCall(d, b) => call'[d] = call[d]
      BY <1>4, <1>6
    <3>3. Table(b)' = Table(b)
      BY <1>7
    <3>. QED BY <3>1, <3>2, <3>3 DEF Counted, Uncounted
  <2>2. \A b \in Blocks : b \in mine => Counted(b)' = {}
    BY <1>8 DEF Counted
  <2>. QED BY <2>1, <2>2 DEF Holders
<1>13. ASSUME NEW p \in Pairs \ missed
       PROVE  Accounted(p)'
  <2> DEFINE kept == Cardinality(Holders(p) \ mine)
             held == Cardinality(Holders(p) \cap mine)
  <2>1. /\ held \in Nat /\ kept \in Nat
        /\ Cardinality(Holders(p)) = kept + held
        /\ p \in given => held > 0
    BY HeldSplit DEF mine
  <2>2. refs[p] = kept + held + left[p]
    <3>1. Accounted(p) /\ left[p] \in Nat
      BY <1>3 DEF BInv
    <3>. QED BY <2>1, <3>1 DEF Accounted
  <2>3. left'[p] = left[p] + held - (IF p \in given THEN 1 ELSE 0)
    BY <1>2
  <2>4. refs'[p] = IF p \in given /\ refs[p] > 0 THEN refs[p] - 1 ELSE refs[p]
    OBVIOUS
  <2>5. Cardinality(Holders(p)') = kept
    BY <1>12
  <2>6. left[p] \in Nat
    BY <1>3
  <2> HIDE DEF kept, held
  <2>7. refs'[p] = kept + left'[p]
    BY <2>1, <2>2, <2>3, <2>4, <2>6
  <2>. QED BY <2>5, <2>7 DEF Accounted
<1>. QED BY <1>1, <1>9, <1>10, <1>11, <1>13 DEF BInv

LEMMA DetachStep ==
  ASSUME BInv, NEW c \in Clients, Detach(c)
  PROVE  BInv'
<1>1. faults' \in 0 .. MaxFaults
  BY DEF Detach, BInv, TypeOK
<1>. QED BY <1>1, GoneStep DEF Detach, Lowered

LEMMA DieStep ==
  ASSUME BInv, NEW c \in Clients, Die(c)
  PROVE  BInv'
<1>1. faults' \in 0 .. MaxFaults
  BY BlocksAssumption DEF Die, BInv, TypeOK
<1>2. PICK given : /\ given \subseteq Local(c) /\ Gone(c, given)
                   /\ refs' = Lowered(given)
  BY DEF Die
<1>. QED BY <1>1, <1>2, GoneStep DEF Lowered

LEMMA FitsKept ==
  ASSUME owner' = owner, topics' = topics, items' = items,
         captured' = captured, call' = call, missed' = missed,
         NEW c \in Clients, Fits(c)
  PROVE  Fits(c)'
<1>1. Table(call[c].block)' = Table(call[c].block)
  BY DEF Table
<1>2. AddFits(call[c])' <=> AddFits(call[c])
  BY DEF AddFits, InGrid, Pending
<1>3. CaptureFits(call[c])' <=> CaptureFits(call[c])
  BY <1>1 DEF CaptureFits, Pending
<1>4. DoneFits(call[c])' <=> DoneFits(call[c])
  BY <1>1 DEF DoneFits
<1>5. /\ RemoveFits(call[c])' <=> RemoveFits(call[c])
      /\ Taken(call[c])' <=> Taken(call[c])
  BY DEF RemoveFits, Taken
<1>. QED BY <1>1, <1>2, <1>3, <1>4, <1>5 DEF Fits

(* An orphaned reference is nobody's: giving it up changes no holder.      *)
LEMMA OrphanStep ==
  ASSUME BInv, NEW c \in Clients, NEW q \in Pairs, RemoveOrphanedStream(c, q)
  PROVE  BInv'
<1>1. /\ owner' = owner /\ topics' = topics /\ items' = items
      /\ topic_precache' = topic_precache /\ item_precache' = item_precache
      /\ captured' = captured /\ call' = call /\ dead' = dead
      /\ faults' = faults /\ missed' = missed
  BY DEF RemoveOrphanedStream, tables, caches
<1>2. /\ refs \in [Pairs -> Nat] /\ left \in [Pairs -> Nat]
      /\ refs' = Dropped(q) /\ left' = [left EXCEPT ![q] = @ - 1]
      /\ left[q] > 0
  BY DEF RemoveOrphanedStream, BInv, TypeOK
<1>3. refs' \in [Pairs -> Nat] /\ left' \in [Pairs -> Nat]
  BY <1>2 DEF Dropped
<1>4. TypeOK'
  BY <1>1, <1>3 DEF BInv, TypeOK
<1>5. \A d \in Clients : Fits(d)'
  BY <1>1, FitsKept DEF BInv
<1>6. \A b \in Blocks : captured'[b] \subseteq Table(b)' /\ IsRead(b)'
  BY <1>1 DEF BInv, Table, IsRead, InCall
<1>7. ASSUME NEW p \in Pairs \ missed
      PROVE  Accounted(p)'
  <2>1. Holders(p)' = Holders(p)
    BY <1>1 DEF Holders, Counted, Table, InCall, Uncounted
  <2>2. /\ refs[p] = Cardinality(Holders(p)) + left[p]
        /\ Cardinality(Holders(p)) \in Nat
    BY HoldersFinite, FS_CardinalityType DEF BInv, Accounted
  <2>3. CASE p # q
    BY <1>2, <2>1, <2>2, <2>3 DEF Dropped, Accounted
  <2>4. CASE p = q
    <3>1. refs'[p] = refs[p] - 1 /\ left'[p] = left[p] - 1
      BY <1>2, <2>2, <2>4 DEF Dropped
    <3>. QED BY <1>2, <2>1, <2>2, <3>1 DEF Accounted
  <2>. QED BY <2>3, <2>4
<1>. QED BY <1>1, <1>4, <1>5, <1>6, <1>7 DEF BInv

-----------------------------------------------------------------------------

LEMMA UnchangedStep ==
  ASSUME BInv, UNCHANGED vars
  PROVE  BInv'
<1>1. /\ refs' = refs /\ owner' = owner /\ topics' = topics /\ items' = items
      /\ topic_precache' = topic_precache /\ item_precache' = item_precache
      /\ captured' = captured /\ call' = call /\ dead' = dead
      /\ faults' = faults /\ missed' = missed /\ left' = left
  BY DEF vars, tables, caches
<1>2. TypeOK'
  BY <1>1 DEF BInv, TypeOK
<1>3. \A c \in Clients : Fits(c)'
  BY <1>1, FitsKept DEF BInv
<1>4. \A b \in Blocks : captured'[b] \subseteq Table(b)' /\ IsRead(b)'
  BY <1>1 DEF BInv, Table, IsRead, InCall
<1>5. \A p \in Pairs \ missed' : Accounted(p)'
  BY <1>1 DEF BInv, Accounted, Holders, Counted, Table, InCall, Uncounted
<1>. QED BY <1>2, <1>3, <1>4, <1>5 DEF BInv

LEMMA BInvHolds == Spec => []BInv
<1>1. ASSUME BInv, [Next]_vars
      PROVE  BInv'
  <2>1. ASSUME NEW b \in Blocks,
               \/ \E ts \in SUBSET Topics, is \in SUBSET Items : Add(b, ts, is)
               \/ \E ts \in SUBSET Topics : AddTopics(b, ts)
               \/ \E is \in SUBSET Items : AddItems(b, is)
        PROVE  BInv'
    BY <1>1, <2>1, AddStep DEF AddTopics, AddItems
  <2>2. ASSUME NEW b \in Blocks, RemoveTopic(b)
        PROVE  BInv'
    BY <1>1, <2>2, RemoveTopicStep
  <2>3. ASSUME NEW b \in Blocks, RemoveItem(b)
        PROVE  BInv'
    BY <1>1, <2>3, RemoveItemStep
  <2>4. ASSUME NEW b \in Blocks, CloseBlock(b)
        PROVE  BInv'
    BY <1>1, <2>4, CloseBlockStep
  <2>5. ASSUME NEW c \in Clients, NEW b \in Blocks, CreateBlock(c, b)
        PROVE  BInv'
    BY <1>1, <2>5, CreateBlockStep
  <2>6. ASSUME NEW c \in Clients, AddOne(c)
        PROVE  BInv'
    BY <1>1, <2>6, AddOneStep
  <2>7. ASSUME NEW c \in Clients, AddOneFails(c)
        PROVE  BInv'
    BY <1>1, <2>7, AddOneFailsStep
  <2>8. ASSUME NEW c \in Clients, Capture(c)
        PROVE  BInv'
    BY <1>1, <2>8, CaptureStep
  <2>9. ASSUME NEW c \in Clients, RemoveOne(c)
        PROVE  BInv'
    BY <1>1, <2>9, RemoveOneStep
  <2>10. ASSUME NEW c \in Clients, RemoveEnds(c)
         PROVE  BInv'
    BY <1>1, <2>10, RemoveEndsStep
  <2>11. ASSUME NEW c \in Clients, CloseEnds(c)
         PROVE  BInv'
    BY <1>1, <2>11, CloseEndsStep
  <2>12. ASSUME NEW c \in Clients, Detach(c)
         PROVE  BInv'
    BY <1>1, <2>12, DetachStep
  <2>13. ASSUME NEW c \in Clients, Die(c)
         PROVE  BInv'
    BY <1>1, <2>13, DieStep
  <2>14. ASSUME NEW c \in Clients, NEW p \in Pairs, RemoveOrphanedStream(c, p)
         PROVE  BInv'
    BY <1>1, <2>14, OrphanStep
  <2>15. CASE UNCHANGED vars
    BY <1>1, <2>15, UnchangedStep
  <2>. QED BY <1>1, <2>1, <2>2, <2>3, <2>4, <2>5, <2>6, <2>7, <2>8, <2>9,
              <2>10, <2>11, <2>12, <2>13, <2>14, <2>15 DEF Next
<1>. QED BY <1>1, InitBInv, PTL DEF Spec

(* All the calls of any number of processes (client_admin.cpp:388-1001)    *)
(* keep to the types.                                                      *)
THEOREM BlockTypeCorrect == Spec => []TypeOK
<1>1. BInv => TypeOK
  BY DEF BInv
<1>. QED BY <1>1, BInvHolds, PTL

(* A local buffer lists a block only for a pair the block has a stream     *)
(* for, whenever the extraction thread looks (TOSDB_Add captures after the *)
(* block took topic and item in, a removal releases before they go).       *)
THEOREM CapturedHasStream == Spec => []CapturedInTable
<1>1. BInv => CapturedInTable
  BY DEF BInv, CapturedInTable
<1>. QED BY <1>1, BInvHolds, PTL

(* Between calls every stream of a block receives data, unless an ADD of   *)
(* its pair failed (TOSDB_Add asks for every new pair of the table, a      *)
(* removal releases no pair but those it takes).                           *)
THEOREM TableRead == Spec => []TableIsCaptured
<1>1. BInv => TableIsCaptured
  BY DEF BInv, IsRead, TableIsCaptured
<1>. QED BY <1>1, BInvHolds, PTL

(* The engine counts one reference for each stream of a block, and those   *)
(* left behind: what AddStream and RemoveStream make of the messages that  *)
(* TOSDB_Add, TOSDB_RemoveTopic, TOSDB_RemoveItem, TOSDB_CloseBlock and    *)
(* DllMain send.                                                           *)
THEOREM ReferencesExact == Spec => []ReferencesAccounted
<1>1. BInv => ReferencesAccounted
  BY DEF BInv, Accounted, ReferencesAccounted
<1>. QED BY <1>1, BInvHolds, PTL

(* While no ADD of a pair has failed, no process can take its stream from  *)
(* a block that reads it.                                                  *)
THEOREM EachReaderCounted == Spec => []ReferenceForEachReader
<1>1. BInv => ReferenceForEachReader
  <2> SUFFICES ASSUME BInv, NEW p \in Pairs \ missed
               PROVE  refs[p] >= Cardinality({b \in Blocks : p \in captured[b]})
    BY DEF ReferenceForEachReader
  <2> DEFINE readers == {b \in Blocks : p \in captured[b]}
  <2>1. readers \subseteq Holders(p)
    BY CapturedCounted DEF Holders
  <2>2. /\ Cardinality(readers) <= Cardinality(Holders(p))
        /\ Cardinality(readers) \in Nat
    BY <2>1, HoldersFinite, FS_Subset, FS_CardinalityType
  <2>3. /\ refs[p] = Cardinality(Holders(p)) + left[p]
        /\ left[p] \in Nat /\ Cardinality(Holders(p)) \in Nat
    BY HoldersFinite DEF BInv, TypeOK, Accounted
  <2>. QED BY <2>2, <2>3
<1>. QED BY <1>1, BInvHolds, PTL

-----------------------------------------------------------------------------

(* Only what one call is about changes in the sorting of topics and items. *)
SortedSame(b) ==
  /\ topics'[b] = topics[b] /\ items'[b] = items[b]
  /\ topic_precache'[b] \subseteq topic_precache[b]
  /\ item_precache'[b] \subseteq item_precache[b]

LEMMA SortedKept ==
  ASSUME NEW b \in Blocks, Sorted(b), SortedSame(b)
  PROVE  Sorted(b)'
BY DEF Sorted, SortedSame

LEMMA SortedCleared ==
  ASSUME NEW b \in Blocks, topics'[b] = {}, items'[b] = {},
         topic_precache'[b] = {}, item_precache'[b] = {}
  PROVE  Sorted(b)'
BY DEF Sorted

LEMMA SortedAdd ==
  ASSUME TypeOK, OneOfThree, NEW b \in Blocks, NEW ts \in SUBSET Topics,
         NEW is \in SUBSET Items, Add(b, ts, is)
  PROVE  OneOfThree'
<1> SUFFICES ASSUME NEW e \in Blocks PROVE Sorted(e)'
  BY DEF OneOfThree
<1>1. topics' = topics /\ items' = items /\ Sorted(e)
  BY DEF Add, tables, OneOfThree
<1> DEFINE tdiff == (ts \cup topic_precache[b]) \ topics[b]
<1>2. /\ topic_precache' = IF is \cup item_precache[b] \cup items[b] = {}
                           THEN [topic_precache EXCEPT ![b] = @ \cup tdiff]
                           ELSE topic_precache
      /\ item_precache' = IF tdiff = {} /\ topics[b] = {}
                          THEN [item_precache EXCEPT ![b] = @ \cup is]
                          ELSE item_precache
  BY DEF Add
<1>3. /\ topic_precache \in [Blocks -> SUBSET Topics]
      /\ item_precache \in [Blocks -> SUBSET Items]
  BY DEF TypeOK
<1>4. CASE e # b
  <2>1. topic_precache'[e] = topic_precache[e] /\ item_precache'[e] = item_precache[e]
    BY <1>2, <1>3, <1>4
  <2>. QED BY <1>1, <2>1, SortedKept DEF SortedSame
<1>5. CASE e = b
  <2>1. CASE is \cup item_precache[b] \cup items[b] = {}
    <3>1. item_precache'[b] = {} /\ topics'[b] = {} /\ items'[b] = {}
      BY <1>1, <1>2, <1>3, <1>5, <2>1 DEF Sorted
    <3>. QED BY <1>5, <3>1 DEF Sorted
  <2>2. CASE is \cup item_precache[b] \cup items[b] # {} /\ tdiff = {} /\ topics[b] = {}
    <3>1. topic_precache'[b] = {} /\ topics'[b] = {} /\ items'[b] = {}
      BY <1>1, <1>2, <1>3, <1>5, <2>2 DEF Sorted
    <3>. QED BY <1>5, <3>1 DEF Sorted
  <2>3. CASE is \cup item_precache[b] \cup items[b] # {} /\ ~(tdiff = {} /\ topics[b] = {})
    <3>1. topic_precache' = topic_precache /\ item_precache' = item_precache
      BY <1>2, <2>3
    <3>. QED BY <1>1, <3>1, SortedKept DEF SortedSame
  <2>. QED BY <2>1, <2>2, <2>3
<1>. QED BY <1>4, <1>5

LEMMA SortedAddOne ==
  ASSUME BInv, OneOfThree, NEW c \in Clients, AddOne(c)
  PROVE  OneOfThree'
<1> SUFFICES ASSUME NEW e \in Blocks PROVE Sorted(e)'
  BY DEF OneOfThree
<1>1. PICK p \in Nexts(call[c]) :
        /\ items' = [items EXCEPT ![call[c].block] = @ \cup {p[2]}]
        /\ IF call[c].fresh # {}
           THEN /\ topics' = [topics EXCEPT ![call[c].block] = @ \cup {p[1]}]
                /\ ClearPreCache(call[c].block)
           ELSE UNCHANGED <<topics, caches>>
  BY DEF AddOne
<1>2. /\ topics \in [Blocks -> SUBSET Topics] /\ items \in [Blocks -> SUBSET Items]
      /\ topic_precache \in [Blocks -> SUBSET Topics]
      /\ item_precache \in [Blocks -> SUBSET Items]
      /\ Sorted(e)
  BY DEF BInv, TypeOK, OneOfThree
<1>3. CASE e # call[c].block
  <2>1. /\ topics'[e] = topics[e] /\ items'[e] = items[e]
        /\ topic_precache'[e] = topic_precache[e]
        /\ item_precache'[e] = item_precache[e]
    BY <1>1, <1>2, <1>3 DEF ClearPreCache, caches
  <2>. QED BY <1>2, <2>1, SortedKept DEF SortedSame
<1>4. CASE e = call[c].block /\ call[c].fresh # {}
  <2>1. /\ topics'[e] # {} /\ items'[e] # {}
        /\ topic_precache'[e] = {} /\ item_precache'[e] = {}
    BY <1>1, <1>2, <1>4 DEF ClearPreCache
  <2>. QED BY <2>1 DEF Sorted
<1>5. CASE e = call[c].block /\ call[c].fresh = {}
  <2>1. /\ topics'[e] = topics[e] /\ items'[e] # {}
        /\ topic_precache'[e] = topic_precache[e]
        /\ item_precache'[e] = item_precache[e]
    BY <1>1, <1>2, <1>5 DEF caches
  <2>2. topics[e] # {}
    <3>1. call[c] # Idle /\ call[c] \in Calls /\ call[c].op = "add"
      BY DEF AddOne, Idle, BInv, TypeOK
    <3>2. AddFits(call[c]) /\ call[c].late \in SUBSET Pairs
      BY <3>1, CallKinds DEF BInv, Fits
    <3>3. p \in call[c].late
      BY <1>1, <1>5 DEF Nexts
    <3>. QED BY <1>5, <3>2, <3>3 DEF AddFits, Pairs
  <2>. QED BY <1>2, <2>1, <2>2 DEF Sorted
<1>. QED BY <1>3, <1>4, <1>5

LEMMA SortedRemoveEnds ==
  ASSUME TypeOK, OneOfThree, NEW c \in Clients, RemoveEnds(c)
  PROVE  OneOfThree'
<1> SUFFICES ASSUME NEW e \in Blocks PROVE Sorted(e)'
  BY DEF OneOfThree
<1> DEFINE b  == call[c].block
           ts == topics[b] \ call[c].topics
           is == items[b] \ call[c].items
<1>1. /\ topics' = [topics EXCEPT ![b] = IF is = {} THEN {} ELSE ts]
      /\ items' = [items EXCEPT ![b] = IF ts = {} THEN {} ELSE is]
      /\ topic_precache' = [topic_precache EXCEPT ![b] =
                              IF is = {} THEN @ \cup ts ELSE @]
      /\ item_precache' = [item_precache EXCEPT ![b] =
                             IF ts = {} THEN @ \cup is ELSE @]
  BY DEF RemoveEnds
<1>2. /\ topics \in [Blocks -> SUBSET Topics] /\ items \in [Blocks -> SUBSET Items]
      /\ topic_precache \in [Blocks -> SUBSET Topics]
      /\ item_precache \in [Blocks -> SUBSET Items]
      /\ Sorted(e)
  BY DEF TypeOK, OneOfThree
<1>3. CASE e # b
  <2>1. /\ topics'[e] = topics[e] /\ items'[e] = items[e]
        /\ topic_precache'[e] = topic_precache[e]
        /\ item_precache'[e] = item_precache[e]
    BY <1>1, <1>2, <1>3
  <2>. QED BY <1>2, <2>1, SortedKept DEF SortedSame
<1>4. CASE e = b
  <2>1. /\ ts \subseteq topics[e] /\ is \subseteq items[e]
    BY <1>4
  <2>2. /\ topics'[e] = (IF is = {} THEN {} ELSE ts)
        /\ items'[e] = (IF ts = {} THEN {} ELSE is)
        /\ topic_precache'[e] = (IF is = {} THEN topic_precache[e] \cup ts
                                           ELSE topic_precache[e])
        /\ item_precache'[e] = (IF ts = {} THEN item_precache[e] \cup is
                                          ELSE item_precache[e])
    BY <1>1, <1>2, <1>4
  <2> HIDE DEF ts, is
  <2>. QED BY <1>2, <2>1, <2>2 DEF Sorted
<1>. QED BY <1>3, <1>4

LEMMA SortedForget ==
  ASSUME OneOfThree, NEW bs, Forget(bs)
  PROVE  OneOfThree'
<1> SUFFICES ASSUME NEW e \in Blocks PROVE Sorted(e)'
  BY DEF OneOfThree
<1>1. CASE e \in bs
  BY <1>1, SortedCleared DEF Forget
<1>2. CASE e \notin bs
  BY <1>2, SortedKept DEF Forget, SortedSame, OneOfThree
<1>. QED BY <1>1, <1>2

(* A step that puts nothing into a table or a pre-cache.                   *)
LEMMA SortedOther ==
  ASSUME TypeOK, OneOfThree,
         topics' = topics, items' = items,
         \A e \in Blocks : /\ topic_precache'[e] \subseteq topic_precache[e]
                           /\ item_precache'[e] \subseteq item_precache[e]
  PROVE  OneOfThree'
BY SortedKept DEF OneOfThree, SortedSame

(* The pre-cache is for a block without streams, and has topics or items,  *)
(* never both (raw_data_block.tpp:199-291, TOSDB_Add).                     *)
THEOREM PreCacheApart == Spec => []OneOfThree
<1>1. Init => OneOfThree
  BY DEF Init, OneOfThree, Sorted
<1>2. ASSUME BInv, OneOfThree, [Next]_vars
      PROVE  OneOfThree'
  <2>0. TypeOK
    BY <1>2 DEF BInv
  <2>1. ASSUME NEW b \in Blocks,
               \/ \E ts \in SUBSET Topics, is \in SUBSET Items : Add(b, ts, is)
               \/ \E ts \in SUBSET Topics : AddTopics(b, ts)
               \/ \E is \in SUBSET Items : AddItems(b, is)
        PROVE  OneOfThree'
    BY <1>2, <2>0, <2>1, SortedAdd DEF AddTopics, AddItems
  <2>2. ASSUME NEW b \in Blocks, RemoveTopic(b)
        PROVE  OneOfThree'
    <3>1. topics' = topics /\ items' = items /\ item_precache' = item_precache
      BY <2>2 DEF RemoveTopic, tables
    <3>2. \A e \in Blocks : topic_precache'[e] \subseteq topic_precache[e]
      BY <2>0, <2>2 DEF RemoveTopic, TypeOK
    <3>. QED BY <1>2, <2>0, <3>1, <3>2, SortedOther
  <2>3. ASSUME NEW b \in Blocks, RemoveItem(b)
        PROVE  OneOfThree'
    <3>1. topics' = topics /\ items' = items /\ topic_precache' = topic_precache
      BY <2>3 DEF RemoveItem, tables
    <3>2. \A e \in Blocks : item_precache'[e] \subseteq item_precache[e]
      BY <2>0, <2>3 DEF RemoveItem, TypeOK
    <3>. QED BY <1>2, <2>0, <3>1, <3>2, SortedOther
  <2>4. ASSUME NEW c \in Clients, AddOne(c)
        PROVE  OneOfThree'
    BY <1>2, <2>4, SortedAddOne
  <2>5. ASSUME NEW c \in Clients, RemoveEnds(c)
        PROVE  OneOfThree'
    BY <1>2, <2>0, <2>5, SortedRemoveEnds
  <2>6. ASSUME NEW c \in Clients, CloseEnds(c) \/ Detach(c) \/ Die(c)
        PROVE  OneOfThree'
    BY <1>2, <2>6, SortedForget DEF CloseEnds, Detach, Die, Gone
  <2>7. ASSUME NEW b \in Blocks,
               CloseBlock(b) \/ \E c \in Clients : CreateBlock(c, b)
        PROVE  OneOfThree'
    <3>1. topics' = topics /\ items' = items /\ topic_precache' = topic_precache
          /\ item_precache' = item_precache
      BY <2>7 DEF CloseBlock, CreateBlock, tables, caches
    <3>. QED BY <1>2, <2>0, <3>1, SortedOther
  <2>8. ASSUME NEW c \in Clients, AddOneFails(c) \/ Capture(c) \/ RemoveOne(c)
        PROVE  OneOfThree'
    <3>1. topics' = topics /\ items' = items /\ topic_precache' = topic_precache
          /\ item_precache' = item_precache
      BY <2>8 DEF AddOneFails, Capture, RemoveOne, tables, caches
    <3>. QED BY <1>2, <2>0, <3>1, SortedOther
  <2>9. ASSUME NEW c \in Clients, NEW p \in Pairs, RemoveOrphanedStream(c, p)
        PROVE  OneOfThree'
    <3>1. topics' = topics /\ items' = items /\ topic_precache' = topic_precache
          /\ item_precache' = item_precache
      BY <2>9 DEF RemoveOrphanedStream, tables, caches
    <3>. QED BY <1>2, <2>0, <3>1, SortedOther
  <2>10. CASE UNCHANGED vars
    <3>1. topics' = topics /\ items' = items /\ topic_precache' = topic_precache
          /\ item_precache' = item_precache
      BY <2>10 DEF vars, tables, caches
    <3>. QED BY <1>2, <2>0, <3>1, SortedOther
  <2>. QED BY <1>2, <2>1, <2>2, <2>3, <2>4, <2>5, <2>6, <2>7, <2>8, <2>9,
              <2>10 DEF Next
<1>. QED BY <1>1, <1>2, BInvHolds, PTL DEF Spec

-----------------------------------------------------------------------------
(* What goes wrong by itself: nothing, as long as no message fails, no     *)
(* process is killed, and none detaches with its blocks open.              *)

OrderlyInv ==
  /\ faults = 0 => missed = {}
  /\ faults = 0 /\ dead = {} => \A p \in Pairs : left[p] = 0

(* Between the ADD and the capture of its buffer, no other process and no  *)
(* orphan's removal can have taken the stream away.                        *)
LEMMA CaptureFinds ==
  ASSUME BInv, NEW c \in Clients, call[c].op = "capture", call[c].pair \notin missed
  PROVE  refs[call[c].pair] > 0
<1> DEFINE k == call[c]
           p == k.pair
<1>1. k \in Calls /\ k # Idle
  BY DEF BInv, TypeOK, Idle
<1>2. k.block \in Blocks /\ p \in Pairs
  BY <1>1, CallKinds
<1>3. owner[k.block] = c /\ p \in Table(k.block) \ Pending(k)
  BY <1>1 DEF BInv, Fits, CaptureFits
<1>4. \A d \in Clients : InCall(d, k.block) => d = c
  BY <1>3 DEF InCall, BInv, Fits
<1>5. k.block \in Holders(p)
  BY <1>2, <1>3, <1>4 DEF Holders, Counted, Uncounted, Pending
<1>6. Cardinality(Holders(p)) \in Nat /\ Cardinality(Holders(p)) # 0
  BY <1>5, HoldersFinite, FS_EmptySet
<1>7. refs[p] = Cardinality(Holders(p)) + left[p] /\ left[p] \in Nat
  BY <1>2 DEF BInv, TypeOK, Accounted
<1>. QED BY <1>6, <1>7

LEMMA OrderlyKept ==
  ASSUME BInv, OrderlyInv, [Next]_vars
  PROVE  OrderlyInv'
<1>0. faults \in Nat
  BY BlocksAssumption DEF BInv, TypeOK
<1>1. ASSUME UNCHANGED <<dead, faults, missed, left>>
      PROVE  OrderlyInv'
  BY <1>1 DEF OrderlyInv
<1>2. ASSUME faults' = faults + 1
      PROVE  OrderlyInv'
  BY <1>0, <1>2 DEF OrderlyInv
<1>3. ASSUME NEW b \in Blocks,
             \/ \E ts \in SUBSET Topics, is \in SUBSET Items : Add(b, ts, is)
             \/ \E ts \in SUBSET Topics : AddTopics(b, ts)
             \/ \E is \in SUBSET Items : AddItems(b, is)
             \/ RemoveTopic(b) \/ RemoveItem(b) \/ CloseBlock(b)
             \/ \E c \in Clients : CreateBlock(c, b)
      PROVE  OrderlyInv'
  BY <1>1, <1>3 DEF Add, AddTopics, AddItems, RemoveTopic, RemoveItem,
                    CloseBlock, CreateBlock
<1>4. ASSUME NEW c \in Clients, AddOne(c) \/ RemoveEnds(c) \/ CloseEnds(c)
      PROVE  OrderlyInv'
  BY <1>1, <1>4 DEF AddOne, RemoveEnds, CloseEnds
<1>5. ASSUME NEW c \in Clients, AddOneFails(c) \/ Die(c)
      PROVE  OrderlyInv'
  BY <1>2, <1>5 DEF AddOneFails, Die
<1>6. ASSUME NEW c \in Clients, RemoveOne(c)
      PROVE  OrderlyInv'
  BY <1>1, <1>2, <1>6 DEF RemoveOne
<1>7. ASSUME NEW c \in Clients, Capture(c)
      PROVE  OrderlyInv'
  <2>1. CASE UNCHANGED <<missed, left>>
    BY <1>1, <1>7, <2>1 DEF Capture
  <2>2. CASE faults = 0
    <3>1. call[c].op = "capture" /\ call[c].pair \notin missed
      BY <1>7, <2>2 DEF Capture, OrderlyInv
    <3>. QED BY <1>7, <2>1, <3>1, CaptureFinds DEF Capture
  <2>3. CASE faults # 0
    BY <1>7, <2>3 DEF Capture, OrderlyInv
  <2>. QED BY <2>2, <2>3
<1>8. ASSUME NEW c \in Clients, Detach(c)
      PROVE  OrderlyInv'
  BY <1>8 DEF Detach, Gone, OrderlyInv
<1>9. ASSUME NEW c \in Clients, NEW p \in Pairs, RemoveOrphanedStream(c, p)
      PROVE  OrderlyInv'
  BY <1>9 DEF RemoveOrphanedStream, OrderlyInv
<1>10. CASE UNCHANGED vars
  BY <1>1, <1>10 DEF vars
<1>. QED BY <1>3, <1>4, <1>5, <1>6, <1>7, <1>8, <1>9, <1>10 DEF Next

LEMMA OrderlyHolds == Spec => []OrderlyInv
<1>1. Init => OrderlyInv
  BY DEF Init, OrderlyInv
<1>. QED BY <1>1, OrderlyKept, BInvHolds, PTL DEF Spec

(* However the calls of the processes interleave: unless a message fails   *)
(* or a process is killed, no ADD is lost and no capture throws; and until *)
(* a process detaches with blocks open, the engine counts just the streams *)
(* of blocks, so that with the last block of a pair its stream goes.       *)
OrderlyCounts ==
  /\ faults = 0 => missed = {}
  /\ faults = 0 /\ dead = {} =>
       \A p \in Pairs : refs[p] = Cardinality(Holders(p))

THEOREM NothingLostUnlessFaulty == Spec => []OrderlyCounts
<1>1. ASSUME BInv, OrderlyInv, faults = 0, dead = {}, NEW p \in Pairs
      PROVE  refs[p] = Cardinality(Holders(p))
  <2>1. Accounted(p) /\ left[p] = 0
    BY <1>1 DEF BInv, OrderlyInv
  <2>2. Cardinality(Holders(p)) \in Nat
    BY HoldersFinite
  <2>. QED BY <2>1, <2>2 DEF Accounted
<1>2. BInv /\ OrderlyInv => OrderlyCounts
  BY <1>1 DEF OrderlyInv, OrderlyCounts
<1>. QED BY <1>2, BInvHolds, OrderlyHolds, PTL

(* A process that detaches with its blocks open, in no call of the         *)
(* library's, leaves of a pair one reference less than it has blocks with  *)
(* that pair: DllMain sends one REMOVE for each local buffer.  So it       *)
(* leaves none just if no two of its blocks share one.                     *)
Sharing(c, p) == Cardinality(Holders(p) \cap OwnedBy(c))

DetachLeavesShares ==
  [][\A c \in Clients :
       Detach(c) /\ call[c] = Idle =>
         \A p \in Pairs \ missed :
           left'[p] - left[p] = IF Sharing(c, p) = 0 THEN 0
                                ELSE Sharing(c, p) - 1]_vars

LEMMA LocalIfHeld ==
  ASSUME BInv, NEW c \in Clients, call[c] = Idle, NEW p \in Pairs \ missed,
         Sharing(c, p) # 0
  PROVE  p \in Local(c)
<1>1. PICK b : b \in Holders(p) /\ b \in OwnedBy(c)
  <2>1. Holders(p) \cap OwnedBy(c) # {}
    BY FS_EmptySet DEF Sharing
  <2>. QED BY <2>1
<1>2. b \in Blocks /\ owner[b] = c /\ p \in Table(b)
  BY <1>1 DEF Holders, OwnedBy, Counted
<1>3. \A d \in Clients : ~InCall(d, b)
  BY <1>2 DEF BInv, Fits, InCall
<1>4. p \in captured[b]
  BY <1>2, <1>3 DEF BInv, IsRead
<1>. QED BY <1>1, <1>4 DEF Local

THEOREM DetachGivesOneBack == Spec => DetachLeavesShares
<1>1. ASSUME BInv, NEW c \in Clients, Detach(c), call[c] = Idle,
             NEW p \in Pairs \ missed
      PROVE  left'[p] - left[p] = IF Sharing(c, p) = 0 THEN 0
                                  ELSE Sharing(c, p) - 1
  <2>1. Sharing(c, p) \in Nat /\ (p \in Local(c) => Sharing(c, p) > 0)
    BY <1>1, HeldSplit DEF Sharing
  <2>2. p \in Local(c) <=> Sharing(c, p) # 0
    BY <1>1, <2>1, LocalIfHeld
  <2>3. left'[p] = left[p] + Sharing(c, p) - (IF p \in Local(c) THEN 1 ELSE 0)
    BY <1>1 DEF Detach, Gone, Sharing
  <2>4. left[p] \in Nat
    BY <1>1 DEF BInv, TypeOK
  <2>. QED BY <2>1, <2>2, <2>3, <2>4
<1>2. BInv /\ [Next]_vars =>
        [\A c \in Clients :
           Detach(c) /\ call[c] = Idle =>
             \A p \in Pairs \ missed :
               left'[p] - left[p] = IF Sharing(c, p) = 0 THEN 0
                                    ELSE Sharing(c, p) - 1]_vars
  BY <1>1
<1>. QED BY <1>2, BInvHolds, PTL DEF Spec, DetachLeavesShares
=============================================================================
