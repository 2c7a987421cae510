-------------------------- MODULE BlockNamesProofs --------------------------
(***************************************************************************)
(* Proof that a block of BlockStreams forgets no name it was given, for    *)
(* any number of processes, blocks, topics, items and faults.              *)
(*                                                                         *)
(* TOSDB_Add empties the pre-cache when the first of its pairs succeeds,   *)
(* whatever waits there.  Nothing is lost because all of it is among the   *)
(* pairs the call still asks for, unless the ADD of one of them failed:    *)
(* that is what Waits adds to the invariant of BlockStreamsProofs.         *)
(***************************************************************************)
EXTENDS BlockStreamsProofs

InPair(x, p) == x \in {p[1], p[2]}

(* The pairs a call asks for.                                              *)
Asked(k) == IF k.op \in {"add", "capture"} THEN k.fresh \cup k.late ELSE {}

Waiting(b) == topic_precache[b] \cup item_precache[b]

Waits(c) ==
  call[c].op \in {"add", "capture"} =>
    \A x \in Waiting(call[c].block) :
      \E p \in Asked(call[c]) \cup missed : InPair(x, p)

AllWait == \A c \in Clients : Waits(c)

NInv == BInv /\ OneOfThree /\ AllWait

(* What NothingForgotten says of one block.                                *)
Kept(b) ==
  /\ \A x \in Listed(b) \ Listed(b)' :
       (\E p \in Asking(b)' : x \in {p[1], p[2]}) \/ MayForget(b, x)
  /\ \A p \in Asking(b) \ Asking(b)' : \A x \in {p[1], p[2]} :
       x \in Listed(b)' \/ MayForget(b, x)

-----------------------------------------------------------------------------
(* Frames. *)

(* The blocks of a call under way are its process's own.                   *)
LEMMA OwnBlock ==
  ASSUME BInv, NEW c \in Clients, call[c].op # "idle"
  PROVE  /\ call[c] # Idle /\ call[c] \in Calls
         /\ call[c].block \in Blocks /\ owner[call[c].block] = c
<1>1. call[c] # Idle /\ call[c] \in Calls
  BY DEF Idle, BInv, TypeOK
<1>. QED BY <1>1, CallKinds DEF BInv, Fits

LEMMA MissedGrows == [Next]_vars => missed \subseteq missed'
<1>1. \A b \in Blocks : RemoveTopic(b) \/ RemoveItem(b) \/ CloseBlock(b)
        => missed \subseteq missed'
  BY DEF RemoveTopic, RemoveItem, CloseBlock
<1>2. \A b \in Blocks, ts \in SUBSET Topics, is \in SUBSET Items :
        Add(b, ts, is) => missed \subseteq missed'
  BY DEF Add, Miss
<1>3. \A c \in Clients :
        (\E b \in Blocks : CreateBlock(c, b))
          \/ (\E p \in Pairs : RemoveOrphanedStream(c, p))
          \/ AddOne(c) \/ AddOneFails(c) \/ Capture(c)
        => missed \subseteq missed'
  BY DEF CreateBlock, RemoveOrphanedStream, AddOne, AddOneFails, Capture, Miss
<1>4. \A c \in Clients :
        RemoveOne(c) \/ RemoveEnds(c) \/ CloseEnds(c) \/ Detach(c) \/ Die(c)
        => missed \subseteq missed'
  BY DEF RemoveOne, RemoveEnds, CloseEnds, Detach, Die, Gone, Miss
<1>. QED BY <1>1, <1>2, <1>3, <1>4 DEF Next, vars, AddTopics, AddItems

LEMMA WaitsKept ==
  ASSUME NEW c \in Clients, Waits(c), missed \subseteq missed',
         call'[c] = call[c],
         call[c].op \in {"add", "capture"} =>
           /\ topic_precache'[call[c].block] \subseteq topic_precache[call[c].block]
           /\ item_precache'[call[c].block] \subseteq item_precache[call[c].block]
  PROVE  Waits(c)'
BY DEF Waits, Waiting, Asked

LEMMA WaitsIdle ==
  ASSUME NEW c \in Clients, call'[c].op \notin {"add", "capture"}
  PROVE  Waits(c)'
BY DEF Waits

(* Nothing leaves the block, and what is not asked for any more has failed.*)
LEMMA KeptIfListed ==
  ASSUME NEW b \in Blocks, Listed(b) \subseteq Listed(b)',
         Asking(b) \ Asking(b)' \subseteq missed'
  PROVE  Kept(b)
BY DEF Kept, MayForget

LEMMA ListedSame ==
  ASSUME NEW b \in Blocks,
         topics[b] \subseteq topics'[b], items[b] \subseteq items'[b],
         topic_precache[b] \subseteq topic_precache'[b],
         item_precache[b] \subseteq item_precache'[b]
  PROVE  Listed(b) \subseteq Listed(b)'
BY DEF Listed, GetTopicNames, GetItemNames, GetPreCachedTopicNames,
       GetPreCachedItemNames

(* What a block asks for, by its process's call.                           *)
LEMMA AskingIs ==
  ASSUME NEW b \in Blocks
  PROVE  /\ call[owner[b]].op \notin {"add", "capture"} => Asking(b) = {}
         /\ call[owner[b]].block # b => Asking(b) = {}
         /\ call[owner[b]].op \in {"add", "capture"} /\ call[owner[b]].block = b
              => Asking(b) = Asked(call[owner[b]])
BY DEF Asking, Asked, Uncounted

(* The same after the step.                                                *)
LEMMA AskingNext ==
  ASSUME NEW b \in Blocks
  PROVE  /\ call'[owner'[b]].op \notin {"add", "capture"} => Asking(b)' = {}
         /\ call'[owner'[b]].op \in {"add", "capture"} /\ call'[owner'[b]].block = b
              => Asking(b)' = Asked(call'[owner'[b]])
BY DEF Asking, Asked, Uncounted

(* The step is of another process, or asks for nothing before.             *)
LEMMA AskingSame ==
  ASSUME NEW b \in Blocks, owner'[b] = owner[b],
         \/ call'[owner[b]] = call[owner[b]]
         \/ call[owner[b]].op \notin {"add", "capture"}
         \/ call[owner[b]].block # b
  PROVE  Asking(b) \ Asking(b)' = {}
<1>1. CASE call'[owner[b]] = call[owner[b]]
  BY <1>1 DEF Asking, Uncounted
<1>2. CASE call[owner[b]].op \notin {"add", "capture"} \/ call[owner[b]].block # b
  BY <1>2, AskingIs
<1>. QED BY <1>1, <1>2

-----------------------------------------------------------------------------
(* The actions. *)

StepOK ==
  /\ \A c \in Clients : Waits(c)'
  /\ \A b \in Blocks : owner[b] # Nobody /\ owner'[b] = owner[b] => Kept(b)

(* A step that changes no name and no call.                                *)
LEMMA NQuiet ==
  ASSUME NInv, missed \subseteq missed', call' = call,
         topics' = topics, items' = items,
         topic_precache' = topic_precache, item_precache' = item_precache
  PROVE  StepOK
<1>1. ASSUME NEW c \in Clients PROVE Waits(c)'
  BY WaitsKept DEF NInv, AllWait
<1>2. ASSUME NEW b \in Blocks, owner'[b] = owner[b] PROVE Kept(b)
  BY <1>2, AskingSame, ListedSame, KeptIfListed
<1>. QED BY <1>1, <1>2 DEF StepOK

(* A step of one process's call, which is about block b.                   *)
LEMMA NOthers ==
  ASSUME NInv, NEW c \in Clients, NEW b \in Blocks, owner[b] = c,
         missed \subseteq missed',
         \A d \in Clients \ {c} : call'[d] = call[d],
         \A e \in Blocks \ {b} :
           /\ topics'[e] = topics[e] /\ items'[e] = items[e]
           /\ topic_precache'[e] = topic_precache[e]
           /\ item_precache'[e] = item_precache[e],
         call[c].op = "idle" \/ call[c].block = b,
         Waits(c)', owner'[b] = owner[b] => Kept(b)
  PROVE  StepOK
<1>1. ASSUME NEW d \in Clients, d # c PROVE Waits(d)'
  <2>1. CASE call[d].op = "idle"
    BY <1>1, <2>1, WaitsIdle
  <2>2. CASE call[d].op # "idle"
    <3>1. call[d].block \in Blocks \ {b}
      BY <1>1, <2>2, OwnBlock DEF NInv
    <3>. QED BY <1>1, <3>1, WaitsKept DEF NInv, AllWait
  <2>. QED BY <2>1, <2>2
<1>2. ASSUME NEW e \in Blocks, e # b, owner'[e] = owner[e], owner[e] # Nobody
      PROVE  Kept(e)
  <2>1. \/ call'[owner[e]] = call[owner[e]]
        \/ call[owner[e]].op \notin {"add", "capture"}
        \/ call[owner[e]].block # e
    <3>1. owner[e] \in Clients
      BY <1>2 DEF NInv, BInv, TypeOK
    <3>2. CASE owner[e] # c
      BY <3>1, <3>2
    <3>3. CASE owner[e] = c
      BY <1>2, <3>3
    <3>. QED BY <3>2, <3>3
  <2>2. Listed(e) \subseteq Listed(e)'
    BY <1>2, ListedSame
  <2>. QED BY <1>2, <2>1, <2>2, AskingSame, KeptIfListed
<1>. QED BY <1>1, <1>2 DEF StepOK

LEMMA NAdd ==
  ASSUME NInv, NEW b \in Blocks, NEW c \in Clients, owner[b] = c,
         NEW ts \in SUBSET Topics, NEW is \in SUBSET Items, Add(b, ts, is)
  PROVE  StepOK
<1> DEFINE tdiff == (ts \cup topic_precache[b]) \ topics[b]
           idiff == (is \cup item_precache[b]) \ items[b]
           fresh == NewTopics(b, tdiff, is)
           late  == topics[b] \X idiff
<1>1. /\ topics' = topics /\ items' = items /\ missed' = missed /\ owner' = owner
      /\ call[c] = Idle
      /\ topic_precache' = IF is \cup item_precache[b] \cup items[b] = {}
                           THEN [topic_precache EXCEPT ![b] = @ \cup tdiff]
                           ELSE topic_precache
      /\ item_precache' = IF tdiff = {} /\ topics[b] = {}
                          THEN [item_precache EXCEPT ![b] = @ \cup is]
                          ELSE item_precache
      /\ call' = IF fresh \cup late = {}
                 THEN call
                 ELSE [call EXCEPT ![owner[b]] = Adding(b, fresh, late)]
  BY DEF Add, Ready, tables
<1>2. /\ topic_precache \in [Blocks -> SUBSET Topics]
      /\ item_precache \in [Blocks -> SUBSET Items]
      /\ topics \in [Blocks -> SUBSET Topics] /\ items \in [Blocks -> SUBSET Items]
      /\ call \in [Clients -> Calls]
  BY <1>1 DEF NInv, BInv, TypeOK
<1>3. Sorted(b)
  BY DEF NInv, OneOfThree
<1>4. /\ topic_precache[b] \subseteq topic_precache'[b]
      /\ item_precache[b] \subseteq item_precache'[b]
      /\ \A e \in Blocks \ {b} : /\ topic_precache'[e] = topic_precache[e]
                                 /\ item_precache'[e] = item_precache[e]
  <2> HIDE DEF tdiff
  <2>. QED BY <1>1, <1>2
<1>5. call[c].op = "idle"
  BY <1>1 DEF Idle
<1>6. \A d \in Clients \ {c} : call'[d] = call[d]
  <2> HIDE DEF fresh, late
  <2>. QED BY <1>1, <1>2
<1>7. owner'[b] = owner[b] => Kept(b)
  BY <1>1, <1>4, <1>5, AskingSame, ListedSame, KeptIfListed
<1>8. Waits(c)'
  <2>1. CASE fresh \cup late = {}
    <3> HIDE DEF fresh, late
    <3>. QED BY <1>1, <1>2, <1>5, <2>1, WaitsIdle
  <2>2. CASE fresh \cup late # {}
    <3>1. call'[c] = Adding(b, fresh, late)
      <4> HIDE DEF fresh, late
      <4>. QED BY <1>1, <1>2, <2>2
    <3>2. call'[c].block = b /\ Asked(call'[c]) = fresh \cup late
      <4> HIDE DEF fresh, late
      <4>. QED BY <3>1 DEF Adding, Asked
    <3>3. topic_precache' = topic_precache /\ item_precache' = item_precache
      BY <1>1, <2>2 DEF NewTopics
    <3>4. ASSUME NEW x \in Waiting(b)
          PROVE  \E p \in fresh \cup late : InPair(x, p)
      <4>1. topics[b] = {} /\ items[b] = {} /\ tdiff # {}
            /\ is \cup item_precache[b] # {}
        BY <1>3, <2>2, <3>4 DEF Sorted, NewTopics, Waiting
      <4>2. fresh = tdiff \X (is \cup item_precache[b])
        BY <4>1 DEF NewTopics
      <4>3. CASE x \in topic_precache[b]
        <5>1. x \in tdiff
          BY <4>1, <4>3
        <5>2. PICK i \in is \cup item_precache[b] : TRUE
          BY <4>1
        <5>3. <<x, i>> \in fresh
          BY <4>2, <5>1, <5>2
        <5>. QED BY <5>3 DEF InPair
      <4>4. CASE x \in item_precache[b]
        <5>1. PICK t \in tdiff : TRUE
          BY <4>1
        <5>2. <<t, x>> \in fresh
          BY <4>2, <4>4, <5>1
        <5>. QED BY <5>2 DEF InPair
      <4>. QED BY <3>4, <4>3, <4>4 DEF Waiting
    <3> HIDE DEF fresh, late
    <3>5. Waiting(call[c].block)' = Waiting(b)
      BY <3>2, <3>3 DEF Waiting
    <3>6. \A x \in Waiting(call[c].block)' :
            \E p \in Asked(call[c])' \cup missed' : InPair(x, p)
      BY <3>2, <3>4, <3>5 DEF Asked
    <3>. QED BY <3>6 DEF Waits
  <2>. QED BY <2>1, <2>2
<1> HIDE DEF tdiff, idiff, fresh, late
<1>. QED BY <1>1, <1>2, <1>4, <1>5, <1>6, <1>7, <1>8, NOthers

(* What waits when the first pair of an Add succeeds is in that pair, is   *)
(* asked for, or has failed.                                               *)
LEMMA NAddOne ==
  ASSUME NInv, NEW c \in Clients, AddOne(c)
  PROVE  StepOK
<1>1. PICK b \in Blocks, fresh \in SUBSET Pairs, late \in SUBSET Pairs :
        /\ owner[b] = c
        /\ call[c].block = b /\ call[c].fresh = fresh /\ call[c].late = late
        /\ \A t \in Topics, i \in Items : <<t, i>> \in late => t \in topics[b]
  BY AddKnows DEF AddOne, NInv
<1>2. PICK p \in fresh \cup late :
        /\ fresh = {} \/ p \in fresh
        /\ items' = [items EXCEPT ![b] = @ \cup {p[2]}]
        /\ IF fresh # {}
           THEN /\ topics' = [topics EXCEPT ![b] = @ \cup {p[1]}]
                /\ ClearPreCache(b)
           ELSE UNCHANGED <<topics, caches>>
        /\ call' = [call EXCEPT ![c] = Capturing(b, p, fresh \ {p}, late \ {p})]
  <2>1. PICK p \in Nexts(call[c]) :
          /\ items' = [items EXCEPT ![call[c].block] = @ \cup {p[2]}]
          /\ IF call[c].fresh # {}
             THEN /\ topics' = [topics EXCEPT ![call[c].block] = @ \cup {p[1]}]
                  /\ ClearPreCache(call[c].block)
             ELSE UNCHANGED <<topics, caches>>
          /\ call' = [call EXCEPT ![c] = Capturing(call[c].block, p,
                         call[c].fresh \ {p}, call[c].late \ {p})]
    BY DEF AddOne
  <2>2. p \in fresh \cup late /\ (fresh = {} \/ p \in fresh)
    BY <1>1, <2>1 DEF Nexts
  <2>3. call[c].fresh = fresh /\ call[c].late = late /\ call[c].block = b
    BY <1>1
  <2>. QED BY <2>1, <2>2, <2>3
<1>3. owner' = owner /\ missed' = missed /\ call[c].op = "add"
  BY DEF AddOne
<1>4. PICK t \in Topics, i \in Items : p = <<t, i>>
  BY DEF Pairs
<1>5. /\ topics \in [Blocks -> SUBSET Topics] /\ items \in [Blocks -> SUBSET Items]
      /\ topic_precache \in [Blocks -> SUBSET Topics]
      /\ item_precache \in [Blocks -> SUBSET Items]
      /\ call \in [Clients -> Calls] /\ Sorted(b) /\ Waits(c)
  BY DEF NInv, BInv, TypeOK, OneOfThree, AllWait
<1>6. /\ items'[b] = items[b] \cup {i}
      /\ topics[b] \subseteq topics'[b] /\ t \in topics'[b]
  BY <1>1, <1>2, <1>4, <1>5
<1>7. \/ /\ topic_precache' = topic_precache /\ item_precache' = item_precache
         /\ topic_precache[b] = {} /\ item_precache[b] = {}
      \/ /\ topic_precache' = [topic_precache EXCEPT ![b] = {}]
         /\ item_precache' = [item_precache EXCEPT ![b] = {}]
  <2>1. CASE fresh = {}
    <3>1. t \in topics[b]
      BY <1>1, <1>2, <1>4, <2>1
    <3>. QED BY <1>2, <1>5, <2>1, <3>1 DEF Sorted, caches
  <2>2. CASE fresh # {}
    BY <1>2, <2>2 DEF ClearPreCache
  <2>. QED BY <2>1, <2>2
<1>8. topic_precache'[b] = {} /\ item_precache'[b] = {}
  BY <1>5, <1>7
<1>9. /\ call'[c].op = "capture" /\ call'[c].block = b
      /\ Asked(call'[c]) = (fresh \cup late) \ {p}
  BY <1>2, <1>5 DEF Capturing, Asked
<1>10. Waits(c)'
  <2>1. Waiting(call[c].block)' = {}
    BY <1>8, <1>9 DEF Waiting
  <2>. QED BY <2>1 DEF Waits
<1>11. Kept(b)
  <2>1. Asking(b) = fresh \cup late /\ Asking(b)' = (fresh \cup late) \ {p}
    BY <1>1, <1>3, <1>9, AskingIs, AskingNext DEF Asked
  <2>2. t \in Listed(b)' /\ i \in Listed(b)'
    BY <1>6 DEF Listed, GetTopicNames, GetItemNames
  <2>3. ASSUME NEW x \in Listed(b) \ Listed(b)'
        PROVE  (\E q \in Asking(b)' : x \in {q[1], q[2]}) \/ MayForget(b, x)
    <3>1. x \in Waiting(b)
      BY <1>6, <2>3 DEF Listed, GetTopicNames, GetItemNames, Waiting,
                        GetPreCachedTopicNames, GetPreCachedItemNames
    <3>2. PICK q \in fresh \cup late \cup missed : x \in {q[1], q[2]}
      BY <1>1, <1>3, <1>5, <3>1 DEF Waits, Asked, InPair
    <3>3. q # p
      BY <1>4, <2>2, <2>3, <3>2
    <3>4. q \in Asking(b)' \/ q \in missed'
      BY <1>3, <2>1, <3>2, <3>3
    <3>. QED BY <3>2, <3>4 DEF MayForget
  <2>4. \A q \in Asking(b) \ Asking(b)' : \A x \in {q[1], q[2]} : x \in Listed(b)'
    BY <1>4, <2>1, <2>2
  <2>. QED BY <2>3, <2>4 DEF Kept
<1>12. \A d \in Clients \ {c} : call'[d] = call[d]
  BY <1>2, <1>5
<1>13. \A e \in Blocks \ {b} :
         /\ topics'[e] = topics[e] /\ items'[e] = items[e]
         /\ topic_precache'[e] = topic_precache[e]
         /\ item_precache'[e] = item_precache[e]
  BY <1>2, <1>5, <1>7 DEF caches
<1>. QED BY <1>1, <1>3, <1>10, <1>11, <1>12, <1>13, NOthers

(* Nothing is renamed; what a call asks for, it asks for still, or it has  *)
(* failed.                                                                 *)
LEMMA NAsks ==
  ASSUME NInv, NEW c \in Clients, call[c].op \in {"add", "capture"},
         \A d \in Clients \ {c} : call'[d] = call[d],
         missed \subseteq missed', owner' = owner,
         topics' = topics, items' = items,
         topic_precache' = topic_precache, item_precache' = item_precache,
         \/ call'[c].op \notin {"add", "capture"}
         \/ call'[c].block = call[c].block,
         Asked(call[c]) \subseteq Asked(call'[c]) \cup missed'
  PROVE  StepOK
<1>1. PICK b \in Blocks : owner[b] = c /\ call[c].block = b
  BY OwnBlock DEF NInv
<1>2. Waits(c)'
  <2>1. CASE call'[c].op \notin {"add", "capture"}
    BY <2>1, WaitsIdle
  <2>2. CASE call'[c].op \in {"add", "capture"}
    <3>1. Waiting(call[c].block)' = Waiting(b)
      BY <1>1, <2>2 DEF Waiting
    <3>2. \A x \in Waiting(b) : \E p \in Asked(call[c]) \cup missed : InPair(x, p)
      BY <1>1 DEF NInv, AllWait, Waits
    <3>3. Asked(call[c])' = Asked(call'[c])
      BY DEF Asked
    <3>4. \A x \in Waiting(call[c].block)' :
            \E p \in Asked(call[c])' \cup missed' : InPair(x, p)
      BY <3>1, <3>2, <3>3
    <3>. QED BY <3>4 DEF Waits
  <2>. QED BY <2>1, <2>2
<1>3. Kept(b)
  <2>1. Asking(b) = Asked(call[c])
    BY <1>1, AskingIs
  <2>2. Asked(call'[c]) \subseteq Asking(b)'
    BY <1>1, AskingNext DEF Asked
  <2>3. Listed(b) \subseteq Listed(b)'
    BY ListedSame
  <2>. QED BY <2>1, <2>2, <2>3, KeptIfListed
<1>. QED BY <1>1, <1>2, <1>3, NOthers

LEMMA NAddOneFails ==
  ASSUME NInv, NEW c \in Clients, AddOneFails(c)
  PROVE  StepOK
<1>1. PICK p \in Nexts(call[c]) :
        /\ missed' = missed \cup {p}
        /\ call' = [call EXCEPT ![c] = GoOn(call[c].block, call[c].fresh \ {p},
                                            call[c].late \ {p})]
  BY DEF AddOneFails, Miss
<1>2. /\ call[c].op = "add" /\ owner' = owner
      /\ topics' = topics /\ items' = items
      /\ topic_precache' = topic_precache /\ item_precache' = item_precache
  BY DEF AddOneFails, tables, caches
<1>3. call \in [Clients -> Calls]
  BY DEF NInv, BInv, TypeOK
<1>4. call'[c] = GoOn(call[c].block, call[c].fresh \ {p}, call[c].late \ {p})
  BY <1>1, <1>3
<1>5. \/ call'[c].op \notin {"add", "capture"}
      \/ call'[c].block = call[c].block
  BY <1>4 DEF GoOn, Idle, Adding
<1>6. Asked(call[c]) \subseteq Asked(call'[c]) \cup missed'
  <2>1. Asked(call[c]) = call[c].fresh \cup call[c].late
    BY <1>2 DEF Asked
  <2>2. Asked(call'[c]) = (call[c].fresh \ {p}) \cup (call[c].late \ {p})
    BY <1>4 DEF GoOn, Idle, Adding, Asked
  <2>. QED BY <1>1, <2>1, <2>2
<1>7. \A d \in Clients \ {c} : call'[d] = call[d]
  BY <1>1, <1>3
<1>. QED BY <1>1, <1>2, <1>5, <1>6, <1>7, NAsks

LEMMA NCapture ==
  ASSUME NInv, NEW c \in Clients, Capture(c)
  PROVE  StepOK
<1>1. /\ call[c].op = "capture" /\ owner' = owner
      /\ topics' = topics /\ items' = items
      /\ topic_precache' = topic_precache /\ item_precache' = item_precache
  BY DEF Capture, tables, caches
<1>2. call \in [Clients -> Calls]
  BY DEF NInv, BInv, TypeOK
<1>3. \/ /\ call' = [call EXCEPT ![c] = GoOn(call[c].block, call[c].fresh,
                                             call[c].late)]
         /\ missed' = missed
      \/ /\ call' = [call EXCEPT ![c] = Idle]
         /\ missed' = missed \cup {call[c].pair} \cup call[c].fresh \cup call[c].late
  BY DEF Capture, Miss
<1>4. Asked(call[c]) = call[c].fresh \cup call[c].late
  BY <1>1 DEF Asked
<1>5. CASE /\ call' = [call EXCEPT ![c] = GoOn(call[c].block, call[c].fresh,
                                              call[c].late)]
           /\ missed' = missed
  <2>1. call'[c] = GoOn(call[c].block, call[c].fresh, call[c].late)
    BY <1>2, <1>5
  <2>2. \/ call'[c].op \notin {"add", "capture"}
        \/ call'[c].block = call[c].block
    BY <2>1 DEF GoOn, Idle, Adding
  <2>3. Asked(call'[c]) = call[c].fresh \cup call[c].late
    BY <2>1 DEF GoOn, Idle, Adding, Asked
  <2>4. \A d \in Clients \ {c} : call'[d] = call[d]
    BY <1>2, <1>5
  <2>. QED BY <1>1, <1>4, <1>5, <2>2, <2>3, <2>4, NAsks
<1>6. CASE /\ call' = [call EXCEPT ![c] = Idle]
           /\ missed' = missed \cup {call[c].pair} \cup call[c].fresh \cup call[c].late
  <2>1. call'[c].op \notin {"add", "capture"}
    BY <1>2, <1>6 DEF Idle
  <2>2. \A d \in Clients \ {c} : call'[d] = call[d]
    BY <1>2, <1>6
  <2>. QED BY <1>1, <1>4, <1>6, <2>1, <2>2, NAsks
<1>. QED BY <1>3, <1>5, <1>6

(* A block whose process is in no call is its process's.                   *)
LEMMA ReadyCaller ==
  ASSUME BInv, NEW b \in Blocks, Ready(b)
  PROVE  \E c \in Clients : owner[b] = c /\ call[c].op = "idle"
<1>1. owner[b] \in Clients \cup {Nobody}
  BY DEF BInv, TypeOK
<1>2. owner[b] # Nobody /\ call[owner[b]] = Idle
  BY DEF Ready
<1>3. Idle.op = "idle"
  BY DEF Idle
<1>4. owner[b] \in Clients
  BY <1>1, <1>2
<1>. QED BY <1>2, <1>3, <1>4

(* The step names nothing anew in a block whose process asks for nothing.  *)
LEMMA NNoAsk ==
  ASSUME NInv, NEW c \in Clients, NEW b \in Blocks, owner[b] = c,
         call[c].op = "idle" \/ call[c].block = b,
         call[c].op \notin {"add", "capture"},
         call'[c].op \notin {"add", "capture"},
         \A d \in Clients \ {c} : call'[d] = call[d],
         missed \subseteq missed', owner' = owner,
         \A e \in Blocks \ {b} :
           /\ topics'[e] = topics[e] /\ items'[e] = items[e]
           /\ topic_precache'[e] = topic_precache[e]
           /\ item_precache'[e] = item_precache[e],
         \A x \in Listed(b) \ Listed(b)' : MayForget(b, x)
  PROVE  StepOK
<1>1. Asking(b) = {}
  BY AskingIs
<1>2. Kept(b)
  BY <1>1 DEF Kept
<1>. QED BY <1>2, WaitsIdle, NOthers

LEMMA NRemoveTopic ==
  ASSUME NInv, NEW b \in Blocks, RemoveTopic(b)
  PROVE  StepOK
<1>1. PICK t \in topics[b] \cup topic_precache[b] :
        IF t \in topics[b]
        THEN /\ call' = [call EXCEPT ![owner[b]] =
                           Removing(b, {t}, {}, {}, {t} \X items[b])]
             /\ UNCHANGED topic_precache
        ELSE /\ topic_precache' = [topic_precache EXCEPT ![b] = @ \ {t}]
             /\ UNCHANGED call
  BY DEF RemoveTopic
<1>2. /\ Ready(b) /\ missed' = missed /\ owner' = owner
      /\ topics' = topics /\ items' = items /\ item_precache' = item_precache
  BY DEF RemoveTopic, tables
<1>3. PICK c \in Clients : owner[b] = c /\ call[c].op = "idle"
  BY <1>2, ReadyCaller DEF NInv
<1>4. call \in [Clients -> Calls] /\ topic_precache \in [Blocks -> SUBSET Topics]
  BY DEF NInv, BInv, TypeOK
<1>5. /\ call'[c].op \notin {"add", "capture"}
      /\ \A d \in Clients \ {c} : call'[d] = call[d]
  BY <1>1, <1>3, <1>4 DEF Removing
<1>6. \A e \in Blocks \ {b} : topic_precache'[e] = topic_precache[e]
  BY <1>1, <1>4
<1>7. ASSUME NEW x \in Listed(b) \ Listed(b)'
      PROVE  MayForget(b, x)
  <2>1. topic_precache'[b] \in {topic_precache[b], topic_precache[b] \ {t}}
    BY <1>1, <1>4
  <2>2. Listed(b)' = Listed(b) \ {x}
    BY <1>2, <1>7, <2>1 DEF Listed, GetTopicNames, GetItemNames,
                           GetPreCachedTopicNames, GetPreCachedItemNames
  <2>. QED BY <2>2 DEF MayForget
<1>. QED BY <1>2, <1>3, <1>5, <1>6, <1>7, NNoAsk

LEMMA NRemoveItem ==
  ASSUME NInv, NEW b \in Blocks, RemoveItem(b)
  PROVE  StepOK
<1>1. PICK i \in items[b] \cup item_precache[b] :
        IF i \in items[b]
        THEN /\ call' = [call EXCEPT ![owner[b]] =
                           Removing(b, {}, {i}, {}, topics[b] \X {i})]
             /\ UNCHANGED item_precache
        ELSE /\ item_precache' = [item_precache EXCEPT ![b] = @ \ {i}]
             /\ UNCHANGED call
  BY DEF RemoveItem
<1>2. /\ Ready(b) /\ missed' = missed /\ owner' = owner
      /\ topics' = topics /\ items' = items /\ topic_precache' = topic_precache
  BY DEF RemoveItem, tables
<1>3. PICK c \in Clients : owner[b] = c /\ call[c].op = "idle"
  BY <1>2, ReadyCaller DEF NInv
<1>4. call \in [Clients -> Calls] /\ item_precache \in [Blocks -> SUBSET Items]
  BY DEF NInv, BInv, TypeOK
<1>5. /\ call'[c].op \notin {"add", "capture"}
      /\ \A d \in Clients \ {c} : call'[d] = call[d]
  BY <1>1, <1>3, <1>4 DEF Removing
<1>6. \A e \in Blocks \ {b} : item_precache'[e] = item_precache[e]
  BY <1>1, <1>4
<1>7. ASSUME NEW x \in Listed(b) \ Listed(b)'
      PROVE  MayForget(b, x)
  <2>1. item_precache'[b] \in {item_precache[b], item_precache[b] \ {i}}
    BY <1>1, <1>4
  <2>2. Listed(b)' = Listed(b) \ {x}
    BY <1>2, <1>7, <2>1 DEF Listed, GetTopicNames, GetItemNames,
                           GetPreCachedTopicNames, GetPreCachedItemNames
  <2>. QED BY <2>2 DEF MayForget
<1>. QED BY <1>2, <1>3, <1>5, <1>6, <1>7, NNoAsk

LEMMA NCloseBlock ==
  ASSUME NInv, NEW b \in Blocks, CloseBlock(b)
  PROVE  StepOK
<1>1. /\ Ready(b) /\ missed' = missed /\ owner' = owner
      /\ topics' = topics /\ items' = items
      /\ topic_precache' = topic_precache /\ item_precache' = item_precache
      /\ call' = [call EXCEPT ![owner[b]] = Closing(b, {}, Table(b))]
  BY DEF CloseBlock, tables, caches
<1>2. PICK c \in Clients : owner[b] = c /\ call[c].op = "idle"
  BY <1>1, ReadyCaller DEF NInv
<1>3. call \in [Clients -> Calls]
  BY DEF NInv, BInv, TypeOK
<1>4. /\ call'[c].op \notin {"add", "capture"}
      /\ \A d \in Clients \ {c} : call'[d] = call[d]
  BY <1>1, <1>2, <1>3 DEF Closing
<1>5. Listed(b) \subseteq Listed(b)'
  BY <1>1, ListedSame
<1>. QED BY <1>1, <1>2, <1>4, <1>5, NNoAsk

LEMMA NRemoveOne ==
  ASSUME NInv, NEW c \in Clients, RemoveOne(c)
  PROVE  StepOK
<1>1. PICK p \in call[c].todo :
        call' = [call EXCEPT ![c].done = @ \cup {p}, ![c].todo = @ \ {p}]
  BY DEF RemoveOne
<1>2. /\ call[c].op \in {"remove", "close"} /\ missed' = missed /\ owner' = owner
      /\ topics' = topics /\ items' = items
      /\ topic_precache' = topic_precache /\ item_precache' = item_precache
  BY DEF RemoveOne, tables, caches
<1>3. PICK b \in Blocks : owner[b] = c /\ call[c].block = b
  BY <1>2, OwnBlock DEF NInv
<1>4. call \in [Clients -> Calls] /\ call[c] \in Calls
  BY DEF NInv, BInv, TypeOK
<1>5. call'[c].op = call[c].op
  BY <1>1, <1>2, <1>4 DEF Calls, Idle
<1>6. \A d \in Clients \ {c} : call'[d] = call[d]
  BY <1>1, <1>4
<1>7. Listed(b) \subseteq Listed(b)'
  BY <1>2, ListedSame
<1>. QED BY <1>2, <1>3, <1>5, <1>6, <1>7, NNoAsk

(* What a removal leaves without streams waits in the pre-cache.           *)
LEMMA NRemoveEnds ==
  ASSUME NInv, NEW c \in Clients, RemoveEnds(c)
  PROVE  StepOK
<1>1. /\ call[c].op = "remove" /\ missed' = missed /\ owner' = owner
      /\ call' = [call EXCEPT ![c] = Idle]
  BY DEF RemoveEnds
<1>2. PICK b \in Blocks : owner[b] = c /\ call[c].block = b /\ call[c] # Idle
  BY <1>1, OwnBlock DEF NInv
<1> DEFINE ts == topics[b] \ call[c].topics
           is == items[b] \ call[c].items
<1>3. /\ topics' = [topics EXCEPT ![b] = IF is = {} THEN {} ELSE ts]
      /\ items' = [items EXCEPT ![b] = IF ts = {} THEN {} ELSE is]
      /\ topic_precache' = [topic_precache EXCEPT ![b] =
                              IF is = {} THEN @ \cup ts ELSE @]
      /\ item_precache' = [item_precache EXCEPT ![b] =
                             IF ts = {} THEN @ \cup is ELSE @]
  BY <1>2 DEF RemoveEnds
<1>4. /\ topics \in [Blocks -> SUBSET Topics] /\ items \in [Blocks -> SUBSET Items]
      /\ topic_precache \in [Blocks -> SUBSET Topics]
      /\ item_precache \in [Blocks -> SUBSET Items]
      /\ call \in [Clients -> Calls]
  BY DEF NInv, BInv, TypeOK
<1>5. /\ call'[c].op \notin {"add", "capture"}
      /\ \A d \in Clients \ {c} : call'[d] = call[d]
  BY <1>1, <1>4 DEF Idle
<1>6. /\ topics'[b] = (IF is = {} THEN {} ELSE ts)
      /\ items'[b] = (IF ts = {} THEN {} ELSE is)
      /\ topic_precache'[b] = (IF is = {} THEN topic_precache[b] \cup ts
                                          ELSE topic_precache[b])
      /\ item_precache'[b] = (IF ts = {} THEN item_precache[b] \cup is
                                         ELSE item_precache[b])
  <2> HIDE DEF ts, is
  <2>. QED BY <1>3, <1>4
<1>7. ASSUME NEW x \in Listed(b) \ Listed(b)'
      PROVE  MayForget(b, x)
  <2>1. x \in topics[b] \ ts \/ x \in items[b] \ is
    <3> HIDE DEF ts, is
    <3>. QED BY <1>6, <1>7 DEF Listed, GetTopicNames, GetItemNames,
                 GetPreCachedTopicNames, GetPreCachedItemNames
  <2>2. x \in call[c].topics \cup call[c].items
    BY <2>1
  <2>. QED BY <1>1, <1>2, <2>2 DEF MayForget, InCall
<1>8. \A e \in Blocks \ {b} :
        /\ topics'[e] = topics[e] /\ items'[e] = items[e]
        /\ topic_precache'[e] = topic_precache[e]
        /\ item_precache'[e] = item_precache[e]
  <2> HIDE DEF ts, is
  <2>. QED BY <1>3, <1>4
<1>. QED BY <1>1, <1>2, <1>5, <1>7, <1>8, NNoAsk

(* The end of a block, or of a process with all its blocks.                *)
LEMMA NForget ==
  ASSUME NInv, NEW c \in Clients, NEW bs \in SUBSET Blocks, Forget(bs),
         \A b \in bs : owner[b] = c,
         call' = [call EXCEPT ![c] = Idle], missed' = missed,
         \A b \in Blocks \ bs : owner[b] = c => Asking(b) = {}
  PROVE  StepOK
<1>1. /\ call'[c].op \notin {"add", "capture"}
      /\ \A d \in Clients \ {c} : call'[d] = call[d]
  BY DEF Idle, NInv, BInv, TypeOK
<1>2. \A e \in Blocks : /\ topic_precache'[e] \subseteq topic_precache[e]
                        /\ item_precache'[e] \subseteq item_precache[e]
  BY DEF Forget
<1>3. ASSUME NEW d \in Clients PROVE Waits(d)'
  <2>1. CASE d = c
    BY <1>1, <2>1, WaitsIdle
  <2>2. CASE d # c /\ call[d].op = "idle"
    BY <1>1, <2>2, WaitsIdle
  <2>3. CASE d # c /\ call[d].op # "idle"
    <3>1. call[d].block \in Blocks
      BY <2>3, OwnBlock DEF NInv
    <3>. QED BY <1>1, <1>2, <2>3, <3>1, WaitsKept DEF NInv, AllWait
  <2>. QED BY <2>1, <2>2, <2>3
<1>4. ASSUME NEW e \in Blocks, owner[e] # Nobody, owner'[e] = owner[e]
      PROVE  Kept(e)
  <2>1. e \notin bs
    BY <1>4 DEF Forget
  <2>2. /\ topics'[e] = topics[e] /\ items'[e] = items[e]
        /\ topic_precache'[e] = topic_precache[e]
        /\ item_precache'[e] = item_precache[e]
    BY <2>1 DEF Forget
  <2>3. Asking(e) \ Asking(e)' = {}
    <3>1. CASE owner[e] = c
      BY <2>1, <3>1
    <3>2. CASE owner[e] # c
      <4>1. call'[owner[e]] = call[owner[e]]
        BY <1>1, <1>4, <3>2 DEF NInv, BInv, TypeOK
      <4>. QED BY <1>4, <4>1, AskingSame
    <3>. QED BY <3>1, <3>2
  <2>. QED BY <2>2, <2>3, ListedSame, KeptIfListed
<1>. QED BY <1>3, <1>4 DEF StepOK

LEMMA NCloseEnds ==
  ASSUME NInv, NEW c \in Clients, CloseEnds(c)
  PROVE  StepOK
<1>1. /\ call[c].op = "close" /\ missed' = missed
      /\ Forget({call[c].block}) /\ call' = [call EXCEPT ![c] = Idle]
  BY DEF CloseEnds
<1>2. PICK b \in Blocks : owner[b] = c /\ call[c].block = b
  BY <1>1, OwnBlock DEF NInv
<1>3. \A e \in Blocks : owner[e] = c => Asking(e) = {}
  BY <1>1, AskingIs
<1>. QED BY <1>1, <1>2, <1>3, NForget

LEMMA NGone ==
  ASSUME NInv, NEW c \in Clients, NEW given, Gone(c, given)
  PROVE  StepOK
<1>1. /\ Forget(OwnedBy(c)) /\ missed' = missed
      /\ call' = [call EXCEPT ![c] = Idle]
  BY DEF Gone
<1>2. /\ OwnedBy(c) \in SUBSET Blocks
      /\ \A b \in Blocks : b \in OwnedBy(c) <=> owner[b] = c
  BY DEF OwnedBy
<1>. QED BY <1>1, <1>2, NForget

-----------------------------------------------------------------------------

LEMMA NSteps ==
  ASSUME NInv, [Next]_vars
  PROVE  StepOK
<1>0. missed \subseteq missed'
  BY MissedGrows DEF vars
<1>1. ASSUME NEW b \in Blocks,
             \/ \E ts \in SUBSET Topics, is \in SUBSET Items : Add(b, ts, is)
             \/ \E ts \in SUBSET Topics : AddTopics(b, ts)
             \/ \E is \in SUBSET Items : AddItems(b, is)
      PROVE  StepOK
  <2>1. PICK ts \in SUBSET Topics, is \in SUBSET Items : Add(b, ts, is)
    BY <1>1 DEF AddTopics, AddItems
  <2>2. PICK c \in Clients : owner[b] = c
    BY <2>1, ReadyCaller DEF Add, NInv
  <2>. QED BY <2>1, <2>2, NAdd
<1>2. ASSUME NEW b \in Blocks, RemoveTopic(b) \/ RemoveItem(b) \/ CloseBlock(b)
      PROVE  StepOK
  BY <1>2, NRemoveTopic, NRemoveItem, NCloseBlock
<1>3. ASSUME NEW c \in Clients, NEW b \in Blocks, CreateBlock(c, b)
      PROVE  StepOK
  BY <1>0, <1>3, NQuiet DEF CreateBlock, tables, caches
<1>4. ASSUME NEW c \in Clients, AddOne(c) \/ AddOneFails(c) \/ Capture(c)
      PROVE  StepOK
  BY <1>4, NAddOne, NAddOneFails, NCapture
<1>5. ASSUME NEW c \in Clients, RemoveOne(c) \/ RemoveEnds(c) \/ CloseEnds(c)
      PROVE  StepOK
  BY <1>5, NRemoveOne, NRemoveEnds, NCloseEnds
<1>6. ASSUME NEW c \in Clients, Detach(c) \/ Die(c)
      PROVE  StepOK
  BY <1>6, NGone DEF Detach, Die
<1>7. ASSUME NEW c \in Clients, NEW p \in Pairs, RemoveOrphanedStream(c, p)
      PROVE  StepOK
  BY <1>0, <1>7, NQuiet DEF RemoveOrphanedStream, tables, caches
<1>8. CASE UNCHANGED vars
  BY <1>0, <1>8, NQuiet DEF vars, tables, caches
<1>. QED BY <1>1, <1>2, <1>3, <1>4, <1>5, <1>6, <1>7, <1>8 DEF Next

(* A block forgets no topic and no item it was given, through any sequence *)
(* of TOSDB_Add, TOSDB_RemoveTopic, TOSDB_RemoveItem and TOSDB_CloseBlock, *)
(* unless an ADD of it fails.                                              *)
THEOREM NamesKept == Spec => NothingForgotten
<1>1. Init => AllWait
  BY DEF Init, AllWait, Waits, Idle
<1>2. ASSUME BInv, OneOfThree, AllWait, [Next]_vars
      PROVE  AllWait'
  BY <1>2, NSteps DEF NInv, StepOK, AllWait
<1>3. ASSUME BInv, OneOfThree, AllWait, [Next]_vars
      PROVE  [\A b \in Blocks :
                owner[b] # Nobody /\ owner'[b] = owner[b] =>
                  /\ \A x \in Listed(b) \ Listed(b)' :
                       \/ \E p \in Asking(b)' : x \in {p[1], p[2]}
                       \/ MayForget(b, x)
                  /\ \A p \in Asking(b) \ Asking(b)' : \A x \in {p[1], p[2]} :
                       x \in Listed(b)' \/ MayForget(b, x)]_vars
  BY <1>3, NSteps DEF NInv, StepOK, Kept
<1>. QED BY <1>1, <1>2, <1>3, BInvHolds, PreCacheApart, PTL
         DEF Spec, NothingForgotten
=============================================================================
