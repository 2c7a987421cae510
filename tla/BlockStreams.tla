---------------------------- MODULE BlockStreams ----------------------------
(***************************************************************************)
(* The streams that the blocks of several client processes ask of the      *)
(* engine.  A block of client_admin.cpp is a set of topics and a set of    *)
(* items and has a stream for each pair; it asks the engine for each with  *)
(* a message of its own, and the engine only counts (topic_refcounts).     *)
(*                                                                         *)
(* A process runs one call at a time (GLOBAL_RLOCK), and the engine        *)
(* answers one message at a time (its pipe has a single instance), so the  *)
(* calls of different processes interleave message by message.  A block    *)
(* without streams keeps its topics or its items in a pre-cache.           *)
(*                                                                         *)
(* A process that is not connected is one whose messages fail; a call that *)
(* finds out before its first message does nothing, and is left out.       *)
(***************************************************************************)
EXTENDS Integers, FiniteSets

CONSTANTS Clients,    \* processes that loaded the library
          Nobody,
          Blocks,     \* the blocks of all the processes
          Topics, Items,
          MaxFaults   \* bound: failed messages and deaths

ASSUME BlocksAssumption ==
  /\ Nobody \notin Clients
  /\ IsFiniteSet(Blocks)
  /\ MaxFaults \in Nat

Pairs == Topics \X Items

VARIABLES
  refs,           \* the engine's topic_refcounts: references of a pair
  owner,          \* the process in whose dde_blocks a block is, or Nobody
  topics, items,  \* of the data block of each block
  topic_precache, item_precache,
  captured,       \* the pairs whose local buffer lists the block
  call,           \* what each process is doing
  dead,           \* processes that are gone
  faults,
  missed,         \* history: pairs some ADD of which failed
  left            \* history: references of a pair that no block will ever
                  \* give back, while no ADD of the pair has failed

tables == <<topics, items>>
caches == <<topic_precache, item_precache>>
vars == <<refs, owner, tables, caches, captured, call, dead, faults, missed,
          left>>

Idle == [op |-> "idle"]

(* TOSDB_Add between two messages: the pairs still to ask for, those of    *)
(* the new topics first; and after the engine's answer, when the buffer of *)
(* a pair is to be captured.                                               *)
Adding(b, fresh, late) ==
  [op |-> "add", block |-> b, fresh |-> fresh, late |-> late]
Capturing(b, p, fresh, late) ==
  [op |-> "capture", block |-> b, pair |-> p, fresh |-> fresh, late |-> late]

(* A removal between two messages: the topics and the items it takes from  *)
(* the block, the pairs it has given back and those to give back.          *)
Removing(b, ts, is, done, todo) ==
  [op |-> "remove", block |-> b, topics |-> ts, items |-> is,
   done |-> done, todo |-> todo]
Closing(b, done, todo) ==
  [op |-> "close", block |-> b, done |-> done, todo |-> todo]

Calls ==
  {Idle}
  \cup [op : {"add"}, block : Blocks, fresh : SUBSET Pairs, late : SUBSET Pairs]
  \cup [op : {"capture"}, block : Blocks, pair : Pairs,
        fresh : SUBSET Pairs, late : SUBSET Pairs]
  \cup [op : {"remove"}, block : Blocks, topics : SUBSET Topics,
        items : SUBSET Items, done : SUBSET Pairs, todo : SUBSET Pairs]
  \cup [op : {"close"}, block : Blocks, done : SUBSET Pairs, todo : SUBSET Pairs]

-----------------------------------------------------------------------------

(* The streams of a block.                                                 *)
Table(b) == topics[b] \X items[b]

InCall(c, b) == call[c] # Idle /\ call[c].block = b

(* The pairs for which the engine counts no reference of the call's block, *)
(* though they may be in its table: not asked for yet, or given back.      *)
Uncounted(k) ==
  IF k.op \in {"add", "capture"} THEN k.fresh \cup k.late ELSE k.done

Counted(b) ==
  {p \in Table(b) :
     \A c \in Clients : InCall(c, b) => p \notin Uncounted(call[c])}

OwnedBy(c) == {b \in Blocks : owner[b] = c}

(* The client's local buffers; several blocks may share one.               *)
Local(c) == UNION {captured[b] : b \in OwnedBy(c)}

Holders(p) == {b \in Blocks : p \in Counted(b)}

(* What AddStream makes of the engine's count.                             *)
Raised(p) == [refs EXCEPT ![p] = @ + 1]

(* Mutants: a pair that is not in topic_refcounts is counted down; the     *)
(* last reference is not given up.                                         *)
DroppedBelow(p) == [refs EXCEPT ![p] = @ - 1]
DroppedToOne(p) == [refs EXCEPT ![p] = IF @ > 1 THEN @ - 1 ELSE @]

(* What RemoveStream leaves of it.                                         *)
Dropped(p) == [refs EXCEPT ![p] = IF @ > 0 THEN @ - 1 ELSE 0]

-----------------------------------------------------------------------------

Init ==
  /\ refs = [p \in Pairs |-> 0]
  /\ owner = [b \in Blocks |-> Nobody]
  /\ topics = [b \in Blocks |-> {}] /\ items = [b \in Blocks |-> {}]
  /\ topic_precache = [b \in Blocks |-> {}]
  /\ item_precache = [b \in Blocks |-> {}]
  /\ captured = [b \in Blocks |-> {}]
  /\ call = [c \in Clients |-> Idle]
  /\ dead = {}
  /\ faults = 0
  /\ missed = {}
  /\ left = [p \in Pairs |-> 0]

(* From now on an ADD of each of ps has failed.                            *)
Miss(ps) ==
  /\ missed' = missed \cup ps
  /\ left' = [p \in Pairs |-> IF p \in ps THEN 0 ELSE left[p]]

(* TOSDB_CreateBlock puts an empty block into dde_blocks.                  *)
CreateBlock(c, b) ==
  /\ c \notin dead /\ call[c] = Idle
  /\ owner[b] = Nobody
  /\ owner' = [owner EXCEPT ![b] = c]
  /\ UNCHANGED <<refs, tables, caches, captured, call, dead, faults, missed,
                 left>>

(* The block is there (_getBlockPtr), and its process in no other call.    *)
Ready(b) == owner[b] # Nobody /\ call[owner[b]] = Idle

(* Mutants: new topics are asked for with the new items only; the items    *)
(* that wait are not among those asked for.                                *)
NewNotWaiting(b, tdiff, is) == tdiff \X (is \cup items[b])
NewWithNew(b, tdiff, is) == tdiff \X (is \cup item_precache[b])

(* The pairs of new topics: they go with all the items, new and old.       *)
NewTopics(b, tdiff, is) == tdiff \X (is \cup item_precache[b] \cup items[b])

(* TOSDB_Add up to its loops: the pre-cache joins the arguments, and new   *)
(* topics are asked for with all the items, new items with the old topics. *)
Add(b, ts, is) ==
  LET tdiff == (ts \cup topic_precache[b]) \ topics[b]
      idiff == (is \cup item_precache[b]) \ items[b]
      fresh == NewTopics(b, tdiff, is)
      late  == topics[b] \X idiff
  IN
  /\ Ready(b)
  /\ ts # {} \/ is # {}
  /\ topic_precache' = IF is \cup item_precache[b] \cup items[b] = {}
                       THEN [topic_precache EXCEPT ![b] = @ \cup tdiff]
                       ELSE topic_precache
  /\ item_precache' = IF tdiff = {} /\ topics[b] = {}
                      THEN [item_precache EXCEPT ![b] = @ \cup is]
                      ELSE item_precache
  /\ call' = IF fresh \cup late = {}
             THEN call
             ELSE [call EXCEPT ![owner[b]] = Adding(b, fresh, late)]
  /\ UNCHANGED <<refs, owner, tables, captured, dead, faults, missed, left>>

(* TOSDB_AddTopic and TOSDB_AddTopics, TOSDB_AddItem and TOSDB_AddItems.   *)
AddTopics(b, ts) == Add(b, ts, {})
AddItems(b, is)  == Add(b, {}, is)

(* The pairs TOSDB_Add may ask for next, and the call once one is dealt    *)
(* with.                                                                   *)
Nexts(k) == IF k.fresh # {} THEN k.fresh ELSE k.late

GoOn(b, fresh, late) ==
  IF fresh \cup late = {} THEN Idle ELSE Adding(b, fresh, late)

(* Mutant: only the items leave the pre-cache.                             *)
ClearItemPreCache(b) ==
  /\ item_precache' = [item_precache EXCEPT ![b] = {}]
  /\ UNCHANGED topic_precache

ClearPreCache(b) ==
  /\ item_precache' = [item_precache EXCEPT ![b] = {}]
  /\ topic_precache' = [topic_precache EXCEPT ![b] = {}]

(* The engine counts one more reference, making the stream if it was the   *)
(* first (AddStream), and the block takes the topic and the item in.       *)
AddOne(c) ==
  /\ c \notin dead /\ call[c].op = "add"
  /\ \E p \in Nexts(call[c]) :
       LET b == call[c].block IN
       /\ refs' = Raised(p)
       /\ items' = [items EXCEPT ![b] = @ \cup {p[2]}]
       /\ IF call[c].fresh # {}
          THEN /\ topics' = [topics EXCEPT ![b] = @ \cup {p[1]}]
               /\ ClearPreCache(b)
          ELSE UNCHANGED <<topics, caches>>
       /\ call' = [call EXCEPT ![c] = Capturing(b, p, call[c].fresh \ {p},
                                                  call[c].late \ {p})]
  /\ UNCHANGED <<owner, captured, dead, faults, missed, left>>

(* The ADD fails: it cannot be sent, the engine refuses (no acknowledge-   *)
(* ment, no buffer) and unwinds, or its answer is lost.                    *)
AddOneFails(c) ==
  /\ c \notin dead /\ call[c].op = "add"
  /\ faults < MaxFaults
  /\ \E p \in Nexts(call[c]) :
       /\ refs' \in {refs, Raised(p)}
       /\ Miss({p})
       /\ call' = [call EXCEPT ![c] = GoOn(@.block, @.fresh \ {p}, @.late \ {p})]
  /\ faults' = faults + 1
  /\ UNCHANGED <<owner, tables, caches, captured, dead>>

(* _captureBuffer: joins the client's own mapping of the buffer or opens   *)
(* the engine's.  Without either it throws, out of TOSDB_Add: the rest of  *)
(* the pairs is never asked for.                                           *)
Capture(c) ==
  LET k == call[c] IN
  /\ c \notin dead /\ k.op = "capture"
  /\ IF k.pair \in Local(c) \/ refs[k.pair] > 0
     THEN /\ captured' = [captured EXCEPT ![k.block] = @ \cup {k.pair}]
          /\ call' = [call EXCEPT ![c] = GoOn(k.block, k.fresh, k.late)]
          /\ UNCHANGED <<missed, left>>
     ELSE /\ call' = [call EXCEPT ![c] = Idle]
          /\ Miss({k.pair} \cup k.fresh \cup k.late)
          /\ UNCHANGED captured
  /\ UNCHANGED <<refs, owner, tables, caches, dead, faults>>

-----------------------------------------------------------------------------

(* TOSDB_RemoveTopic: gives back the topic's streams, or only forgets a    *)
(* topic of the pre-cache.                                                 *)
RemoveTopic(b) ==
  /\ Ready(b)
  /\ \E t \in topics[b] \cup topic_precache[b] :
       IF t \in topics[b]
       THEN /\ call' = [call EXCEPT ![owner[b]] =
                          Removing(b, {t}, {}, {}, {t} \X items[b])]
            /\ UNCHANGED topic_precache
       ELSE /\ topic_precache' = [topic_precache EXCEPT ![b] = @ \ {t}]
            /\ UNCHANGED call
  /\ UNCHANGED <<refs, owner, tables, item_precache, captured, dead, faults,
                 missed, left>>

(* TOSDB_RemoveItem, the same for an item.                                 *)
RemoveItem(b) ==
  /\ Ready(b)
  /\ \E i \in items[b] \cup item_precache[b] :
       IF i \in items[b]
       THEN /\ call' = [call EXCEPT ![owner[b]] =
                          Removing(b, {}, {i}, {}, topics[b] \X {i})]
            /\ UNCHANGED item_precache
       ELSE /\ item_precache' = [item_precache EXCEPT ![b] = @ \ {i}]
            /\ UNCHANGED call
  /\ UNCHANGED <<refs, owner, tables, topic_precache, captured, dead, faults,
                 missed, left>>

(* TOSDB_CloseBlock.                                                       *)
CloseBlock(b) ==
  /\ Ready(b)
  /\ call' = [call EXCEPT ![owner[b]] = Closing(b, {}, Table(b))]
  /\ UNCHANGED <<refs, owner, tables, caches, captured, dead, faults, missed,
                 left>>

(* Mutant: the local buffer is left alone.                                 *)
KeptBuffer(b, p) == captured

(* _releaseBuffer.                                                         *)
Released(b, p) == [captured EXCEPT ![b] = @ \ {p}]

(* One pair of a removal: its buffer is released, and the engine counts    *)
(* one reference less (RemoveStream); or the message fails, which the call *)
(* reports and leaves at that.                                             *)
RemoveOne(c) ==
  /\ c \notin dead /\ call[c].op \in {"remove", "close"}
  /\ \E p \in call[c].todo :
       /\ captured' = Released(call[c].block, p)
       /\ call' = [call EXCEPT ![c].done = @ \cup {p}, ![c].todo = @ \ {p}]
       /\ \/ /\ refs' = Dropped(p)
             /\ UNCHANGED <<left, faults>>
          \/ /\ faults < MaxFaults
             /\ faults' = faults + 1
             /\ left' = [left EXCEPT ![p] = IF p \in missed THEN 0 ELSE @ + 1]
             /\ UNCHANGED refs
  /\ UNCHANGED <<owner, tables, caches, dead, missed>>

(* The end of a removal: the block drops the topic or the item, and if     *)
(* none is left of one kind, those of the other go to the pre-cache.       *)
RemoveEnds(c) ==
  LET k  == call[c]
      b  == k.block
      ts == topics[b] \ k.topics
      is == items[b] \ k.items
  IN
  /\ c \notin dead /\ k.op = "remove" /\ k.todo = {}
  /\ topics' = [topics EXCEPT ![b] = IF is = {} THEN {} ELSE ts]
  /\ items' = [items EXCEPT ![b] = IF ts = {} THEN {} ELSE is]
  /\ topic_precache' = [topic_precache EXCEPT ![b] =
                          IF is = {} THEN @ \cup ts ELSE @]
  /\ item_precache' = [item_precache EXCEPT ![b] =
                         IF ts = {} THEN @ \cup is ELSE @]
  /\ call' = [call EXCEPT ![c] = Idle]
  /\ UNCHANGED <<refs, owner, captured, dead, faults, missed, left>>

(* The blocks bs are deleted.                                              *)
Forget(bs) ==
  /\ owner' = [b \in Blocks |-> IF b \in bs THEN Nobody ELSE owner[b]]
  /\ topics' = [b \in Blocks |-> IF b \in bs THEN {} ELSE topics[b]]
  /\ items' = [b \in Blocks |-> IF b \in bs THEN {} ELSE items[b]]
  /\ topic_precache' =
       [b \in Blocks |-> IF b \in bs THEN {} ELSE topic_precache[b]]
  /\ item_precache' =
       [b \in Blocks |-> IF b \in bs THEN {} ELSE item_precache[b]]

(* TOSDB_CloseBlocks is this for one block after the other.                *)
CloseEnds(c) ==
  /\ c \notin dead /\ call[c].op = "close" /\ call[c].todo = {}
  /\ Forget({call[c].block})
  /\ call' = [call EXCEPT ![c] = Idle]
  /\ UNCHANGED <<refs, captured, dead, faults, missed, left>>

-----------------------------------------------------------------------------

(* The process is gone, its call cut short.  Of the references its blocks  *)
(* had, those in given went back to the engine.                            *)
Gone(c, given) ==
  /\ dead' = dead \cup {c}
  /\ left' = [p \in Pairs |->
                IF p \in missed THEN 0
                ELSE left[p] + Cardinality(Holders(p) \cap OwnedBy(c))
                             - IF p \in given THEN 1 ELSE 0]
  /\ Forget(OwnedBy(c))
  /\ captured' = [b \in Blocks |-> IF b \in OwnedBy(c) THEN {} ELSE captured[b]]
  /\ call' = [call EXCEPT ![c] = Idle]
  /\ UNCHANGED missed

(* What the engine makes of one REMOVE for each pair in given.             *)
Lowered(given) ==
  [p \in Pairs |-> IF p \in given /\ refs[p] > 0 THEN refs[p] - 1 ELSE refs[p]]

(* The process ends or frees the library: DllMain sends one REMOVE for     *)
(* each local buffer, however many blocks share it.  Each is for another   *)
(* pair, so that the steps of others in between change nothing of it: they *)
(* are one step.                                                           *)
Detach(c) ==
  /\ c \notin dead
  /\ refs' = Lowered(Local(c))
  /\ Gone(c, Local(c))
  /\ UNCHANGED faults

(* Some of these messages fail, or all, as when the process is not         *)
(* connected or is killed.                                                 *)
Die(c) ==
  /\ c \notin dead /\ faults < MaxFaults
  /\ \E given \in SUBSET Local(c) : refs' = Lowered(given) /\ Gone(c, given)
  /\ faults' = faults + 1

(* TOSDB_RemoveOrphanedStream, used as its warning demands: for a stream   *)
(* that a process has failed to close.  Any process may call it.           *)
RemoveOrphanedStream(c, p) ==
  /\ c \notin dead /\ call[c] = Idle
  /\ left[p] > 0
  /\ refs' = Dropped(p)
  /\ left' = [left EXCEPT ![p] = @ - 1]
  /\ UNCHANGED <<owner, tables, caches, captured, call, dead, faults, missed>>

-----------------------------------------------------------------------------

Next ==
  \/ \E b \in Blocks : RemoveTopic(b) \/ RemoveItem(b) \/ CloseBlock(b)
  \/ \E b \in Blocks, ts \in SUBSET Topics \ {{}}, is \in SUBSET Items \ {{}} :
       Add(b, ts, is)
  \/ \E b \in Blocks, ts \in SUBSET Topics \ {{}} : AddTopics(b, ts)
  \/ \E b \in Blocks, is \in SUBSET Items \ {{}} : AddItems(b, is)
  \/ \E c \in Clients, b \in Blocks : CreateBlock(c, b)
  \/ \E c \in Clients :
       \/ AddOne(c) \/ AddOneFails(c) \/ Capture(c)
       \/ RemoveOne(c) \/ RemoveEnds(c) \/ CloseEnds(c)
       \/ Detach(c) \/ Die(c)
  \/ \E c \in Clients, p \in Pairs : RemoveOrphanedStream(c, p)

Spec == Init /\ [][Next]_vars

-----------------------------------------------------------------------------
(* What a block tells of itself.  A caller has an array for the names, and *)
(* asks for their number first; with too short an array it gets an error.  *)

GetTopicNames(b)          == topics[b]
GetItemNames(b)           == items[b]
GetPreCachedTopicNames(b) == topic_precache[b]
GetPreCachedItemNames(b)  == item_precache[b]

(* All the names: of what has streams and of what waits.                   *)
Listed(b) ==
  GetTopicNames(b) \cup GetItemNames(b)
    \cup GetPreCachedTopicNames(b) \cup GetPreCachedItemNames(b)

-----------------------------------------------------------------------------
(* Correctness                                                             *)

TypeOK ==
  /\ refs \in [Pairs -> Nat] /\ left \in [Pairs -> Nat]
  /\ owner \in [Blocks -> Clients \cup {Nobody}]
  /\ topics \in [Blocks -> SUBSET Topics]
  /\ items \in [Blocks -> SUBSET Items]
  /\ topic_precache \in [Blocks -> SUBSET Topics]
  /\ item_precache \in [Blocks -> SUBSET Items]
  /\ captured \in [Blocks -> SUBSET Pairs]
  /\ call \in [Clients -> Calls]
  /\ dead \subseteq Clients /\ missed \subseteq Pairs
  /\ faults \in 0 .. MaxFaults

(* At every step of every call, a local buffer lists a block only for a    *)
(* pair the block has a stream for: it is released before the topic or the *)
(* item goes, captured after they came.  Otherwise the extraction thread,  *)
(* which runs between any two of these steps, inserts into a stream that   *)
(* is not there, or into a block that is deleted.                          *)
CapturedInTable == \A b \in Blocks : captured[b] \subseteq Table(b)

(* The pre-cache is for a block without streams: topics or items wait in   *)
(* it, never both, and never beside streams (README_DETAILS.md:80).        *)
Sorted(b) ==
  /\ topics[b] = {} <=> items[b] = {}
  /\ topics[b] # {} => topic_precache[b] = {} /\ item_precache[b] = {}
  /\ topic_precache[b] = {} \/ item_precache[b] = {}

OneOfThree == \A b \in Blocks : Sorted(b)

(* Between calls, every stream of a block receives its pair's data, unless *)
(* an ADD of that pair has failed somewhere.                               *)
TableIsCaptured ==
  \A b \in Blocks :
    (\A c \in Clients : ~InCall(c, b)) => Table(b) \ missed \subseteq captured[b]

(* The pairs that an Add of the block still asks for.                      *)
Asking(b) ==
  LET k == call[owner[b]] IN
  IF k.op \in {"add", "capture"} /\ k.block = b THEN Uncounted(k) ELSE {}

(* The step removes x, and nothing else, or an ADD of x has failed.        *)
MayForget(b, x) ==
  \/ \E c \in Clients : /\ InCall(c, b) /\ call[c].op = "remove"
                        /\ x \in call[c].topics \cup call[c].items
  \/ /\ RemoveTopic(b) \/ RemoveItem(b)
     /\ Listed(b)' = Listed(b) \ {x}
  \/ \E p \in missed' : x \in {p[1], p[2]}

(* A block forgets no topic and no item it was given: one that it lists    *)
(* stays, in the block, in its pre-cache or among the pairs still asked    *)
(* for, and one that is asked for gets there, whatever happens to the      *)
(* others, until it is removed itself, the block is closed, or an ADD of   *)
(* it fails.  (TOSDB_Add clears the pre-cache at the first success,        *)
(* TOSDB_RemoveTopic and TOSDB_RemoveItem move what is left over to it.)   *)
NothingForgotten ==
  [][\A b \in Blocks :
       owner[b] # Nobody /\ owner'[b] = owner[b] =>
         /\ \A x \in Listed(b) \ Listed(b)' :
              \/ \E p \in Asking(b)' : x \in {p[1], p[2]}
              \/ MayForget(b, x)
         /\ \A p \in Asking(b) \ Asking(b)' : \A x \in {p[1], p[2]} :
              x \in Listed(b)' \/ MayForget(b, x)]_vars

(* No removal, closing or end of a process takes from the engine a stream  *)
(* that another block still reads: the engine counts at least one          *)
(* reference for each block that has its buffer, unless an ADD of that     *)
(* pair has failed.                                                        *)
ReferenceForEachReader ==
  \A p \in Pairs \ missed :
    refs[p] >= Cardinality({b \in Blocks : p \in captured[b]})

(* Nothing leaks but what processes left behind: every reference of the    *)
(* engine's that was not left by one that is gone, or by a REMOVE that     *)
(* failed, and not removed as an orphan since, belongs to a stream of a    *)
(* block.                                                                  *)
ReferencesAccounted ==
  \A p \in Pairs \ missed : refs[p] = Cardinality(Holders(p)) + left[p]

(* README_DETAILS.md:200: all the engine does is keep a ref-count to the   *)
(* streams it has been asked to create, so no block loses a stream that    *)
(* it did not ask to remove.                                               *)
ReadersAreCounted ==
  \A b \in Blocks : \A p \in captured[b] : refs[p] > 0
=============================================================================
