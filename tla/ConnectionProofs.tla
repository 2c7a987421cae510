-------------------------- MODULE ConnectionProofs --------------------------
(***************************************************************************)
(* Proofs about Connection, for any number of clients, threads, calls,     *)
(* controls, starts and crashes.                                           *)
(*                                                                         *)
(* The invariant says who waits for whom.  Whoever has the pipe waits for  *)
(* its answer until that is sent, so a message is handled for a caller     *)
(* that is still there; the service sends only within a control, and       *)
(* reports a state only with an answer, by when the engine has heeded it;  *)
(* and a connection thread that lives is the one that is stored, or the    *)
(* newest while TOSDB_Connect has yet to store it.                         *)
(***************************************************************************)
EXTENDS Connection, FiniteSetTheorems, TLAPS

(* The parts of the type invariant. *)
Places ==
  /\ engine \in {"off", "loading", "opening", "listening", "serving",
                 "handled", "replied", "leaving"}
  /\ pipe \in Callers \cup {Nobody}
  /\ service \in {"off", "spawned", "watching", "ending"}
  /\ control \in {"none", "STOP", "PAUSE", "CONTINUE"}
  /\ step \in {"status", "send"}
  /\ status \in {"STOPPED", "START_PENDING", "RUNNING", "PAUSE_PENDING", "PAUSED",
                 "CONTINUE_PENDING", "STOP_PENDING"}

CallTypes ==
  /\ call \in [Callers -> {"none", "probe", "wait", "sent", "answered", "failed"}]
  /\ message \in [Callers -> Messages]

Flags ==
  /\ pause \in BOOLEAN /\ shutdown \in BOOLEAN
  /\ pause_flag \in BOOLEAN /\ shutdown_flag \in BOOLEAN
  /\ killed \in BOOLEAN

ClientTypes ==
  /\ aware \in [Clients -> BOOLEAN]
  /\ buffer_thread \in [Clients -> Threads \cup {NULL}]
  /\ thread \in [Clients -> [Threads ->
       {"none", "started", "reading", "ending", "ended", "done",
        "unnoted"}]]
  /\ user \in [Clients -> {"idle", "creating", "requesting"}]

Numbers ==
  /\ starts \in 0 .. MaxStarts /\ controls \in 0 .. MaxControls
  /\ crashes \in 0 .. MaxCrashes
  /\ calls \in [Clients -> 0 .. MaxCalls]
  /\ handled \in [Callers -> Nat] /\ answered \in [Callers -> Nat]

LEMMA TypeParts ==
  TypeOK <=> Places /\ CallTypes /\ Flags /\ ClientTypes /\ Numbers
BY DEF TypeOK, Places, CallTypes, Flags, ClientTypes, Numbers

LEMMA CallerNames == Service \in Callers /\ Clients \subseteq Callers
                     /\ Service \notin Clients /\ Nobody \notin Callers
BY CallersAssumption DEF Callers

LEMMA InitTypes == Init => TypeOK
<1> SUFFICES ASSUME Init PROVE TypeOK
  OBVIOUS
<1>1. Places BY DEF Init, Places
<1>2. CallTypes BY DEF Init, CallTypes, Messages
<1>3. Flags BY DEF Init, Flags
<1>4. ClientTypes BY DEF Init, ClientTypes, NULL
<1>5. Numbers BY BoundsAssumption DEF Init, Numbers
<1>. QED BY <1>1, <1>2, <1>3, <1>4, <1>5, TypeParts

LEMMA PlacesKept == TypeOK /\ Next => Places'
<1> SUFFICES ASSUME TypeOK, Next PROVE Places'
  OBVIOUS
<1> USE TypeParts DEF Places
<1>1. ASSUME NEW p \in Callers, Calling(p) PROVE Places'
  BY <1>1 DEF Calling, Probe, Connects, GivesUp, Broken, engineState, serviceState
<1>2. CASE EngineStep
  BY <1>2 DEF EngineStep, Open, OpenFails, EnterLoop, WaitForMaster, Handle, Reply,
     DropMaster, Leave, Gone, engineState, serviceState
<1>3. CASE Crash
  BY <1>3 DEF Crash, Terminated, Gone, serviceState
<1>4. CASE Start \/ ServiceStep
  BY <1>4 DEF Start, ServiceStep, Running, Watch, ForceExit, Stopped, Terminated,
     Gone, engineState, serviceState
<1>5. ASSUME NEW k \in {"STOP", "PAUSE", "CONTINUE"}, Control(k) PROVE Places'
  BY <1>5 DEF Control, engineState
<1>6. CASE ControlStep
  BY <1>6 DEF ControlStep, Pending, Resumed, Controlled, Terminated, Gone,
     engineState, serviceState
<1>7. ASSUME NEW c \in Clients,
             Connect(c) \/ Disconnect(c) \/ Request(c) \/ Returns(c) \/ ThreadStep(c)
      PROVE  Places'
  BY <1>7 DEF Connect, Disconnect, Request, Returns, NoteThread, RequestReturns,
     ThreadStep, FirstProbe, Check, Ending, Finish, engineState, serviceState
<1>. QED BY <1>1, <1>2, <1>3, <1>4, <1>5, <1>6, <1>7 DEF Next

LEMMA CallTypesKept == TypeOK /\ Next => CallTypes'
<1> SUFFICES ASSUME TypeOK, Next PROVE CallTypes'
  OBVIOUS
<1> USE TypeParts DEF CallTypes
<1>1. ASSUME NEW p \in Callers, Calling(p) PROVE CallTypes'
  BY <1>1 DEF Calling, Probe, Connects, GivesUp, Broken, Ends, callState
<1>2. CASE EngineStep
  BY <1>2 DEF EngineStep, Open, OpenFails, EnterLoop, WaitForMaster, Handle, Reply,
     DropMaster, Leave, Ends, callState
<1>3. CASE Crash \/ Start \/ ServiceStep
  BY <1>3 DEF Crash, Start, ServiceStep, Running, Watch, ForceExit, Stopped, callState
<1>4. ASSUME NEW k \in {"STOP", "PAUSE", "CONTINUE"}, Control(k) PROVE CallTypes'
  BY <1>4 DEF Control, callState
<1>5. CASE ControlStep
  <2>1. control # "none" => control \in Messages
    BY DEF Places, Messages
  <2>2. \A m \in Messages : [message EXCEPT ![Service] = m] \in [Callers -> Messages]
    OBVIOUS
  <2>3. "STOP" \in Messages /\ "CONTINUE" \in Messages
    BY DEF Messages
  <2>. QED
    BY <1>5, <2>1, <2>2, <2>3 DEF ControlStep, Pending, Resumed, Controlled, Sends,
       Ends, callState
<1>6. ASSUME NEW c \in Clients,
             Connect(c) \/ Disconnect(c) \/ Request(c) \/ Returns(c) \/ ThreadStep(c)
      PROVE  CallTypes'
  BY <1>6 DEF Connect, Disconnect, Request, Returns, NoteThread, RequestReturns,
     ThreadStep, FirstProbe, Check, Ending, Finish, Sends, Ends, callState, Messages
<1>. QED BY <1>1, <1>2, <1>3, <1>4, <1>5, <1>6 DEF Next

LEMMA FlagsKept == TypeOK /\ Next => Flags'
<1> SUFFICES ASSUME TypeOK, Next PROVE Flags'
  OBVIOUS
<1> USE TypeParts DEF Flags
<1>1. ASSUME NEW p \in Callers, Calling(p) PROVE Flags'
  BY <1>1 DEF Calling, Probe, Connects, GivesUp, Broken, engineState, serviceState,
     history
<1>2. CASE EngineStep
  BY <1>2 DEF EngineStep, Open, OpenFails, EnterLoop, WaitForMaster, Handle, Reply,
     DropMaster, Leave, Gone, engineState, serviceState, history
<1>3. CASE Crash \/ Start \/ ServiceStep
  BY <1>3 DEF Crash, Start, ServiceStep, Running, Watch, ForceExit, Stopped,
     Terminated, Gone, engineState, serviceState, history
<1>4. ASSUME NEW k \in {"STOP", "PAUSE", "CONTINUE"}, Control(k) PROVE Flags'
  BY <1>4 DEF Control, engineState, history
<1>5. CASE ControlStep
  BY <1>5 DEF ControlStep, Pending, Resumed, Controlled, Terminated, Gone,
     engineState, serviceState, history
<1>6. ASSUME NEW c \in Clients,
             Connect(c) \/ Disconnect(c) \/ Request(c) \/ Returns(c) \/ ThreadStep(c)
      PROVE  Flags'
  BY <1>6 DEF Connect, Disconnect, Request, Returns, NoteThread, RequestReturns,
     ThreadStep, FirstProbe, Check, Ending, Finish, engineState, serviceState,
     history
<1>. QED BY <1>1, <1>2, <1>3, <1>4, <1>5, <1>6 DEF Next

LEMMA NumbersKept == TypeOK /\ Next => Numbers'
<1> SUFFICES ASSUME TypeOK, Next PROVE Numbers'
  OBVIOUS
<1> USE TypeParts, BoundsAssumption DEF Numbers
<1>1. ASSUME NEW p \in Callers, Calling(p) PROVE Numbers'
  BY <1>1 DEF Calling, Probe, Connects, GivesUp, Broken, bounds, history
<1>2. CASE EngineStep
  <2>1. UNCHANGED bounds
    BY <1>2 DEF EngineStep, Open, OpenFails, EnterLoop, WaitForMaster, Handle, Reply,
       DropMaster, Leave
  <2>2. handled' = handled \/ handled' = [handled EXCEPT ![pipe] = @ + 1]
    BY <1>2 DEF EngineStep, Open, OpenFails, EnterLoop, WaitForMaster, Handle, Reply,
       DropMaster, Leave, history
  <2>3. answered' = answered \/ answered' = [answered EXCEPT ![pipe] = @ + 1]
    BY <1>2 DEF EngineStep, Open, OpenFails, EnterLoop, WaitForMaster, Handle, Reply,
       DropMaster, Leave, history
  <2>. QED BY <2>1, <2>2, <2>3 DEF bounds
<1>3. CASE Crash \/ Start \/ ServiceStep
  BY <1>3 DEF Crash, Start, ServiceStep, Running, Watch, ForceExit, Stopped,
     bounds, history
<1>4. ASSUME NEW k \in {"STOP", "PAUSE", "CONTINUE"}, Control(k) PROVE Numbers'
  BY <1>4 DEF Control, history
<1>5. CASE ControlStep
  BY <1>5 DEF ControlStep, Pending, Resumed, Controlled, bounds, history
<1>6. ASSUME NEW c \in Clients,
             Connect(c) \/ Disconnect(c) \/ Request(c) \/ Returns(c) \/ ThreadStep(c)
      PROVE  Numbers'
  BY <1>6 DEF Connect, Disconnect, Request, Returns, NoteThread, RequestReturns,
     ThreadStep, FirstProbe, Check, Ending, Finish, bounds, history
<1>. QED BY <1>1, <1>2, <1>3, <1>4, <1>5, <1>6 DEF Next

-----------------------------------------------------------------------------
(* The connection threads.                                                 *)

Lives(c, t) == thread[c][t] \notin {"none", "done", "unnoted"}

Newest(c, n) ==
  /\ thread[c][n] # "none"
  /\ \A u \in n + 1 .. MaxThreads : thread[c][u] = "none"

(* TOSDB_Connect has made a thread whose handle it has yet to store.       *)
Unstored(c) ==
  /\ buffer_thread[c] = NULL
  /\ \E n \in Threads :
       /\ Newest(c, n) /\ thread[c][n] # "done"
       /\ \A t \in Threads : Lives(c, t) => t = n

Stored(c) ==
  /\ \A t \in Threads : Lives(c, t) => buffer_thread[c] = t
  /\ buffer_thread[c] # NULL => thread[c][buffer_thread[c]] \notin {"none", "done"}

Handles(c) ==
  /\ \A t, u \in Threads : u < t /\ thread[c][t] # "none" => thread[c][u] # "none"
  /\ IF user[c] = "creating" THEN Unstored(c) ELSE Stored(c)
  /\ aware[c] => \E t \in Threads : thread[c][t] \in {"reading", "ending"}

ThreadInv == \A c \in Clients : Handles(c)

LEMMA HandlesFrame ==
  ASSUME NEW c \in Clients, Handles(c), aware'[c] = aware[c],
         buffer_thread'[c] = buffer_thread[c], thread'[c] = thread[c],
         user'[c] = user[c]
  PROVE  Handles(c)'
BY DEF Handles, Unstored, Stored, Newest, Lives

LEMMA ConnectHandles ==
  ASSUME TypeOK, NEW c \in Clients, Handles(c), Connect(c)
  PROVE  Handles(c)'
<1>1. PICK n \in Threads :
        /\ thread[c][n] = "none" /\ \A u \in 1 .. n - 1 : thread[c][u] # "none"
        /\ thread' = [thread EXCEPT ![c][n] = "started"]
  BY DEF Connect, At
<1>2. /\ user'[c] = "creating" /\ buffer_thread'[c] = NULL /\ aware'[c] = aware[c]
      /\ thread'[c][n] = "started"
      /\ \A t \in Threads : t # n => thread'[c][t] = thread[c][t]
  BY <1>1, TypeParts DEF Connect, ClientTypes
<1>3. /\ \A t \in Threads : ~Lives(c, t)
      /\ \A t \in Threads : t > n => thread[c][t] = "none"
  BY <1>1 DEF Connect, Handles, Stored, NULL, Threads
<1>4. Unstored(c)'
  <2>1. \A u \in n + 1 .. MaxThreads : thread'[c][u] = "none"
    BY <1>1, <1>2, <1>3, BoundsAssumption DEF Threads
  <2>. QED BY <1>2, <1>3, <2>1 DEF Unstored, Newest, Lives
<1>5. \A t, u \in Threads : u < t /\ thread'[c][t] # "none" => thread'[c][u] # "none"
  BY <1>1, <1>2, <1>3 DEF Threads
<1>6. aware'[c] => \E t \in Threads : thread'[c][t] \in {"reading", "ending"}
  BY <1>1, <1>2 DEF Handles
<1>. QED BY <1>2, <1>4, <1>5, <1>6 DEF Handles

(* The handle it stores is the newest thread's.                            *)
LEMMA NoteHandles ==
  ASSUME TypeOK, NEW c \in Clients, Handles(c), NoteThread(c)
  PROVE  Handles(c)' /\ buffer_thread'[c] \in Threads
<1>1. PICK n \in Threads :
        /\ Newest(c, n) /\ thread[c][n] # "done"
        /\ \A t \in Threads : Lives(c, t) => t = n
  BY DEF NoteThread, Handles, Unstored
<1>2. /\ user'[c] = "idle" /\ thread' = thread /\ aware' = aware
      /\ buffer_thread'[c] = CHOOSE t \in Threads : Newest(c, t)
  BY TypeParts DEF NoteThread, ClientTypes, Newest
<1>3. \A t \in Threads : Newest(c, t) => t = n
  BY <1>1, BoundsAssumption DEF Newest, Threads
<1>4. buffer_thread'[c] = n
  BY <1>1, <1>2, <1>3
<1>5. Stored(c)'
  BY <1>1, <1>2, <1>4 DEF Stored, Lives, Newest
<1>. QED BY <1>2, <1>4, <1>5 DEF Handles

LEMMA ThreadHandles ==
  ASSUME TypeOK, NEW c \in Clients, Handles(c), ThreadStep(c)
  PROVE  Handles(c)'
<1>0. PICK n \in Threads :
        FirstProbe(c, n) \/ Check(c, n) \/ Ending(c, n) \/ Finish(c, n)
  BY DEF ThreadStep
<1>1. Lives(c, n) /\ \A t \in Threads : Lives(c, t) => t = n
  BY <1>0 DEF FirstProbe, Check, Ending, Finish, Lives, Handles, Unstored, Stored
<1>2. /\ user'[c] = user[c]
      /\ \A t \in Threads : t # n => thread'[c][t] = thread[c][t]
      /\ thread'[c][n] # "none"
  BY <1>0, TypeParts DEF FirstProbe, Check, Ending, Finish, At, ClientTypes
<1>3. \A t, u \in Threads : u < t /\ thread'[c][t] # "none" => thread'[c][u] # "none"
  BY <1>1, <1>2 DEF Handles, Lives
<1>4. \A t \in Threads : t # n => ~Lives(c, t)'
  BY <1>1, <1>2 DEF Lives
<1>5. CASE Finish(c, n)
  <2>1. /\ buffer_thread'[c] = NULL /\ aware'[c] = aware[c]
        /\ thread'[c][n] = IF user[c] = "creating" THEN "unnoted" ELSE "done"
    BY <1>5, TypeParts DEF Finish, At, ClientTypes
  <2>2. ~aware[c]
    BY <1>1, <1>5 DEF Finish, Handles, Lives
  <2>3. CASE user[c] = "creating"
    <3>1. Newest(c, n)
      BY <1>1, <2>3 DEF Handles, Unstored
    <3>2. Newest(c, n)'
      BY <1>1, <1>2, <3>1, BoundsAssumption DEF Newest, Threads
    <3>. QED BY <1>2, <1>3, <1>4, <2>1, <2>2, <2>3, <3>2 DEF Handles, Unstored
  <2>4. CASE user[c] # "creating"
    BY <1>2, <1>3, <1>4, <2>1, <2>2, <2>4 DEF Handles, Stored, Lives
  <2>. QED BY <2>3, <2>4
<1>6. CASE FirstProbe(c, n) \/ Check(c, n) \/ Ending(c, n)
  <2>1. /\ buffer_thread'[c] = buffer_thread[c]
        /\ thread'[c][n] \in {"reading", "ending", "ended"}
        /\ aware'[c] => thread'[c][n] \in {"reading", "ending"}
    BY <1>6, TypeParts DEF FirstProbe, Check, Ending, At, ClientTypes
  <2>2. CASE user[c] = "creating"
    <3>1. Newest(c, n) /\ buffer_thread[c] = NULL
      BY <1>1, <2>2 DEF Handles, Unstored
    <3>2. Newest(c, n)'
      BY <1>1, <1>2, <3>1, BoundsAssumption DEF Newest, Threads
    <3>. QED BY <1>2, <1>3, <1>4, <2>1, <2>2, <3>1, <3>2 DEF Handles, Unstored
  <2>3. CASE user[c] # "creating"
    <3>1. buffer_thread[c] = n
      BY <1>1, <2>3 DEF Handles, Stored
    <3>. QED BY <1>2, <1>3, <1>4, <2>1, <2>3, <3>1 DEF Handles, Stored
  <2>. QED BY <2>2, <2>3
<1>. QED BY <1>0, <1>5, <1>6

LEMMA UserHandles ==
  ASSUME TypeOK, NEW c \in Clients, Handles(c),
         Disconnect(c) \/ Request(c) \/ RequestReturns(c)
  PROVE  Handles(c)'
<1>1. /\ user[c] # "creating" /\ user'[c] # "creating"
      /\ UNCHANGED <<buffer_thread, thread>>
      /\ aware'[c] => aware[c]
  BY TypeParts DEF Disconnect, Request, RequestReturns, ClientTypes
<1>. QED BY <1>1 DEF Handles, Stored, Lives

(* What a client does concerns no other client.                            *)
LEMMA OtherHandles ==
  ASSUME TypeOK, NEW c \in Clients, NEW d \in Clients, d # c, Handles(d),
         Connect(c) \/ Disconnect(c) \/ Request(c) \/ Returns(c) \/ ThreadStep(c)
  PROVE  Handles(d)'
<1>1. /\ aware'[d] = aware[d] /\ buffer_thread'[d] = buffer_thread[d]
      /\ thread'[d] = thread[d] /\ user'[d] = user[d]
  BY TypeParts DEF Connect, Disconnect, Request, Returns, NoteThread, RequestReturns,
     ThreadStep, FirstProbe, Check, Ending, Finish, At, ClientTypes
<1>. QED BY <1>1, HandlesFrame

LEMMA ClientsKept ==
  ASSUME TypeOK, ThreadInv, Next
  PROVE  ClientTypes' /\ ThreadInv'
<1>1. CASE UNCHANGED clientState
  BY <1>1, HandlesFrame, TypeParts DEF clientState, ThreadInv, ClientTypes
<1>2. ASSUME NEW c \in Clients,
             Connect(c) \/ Disconnect(c) \/ Request(c) \/ Returns(c) \/ ThreadStep(c)
      PROVE  ClientTypes' /\ ThreadInv'
  <2>1. Handles(c)'
    BY <1>2, ConnectHandles, NoteHandles, ThreadHandles, UserHandles
    DEF ThreadInv, Returns
  <2>2. \A d \in Clients : d # c => Handles(d)'
    BY <1>2, OtherHandles DEF ThreadInv
  <2>3. NoteThread(c) => buffer_thread'[c] \in Threads
    BY NoteHandles DEF ThreadInv
  <2>4. /\ aware' \in [Clients -> BOOLEAN]
    BY <1>2, TypeParts DEF ClientTypes, Connect, Disconnect, Request, Returns,
       NoteThread, RequestReturns, ThreadStep, FirstProbe, Check, Ending, Finish
  <2>5. /\ buffer_thread' \in [Clients -> Threads \cup {NULL}]
    BY <1>2, <2>3, TypeParts DEF ClientTypes, Connect, Disconnect, Request, Returns,
       NoteThread, RequestReturns, ThreadStep, FirstProbe, Check, Ending, Finish
  <2>6. /\ thread' \in [Clients -> [Threads ->
             {"none", "started", "reading", "ending", "ended", "done", "unnoted"}]]
    <3>1. \/ thread' = thread
          \/ \E t \in Threads, s \in {"started", "reading", "ending", "ended", "done",
                                      "unnoted"} : At(c, t, s)
      BY <1>2 DEF Connect, Disconnect, Request, Returns, NoteThread, RequestReturns,
         ThreadStep, FirstProbe, Check, Ending, Finish
    <3>2. thread \in [Clients -> [Threads ->
             {"none", "started", "reading", "ending", "ended", "done", "unnoted"}]]
      BY TypeParts DEF ClientTypes
    <3>3. CASE thread' = thread
      BY <3>2, <3>3
    <3>4. ASSUME NEW t \in Threads,
                 NEW s \in {"started", "reading", "ending", "ended", "done", "unnoted"},
                 At(c, t, s)
          PROVE  thread' \in [Clients -> [Threads ->
             {"none", "started", "reading", "ending", "ended", "done", "unnoted"}]]
      BY <3>2, <3>4 DEF At
    <3>. QED BY <3>1, <3>3, <3>4
  <2>7. user' \in [Clients -> {"idle", "creating", "requesting"}]
    BY <1>2, TypeParts DEF ClientTypes, Connect, Disconnect, Request, Returns,
       NoteThread, RequestReturns, ThreadStep, FirstProbe, Check, Ending, Finish
  <2>. QED BY <2>1, <2>2, <2>4, <2>5, <2>6, <2>7 DEF ThreadInv, ClientTypes
<1>3. \/ UNCHANGED clientState
      \/ \E c \in Clients :
           Connect(c) \/ Disconnect(c) \/ Request(c) \/ Returns(c) \/ ThreadStep(c)
  BY DEF Next, Calling, Probe, Connects, GivesUp, Broken, EngineStep, Open, OpenFails,
     EnterLoop, WaitForMaster, Handle, Reply, DropMaster, Leave, Crash, Start,
     ServiceStep, Running, Watch, ForceExit, Stopped, Control, ControlStep, Pending,
     Resumed, Controlled
<1>. QED BY <1>1, <1>2, <1>3

-----------------------------------------------------------------------------
(* Calls.  Who has the pipe waits for the answer until it is sent, an      *)
(* engine that is off has neither a pipe nor a service, and the service    *)
(* calls only within a control.                                            *)
Exchange ==
  /\ engine \in {"serving", "handled", "replied"} => pipe \in Callers
  /\ pipe \in Callers /\ engine # "replied" => call[pipe] = "sent"
  /\ engine = "off" => pipe = Nobody
  /\ service = "off" => engine = "off"

Controls ==
  /\ service = "spawned" => control = "none" /\ status = "START_PENDING"
  /\ call[Service] # "none" => control # "none" /\ step = "send"
  /\ control # "none" /\ step = "send" => status \notin {"RUNNING", "PAUSED"}
  /\ \A c \in Clients : message[c] = "STREAM"

LEMMA ExchangeKept == TypeOK /\ Exchange /\ Next => Exchange'
<1> SUFFICES ASSUME TypeOK, Exchange, Next PROVE Exchange'
  OBVIOUS
<1>0. /\ call \in [Callers -> {"none", "probe", "wait", "sent", "answered", "failed"}]
      /\ pipe \in Callers \cup {Nobody}
  BY TypeParts DEF CallTypes, Places
<1>1. ASSUME NEW p \in Callers, Calling(p) PROVE Exchange'
  BY <1>0, <1>1 DEF Calling, Probe, Connects, GivesUp, Broken, Ends, Free, Exchange,
     engineState, serviceState
<1>2. CASE EngineStep
  BY <1>0, <1>2, CallerNames DEF EngineStep, Open, OpenFails, EnterLoop, WaitForMaster,
     Handle, Reply, DropMaster, Leave, Gone, Ends, callState, serviceState, Exchange
<1>3. CASE Crash \/ Start \/ ServiceStep
  BY <1>0, <1>3, CallerNames DEF Crash, Start, ServiceStep, Running, Watch, ForceExit,
     Stopped, Terminated, Gone, engineState, serviceState, callState, Exchange
<1>4. ASSUME NEW k \in {"STOP", "PAUSE", "CONTINUE"}, Control(k) PROVE Exchange'
  BY <1>4 DEF Control, engineState, serviceState, callState, Exchange
<1>5. CASE ControlStep
  BY <1>0, <1>5, CallerNames DEF ControlStep, Pending, Resumed, Controlled, Result,
     Sends, Ends, Terminated, Gone, engineState, serviceState, Exchange
<1>6. ASSUME NEW c \in Clients,
             Connect(c) \/ Disconnect(c) \/ Request(c) \/ Returns(c) \/ ThreadStep(c)
      PROVE  Exchange'
  BY <1>0, <1>6, CallerNames DEF Connect, Disconnect, Request, Returns, NoteThread,
     RequestReturns, ThreadStep, FirstProbe, Check, Ending, Finish, Sends, Ends,
     engineState, serviceState, callState, Exchange
<1>. QED BY <1>1, <1>2, <1>3, <1>4, <1>5, <1>6 DEF Next

LEMMA ControlsKept == TypeOK /\ Exchange /\ Controls /\ Next => Controls'
<1> SUFFICES ASSUME TypeOK, Exchange, Controls, Next PROVE Controls'
  OBVIOUS
<1>0. /\ call \in [Callers -> {"none", "probe", "wait", "sent", "answered", "failed"}]
      /\ message \in [Callers -> Messages]
      /\ pipe \in Callers \cup {Nobody}
  BY TypeParts DEF CallTypes, Places
<1>1. ASSUME NEW p \in Callers, Calling(p) PROVE Controls'
  BY <1>0, <1>1, CallerNames DEF Calling, Probe, Connects, GivesUp, Broken, Ends,
     Controls, serviceState
<1>2. CASE EngineStep
  <2>1. /\ UNCHANGED <<service, control, status, step, message>>
        /\ \/ call' = call
           \/ /\ call[Service] # "none" \/ pipe # Service
              /\ call' = [call EXCEPT ![pipe] = "answered"]
    BY <1>2 DEF EngineStep, Open, OpenFails, EnterLoop, WaitForMaster, Handle, Reply,
       DropMaster, Leave, Ends, callState, serviceState, Exchange
  <2>. QED BY <1>0, <2>1, CallerNames DEF Controls
<1>3. CASE Crash \/ Start \/ ServiceStep
  BY <1>0, <1>3, CallerNames DEF Crash, Start, ServiceStep, Running, Watch, ForceExit,
     Stopped, callState, serviceState, Controls
<1>4. ASSUME NEW k \in {"STOP", "PAUSE", "CONTINUE"}, Control(k) PROVE Controls'
  BY <1>4 DEF Control, callState, Controls
<1>5. CASE ControlStep
  BY <1>0, <1>5, CallerNames DEF ControlStep, Pending, Resumed, Controlled, Result,
     Sends, Ends, serviceState, Controls
<1>6. ASSUME NEW c \in Clients,
             Connect(c) \/ Disconnect(c) \/ Request(c) \/ Returns(c) \/ ThreadStep(c)
      PROVE  Controls'
  BY <1>0, <1>6, CallerNames DEF Connect, Disconnect, Request, Returns, NoteThread,
     RequestReturns, ThreadStep, FirstProbe, Check, Ending, Finish, Sends, Ends,
     serviceState, callState, Controls
<1>. QED BY <1>1, <1>2, <1>3, <1>4, <1>5, <1>6 DEF Next

LEMMA HandledKept == TypeOK /\ Exchange /\ CallsHandledOnce /\ Next => CallsHandledOnce'
<1> SUFFICES ASSUME TypeOK, Exchange, CallsHandledOnce, Next, ~killed'
             PROVE  CallsHandledOnce'
  BY DEF CallsHandledOnce
<1>0. handled \in [Callers -> Nat] /\ answered \in [Callers -> Nat]
  BY TypeParts DEF Numbers
<1>1. CASE Handle
  <2>1. /\ pipe \in Callers /\ pipe' = pipe /\ engine = "serving" /\ engine' = "handled"
        /\ handled' = [handled EXCEPT ![pipe] = @ + 1] /\ answered' = answered
        /\ killed' = killed
    BY <1>1 DEF Handle, Exchange
  <2>. QED BY <1>0, <2>1 DEF CallsHandledOnce
<1>2. CASE Reply
  <2>1. /\ pipe \in Callers /\ pipe' = pipe /\ engine = "handled" /\ engine' = "replied"
        /\ answered' = [answered EXCEPT ![pipe] = @ + 1] /\ handled' = handled
        /\ killed' = killed
    BY <1>2 DEF Reply, Exchange
  <2>. QED BY <1>0, <2>1 DEF CallsHandledOnce
<1>3. CASE UNCHANGED <<engine, pipe, handled, answered, killed>>
  BY <1>3 DEF CallsHandledOnce
<1>4. CASE /\ UNCHANGED <<handled, answered, killed>>
           /\ engine # "handled" /\ engine' # "handled"
  BY <1>4 DEF CallsHandledOnce
<1>5. ASSUME NEW p \in Callers, Calling(p)
      PROVE  UNCHANGED <<handled, answered, killed, engine>>
             /\ (pipe' = pipe \/ engine # "handled")
  BY <1>5 DEF Calling, Probe, Connects, GivesUp, Broken, Free, engineState, history
<1>6. CASE EngineStep /\ ~Handle /\ ~Reply
  <2>1. /\ UNCHANGED <<handled, answered, killed>>
        /\ engine # "handled" /\ engine' # "handled"
    BY <1>6 DEF EngineStep, Open, OpenFails, EnterLoop, WaitForMaster, DropMaster, Leave,
       Gone, history
  <2>. QED BY <1>4, <2>1
<1>7. ~Crash /\ ~ForceExit
  BY DEF Crash, ForceExit, Terminated
<1>8. CASE Start
  <2>1. UNCHANGED <<handled, answered, killed>> /\ engine = "off" /\ engine' \in {"off", "loading"}
    BY <1>8 DEF Start, history, Exchange
  <2>. QED BY <1>4, <2>1
<1>9. CASE ServiceStep
  BY <1>3, <1>7, <1>9 DEF ServiceStep, Running, Watch, Stopped, engineState, history
<1>10. ASSUME NEW k \in {"STOP", "PAUSE", "CONTINUE"}, Control(k)
       PROVE  UNCHANGED <<engine, pipe, handled, answered, killed>>
  BY <1>10 DEF Control, engineState, history
<1>11. CASE ControlStep
  BY <1>3, <1>11 DEF ControlStep, Pending, Resumed, Controlled, Terminated,
     engineState, history
<1>12. ASSUME NEW c \in Clients,
             Connect(c) \/ Disconnect(c) \/ Request(c) \/ Returns(c) \/ ThreadStep(c)
       PROVE  UNCHANGED <<engine, pipe, handled, answered, killed>>
  BY <1>12 DEF Connect, Disconnect, Request, Returns, NoteThread, RequestReturns,
     ThreadStep, FirstProbe, Check, Ending, Finish, engineState, history
<1>13. ASSUME NEW p \in Callers, Calling(p) PROVE CallsHandledOnce'
  <2>1. CASE engine = "handled"
    BY <1>3, <1>5, <1>13, <2>1
  <2>2. CASE engine # "handled"
    BY <1>4, <1>5, <1>13, <2>2
  <2>. QED BY <2>1, <2>2
<1>. QED BY <1>1, <1>2, <1>3, <1>6, <1>7, <1>8, <1>9, <1>10, <1>11, <1>12, <1>13 DEF Next

-----------------------------------------------------------------------------
(* What the service says of its engine.                                    *)

(* A message to pause or to continue has its effect when it is answered.   *)
Heeded ==
  engine # "off" /\ ((engine = "handled" /\ pipe = Service) \/ call[Service] = "answered")
    => /\ message[Service] = "PAUSE" => pause
       /\ message[Service] = "CONTINUE" => ~pause

FreshEngine == engine = "off" \/ service = "spawned" => ~pause

PauseInv == Heeded /\ FreshEngine /\ PausedAsSaid

(* Steps that leave the engine's pause_flag, and have the service report   *)
(* neither a pause nor that it runs.                                       *)
LEMMA PauseFrame ==
  ASSUME PauseInv, pause' = pause,
         engine' # "off" => engine # "off",
         engine' = "handled" /\ pipe' = Service => engine = "handled" /\ pipe = Service,
         call'[Service] = "answered" =>
            call[Service] = "answered" \/ (engine = "handled" /\ pipe = Service),
         message'[Service] = message[Service] \/
            (call'[Service] # "answered" /\ ~(engine' = "handled" /\ pipe' = Service)),
         engine' = "off" => engine = "off",
         service' = "spawned" => service = "spawned",
         status' = "PAUSED" => status = "PAUSED",
         status' = "RUNNING" /\ control' = "none" => status = "RUNNING" /\ control = "none"
  PROVE  PauseInv'
BY DEF PauseInv, Heeded, FreshEngine, PausedAsSaid

LEMMA PauseGone == engine' = "off" /\ pause' = FALSE => PauseInv'
BY DEF PauseInv, Heeded, FreshEngine, PausedAsSaid

LEMMA CallingPause ==
  ASSUME TypeOK, PauseInv, NEW p \in Callers, Calling(p)
  PROVE  PauseInv'
<1>1. call \in [Callers -> {"none", "probe", "wait", "sent", "answered", "failed"}]
  BY TypeParts DEF CallTypes
<1>2. /\ UNCHANGED <<pause, shutdown, engine, message, service, status, control>>
      /\ pipe' = pipe \/ engine # "handled"
      /\ call'[Service] = "answered" => call[Service] = "answered"
  BY <1>1, CallerNames DEF Calling, Probe, Connects, GivesUp, Broken, Ends, Free,
     engineState, serviceState
<1>. QED BY <1>2, PauseFrame

LEMMA EnginePause ==
  ASSUME TypeOK, Exchange, Controls, PauseInv, EngineStep
  PROVE  PauseInv'
<1>1. CASE OpenFails \/ Leave
  BY <1>1, PauseGone DEF OpenFails, Leave, Gone
<1>2. CASE Open \/ EnterLoop \/ WaitForMaster \/ DropMaster
  <2>1. /\ UNCHANGED <<pause, call, message, service, status, control>>
        /\ engine # "off" /\ engine' # "off" /\ engine' # "handled"
    BY <1>2 DEF Open, EnterLoop, WaitForMaster, DropMaster, callState, serviceState
  <2>. QED BY <2>1, PauseFrame
<1>3. CASE Reply
  <2>1. /\ UNCHANGED <<pause, message, service, status, control>>
        /\ engine = "handled" /\ engine' = "replied"
        /\ call' = [call EXCEPT ![pipe] = "answered"]
    BY <1>3 DEF Reply, Ends, serviceState
  <2>2. call'[Service] = "answered" =>
          call[Service] = "answered" \/ (engine = "handled" /\ pipe = Service)
    BY <2>1, CallerNames, TypeParts DEF CallTypes
  <2>. QED BY <2>1, <2>2, PauseFrame
<1>4. CASE Handle
  <2>1. /\ UNCHANGED <<call, message, service, status, control, step, pipe>>
        /\ engine = "serving" /\ engine' = "handled"
        /\ pipe \in Callers /\ call[pipe] = "sent"
    BY <1>4 DEF Handle, callState, serviceState, Exchange
  <2>2. CASE pipe = Service
    <3>1. /\ control # "none" /\ status \notin {"RUNNING", "PAUSED"}
          /\ service # "spawned"
      BY <2>1, <2>2 DEF Controls
    <3>2. /\ message[Service] = "PAUSE" => pause'
          /\ message[Service] = "CONTINUE" => ~pause'
      BY <1>4, <2>2 DEF Handle
    <3>. QED BY <2>1, <3>1, <3>2 DEF PauseInv, Heeded, FreshEngine, PausedAsSaid
  <2>3. CASE pipe # Service
    <3>1. message[pipe] = "STREAM"
      BY <2>1, <2>3 DEF Callers, Controls
    <3>2. pause' = pause
      BY <1>4, <3>1 DEF Handle
    <3>. QED BY <2>1, <2>3, <3>2, PauseFrame
  <2>. QED BY <2>2, <2>3
<1>. QED BY <1>1, <1>2, <1>3, <1>4 DEF EngineStep

LEMMA ServicePause ==
  ASSUME TypeOK, Exchange, Controls, PauseInv, Start \/ ServiceStep
  PROVE  PauseInv'
<1>1. CASE Start
  <2>1. /\ UNCHANGED <<pause, call>>
        /\ engine = "off" /\ control = "none" /\ control' = "none"
        /\ engine' \in {"off", "loading"}
        /\ status' \in {"START_PENDING", "STOPPED"}
    BY <1>1 DEF Start, callState, Exchange
  <2>2. call[Service] = "none"
    BY <2>1 DEF Controls
  <2>3. ~pause'
    BY <2>1 DEF PauseInv, FreshEngine
  <2>. QED BY <2>1, <2>2, <2>3 DEF PauseInv, Heeded, FreshEngine, PausedAsSaid
<1>2. CASE Running
  <2>1. /\ UNCHANGED <<pause, call, message, engine, pipe, control>>
        /\ service = "spawned" /\ service' = "watching" /\ status' = "RUNNING"
    BY <1>2 DEF Running, callState, engineState
  <2>2. ~pause
    BY <2>1 DEF PauseInv, FreshEngine
  <2>. QED BY <2>1, <2>2 DEF PauseInv, Heeded, FreshEngine, PausedAsSaid
<1>3. CASE Watch
  <2>1. /\ UNCHANGED <<pause, call, message, engine, pipe, control, status>>
        /\ service' = "ending"
    BY <1>3 DEF Watch, callState, engineState
  <2>. QED BY <2>1, PauseFrame
<1>4. CASE ForceExit
  BY <1>4, PauseGone DEF ForceExit, Terminated, Gone
<1>5. CASE Stopped
  <2>1. /\ UNCHANGED <<pause, call, message, engine, pipe, control>>
        /\ service' = "off" /\ status' = "STOPPED"
    BY <1>5 DEF Stopped, callState, engineState
  <2>. QED BY <2>1, PauseFrame
<1>. QED BY <1>1, <1>2, <1>3, <1>4, <1>5 DEF ServiceStep

LEMMA ControlPause ==
  ASSUME TypeOK, Exchange, Controls, PauseInv,
         ControlStep \/ \E k \in {"STOP", "PAUSE", "CONTINUE"} : Control(k)
  PROVE  PauseInv'
<1>0. /\ call \in [Callers -> {"none", "probe", "wait", "sent", "answered", "failed"}]
      /\ message \in [Callers -> Messages]
  BY TypeParts DEF CallTypes
<1>1. ASSUME NEW k \in {"STOP", "PAUSE", "CONTINUE"}, Control(k)
      PROVE  PauseInv'
  <2>1. /\ UNCHANGED <<pause, call, message, engine, pipe, service, status>>
        /\ control' # "none"
    BY <1>1 DEF Control, callState, engineState
  <2>. QED BY <2>1, PauseFrame
<1>2. CASE Pending \/ Resumed
  <2>1. /\ UNCHANGED <<pause, engine, pipe, service>>
        /\ call[Service] \in {"none", "answered", "failed"} /\ call'[Service] = "probe"
        /\ control # "none" /\ control' = control
        /\ status' = status \/ status' \notin {"RUNNING", "PAUSED"}
    BY <1>0, <1>2, CallerNames DEF Pending, Resumed, Result, Sends, engineState,
       serviceState
  <2>2. ~(engine' = "handled" /\ pipe' = Service)
    BY <2>1, CallerNames DEF Exchange
  <2>. QED BY <2>1, <2>2, PauseFrame
<1>3. CASE Controlled
  <2>1. /\ control # "none" /\ step = "send" /\ message[Service] = control
        /\ message' = message /\ call'[Service] = "none" /\ service' = service
        /\ status \notin {"RUNNING", "PAUSED"}
    BY <1>0, <1>3, CallerNames DEF Controlled, Result, Ends, Controls
  <2>2. CASE engine' = "off" /\ pause' = FALSE
    BY <2>2, PauseGone
  <2>3. CASE UNCHANGED <<engine, pause, pipe>> /\ status' = status
    BY <2>1, <2>3, PauseFrame
  <2>4. CASE /\ UNCHANGED <<engine, pause, pipe>> /\ call[Service] = "answered"
             /\ control # "STOP"
             /\ status' = IF control = "PAUSE" THEN "PAUSED" ELSE "RUNNING"
    <3>1. engine # "off" => /\ control = "PAUSE" => pause
                            /\ control = "CONTINUE" => ~pause
      BY <2>1, <2>4 DEF PauseInv, Heeded
    <3>2. control \in {"PAUSE", "CONTINUE"}
      BY <2>1, <2>4, TypeParts DEF Places
    <3>3. ~(engine = "handled" /\ pipe = Service)
      BY <2>4, CallerNames DEF Exchange
    <3>4. PausedAsSaid'
      BY <2>4, <3>1, <3>2 DEF PausedAsSaid
    <3>. QED BY <2>1, <2>4, <3>3, <3>4 DEF PauseInv, Heeded, FreshEngine
  <2>5. \/ engine' = "off" /\ pause' = FALSE
        \/ UNCHANGED <<engine, pause, pipe>>
    BY <1>3 DEF Controlled, Terminated, Gone, engineState
  <2>6. \/ status' = status
        \/ /\ call[Service] = "answered" /\ control # "STOP"
           /\ status' = IF control = "PAUSE" THEN "PAUSED" ELSE "RUNNING"
    BY <1>3 DEF Controlled, Result
  <2>. QED BY <2>2, <2>3, <2>4, <2>5, <2>6
<1>. QED BY <1>1, <1>2, <1>3 DEF ControlStep

LEMMA ClientPause ==
  ASSUME TypeOK, PauseInv, NEW c \in Clients,
         Connect(c) \/ Disconnect(c) \/ Request(c) \/ Returns(c) \/ ThreadStep(c)
  PROVE  PauseInv'
<1>0. /\ call \in [Callers -> {"none", "probe", "wait", "sent", "answered", "failed"}]
      /\ message \in [Callers -> Messages]
  BY TypeParts DEF CallTypes
<1>1. /\ UNCHANGED <<pause, engine, pipe, service, status, control>>
      /\ call'[Service] = call[Service] /\ message'[Service] = message[Service]
  BY <1>0, CallerNames DEF Connect, Disconnect, Request, Returns, NoteThread,
     RequestReturns, ThreadStep, FirstProbe, Check, Ending, Finish, Sends, Ends,
     engineState, serviceState, callState
<1>. QED BY <1>1, PauseFrame

LEMMA PauseKept ==
  ASSUME TypeOK, Exchange, Controls, PauseInv, Next
  PROVE  PauseInv'
<1>1. Crash => PauseInv'
  BY PauseGone DEF Crash, Terminated, Gone
<1>. QED BY <1>1, CallingPause, EnginePause, ServicePause, ControlPause, ClientPause
     DEF Next

-----------------------------------------------------------------------------

ConnectionInv ==
  TypeOK /\ ThreadInv /\ Exchange /\ Controls /\ CallsHandledOnce /\ PauseInv

LEMMA InitConnection == Init => ConnectionInv
<1> SUFFICES ASSUME Init PROVE ConnectionInv
  OBVIOUS
<1>1. TypeOK
  BY InitTypes
<1>2. ThreadInv
  BY DEF Init, ThreadInv, Handles, Stored, Lives
<1>3. Exchange /\ Controls
  BY CallerNames DEF Init, Exchange, Controls
<1>4. CallsHandledOnce
  BY DEF Init, CallsHandledOnce
<1>5. PauseInv
  BY CallerNames DEF Init, PauseInv, Heeded, FreshEngine, PausedAsSaid
<1>. QED BY <1>1, <1>2, <1>3, <1>4, <1>5 DEF ConnectionInv

LEMMA NextConnection == ConnectionInv /\ [Next]_vars => ConnectionInv'
<1> SUFFICES ASSUME ConnectionInv, [Next]_vars PROVE ConnectionInv'
  OBVIOUS
<1> USE DEF ConnectionInv
<1>1. CASE Next
  <2>1. TypeOK'
    <3>1. Places' /\ CallTypes' /\ Flags' /\ ClientTypes' /\ Numbers'
      BY <1>1, PlacesKept, CallTypesKept, FlagsKept, ClientsKept, NumbersKept
    <3>. QED BY <3>1 DEF TypeOK, Places, CallTypes, Flags, ClientTypes, Numbers
  <2>. QED BY <1>1, <2>1, ClientsKept, ExchangeKept, ControlsKept, HandledKept, PauseKept
<1>2. CASE UNCHANGED vars
  <2>1. /\ UNCHANGED <<engine, pause, shutdown, pipe, call, message>>
        /\ UNCHANGED <<service, control, step, status, pause_flag, shutdown_flag>>
        /\ UNCHANGED <<aware, buffer_thread, thread, user>>
        /\ UNCHANGED <<starts, controls, crashes, calls, handled, answered, killed>>
    BY <1>2 DEF vars, engineState, callState, serviceState, clientState, bounds, history
  <2>2. TypeOK'
    BY <2>1 DEF TypeOK
  <2>3. ThreadInv'
    BY <2>1, HandlesFrame DEF ThreadInv
  <2>4. Exchange' /\ Controls'
    BY <2>1 DEF Exchange, Controls
  <2>5. CallsHandledOnce'
    BY <2>1 DEF CallsHandledOnce
  <2>6. PauseInv'
    BY <2>1, PauseFrame
  <2>. QED BY <2>2, <2>3, <2>4, <2>5, <2>6
<1>. QED BY <1>1, <1>2

LEMMA ConnectionInvariant == Spec => []ConnectionInv
BY InitConnection, NextConnection, PTL DEF Spec

(* Every variable keeps its type; in particular the handle that            *)
(* TOSDB_Connect stores is that of a thread it made.                       *)
THEOREM ConnectionTypeCorrect == Spec => []TypeOK
BY ConnectionInvariant, PTL DEF ConnectionInv

(* A call that failed had no effect and one that succeeded had one, unless *)
(* the engine's process was ended from outside: for any number of callers, *)
(* who all share the one instance of the pipe.                             *)
THEOREM EachCallHandledOnce == Spec => []CallsHandledOnce
BY ConnectionInvariant, PTL DEF ConnectionInv

(* A service that reports a pause has a paused engine, and one that        *)
(* reports that it runs has one that does, after any controls, failures,   *)
(* crashes and restarts.                                                   *)
THEOREM StatusIsTheEngines == Spec => []PausedAsSaid
BY ConnectionInvariant, PTL DEF ConnectionInv, PauseInv

(* A client has at most one connection thread, and believes itself         *)
(* connected only while that thread reads.                                 *)
THEOREM OneConnectionThread == Spec => []OneThread
<1>1. ConnectionInv => OneThread
  <2> SUFFICES ASSUME ConnectionInv, NEW c \in Clients
               PROVE  /\ Cardinality(Live(c)) <= 1
                      /\ aware[c] => \E t \in Live(c) : thread[c][t] \in {"reading", "ending"}
                      /\ buffer_thread[c] \in Live(c) \cup {NULL}
                           \cup {t \in Threads : thread[c][t] = "unnoted"}
    BY DEF OneThread
  <2>1. /\ Handles(c)
        /\ buffer_thread[c] \in Threads \cup {NULL}
    BY TypeParts DEF ConnectionInv, ThreadInv, ClientTypes
  <2>2. \A t, u \in Live(c) : t = u
    BY <2>1 DEF Live, Lives, Handles, Stored, Unstored
  <2>3. Cardinality(Live(c)) <= 1
    <3>1. CASE Live(c) = {}
      BY <3>1, FS_EmptySet
    <3>2. ASSUME NEW t \in Live(c) PROVE Cardinality(Live(c)) <= 1
      <4>1. Live(c) = {t}
        BY <2>2
      <4>. QED BY <4>1, FS_Singleton
    <3>. QED BY <3>1, <3>2
  <2>4. aware[c] => \E t \in Live(c) : thread[c][t] \in {"reading", "ending"}
    BY <2>1 DEF Handles, Live
  <2>5. buffer_thread[c] \in Live(c) \cup {NULL}
          \cup {t \in Threads : thread[c][t] = "unnoted"}
    BY <2>1 DEF Handles, Live, Stored, Unstored
  <2>. QED BY <2>3, <2>4, <2>5
<1>. QED BY <1>1, ConnectionInvariant, PTL

-----------------------------------------------------------------------------
(***************************************************************************)
(* What the two liveness properties rest on besides fairness: there is     *)
(* always a step of the thread that is waited for, it brings the end       *)
(* nearer, and nothing that another process does takes that back.          *)
(***************************************************************************)

(* The service has been told to stop, or its engine has exited under it.   *)
Stopping == shutdown_flag \/ (service = "watching" /\ engine = "off")

(* The steps that ServiceMain has left at most, with the one by which it   *)
(* ends its engine.                                                        *)
Remaining ==
  (CASE service = "watching" -> 2 [] service = "ending" -> 1 [] OTHER -> 0)
    + (IF engine = "off" THEN 0 ELSE 1)

(* While the service winds down, ServiceMain is where it can take a step,  *)
(* each brings it nearer to its end, and no control, caller, client or     *)
(* crash starts an engine, clears the flag or holds it up; when it has     *)
(* ended there is no engine.  That it ends is ServiceEnds.                 *)
MayStop ==
  Stopping => /\ service \in {"watching", "ending", "off"}
              /\ (service = "off") => (engine = "off")

StopGoesOn ==
  Stopping /\ service # "off" =>
    /\ Stopping' \/ service' = "off"
    /\ IF ServiceStep THEN Remaining' < Remaining
       ELSE service' = service /\ Remaining' <= Remaining

ServiceWindsDown == []MayStop /\ [][StopGoesOn]_vars

(* The flag is set of no service that is still spawning its engine.        *)
FlagInv == service = "spawned" => ~shutdown_flag

LEMMA FlagKept == ConnectionInv /\ FlagInv /\ [Next]_vars => FlagInv'
<1> SUFFICES ASSUME ConnectionInv, FlagInv, [Next]_vars PROVE FlagInv'
  OBVIOUS
<1>1. CASE UNCHANGED <<service, shutdown_flag>>
  BY <1>1 DEF FlagInv
<1>2. ASSUME NEW k \in {"STOP", "PAUSE", "CONTINUE"}, Control(k) PROVE FlagInv'
  <2>1. service # "spawned"
    BY <1>2 DEF Control, ConnectionInv, Controls
  <2>. QED BY <1>2, <2>1 DEF Control, FlagInv
<1>3. CASE Start \/ ServiceStep
  BY <1>3 DEF Start, ServiceStep, Running, Watch, ForceExit, Stopped, serviceState,
     FlagInv
<1>4. ASSUME ~Start, ~ServiceStep,
             ~\E k \in {"STOP", "PAUSE", "CONTINUE"} : Control(k)
      PROVE  UNCHANGED <<service, shutdown_flag>>
  BY <1>4 DEF Next, Calling, Probe, Connects, GivesUp, Broken, EngineStep, Open,
     OpenFails, EnterLoop, WaitForMaster, Handle, Reply, DropMaster, Leave, Crash,
     ControlStep, Pending, Resumed, Controlled, Connect, Disconnect, Request, Returns,
     NoteThread, RequestReturns, ThreadStep, FirstProbe, Check, Ending, Finish,
     serviceState, vars
<1>. QED BY <1>1, <1>2, <1>3, <1>4

LEMMA FlagHolds == Spec => []FlagInv
<1>1. Init => FlagInv
  BY DEF Init, FlagInv
<1>. QED BY <1>1, FlagKept, ConnectionInvariant, PTL DEF Spec

(* Only the start of a service makes an engine, and only it clears the     *)
(* flag.                                                                   *)
LEMMA OnlyStartStarts ==
  ASSUME TypeOK, Next, ~Start, ~ServiceStep
  PROVE  /\ service' = service
         /\ shutdown_flag => shutdown_flag'
         /\ engine = "off" => engine' = "off"
<1>1. CASE EngineStep
  <2>1. UNCHANGED <<service, shutdown_flag>>
    BY <1>1 DEF EngineStep, Open, OpenFails, EnterLoop, WaitForMaster, Handle, Reply,
       DropMaster, Leave, serviceState
  <2>2. engine # "off"
    BY <1>1 DEF EngineStep, Open, OpenFails, EnterLoop, WaitForMaster, Handle, Reply,
       DropMaster, Leave
  <2>. QED BY <2>1, <2>2
<1>2. CASE Crash \/ ControlStep
  <2>1. UNCHANGED <<service, shutdown_flag>>
    BY <1>2 DEF Crash, ControlStep, Pending, Resumed, Controlled, serviceState
  <2>2. engine' \in {"off", engine}
    BY <1>2 DEF Crash, ControlStep, Pending, Resumed, Controlled, Terminated, Gone,
       engineState
  <2>. QED BY <2>1, <2>2
<1>3. ASSUME NEW p \in Callers, Calling(p)
      PROVE  UNCHANGED <<service, shutdown_flag, engine>>
  BY <1>3 DEF Calling, Probe, Connects, GivesUp, Broken, engineState, serviceState
<1>4. ASSUME NEW k \in {"STOP", "PAUSE", "CONTINUE"}, Control(k)
      PROVE  /\ UNCHANGED <<service, engine>>
             /\ shutdown_flag => shutdown_flag'
  BY <1>4 DEF Control, engineState
<1>5. ASSUME NEW c \in Clients,
             Connect(c) \/ Disconnect(c) \/ Request(c) \/ Returns(c) \/ ThreadStep(c)
      PROVE  UNCHANGED <<service, shutdown_flag, engine>>
  BY <1>5 DEF Connect, Disconnect, Request, Returns, NoteThread, RequestReturns,
     ThreadStep, FirstProbe, Check, Ending, Finish, engineState, serviceState
<1>. QED BY <1>1, <1>2, <1>3, <1>4, <1>5 DEF Next

THEOREM StopComesNearer == Spec => ServiceWindsDown
<1>1. ConnectionInv /\ FlagInv => MayStop
  <2> SUFFICES ASSUME ConnectionInv, FlagInv PROVE MayStop
    OBVIOUS
  <2>1. service \in {"off", "spawned", "watching", "ending"}
    BY TypeParts DEF ConnectionInv, Places
  <2>. QED BY <2>1 DEF ConnectionInv, Exchange, FlagInv, Stopping, MayStop
<1>2. ConnectionInv /\ FlagInv /\ Next => StopGoesOn
  <2> SUFFICES ASSUME ConnectionInv, FlagInv, Next, Stopping, service # "off"
               PROVE  /\ Stopping' \/ service' = "off"
                      /\ IF ServiceStep THEN Remaining' < Remaining
                         ELSE service' = service /\ Remaining' <= Remaining
    BY DEF StopGoesOn
  <2>1. CASE ServiceStep
    <3>1. service \in {"watching", "ending"}
      BY <1>1 DEF MayStop
    <3>2. CASE Watch
      <4>1. /\ service = "watching" /\ service' = "ending" /\ shutdown_flag'
            /\ engine' = engine
        BY <3>2 DEF Watch, engineState
      <4>. QED BY <2>1, <4>1 DEF Stopping, Remaining
    <3>3. CASE ForceExit
      BY <2>1, <3>3 DEF ForceExit, Terminated, Gone, serviceState, Stopping, Remaining
    <3>4. CASE Stopped
      <4>1. service = "ending" /\ service' = "off" /\ engine' = engine
        BY <3>4 DEF Stopped, engineState
      <4>. QED BY <2>1, <4>1 DEF Remaining
    <3>. QED BY <2>1, <3>1, <3>2, <3>3, <3>4 DEF ServiceStep, Running
  <2>2. CASE ~ServiceStep
    <3>1. ~Start
      BY DEF Start
    <3>2. /\ service' = service
          /\ shutdown_flag => shutdown_flag'
          /\ engine = "off" => engine' = "off"
      BY <2>2, <3>1, OnlyStartStarts DEF ConnectionInv
    <3>3. Stopping'
      BY <3>2 DEF Stopping
    <3>4. Remaining' <= Remaining
      BY <3>2 DEF Remaining
    <3>. QED BY <2>2, <3>2, <3>3, <3>4
  <2>. QED BY <2>1, <2>2
<1>3. Spec => []MayStop
  BY <1>1, ConnectionInvariant, FlagHolds, PTL
<1>4. Spec => [][StopGoesOn]_vars
  BY <1>2, ConnectionInvariant, FlagHolds, PTL DEF Spec
<1>. QED BY <1>3, <1>4 DEF ServiceWindsDown

(* A client that believes in the connection to an engine that has gone has *)
(* one thread, at one of the two steps that end the belief; that thread's  *)
(* steps are those two, and nothing else moves it or makes the client a    *)
(* believer anew.  That the belief ends is LossIsNoticed.                  *)
Noticing(c, s) ==
  \E t \in Threads : thread[c][t] = s /\ \A u \in Live(c) : u = t

IsNoticing(c) == Noticing(c, "reading") \/ Noticing(c, "ending")

NoticesNext(c) ==
  aware[c] /\ engine = "off" =>
    \/ ~aware'[c]
    \/ IF ThreadStep(c) THEN Noticing(c, "reading") /\ Noticing(c, "ending")'
       ELSE thread'[c] = thread[c]

LossComesUp ==
  /\ [](\A c \in Clients : aware[c] => IsNoticing(c))
  /\ [][\A c \in Clients : NoticesNext(c)]_vars

LEMMA AwareIsNoticing ==
  ASSUME ConnectionInv, NEW c \in Clients, aware[c]
  PROVE  IsNoticing(c)
<1>1. Handles(c)
  BY DEF ConnectionInv, ThreadInv
<1>2. PICK t \in Threads : thread[c][t] \in {"reading", "ending"}
  BY <1>1 DEF Handles
<1>3. \A u \in Live(c) : u = t
  BY <1>1, <1>2 DEF Live, Lives, Handles, Stored, Unstored
<1>. QED BY <1>2, <1>3 DEF Noticing, IsNoticing

LEMMA LossStep ==
  ASSUME ConnectionInv, Next, NEW c \in Clients
  PROVE  NoticesNext(c)
<1> SUFFICES ASSUME aware[c], engine = "off", aware'[c]
             PROVE  IF ThreadStep(c) THEN Noticing(c, "reading") /\ Noticing(c, "ending")'
                    ELSE thread'[c] = thread[c]
  BY DEF NoticesNext
<1>1. PICK t \in Threads : /\ thread[c][t] \in {"reading", "ending"}
                           /\ \A u \in Live(c) : u = t
  BY AwareIsNoticing DEF IsNoticing, Noticing
<1>0. /\ aware \in [Clients -> BOOLEAN]
      /\ thread \in [Clients -> [Threads ->
           {"none", "started", "reading", "ending", "ended", "done", "unnoted"}]]
  BY TypeParts DEF ConnectionInv, ClientTypes
<1>2. CASE ThreadStep(c)
  <2>1. PICK u \in Threads :
          FirstProbe(c, u) \/ Check(c, u) \/ Ending(c, u) \/ Finish(c, u)
    BY <1>2 DEF ThreadStep
  <2>2. u \in Live(c)
    BY <2>1 DEF FirstProbe, Check, Ending, Finish, Live
  <2>3. u = t
    BY <1>1, <2>2
  <2>4. CASE Ending(c, u)
    BY <1>0, <2>4 DEF Ending
  <2>5. CASE Check(c, u)
    <3>1. thread[c][u] = "reading" /\ thread'[c][u] = "ending"
      BY <1>0, <2>5 DEF Check, At
    <3>2. \A v \in Threads : v # u => thread'[c][v] = thread[c][v]
      BY <1>0, <2>5 DEF Check, At
    <3>3. Live(c)' \subseteq Live(c)
      BY <3>1, <3>2 DEF Live
    <3>4. Noticing(c, "reading") /\ Noticing(c, "ending")'
      BY <1>1, <2>3, <3>1, <3>3 DEF Noticing
    <3>. QED BY <1>2, <3>4
  <2>6. ~FirstProbe(c, u) /\ ~Finish(c, u)
    BY <1>1, <2>3 DEF FirstProbe, Finish
  <2>. QED BY <2>1, <2>4, <2>5, <2>6
<1>3. CASE Connect(c)
  <2>1. buffer_thread[c] = NULL /\ user[c] # "creating"
    BY <1>3 DEF Connect
  <2>2. buffer_thread[c] = t
    BY <1>1, <2>1 DEF ConnectionInv, ThreadInv, Handles, Stored, Lives
  <2>. QED BY <2>1, <2>2 DEF NULL, Threads
<1>4. ASSUME ~ThreadStep(c), ~Connect(c)
      PROVE  thread'[c] = thread[c]
  <2>1. ASSUME NEW d \in Clients, d # c, Connect(d) \/ ThreadStep(d)
        PROVE  thread'[c] = thread[c]
    BY <1>0, <2>1 DEF Connect, ThreadStep, FirstProbe, Check, Ending, Finish, At
  <2>2. ASSUME ~\E d \in Clients : Connect(d) \/ ThreadStep(d)
        PROVE  thread' = thread
    BY <2>2 DEF Next, Calling, Probe, Connects, GivesUp, Broken, EngineStep, Open,
       OpenFails, EnterLoop, WaitForMaster, Handle, Reply, DropMaster, Leave, Crash,
       Start, ServiceStep, Running, Watch, ForceExit, Stopped, Control, ControlStep,
       Pending, Resumed, Controlled, Disconnect, Request, Returns, NoteThread,
       RequestReturns, clientState
  <2>. QED BY <1>4, <2>1, <2>2
<1>. QED BY <1>2, <1>3, <1>4

THEOREM LossComesNearer == Spec => LossComesUp
<1>1. ConnectionInv => \A c \in Clients : aware[c] => IsNoticing(c)
  BY AwareIsNoticing
<1>2. ConnectionInv /\ Next => \A c \in Clients : NoticesNext(c)
  BY LossStep
<1>3. Spec => [](\A c \in Clients : aware[c] => IsNoticing(c))
  BY <1>1, ConnectionInvariant, PTL
<1>4. Spec => [][\A c \in Clients : NoticesNext(c)]_vars
  BY <1>2, ConnectionInvariant, PTL DEF Spec
<1>. QED BY <1>3, <1>4 DEF LossComesUp
=============================================================================
