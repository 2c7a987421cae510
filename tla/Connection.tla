----------------------------- MODULE Connection -----------------------------
(***************************************************************************)
(* The processes and how they reach each other: the Windows service starts *)
(* the engine, pauses, resumes and stops it (service/service.cpp), clients *)
(* connect and send it their requests (client/client_admin.cpp), and the   *)
(* engine answers one caller at a time (WinMain and RunMainCommLoop of     *)
(* service/engine.cpp), over the named pipes of ipc.cpp.                   *)
(*                                                                         *)
(* The engine's main pipe has one instance, and a caller has it from the   *)
(* moment it connects until the engine disconnects it.  The probe pipe is  *)
(* answered by a thread of its own as long as the engine has its IPCSlave, *)
(* so a probe says that there is an engine, and nothing of its main loop.  *)
(*                                                                         *)
(* What the requests of the clients do is EngineConversations.             *)
(***************************************************************************)
EXTENDS Integers, FiniteSets

CONSTANTS
  Clients,       \* client processes
  Service,       \* the service, as a caller
  Nobody,
  MaxThreads,    \* bound: connection threads each client makes
  MaxCalls,      \* bound: requests of each client
  MaxControls,   \* bound: controls the service is sent
  MaxStarts,     \* bound: times the service is started
  MaxCrashes     \* bound: times the engine crashes

Callers == Clients \cup {Service}
Threads == 1 .. MaxThreads
NULL    == 0

ASSUME CallersAssumption == Service \notin Clients /\ Nobody \notin Callers
ASSUME BoundsAssumption ==
  {MaxThreads, MaxCalls, MaxControls, MaxStarts, MaxCrashes} \subseteq Nat

VARIABLES
  engine,          \* where the engine's main thread is
  pause, shutdown, \* its pause_flag and shutdown_flag
  pipe,            \* the caller that has the main pipe
  call, message,   \* where each caller is in a call, and what it sends
  service,         \* where ServiceMain is
  control, step,   \* the control ServiceController is at, and where
  status,          \* dwCurrentState
  pause_flag, shutdown_flag,  \* of the service
  aware,           \* aware_of_connection of each client
  buffer_thread,   \* its handle of the connection thread, or NULL
  thread,          \* where the connection threads are
  user,            \* where the client's own thread is
  starts, controls, crashes, calls,
  handled,         \* history: messages of each caller the engine handled
  answered,        \* history: calls of each caller that returned true
  killed           \* history: the engine has crashed or was terminated

engineState  == <<engine, pause, shutdown>>
callState    == <<call, message>>
serviceState == <<service, control, step, status, pause_flag, shutdown_flag>>
clientState  == <<aware, buffer_thread, thread, user>>
bounds  == <<starts, controls, crashes, calls>>
history == <<handled, answered, killed>>
vars == <<engineState, pipe, callState, serviceState, clientState, bounds,
          history>>

(* Messages, with the opcodes' names; the clients' are all alike here.     *)
Messages == {"STREAM", "PAUSE", "CONTINUE", "STOP"}

(* The pipes exist, and the probe thread answers, from the construction of *)
(* the IPCSlave to the end of the process.                                 *)
Answers ==
  engine \in {"opening", "listening", "serving", "handled", "replied", "leaving"}

(* A caller can connect to the pipe's instance, also before the engine     *)
(* first waits for a master.                                               *)
Free == engine \in {"opening", "listening"} /\ pipe = Nobody

Init ==
  /\ engine = "off" /\ pause = FALSE /\ shutdown = FALSE
  /\ pipe = Nobody
  /\ call = [p \in Callers |-> "none"] /\ message = [p \in Callers |-> "STREAM"]
  /\ service = "off" /\ control = "none" /\ step = "status"
  /\ status = "STOPPED"
  /\ pause_flag = FALSE /\ shutdown_flag = FALSE
  /\ aware = [c \in Clients |-> FALSE]
  /\ buffer_thread = [c \in Clients |-> NULL]
  /\ thread = [c \in Clients |-> [t \in Threads |-> "none"]]
  /\ user = [c \in Clients |-> "idle"]
  /\ starts = 0 /\ controls = 0 /\ crashes = 0
  /\ calls = [c \in Clients |-> 0]
  /\ handled = [p \in Callers |-> 0] /\ answered = [p \in Callers |-> 0]
  /\ killed = FALSE

-----------------------------------------------------------------------------
(***************************************************************************)
(* A call: IPCMaster's connected, which probes, and call, which sends a    *)
(* message and waits for the answer (CallNamedPipe).                       *)
(***************************************************************************)

(* Mutant: the service sends the control's code in place of the opcode.    *)
SendsControlCode(p, m) ==
  /\ call[p] = "none"
  /\ call' = [call EXCEPT ![p] = "probe"]
  /\ message' = [message EXCEPT ![p] = IF p = Service THEN "SERVICE_CONTROL" ELSE m]

Sends(p, m) ==
  /\ call[p] = "none"
  /\ call' = [call EXCEPT ![p] = "probe"]
  /\ message' = [message EXCEPT ![p] = m]

Ends(p, how) == call' = [call EXCEPT ![p] = how] /\ UNCHANGED message

Probe(p) ==
  /\ call[p] = "probe"
  /\ Ends(p, IF Answers THEN "wait" ELSE "failed")
  /\ UNCHANGED <<engineState, pipe, serviceState, clientState, bounds, history>>

Connects(p) ==
  /\ call[p] = "wait"
  /\ Free
  /\ pipe' = p
  /\ Ends(p, "sent")
  /\ UNCHANGED <<engineState, serviceState, clientState, bounds, history>>

(* The instance is busy for as long as the caller waits, or there is none. *)
GivesUp(p) ==
  /\ call[p] = "wait"
  /\ ~Free
  /\ Ends(p, "failed")
  /\ UNCHANGED <<engineState, pipe, serviceState, clientState, bounds, history>>

(* The end of the engine's process breaks the pipe.                        *)
Broken(p) ==
  /\ call[p] = "sent" /\ pipe # p
  /\ Ends(p, "failed")
  /\ UNCHANGED <<engineState, pipe, serviceState, clientState, bounds, history>>

Calling(p) == Probe(p) \/ Connects(p) \/ GivesUp(p) \/ Broken(p)

-----------------------------------------------------------------------------
(***************************************************************************)
(* The engine.                                                             *)
(***************************************************************************)

(* The process has started and creates its IPCSlave.                       *)
Open ==
  /\ engine = "loading"
  /\ engine' = "opening"
  /\ UNCHANGED <<pause, shutdown, pipe, callState, serviceState, clientState,
                 bounds, history>>

(* With the process go its flags and its end of the pipe.                  *)
Gone == /\ engine' = "off" /\ pipe' = Nobody
        /\ pause' = FALSE /\ shutdown' = FALSE

(* The message thread sets init_event before WinMain has created it: the   *)
(* wait for it times out.                                                  *)
OpenFails ==
  /\ engine = "opening"
  /\ Gone
  /\ UNCHANGED <<callState, serviceState, clientState, bounds, history>>

(* The first wait_for_master.  ConnectNamedPipe fails where a caller has   *)
(* connected already, and the loop ends.                                   *)
EnterLoop ==
  /\ engine = "opening"
  /\ IF pipe = Nobody
     THEN engine' = "listening" /\ UNCHANGED shutdown
     ELSE engine' = "leaving" /\ shutdown' = TRUE
  /\ UNCHANGED <<pause, pipe, callState, serviceState, clientState, bounds,
                 history>>

WaitForMaster ==
  /\ engine = "listening" /\ pipe # Nobody
  /\ engine' = "serving"
  /\ UNCHANGED <<pause, shutdown, pipe, callState, serviceState, clientState,
                 bounds, history>>

(* Mutant: a paused engine drops a client's request without an answer.     *)
HandleOrDrop ==
  LET m == message[pipe] IN
  /\ engine = "serving"
  /\ IF pause /\ m = "STREAM"
     THEN engine' = "listening" /\ pipe' = Nobody
     ELSE engine' = "handled" /\ UNCHANGED pipe
  /\ pause' = CASE m = "PAUSE" -> TRUE [] m = "CONTINUE" -> FALSE
                [] OTHER -> pause
  /\ shutdown' = (shutdown \/ m = "STOP")
  /\ handled' = [handled EXCEPT ![pipe] = @ + 1]
  /\ UNCHANGED <<callState, serviceState, clientState, bounds, answered, killed>>

(* recv, ParseIPCMessage and HandleGoodIPCMessage.                         *)
Handle ==
  LET m == message[pipe] IN
  /\ engine = "serving"
  /\ engine' = "handled"
  /\ pause' = CASE m = "PAUSE" -> TRUE [] m = "CONTINUE" -> FALSE
                [] OTHER -> pause
  /\ shutdown' = (shutdown \/ m = "STOP")
  /\ handled' = [handled EXCEPT ![pipe] = @ + 1]
  /\ UNCHANGED <<pipe, callState, serviceState, clientState, bounds, answered,
                 killed>>

(* send, which the caller reads before drop_master disconnects it.         *)
Reply ==
  /\ engine = "handled"
  /\ engine' = "replied"
  /\ Ends(pipe, "answered")
  /\ answered' = [answered EXCEPT ![pipe] = @ + 1]
  /\ UNCHANGED <<pause, shutdown, pipe, serviceState, clientState, bounds,
                 handled, killed>>

DropMaster ==
  /\ engine = "replied"
  /\ engine' = IF shutdown THEN "leaving" ELSE "listening"
  /\ pipe' = Nobody
  /\ UNCHANGED <<pause, shutdown, callState, serviceState, clientState, bounds,
                 history>>

(* RemoveAllStreams, CleanUpMain and the end of the process.               *)
Leave ==
  /\ engine = "leaving"
  /\ Gone
  /\ UNCHANGED <<callState, serviceState, clientState, bounds, history>>

Terminated == Gone /\ killed' = TRUE

Crash ==
  /\ engine # "off" /\ crashes < MaxCrashes
  /\ crashes' = crashes + 1
  /\ Terminated
  /\ UNCHANGED <<callState, serviceState, clientState, starts, controls, calls,
                 handled, answered>>

EngineStep == \/ Open \/ OpenFails \/ EnterLoop \/ WaitForMaster
              \/ Handle \/ Reply \/ DropMaster \/ Leave

-----------------------------------------------------------------------------
(***************************************************************************)
(* The service: ServiceMain on one thread, ServiceController on another.   *)
(***************************************************************************)

(* A start is a new process: its flags are clear, and it has an engine, or *)
(* it stops at once because that could not be spawned.                     *)
Start ==
  /\ service = "off" /\ control = "none" /\ starts < MaxStarts
  /\ starts' = starts + 1
  /\ pause_flag' = FALSE /\ shutdown_flag' = FALSE
  /\ \/ /\ service' = "spawned" /\ status' = "START_PENDING"
        /\ engine' = "loading"
     \/ /\ status' = "STOPPED"
        /\ UNCHANGED <<service, engine>>
  /\ UNCHANGED <<pause, shutdown, pipe, callState, control, step, clientState,
                 controls, crashes, calls, history>>

Running ==
  /\ service = "spawned"
  /\ service' = "watching" /\ status' = "RUNNING"
  /\ UNCHANGED <<engineState, pipe, callState, control, step, pause_flag,
                 shutdown_flag, clientState, bounds, history>>

(* Mutant: the update loop does not look at the engine.                    *)
WatchFlag ==
  /\ service = "watching"
  /\ shutdown_flag
  /\ service' = "ending"
  /\ UNCHANGED <<engineState, pipe, callState, control, step, status, pause_flag,
                 shutdown_flag, clientState, bounds, history>>

(* The update loop ends: the engine has exited, or a control has set the   *)
(* flag.                                                                   *)
Watch ==
  /\ service = "watching"
  /\ engine = "off" \/ shutdown_flag
  /\ service' = "ending"
  /\ shutdown_flag' = TRUE
  /\ UNCHANGED <<engineState, pipe, callState, control, step, status,
                 pause_flag, clientState, bounds, history>>

(* The engine has not exited within two timeouts.                          *)
ForceExit ==
  /\ service = "ending" /\ engine # "off"
  /\ Terminated
  /\ UNCHANGED <<callState, serviceState, clientState, bounds, handled, answered>>

Stopped ==
  /\ service = "ending" /\ engine = "off"
  /\ service' = "off" /\ status' = "STOPPED"
  /\ UNCHANGED <<engineState, pipe, callState, control, step, pause_flag,
                 shutdown_flag, clientState, bounds, history>>

ServiceStep == Running \/ Watch \/ ForceExit \/ Stopped

(* The system sends one control at a time, and none to a service that is   *)
(* starting or stopping.                                                   *)
Control(k) ==
  /\ control = "none" /\ controls < MaxControls
  /\ service # "off"
  /\ status \notin {"START_PENDING", "STOP_PENDING", "STOPPED"}
  /\ CASE k = "PAUSE" -> ~pause_flag [] k = "CONTINUE" -> pause_flag
       [] OTHER -> TRUE
  /\ control' = k /\ step' = "status"
  /\ controls' = controls + 1
  /\ shutdown_flag' = (shutdown_flag \/ k = "STOP")
  /\ UNCHANGED <<engineState, pipe, callState, service, status, pause_flag,
                 clientState, starts, crashes, calls, history>>

(* A paused engine is told to continue before it is told to stop.          *)
Pending ==
  /\ control # "none" /\ step = "status"
  /\ step' = "send"
  /\ status' = CASE control = "STOP" -> "STOP_PENDING"
                 [] control = "PAUSE" -> "PAUSE_PENDING"
                 [] OTHER -> "CONTINUE_PENDING"
  /\ Sends(Service, IF control = "STOP" /\ pause_flag THEN "CONTINUE" ELSE control)
  /\ UNCHANGED <<engineState, pipe, service, control, pause_flag, shutdown_flag,
                 clientState, bounds, history>>

Result(good) ==
  /\ control # "none" /\ step = "send"
  /\ call[Service] = IF good THEN "answered" ELSE "failed"

(* Whatever came of the first message of a stop, the second is sent.       *)
Resumed ==
  /\ \E good \in BOOLEAN : Result(good)
  /\ control = "STOP" /\ message[Service] = "CONTINUE"
  /\ call' = [call EXCEPT ![Service] = "probe"]
  /\ message' = [message EXCEPT ![Service] = "STOP"]
  /\ UNCHANGED <<engineState, pipe, serviceState, clientState, bounds, history>>

(* Mutant: a pause is reported whether or not the engine has answered.     *)
ControlledUnheard ==
  /\ message[Service] = control
  /\ Ends(Service, "none")
  /\ control' = "none" /\ step' = "status"
  /\ IF control # "STOP"
     THEN /\ status' = IF control = "PAUSE" THEN "PAUSED" ELSE "RUNNING"
          /\ pause_flag' = (control = "PAUSE")
     ELSE UNCHANGED <<status, pause_flag>>
  /\ \/ Result(TRUE) /\ UNCHANGED <<engineState, pipe, killed>>
     \/ /\ Result(FALSE)
        /\ IF control = "STOP" /\ engine # "off"
           THEN Terminated ELSE UNCHANGED <<engineState, pipe, killed>>
  /\ UNCHANGED <<service, shutdown_flag, clientState, bounds, handled,
                 answered>>

(* What follows from the answer to the last message, or from its failure.  *)
Controlled ==
  /\ message[Service] = control
  /\ Ends(Service, "none")
  /\ control' = "none" /\ step' = "status"
  /\ IF Result(TRUE) /\ control # "STOP"
     THEN /\ status' = IF control = "PAUSE" THEN "PAUSED" ELSE "RUNNING"
          /\ pause_flag' = (control = "PAUSE")
     ELSE UNCHANGED <<status, pause_flag>>
  /\ \/ Result(TRUE) /\ UNCHANGED <<engineState, pipe, killed>>
     \/ /\ Result(FALSE)
        /\ IF control = "STOP" /\ engine # "off"
           THEN Terminated ELSE UNCHANGED <<engineState, pipe, killed>>
  /\ UNCHANGED <<service, shutdown_flag, clientState, bounds, handled,
                 answered>>

ControlStep == Pending \/ Resumed \/ Controlled

-----------------------------------------------------------------------------
(***************************************************************************)
(* The clients: the thread that calls the library, and the connection      *)
(* thread that TOSDB_Connect makes (_threadedExtractLoop).                 *)
(***************************************************************************)

At(c, t, s) == thread' = [thread EXCEPT ![c][t] = s]

(* The value of _connected.                                                *)
Connected(c) == aware[c] /\ Answers

(* Mutant: TOSDB_Connect does not look for a thread of an earlier call.    *)
ConnectAgain(c) ==
  /\ user[c] = "idle"
  /\ ~Connected(c)
  /\ \E t \in Threads :
       /\ thread[c][t] = "none" /\ \A u \in 1 .. t - 1 : thread[c][u] # "none"
       /\ At(c, t, "started")
  /\ user' = [user EXCEPT ![c] = "creating"]
  /\ UNCHANGED <<engineState, pipe, callState, serviceState, aware,
                 buffer_thread, bounds, history>>

Connect(c) ==
  /\ user[c] = "idle"
  /\ ~Connected(c) /\ buffer_thread[c] = NULL
  /\ \E t \in Threads :
       /\ thread[c][t] = "none" /\ \A u \in 1 .. t - 1 : thread[c][u] # "none"
       /\ At(c, t, "started")
  /\ user' = [user EXCEPT ![c] = "creating"]
  /\ UNCHANGED <<engineState, pipe, callState, serviceState, aware,
                 buffer_thread, bounds, history>>

(* CreateThread has returned; the thread runs already.  TOSDB_Connect then *)
(* waits for aware_of_connection, or times out, which changes nothing.     *)
NoteThread(c) ==
  /\ user[c] = "creating"
  /\ buffer_thread' = [buffer_thread EXCEPT
       ![c] = CHOOSE t \in Threads :
                /\ thread[c][t] # "none"
                /\ \A u \in t + 1 .. MaxThreads : thread[c][u] = "none"]
  /\ user' = [user EXCEPT ![c] = "idle"]
  /\ UNCHANGED <<engineState, pipe, callState, serviceState, aware, thread,
                 bounds, history>>

Disconnect(c) ==
  /\ user[c] = "idle" /\ aware[c]
  /\ aware' = [aware EXCEPT ![c] = FALSE]
  /\ UNCHANGED <<engineState, pipe, callState, serviceState, buffer_thread,
                 thread, user, bounds, history>>

(* _requestStreamOP: its _connected is the client's flag and the probe.    *)
Request(c) ==
  /\ user[c] = "idle" /\ aware[c] /\ calls[c] < MaxCalls
  /\ calls' = [calls EXCEPT ![c] = @ + 1]
  /\ Sends(c, "STREAM")
  /\ user' = [user EXCEPT ![c] = "requesting"]
  /\ UNCHANGED <<engineState, pipe, serviceState, aware, buffer_thread, thread,
                 starts, controls, crashes, history>>

RequestReturns(c) ==
  /\ user[c] = "requesting" /\ call[c] \in {"answered", "failed"}
  /\ Ends(c, "none")
  /\ user' = [user EXCEPT ![c] = "idle"]
  /\ UNCHANGED <<engineState, pipe, serviceState, aware, buffer_thread, thread,
                 bounds, history>>

FirstProbe(c, t) ==
  /\ thread[c][t] = "started"
  /\ aware' = [aware EXCEPT ![c] = @ \/ Answers]
  /\ At(c, t, "reading")
  /\ UNCHANGED <<engineState, pipe, callState, serviceState, buffer_thread, user,
                 bounds, history>>

(* Mutant: the loop looks at the flag alone.                               *)
CheckFlag(c, t) ==
  /\ thread[c][t] = "reading" /\ ~aware[c]
  /\ At(c, t, "ending")
  /\ UNCHANGED <<engineState, pipe, callState, serviceState, aware,
                 buffer_thread, user, bounds, history>>

(* The loop ends when a probe between two rounds of reading fails, or the  *)
(* flag is cleared (what it reads is SharedBuffer).                        *)
Check(c, t) ==
  /\ thread[c][t] = "reading" /\ ~Connected(c)
  /\ At(c, t, "ending")
  /\ UNCHANGED <<engineState, pipe, callState, serviceState, aware,
                 buffer_thread, user, bounds, history>>

Ending(c, t) ==
  /\ thread[c][t] = "ending"
  /\ aware' = [aware EXCEPT ![c] = FALSE]
  /\ At(c, t, "ended")
  /\ UNCHANGED <<engineState, pipe, callState, serviceState, buffer_thread, user,
                 bounds, history>>

(* "unnoted" is "done", of a thread whose handle TOSDB_Connect has yet to  *)
(* store.                                                                  *)
Finish(c, t) ==
  /\ thread[c][t] = "ended"
  /\ buffer_thread' = [buffer_thread EXCEPT ![c] = NULL]
  /\ At(c, t, IF user[c] = "creating" THEN "unnoted" ELSE "done")
  /\ UNCHANGED <<engineState, pipe, callState, serviceState, aware, user, bounds,
                 history>>

ThreadStep(c) == \E t \in Threads :
  FirstProbe(c, t) \/ Check(c, t) \/ Ending(c, t) \/ Finish(c, t)

Returns(c) == NoteThread(c) \/ RequestReturns(c)

-----------------------------------------------------------------------------
Next ==
  \/ \E p \in Callers : Calling(p)
  \/ EngineStep \/ Crash
  \/ Start \/ ServiceStep
  \/ \E k \in {"STOP", "PAUSE", "CONTINUE"} : Control(k)
  \/ ControlStep
  \/ \E c \in Clients :
       Connect(c) \/ Disconnect(c) \/ Request(c) \/ Returns(c) \/ ThreadStep(c)

Spec == Init /\ [][Next]_vars

(* Every thread runs on.  Nobody has to start or control the service, or   *)
(* to use the library, and the engine need not crash.                      *)
Fairness ==
  /\ \A p \in Callers : WF_vars(Calling(p))
  /\ WF_vars(EngineStep) /\ WF_vars(ServiceStep) /\ WF_vars(ControlStep)
  /\ \A c \in Clients : WF_vars(Returns(c)) /\ WF_vars(ThreadStep(c))

FairSpec == Spec /\ Fairness

-----------------------------------------------------------------------------
(***************************************************************************)
(* Properties                                                              *)
(***************************************************************************)

(* The type invariant.                                                     *)
TypeOK ==
  /\ engine \in {"off", "loading", "opening", "listening", "serving",
                 "handled", "replied", "leaving"}
  /\ pause \in BOOLEAN /\ shutdown \in BOOLEAN
  /\ pipe \in Callers \cup {Nobody}
  /\ call \in [Callers -> {"none", "probe", "wait", "sent", "answered", "failed"}]
  /\ message \in [Callers -> Messages]
  /\ service \in {"off", "spawned", "watching", "ending"}
  /\ control \in {"none", "STOP", "PAUSE", "CONTINUE"}
  /\ step \in {"status", "send"}
  /\ status \in {"STOPPED", "START_PENDING", "RUNNING", "PAUSE_PENDING", "PAUSED",
                 "CONTINUE_PENDING", "STOP_PENDING"}
  /\ pause_flag \in BOOLEAN /\ shutdown_flag \in BOOLEAN
  /\ aware \in [Clients -> BOOLEAN]
  /\ buffer_thread \in [Clients -> Threads \cup {NULL}]
  /\ thread \in [Clients -> [Threads ->
       {"none", "started", "reading", "ending", "ended", "done",
        "unnoted"}]]
  /\ user \in [Clients -> {"idle", "creating", "requesting"}]
  /\ starts \in 0 .. MaxStarts /\ controls \in 0 .. MaxControls
  /\ crashes \in 0 .. MaxCrashes
  /\ calls \in [Clients -> 0 .. MaxCalls]
  /\ handled \in [Callers -> Nat] /\ answered \in [Callers -> Nat]
  /\ killed \in BOOLEAN

(* Unless its process is ended from outside, the engine answers a call it  *)
(* has handled, and handles it once: a call of a client or of the service  *)
(* that fails (IPCMaster::call, SendMsgWaitForResponse) has had no effect, *)
(* whoever else was served while it waited and however the engine ended.   *)
CallsHandledOnce == ~killed =>
  \A p \in Callers :
    handled[p] = answered[p] + (IF engine = "handled" /\ pipe = p THEN 1 ELSE 0)

(* The status the service reports is that of its engine: one that is       *)
(* reported paused is paused, and one reported running, with no control    *)
(* under way, is not, also after controls that failed and after restarts.  *)
PausedAsSaid == engine # "off" =>
  /\ status = "PAUSED" => pause
  /\ status = "RUNNING" /\ control = "none" => ~pause

(* A client is aware of a connection only while a thread of its own reads  *)
(* its buffers, of which it has no more than one, and the handle that      *)
(* keeps TOSDB_Connect from making another is of a thread that lives: but  *)
(* for one that ended before TOSDB_Connect had stored its handle.          *)
Live(c) == {t \in Threads : thread[c][t] \notin {"none", "done", "unnoted"}}

OneThread == \A c \in Clients :
  /\ Cardinality(Live(c)) <= 1
  /\ aware[c] => \E t \in Live(c) : thread[c][t] \in {"reading", "ending"}
  /\ buffer_thread[c] \in Live(c) \cup {NULL}
       \cup {t \in Threads : thread[c][t] = "unnoted"}

(* A client whose engine has gone stops believing in the connection,       *)
(* unless another engine comes first.                                      *)
LossIsNoticed == \A c \in Clients :
  aware[c] /\ engine = "off" ~> ~aware[c] \/ engine # "off"

(* A service that is told to stop, or whose engine has exited, ends, and   *)
(* leaves no engine: whoever has the pipe, whether or not the engine was   *)
(* paused, and whether or not it was there to be told.                     *)
ServiceEnds ==
  shutdown_flag \/ (service = "watching" /\ engine = "off")
    ~> service = "off" /\ engine = "off"
=============================================================================
