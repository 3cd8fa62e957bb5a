----------------------------- MODULE PushService -----------------------------
(***************************************************************************)
(* The push services UdpDataPushSerice and SerialDataPushService: a        *)
(* one-place mailbox guarded by a mutex and a condition variable, a worker *)
(* thread (run) that takes the mailbox to the wire, the flight loop that   *)
(* fills it (sendData) and the thread that stops the worker (terminate,    *)
(* then join).  Both classes have the same protocol; they differ in how    *)
(* connect can end.                                                        *)
(*                                                                         *)
(* One action is one step of one thread.  Everything done while mtx is     *)
(* held is still split where a thread that does not take mtx (terminate)   *)
(* or a slow call (sendto, WriteFile) can come in between.                 *)
(*                                                                         *)
(* A definition marked "Fault" is a plausible wrong version of the one     *)
(* that follows it; no specification uses it.                              *)
(***************************************************************************)

CONSTANTS
  UdpSenders,     (* Senders that are an UdpDataPushSerice.                *)
  SerialSenders,  (* Senders that are a SerialDataPushService.             *)
  Data,           (* The JSON texts passed to sendData; dump() of a json   *)
                  (* value is never the empty string.                      *)
  Empty,          (* The empty std::string.                                *)
  None            (* No call in progress, nothing posted, nothing written. *)

ASSUME DistinctAssumption ==
  /\ Empty \notin Data
  /\ None \notin Data \cup {Empty}
ASSUME KindAssumption == UdpSenders \cap SerialSenders = {}

Sender == UdpSenders \cup SerialSenders

VARIABLES
  pc,               (* Where the worker is in run().                          *)
  mtx,              (* Owner of mtx: "free", "worker" or "caller".            *)
  dataToSend,       (* The mailbox.                                           *)
  frame,            (* The text being written by doSendData.                  *)
  isConnected,      (* The flag of that name.                                 *)
  handle,           (* The socket or port handle: "none", "open" or "bad".    *)
  shouldTerminate,  (* The flag of that name, not guarded by mtx.             *)
  stage,            (* How far the stopping thread is with this sender.       *)
  caller,           (* The text the flight loop is passing to sendData.       *)
  registered,       (* The flight loop callback is still registered.          *)
  latest,           (* History: the last text posted.                         *)
  unsent,           (* History: no write of latest has been attempted yet.    *)
  wire              (* History: the last text that reached the wire.          *)

vars == <<pc, mtx, dataToSend, frame, isConnected, handle, shouldTerminate,
          stage, caller, registered, latest, unsent, wire>>

link    == <<isConnected, handle>>
history == <<latest, unsent, wire>>
clients == <<stage, caller, registered>>

(* Where the worker owns mtx. *)
Locked == {"test", "recheck", "send", "write", "clear"}

WorkerPc == {"start", "loop", "lock", "wait", "woken", "exit", "done"} \cup Locked

(* A sender as its constructor and std::thread leave it. *)
Init ==
  /\ pc              = [s \in Sender |-> "start"]
  /\ mtx             = [s \in Sender |-> "free"]
  /\ dataToSend      = [s \in Sender |-> Empty]
  /\ frame           = [s \in Sender |-> Empty]
  /\ isConnected     = [s \in Sender |-> FALSE]
  /\ handle          = [s \in Sender |-> "none"]
  /\ shouldTerminate = [s \in Sender |-> FALSE]
  /\ stage           = [s \in Sender |-> "running"]
  /\ caller          = [s \in Sender |-> None]
  /\ registered      = TRUE
  /\ latest          = [s \in Sender |-> None]
  /\ unsent          = [s \in Sender |-> FALSE]
  /\ wire            = [s \in Sender |-> None]

Goto(s, from, to) ==
  /\ pc[s] = from
  /\ pc' = [pc EXCEPT ![s] = to]

-----------------------------------------------------------------------------
(* connect and disconnect *)

(* WSAStartup can fail; the result of socket() is not looked at, so the    *)
(* service also counts as connected with a bad socket.                     *)
UdpConnect == {"none", "open", "bad"}

(* CreateFileA, GetCommState or SetCommState can fail; the handle is       *)
(* closed again in the last two cases.                                     *)
SerialConnect == {"none", "open"}

ConnectOutcome(s) == IF s \in UdpSenders THEN UdpConnect ELSE SerialConnect

(* connect() as a whole: h is the handle it ends with. *)
Connect(s, h) ==
  /\ h \in IF isConnected[s] THEN {handle[s]} ELSE ConnectOutcome(s)
  /\ handle'      = [handle EXCEPT ![s] = h]
  /\ isConnected' = [isConnected EXCEPT ![s] = h # "none"]

Disconnect(s) ==
  /\ handle'      = [handle EXCEPT ![s] = IF isConnected[s] THEN "none" ELSE @]
  /\ isConnected' = [isConnected EXCEPT ![s] = FALSE]

-----------------------------------------------------------------------------
(* The worker thread: run() and doSendData() *)

(* run() connects first and returns at once when it cannot. *)
Run(s) ==
  /\ \E h \in UdpConnect :
       /\ Connect(s, h)
       /\ Goto(s, "start", IF h = "none" THEN "done" ELSE "loop")
  /\ UNCHANGED <<mtx, dataToSend, frame, shouldTerminate, clients, history>>

(* Fault: the outer loop of run() is while (true). *)
CheckNothing(s) ==
  /\ Goto(s, "loop", "lock")
  /\ UNCHANGED <<mtx, dataToSend, frame, link, shouldTerminate, clients, history>>

(* while (!shouldTerminate), read without mtx. *)
CheckFlag(s) ==
  /\ Goto(s, "loop", IF shouldTerminate[s] THEN "exit" ELSE "lock")
  /\ UNCHANGED <<mtx, dataToSend, frame, link, shouldTerminate, clients, history>>

Lock(s) ==
  /\ Goto(s, "lock", "test")
  /\ mtx[s] = "free"
  /\ mtx' = [mtx EXCEPT ![s] = "worker"]
  /\ UNCHANGED <<dataToSend, frame, link, shouldTerminate, clients, history>>

(* Fault: the worker sleeps, lock in hand, instead of waiting on cv. *)
WaitLocked(s) ==
  /\ dataToSend[s] = Empty
  /\ Goto(s, "test", "wait")
  /\ UNCHANGED <<mtx, dataToSend, frame, link, shouldTerminate, clients, history>>

(* while (dataToSend.empty()) cv.wait(lock): waiting releases mtx. *)
Wait(s) ==
  /\ dataToSend[s] = Empty
  /\ Goto(s, "test", "wait")
  /\ mtx' = [mtx EXCEPT ![s] = "free"]
  /\ UNCHANGED <<dataToSend, frame, link, shouldTerminate, clients, history>>

HasData(s) ==
  /\ dataToSend[s] # Empty
  /\ Goto(s, "test", "send")
  /\ UNCHANGED <<mtx, dataToSend, frame, link, shouldTerminate, clients, history>>

(* A condition variable may wake its waiter for no reason. *)
SpuriousWakeup(s) ==
  /\ Goto(s, "wait", "woken")
  /\ UNCHANGED <<mtx, dataToSend, frame, link, shouldTerminate, clients, history>>

Reacquire(s) ==
  /\ Goto(s, "woken", "recheck")
  /\ mtx[s] = "free"
  /\ mtx' = [mtx EXCEPT ![s] = "worker"]
  /\ UNCHANGED <<dataToSend, frame, link, shouldTerminate, clients, history>>

(* Fault: if instead of while around cv.wait. *)
RecheckOnce(s) ==
  /\ Goto(s, "recheck", "send")
  /\ UNCHANGED <<mtx, dataToSend, frame, link, shouldTerminate, clients, history>>

(* if (shouldTerminate) break: the break leads to doSendData. *)
Recheck(s) ==
  /\ Goto(s, "recheck", IF shouldTerminate[s] THEN "send" ELSE "test")
  /\ UNCHANGED <<mtx, dataToSend, frame, link, shouldTerminate, clients, history>>

(* Fault: the lock is released for the system call. *)
BeginSendUnlocked(s) ==
  /\ \E h \in UdpConnect : Connect(s, h)
  /\ Goto(s, "send", "write")
  /\ mtx'   = [mtx EXCEPT ![s] = "free"]
  /\ frame' = [frame EXCEPT ![s] = dataToSend[s]]
  /\ UNCHANGED <<dataToSend, shouldTerminate, clients, history>>

(* doSendData up to the system call.  A service that is not connected      *)
(* tries again, and gives up this round, mailbox untouched, if it cannot.  *)
BeginSend(s) ==
  /\ \E h \in UdpConnect :
       /\ Connect(s, h)
       /\ Goto(s, "send", IF h = "none" THEN "loop" ELSE "write")
       /\ mtx' = [mtx EXCEPT ![s] = IF h = "none" THEN "free" ELSE @]
       /\ frame' = [frame EXCEPT ![s] = IF h = "none" THEN @ ELSE dataToSend[s]]
  /\ UNCHANGED <<dataToSend, shouldTerminate, clients, history>>

(* sendto or WriteFile returns.  mtx is held all the while. *)
Write(s) ==
  /\ Goto(s, "write", "clear")
  /\ \E ok \in IF handle[s] = "open" THEN BOOLEAN ELSE {FALSE} :
       wire' = [wire EXCEPT ![s] = IF ok THEN frame[s] ELSE @]
  /\ unsent' = [unsent EXCEPT ![s] = @ /\ frame[s] # latest[s]]
  /\ UNCHANGED <<mtx, dataToSend, frame, link, shouldTerminate, clients, latest>>

(* Fault: dataToSend.clear() is missing. *)
ClearNothing(s) ==
  /\ Goto(s, "clear", "loop")
  /\ mtx' = [mtx EXCEPT ![s] = "free"]
  /\ UNCHANGED <<dataToSend, frame, link, shouldTerminate, clients, history>>

(* dataToSend.clear() and the end of the lock's scope. *)
Clear(s) ==
  /\ Goto(s, "clear", "loop")
  /\ dataToSend' = [dataToSend EXCEPT ![s] = Empty]
  /\ mtx' = [mtx EXCEPT ![s] = "free"]
  /\ UNCHANGED <<frame, link, shouldTerminate, clients, history>>

(* Fault: run() returns without disconnect(). *)
ExitConnected(s) ==
  /\ Goto(s, "exit", "done")
  /\ UNCHANGED <<mtx, dataToSend, frame, link, shouldTerminate, clients, history>>

Exit(s) ==
  /\ Goto(s, "exit", "done")
  /\ Disconnect(s)
  /\ UNCHANGED <<mtx, dataToSend, frame, shouldTerminate, clients, history>>

-----------------------------------------------------------------------------
(* The flight loop: update() calls sendData() *)

CallSendData(s, d) ==
  /\ registered
  /\ caller[s] = None
  /\ caller' = [caller EXCEPT ![s] = d]
  /\ UNCHANGED <<pc, mtx, dataToSend, frame, link, shouldTerminate, stage,
                 registered, history>>

SendDataLock(s) ==
  /\ caller[s] # None
  /\ mtx[s] = "free"
  /\ mtx' = [mtx EXCEPT ![s] = "caller"]
  /\ UNCHANGED <<pc, dataToSend, frame, link, shouldTerminate, clients, history>>

(* Fault: the notification is missing. *)
NotifyNobody(s) == UNCHANGED pc

(* cv.notify_one(): there is at most one waiter, the worker. *)
NotifyOne(s) == pc' = [pc EXCEPT ![s] = IF @ = "wait" THEN "woken" ELSE @]

(* Fault: the argument is moved from before it is stored. *)
PostMovedFrom(s) ==
  /\ mtx[s] = "caller"
  /\ caller' = [caller EXCEPT ![s] = None]
  /\ dataToSend' = [dataToSend EXCEPT ![s] = caller'[s]]
  /\ NotifyOne(s)
  /\ mtx'    = [mtx EXCEPT ![s] = "free"]
  /\ latest' = [latest EXCEPT ![s] = caller[s]]
  /\ unsent' = [unsent EXCEPT ![s] = TRUE]
  /\ UNCHANGED <<frame, link, shouldTerminate, stage, registered, wire>>

(* sendData() once it has the lock. *)
SendDataPost(s) ==
  /\ mtx[s] = "caller"
  /\ dataToSend' = [dataToSend EXCEPT ![s] = caller[s]]
  /\ NotifyOne(s)
  /\ mtx'    = [mtx EXCEPT ![s] = "free"]
  /\ caller' = [caller EXCEPT ![s] = None]
  /\ latest' = [latest EXCEPT ![s] = caller[s]]
  /\ unsent' = [unsent EXCEPT ![s] = TRUE]
  /\ UNCHANGED <<frame, link, shouldTerminate, stage, registered, wire>>

-----------------------------------------------------------------------------
(* The stopping thread.  In XPluginStop it is the flight loop's own thread,*)
(* which has unregistered the callback first; in a reload it is the web    *)
(* server's thread, and the flight loop goes on.                           *)

Unregister ==
  /\ registered
  /\ \A s \in Sender : caller[s] = None
  /\ registered' = FALSE
  /\ UNCHANGED <<pc, mtx, dataToSend, frame, link, shouldTerminate, stage,
                 caller, history>>

(* terminate() takes no lock: first the flag ... *)
TerminateFlag(s) ==
  /\ stage[s] = "running"
  /\ stage' = [stage EXCEPT ![s] = "flagged"]
  /\ shouldTerminate' = [shouldTerminate EXCEPT ![s] = TRUE]
  /\ UNCHANGED <<pc, mtx, dataToSend, frame, link, caller, registered, history>>

(* ... then the notification. *)
TerminateNotify(s) ==
  /\ stage[s] = "flagged"
  /\ stage' = [stage EXCEPT ![s] = "notified"]
  /\ NotifyOne(s)
  /\ UNCHANGED <<mtx, dataToSend, frame, link, shouldTerminate, caller,
                 registered, history>>

Join(s) ==
  /\ stage[s] = "notified"
  /\ pc[s] = "done"
  /\ stage' = [stage EXCEPT ![s] = "joined"]
  /\ UNCHANGED <<pc, mtx, dataToSend, frame, link, shouldTerminate, caller,
                 registered, history>>

-----------------------------------------------------------------------------

WorkerStep(s) ==
  \/ Run(s) \/ CheckFlag(s) \/ Lock(s) \/ Wait(s) \/ HasData(s)
  \/ SpuriousWakeup(s) \/ Reacquire(s) \/ Recheck(s)
  \/ BeginSend(s) \/ Write(s) \/ Clear(s) \/ Exit(s)

CallerStep(s) ==
  \/ \E d \in Data : CallSendData(s, d)
  \/ SendDataLock(s)
  \/ SendDataPost(s)

StopStep(s) == TerminateFlag(s) \/ TerminateNotify(s) \/ Join(s)

Next ==
  \/ \E s \in Sender : WorkerStep(s) \/ CallerStep(s) \/ StopStep(s)
  \/ Unregister

(* Every thread that can run is scheduled and every system call returns    *)
(* (writes have a timeout).  A thread blocked on mtx gets it if mtx is     *)
(* free again and again: the flight loop is away from it for most of its   *)
(* 100 ms period.  Nothing forces a spurious wakeup, a stop or a reload.   *)
(* The callback calls sendData again and again as long as it is registered.*)
Fairness(s) ==
  /\ WF_vars(Run(s))
  /\ WF_vars(CheckFlag(s))
  /\ SF_vars(Lock(s))
  /\ WF_vars(Wait(s))
  /\ WF_vars(HasData(s))
  /\ SF_vars(Reacquire(s))
  /\ WF_vars(Recheck(s))
  /\ WF_vars(BeginSend(s))
  /\ WF_vars(Write(s))
  /\ WF_vars(Clear(s))
  /\ WF_vars(Exit(s))
  /\ WF_vars(\E d \in Data : CallSendData(s, d))
  /\ SF_vars(SendDataLock(s))
  /\ WF_vars(SendDataPost(s))
  /\ WF_vars(TerminateNotify(s))
  /\ WF_vars(Join(s))

Spec == Init /\ [][Next]_vars /\ \A s \in Sender : Fairness(s)

-----------------------------------------------------------------------------
(* Properties *)

(* Every variable has its type. *)
TypeOK ==
  /\ pc              \in [Sender -> WorkerPc]
  /\ mtx             \in [Sender -> {"free", "worker", "caller"}]
  /\ dataToSend      \in [Sender -> Data \cup {Empty}]
  /\ frame           \in [Sender -> Data \cup {Empty}]
  /\ isConnected     \in [Sender -> BOOLEAN]
  /\ handle          \in [Sender -> {"none", "open", "bad"}]
  /\ shouldTerminate \in [Sender -> BOOLEAN]
  /\ stage           \in [Sender -> {"running", "flagged", "notified", "joined"}]
  /\ caller          \in [Sender -> Data \cup {None}]
  /\ registered      \in BOOLEAN
  /\ latest          \in [Sender -> Data \cup {None}]
  /\ unsent          \in [Sender -> BOOLEAN]
  /\ wire            \in [Sender -> Data \cup {Empty, None}]

(* A text being written is the newest one posted, and no write of it was   *)
(* tried before: doSendData never sends a stale text, nor one text twice,  *)
(* however sendData, wakeups and terminate fall around it.                 *)
FreshFrame ==
  \A s \in Sender :
    pc[s] = "write" /\ frame[s] # Empty => frame[s] = latest[s] /\ unsent[s]

(* dataToSend.clear() only ever removes a text whose write was attempted:  *)
(* a text posted while the worker writes is never wiped out with the old   *)
(* one.                                                                    *)
NoSilentLoss ==
  \A s \in Sender : dataToSend[s] = Empty => ~unsent[s]

(* The empty frame that doSendData writes after the break in run() needs a *)
(* terminate(): no spurious wakeup or early notification leads to one.     *)
BlankOnlyOnTerminate ==
  \A s \in Sender :
    pc[s] = "write" /\ frame[s] = Empty => shouldTerminate[s]

(* Inside the loop of run() the service is connected, so the branch of     *)
(* doSendData that reconnects is never taken: a link that breaks after     *)
(* run() has connected it is never opened again.                           *)
ConnectedInLoop ==
  \A s \in Sender :
    pc[s] \in {"loop", "lock", "wait", "woken", "exit"} \cup Locked => isConnected[s]

(* Once join() returns the worker owns nothing: no port or socket is left  *)
(* open (the next connect to the same COM port must succeed) and mtx is    *)
(* not held by it.                                                         *)
ReleasedWhenJoined ==
  \A s \in Sender :
    stage[s] = "joined" =>
      /\ pc[s] = "done"
      /\ ~isConnected[s] /\ handle[s] = "none"
      /\ mtx[s] # "worker"

(* What the channel below sees of a sender. *)
Pending == [s \in Sender |-> IF unsent[s] THEN latest[s] ELSE None]

State == [s \in Sender |->
  IF pc[s] = "done" THEN "closed"
  ELSE IF shouldTerminate[s] THEN "closing" ELSE "open"]

Channel == INSTANCE LatestValueChannel
             WITH pending <- Pending, out <- wire, state <- State

(* The service implements the latest-value channel, with its promise that  *)
(* a posted value is handed to the wire unless the channel is shut.        *)
ChannelSpec == Channel!Spec

(* What the rest of the plugin sees of a worker.  The mailbox is emptied   *)
(* where it is read, as nobody can fill it before it is cleared.           *)
Place(p) ==
  IF p = "start" THEN "new"
  ELSE IF p \in {"lock", "test"} THEN "checked"
  ELSE IF p = "wait" THEN "waiting"
  ELSE IF p \in {"woken", "recheck"} THEN "woken"
  ELSE IF p = "done" THEN "done" ELSE "loop"

WorkerAt == [s \in Sender |-> Place(pc[s])]

HasText == [s \in Sender |-> dataToSend[s] # Empty /\ pc[s] \notin {"send", "write", "clear"}]

Thread == INSTANCE Worker WITH worker <- WorkerAt, term <- shouldTerminate, full <- HasText

(* With all its locking, the service is the worker that Plugin takes it    *)
(* for: whatever a thread of the plugin may do to a sender, and whenever   *)
(* the worker is between two of its steps, the flag, the mailbox and the   *)
(* wait follow the simple protocol of Worker.                              *)
WorkerSpec == Thread!Spec

(* A reload waits for the worker only as long as the callback needs to     *)
(* come by: as long as sendData goes on being called, terminate() and      *)
(* join() complete, even when the notification of terminate() came before  *)
(* the worker was waiting for it.                                          *)
JoinCompletesWhilePosting ==
  \A s \in Sender :
    shouldTerminate[s] ~> (stage[s] = "joined" \/ ~registered)

(* ARCHITECTURE.md:195 says that a plugin stop terminates and joins all    *)
(* worker threads.                                                         *)
JoinCompletes ==
  \A s \in Sender : shouldTerminate[s] ~> stage[s] = "joined"

(* A call of sendData returns: the worker holds mtx through a system call, *)
(* but gives it back on every way through its loop, after a failed write,  *)
(* on terminate() and when it ends.                                        *)
SendDataReturns ==
  \A s \in Sender : caller[s] # None ~> caller[s] = None
=============================================================================
