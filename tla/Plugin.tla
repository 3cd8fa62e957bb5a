------------------------------- MODULE Plugin --------------------------------
(***************************************************************************)
(* The threads of the plugin from XPluginStart to XPluginStop: the flight  *)
(* loop's thread, the web server's thread, and one worker for each sender  *)
(* that init() makes, around the vector of streams that the first two      *)
(* share without a lock.                                                   *)
(*                                                                         *)
(* A worker is that of the module Worker, which PushService implements.    *)
(* The registry of datarefs is in XplData.                                 *)
(*                                                                         *)
(* A definition marked "Fault" is a plausible wrong version of the one     *)
(* that follows it; no specification uses it.                              *)
(***************************************************************************)
EXTENDS Naturals, Sequences

CONSTANTS
  N,        (* Number of enabled streams in the configuration.             *)
  Regular,  (* The entries whose interval is not negative.  The others are  *)
            (* never due: the cast makes their interval some 2^64 ms.       *)
  MaxInits  (* Bound: calls of init(), the one of XPluginStart included.   *)

ASSUME BoundAssumption == N \in Nat /\ MaxInits \in Nat

ASSUME RegularAssumption == Regular \subseteq 1 .. N

VARIABLES
  pc,         (* Where the flight loop's and the web server's thread stand.  *)
  at,         (* The index of each in its loop over the streams.             *)
  last,       (* end() as the range-for of update() took it when it began.   *)
  target,     (* The sender whose sendData the flight loop has called.       *)
  stopping,   (* XPluginStop has been called.                                *)
  registered, (* MyFlightLoopCallback is registered.                         *)
  running,    (* m_running of the web server.                                *)
  inits,      (* Calls of init() so far.                                     *)
  streams,    (* The vector of streams, as their senders.                    *)
  freed,      (* Senders that streams.clear() has destroyed.                 *)
  joined,     (* Senders whose thread has been joined.                       *)
  worker,     (* Where the worker thread of each sender stands.              *)
  term,       (* shouldTerminate of each sender.                             *)
  full        (* Whether dataToSend of each sender holds a text.             *)

vector  == <<streams, freed, joined>>
workers == <<worker, term, full>>
flags   == <<stopping, registered, running>>
vars    == <<pc, at, last, target, flags, inits, vector, workers>>

Entry  == 1 .. N
Thread == {"flight", "web"}

(* A sender is known by the call of init() that made it and its entry.     *)
Sender == (1 .. MaxInits) \X Entry
None   == <<0, 0>>

(* The steps of init() and stopAllStreams(). *)
InitPc   == {"terminate", "notify", "join", "create"}
FlightPc == {"off", "idle", "loop", "call", "stopWeb", "joinWeb", "stopped", "crashed"} \cup InitPc
WebPc    == {"none", "new", "serving", "polled", "blocked", "done"} \cup InitPc
W == INSTANCE Worker

Init ==
  /\ pc = [t \in Thread |-> IF t = "flight" THEN "off" ELSE "none"]
  /\ at = [t \in Thread |-> 1]
  /\ last = 0 /\ target = None
  /\ stopping = FALSE /\ registered = FALSE /\ running = FALSE
  /\ inits = 0
  /\ streams = <<>> /\ freed = {} /\ joined = {}
  /\ worker = [o \in Sender |-> "none"]
  /\ term   = [o \in Sender |-> FALSE]
  /\ full   = [o \in Sender |-> FALSE]

(* Thread t goes on to another part of its code, where loops start at 1.   *)
Goto(t, from, to) ==
  /\ pc[t] = from
  /\ pc' = [pc EXCEPT ![t] = to]
  /\ at' = [at EXCEPT ![t] = 1]

(* One more turn of the loop that t is in. *)
Step(t, from) ==
  /\ pc[t] = from
  /\ at[t] <= Len(streams)
  /\ at' = [at EXCEPT ![t] = @ + 1]
  /\ UNCHANGED pc

-----------------------------------------------------------------------------
(* stopAllStreams() and init(), by either thread *)

(* init() begins with stopAllStreams(). *)
BeginInit(t, from) ==
  /\ Goto(t, from, "terminate")
  /\ inits < MaxInits
  /\ inits' = inits + 1
  /\ UNCHANGED <<last, target, flags, vector, workers>>

(* terminate() of the next sender: the flag ... *)
Terminate(t) ==
  /\ pc[t] = "terminate"
  /\ at[t] <= Len(streams)
  /\ pc' = [pc EXCEPT ![t] = "notify"]
  /\ W!Flag(streams[at[t]])
  /\ UNCHANGED <<at, last, target, flags, inits, vector>>

(* ... and the notification. *)
Notify(t) ==
  /\ pc[t] = "notify"
  /\ pc' = [pc EXCEPT ![t] = "terminate"]
  /\ at' = [at EXCEPT ![t] = @ + 1]
  /\ W!Notify(streams[at[t]])
  /\ UNCHANGED <<last, target, flags, inits, vector>>

EndTerminate(t) ==
  /\ at[t] > Len(streams)
  /\ Goto(t, "terminate", "join")
  /\ UNCHANGED <<last, target, flags, inits, vector, workers>>

(* senderThread.join() of the next stream. *)
Join(t) ==
  /\ Step(t, "join")
  /\ worker[streams[at[t]]] = "done"
  /\ joined' = joined \cup {streams[at[t]]}
  /\ UNCHANGED <<last, target, flags, inits, streams, freed, workers>>

(* Fault: the last stream is not joined. *)
ClearEarly(t) ==
  /\ at[t] >= Len(streams)
  /\ Goto(t, "join", IF stopping /\ t = "flight" THEN "stopped" ELSE "create")
  /\ freed' = freed \cup {streams[i] : i \in DOMAIN streams}
  /\ streams' = <<>>
  /\ UNCHANGED <<last, target, flags, inits, joined, workers>>

(* streams.clear() destroys the senders; the vector keeps its storage.     *)
Clear(t) ==
  /\ at[t] > Len(streams)
  /\ Goto(t, "join", IF stopping /\ t = "flight" THEN "stopped" ELSE "create")
  /\ freed' = freed \cup {streams[i] : i \in DOMAIN streams}
  /\ streams' = <<>>
  /\ UNCHANGED <<last, target, flags, inits, joined, workers>>

(* The sender of the next entry is made, its thread started and the stream *)
(* pushed to the vector.                                                   *)
Create(t) ==
  /\ pc[t] = "create"
  /\ at[t] <= N
  /\ at' = [at EXCEPT ![t] = @ + 1]
  /\ streams' = Append(streams, <<inits, at[t]>>)
  /\ worker'  = [worker EXCEPT ![<<inits, at[t]>>] = "new"]
  /\ UNCHANGED <<pc, last, target, flags, inits, freed, joined, term, full>>

InitStep(t) ==
  Terminate(t) \/ Notify(t) \/ EndTerminate(t) \/ Join(t) \/ Clear(t) \/ Create(t)

-----------------------------------------------------------------------------
(* The flight loop's thread *)

Start == pc["flight"] = "off" /\ BeginInit("flight", "off")

(* XPluginStart after init(): the web server's thread, if the server is    *)
(* enabled and its socket can be opened, then the callback.                *)
Register ==
  /\ pc["flight"] = "create"
  /\ at["flight"] > N
  /\ \E w \in {"none", "new"} : pc' = [pc EXCEPT !["flight"] = "idle", !["web"] = w]
  /\ at' = [at EXCEPT !["flight"] = 1]
  /\ registered' = TRUE
  /\ UNCHANGED <<last, target, stopping, running, inits, vector, workers>>

(* Fault: the loop takes one stream too many. *)
BeginUpdateBeyond ==
  /\ registered
  /\ Goto("flight", "idle", "loop")
  /\ last' = Len(streams) + 1
  /\ UNCHANGED <<target, flags, inits, vector, workers>>

(* update() reaches its loop over the streams. *)
BeginUpdate ==
  /\ registered
  /\ Goto("flight", "idle", "loop")
  /\ last' = Len(streams)
  /\ UNCHANGED <<target, flags, inits, vector, workers>>

(* A stream that is not due, or has no sender. *)
NotDue ==
  /\ at["flight"] <= last
  /\ Step("flight", "loop")
  /\ UNCHANGED <<last, target, flags, inits, vector, workers>>

(* A stream that is due: sendData of its sender is entered. *)
CallSendData ==
  /\ pc["flight"] = "loop"
  /\ at["flight"] <= last
  /\ at["flight"] <= Len(streams)
  /\ at["flight"] \in Regular
  /\ pc' = [pc EXCEPT !["flight"] = "call"]
  /\ target' = streams[at["flight"]]
  /\ UNCHANGED <<at, last, flags, inits, vector, workers>>

SendData ==
  /\ pc["flight"] = "call"
  /\ target \notin freed
  /\ pc' = [pc EXCEPT !["flight"] = "loop"]
  /\ at' = [at EXCEPT !["flight"] = @ + 1]
  /\ W!Post(target)
  /\ target' = None
  /\ UNCHANGED <<last, flags, inits, vector>>

(* The loop is at a stream that a reload has destroyed in the meantime, or *)
(* inside a sender that is gone: undefined behaviour, modelled as the end  *)
(* of the process.  A destroyed element whose place has been filled again  *)
(* is taken for the new one.                                               *)
UseAfterFree ==
  /\ \/ pc["flight"] = "loop" /\ at["flight"] <= last /\ at["flight"] > Len(streams)
     \/ pc["flight"] = "call" /\ target \in freed
  /\ pc' = [pc EXCEPT !["flight"] = "crashed"]
  /\ UNCHANGED <<at, last, target, flags, inits, vector, workers>>

EndUpdate ==
  /\ at["flight"] > last
  /\ Goto("flight", "loop", "idle")
  /\ last' = 0
  /\ UNCHANGED <<target, flags, inits, vector, workers>>

(* Fault: XPluginStop does not wait for the web server. *)
StopWithoutWeb ==
  /\ Goto("flight", "idle", "terminate")
  /\ stopping' = TRUE
  /\ registered' = FALSE
  /\ running' = FALSE
  /\ UNCHANGED <<last, target, inits, vector, workers>>

(* XPluginStop: unregister, then stop the web server if it has a thread.   *)
Stop ==
  /\ Goto("flight", "idle", IF pc["web"] = "none" THEN "terminate" ELSE "stopWeb")
  /\ stopping' = TRUE
  /\ registered' = FALSE
  /\ UNCHANGED <<last, target, running, inits, vector, workers>>

StopWeb ==
  /\ Goto("flight", "stopWeb", "joinWeb")
  /\ running' = FALSE
  /\ UNCHANGED <<last, target, stopping, registered, inits, vector, workers>>

JoinWeb ==
  /\ pc["web"] = "done"
  /\ Goto("flight", "joinWeb", "terminate")
  /\ UNCHANGED <<last, target, flags, inits, vector, workers>>

FlightStep ==
  \/ Start \/ Register
  \/ BeginUpdate \/ NotDue \/ CallSendData \/ SendData \/ UseAfterFree \/ EndUpdate
  \/ Stop \/ StopWeb \/ JoinWeb

-----------------------------------------------------------------------------
(* The web server's thread *)

(* TcpListener::run sets m_running when the thread gets to it. *)
Serve ==
  /\ Goto("web", "new", "serving")
  /\ running' = TRUE
  /\ UNCHANGED <<last, target, stopping, registered, inits, vector, workers>>

(* Fault: the loop does not look at m_running. *)
PollForever ==
  /\ Goto("web", "serving", "polled")
  /\ UNCHANGED <<last, target, flags, inits, vector, workers>>

(* while (m_running), then select(). *)
Poll ==
  /\ Goto("web", "serving", IF running THEN "polled" ELSE "done")
  /\ UNCHANGED <<last, target, flags, inits, vector, workers>>

(* One of the requests that select() reported is /api/reload. *)
Reload == pc["web"] = "polled" /\ BeginInit("web", "polled")

EndReload ==
  /\ at["web"] > N
  /\ Goto("web", "create", "polled")
  /\ UNCHANGED <<last, target, flags, inits, vector, workers>>

(* The requests have been served, or there were none. *)
EndPoll ==
  /\ Goto("web", "polled", "serving")
  /\ UNCHANGED <<last, target, flags, inits, vector, workers>>

(* send() of an answer waits, because the client does not read ... *)
Block ==
  /\ Goto("web", "polled", "blocked")
  /\ UNCHANGED <<last, target, flags, inits, vector, workers>>

(* ... until it reads on, or leaves. *)
Unblock ==
  /\ Goto("web", "blocked", "polled")
  /\ UNCHANGED <<last, target, flags, inits, vector, workers>>

WebStep == Serve \/ Poll \/ Reload \/ EndReload \/ EndPoll \/ Block \/ Unblock

-----------------------------------------------------------------------------
(* The workers *)

Run(o) == W!Run(o) /\ UNCHANGED <<pc, at, last, target, flags, inits, vector>>

SpuriousWakeup(o) ==
  W!SpuriousWakeup(o) /\ UNCHANGED <<pc, at, last, target, flags, inits, vector>>

-----------------------------------------------------------------------------

Next ==
  /\ pc["flight"] # "crashed"
  /\ \/ FlightStep \/ WebStep
     \/ \E t \in Thread : InitStep(t)
     \/ \E o \in Sender : Run(o) \/ SpuriousWakeup(o)

(* Every thread that can run is scheduled.  A registered callback is called*)
(* again and again, and in its loop each stream whose interval is not      *)
(* negative becomes due again and again.  A turn of the web server has a   *)
(* bounded number of requests, so it comes to its end unless one send()    *)
(* waits for ever.  Nothing forces a stop, a request, a spurious wakeup, or*)
(* a client to read.                                                       *)
Fairness ==
  /\ WF_vars(Register) /\ WF_vars(BeginUpdate) /\ WF_vars(NotDue) /\ WF_vars(SendData)
  /\ WF_vars(UseAfterFree) /\ WF_vars(EndUpdate)
  /\ WF_vars(StopWeb) /\ WF_vars(JoinWeb)
  /\ \A i \in Regular : SF_vars(at["flight"] = i /\ CallSendData)
  /\ WF_vars(Serve) /\ WF_vars(Poll) /\ WF_vars(EndReload) /\ SF_vars(EndPoll)
  /\ \A t \in Thread : WF_vars(InitStep(t))
  /\ \A o \in Sender : WF_vars(Run(o))

Spec == Init /\ [][Next]_vars /\ Fairness

-----------------------------------------------------------------------------
(* The web server's thread as its own module has it: a reload is a request *)
(* like any other, and so is one whose answer waits.                       *)
WebPlace == IF pc["web"] \in InitPc \cup {"blocked"} THEN "polled" ELSE pc["web"]

Web == INSTANCE Server WITH thread <- WebPlace

-----------------------------------------------------------------------------
(* Properties *)

(* Every variable has its type. *)
TypeOK ==
  /\ pc \in [Thread -> FlightPc \cup WebPc]
  /\ pc["flight"] \in FlightPc /\ pc["web"] \in WebPc
  /\ at \in [Thread -> 1 .. N + 1]
  /\ last \in 0 .. N
  /\ target \in Sender \cup {None}
  /\ stopping \in BOOLEAN /\ registered \in BOOLEAN /\ running \in BOOLEAN
  /\ inits \in 0 .. MaxInits
  /\ streams \in Seq(Sender) /\ Len(streams) <= N
  /\ freed \subseteq Sender /\ joined \subseteq Sender
  /\ worker \in [Sender -> W!WorkerPc]
  /\ term \in [Sender -> BOOLEAN] /\ full \in [Sender -> BOOLEAN]

(* A worker runs on a sender of the vector: never on one that clear() has  *)
(* destroyed under it, nor on one that the vector has lost track of,       *)
(* whichever thread called init() or stopAllStreams().                     *)
WorkersOwned ==
  \A o \in Sender :
    worker[o] \notin {"none", "done"} => \E i \in DOMAIN streams : streams[i] = o

(* streams.clear() destroys no thread that has not been joined: the        *)
(* destructor of a joinable std::thread ends the process.                  *)
FreedJoined == freed \subseteq joined

(* stopAllStreams() joins no worker that has not been told to end: join()  *)
(* would wait for it for ever.                                             *)
JoinsTold ==
  \A t \in Thread : pc[t] = "join" => \A i \in DOMAIN streams : term[streams[i]]

(* When the worker of a stream made by a reload opens its port, the worker *)
(* of the same entry before the reload has closed it.                      *)
PortFree ==
  \A o, p \in Sender :
    worker[o] = "new" /\ p[2] = o[2] => worker[p] \notin W!InLoop

(* XPluginStop leaves nothing behind: no worker and no web server, not     *)
(* even those of a reload that began after the stop had.                   *)
NothingSurvivesStop ==
  pc["flight"] = "stopped" =>
    /\ pc["web"] \in {"none", "done"}
    /\ streams = <<>>
    /\ \A o \in Sender : worker[o] \in {"none", "done"}

(* A worker was told to end and waits for ever. *)
Missed(o) == <>[](term[o] /\ worker[o] = "waiting")

(* A reload gets its workers joined as long as the callback comes by, even *)
(* when terminate() misses a worker that is about to wait: the next text   *)
(* wakes it.  No text comes for a stream with a negative interval, and so  *)
(* its worker, and no other, may keep a reload for ever.                   *)
ReloadEnds ==
  \/ \E o \in Sender : o[2] \notin Regular /\ Missed(o)
  \/ pc["web"] \in InitPc ~>
       (pc["web"] \notin InitPc \/ ~registered \/ pc["flight"] = "crashed")

(* XPluginStop ends, but for three ways to hang: run() of the web server   *)
(* has set m_running after stop() cleared it, its send() waits for a       *)
(* client that never reads, or a worker has missed its notification.  The  *)
(* web server, a reload that it is in, and XPluginStop itself cannot hold  *)
(* each other up in any other way.                                         *)
StopEnds ==
  \/ <>[](pc["flight"] = "joinWeb" /\ running)
  \/ <>[](pc["web"] = "blocked")
  \/ \E o \in Sender : Missed(o)
  \/ stopping ~> pc["flight"] = "stopped"

(* ARCHITECTURE.md:214 says that sendData posts to a worker thread: the    *)
(* flight loop calls no sender that a reload has destroyed.                *)
SenderAlive == pc["flight"] # "crashed"

(* Nothing but a reload can take the senders away from the flight loop:    *)
(* until the first one the call in sendData and the loop around it find    *)
(* what they began with, whatever the workers do.                          *)
AliveUntilReload == inits <= 1 => SenderAlive
=============================================================================
