------------------------------ MODULE TcpListener ------------------------------
(***************************************************************************)
(* The listener under the web server: init() on the simulator's thread,    *)
(* run() on the web server's, stop() on the simulator's again, and the     *)
(* clients.  An answer of WebServer::onMessageReceived is one call of      *)
(* send(); what is in it plays no part here.                               *)
(*                                                                         *)
(* fd_set is an array with a count; only what it contains matters, so it   *)
(* is a set.  The numbers of closed sockets are used again.  The buffer of *)
(* recv() holds a request as a whole, and a client waits for the answer    *)
(* before it asks again.                                                   *)
(*                                                                         *)
(* A definition marked "Fault" is a plausible wrong version of the one     *)
(* that follows it; no specification uses it.                              *)
(***************************************************************************)
EXTENDS Naturals, FiniteSets

CONSTANTS
  Handle,   (* Numbers that accept() may return.                      *)
  Listener, (* m_socket.                                              *)
  Invalid,  (* INVALID_SOCKET.                                        *)
  Limit     (* FD_SETSIZE, the capacity of an fd_set (64 on Windows). *)

ASSUME HandleAssumption == IsFiniteSet(Handle)

ASSUME NumberAssumption ==
  Listener \notin Handle /\ Invalid \notin Handle /\ Listener # Invalid

ASSUME LimitAssumption == Limit \in Nat \ {0}

VARIABLES
  pc,      (* Where the listener stands.                                    *)
  running, (* m_running.                                                    *)
  master,  (* m_master.                                                     *)
  ready,   (* What select() has left in the copy and the loop has not seen. *)
  client,  (* The connection a request came from, until it is answered.     *)
  open,    (* Sockets the process holds.                                    *)
  waiting, (* A client waits in the queue of the listening socket.          *)
  asked,   (* Connections with a request to be received.                    *)
  gone,    (* Connections whose client has hung up.                         *)
  stalled, (* Connections whose client does not read, with full buffers.    *)
  full     (* History: the set has been at its limit.                       *)

clients == <<asked, gone, stalled>>
vars == <<pc, running, master, ready, client, open, waiting, clients, full>>

Socket  == Handle \cup {Listener}
Serving == {"loop", "select", "each", "send"}

Init ==
  /\ pc = "off"
  /\ running = FALSE
  /\ master = {}
  /\ ready = {}
  /\ client = Listener
  /\ open = {}
  /\ waiting = FALSE
  /\ asked = {}
  /\ gone = {}
  /\ stalled = {}
  /\ full = FALSE

-----------------------------------------------------------------------------
(* init(), run() and stop() *)

(* A call of init() fails: a socket it has made stays open, there will be  *)
(* no thread.                                                              *)
InitFails ==
  /\ pc = "off"
  /\ pc' = "failed"
  /\ open' \in {{}, {Listener}}
  /\ UNCHANGED <<running, master, ready, client, waiting, clients, full>>

(* Fault: the listening socket is not put into the set. *)
InitWithoutSet ==
  /\ pc = "off"
  /\ pc' = "started"
  /\ open' = {Listener}
  /\ UNCHANGED <<running, master, ready, client, waiting, clients, full>>

(* init() succeeds, and the thread is made. *)
InitDone ==
  /\ pc = "off"
  /\ pc' = "started"
  /\ open' = {Listener}
  /\ master' = {Listener}
  /\ full' = (Limit = 1)
  /\ UNCHANGED <<running, ready, client, waiting, clients>>

Serve ==
  /\ pc = "started"
  /\ pc' = "loop"
  /\ running' = TRUE
  /\ UNCHANGED <<master, ready, client, open, waiting, clients, full>>

Stop ==
  /\ pc \notin {"off", "failed", "done"}
  /\ running' = FALSE
  /\ UNCHANGED <<pc, master, ready, client, open, waiting, clients, full>>

(* The test of m_running; the copy of the set is made. *)
Poll ==
  /\ pc = "loop"
  /\ running
  /\ pc' = "select"
  /\ UNCHANGED <<running, master, ready, client, open, waiting, clients, full>>

Readable(s) ==
  IF s = Listener THEN waiting ELSE s \in asked \cup gone

(* Fault: the loop goes through all members, not through what select()     *)
(* leaves of them.                                                         *)
SelectAll ==
  /\ pc = "select"
  /\ pc' = "each"
  /\ ready' = master \ {Invalid}
  /\ UNCHANGED <<running, master, client, open, waiting, clients, full>>


(* select() on a copy of the set.  It returns what can be read, nothing    *)
(* after half a second without any, and an error at once when one of the   *)
(* members is not a socket.                                                *)
Select ==
  /\ pc = "select"
  /\ pc' = "each"
  /\ ready' = IF Invalid \in master THEN {} ELSE {s \in master : Readable(s)}
  /\ UNCHANGED <<running, master, client, open, waiting, clients, full>>

(* Fault: the capacity is not looked at. *)
FdSetUnbounded(s) == master \cup {s}

(* FD_SET: nothing happens when the array is full. *)
FdSet(s) == IF Cardinality(master) < Limit THEN master \cup {s} ELSE master

Register(s) ==
  /\ master' = FdSet(s)
  /\ full' = (full \/ Cardinality(master') >= Limit)
  /\ ready' = ready \ {Listener}

(* Fault: a new connection is not put into the set. *)
AcceptOnly ==
  /\ pc = "each"
  /\ Listener \in ready
  /\ waiting
  /\ \E h \in Handle \ open : open' = open \cup {h}
  /\ waiting' = FALSE
  /\ ready' = ready \ {Listener}
  /\ UNCHANGED <<pc, running, master, client, clients, full>>

Accept ==
  /\ pc = "each"
  /\ Listener \in ready
  /\ waiting
  /\ \E h \in Handle \ open : open' = open \cup {h} /\ Register(h)
  /\ waiting' = FALSE
  /\ UNCHANGED <<pc, running, client, clients>>

(* accept() fails, because the client has left again or the process has no *)
(* sockets left; its result is put into the set all the same.              *)
AcceptFails ==
  /\ pc = "each"
  /\ Listener \in ready
  /\ ~waiting \/ Handle \subseteq open
  /\ Register(Invalid)
  /\ UNCHANGED <<pc, running, client, open, waiting, clients>>

(* recv() has a request, and the web server makes its answer. *)
Receive(h) ==
  /\ pc = "each"
  /\ h \in ready \cap asked
  /\ pc' = "send"
  /\ client' = h
  /\ ready' = ready \ {h}
  /\ asked' = asked \ {h}
  /\ UNCHANGED <<running, master, open, waiting, gone, stalled, full>>

(* send() waits for a client that is there and does not read. *)
Send ==
  /\ pc = "send"
  /\ client \in gone \/ client \notin stalled
  /\ pc' = "each"
  /\ UNCHANGED <<running, master, ready, client, open, waiting, clients, full>>

Forget(h) ==
  /\ asked' = asked \ {h}
  /\ gone' = gone \ {h}
  /\ stalled' = stalled \ {h}

(* Fault: the number of the closed socket stays in the set. *)
DropOnly(h) ==
  /\ pc = "each"
  /\ h \in ready \cap gone
  /\ open' = open \ {h}
  /\ ready' = ready \ {h}
  /\ Forget(h)
  /\ UNCHANGED <<pc, running, master, client, waiting, full>>

(* recv() returns 0 or an error, also when a request is lost by it. *)
Drop(h) ==
  /\ pc = "each"
  /\ h \in ready \cap gone
  /\ open' = open \ {h}
  /\ master' = master \ {h}
  /\ ready' = ready \ {h}
  /\ Forget(h)
  /\ UNCHANGED <<pc, running, client, waiting, full>>

EndPass ==
  /\ pc = "each"
  /\ ready = {}
  /\ pc' = "loop"
  /\ UNCHANGED <<running, master, ready, client, open, waiting, clients, full>>

(* run() leaves its loop and closes the listening socket ... *)
Leave ==
  /\ pc = "loop"
  /\ ~running
  /\ pc' = "cleanup"
  /\ master' = master \ {Listener}
  /\ open' = open \ {Listener}
  /\ waiting' = FALSE
  /\ UNCHANGED <<running, ready, client, clients, full>>

(* ... and then each member; closing INVALID_SOCKET does nothing. *)
CloseOne(h) ==
  /\ pc = "cleanup"
  /\ h \in master
  /\ master' = master \ {h}
  /\ open' = open \ {h}
  /\ Forget(h)
  /\ UNCHANGED <<pc, running, ready, client, waiting, full>>

Finish ==
  /\ pc = "cleanup"
  /\ master = {}
  /\ pc' = "done"
  /\ UNCHANGED <<running, master, ready, client, open, waiting, clients, full>>

-----------------------------------------------------------------------------
(* The clients *)

Connect ==
  /\ Listener \in open
  /\ pc # "failed"
  /\ ~waiting
  /\ waiting' = TRUE
  /\ UNCHANGED <<pc, running, master, ready, client, open, clients, full>>

GiveUp ==
  /\ waiting
  /\ waiting' = FALSE
  /\ UNCHANGED <<pc, running, master, ready, client, open, clients, full>>

Pending(h) == h \in asked \/ (pc = "send" /\ client = h)

Ask(h) ==
  /\ h \in open \ gone
  /\ ~Pending(h)
  /\ asked' = asked \cup {h}
  /\ UNCHANGED <<pc, running, master, ready, client, open, waiting, gone, stalled, full>>

HangUp(h) ==
  /\ h \in open \ gone
  /\ gone' = gone \cup {h}
  /\ UNCHANGED <<pc, running, master, ready, client, open, waiting, asked, stalled, full>>

(* The client stops reading, or takes it up again. *)
Stall(h) ==
  /\ h \in open \ (gone \cup stalled)
  /\ stalled' = stalled \cup {h}
  /\ UNCHANGED <<pc, running, master, ready, client, open, waiting, asked, gone, full>>

Resume(h) ==
  /\ h \in stalled \ gone
  /\ stalled' = stalled \ {h}
  /\ UNCHANGED <<pc, running, master, ready, client, open, waiting, asked, gone, full>>

-----------------------------------------------------------------------------

ListenerStep ==
  \/ Serve \/ Poll \/ Select \/ Accept \/ AcceptFails \/ Send \/ EndPass \/ Leave \/ Finish
  \/ \E h \in Handle : Receive(h) \/ Drop(h)
  \/ \E h \in Handle \cup {Invalid} : CloseOne(h)

ClientStep ==
  \/ Connect \/ GiveUp
  \/ \E h \in Handle : Ask(h) \/ HangUp(h) \/ Stall(h) \/ Resume(h)

Next == InitFails \/ InitDone \/ Stop \/ ListenerStep \/ ClientStep

(* The thread of the listener runs whenever no call holds it, and a client *)
(* that reads again and again lets send() end.  Neither the clients nor    *)
(* the simulator need do anything.                                         *)
Spec == Init /\ [][Next]_vars /\ WF_vars(ListenerStep) /\ SF_vars(Send)

-----------------------------------------------------------------------------
(* Properties *)

(* Every variable has its type, and the set never outgrows its array. *)
TypeOK ==
  /\ pc \in {"off", "failed", "started", "cleanup", "done"} \cup Serving
  /\ running \in BOOLEAN
  /\ master \subseteq Socket \cup {Invalid}
  /\ Cardinality(master) <= Limit
  /\ ready \subseteq master
  /\ client \in Socket
  /\ open \subseteq Socket
  /\ waiting \in BOOLEAN
  /\ asked \subseteq Handle
  /\ gone \subseteq Handle
  /\ stalled \subseteq Handle
  /\ full \in BOOLEAN

(* run() never uses a closed socket, whose number may belong to somebody   *)
(* else by then, and loses none: unless the set has been full, the sockets *)
(* the process holds are the members, down to none when run() has ended.   *)
SetIsOpen ==
  /\ master \ {Invalid} \subseteq open
  /\ pc = "send" => client \in master
  /\ pc \notin {"off", "failed"} /\ ~full => open \subseteq master

(* recv() never makes the thread wait: a connection the loop still has to  *)
(* look at has something to be read, whatever the loop did to the sockets  *)
(* before it and whatever the clients did since select().                  *)
RecvReturns ==
  /\ ready \ {Listener} \subseteq asked \cup gone
  /\ ready # {} => pc \in {"each", "send"}

Deaf    == Invalid \in master
Blocked == pc = "send" /\ client \in stalled \ gone

(* TcpListener.cpp:45 wants the server to hear incoming connections.  It   *)
(* does, until an accept() has failed or the process has no sockets left;  *)
(* and as long as it is not held in send() by a client that never reads.   *)
Hears ==
  \/ <>[]Blocked
  \/ waiting /\ running /\ pc \in Serving ~>
       ~waiting \/ ~running \/ Deaf \/ Handle \subseteq open

(* A request is answered or its connection is closed, under the same       *)
(* conditions, and if no connection was lost at the limit.                 *)
Answered ==
  \/ <>[]Blocked
  \/ \A h \in Handle : Pending(h) ~> ~Pending(h) \/ Deaf \/ full

(* A stop that comes when run() has begun ends it, also when it is deaf;   *)
(* only a client that never reads can keep it, and XPluginStop with it.    *)
StopEnds ==
  \/ <>[]Blocked
  \/ pc \in Serving /\ ~running ~> pc = "done"
(* What the rest of the plugin sees of the thread: it is at the test of    *)
(* its loop until it has closed its sockets.                               *)
Place ==
  IF pc \in {"off", "failed"} THEN "none"
  ELSE IF pc = "started" THEN "new"
  ELSE IF pc \in {"loop", "cleanup"} THEN "serving"
  ELSE IF pc = "done" THEN "done" ELSE "polled"

Seen == INSTANCE Server WITH thread <- Place

(* With all its sockets and clients, the listener is the thread that       *)
(* Plugin takes the web server for.                                        *)
ServerSpec == Seen!Spec
=============================================================================
