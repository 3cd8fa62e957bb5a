--------------------------- MODULE TcpListenerProofs ---------------------------
(***************************************************************************)
(* Proofs of the safety properties of TcpListener, for any number of       *)
(* sockets and any capacity of the set.                                    *)
(***************************************************************************)
EXTENDS TcpListener, FiniteSetTheorems, TLAPS

(* Between two passes nothing is left to look at, and before init() has    *)
(* succeeded there are no members.                                         *)
PhaseInv ==
  /\ pc \notin {"each", "send"} => ready = {}
  /\ pc \in {"off", "failed"} => master = {}

IInv == TypeOK /\ SetIsOpen /\ RecvReturns /\ PhaseInv

(* The set stays within its array, whatever is put into it, and a socket   *)
(* is left out only by a full set.                                         *)
LEMMA FdSetBound ==
  ASSUME master \subseteq Socket \cup {Invalid}, Cardinality(master) <= Limit,
         NEW s \in Socket \cup {Invalid}
  PROVE  /\ FdSet(s) \subseteq Socket \cup {Invalid}
         /\ master \subseteq FdSet(s)
         /\ Cardinality(FdSet(s)) <= Limit
         /\ s \in FdSet(s) \/ Cardinality(FdSet(s)) >= Limit
<1>1. IsFiniteSet(master)
  <2>1. IsFiniteSet(Socket \cup {Invalid})
    BY FS_Singleton, FS_Union, HandleAssumption DEF Socket
  <2> QED BY <2>1, FS_Subset
<1>2. Cardinality(master) \in Nat
  BY <1>1, FS_CardinalityType
<1>3. CASE Cardinality(master) < Limit
  <2>1. FdSet(s) = master \cup {s}
    BY <1>3 DEF FdSet
  <2>2. Cardinality(master \cup {s}) \in {Cardinality(master), Cardinality(master) + 1}
    BY <1>1, FS_AddElement, Zenon
  <2> QED BY <2>1, <2>2, <1>2, <1>3, LimitAssumption
<1>4. CASE ~(Cardinality(master) < Limit)
  BY <1>4, <1>2, LimitAssumption DEF FdSet
<1> QED BY <1>3, <1>4

(* A smaller set is within the array too. *)
LEMMA FdClrBound ==
  ASSUME master \subseteq Socket \cup {Invalid}, Cardinality(master) <= Limit, NEW s
  PROVE  Cardinality(master \ {s}) <= Limit
<1>1. IsFiniteSet(master)
  <2>1. IsFiniteSet(Socket \cup {Invalid})
    BY FS_Singleton, FS_Union, HandleAssumption DEF Socket
  <2> QED BY <2>1, FS_Subset
<1>2. /\ IsFiniteSet(master \ {s})
      /\ Cardinality(master \ {s}) <= Cardinality(master)
  BY <1>1, FS_Subset
<1>3. Cardinality(master) \in Nat /\ Cardinality(master \ {s}) \in Nat
  BY <1>1, <1>2, FS_CardinalityType
<1> QED BY <1>2, <1>3, LimitAssumption

LEMMA InitIInv == Init => IInv
<1> SUFFICES ASSUME Init PROVE IInv
  OBVIOUS
<1>1. Cardinality(master) <= Limit
  BY FS_EmptySet, LimitAssumption DEF Init
<1> QED
  BY <1>1 DEF Init, IInv, TypeOK, SetIsOpen, RecvReturns, PhaseInv, Socket

LEMMA NextIInv == IInv /\ [Next]_vars => IInv'
<1> SUFFICES ASSUME IInv, [Next]_vars PROVE IInv'
  OBVIOUS
<1> USE DEF IInv
<1> DEFINE Safe == SetIsOpen /\ RecvReturns /\ PhaseInv
<1>1. CASE InitFails
  BY <1>1 DEF InitFails, TypeOK, SetIsOpen, RecvReturns, PhaseInv, clients, Socket, Serving
<1>2. CASE InitDone
  <2>1. Cardinality(master') <= Limit
    BY <1>2, FS_Singleton, LimitAssumption DEF InitDone
  <2>2. TypeOK'
    BY <1>2, <2>1 DEF InitDone, TypeOK, PhaseInv, clients, Socket, Serving
  <2> QED BY <1>2, <2>2 DEF InitDone, SetIsOpen, RecvReturns, PhaseInv, clients
<1>3. CASE Stop
  BY <1>3 DEF Stop, TypeOK, SetIsOpen, RecvReturns, PhaseInv, clients
<1>4. CASE Serve \/ Poll \/ EndPass
  BY <1>4 DEF Serve, Poll, EndPass, TypeOK, SetIsOpen, RecvReturns, PhaseInv, clients, Serving
<1>5. CASE Select
  <2>1. TypeOK'
    BY <1>5 DEF Select, TypeOK, clients, Serving
  <2>2. Safe'
    BY <1>5, NumberAssumption
    DEF Select, Readable, TypeOK, SetIsOpen, RecvReturns, PhaseInv, clients, Socket
  <2> QED BY <2>1, <2>2
<1>6. CASE Accept
  <2> PICK h \in Handle \ open : open' = open \cup {h} /\ Register(h)
    BY <1>6 DEF Accept
  <2>1. /\ master' \subseteq Socket \cup {Invalid}
        /\ master \subseteq master'
        /\ Cardinality(master') <= Limit
        /\ h \in master' \/ full'
        /\ full => full'
        /\ master' \subseteq master \cup {h}
    BY FdSetBound DEF Register, FdSet, TypeOK, Socket
  <2>2. full' \in BOOLEAN
    BY DEF Register, TypeOK
  <2>3. TypeOK'
    BY <1>6, <2>1, <2>2 DEF Accept, Register, TypeOK, clients, Socket, Serving
  <2>4. Safe'
    BY <1>6, <2>1 DEF Accept, Register, TypeOK, SetIsOpen, RecvReturns, PhaseInv, clients
  <2> QED BY <2>3, <2>4
<1>7. CASE AcceptFails
  <2>1. /\ master' \subseteq Socket \cup {Invalid}
        /\ master \subseteq master'
        /\ Cardinality(master') <= Limit
        /\ full => full'
        /\ master' \subseteq master \cup {Invalid}
    BY <1>7, FdSetBound DEF AcceptFails, Register, FdSet, TypeOK
  <2>2. full' \in BOOLEAN
    BY <1>7 DEF AcceptFails, Register, TypeOK
  <2>3. TypeOK'
    BY <1>7, <2>1, <2>2 DEF AcceptFails, Register, TypeOK, clients, Serving
  <2>4. Safe'
    BY <1>7, <2>1 DEF AcceptFails, Register, TypeOK, SetIsOpen, RecvReturns, PhaseInv, clients
  <2> QED BY <2>3, <2>4
<1>8. ASSUME NEW h \in Handle, Receive(h) PROVE IInv'
  <2>1. TypeOK'
    BY <1>8 DEF Receive, TypeOK, Socket, Serving
  <2>2. Safe'
    BY <1>8 DEF Receive, TypeOK, SetIsOpen, RecvReturns, PhaseInv
  <2> QED BY <2>1, <2>2
<1>9. CASE Send
  BY <1>9 DEF Send, TypeOK, SetIsOpen, RecvReturns, PhaseInv, clients, Serving
<1>10. ASSUME NEW h \in Handle, Drop(h) PROVE IInv'
  <2>1. Cardinality(master') <= Limit
    BY <1>10, FdClrBound DEF Drop, TypeOK
  <2>2. TypeOK'
    BY <1>10, <2>1 DEF Drop, Forget, TypeOK, Socket, Serving
  <2>3. Safe'
    BY <1>10 DEF Drop, Forget, TypeOK, SetIsOpen, RecvReturns, PhaseInv
  <2> QED BY <2>2, <2>3
<1>11. CASE Leave
  <2>1. Cardinality(master') <= Limit
    BY <1>11, FdClrBound DEF Leave, TypeOK
  <2>2. TypeOK'
    BY <1>11, <2>1 DEF Leave, TypeOK, PhaseInv, clients, Serving
  <2>3. Safe'
    BY <1>11 DEF Leave, TypeOK, SetIsOpen, RecvReturns, PhaseInv, clients
  <2> QED BY <2>2, <2>3
<1>12. ASSUME NEW h \in Handle \cup {Invalid}, CloseOne(h) PROVE IInv'
  <2>1. Cardinality(master') <= Limit
    BY <1>12, FdClrBound DEF CloseOne, TypeOK
  <2>2. TypeOK'
    BY <1>12, <2>1 DEF CloseOne, Forget, TypeOK, PhaseInv
  <2>3. Safe'
    BY <1>12 DEF CloseOne, Forget, TypeOK, SetIsOpen, RecvReturns, PhaseInv
  <2> QED BY <2>2, <2>3
<1>13. CASE Finish
  BY <1>13 DEF Finish, TypeOK, SetIsOpen, RecvReturns, PhaseInv, clients
<1>14. CASE Connect \/ GiveUp
  BY <1>14 DEF Connect, GiveUp, TypeOK, SetIsOpen, RecvReturns, PhaseInv, clients
<1>15. ASSUME NEW h \in Handle, Ask(h) \/ HangUp(h) \/ Stall(h) \/ Resume(h)
       PROVE  IInv'
  BY <1>15 DEF Ask, HangUp, Stall, Resume, TypeOK, SetIsOpen, RecvReturns, PhaseInv
<1>16. CASE UNCHANGED vars
  BY <1>16 DEF vars, clients, TypeOK, SetIsOpen, RecvReturns, PhaseInv
<1> QED
  BY <1>1, <1>2, <1>3, <1>4, <1>5, <1>6, <1>7, <1>8, <1>9, <1>10, <1>11, <1>12,
     <1>13, <1>14, <1>15, <1>16 DEF Next, ListenerStep, ClientStep

LEMMA Invariance == Spec => []IInv
BY InitIInv, NextIInv, PTL DEF Spec

(* The set of sockets stays within its array, for any capacity and any     *)
(* number of connections.                                                  *)
THEOREM TypeCorrect == Spec => []TypeOK
BY Invariance, PTL DEF IInv

(* run() uses no closed socket and, unless the set has been full, leaves   *)
(* none open behind its back.                                              *)
THEOREM SetOfOpenSockets == Spec => []SetIsOpen
BY Invariance, PTL DEF IInv

(* recv() is called only where there is something to be received.          *)
THEOREM RecvNeverWaits == Spec => []RecvReturns
BY Invariance, PTL DEF IInv

-----------------------------------------------------------------------------
(* Refinement of Server *)

(* Once out of its loop, the thread finds m_running as it has read it. *)
LeftInv == pc = "cleanup" => ~running

LEMMA NextLeft == IInv /\ LeftInv /\ [Next]_vars => LeftInv'
<1> SUFFICES ASSUME IInv, LeftInv, [Next]_vars PROVE LeftInv'
  OBVIOUS
<1> USE DEF LeftInv
<1>1. CASE InitFails \/ InitDone \/ Stop
  BY <1>1 DEF InitFails, InitDone, Stop
<1>2. CASE ListenerStep
  BY <1>2 DEF ListenerStep, Serve, Poll, Select, Accept, AcceptFails, Send, EndPass, Leave,
     Finish, Receive, Drop, CloseOne
<1>3. CASE ClientStep
  BY <1>3 DEF ClientStep, Connect, GiveUp, Ask, HangUp, Stall, Resume, clients
<1>4. CASE UNCHANGED vars
  BY <1>4 DEF vars
<1> QED
  BY <1>1, <1>2, <1>3, <1>4 DEF Next

LEMMA NextSeen == IInv /\ LeftInv /\ [Next]_vars => [Seen!Next]_(Seen!vars)
<1> SUFFICES ASSUME IInv, LeftInv, [Next]_vars PROVE [Seen!Next]_(Seen!vars)
  OBVIOUS
<1> USE DEF Seen!Next, Seen!vars, Seen!Goto, Place
<1>1. CASE InitFails \/ InitDone
  BY <1>1 DEF InitFails, InitDone, Seen!Begin
<1>2. CASE Stop
  BY <1>2 DEF Stop, Seen!Stop
<1>3. CASE Serve
  BY <1>3 DEF Serve, Seen!Serve
<1>4. CASE Poll
  BY <1>4 DEF Poll, Seen!Poll
<1>5. CASE Select \/ Accept \/ AcceptFails \/ Send \/ \E h \in Handle : Receive(h) \/ Drop(h)
  <2>1. running' = running
    BY <1>5 DEF Select, Accept, AcceptFails, Send, Receive, Drop
  <2>2. pc \in {"select", "each", "send"} /\ pc' \in {"select", "each", "send"}
    BY <1>5 DEF Select, Accept, AcceptFails, Send, Receive, Drop
  <2> QED
    BY <2>1, <2>2
<1>6. CASE EndPass
  BY <1>6 DEF EndPass, Seen!EndPoll
<1>7. CASE Leave \/ \E h \in Handle \cup {Invalid} : CloseOne(h)
  <2>1. running' = running
    BY <1>7 DEF Leave, CloseOne
  <2>2. pc \in {"loop", "cleanup"} /\ pc' \in {"loop", "cleanup"}
    BY <1>7 DEF Leave, CloseOne
  <2> QED
    BY <2>1, <2>2
<1>8. CASE Finish
  BY <1>8 DEF Finish, LeftInv, Seen!Poll
<1>9. CASE ClientStep
  <2>1. UNCHANGED <<pc, running>>
    BY <1>9 DEF ClientStep, Connect, GiveUp, Ask, HangUp, Stall, Resume
  <2> QED
    BY <2>1
<1>10. CASE UNCHANGED vars
  BY <1>10 DEF vars
<1> QED
  BY <1>1, <1>2, <1>3, <1>4, <1>5, <1>6, <1>7, <1>8, <1>9, <1>10 DEF Next, ListenerStep

(* Whatever happens at its sockets, the listener takes its turns and ends  *)
(* as Server says: it ends only if it has found m_running cleared, and a   *)
(* stop() before run() is undone.                                          *)
THEOREM ImplementsServer == Spec => ServerSpec
<1>1. Init => LeftInv /\ Seen!Init
  BY DEF Init, LeftInv, Seen!Init, Place
<1>2. Init => IInv
  BY InitIInv
<1>3. IInv /\ [Next]_vars => IInv'
  BY NextIInv
<1>4. IInv /\ LeftInv /\ [Next]_vars => LeftInv'
  BY NextLeft
<1>5. IInv /\ LeftInv /\ [Next]_vars => [Seen!Next]_(Seen!vars)
  BY NextSeen
<1> QED
  BY <1>1, <1>2, <1>3, <1>4, <1>5, PTL DEF Spec, ServerSpec, Seen!Spec
=============================================================================
