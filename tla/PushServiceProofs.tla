-------------------------- MODULE PushServiceProofs --------------------------
(* Proofs about PushService, for any senders and any texts. *)
EXTENDS PushService, TLAPS

(* The worker owns mtx exactly between taking it and giving it back, and   *)
(* only a thread inside sendData owns it otherwise.                        *)
LockInv ==
  \A s \in Sender :
    /\ mtx[s] = "worker" <=> pc[s] \in Locked
    /\ mtx[s] = "caller" => caller[s] # None

(* What the mailbox holds: a text not yet tried, or one that was and is    *)
(* about to be cleared, or nothing.                                        *)
MailboxInv ==
  \A s \in Sender :
    /\ unsent[s] => dataToSend[s] = latest[s]
    /\ unsent[s] => pc[s] # "clear"
    /\ dataToSend[s] # Empty /\ pc[s] # "clear" => unsent[s]
    /\ pc[s] = "write" => frame[s] = dataToSend[s]
    /\ pc[s] \in {"send", "write"} /\ dataToSend[s] = Empty => shouldTerminate[s]

(* The link is up exactly inside the loop of run(). *)
LinkInv ==
  \A s \in Sender :
    /\ isConnected[s] <=> pc[s] \notin {"start", "done"}
    /\ isConnected[s] <=> handle[s] # "none"

(* How far the stopping thread and the worker have come agrees. *)
StopInv ==
  \A s \in Sender :
    /\ shouldTerminate[s] <=> stage[s] # "running"
    /\ stage[s] = "joined" => pc[s] = "done"
    /\ pc[s] = "exit" => shouldTerminate[s]

IInv == TypeOK /\ LockInv /\ MailboxInv /\ LinkInv /\ StopInv

-----------------------------------------------------------------------------

LEMMA InitIInv == Init => IInv
BY DistinctAssumption DEF Init, IInv, TypeOK, WorkerPc, Locked, LockInv, MailboxInv,
  LinkInv, StopInv

LEMMA NextIInv == IInv /\ [Next]_vars => IInv'
<1> SUFFICES ASSUME IInv, [Next]_vars PROVE IInv'
  OBVIOUS
<1> USE DistinctAssumption DEF IInv, TypeOK, WorkerPc, Locked, LockInv, MailboxInv,
     LinkInv, StopInv, Goto, link, history, clients
<1>1. ASSUME NEW s \in Sender, Run(s) PROVE IInv'
  <2>1. PICK h \in UdpConnect :
          /\ Connect(s, h)
          /\ Goto(s, "start", IF h = "none" THEN "done" ELSE "loop")
    BY <1>1 DEF Run
  <2>2. /\ handle'      = [handle EXCEPT ![s] = h]
        /\ isConnected' = [isConnected EXCEPT ![s] = h # "none"]
        /\ h \in {"none", "open", "bad"}
    BY <2>1 DEF Connect, UdpConnect
  <2>3. UNCHANGED <<mtx, dataToSend, frame, shouldTerminate, clients, history>>
    BY <1>1 DEF Run
  <2>4. CASE h = "none"
    <3>1. /\ pc' = [pc EXCEPT ![s] = "done"]
          /\ isConnected' = [isConnected EXCEPT ![s] = FALSE]
      BY <2>1, <2>2, <2>4
    <3> QED
      BY <2>1, <2>2, <2>3, <2>4, <3>1
  <2>5. CASE h # "none"
    <3>1. /\ pc' = [pc EXCEPT ![s] = "loop"]
          /\ isConnected' = [isConnected EXCEPT ![s] = TRUE]
      BY <2>1, <2>2, <2>5
    <3>2. pc[s] = "start"
      BY <2>1
    <3> QED
      BY <2>2, <2>3, <2>5, <3>1, <3>2
  <2> QED
    BY <2>4, <2>5
<1>2. ASSUME NEW s \in Sender, CheckFlag(s) PROVE IInv'
  BY <1>2 DEF CheckFlag
<1>3. ASSUME NEW s \in Sender, Lock(s) PROVE IInv'
  BY <1>3 DEF Lock
<1>4. ASSUME NEW s \in Sender, Wait(s) PROVE IInv'
  BY <1>4 DEF Wait
<1>5. ASSUME NEW s \in Sender, HasData(s) PROVE IInv'
  BY <1>5 DEF HasData
<1>6. ASSUME NEW s \in Sender, SpuriousWakeup(s) PROVE IInv'
  BY <1>6 DEF SpuriousWakeup
<1>7. ASSUME NEW s \in Sender, Reacquire(s) PROVE IInv'
  BY <1>7 DEF Reacquire
<1>8. ASSUME NEW s \in Sender, Recheck(s) PROVE IInv'
  BY <1>8 DEF Recheck
<1>9. ASSUME NEW s \in Sender, BeginSend(s) PROVE IInv'
  <2>1. PICK h \in UdpConnect :
          /\ Connect(s, h)
          /\ Goto(s, "send", IF h = "none" THEN "loop" ELSE "write")
          /\ mtx' = [mtx EXCEPT ![s] = IF h = "none" THEN "free" ELSE @]
          /\ frame' = [frame EXCEPT ![s] = IF h = "none" THEN @ ELSE dataToSend[s]]
    BY <1>9 DEF BeginSend
  <2>2. h = handle[s] /\ h # "none"
    BY <2>1 DEF Connect
  <2>3. UNCHANGED <<handle, isConnected, mtx>>
    BY <2>1, <2>2 DEF Connect
  <2>4. /\ pc' = [pc EXCEPT ![s] = "write"]
        /\ frame' = [frame EXCEPT ![s] = dataToSend[s]]
    BY <2>1, <2>2
  <2>5. UNCHANGED <<dataToSend, shouldTerminate, clients, history>>
    BY <1>9 DEF BeginSend
  <2>6. pc[s] = "send"
    BY <2>1
  <2>7. TypeOK' /\ LockInv'
    BY <2>3, <2>4, <2>5, <2>6
  <2>8. MailboxInv'
    BY <2>3, <2>4, <2>5, <2>6
  <2>9. LinkInv' /\ StopInv'
    BY <2>3, <2>4, <2>5, <2>6
  <2> QED
    BY <2>7, <2>8, <2>9
<1>10. ASSUME NEW s \in Sender, Write(s) PROVE IInv'
  <2>1. /\ pc[s] = "write" /\ pc' = [pc EXCEPT ![s] = "clear"]
        /\ unsent' = [unsent EXCEPT ![s] = unsent[s] /\ frame[s] # latest[s]]
        /\ UNCHANGED <<mtx, dataToSend, frame, link, shouldTerminate, clients, latest>>
    BY <1>10 DEF Write
  <2>2. wire' \in [Sender -> Data \cup {Empty, None}]
    <3>1. PICK ok \in BOOLEAN : wire' = [wire EXCEPT ![s] = IF ok THEN frame[s] ELSE wire[s]]
      BY <1>10 DEF Write
    <3> QED
      BY <3>1
  <2>3. ~(unsent[s] /\ frame[s] # latest[s])
    BY <2>1
  <2>4. unsent' = [unsent EXCEPT ![s] = FALSE]
    BY <2>1, <2>3, Zenon
  <2>5. TypeOK'
    <3>1. unsent' \in [Sender -> BOOLEAN] /\ pc' \in [Sender -> WorkerPc]
      BY <2>1, <2>4
    <3> QED
      BY <2>1, <2>2, <3>1
  <2>6. LockInv'
    BY <2>1
  <2>7. MailboxInv'
    BY <2>1, <2>4
  <2>8. LinkInv' /\ StopInv'
    BY <2>1
  <2> QED
    BY <2>5, <2>6, <2>7, <2>8
<1>11. ASSUME NEW s \in Sender, Clear(s) PROVE IInv'
  BY <1>11 DEF Clear
<1>12. ASSUME NEW s \in Sender, Exit(s) PROVE IInv'
  BY <1>12 DEF Exit, Disconnect
<1>13. ASSUME NEW s \in Sender, NEW d \in Data, CallSendData(s, d) PROVE IInv'
  BY <1>13 DEF CallSendData
<1>14. ASSUME NEW s \in Sender, SendDataLock(s) PROVE IInv'
  BY <1>14 DEF SendDataLock
<1>15. ASSUME NEW s \in Sender, SendDataPost(s) PROVE IInv'
  BY <1>15 DEF SendDataPost, NotifyOne
<1>16. ASSUME NEW s \in Sender, TerminateFlag(s) PROVE IInv'
  BY <1>16 DEF TerminateFlag
<1>17. ASSUME NEW s \in Sender, TerminateNotify(s) PROVE IInv'
  BY <1>17 DEF TerminateNotify, NotifyOne
<1>18. ASSUME NEW s \in Sender, Join(s) PROVE IInv'
  BY <1>18 DEF Join
<1>19. ASSUME Unregister PROVE IInv'
  BY <1>19 DEF Unregister
<1>20. CASE UNCHANGED vars
  BY <1>20 DEF vars
<1> QED
  BY <1>1, <1>2, <1>3, <1>4, <1>5, <1>6, <1>7, <1>8, <1>9, <1>10, <1>11, <1>12, <1>13, <1>14, <1>15, <1>16, <1>17, <1>18, <1>19, <1>20
  DEF Next, WorkerStep, CallerStep, StopStep

LEMMA Inductive == Spec => []IInv
BY InitIInv, NextIInv, PTL DEF Spec

(* Every variable of a push service always has its type. *)
THEOREM TypeCorrect == Spec => []TypeOK
<1>1. IInv => TypeOK
  BY DEF IInv
<1> QED
  BY <1>1, Inductive, PTL

(* doSendData never writes a stale text and never writes one text twice.   *)
THEOREM FreshnessHolds == Spec => []FreshFrame
<1>1. IInv => FreshFrame
  BY DistinctAssumption DEF IInv, TypeOK, MailboxInv, FreshFrame
<1> QED
  BY <1>1, Inductive, PTL

(* A posted text leaves the mailbox only through an attempted write or     *)
(* under a newer text.                                                     *)
THEOREM NothingSilentlyLost == Spec => []NoSilentLoss
<1>1. IInv => NoSilentLoss
  <2> SUFFICES ASSUME IInv, NEW s \in Sender, dataToSend[s] = Empty, unsent[s]
               PROVE  FALSE
    BY DEF NoSilentLoss
  <2>1. unsent[s] /\ latest[s] = Empty
    BY DEF IInv, MailboxInv
  <2>2. latest[s] \in Data \cup {None}
    BY DEF IInv, TypeOK
  <2> QED
    BY <2>1, <2>2, DistinctAssumption
<1> QED
  BY <1>1, Inductive, PTL

(* The worker writes an empty frame only once terminate() has set its flag.*)
THEOREM BlankNeedsTerminate == Spec => []BlankOnlyOnTerminate
<1>1. IInv => BlankOnlyOnTerminate
  BY DEF IInv, MailboxInv, BlankOnlyOnTerminate
<1> QED
  BY <1>1, Inductive, PTL

(* The service is connected all through the loop of run(), hence the       *)
(* branch of doSendData that reconnects is dead code.                      *)
THEOREM ReconnectIsDead == Spec => []ConnectedInLoop
<1>1. IInv => ConnectedInLoop
  BY DEF IInv, LinkInv, ConnectedInLoop, Locked
<1> QED
  BY <1>1, Inductive, PTL

(* A joined worker has closed its socket or port and does not hold mtx.    *)
THEOREM JoinReleases == Spec => []ReleasedWhenJoined
<1>1. IInv => ReleasedWhenJoined
  BY DEF IInv, LockInv, LinkInv, StopInv, ReleasedWhenJoined, Locked
<1> QED
  BY <1>1, Inductive, PTL

-----------------------------------------------------------------------------
(* Refinement of LatestValueChannel *)

LEMMA InitChannel == Init => Channel!Init
BY DEF Init, Channel!Init, Pending, State

(* A step that leaves these alone is invisible in the channel. *)
LEMMA Invisible ==
  ASSUME UNCHANGED <<shouldTerminate, latest, unsent, wire>>,
         \A s \in Sender : pc[s] = "done" <=> pc'[s] = "done"
  PROVE  UNCHANGED Channel!vars
BY DEF Channel!vars, Pending, State

LEMMA NextChannel == IInv /\ [Next]_vars => [Channel!Next]_(Channel!vars)
<1> SUFFICES ASSUME IInv, [Next]_vars PROVE [Channel!Next]_(Channel!vars)
  OBVIOUS
<1> USE DEF IInv, TypeOK, Goto, link, history, clients
<1>1. ASSUME NEW s \in Sender, Run(s) PROVE [Channel!Next]_(Channel!vars)
  <2>1. /\ pc[s] = "start"
        /\ pc' \in {[pc EXCEPT ![s] = "done"], [pc EXCEPT ![s] = "loop"]}
        /\ UNCHANGED <<shouldTerminate, latest, unsent, wire>>
    BY <1>1 DEF Run
  <2>2. CASE pc' = [pc EXCEPT ![s] = "done"]
    <3>1. State' = [State EXCEPT ![s] = "closed"]
      BY <2>1, <2>2 DEF State
    <3>2. State[s] # "closed"
      BY <2>1 DEF State
    <3>3. UNCHANGED <<Pending, wire>>
      BY <2>1 DEF Pending
    <3>4. Channel!Shut(s)
      BY <3>1, <3>2, <3>3 DEF Channel!Shut
    <3> QED
      BY <3>4 DEF Channel!Next, Channel!ChannelNext
  <2>3. CASE pc' = [pc EXCEPT ![s] = "loop"]
    BY <2>1, <2>3, Invisible
  <2> QED
    BY <2>1, <2>2, <2>3
<1>2. ASSUME NEW s \in Sender, CheckFlag(s) PROVE [Channel!Next]_(Channel!vars)
  BY <1>2, Invisible DEF CheckFlag
<1>3. ASSUME NEW s \in Sender, Lock(s) \/ Wait(s) \/ HasData(s) \/ SpuriousWakeup(s)
      PROVE  [Channel!Next]_(Channel!vars)
  BY <1>3, Invisible DEF Lock, Wait, HasData, SpuriousWakeup
<1>4. ASSUME NEW s \in Sender, Reacquire(s) \/ Recheck(s) \/ BeginSend(s) \/ Clear(s)
      PROVE  [Channel!Next]_(Channel!vars)
  BY <1>4, Invisible DEF Reacquire, Recheck, BeginSend, Clear
<1>5. ASSUME NEW s \in Sender, Write(s) PROVE [Channel!Next]_(Channel!vars)
  <2>1. /\ pc[s] = "write" /\ pc' = [pc EXCEPT ![s] = "clear"]
        /\ unsent' = [unsent EXCEPT ![s] = unsent[s] /\ frame[s] # latest[s]]
        /\ UNCHANGED <<shouldTerminate, latest>>
        /\ frame[s] = dataToSend[s]
    BY <1>5 DEF Write, MailboxInv
  <2>2. wire' \in {wire, [wire EXCEPT ![s] = frame[s]]}
    <3>1. PICK ok \in BOOLEAN : wire' = [wire EXCEPT ![s] = IF ok THEN frame[s] ELSE wire[s]]
      BY <1>5 DEF Write
    <3> QED
      BY <3>1
  <2>3. UNCHANGED State
    BY <2>1 DEF State
  <2>4. CASE frame[s] = Empty
    <3>1. ~unsent[s]
      <4>1. unsent[s] => latest[s] = Empty
        BY <2>1, <2>4 DEF MailboxInv
      <4> QED
        BY <4>1, DistinctAssumption
    <3>2. unsent' = unsent
      <4>1. (unsent[s] /\ frame[s] # latest[s]) = unsent[s]
        BY <3>1
      <4> QED
        BY <2>1, <4>1
    <3>3. UNCHANGED Pending
      BY <2>1, <3>2 DEF Pending
    <3>4. State[s] = "closing"
      BY <2>1, <2>4 DEF State, MailboxInv
    <3>5. CASE wire' = wire
      BY <2>3, <3>3, <3>5 DEF Channel!vars
    <3>6. CASE wire' = [wire EXCEPT ![s] = frame[s]]
      <4>1. Channel!Blank(s)
        BY <2>3, <2>4, <3>3, <3>4, <3>6 DEF Channel!Blank
      <4> QED
        BY <4>1 DEF Channel!Next, Channel!ChannelNext
    <3> QED
      BY <2>2, <3>5, <3>6
  <2>5. CASE frame[s] # Empty
    <3>1. unsent[s] /\ frame[s] = latest[s]
      BY <2>1, <2>5 DEF MailboxInv
    <3>2. unsent' = [unsent EXCEPT ![s] = FALSE]
      <4>1. (unsent[s] /\ frame[s] # latest[s]) = FALSE
        BY <3>1
      <4> QED
        BY <2>1, <4>1
    <3>3. Pending' = [Pending EXCEPT ![s] = None]
      BY <2>1, <3>2 DEF Pending
    <3>4. Pending[s] = frame[s] /\ Pending[s] # None
      BY <2>5, <3>1, DistinctAssumption DEF Pending
    <3>5. State[s] # "closed"
      BY <2>1 DEF State
    <3>6. wire' \in {wire, [wire EXCEPT ![s] = Pending[s]]}
      BY <2>2, <3>4
    <3>7. Channel!Take(s)
      BY <2>3, <3>3, <3>4, <3>5, <3>6 DEF Channel!Take
    <3> QED
      BY <3>7 DEF Channel!Next, Channel!ChannelNext
  <2> QED
    BY <2>4, <2>5
<1>6. ASSUME NEW s \in Sender, Exit(s) PROVE [Channel!Next]_(Channel!vars)
  <2>1. /\ pc[s] = "exit" /\ pc' = [pc EXCEPT ![s] = "done"]
        /\ UNCHANGED <<shouldTerminate, latest, unsent, wire>>
    BY <1>6 DEF Exit
  <2>2. /\ State' = [State EXCEPT ![s] = "closed"]
        /\ State[s] # "closed"
    BY <2>1 DEF State
  <2>3. UNCHANGED <<Pending, wire>>
    BY <2>1 DEF Pending
  <2>4. Channel!Shut(s)
    BY <2>2, <2>3 DEF Channel!Shut
  <2> QED
    BY <2>4 DEF Channel!Next, Channel!ChannelNext
<1>7. ASSUME NEW s \in Sender, NEW d \in Data, CallSendData(s, d)
      PROVE  [Channel!Next]_(Channel!vars)
  BY <1>7, Invisible DEF CallSendData
<1>8. ASSUME NEW s \in Sender, SendDataLock(s) PROVE [Channel!Next]_(Channel!vars)
  BY <1>8, Invisible DEF SendDataLock
<1>9. ASSUME NEW s \in Sender, SendDataPost(s) PROVE [Channel!Next]_(Channel!vars)
  <2>1. /\ latest' = [latest EXCEPT ![s] = caller[s]]
        /\ unsent' = [unsent EXCEPT ![s] = TRUE]
        /\ UNCHANGED <<shouldTerminate, wire>>
    BY <1>9 DEF SendDataPost
  <2>2. caller[s] \in Data
    BY <1>9 DEF SendDataPost, LockInv
  <2>3. Pending' = [Pending EXCEPT ![s] = caller[s]]
    BY <2>1 DEF Pending
  <2>4. UNCHANGED State
    BY <1>9, <2>1 DEF SendDataPost, NotifyOne, State
  <2>5. Channel!Post(s, caller[s])
    BY <2>1, <2>3, <2>4 DEF Channel!Post
  <2> QED
    BY <2>2, <2>5 DEF Channel!Next, Channel!ChannelNext
<1>10. ASSUME NEW s \in Sender, TerminateFlag(s) PROVE [Channel!Next]_(Channel!vars)
  <2>1. /\ shouldTerminate' = [shouldTerminate EXCEPT ![s] = TRUE]
        /\ ~shouldTerminate[s]
        /\ UNCHANGED <<pc, latest, unsent, wire>>
    BY <1>10 DEF TerminateFlag, StopInv
  <2>2. UNCHANGED <<Pending, wire>>
    BY <2>1 DEF Pending
  <2>3. CASE pc[s] = "done"
    <3>1. UNCHANGED State
      BY <2>1, <2>3 DEF State
    <3> QED
      BY <2>2, <3>1 DEF Channel!vars
  <2>4. CASE pc[s] # "done"
    <3>1. State[s] = "open" /\ State' = [State EXCEPT ![s] = "closing"]
      BY <2>1, <2>4 DEF State
    <3>2. Channel!Close(s)
      BY <2>2, <3>1 DEF Channel!Close
    <3> QED
      BY <3>2 DEF Channel!Next, Channel!ChannelNext
  <2> QED
    BY <2>3, <2>4
<1>11. ASSUME NEW s \in Sender, TerminateNotify(s) \/ Join(s)
       PROVE  [Channel!Next]_(Channel!vars)
  BY <1>11, Invisible DEF TerminateNotify, NotifyOne, Join
<1>12. ASSUME Unregister PROVE [Channel!Next]_(Channel!vars)
  BY <1>12, Invisible DEF Unregister
<1>13. CASE UNCHANGED vars
  BY <1>13, Invisible DEF vars
<1> QED
  BY <1>1, <1>2, <1>3, <1>4, <1>5, <1>6, <1>7, <1>8, <1>9, <1>10, <1>11, <1>12, <1>13
  DEF Next, WorkerStep, CallerStep, StopStep

(* A push service is a latest-value channel: whatever the threads do, what *)
(* is posted is overwritten by newer texts or handed to the wire, at most  *)
(* once, and nothing but a blank frame after terminate() is added.         *)
THEOREM ImplementsChannel == Spec => Channel!SafeSpec
BY InitChannel, NextChannel, Inductive, PTL DEF Spec, Channel!SafeSpec

-----------------------------------------------------------------------------
(* Refinement of Worker *)

LEMMA InitWorker == Init => Thread!Init
<1> SUFFICES ASSUME Init PROVE Thread!Init
  OBVIOUS
<1>1. \A s \in Sender : WorkerAt[s] = "new" /\ HasText[s] = FALSE
  BY DEF Init, WorkerAt, Place, HasText
<1>2. WorkerAt \in [Sender -> {"none", "new"}]
  BY <1>1 DEF WorkerAt
<1>3. HasText = [s \in Sender |-> FALSE]
  BY <1>1 DEF HasText
<1> QED
  BY <1>2, <1>3 DEF Init, Thread!Init

(* A step that leaves these alone is invisible outside. *)
LEMMA Hidden ==
  ASSUME UNCHANGED <<shouldTerminate, WorkerAt, HasText>>
  PROVE  [Thread!Next]_(Thread!vars)
BY DEF Thread!vars

LEMMA NextWorker == IInv /\ [Next]_vars => [Thread!Next]_(Thread!vars)
<1> SUFFICES ASSUME IInv, [Next]_vars PROVE [Thread!Next]_(Thread!vars)
  OBVIOUS
<1> USE DEF IInv, TypeOK, Goto, link, history, clients
<1>1. ASSUME NEW s \in Sender, Run(s) PROVE [Thread!Next]_(Thread!vars)
  <2>1. \E to \in {"loop", "done"} : pc' = [pc EXCEPT ![s] = to]
    BY <1>1 DEF Run
  <2>2. pc[s] = "start" /\ UNCHANGED <<dataToSend, shouldTerminate>>
    BY <1>1 DEF Run
  <2>3. WorkerAt[s] = "new" /\ HasText' = HasText
    BY <2>1, <2>2 DEF WorkerAt, Place, HasText
  <2>4. \A to \in {"loop", "done"} :
          pc' = [pc EXCEPT ![s] = to] => WorkerAt' = [WorkerAt EXCEPT ![s] = to]
    BY DEF WorkerAt, Place
  <2>5. Thread!Connect(s)
    BY <2>1, <2>2, <2>3, <2>4 DEF Thread!Connect, Thread!Goto
  <2> QED
    BY <2>5 DEF Thread!Next, Thread!Step, Thread!Run
<1>2. ASSUME NEW s \in Sender, CheckFlag(s) PROVE [Thread!Next]_(Thread!vars)
  <2>1. pc[s] = "loop" /\ UNCHANGED <<dataToSend, shouldTerminate>>
    BY <1>2 DEF CheckFlag
  <2>2. CASE shouldTerminate[s]
    <3>1. pc' = [pc EXCEPT ![s] = "exit"]
      BY <1>2, <2>2 DEF CheckFlag
    <3> QED
      BY <2>1, <3>1, Hidden DEF WorkerAt, Place, HasText
  <2>3. CASE ~shouldTerminate[s]
    <3>1. pc' = [pc EXCEPT ![s] = "lock"]
      BY <1>2, <2>3 DEF CheckFlag
    <3>2. WorkerAt' = [WorkerAt EXCEPT ![s] = "checked"] /\ WorkerAt[s] = "loop"
            /\ HasText' = HasText
      BY <2>1, <3>1 DEF WorkerAt, Place, HasText
    <3>3. Thread!CheckFlag(s)
      BY <2>1, <2>3, <3>2 DEF Thread!CheckFlag, Thread!Goto
    <3> QED
      BY <3>3 DEF Thread!Next, Thread!Step, Thread!Run
  <2> QED
    BY <2>2, <2>3
<1>3. ASSUME NEW s \in Sender, Lock(s) \/ Reacquire(s) \/ Write(s)
      PROVE  [Thread!Next]_(Thread!vars)
  <2>1. UNCHANGED <<dataToSend, shouldTerminate>>
    BY <1>3 DEF Lock, Reacquire, Write
  <2>2. \/ pc[s] = "lock" /\ pc' = [pc EXCEPT ![s] = "test"]
        \/ pc[s] = "woken" /\ pc' = [pc EXCEPT ![s] = "recheck"]
        \/ pc[s] = "write" /\ pc' = [pc EXCEPT ![s] = "clear"]
    BY <1>3 DEF Lock, Reacquire, Write
  <2> QED
    BY <2>1, <2>2, Hidden DEF WorkerAt, Place, HasText
<1>4. ASSUME NEW s \in Sender, Wait(s) PROVE [Thread!Next]_(Thread!vars)
  <2>1. pc[s] = "test" /\ pc' = [pc EXCEPT ![s] = "wait"] /\ dataToSend[s] = Empty
          /\ UNCHANGED <<dataToSend, shouldTerminate>>
    BY <1>4 DEF Wait
  <2>2. WorkerAt' = [WorkerAt EXCEPT ![s] = "waiting"] /\ WorkerAt[s] = "checked"
          /\ HasText' = HasText /\ ~HasText[s]
    BY <2>1 DEF WorkerAt, Place, HasText
  <2>3. Thread!Wait(s)
    BY <2>1, <2>2 DEF Thread!Wait, Thread!Goto
  <2> QED
    BY <2>3 DEF Thread!Next, Thread!Step, Thread!Run
<1>5. ASSUME NEW s \in Sender, HasData(s) PROVE [Thread!Next]_(Thread!vars)
  <2>1. pc[s] = "test" /\ pc' = [pc EXCEPT ![s] = "send"] /\ dataToSend[s] # Empty
          /\ UNCHANGED <<dataToSend, shouldTerminate>>
    BY <1>5 DEF HasData
  <2>2. WorkerAt' = [WorkerAt EXCEPT ![s] = "loop"] /\ WorkerAt[s] = "checked"
    BY <2>1 DEF WorkerAt, Place
  <2>3. HasText' = [HasText EXCEPT ![s] = FALSE] /\ HasText[s]
    BY <2>1 DEF HasText
  <2>4. Thread!Send(s)
    BY <2>1, <2>2, <2>3 DEF Thread!Send, Thread!Goto
  <2> QED
    BY <2>4 DEF Thread!Next, Thread!Step, Thread!Run
<1>6. ASSUME NEW s \in Sender, SpuriousWakeup(s) PROVE [Thread!Next]_(Thread!vars)
  <2>1. pc[s] = "wait" /\ pc' = [pc EXCEPT ![s] = "woken"]
          /\ UNCHANGED <<dataToSend, shouldTerminate>>
    BY <1>6 DEF SpuriousWakeup
  <2>2. WorkerAt' = [WorkerAt EXCEPT ![s] = "woken"] /\ WorkerAt[s] = "waiting"
          /\ HasText' = HasText
    BY <2>1 DEF WorkerAt, Place, HasText
  <2>3. Thread!SpuriousWakeup(s)
    BY <2>1, <2>2 DEF Thread!SpuriousWakeup, Thread!Goto
  <2> QED
    BY <2>3 DEF Thread!Next, Thread!Step
<1>7. ASSUME NEW s \in Sender, Recheck(s) PROVE [Thread!Next]_(Thread!vars)
  <2>1. pc[s] = "recheck" /\ WorkerAt[s] = "woken" /\ UNCHANGED <<dataToSend, shouldTerminate>>
    BY <1>7 DEF Recheck, WorkerAt, Place
  <2>2. CASE shouldTerminate[s]
    <3>1. pc' = [pc EXCEPT ![s] = "send"]
      BY <1>7, <2>2 DEF Recheck
    <3>2. WorkerAt' = [WorkerAt EXCEPT ![s] = "loop"]
      BY <2>1, <3>1 DEF WorkerAt, Place
    <3>3. HasText' = [HasText EXCEPT ![s] = FALSE]
      BY <2>1, <3>1 DEF HasText
    <3>4. (HasText[s] /\ ~shouldTerminate[s]) = FALSE
      BY <2>2
    <3>5. Thread!WakeUp(s)
      BY <2>1, <2>2, <3>2, <3>3, <3>4 DEF Thread!WakeUp, Thread!Goto
    <3> QED
      BY <3>5 DEF Thread!Next, Thread!Step, Thread!Run
  <2>3. CASE ~shouldTerminate[s]
    <3>1. pc' = [pc EXCEPT ![s] = "test"]
      BY <1>7, <2>3 DEF Recheck
    <3>2. WorkerAt' = [WorkerAt EXCEPT ![s] = "checked"]
      BY <2>1, <3>1 DEF WorkerAt, Place
    <3>3. HasText' = HasText /\ HasText[s] = (HasText[s] /\ ~shouldTerminate[s])
      BY <2>1, <2>3, <3>1 DEF HasText
    <3>4. HasText' = [HasText EXCEPT ![s] = HasText[s] /\ ~shouldTerminate[s]]
      BY <3>3 DEF HasText
    <3>5. Thread!WakeUp(s)
      BY <2>1, <2>3, <3>2, <3>4 DEF Thread!WakeUp, Thread!Goto
    <3> QED
      BY <3>5 DEF Thread!Next, Thread!Step, Thread!Run
  <2> QED
    BY <2>2, <2>3
<1>8. ASSUME NEW s \in Sender, BeginSend(s) PROVE [Thread!Next]_(Thread!vars)
  <2>1. PICK h \in UdpConnect :
          /\ Connect(s, h)
          /\ Goto(s, "send", IF h = "none" THEN "loop" ELSE "write")
    BY <1>8 DEF BeginSend
  <2>2. h = handle[s] /\ h # "none"
    BY <2>1 DEF Connect, LinkInv
  <2>3. pc[s] = "send" /\ pc' = [pc EXCEPT ![s] = "write"] /\ UNCHANGED <<dataToSend, shouldTerminate>>
    BY <1>8, <2>1, <2>2 DEF BeginSend
  <2> QED
    BY <2>3, Hidden DEF WorkerAt, Place, HasText
<1>9. ASSUME NEW s \in Sender, Clear(s) PROVE [Thread!Next]_(Thread!vars)
  <2>1. pc[s] = "clear" /\ pc' = [pc EXCEPT ![s] = "loop"] /\ UNCHANGED shouldTerminate
          /\ dataToSend' = [dataToSend EXCEPT ![s] = Empty]
    BY <1>9 DEF Clear
  <2>2. WorkerAt' = WorkerAt /\ HasText' = HasText
    BY <2>1 DEF WorkerAt, Place, HasText
  <2> QED
    BY <2>1, <2>2, Hidden
<1>10. ASSUME NEW s \in Sender, Exit(s) PROVE [Thread!Next]_(Thread!vars)
  <2>1. pc[s] = "exit" /\ pc' = [pc EXCEPT ![s] = "done"] /\ shouldTerminate[s]
          /\ UNCHANGED <<dataToSend, shouldTerminate>>
    BY <1>10 DEF Exit, StopInv
  <2>2. WorkerAt' = [WorkerAt EXCEPT ![s] = "done"] /\ WorkerAt[s] = "loop"
          /\ HasText' = HasText
    BY <2>1 DEF WorkerAt, Place, HasText
  <2>3. Thread!CheckFlag(s)
    BY <2>1, <2>2 DEF Thread!CheckFlag, Thread!Goto
  <2> QED
    BY <2>3 DEF Thread!Next, Thread!Step, Thread!Run
<1>11. ASSUME NEW s \in Sender, SendDataLock(s) \/ Join(s) \/ \E d \in Data : CallSendData(s, d)
       PROVE  [Thread!Next]_(Thread!vars)
  <2>1. UNCHANGED <<pc, dataToSend, shouldTerminate>>
    BY <1>11 DEF SendDataLock, Join, CallSendData
  <2> QED
    BY <2>1, Hidden DEF WorkerAt, Place, HasText
<1>12. ASSUME NEW s \in Sender, SendDataPost(s) PROVE [Thread!Next]_(Thread!vars)
  <2>1. /\ pc' = [pc EXCEPT ![s] = IF pc[s] = "wait" THEN "woken" ELSE pc[s]]
        /\ dataToSend' = [dataToSend EXCEPT ![s] = caller[s]] /\ UNCHANGED shouldTerminate
    BY <1>12 DEF SendDataPost, NotifyOne
  <2>2. caller[s] # Empty /\ pc[s] \notin Locked
    BY <1>12, DistinctAssumption DEF SendDataPost, LockInv
  <2>3. WorkerAt' = [WorkerAt EXCEPT ![s] = IF WorkerAt[s] = "waiting" THEN "woken" ELSE WorkerAt[s]]
    BY <2>1 DEF WorkerAt, Place, WorkerPc, Locked
  <2>4. HasText' = [HasText EXCEPT ![s] = TRUE]
    BY <2>1, <2>2 DEF HasText, Locked
  <2>5. Thread!Post(s)
    BY <2>1, <2>3, <2>4 DEF Thread!Post, Thread!Woken
  <2> QED
    BY <2>5 DEF Thread!Next, Thread!Step
<1>13. ASSUME NEW s \in Sender, TerminateFlag(s) PROVE [Thread!Next]_(Thread!vars)
  <2>1. shouldTerminate' = [shouldTerminate EXCEPT ![s] = TRUE] /\ UNCHANGED <<pc, dataToSend>>
    BY <1>13 DEF TerminateFlag
  <2>2. Thread!Flag(s)
    BY <2>1 DEF Thread!Flag, WorkerAt, Place, HasText
  <2> QED
    BY <2>2 DEF Thread!Next, Thread!Step
<1>14. ASSUME NEW s \in Sender, TerminateNotify(s) PROVE [Thread!Next]_(Thread!vars)
  <2>1. /\ pc' = [pc EXCEPT ![s] = IF pc[s] = "wait" THEN "woken" ELSE pc[s]]
        /\ UNCHANGED <<dataToSend, shouldTerminate>>
    BY <1>14 DEF TerminateNotify, NotifyOne
  <2>2. WorkerAt' = [WorkerAt EXCEPT ![s] = IF WorkerAt[s] = "waiting" THEN "woken" ELSE WorkerAt[s]]
    BY <2>1 DEF WorkerAt, Place, WorkerPc, Locked
  <2>3. HasText' = HasText
    BY <2>1 DEF HasText
  <2>4. Thread!Notify(s)
    BY <2>1, <2>2, <2>3 DEF Thread!Notify, Thread!Woken
  <2> QED
    BY <2>4 DEF Thread!Next, Thread!Step
<1>15. CASE Unregister \/ UNCHANGED vars
  <2>1. UNCHANGED <<pc, dataToSend, shouldTerminate>>
    BY <1>15 DEF Unregister, vars
  <2> QED
    BY <2>1, Hidden DEF WorkerAt, Place, HasText
<1> QED
  BY <1>1, <1>2, <1>3, <1>4, <1>5, <1>6, <1>7, <1>8, <1>9, <1>10, <1>11, <1>12, <1>13, <1>14, <1>15
  DEF Next, WorkerStep, CallerStep, StopStep

(* A push service is the worker that Plugin is built from: nothing that    *)
(* another thread does while the mutex is held shows outside.              *)
THEOREM ImplementsWorker == Spec => WorkerSpec
BY InitWorker, NextWorker, Inductive, PTL DEF Spec, WorkerSpec, Thread!Spec
=============================================================================
