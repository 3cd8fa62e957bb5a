----------------------------- MODULE PluginProofs -----------------------------
(***************************************************************************)
(* Proofs about Plugin: whatever the number of streams and of reloads, no  *)
(* worker outlives its sender or the plugin, and no two workers of one     *)
(* entry meet at its port.                                                 *)
(***************************************************************************)
EXTENDS Plugin, TLAPS

(* The two threads are never in init() or stopAllStreams() together: the   *)
(* flight loop's is there only while the web server has no thread, or has  *)
(* one no more.                                                            *)
Exclusive ==
  pc["flight"] \in {"off", "stopped"} \cup InitPc => pc["web"] \in {"none", "done"}

(* The vector holds one stream of each entry in their order, and init()    *)
(* knows how many it has made.                                             *)
VectorInv ==
  /\ \A i \in 1 .. Len(streams) : streams[i][2] = i
  /\ \A t \in Thread :
       /\ pc[t] \in InitPc => inits > 0
       /\ pc[t] = "create" => Len(streams) = at[t] - 1
       /\ pc[t] = "notify" => at[t] <= Len(streams)
  /\ pc["flight"] # "off" => inits > 0
  /\ pc["flight"] = "stopped" => streams = <<>>

(* update() is at a stream that was there when its loop began, and in a    *)
(* call of its sender.                                                     *)
LoopInv == pc["flight"] = "call" => at["flight"] <= last /\ target \in Sender

(* Behind the index of a joining thread all workers have ended and have    *)
(* been joined.                                                            *)
JoinInv ==
  /\ \A t \in Thread :
       pc[t] = "join" =>
         \A i \in 1 .. Len(streams) :
           i < at[t] => worker[streams[i]] = "done" /\ streams[i] \in joined
  /\ freed \subseteq joined

(* A worker that runs belongs to a stream of the vector. *)
Owned ==
  \A o \in Sender :
    worker[o] \notin {"none", "done"} => \E i \in 1 .. Len(streams) : streams[i] = o

IInv == TypeOK /\ Exclusive /\ VectorInv /\ LoopInv /\ JoinInv /\ Owned

-----------------------------------------------------------------------------

LEMMA InitIInv == Init => IInv
<1> SUFFICES ASSUME Init PROVE IInv
  OBVIOUS
<1>1. pc["flight"] = "off" /\ pc["web"] = "none" /\ \A t \in Thread : pc[t] \notin InitPc
  BY DEF Init, Thread, InitPc
<1>2. Len(streams) = 0 /\ streams = <<>> /\ streams \in Seq(Sender)
  BY DEF Init
<1>3. TypeOK
  <2>1. /\ stopping \in BOOLEAN /\ registered \in BOOLEAN /\ running \in BOOLEAN
        /\ term \in [Sender -> BOOLEAN] /\ full \in [Sender -> BOOLEAN]
    BY Zenon DEF Init
  <2>2. /\ pc \in [Thread -> FlightPc \cup WebPc]
        /\ worker \in [Sender -> W!WorkerPc]
    BY DEF Init, Thread, FlightPc, WebPc, InitPc, W!WorkerPc
  <2>3. /\ at \in [Thread -> 1 .. N + 1] /\ last \in 0 .. N /\ inits \in 0 .. MaxInits
        /\ target \in Sender \cup {None} /\ Len(streams) <= N
        /\ freed \subseteq Sender /\ joined \subseteq Sender
    BY BoundAssumption, <1>2 DEF Init
  <2> QED
    BY <1>1, <1>2, <2>1, <2>2, <2>3 DEF TypeOK, FlightPc, WebPc
<1>4. VectorInv /\ LoopInv /\ JoinInv
  BY <1>1, <1>2 DEF Init, VectorInv, LoopInv, JoinInv, InitPc
<1>5. Exclusive /\ Owned
  BY <1>1 DEF Init, Exclusive, Owned
<1> QED
  BY <1>3, <1>4, <1>5 DEF IInv

(* A notification moves a waiting worker, and nobody else. *)
LEMMA WokenKeeps ==
  ASSUME worker \in [Sender -> W!WorkerPc], NEW o \in Sender, worker' = W!Woken(o)
  PROVE  /\ worker' \in [Sender -> W!WorkerPc]
         /\ \A p \in Sender :
              worker'[p] = worker[p] \/ (worker[p] = "waiting" /\ worker'[p] = "woken")
BY DEF W!Woken, W!WorkerPc, W!InLoop

(* A worker that moves has been started and has not ended, and nothing of  *)
(* another worker changes.                                                 *)
LEMMA WorkerMoves ==
  ASSUME worker \in [Sender -> W!WorkerPc], term \in [Sender -> BOOLEAN],
         full \in [Sender -> BOOLEAN], NEW o \in Sender, W!Run(o) \/ W!SpuriousWakeup(o)
  PROVE  /\ term' = term /\ full' \in [Sender -> BOOLEAN]
         /\ worker[o] \notin {"none", "done"}
         /\ \E to \in W!WorkerPc \ {"none"} : worker' = [worker EXCEPT ![o] = to]
<1> USE DEF W!Goto, W!WorkerPc, W!InLoop
<1>1. CASE W!Connect(o)
  BY <1>1 DEF W!Connect
<1>2. CASE W!CheckFlag(o)
  BY <1>2 DEF W!CheckFlag
<1>3. CASE W!Send(o)
  BY <1>3 DEF W!Send
<1>4. CASE W!Wait(o)
  BY <1>4 DEF W!Wait
<1>5. CASE W!WakeUp(o)
  <2>1. full' \in [Sender -> BOOLEAN]
    BY <1>5, Zenon DEF W!WakeUp
  <2> QED
    BY <1>5, <2>1 DEF W!WakeUp
<1>6. CASE W!SpuriousWakeup(o)
  BY <1>6 DEF W!SpuriousWakeup
<1> QED
  BY <1>1, <1>2, <1>3, <1>4, <1>5, <1>6 DEF W!Run

LEMMA NextIInv == IInv /\ [Next]_vars => IInv'
<1> SUFFICES ASSUME IInv, [Next]_vars PROVE IInv'
  OBVIOUS
<1> USE BoundAssumption DEF IInv, TypeOK, Exclusive, VectorInv, LoopInv, JoinInv, Owned, Thread,
     InitPc, FlightPc, WebPc, W!WorkerPc, W!InLoop, vector, workers, flags, Goto, Step
<1>1. ASSUME Start PROVE IInv'
  BY <1>1 DEF Start, BeginInit
<1>2. ASSUME Register PROVE IInv'
  BY <1>2 DEF Register
<1>3. ASSUME BeginUpdate PROVE IInv'
  BY <1>3 DEF BeginUpdate
<1>4. ASSUME NotDue PROVE IInv'
  BY <1>4 DEF NotDue
<1>5. ASSUME CallSendData PROVE IInv'
  BY <1>5 DEF CallSendData
<1>6. ASSUME SendData PROVE IInv'
  <2>1. /\ pc["flight"] = "call" /\ target \in Sender
        /\ pc' = [pc EXCEPT !["flight"] = "loop"]
        /\ at' = [at EXCEPT !["flight"] = @ + 1]
        /\ worker' = W!Woken(target)
        /\ full' = [full EXCEPT ![target] = TRUE]
        /\ target' = None
        /\ UNCHANGED <<last, flags, inits, vector, term>>
    BY <1>6 DEF SendData, W!Post
  <2>2. full' \in [Sender -> BOOLEAN]
    BY <2>1
  <2>3. /\ worker' \in [Sender -> W!WorkerPc]
        /\ \A p \in Sender : worker'[p] = worker[p] \/ (worker[p] = "waiting" /\ worker'[p] = "woken")
    BY <2>1, WokenKeeps
  <2>4. TypeOK'
    BY <2>1, <2>2, <2>3
  <2>5. Exclusive' /\ VectorInv' /\ LoopInv'
    BY <2>1
  <2>6. JoinInv'
    BY <2>1, <2>3
  <2>7. Owned'
    BY <2>1, <2>3
  <2> QED
    BY <2>4, <2>5, <2>6, <2>7
<1>7. ASSUME UseAfterFree PROVE IInv'
  BY <1>7 DEF UseAfterFree
<1>8. ASSUME EndUpdate PROVE IInv'
  BY <1>8 DEF EndUpdate
<1>9. ASSUME Stop PROVE IInv'
  <2>1. TypeOK'
    <3>1. /\ stopping' = TRUE /\ registered' = FALSE /\ at' = [at EXCEPT !["flight"] = 1]
          /\ UNCHANGED <<last, target, running, inits, vector, workers>>
      BY <1>9 DEF Stop
    <3>2. \E to \in {"terminate", "stopWeb"} : pc' = [pc EXCEPT !["flight"] = to]
      BY <1>9 DEF Stop
    <3>3. stopping' \in BOOLEAN /\ registered' \in BOOLEAN
      BY <3>1, Zenon
    <3> QED
      BY <3>1, <3>2, <3>3
  <2>2. Exclusive'
    BY <1>9 DEF Stop
  <2>3. VectorInv'
    BY <1>9 DEF Stop
  <2>4. LoopInv'
    BY <1>9 DEF Stop
  <2>5. JoinInv'
    BY <1>9 DEF Stop
  <2>6. Owned'
    BY <1>9 DEF Stop
  <2> QED
    BY <2>1, <2>2, <2>3, <2>4, <2>5, <2>6
<1>10. ASSUME StopWeb PROVE IInv'
  <2>1. TypeOK'
    <3>1. running' = FALSE
      BY <1>10 DEF StopWeb
    <3>2. running' \in BOOLEAN
      BY <3>1, Zenon
    <3> QED
      BY <1>10, <3>2 DEF StopWeb
  <2>2. Exclusive'
    BY <1>10 DEF StopWeb
  <2>3. VectorInv'
    BY <1>10 DEF StopWeb
  <2>4. LoopInv'
    BY <1>10 DEF StopWeb
  <2>5. JoinInv'
    BY <1>10 DEF StopWeb
  <2>6. Owned'
    BY <1>10 DEF StopWeb
  <2> QED
    BY <2>1, <2>2, <2>3, <2>4, <2>5, <2>6
<1>11. ASSUME JoinWeb PROVE IInv'
  BY <1>11 DEF JoinWeb
<1>12. ASSUME Serve PROVE IInv'
  BY <1>12 DEF Serve
<1>13. ASSUME Poll PROVE IInv'
  BY <1>13 DEF Poll
<1>14. ASSUME Reload PROVE IInv'
  BY <1>14 DEF Reload, BeginInit
<1>15. ASSUME EndReload PROVE IInv'
  BY <1>15 DEF EndReload
<1>16. ASSUME EndPoll \/ Block \/ Unblock PROVE IInv'
  BY <1>16 DEF EndPoll, Block, Unblock
<1>17. ASSUME NEW t \in Thread, Terminate(t) \/ Notify(t) PROVE IInv'
  <2>1. CASE Terminate(t)
    <3>1. /\ pc[t] = "terminate" /\ at[t] <= Len(streams) /\ streams[at[t]] \in Sender
          /\ pc' = [pc EXCEPT ![t] = "notify"]
          /\ term' = [term EXCEPT ![streams[at[t]]] = TRUE]
          /\ UNCHANGED <<at, last, target, flags, inits, vector, worker, full>>
      BY <2>1 DEF Terminate, W!Flag
    <3>2. term' \in [Sender -> BOOLEAN]
      BY <3>1
    <3> QED
      BY <3>1, <3>2
  <2>2. CASE Notify(t)
    <3>1. /\ pc[t] = "notify" /\ at[t] <= Len(streams) /\ streams[at[t]] \in Sender
          /\ pc' = [pc EXCEPT ![t] = "terminate"]
          /\ at' = [at EXCEPT ![t] = @ + 1]
          /\ worker' = W!Woken(streams[at[t]])
          /\ UNCHANGED <<last, target, flags, inits, vector, term, full>>
      BY <2>2 DEF Notify, W!Notify
    <3>2. /\ worker' \in [Sender -> W!WorkerPc]
          /\ \A p \in Sender : worker'[p] = worker[p] \/ (worker[p] = "waiting" /\ worker'[p] = "woken")
      BY <3>1, WokenKeeps
    <3>3. pc' \in [Thread -> FlightPc \cup WebPc] /\ at' \in [Thread -> 1 .. N + 1]
      BY <3>1
    <3>4. TypeOK'
      BY <3>1, <3>2, <3>3
    <3>5. Exclusive' /\ VectorInv' /\ LoopInv' /\ JoinInv'
      BY <3>1, <3>2, <3>3
    <3>6. Owned'
      BY <3>1, <3>2
    <3> QED
      BY <3>4, <3>5, <3>6
  <2> QED
    BY <1>17, <2>1, <2>2
<1>18. ASSUME NEW t \in Thread, EndTerminate(t) PROVE IInv'
  BY <1>18 DEF EndTerminate
<1>19. ASSUME NEW t \in Thread, Join(t) PROVE IInv'
  BY <1>19 DEF Join
<1>20. ASSUME NEW t \in Thread, Clear(t) PROVE IInv'
  <2>1. /\ pc[t] = "join" /\ at[t] > Len(streams)
        /\ pc' = [pc EXCEPT ![t] = IF stopping /\ t = "flight" THEN "stopped" ELSE "create"]
        /\ at' = [at EXCEPT ![t] = 1]
        /\ freed' = freed \cup {streams[i] : i \in DOMAIN streams}
        /\ streams' = <<>>
        /\ UNCHANGED <<last, target, flags, inits, joined, workers>>
    BY <1>20 DEF Clear
  <2>2. \A i \in 1 .. Len(streams) :
          streams[i] \in joined /\ streams[i] \in Sender /\ worker[streams[i]] = "done"
    BY <2>1
  <2>3. freed' \subseteq joined /\ freed' \subseteq Sender
    BY <2>1, <2>2
  <2>4. Len(streams') = 0 /\ streams' \in Seq(Sender)
    BY <2>1
  <2>5. TypeOK'
    BY <2>1, <2>3, <2>4
  <2>6. Exclusive' /\ LoopInv'
    BY <2>1
  <2>7. VectorInv' /\ JoinInv'
    BY <2>1, <2>3, <2>4
  <2>8. Owned'
    BY <2>1, <2>2
  <2> QED
    BY <2>5, <2>6, <2>7, <2>8
<1>21. ASSUME NEW t \in Thread, Create(t) PROVE IInv'
  <2> DEFINE o == <<inits, at[t]>>
  <2>1. /\ pc[t] = "create" /\ at[t] <= N
        /\ at' = [at EXCEPT ![t] = @ + 1]
        /\ streams' = Append(streams, o)
        /\ worker' = [worker EXCEPT ![o] = "new"]
        /\ UNCHANGED <<pc, last, target, flags, inits, freed, joined, term, full>>
    BY <1>21 DEF Create
  <2>2. o \in Sender /\ o[2] = at[t]
    BY <2>1 DEF Sender, Entry
  <2>3. Len(streams) = at[t] - 1 /\ Len(streams) \in Nat
    BY <2>1
  <2>4. /\ streams' \in Seq(Sender) /\ Len(streams') = Len(streams) + 1
        /\ \A i \in 1 .. Len(streams) : streams'[i] = streams[i]
        /\ streams'[Len(streams) + 1] = o
    BY <2>1, <2>2
  <2>5. \A u \in Thread : u # t => pc[u] \notin InitPc
    BY <2>1
  <2>6. TypeOK'
    BY <2>1, <2>2, <2>3, <2>4
  <2>7. VectorInv'
    <3>1. \A i \in 1 .. Len(streams') : streams'[i][2] = i
      <4> SUFFICES ASSUME NEW i \in 1 .. Len(streams') PROVE streams'[i][2] = i
        OBVIOUS
      <4>1. CASE i \in 1 .. Len(streams)
        <5>1. streams'[i] = streams[i]
          BY <2>4, <4>1
        <5>2. streams[i][2] = i
          BY <4>1
        <5> QED
          BY <5>1, <5>2
      <4>2. CASE i = Len(streams) + 1
        BY <2>2, <2>3, <2>4, <4>2
      <4> QED
        BY <2>3, <2>4, <4>1, <4>2
    <3>2. pc' = pc /\ inits' = inits /\ pc[t] \in InitPc /\ inits > 0
      BY <2>1
    <3>3. \A u \in Thread : pc'[u] = "create" => u = t
      BY <3>2, <2>5
    <3>6. \A u \in Thread : pc'[u] # "notify"
      BY <3>2, <2>1, <2>5
    <3>4. Len(streams') = at'[t] - 1
      BY <2>1, <2>3, <2>4
    <3>5. pc["flight"] # "stopped"
      BY <3>2, <2>1
    <3> QED
      BY <3>1, <3>2, <3>3, <3>4, <3>5, <3>6
  <2>8. JoinInv'
    BY <2>1, <2>5
  <2>9. Owned'
    BY <2>1, <2>2, <2>3, <2>4
  <2>10. Exclusive' /\ LoopInv'
    BY <2>1, <2>5
  <2> QED
    BY <2>6, <2>7, <2>8, <2>9, <2>10
<1>22. ASSUME NEW o \in Sender, Run(o) \/ SpuriousWakeup(o) PROVE IInv'
  <2>1. UNCHANGED <<pc, at, last, target, flags, inits, vector>>
    BY <1>22 DEF Run, SpuriousWakeup
  <2>2. /\ term' = term /\ full' \in [Sender -> BOOLEAN]
        /\ worker[o] \notin {"none", "done"}
        /\ \E to \in W!WorkerPc : worker' = [worker EXCEPT ![o] = to]
    BY <1>22, WorkerMoves DEF Run, SpuriousWakeup
  <2>3. TypeOK'
    BY <2>1, <2>2
  <2>4. Exclusive' /\ VectorInv' /\ LoopInv'
    BY <2>1
  <2>5. JoinInv'
    BY <2>1, <2>2
  <2>6. Owned'
    BY <2>1, <2>2
  <2> QED
    BY <2>3, <2>4, <2>5, <2>6
<1>23. CASE UNCHANGED vars
  BY <1>23 DEF vars
<1> QED
  BY <1>1, <1>2, <1>3, <1>4, <1>5, <1>6, <1>7, <1>8, <1>9, <1>10, <1>11, <1>12, <1>13, <1>14,
     <1>15, <1>16, <1>17, <1>18, <1>19, <1>20, <1>21, <1>22, <1>23
  DEF Next, FlightStep, WebStep, InitStep

-----------------------------------------------------------------------------

LEMMA InvariantHolds == Spec => []IInv
<1>1. Init => IInv
  BY InitIInv
<1>2. IInv /\ [Next]_vars => IInv'
  BY NextIInv
<1> QED
  BY <1>1, <1>2, PTL DEF Spec

(* The variables keep their types, for any number of streams and reloads.  *)
THEOREM TypeCorrect == Spec => []TypeOK
<1>1. IInv => TypeOK
  BY DEF IInv
<1> QED
  BY <1>1, InvariantHolds, PTL

(* No worker runs on a sender that streams.clear() has destroyed: both     *)
(* callers of stopAllStreams join every thread of the vector first.        *)
THEOREM NoWorkerOrphaned == Spec => []WorkersOwned
<1>1. IInv => WorkersOwned
  BY DEF IInv, TypeOK, Owned, WorkersOwned
<1> QED
  BY <1>1, InvariantHolds, PTL

(* A worker made by a reload finds its port closed: the vector holds one   *)
(* stream of an entry at a time, and every running worker is in it.        *)
THEOREM PortIsFree == Spec => []PortFree
<1>1. IInv => PortFree
  <2> SUFFICES ASSUME IInv, NEW o \in Sender, NEW p \in Sender,
                      worker[o] = "new", p[2] = o[2], worker[p] \in W!InLoop
               PROVE FALSE
    BY DEF PortFree
  <2>1. PICK i \in 1 .. Len(streams) : streams[i] = o
    BY DEF IInv, Owned
  <2>2. PICK j \in 1 .. Len(streams) : streams[j] = p
    BY DEF IInv, Owned, W!InLoop
  <2>3. i = j
    BY <2>1, <2>2 DEF IInv, VectorInv
  <2> QED
    BY <2>1, <2>2, <2>3 DEF W!InLoop
<1> QED
  BY <1>1, InvariantHolds, PTL

(* After XPluginStop no thread of the plugin is left.                      *)
THEOREM StopIsClean == Spec => []NothingSurvivesStop
<1>1. IInv => NothingSurvivesStop
  BY DEF IInv, Exclusive, VectorInv, Owned, NothingSurvivesStop
<1> QED
  BY <1>1, InvariantHolds, PTL

-----------------------------------------------------------------------------
(* Senders are never used again *)

(* Thread t is in stopAllStreams() as XPluginStop calls it, not init(). *)
LastStop(t) == stopping /\ t = "flight"

(* The streams are those of one call of init(), and a sender that init()   *)
(* has yet to make has no thread: not while the streams before it are      *)
(* stopped, and not while those of the entries before it are made.  The    *)
(* flight loop's thread calls init() before there is a web server, and     *)
(* stopAllStreams() once more in XPluginStop only.                         *)
FreshInv ==
  /\ \A o \in Sender : worker[o] # "none" => o[1] <= inits
  /\ \A t \in Thread :
       pc[t] \in {"terminate", "notify", "join"} /\ ~LastStop(t) =>
         \A o \in Sender : worker[o] # "none" => o[1] < inits
  /\ \A t \in Thread :
       pc[t] = "create" =>
         /\ ~LastStop(t)
         /\ \A o \in Sender : worker[o] # "none" => o[1] < inits \/ o[2] < at[t]
  /\ pc["flight"] \in {"off", "idle", "loop", "call", "crashed"} => ~stopping
  /\ pc["flight"] \in {"stopWeb", "joinWeb"} => stopping
  /\ pc["flight"] \in {"off"} \cup InitPc /\ ~stopping => pc["web"] = "none"

(* Until the first reload the flight loop's thread has made all streams,   *)
(* and none has been destroyed.                                            *)
FirstInv ==
  /\ pc["web"] \in InitPc => inits > 1
  /\ pc["flight"] = "off" => inits = 0
  /\ inits <= 1 =>
       /\ pc["flight"] # "crashed"
       /\ pc["flight"] # "stopped" => freed = {}
       /\ pc["flight"] \in {"off", "terminate", "notify", "join"} /\ ~stopping => streams = <<>>
       /\ pc["flight"] \in {"loop", "call"} => last = Len(streams)

LEMMA InitMore == Init => FreshInv /\ FirstInv
<1> SUFFICES ASSUME Init PROVE FreshInv /\ FirstInv
  OBVIOUS
<1>1. pc["flight"] = "off" /\ pc["web"] = "none" /\ \A t \in Thread : pc[t] \notin InitPc
  BY DEF Init, Thread, InitPc
<1>2. stopping = FALSE /\ inits = 0 /\ streams = <<>> /\ freed = {}
  BY DEF Init
<1>3. \A o \in Sender : worker[o] = "none"
  BY DEF Init
<1> QED
  BY <1>1, <1>2, <1>3 DEF FreshInv, FirstInv, InitPc

(* What a step of a worker does to the other variables. *)
LEMMA WorkerQuiet ==
  ASSUME TypeOK, NEW o \in Sender, Run(o) \/ SpuriousWakeup(o)
  PROVE  /\ UNCHANGED <<pc, at, last, target, flags, inits, vector>>
         /\ \A p \in Sender : worker'[p] # "none" <=> worker[p] # "none"
<1>1. UNCHANGED <<pc, at, last, target, flags, inits, vector>>
  BY DEF Run, SpuriousWakeup
<1>2. /\ worker[o] \notin {"none", "done"}
      /\ \E to \in W!WorkerPc \ {"none"} : worker' = [worker EXCEPT ![o] = to]
  BY WorkerMoves DEF Run, SpuriousWakeup, TypeOK
<1>3. \A p \in Sender : worker'[p] # "none" <=> worker[p] # "none"
  BY <1>2 DEF TypeOK
<1> QED
  BY <1>1, <1>3

LEMMA NextFresh == IInv /\ FreshInv /\ [Next]_vars => FreshInv'
<1> SUFFICES ASSUME IInv, FreshInv, [Next]_vars PROVE FreshInv'
  OBVIOUS
<1> USE BoundAssumption DEF IInv, TypeOK, FreshInv, LastStop, Exclusive, VectorInv, LoopInv, Thread,
     InitPc, FlightPc, WebPc, vector, workers, flags, Goto, Step
<1>0. \A o \in Sender : o[1] \in Nat
  BY DEF Sender
<1>1. CASE Start
  <2>1. /\ pc["flight"] = "off" /\ pc' = [pc EXCEPT !["flight"] = "terminate"]
        /\ inits' = inits + 1 /\ UNCHANGED <<flags, worker>>
    BY <1>1 DEF Start, BeginInit
  <2>2. \A o \in Sender : worker[o] # "none" => o[1] < inits'
    BY <1>0, <2>1
  <2> QED
    BY <1>0, <2>1, <2>2
<1>2. CASE Register
  BY <1>2 DEF Register
<1>3. CASE BeginUpdate
  BY <1>3 DEF BeginUpdate
<1>4. CASE NotDue \/ CallSendData \/ UseAfterFree \/ EndUpdate
  BY <1>4 DEF NotDue, CallSendData, UseAfterFree, EndUpdate
<1>5. CASE SendData
  <2>1. /\ pc["flight"] = "call" /\ target \in Sender
        /\ pc' = [pc EXCEPT !["flight"] = "loop"]
        /\ at' = [at EXCEPT !["flight"] = @ + 1]
        /\ worker' = W!Woken(target)
        /\ UNCHANGED <<last, flags, inits, vector, term>>
    BY <1>5 DEF SendData, W!Post
  <2>2. \A p \in Sender : worker'[p] # "none" <=> worker[p] # "none"
    BY <2>1, WokenKeeps
  <2> QED
    BY <2>1, <2>2
<1>6. CASE Stop \/ StopWeb \/ JoinWeb
  <2>1. /\ UNCHANGED <<inits, worker>> /\ at' = [at EXCEPT !["flight"] = 1]
        /\ \E to \in {"terminate", "stopWeb", "joinWeb"} : pc' = [pc EXCEPT !["flight"] = to]
    BY <1>6 DEF Stop, StopWeb, JoinWeb
  <2>2. stopping'
    BY <1>6 DEF Stop, StopWeb, JoinWeb
  <2> QED
    BY <2>1, <2>2
<1>7. CASE Serve \/ Poll \/ EndPoll \/ Block \/ Unblock
  BY <1>7 DEF Serve, Poll, EndPoll, Block, Unblock
<1>8. CASE Reload
  <2>1. /\ pc["web"] = "polled" /\ pc' = [pc EXCEPT !["web"] = "terminate"]
        /\ inits' = inits + 1 /\ UNCHANGED <<flags, worker>>
    BY <1>8 DEF Reload, BeginInit
  <2>2. \A o \in Sender : worker[o] # "none" => o[1] < inits'
    BY <1>0, <2>1
  <2> QED
    BY <1>0, <2>1, <2>2
<1>9. CASE EndReload
  BY <1>9 DEF EndReload
<1>10. ASSUME NEW t \in Thread, Terminate(t) PROVE FreshInv'
  BY <1>10 DEF Terminate, W!Flag
<1>11. ASSUME NEW t \in Thread, Notify(t) PROVE FreshInv'
  <2>1. /\ pc[t] = "notify" /\ streams[at[t]] \in Sender
        /\ pc' = [pc EXCEPT ![t] = "terminate"]
        /\ at' = [at EXCEPT ![t] = @ + 1]
        /\ worker' = W!Woken(streams[at[t]])
        /\ UNCHANGED <<last, target, flags, inits, vector, term, full>>
    BY <1>11 DEF Notify, W!Notify
  <2>2. \A p \in Sender : worker'[p] # "none" <=> worker[p] # "none"
    BY <2>1, WokenKeeps
  <2> QED
    BY <2>1, <2>2
<1>12. ASSUME NEW t \in Thread, EndTerminate(t) \/ Join(t) PROVE FreshInv'
  BY <1>12 DEF EndTerminate, Join
<1>13. ASSUME NEW t \in Thread, Clear(t) PROVE FreshInv'
  <2>1. /\ pc[t] = "join" /\ at' = [at EXCEPT ![t] = 1]
        /\ pc' = [pc EXCEPT ![t] = IF stopping /\ t = "flight" THEN "stopped" ELSE "create"]
        /\ UNCHANGED <<flags, inits, workers>>
    BY <1>13 DEF Clear
  <2> QED
    BY <2>1
<1>14. ASSUME NEW t \in Thread, Create(t) PROVE FreshInv'
  <2> DEFINE o == <<inits, at[t]>>
  <2>1. /\ pc[t] = "create" /\ at[t] <= N
        /\ at' = [at EXCEPT ![t] = @ + 1]
        /\ worker' = [worker EXCEPT ![o] = "new"]
        /\ UNCHANGED <<pc, flags, inits>>
    BY <1>14 DEF Create
  <2>2. o \in Sender /\ o[1] = inits /\ o[2] = at[t]
    BY <2>1 DEF Sender, Entry
  <2>3. \A p \in Sender : worker'[p] # "none" => p = o \/ worker[p] # "none"
    BY <2>1, <2>2
  <2>4. \A u \in Thread : u # t => pc[u] \notin InitPc
    BY <2>1
  <2>5. \A p \in Sender : worker'[p] # "none" => p[1] <= inits /\ (p[1] < inits \/ p[2] < at'[t])
    BY <2>1, <2>2, <2>3 DEF Sender, Entry
  <2> QED
    BY <2>1, <2>4, <2>5
<1>15. ASSUME NEW o \in Sender, Run(o) \/ SpuriousWakeup(o) PROVE FreshInv'
  <2>1. /\ UNCHANGED <<pc, at, last, target, flags, inits, vector>>
        /\ \A p \in Sender : worker'[p] # "none" <=> worker[p] # "none"
    BY <1>15, WorkerQuiet
  <2> QED
    BY <2>1
<1>16. CASE UNCHANGED vars
  BY <1>16 DEF vars
<1> QED
  BY <1>1, <1>2, <1>3, <1>4, <1>5, <1>6, <1>7, <1>8, <1>9, <1>10, <1>11, <1>12, <1>13, <1>14,
     <1>15, <1>16
  DEF Next, FlightStep, WebStep, InitStep

LEMMA NextFirst == IInv /\ FreshInv /\ FirstInv /\ [Next]_vars => FirstInv'
<1> SUFFICES ASSUME IInv, FreshInv, FirstInv, [Next]_vars PROVE FirstInv'
  OBVIOUS
<1> USE BoundAssumption DEF IInv, TypeOK, FirstInv, Exclusive, VectorInv, LoopInv, Thread,
     InitPc, FlightPc, WebPc, vector, workers, flags, Goto, Step
<1>1. CASE Start
  BY <1>1 DEF Start, BeginInit, FreshInv
<1>2. CASE Register
  BY <1>2 DEF Register
<1>3. CASE BeginUpdate
  BY <1>3 DEF BeginUpdate
<1>4. CASE NotDue \/ CallSendData \/ EndUpdate
  BY <1>4 DEF NotDue, CallSendData, EndUpdate
<1>5. CASE SendData
  BY <1>5 DEF SendData
<1>6. CASE UseAfterFree
  BY <1>6 DEF UseAfterFree
<1>7. CASE Stop \/ StopWeb \/ JoinWeb
  <2>1. /\ UNCHANGED <<inits, freed, streams>>
        /\ \E to \in {"terminate", "stopWeb", "joinWeb"} : pc' = [pc EXCEPT !["flight"] = to]
        /\ pc["flight"] \in {"idle", "stopWeb", "joinWeb"}
    BY <1>7 DEF Stop, StopWeb, JoinWeb
  <2>2. stopping'
    BY <1>7 DEF Stop, StopWeb, JoinWeb, FreshInv
  <2> QED
    BY <2>1, <2>2
<1>8. CASE Serve \/ Poll \/ EndPoll \/ Block \/ Unblock \/ EndReload
  BY <1>8 DEF Serve, Poll, EndPoll, Block, Unblock, EndReload
<1>9. CASE Reload
  BY <1>9 DEF Reload, BeginInit
<1>10. ASSUME NEW t \in Thread, Terminate(t) \/ Notify(t) \/ EndTerminate(t) \/ Join(t)
       PROVE  FirstInv'
  BY <1>10 DEF Terminate, Notify, EndTerminate, Join
<1>11. ASSUME NEW t \in Thread, Clear(t) PROVE FirstInv'
  <2>1. /\ pc[t] = "join"
        /\ pc' = [pc EXCEPT ![t] = IF stopping /\ t = "flight" THEN "stopped" ELSE "create"]
        /\ freed' = freed \cup {streams[i] : i \in DOMAIN streams}
        /\ streams' = <<>>
        /\ UNCHANGED <<last, flags, inits>>
    BY <1>11 DEF Clear
  <2>2. pc["flight"] = "join" /\ ~stopping /\ inits <= 1 => freed' = freed
    BY <2>1
  <2> QED
    BY <2>1, <2>2
<1>12. ASSUME NEW t \in Thread, Create(t) PROVE FirstInv'
  <2>1. pc[t] = "create" /\ UNCHANGED <<pc, last, flags, inits, freed>>
    BY <1>12 DEF Create
  <2> QED
    BY <2>1
<1>13. ASSUME NEW o \in Sender, Run(o) \/ SpuriousWakeup(o) PROVE FirstInv'
  BY <1>13, WorkerQuiet
<1>14. CASE UNCHANGED vars
  BY <1>14 DEF vars
<1> QED
  BY <1>1, <1>2, <1>3, <1>4, <1>5, <1>6, <1>7, <1>8, <1>9, <1>10, <1>11, <1>12, <1>13, <1>14
  DEF Next, FlightStep, WebStep, InitStep

LEMMA MoreHolds == Spec => [](IInv /\ FreshInv /\ FirstInv)
<1> DEFINE All == IInv /\ FreshInv /\ FirstInv
<1>1. Init => All
  BY InitIInv, InitMore
<1>2. All /\ [Next]_vars => All'
  BY NextIInv, NextFresh, NextFirst
<1> QED
  BY <1>1, <1>2, PTL DEF Spec

(* Until the first reload the flight loop calls no destroyed sender. *)
THEOREM SendersLiveUntilReload == Spec => []AliveUntilReload
<1>1. IInv /\ FirstInv => AliveUntilReload
  BY DEF FirstInv, AliveUntilReload, SenderAlive
<1> QED
  BY <1>1, MoreHolds, PTL

(* No thread object is destroyed before its thread has been joined, in any *)
(* reload and in XPluginStop.                                              *)
THEOREM JoinedBeforeFreed == Spec => []FreedJoined
<1>1. IInv => FreedJoined
  BY DEF IInv, JoinInv, FreedJoined
<1> QED
  BY <1>1, InvariantHolds, PTL

-----------------------------------------------------------------------------
(* Workers are told to end before they are joined *)

(* The streams a stopping thread has been at have the flag, one it is at   *)
(* as well when only the notification is missing, and all of them when it  *)
(* joins.                                                                  *)
ToldInv ==
  \A t \in Thread : \A i \in 1 .. Len(streams) :
    /\ pc[t] \in {"terminate", "notify"} /\ i < at[t] => term[streams[i]]
    /\ pc[t] = "notify" /\ i = at[t] => term[streams[i]]
    /\ pc[t] = "join" => term[streams[i]]

LEMMA InitTold == Init => ToldInv
BY DEF Init, ToldInv

LEMMA NextTold == IInv /\ ToldInv /\ [Next]_vars => ToldInv'
<1> SUFFICES ASSUME IInv, ToldInv, [Next]_vars PROVE ToldInv'
  OBVIOUS
<1> USE BoundAssumption DEF IInv, TypeOK, ToldInv, Exclusive, VectorInv, LoopInv, Thread,
     InitPc, FlightPc, WebPc, vector, workers, flags, Goto, Step
<1>1. CASE Start \/ Reload
  BY <1>1 DEF Start, Reload, BeginInit
<1>2. CASE Register \/ EndReload
  BY <1>2 DEF Register, EndReload
<1>3. CASE BeginUpdate \/ NotDue \/ CallSendData \/ UseAfterFree \/ EndUpdate
  BY <1>3 DEF BeginUpdate, NotDue, CallSendData, UseAfterFree, EndUpdate
<1>4. CASE SendData
  BY <1>4 DEF SendData, W!Post
<1>5. CASE Stop \/ StopWeb \/ JoinWeb
  <2>1. /\ UNCHANGED <<streams, term>> /\ at' = [at EXCEPT !["flight"] = 1]
        /\ \E to \in {"terminate", "stopWeb", "joinWeb"} : pc' = [pc EXCEPT !["flight"] = to]
    BY <1>5 DEF Stop, StopWeb, JoinWeb
  <2> QED
    BY <2>1
<1>6. CASE Serve \/ Poll \/ EndPoll \/ Block \/ Unblock
  BY <1>6 DEF Serve, Poll, EndPoll, Block, Unblock
<1>7. ASSUME NEW t \in Thread, Terminate(t) PROVE ToldInv'
  <2>1. /\ pc[t] = "terminate" /\ pc' = [pc EXCEPT ![t] = "notify"]
        /\ term' = [term EXCEPT ![streams[at[t]]] = TRUE]
        /\ UNCHANGED <<at, streams>>
    BY <1>7 DEF Terminate, W!Flag
  <2>2. \A u \in Thread : u # t => pc[u] \notin InitPc
    BY <2>1
  <2>3. \A i \in 1 .. Len(streams) :
          /\ streams[i] \in Sender
          /\ i < at[t] => term[streams[i]]
    BY <2>1
  <2>4. \A i \in 1 .. Len(streams) : i <= at[t] => term'[streams[i]]
    BY <2>1, <2>3
  <2> QED
    BY <2>1, <2>2, <2>4
<1>8. ASSUME NEW t \in Thread, Notify(t) PROVE ToldInv'
  <2>1. /\ pc[t] = "notify" /\ pc' = [pc EXCEPT ![t] = "terminate"]
        /\ at' = [at EXCEPT ![t] = @ + 1]
        /\ UNCHANGED <<term, streams>>
    BY <1>8 DEF Notify, W!Notify
  <2> QED
    BY <2>1
<1>9. ASSUME NEW t \in Thread, EndTerminate(t) \/ Join(t) PROVE ToldInv'
  BY <1>9 DEF EndTerminate, Join
<1>10. ASSUME NEW t \in Thread, Clear(t) PROVE ToldInv'
  <2>1. Len(streams') = 0
    BY <1>10 DEF Clear
  <2> QED
    BY <2>1
<1>11. ASSUME NEW t \in Thread, Create(t) PROVE ToldInv'
  <2>1. pc[t] = "create" /\ pc' = pc
    BY <1>11 DEF Create
  <2>2. \A u \in Thread : pc[u] \notin {"terminate", "notify", "join"}
    BY <2>1
  <2> QED
    BY <2>1, <2>2
<1>12. ASSUME NEW o \in Sender, Run(o) \/ SpuriousWakeup(o) PROVE ToldInv'
  <2>1. UNCHANGED <<pc, at, streams, term>>
    BY <1>12, WorkerQuiet, WorkerMoves DEF Run, SpuriousWakeup
  <2> QED
    BY <2>1
<1>13. CASE UNCHANGED vars
  BY <1>13 DEF vars
<1> QED
  BY <1>1, <1>2, <1>3, <1>4, <1>5, <1>6, <1>7, <1>8, <1>9, <1>10, <1>11, <1>12, <1>13
  DEF Next, FlightStep, WebStep, InitStep

(* No thread waits in join() for a worker whose flag it has not set. *)
THEOREM ToldBeforeJoined == Spec => []JoinsTold
<1>1. Init => ToldInv
  BY InitTold
<1>2. IInv /\ ToldInv /\ [Next]_vars => ToldInv'
  BY NextTold
<1>3. IInv /\ ToldInv => JoinsTold
  BY DEF IInv, TypeOK, ToldInv, JoinsTold
<1> QED
  BY <1>1, <1>2, <1>3, InvariantHolds, PTL DEF Spec

-----------------------------------------------------------------------------
(* Plugin against Worker *)

LEMMA InitUses == Init => W!Init
BY DEF Init, W!Init

LEMMA NextUses == IInv /\ FreshInv /\ [Next]_vars => [W!Next]_(W!vars)
<1> SUFFICES ASSUME IInv, FreshInv, [Next]_vars PROVE [W!Next]_(W!vars)
  OBVIOUS
<1> USE DEF workers, W!vars
<1>1. CASE Start \/ Reload
  BY <1>1 DEF Start, Reload, BeginInit
<1>2. CASE Register \/ EndReload
  BY <1>2 DEF Register, EndReload
<1>3. CASE BeginUpdate \/ NotDue \/ CallSendData \/ UseAfterFree \/ EndUpdate
  BY <1>3 DEF BeginUpdate, NotDue, CallSendData, UseAfterFree, EndUpdate
<1>4. CASE SendData
  <2>1. target \in Sender /\ W!Post(target)
    BY <1>4 DEF SendData, IInv, LoopInv
  <2> QED
    BY <2>1 DEF W!Next, W!Step
<1>5. CASE Stop \/ StopWeb \/ JoinWeb
  BY <1>5 DEF Stop, StopWeb, JoinWeb
<1>6. CASE Serve \/ Poll \/ EndPoll \/ Block \/ Unblock
  BY <1>6 DEF Serve, Poll, EndPoll, Block, Unblock
<1>7. ASSUME NEW t \in Thread, Terminate(t) \/ Notify(t) PROVE [W!Next]_(W!vars)
  <2>1. at[t] \in 1 .. Len(streams)
    BY <1>7 DEF Terminate, Notify, IInv, TypeOK, VectorInv
  <2>2. streams[at[t]] \in Sender
    BY <2>1 DEF IInv, TypeOK
  <2>3. W!Flag(streams[at[t]]) \/ W!Notify(streams[at[t]])
    BY <1>7 DEF Terminate, Notify
  <2> QED
    BY <2>2, <2>3 DEF W!Next, W!Step
<1>8. ASSUME NEW t \in Thread, EndTerminate(t) \/ Join(t) \/ Clear(t) PROVE [W!Next]_(W!vars)
  BY <1>8 DEF EndTerminate, Join, Clear
<1>9. ASSUME NEW t \in Thread, Create(t) PROVE [W!Next]_(W!vars)
  <2> DEFINE o == <<inits, at[t]>>
  <2>1. o \in Sender /\ o[1] = inits /\ o[2] = at[t]
    BY <1>9, BoundAssumption DEF Create, Sender, Entry, IInv, TypeOK, VectorInv, InitPc
  <2> HIDE DEF o
  <2>2. inits \in Nat /\ at[t] \in Nat
    BY BoundAssumption DEF IInv, TypeOK
  <2>3. worker[o] # "none" => o[1] < inits \/ o[2] < at[t]
    BY <1>9, <2>1 DEF Create, FreshInv
  <2>4. worker[o] = "none"
    BY <2>1, <2>2, <2>3
  <2>5. W!Begin(o)
    BY <1>9, <2>4 DEF o, Create, W!Begin, W!Goto
  <2> QED
    BY <2>1, <2>5 DEF W!Next, W!Step
<1>10. ASSUME NEW o \in Sender, Run(o) \/ SpuriousWakeup(o) PROVE [W!Next]_(W!vars)
  BY <1>10 DEF Run, SpuriousWakeup, W!Next, W!Step
<1>11. CASE UNCHANGED vars
  BY <1>11 DEF vars
<1> QED
  BY <1>1, <1>2, <1>3, <1>4, <1>5, <1>6, <1>7, <1>8, <1>9, <1>10, <1>11
  DEF Next, FlightStep, WebStep, InitStep

(* The threads of the plugin use its workers as Worker allows: no sender   *)
(* is given a second thread, and a flag, a text or a notification goes to  *)
(* senders only.  PushService is shown to be such a worker under any calls *)
(* of sendData and terminate.                                              *)
THEOREM WorkersUsed == Spec => W!Spec
BY InitUses, NextUses, MoreHolds, PTL DEF Spec, W!Spec

-----------------------------------------------------------------------------
(* Plugin against Server *)

LEMMA NextWeb == IInv /\ FreshInv /\ [Next]_vars => [Web!Next]_(Web!vars)
<1> SUFFICES ASSUME IInv, FreshInv, [Next]_vars PROVE [Web!Next]_(Web!vars)
  OBVIOUS
<1> USE DEF IInv, TypeOK, Exclusive, Thread, InitPc, WebPc, WebPlace, flags, Goto, Step,
     Web!Next, Web!vars, Web!Goto
<1>1. CASE Register
  <2>1. running' = running /\ pc["web"] = "none" /\ pc'["web"] \in {"none", "new"}
    BY <1>1 DEF Register, FreshInv, LastStop
  <2> QED
    BY <2>1 DEF Web!Begin
<1>2. CASE StopWeb
  BY <1>2 DEF StopWeb, Web!Stop
<1>3. CASE Start \/ BeginUpdate \/ NotDue \/ CallSendData \/ SendData \/ UseAfterFree
        \/ EndUpdate \/ Stop \/ JoinWeb
  <2>1. running' = running /\ pc'["web"] = pc["web"]
    BY <1>3 DEF Start, BeginInit, BeginUpdate, NotDue, CallSendData, SendData, UseAfterFree,
       EndUpdate, Stop, JoinWeb
  <2> QED
    BY <2>1
<1>4. CASE Serve
  BY <1>4 DEF Serve, Web!Serve
<1>5. CASE Poll
  BY <1>5 DEF Poll, Web!Poll
<1>6. CASE Reload \/ EndReload \/ Block \/ Unblock
  BY <1>6 DEF Reload, BeginInit, EndReload, Block, Unblock
<1>7. CASE EndPoll
  BY <1>7 DEF EndPoll, Web!EndPoll
<1>8. ASSUME NEW t \in Thread, InitStep(t) PROVE [Web!Next]_(Web!vars)
  <2>1. running' = running
    BY <1>8 DEF InitStep, Terminate, Notify, EndTerminate, Join, Clear, Create
  <2>2. pc["web"] = pc'["web"] \/ (pc["web"] \in InitPc /\ pc'["web"] \in InitPc)
    BY <1>8 DEF InitStep, Terminate, Notify, EndTerminate, Join, Clear, Create
  <2> QED
    BY <2>1, <2>2
<1>9. ASSUME NEW o \in Sender, Run(o) \/ SpuriousWakeup(o) PROVE [Web!Next]_(Web!vars)
  BY <1>9 DEF Run, SpuriousWakeup
<1>10. CASE UNCHANGED vars
  BY <1>10 DEF vars
<1> QED
  BY <1>1, <1>2, <1>3, <1>4, <1>5, <1>6, <1>7, <1>8, <1>9, <1>10
  DEF Next, FlightStep, WebStep

(* The web server's thread of the plugin is that of Server, which          *)
(* TcpListener is shown to be: it is made once, and a reload is served in  *)
(* a turn of its loop, which looks at m_running again only afterwards.     *)
THEOREM WebIsServer == Spec => Web!Spec
<1>1. Init => Web!Init
  BY DEF Init, Thread, InitPc, WebPlace, Web!Init
<1> QED
  BY <1>1, NextWeb, MoreHolds, PTL DEF Spec, Web!Spec
=============================================================================
