------------------------------- MODULE Worker -------------------------------
(***************************************************************************)
(* run() of a push service, as the rest of the plugin sees it: no mutex,   *)
(* the mailbox reduced to whether it holds a text, and nothing of the      *)
(* connection but whether there is one.  What happens under the mutex is   *)
(* one step, except where terminate(), which does not take it, can come in *)
(* between.                                                                *)
(*                                                                         *)
(* PushService is shown to implement this, and Plugin is built from it.    *)
(*                                                                         *)
(* A definition marked "Fault" is a plausible wrong version of the one     *)
(* that follows it; no specification uses it.                              *)
(***************************************************************************)
CONSTANT Sender

VARIABLES
  worker,  (* Where the worker thread of each sender stands.               *)
  term,    (* shouldTerminate of each sender.                              *)
  full     (* Whether dataToSend of each sender holds a text.              *)

vars == <<worker, term, full>>

(* The worker is inside the loop of run(): it is connected. *)
InLoop == {"loop", "checked", "waiting", "woken"}

WorkerPc == {"none", "new", "done"} \cup InLoop

Init ==
  /\ worker \in [Sender -> {"none", "new"}]
  /\ term = [o \in Sender |-> FALSE]
  /\ full = [o \in Sender |-> FALSE]

Goto(o, from, to) ==
  /\ worker[o] = from
  /\ worker' = [worker EXCEPT ![o] = to]

-----------------------------------------------------------------------------
(* The worker of sender o *)

(* connect() at the beginning of run(). *)
Connect(o) ==
  /\ \E to \in {"loop", "done"} : Goto(o, "new", to)
  /\ UNCHANGED <<term, full>>

(* while (!shouldTerminate), and disconnect() behind the loop. *)
CheckFlag(o) ==
  /\ Goto(o, "loop", IF term[o] THEN "done" ELSE "checked")
  /\ UNCHANGED <<term, full>>

(* A text is there, and is sent. *)
Send(o) ==
  /\ full[o]
  /\ Goto(o, "checked", "loop")
  /\ full' = [full EXCEPT ![o] = FALSE]
  /\ UNCHANGED term

(* The wait begins without another look at the flag. *)
Wait(o) ==
  /\ ~full[o]
  /\ Goto(o, "checked", "waiting")
  /\ UNCHANGED <<term, full>>

SpuriousWakeup(o) ==
  /\ Goto(o, "waiting", "woken")
  /\ UNCHANGED <<term, full>>

(* After a wakeup the flag ends the waiting, with a send whatever is in the*)
(* mailbox; otherwise the mailbox is looked at again.                      *)
WakeUp(o) ==
  /\ Goto(o, "woken", IF term[o] THEN "loop" ELSE "checked")
  /\ full' = [full EXCEPT ![o] = @ /\ ~term[o]]
  /\ UNCHANGED term

Run(o) == Connect(o) \/ CheckFlag(o) \/ Send(o) \/ Wait(o) \/ WakeUp(o)

-----------------------------------------------------------------------------
(* Its clients *)

(* The thread is started. *)
Begin(o) ==
  /\ Goto(o, "none", "new")
  /\ UNCHANGED <<term, full>>

(* Fault: nobody is notified. *)
Unwoken(o) == worker

(* notify_one() ends a wait. *)
Woken(o) == [worker EXCEPT ![o] = IF @ = "waiting" THEN "woken" ELSE @]

(* sendData(). *)
Post(o) ==
  /\ full' = [full EXCEPT ![o] = TRUE]
  /\ worker' = Woken(o)
  /\ UNCHANGED term

(* terminate(): first the flag ... *)
Flag(o) ==
  /\ term' = [term EXCEPT ![o] = TRUE]
  /\ UNCHANGED <<worker, full>>

(* ... then the notification. *)
Notify(o) ==
  /\ worker' = Woken(o)
  /\ UNCHANGED <<term, full>>

Step(o) ==
  Run(o) \/ SpuriousWakeup(o) \/ Begin(o) \/ Post(o) \/ Flag(o) \/ Notify(o)

Next == \E o \in Sender : Step(o)

Spec == Init /\ [][Next]_vars
=============================================================================
