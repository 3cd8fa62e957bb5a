------------------------------ MODULE LogAppender ------------------------------
(***************************************************************************)
(* The list of the last log lines.  Every thread of the plugin writes to   *)
(* it through plog, and the web server's thread also reads it for the page *)
(* /log.  Nobody takes a lock.                                             *)
(*                                                                         *)
(* Lines are put in at the back and taken out at the front, so the list    *)
(* holds the newest lines without a gap whatever the order of the calls;   *)
(* what has to be known of it is how many there are.                       *)
(*                                                                         *)
(* The calls of the deque are steps.  Undefined are two that run at the    *)
(* same time, a look at a line that has been removed, and any use of the   *)
(* reader's iterator after a line has been put in: push_back() invalidates *)
(* it.  What the process does from there on is not modelled, `broken' says *)
(* that it has come to this; but an invalid iterator may also serve as if  *)
(* it were valid, as in a build that does not check it.                    *)
(*                                                                         *)
(* A definition marked "Fault" is a plausible wrong version of the one     *)
(* that follows it; no specification uses it.                              *)
(***************************************************************************)
EXTENDS Integers, FiniteSets

CONSTANTS
  Thread, (* The threads that log. *)
  Web,    (* The one that also serves the page. *)
  Max     (* maxMessages, 100 in the code. *)

ASSUME ThreadAssumption == IsFiniteSet(Thread) /\ Web \in Thread

ASSUME MaxAssumption == Max \in Nat

(* The configurations in use have far fewer streams than the log lines. *)
ASSUME RoomAssumption == Cardinality(Thread) <= Max

VARIABLES
  pc,      (* Where each thread is in write(), or in the loop of the page. *)
  size,    (* messages.size().                                             *)
  left,    (* Lines from the front of the list to the reader's iterator;   *)
           (* -1 when the front has passed it.                             *)
  valid,   (* The reader's iterator has not been invalidated.              *)
  shown,   (* History: lines that the page has so far.                     *)
  written, (* History: lines written so far, counted up to Max.            *)
  broken   (* "no", or how the process left defined behaviour.             *)

page == <<left, valid, shown>>
vars == <<pc, size, page, written, broken>>

Writing  == {t \in Thread : pc[t] \in {"pop", "push"}}
Removing == {t \in Thread : pc[t] = "pop"}
Adding   == {t \in Thread : pc[t] = "push"}
Reading  == pc[Web] \in {"test", "read"}

Init ==
  /\ pc = [t \in Thread |-> "idle"]
  /\ size = 0
  /\ left = 0 /\ valid = TRUE /\ shown = 0
  /\ written = 0
  /\ broken = "no"

Goto(t, label) == pc' = [pc EXCEPT ![t] = label]

-----------------------------------------------------------------------------
(* MyAppender::write *)

(* Fault: one line too many is let in. *)
CheckAbove(t) ==
  /\ broken = "no"
  /\ pc[t] = "idle"
  /\ Goto(t, IF size > Max THEN "pop" ELSE "push")
  /\ UNCHANGED <<size, page, written, broken>>

(* A line is logged: is the queue full? *)
Check(t) ==
  /\ broken = "no"
  /\ pc[t] = "idle"
  /\ Goto(t, IF size >= Max THEN "pop" ELSE "push")
  /\ UNCHANGED <<size, page, written, broken>>

(* n lines are removed before the reader's iterator. *)
Passed(n) == IF ~Reading THEN left ELSE IF left >= n THEN left - n ELSE -1

(* Fault: all old lines are removed. *)
RemoveAll(t) ==
  /\ broken = "no"
  /\ pc[t] = "pop"
  /\ Goto(t, "push")
  /\ size' = 0
  /\ left' = Passed(size)
  /\ UNCHANGED <<valid, shown, written, broken>>

PopFront(t) ==
  /\ broken = "no"
  /\ pc[t] = "pop"
  /\ Goto(t, "push")
  /\ size' = size - 1
  /\ left' = Passed(1)
  /\ UNCHANGED <<valid, shown, written, broken>>

(* push_back() invalidates all iterators. *)
PushBack(t) ==
  /\ broken = "no"
  /\ pc[t] = "push"
  /\ Goto(t, "idle")
  /\ size' = size + 1
  /\ valid' = (valid /\ ~Reading)
  /\ written' = IF written < Max THEN written + 1 ELSE written
  /\ UNCHANGED <<left, shown, broken>>

(* Two threads are in calls of the deque at the same time. *)
Race ==
  /\ broken = "no"
  /\ \E t \in Writing : Writing # {t} \/ (t # Web /\ Reading)
  /\ broken' = "race"
  /\ UNCHANGED <<pc, size, page, written>>

-----------------------------------------------------------------------------
(* The loop of WebServer::onMessageReceived for /log *)

BeginPage ==
  /\ broken = "no"
  /\ pc[Web] = "idle"
  /\ Goto(Web, "test")
  /\ left' = size /\ valid' = TRUE /\ shown' = 0
  /\ UNCHANGED <<size, written, broken>>

(* Fault: the oldest line is left out. *)
TestEndBefore ==
  /\ broken = "no"
  /\ pc[Web] = "test"
  /\ Goto(Web, IF left \notin {0, 1} THEN "read" ELSE "idle")
  /\ UNCHANGED <<size, page, written, broken>>

(* it != rend(), where rend() is computed anew from the present front. *)
TestEnd ==
  /\ broken = "no"
  /\ pc[Web] = "test"
  /\ Goto(Web, IF left # 0 THEN "read" ELSE "idle")
  /\ UNCHANGED <<size, page, written, broken>>

(* Fault: the iterator is not moved on, nor the line counted. *)
ReadSame ==
  /\ broken = "no"
  /\ pc[Web] = "read"
  /\ \/ left > 0 /\ Goto(Web, "test") /\ UNCHANGED broken
     \/ left <= 0 /\ broken' = "overrun" /\ UNCHANGED pc
  /\ UNCHANGED <<size, page, written>>

(* The line before the iterator, which may not be there any more. *)
ReadLine ==
  /\ broken = "no"
  /\ pc[Web] = "read"
  /\ \/ left > 0 /\ Goto(Web, "test") /\ left' = left - 1 /\ shown' = shown + 1
        /\ UNCHANGED broken
     \/ left <= 0 /\ broken' = "overrun" /\ UNCHANGED <<pc, left, shown>>
  /\ UNCHANGED <<size, valid, written>>

(* An invalid iterator is compared or looked through, and does not serve.  *)
UseInvalid ==
  /\ broken = "no"
  /\ Reading /\ ~valid
  /\ broken' = "invalid"
  /\ UNCHANGED <<pc, size, page, written>>

Next ==
  \/ \E t \in Thread : Check(t) \/ PopFront(t) \/ PushBack(t)
  \/ BeginPage \/ TestEnd \/ ReadLine \/ UseInvalid
  \/ Race

(* The system schedules a thread that is at work. *)
Spec ==
  /\ Init /\ [][Next]_vars
  /\ WF_vars(TestEnd) /\ WF_vars(ReadLine)
  /\ \A t \in Thread : WF_vars(PopFront(t)) /\ WF_vars(PushBack(t))

-----------------------------------------------------------------------------
(* Properties *)

Threads == Cardinality(Thread)

(* Every variable has its type. *)
TypeOK ==
  /\ pc \in [Thread -> {"idle", "pop", "push", "test", "read"}]
  /\ \A t \in Thread \ {Web} : pc[t] \notin {"test", "read"}
  /\ size \in Nat
  /\ left \in Int /\ left >= -1
  /\ valid \in BOOLEAN /\ shown \in Nat
  /\ written \in 0 .. Max
  /\ broken \in {"no", "race", "overrun", "invalid"}

(* main.cpp:34 removes a message when the queue is full.  The threads that *)
(* have seen room at the same time exceed the limit, but by one line each  *)
(* except the first, and never more.                                       *)
SizeBound == size <= Max + Threads - 1

(* The newest lines are there: of the last Max lines, no more are missing  *)
(* than there are threads.                                                 *)
NewestKept == size >= written - Threads

(* pop_front() is never called on an empty list, although others may have  *)
(* removed lines since its caller has looked.                              *)
PopNeverEmpty == Removing # {} => size > 0

(* A page that comes to its end while its iterator is valid shows the list *)
(* as it is at that moment: every line that is left of it and no other,    *)
(* although lines may have been removed all the while.                     *)
PageIsList ==
  [][pc[Web] = "test" /\ pc'[Web] = "idle" /\ valid => shown = size]_vars

(* A page is finished unless it breaks: lines that are put in meanwhile    *)
(* do not keep the reader from its end, if its iterator still serves.      *)
PageEnds == Reading ~> ~Reading \/ broken # "no"
=============================================================================
