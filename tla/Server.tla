------------------------------- MODULE Server -------------------------------
(***************************************************************************)
(* The web server's thread, as the rest of the plugin sees it: the turns   *)
(* of its loop, m_running, and nothing of its sockets and clients.         *)
(*                                                                         *)
(* TcpListener is shown to implement this, and so is the thread that       *)
(* Plugin takes the web server for.                                        *)
(***************************************************************************)
VARIABLES
  thread,  (* "none", "new" before run(), "serving" at the test of the loop, *)
           (* "polled" in its body, "done".                                  *)
  running  (* m_running.                                                     *)

vars == <<thread, running>>

Init ==
  /\ thread = "none"
  /\ running = FALSE

Goto(from, to) ==
  /\ thread = from
  /\ thread' = to

(* init() has succeeded, and the thread is made. *)
Begin == Goto("none", "new") /\ UNCHANGED running

(* run() sets m_running, whatever stop() has done before. *)
Serve == Goto("new", "serving") /\ running' = TRUE

(* while (m_running). *)
Poll == Goto("serving", IF running THEN "polled" ELSE "done") /\ UNCHANGED running

(* The requests have been served, or there were none. *)
EndPoll == Goto("polled", "serving") /\ UNCHANGED running

(* stop(), by another thread. *)
Stop == running' = FALSE /\ UNCHANGED thread

Next == Begin \/ Serve \/ Poll \/ EndPoll \/ Stop

Spec == Init /\ [][Next]_vars
=============================================================================
