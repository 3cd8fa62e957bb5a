------------------------- MODULE LatestValueChannel -------------------------
(***************************************************************************)
(* What a push service promises to the flight loop, with no thread, lock   *)
(* or condition variable in sight: a one-place channel per sender that     *)
(* keeps only the newest value posted to it and hands each posted value to *)
(* the wire at most once.  The value is lost when the wire refuses it.     *)
(* A channel being closed may put one kind of frame on the wire that       *)
(* nobody posted: the blank one.                                           *)
(***************************************************************************)

CONSTANTS
  Sender,  (* The channels.                          *)
  Data,    (* The values that can be posted.         *)
  Empty,   (* The blank frame.                       *)
  None     (* No value posted, nothing on the wire.  *)

VARIABLES
  pending,  (* The newest value posted and not yet handed over, or None. *)
  out,      (* The last frame that reached the wire, or None.            *)
  state     (* "open", "closing" or "closed".                            *)

vars == <<pending, out, state>>

Init ==
  /\ pending = [s \in Sender |-> None]
  /\ out     = [s \in Sender |-> None]
  /\ state   = [s \in Sender |-> "open"]

(* A newer value replaces one that is still waiting, at any time. *)
Post(s, d) ==
  /\ pending' = [pending EXCEPT ![s] = d]
  /\ UNCHANGED <<out, state>>

(* The waiting value is handed over: it reaches the wire or is lost there. *)
Take(s) ==
  /\ state[s] # "closed"
  /\ pending[s] # None
  /\ pending' = [pending EXCEPT ![s] = None]
  /\ out' \in {out, [out EXCEPT ![s] = pending[s]]}
  /\ UNCHANGED state

Blank(s) ==
  /\ state[s] = "closing"
  /\ out' = [out EXCEPT ![s] = Empty]
  /\ UNCHANGED <<pending, state>>

Close(s) ==
  /\ state[s] = "open"
  /\ state' = [state EXCEPT ![s] = "closing"]
  /\ UNCHANGED <<pending, out>>

(* Closed for good: after Close, or because the wire was never there. *)
Shut(s) ==
  /\ state[s] # "closed"
  /\ state' = [state EXCEPT ![s] = "closed"]
  /\ UNCHANGED <<pending, out>>

ChannelNext(s) ==
  \/ \E d \in Data : Post(s, d)
  \/ Take(s)
  \/ Blank(s)
  \/ Close(s)
  \/ Shut(s)

Next == \E s \in Sender : ChannelNext(s)

(* A value that waits is handed over, unless the channel is shut first. *)
Progress(s) == pending[s] # None /\ (Take(s) \/ Shut(s))

SafeSpec == Init /\ [][Next]_vars

Spec == SafeSpec /\ \A s \in Sender : WF_vars(Progress(s))
=============================================================================
