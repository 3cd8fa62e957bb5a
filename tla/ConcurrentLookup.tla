--------------------------- MODULE ConcurrentLookup ---------------------------
(***************************************************************************)
(* initDataRefs() as two threads run it on the same registry: the flight   *)
(* loop's (a retry of update(), or a plane load) and the web server's (a   *)
(* reload).  There is no lock.  XplData has the same function as one step; *)
(* here each access to a slot that both threads share is a step.           *)
(*                                                                         *)
(* The keys of the registry do not change here: the first init() puts in   *)
(* all names of the configuration, before the web server has a thread, and *)
(* the configuration is read only once.                                    *)
(*                                                                         *)
(* A pointer and an int are read and written as a whole: that is what the  *)
(* build for x64 does with these unsynchronised accesses.                  *)
(*                                                                         *)
(* A definition marked "Fault" is a plausible wrong version of the one     *)
(* that follows it; no specification uses it.                              *)
(***************************************************************************)
EXTENDS Naturals

CONSTANT K  (* Number of slots; the map is walked in the order of its keys. *)

ASSUME SlotAssumption == K \in Nat

VARIABLES
  pc,        (* Where each thread stands in initDataRefs().                  *)
  at,        (* The slot each thread is at.                                  *)
  count,     (* The local count of each thread.                              *)
  result,    (* What XPLMFindDataRef has returned to each: a handle or NULL. *)
  handle,    (* Whether the slot has a handle.                               *)
  initCount, (* dataRefInitializedCount.                                     *)
  published, (* Simulator: the slots whose name XPLMFindDataRef finds.       *)
  overlap    (* History: the present run, or the last one if there is none,  *)
             (* overlapped with one of the other thread.                     *)

local == <<at, count, result>>
vars  == <<pc, local, handle, initCount, published, overlap>>

Slot   == 1 .. K
Thread == {"flight", "web"}

idle == \A t \in Thread : pc[t] = "idle"

(* What the first init() leaves when it has found nothing. *)
Init ==
  /\ pc     = [t \in Thread |-> "idle"]
  /\ at     = [t \in Thread |-> 1]
  /\ count  = [t \in Thread |-> 0]
  /\ result = [t \in Thread |-> FALSE]
  /\ handle = [d \in Slot |-> FALSE]
  /\ initCount = 0
  /\ published = {}
  /\ overlap = FALSE

-----------------------------------------------------------------------------

(* initDataRefs() is called by t. *)
Begin(t) ==
  /\ pc[t] = "idle"
  /\ pc'      = [pc EXCEPT ![t] = "slot"]
  /\ at'      = [at EXCEPT ![t] = 1]
  /\ count'   = [count EXCEPT ![t] = 0]
  /\ overlap' = ~idle
  /\ UNCHANGED <<result, handle, initCount, published>>

(* update() tries again if the counter says that a slot has no handle; how *)
(* long it waits is left open here.                                        *)
Retry == initCount < K /\ Begin("flight")

PlaneLoaded == Begin("flight")

Reload == Begin("web")

(* The slot is done, and counted if it has a handle. *)
NextSlot(t, counted) ==
  /\ pc'    = [pc EXCEPT ![t] = "slot"]
  /\ at'    = [at EXCEPT ![t] = @ + 1]
  /\ count' = [count EXCEPT ![t] = IF counted THEN @ + 1 ELSE @]

(* The test of initDataRefs(). *)
TestSlot(t) ==
  /\ pc[t] = "slot"
  /\ at[t] <= K
  /\ \/ handle[at[t]]  /\ NextSlot(t, TRUE)
     \/ ~handle[at[t]] /\ pc' = [pc EXCEPT ![t] = "lookup"] /\ UNCHANGED <<at, count>>
  /\ UNCHANGED <<result, handle, initCount, published, overlap>>

(* initDataRef() tests the slot once more, and calls XPLMFindDataRef. *)
Find(t) ==
  /\ pc[t] = "lookup"
  /\ \/ handle[at[t]] /\ NextSlot(t, TRUE) /\ UNCHANGED result
     \/ /\ ~handle[at[t]]
        /\ result' = [result EXCEPT ![t] = at[t] \in published]
        /\ pc' = [pc EXCEPT ![t] = "store"]
        /\ UNCHANGED <<at, count>>
  /\ UNCHANGED <<handle, initCount, published, overlap>>

(* The result is stored, also when it is NULL. *)
Store(t) ==
  /\ pc[t] = "store"
  /\ pc' = [pc EXCEPT ![t] = "stored"]
  /\ handle' = [handle EXCEPT ![at[t]] = result[t]]
  /\ UNCHANGED <<local, initCount, published, overlap>>

(* Fault: a failed lookup is counted. *)
CountStored(t) ==
  /\ pc[t] = "stored"
  /\ NextSlot(t, TRUE)
  /\ UNCHANGED <<result, handle, initCount, published, overlap>>

(* Whether the lookup has failed is read from the slot, where the other    *)
(* thread may have stored its own result in the meantime.                  *)
TestStored(t) ==
  /\ pc[t] = "stored"
  /\ NextSlot(t, handle[at[t]])
  /\ UNCHANGED <<result, handle, initCount, published, overlap>>

(* dataRefInitializedCount = count. *)
Finish(t) ==
  /\ pc[t] = "slot"
  /\ at[t] > K
  /\ pc' = [pc EXCEPT ![t] = "idle"]
  /\ initCount' = count[t]
  /\ UNCHANGED <<local, handle, published, overlap>>

(* Other plugins come and go, on the simulator's main thread, which is the *)
(* flight loop's.                                                          *)
Publish(d) ==
  /\ pc["flight"] = "idle"
  /\ d \notin published
  /\ published' = published \cup {d}
  /\ UNCHANGED <<pc, local, handle, initCount, overlap>>

Withdraw(d) ==
  /\ pc["flight"] = "idle"
  /\ d \in published
  /\ published' = published \ {d}
  /\ UNCHANGED <<pc, local, handle, initCount, overlap>>

Next ==
  \/ Retry \/ PlaneLoaded \/ Reload
  \/ \E t \in Thread : TestSlot(t) \/ Find(t) \/ Store(t) \/ TestStored(t) \/ Finish(t)
  \/ \E d \in Slot : Publish(d) \/ Withdraw(d)

Spec == Init /\ [][Next]_vars

-----------------------------------------------------------------------------
(* Properties *)

(* Every variable has its type. *)
TypeOK ==
  /\ pc     \in [Thread -> {"idle", "slot", "lookup", "store", "stored"}]
  /\ at     \in [Thread -> 1 .. K + 1]
  /\ count  \in [Thread -> 0 .. K]
  /\ result \in [Thread -> BOOLEAN]
  /\ handle \in [Slot -> BOOLEAN]
  /\ initCount \in 0 .. K
  /\ published \subseteq Slot
  /\ overlap \in BOOLEAN

(* A run of initDataRefs() that had the registry to itself leaves the      *)
(* counter exact, whatever an overlap before it had done to it: a plane    *)
(* load or a reload repairs what an overlap has spoilt.                    *)
AloneIsExact ==
  idle /\ ~overlap => (initCount < K <=> \E d \in Slot : ~handle[d])

(* ARCHITECTURE.md:180 says that failed lookups are retried on a 10 s      *)
(* cadence: a slot without a handle keeps the retries going.               *)
RetriesGoOn ==
  idle /\ (\E d \in Slot : ~handle[d]) => initCount < K
=============================================================================
