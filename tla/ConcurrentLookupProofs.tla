------------------------ MODULE ConcurrentLookupProofs ------------------------
(***************************************************************************)
(* Proofs of the safety properties of ConcurrentLookup, for any number of  *)
(* slots.                                                                  *)
(***************************************************************************)
EXTENDS ConcurrentLookup, TLAPS

(* A thread that looks a slot up is at a slot, and none counts more slots  *)
(* than it has passed.                                                     *)
BehindInv ==
  \A t \in Thread :
    /\ pc[t] \in {"lookup", "store", "stored"} => at[t] <= K
    /\ count[t] < at[t]

AloneInv ==
  \A t, u \in Thread : t # u /\ pc[t] # "idle" /\ pc[u] # "idle" => overlap

(* A thread that is alone has counted every slot it has passed unless one  *)
(* of them has no handle, and looks up only slots without one.             *)
CountInv ==
  \A t \in Thread : pc[t] # "idle" /\ ~overlap =>
    /\ count[t] + 1 = at[t] <=> \A d \in 1 .. at[t] - 1 : handle[d]
    /\ pc[t] \in {"lookup", "store"} => ~handle[at[t]]

IInv == TypeOK /\ BehindInv /\ AloneInv /\ CountInv /\ AloneIsExact

-----------------------------------------------------------------------------

LEMMA InitIInv == Init => IInv
<1> SUFFICES ASSUME Init PROVE IInv
  OBVIOUS
<1> USE SlotAssumption DEF Init
<1>1. TypeOK
  <2>1. result \in [Thread -> BOOLEAN] /\ handle \in [Slot -> BOOLEAN] /\ overlap \in BOOLEAN
    BY Zenon
  <2>2. /\ pc \in [Thread -> {"idle", "slot", "lookup", "store", "stored"}]
        /\ at \in [Thread -> 1 .. K + 1]
        /\ count \in [Thread -> 0 .. K]
        /\ initCount \in 0 .. K
        /\ published \subseteq Slot
    OBVIOUS
  <2> QED BY <2>1, <2>2 DEF TypeOK
<1>2. BehindInv /\ AloneInv /\ CountInv
  BY DEF BehindInv, AloneInv, CountInv
<1>3. AloneIsExact
  BY DEF AloneIsExact, Slot
<1> QED BY <1>1, <1>2, <1>3 DEF IInv

(* A thread leaves a slot that has a handle exactly if it counts it.       *)
LEMMA NextSlotIInv ==
  ASSUME IInv, NEW t \in Thread, NEW c \in BOOLEAN, NextSlot(t, c),
         pc[t] # "idle", at[t] <= K,
         handle' \in [Slot -> BOOLEAN],
         ~overlap => handle'[at[t]] = c,
         \A d \in Slot : d # at[t] => handle'[d] = handle[d],
         UNCHANGED <<initCount, published, overlap>>,
         result' \in [Thread -> BOOLEAN]
  PROVE  IInv'
<1> USE SlotAssumption DEF IInv
<1>1. /\ pc'[t] = "slot" /\ at'[t] = at[t] + 1
      /\ count'[t] = IF c THEN count[t] + 1 ELSE count[t]
      /\ \A u \in Thread \ {t} : pc'[u] = pc[u] /\ at'[u] = at[u] /\ count'[u] = count[u]
  BY DEF NextSlot, TypeOK
<1>2. count[t] \in Nat /\ at[t] \in Nat /\ at[t] >= 1 /\ count[t] < at[t]
  BY DEF TypeOK, BehindInv
<1>3. TypeOK'
  <2>1. pc' \in [Thread -> {"idle", "slot", "lookup", "store", "stored"}]
    BY DEF NextSlot, TypeOK
  <2>2. at' \in [Thread -> 1 .. K + 1]
    BY <1>2 DEF NextSlot, TypeOK
  <2>3. count' \in [Thread -> 0 .. K]
    BY <1>2 DEF NextSlot, TypeOK
  <2> QED BY <2>1, <2>2, <2>3 DEF TypeOK
<1>4. BehindInv'
  BY <1>1, <1>2 DEF BehindInv, TypeOK
<1>5. AloneInv'
  BY <1>1 DEF AloneInv
<1>6. CountInv'
  <2> SUFFICES ASSUME NEW u \in Thread, pc'[u] # "idle", ~overlap
               PROVE  /\ count'[u] + 1 = at'[u] <=> \A d \in 1 .. at'[u] - 1 : handle'[d]
                      /\ pc'[u] \in {"lookup", "store"} => ~handle'[at'[u]]
    BY DEF CountInv
  <2>1. u = t
    BY <1>1 DEF AloneInv
  <2>2. count[t] + 1 = at[t] <=> \A d \in 1 .. at[t] - 1 : handle[d]
    BY DEF CountInv
  <2>3. \A d \in 1 .. at[t] - 1 : handle'[d] = handle[d]
    BY <1>2 DEF Slot
  <2>4. (\A d \in 1 .. at'[t] - 1 : handle'[d])
          <=> c /\ \A d \in 1 .. at[t] - 1 : handle[d]
    <3>1. handle'[at[t]] = c
      OBVIOUS
    <3>2. 1 .. at'[t] - 1 = (1 .. at[t] - 1) \cup {at[t]}
      BY <1>1, <1>2
    <3> QED BY <3>1, <3>2, <2>3
  <2>5. count'[t] + 1 = at'[t] <=> c /\ count[t] + 1 = at[t]
    BY <1>1, <1>2
  <2> QED BY <1>1, <2>1, <2>2, <2>4, <2>5
<1>7. AloneIsExact'
  BY <1>1 DEF AloneIsExact, idle
<1> QED BY <1>3, <1>4, <1>5, <1>6, <1>7

LEMMA BeginIInv ==
  ASSUME IInv, NEW t \in Thread, Begin(t)
  PROVE  IInv'
<1> USE SlotAssumption DEF IInv
<1>1. /\ pc'[t] = "slot" /\ at'[t] = 1 /\ count'[t] = 0
      /\ \A u \in Thread \ {t} : pc'[u] = pc[u] /\ at'[u] = at[u] /\ count'[u] = count[u]
  BY DEF Begin, TypeOK
<1>2. ~overlap' => \A u \in Thread : pc[u] = "idle"
  BY DEF Begin, idle
<1>3. overlap' \in BOOLEAN
  BY Zenon DEF Begin
<1>4. TypeOK'
  BY <1>3 DEF Begin, TypeOK
<1>5. BehindInv'
  BY <1>1 DEF BehindInv, TypeOK
<1>6. AloneInv'
  BY <1>1, <1>2 DEF AloneInv, Begin
<1>7. CountInv'
  <2> SUFFICES ASSUME NEW u \in Thread, pc'[u] # "idle", ~overlap'
               PROVE  /\ count'[u] + 1 = at'[u] <=> \A d \in 1 .. at'[u] - 1 : handle'[d]
                      /\ pc'[u] \in {"lookup", "store"} => ~handle'[at'[u]]
    BY DEF CountInv
  <2> QED BY <1>1, <1>2
<1>8. AloneIsExact'
  BY <1>1 DEF AloneIsExact, idle
<1> QED BY <1>4, <1>5, <1>6, <1>7, <1>8

LEMMA TestSlotIInv ==
  ASSUME IInv, NEW t \in Thread, TestSlot(t)
  PROVE  IInv'
<1> at[t] \in Slot
  BY DEF IInv, TypeOK, TestSlot, Slot
<1>1. CASE handle[at[t]]
  <2>1. NextSlot(t, TRUE)
    BY <1>1 DEF TestSlot
  <2> QED
    BY <2>1, <1>1, NextSlotIInv DEF TestSlot, IInv, TypeOK, Slot
<1>2. CASE ~handle[at[t]]
  <2> USE SlotAssumption DEF IInv
  <2>1. pc' = [pc EXCEPT ![t] = "lookup"] /\ UNCHANGED <<at, count, result, handle, initCount, published, overlap>>
    BY <1>2 DEF TestSlot
  <2>2. pc'[t] = "lookup" /\ \A u \in Thread \ {t} : pc'[u] = pc[u]
    BY <2>1 DEF TypeOK
  <2>3. TypeOK'
    BY <2>1 DEF TypeOK
  <2>4. BehindInv'
    BY <2>1, <2>2 DEF BehindInv, TestSlot
  <2>5. AloneInv'
    BY <2>1, <2>2 DEF AloneInv, TestSlot
  <2>6. CountInv'
    BY <2>1, <2>2, <1>2 DEF CountInv, TestSlot
  <2>7. AloneIsExact'
    BY <2>1, <2>2 DEF AloneIsExact, idle
  <2> QED BY <2>3, <2>4, <2>5, <2>6, <2>7
<1> QED BY <1>1, <1>2

LEMMA FindIInv ==
  ASSUME IInv, NEW t \in Thread, Find(t)
  PROVE  IInv'
<1> at[t] \in Slot /\ at[t] <= K
  BY SlotAssumption DEF IInv, TypeOK, BehindInv, Find, Slot
<1>1. CASE handle[at[t]]
  <2>1. NextSlot(t, TRUE) /\ UNCHANGED result
    BY <1>1 DEF Find
  <2> QED
    BY <2>1, <1>1, NextSlotIInv DEF Find, IInv, TypeOK, Slot
<1>2. CASE ~handle[at[t]]
  <2> USE SlotAssumption DEF IInv
  <2>1. /\ pc' = [pc EXCEPT ![t] = "store"]
        /\ result' = [result EXCEPT ![t] = at[t] \in published]
        /\ UNCHANGED <<at, count, handle, initCount, published, overlap>>
    BY <1>2 DEF Find
  <2>2. pc'[t] = "store" /\ \A u \in Thread \ {t} : pc'[u] = pc[u]
    BY <2>1 DEF TypeOK
  <2>3. TypeOK'
    <3>1. CASE at[t] \in published
      <4>1. result' = [result EXCEPT ![t] = TRUE]
        <5>1. (at[t] \in published) = TRUE
          BY <3>1, Zenon
        <5> QED BY <2>1, <5>1, Zenon
      <4> QED BY <2>1, <4>1 DEF TypeOK
    <3>2. CASE ~(at[t] \in published)
      <4>1. result' = [result EXCEPT ![t] = FALSE]
        <5>1. (at[t] \in published) = FALSE
          BY <3>2, SMT
        <5> QED BY <2>1, <5>1, Zenon
      <4> QED BY <2>1, <4>1 DEF TypeOK
    <3> QED BY <3>1, <3>2
  <2>4. BehindInv'
    BY <2>1, <2>2 DEF BehindInv
  <2>5. AloneInv'
    BY <2>1, <2>2 DEF AloneInv, Find
  <2>6. CountInv'
    BY <2>1, <2>2, <1>2 DEF CountInv, Find
  <2>7. AloneIsExact'
    BY <2>1, <2>2 DEF AloneIsExact, idle
  <2> QED BY <2>3, <2>4, <2>5, <2>6, <2>7
<1> QED BY <1>1, <1>2

LEMMA StoreIInv ==
  ASSUME IInv, NEW t \in Thread, Store(t)
  PROVE  IInv'
<1> USE SlotAssumption DEF IInv
<1>1. /\ at[t] \in Slot /\ at[t] <= K /\ pc[t] = "store"
      /\ pc' = [pc EXCEPT ![t] = "stored"]
      /\ handle' = [handle EXCEPT ![at[t]] = result[t]]
      /\ UNCHANGED <<at, count, result, initCount, published, overlap>>
  BY DEF Store, local, TypeOK, BehindInv, Slot
<1>2. pc'[t] = "stored" /\ \A u \in Thread \ {t} : pc'[u] = pc[u]
  BY <1>1 DEF TypeOK
<1>3. handle' \in [Slot -> BOOLEAN] /\ \A d \in Slot : d # at[t] => handle'[d] = handle[d]
  BY <1>1 DEF TypeOK
<1>4. TypeOK'
  BY <1>1, <1>3 DEF TypeOK
<1>5. BehindInv'
  BY <1>1, <1>2 DEF BehindInv
<1>6. AloneInv'
  BY <1>1, <1>2 DEF AloneInv
<1>7. CountInv'
  <2> SUFFICES ASSUME NEW u \in Thread, pc'[u] # "idle", ~overlap
               PROVE  /\ count[u] + 1 = at[u] <=> \A d \in 1 .. at[u] - 1 : handle'[d]
                      /\ pc'[u] \in {"lookup", "store"} => ~handle'[at[u]]
    BY <1>1 DEF CountInv
  <2>1. u = t
    BY <1>1, <1>2 DEF AloneInv
  <2>2. \A d \in 1 .. at[t] - 1 : handle'[d] = handle[d]
    BY <1>1, <1>3 DEF Slot
  <2> QED BY <1>1, <1>2, <2>1, <2>2 DEF CountInv
<1>8. AloneIsExact'
  BY <1>1, <1>2 DEF AloneIsExact, idle
<1> QED BY <1>4, <1>5, <1>6, <1>7, <1>8

LEMMA TestStoredIInv ==
  ASSUME IInv, NEW t \in Thread, TestStored(t)
  PROVE  IInv'
<1>1. at[t] \in Slot /\ at[t] <= K /\ pc[t] # "idle" /\ handle[at[t]] \in BOOLEAN
  BY SlotAssumption DEF IInv, TypeOK, BehindInv, TestStored, Slot
<1>2. NextSlot(t, handle[at[t]]) /\ UNCHANGED <<result, handle, initCount, published, overlap>>
  BY DEF TestStored
<1>3. result' \in [Thread -> BOOLEAN] /\ handle' \in [Slot -> BOOLEAN]
  BY <1>2 DEF IInv, TypeOK
<1> QED
  BY <1>1, <1>2, <1>3, NextSlotIInv

(* The count of a thread that has been alone is exact.                     *)
LEMMA FinishIInv ==
  ASSUME IInv, NEW t \in Thread, Finish(t)
  PROVE  IInv'
<1> USE SlotAssumption DEF IInv
<1>1. pc'[t] = "idle" /\ \A u \in Thread \ {t} : pc'[u] = pc[u]
  BY DEF Finish, TypeOK
<1>2. UNCHANGED <<at, count, result, handle, published, overlap>>
  BY DEF Finish, local
<1>3. TypeOK'
  BY <1>2 DEF Finish, TypeOK
<1>4. BehindInv' /\ AloneInv'
  BY <1>1, <1>2 DEF BehindInv, AloneInv
<1>5. CountInv'
  BY <1>1, <1>2 DEF CountInv
<1>6. AloneIsExact'
  <2> SUFFICES ASSUME ~overlap
               PROVE  initCount' < K <=> \E d \in Slot : ~handle[d]
    BY <1>2 DEF AloneIsExact
  <2>1. at[t] = K + 1 /\ count[t] \in Nat /\ count[t] < at[t]
    BY DEF Finish, TypeOK, BehindInv
  <2>2. count[t] + 1 = at[t] <=> \A d \in 1 .. at[t] - 1 : handle[d]
    BY DEF Finish, CountInv
  <2>3. 1 .. at[t] - 1 = Slot
    BY <2>1 DEF Slot
  <2> QED BY <2>1, <2>2, <2>3 DEF Finish
<1> QED BY <1>3, <1>4, <1>5, <1>6

LEMMA NextIInv == IInv /\ [Next]_vars => IInv'
<1> SUFFICES ASSUME IInv, [Next]_vars PROVE IInv'
  OBVIOUS
<1>1. CASE Retry \/ PlaneLoaded \/ Reload
  BY <1>1, BeginIInv DEF Retry, PlaneLoaded, Reload, Thread
<1>2. ASSUME NEW d \in Slot, Publish(d) \/ Withdraw(d) PROVE IInv'
  BY <1>2 DEF Publish, Withdraw, local, IInv, TypeOK, BehindInv, AloneInv, CountInv,
              AloneIsExact, idle
<1>3. CASE UNCHANGED vars
  BY <1>3 DEF vars, local, IInv, TypeOK, BehindInv, AloneInv, CountInv, AloneIsExact, idle
<1> QED
  BY <1>1, <1>2, <1>3, TestSlotIInv, FindIInv, StoreIInv, TestStoredIInv, FinishIInv
  DEF Next

LEMMA Invariance == Spec => []IInv
BY InitIInv, NextIInv, PTL DEF Spec

(* Types: no run counts more slots than there are. *)
THEOREM TypeCorrect == Spec => []TypeOK
BY Invariance, PTL DEF IInv

(* A run that has the registry to itself leaves an exact counter.          *)
THEOREM RepairedWhenAlone == Spec => []AloneIsExact
BY Invariance, PTL DEF IInv
=============================================================================
