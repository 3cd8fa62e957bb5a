--------------------------- MODULE LogAppenderProofs ---------------------------
(***************************************************************************)
(* Proofs of the bounds on the log, for any number of threads and any      *)
(* maximum.                                                                *)
(***************************************************************************)
EXTENDS LogAppender, FiniteSetTheorems, TLAPS

(* A thread that has seen room will add a line, one that has seen none     *)
(* will remove one first; both have to be counted before they do it.       *)
UpperInv == size + Cardinality(Adding) <= Max + Threads - 1

LowerInv == size - Cardinality(Removing) >= written - Threads

(* Nothing is removed before the log has been full. *)
EarlyInv ==
  written < Max => size = written /\ Removing = {}

(* What the page has and what it has yet to come to are the list; a line   *)
(* removed at the front is one that it has yet to come to, until the front *)
(* passes the iterator.                                                    *)
PageInv ==
  Reading /\ valid /\ left >= 0 => shown + left = size

IInv == TypeOK /\ UpperInv /\ LowerInv /\ EarlyInv /\ PageInv

-----------------------------------------------------------------------------

LEMMA Counts ==
  ASSUME NEW A \in SUBSET Thread
  PROVE  /\ Cardinality(A) \in Nat
         /\ Cardinality(A) <= Threads
         /\ A # {} => Cardinality(A) >= 1
         /\ \A t \in Thread \ A : Cardinality(A \cup {t}) = Cardinality(A) + 1
         /\ \A t \in A : Cardinality(A \ {t}) = Cardinality(A) - 1
<1>1. IsFiniteSet(A) /\ Cardinality(A) <= Threads
  BY ThreadAssumption, FS_Subset DEF Threads
<1>2. Cardinality(A) \in Nat
  BY <1>1, FS_CardinalityType
<1>3. \A t \in Thread \ A : Cardinality(A \cup {t}) = Cardinality(A) + 1
  BY <1>1, FS_AddElement
<1>4. \A t \in A : Cardinality(A \ {t}) = Cardinality(A) - 1
  BY <1>1, FS_RemoveElement
<1>5. A # {} => Cardinality(A) # 0
  BY <1>1, FS_EmptySet
<1> QED BY <1>1, <1>2, <1>3, <1>4, <1>5

LEMMA SomeThread == Threads \in Nat /\ Threads >= 1 /\ Threads <= Max
<1>1. Cardinality(Thread) >= 1 /\ Cardinality(Thread) \in Nat
  <2>1. Thread \in SUBSET Thread /\ Thread # {}
    BY ThreadAssumption
  <2> QED BY <2>1, Counts
<1> QED BY <1>1, RoomAssumption DEF Threads

(* A thread that is about to remove a line finds one. *)
LEMMA Nonempty == TypeOK /\ LowerInv /\ EarlyInv => PopNeverEmpty
<1> SUFFICES ASSUME TypeOK, LowerInv, EarlyInv, Removing # {} PROVE size > 0
  BY DEF PopNeverEmpty
<1>1. Cardinality(Removing) \in Nat /\ Cardinality(Removing) >= 1
  <2>1. Removing \in SUBSET Thread
    BY DEF Removing
  <2> QED BY <2>1, Counts
<1>2. written = Max
  BY MaxAssumption DEF EarlyInv, TypeOK
<1> QED
  BY <1>1, <1>2, SomeThread, MaxAssumption DEF LowerInv, TypeOK

(* Where a step of a thread leaves the two sets. *)
LEMMA Moves ==
  ASSUME TypeOK, NEW t \in Thread,
         NEW l \in {"idle", "pop", "push", "test", "read"}, Goto(t, l)
  PROVE  /\ Adding' = IF l = "push" THEN Adding \cup {t} ELSE Adding \ {t}
         /\ Removing' = IF l = "pop" THEN Removing \cup {t} ELSE Removing \ {t}
         /\ t # Web => pc'[Web] = pc[Web]
         /\ pc'[t] = l
         /\ \A u \in Thread \ {t} : pc'[u] = pc[u]
         /\ pc' \in [Thread -> {"idle", "pop", "push", "test", "read"}]
BY ThreadAssumption DEF Goto, TypeOK, Adding, Removing

LEMMA SetTypes == Adding \in SUBSET Thread /\ Removing \in SUBSET Thread
BY DEF Adding, Removing

-----------------------------------------------------------------------------

LEMMA InitIInv == Init => IInv
<1> SUFFICES ASSUME Init PROVE IInv
  OBVIOUS
<1>1. Adding = {} /\ Removing = {}
  BY DEF Init, Adding, Removing
<1>2. Cardinality(Adding) = 0 /\ Cardinality(Removing) = 0
  BY <1>1, FS_EmptySet
<1>3. UpperInv /\ LowerInv
  BY <1>2, SomeThread, MaxAssumption DEF Init, UpperInv, LowerInv
<1>4. TypeOK
  BY MaxAssumption DEF Init, TypeOK
<1>5. EarlyInv
  BY <1>1 DEF Init, EarlyInv
<1>6. PageInv
  BY ThreadAssumption DEF Init, PageInv, Reading
<1> QED BY <1>3, <1>4, <1>5, <1>6 DEF IInv

LEMMA CheckIInv ==
  ASSUME IInv, NEW t \in Thread, Check(t)
  PROVE  IInv'
<1> USE DEF IInv
<1> t \notin Adding /\ t \notin Removing
  BY DEF Check, Adding, Removing
<1>1. CASE size >= Max
  <2> Goto(t, "pop")
    BY <1>1 DEF Check
  <2>1. TypeOK'
    BY Moves DEF Check, TypeOK, page
  <2>2. Adding' = Adding /\ Removing' = Removing \cup {t}
    BY Moves
  <2>3. Cardinality(Removing') = Cardinality(Removing) + 1
    BY <2>2, Counts, SetTypes
  <2>4. Cardinality(Removing') <= Threads
    <3>1. Removing' \in SUBSET Thread
      BY <2>2, SetTypes
    <3> QED BY <3>1, Counts
  <2>5. written = Max
    BY <1>1, MaxAssumption DEF EarlyInv, TypeOK
  <2>6. UpperInv'
    BY <2>2 DEF UpperInv, Check, Threads
  <2>7. LowerInv'
    BY <2>4, <2>5, <1>1, <2>3, Counts, SetTypes, SomeThread, MaxAssumption
    DEF LowerInv, Check, TypeOK, Threads
  <2>8. EarlyInv'
    BY <2>5, MaxAssumption DEF EarlyInv, Check
  <2>9. PageInv'
    BY Moves, ThreadAssumption DEF PageInv, Reading, Check, page
  <2> QED BY <2>1, <2>6, <2>7, <2>8, <2>9
<1>2. CASE ~(size >= Max)
  <2> Goto(t, "push")
    BY <1>2 DEF Check
  <2>1. TypeOK'
    BY Moves DEF Check, TypeOK, page
  <2>2. Adding' = Adding \cup {t} /\ Removing' = Removing
    BY Moves
  <2>3. Cardinality(Adding') <= Threads /\ Cardinality(Adding') \in Nat
    <3>1. Adding' \in SUBSET Thread
      BY <2>2, SetTypes
    <3> QED BY <3>1, Counts
  <2>4. UpperInv'
    BY <1>2, <2>3, SomeThread, MaxAssumption DEF UpperInv, Check, TypeOK, Threads
  <2>5. LowerInv' /\ EarlyInv'
    BY <2>2 DEF LowerInv, EarlyInv, Check, Threads
  <2>6. PageInv'
    BY Moves, ThreadAssumption DEF PageInv, Reading, Check, page
  <2> QED BY <2>1, <2>4, <2>5, <2>6
<1> QED BY <1>1, <1>2

LEMMA PopFrontIInv ==
  ASSUME IInv, NEW t \in Thread, PopFront(t)
  PROVE  IInv'
<1> USE DEF IInv
<1> Goto(t, "push") /\ t \in Removing /\ t \notin Adding
  BY DEF PopFront, Adding, Removing
<1>1. written = Max /\ written' = Max
  BY MaxAssumption DEF EarlyInv, TypeOK, PopFront
<1>2. Passed(1) \in Int /\ Passed(1) >= -1
  BY DEF TypeOK, Passed
<1>9. size - 1 \in Nat
  BY Nonempty DEF PopNeverEmpty, TypeOK
<1>3. TypeOK'
  BY <1>2, <1>9, Moves DEF PopFront, TypeOK
<1>4. Adding' = Adding \cup {t} /\ Removing' = Removing \ {t}
  BY Moves
<1>5. /\ Cardinality(Adding') = Cardinality(Adding) + 1
      /\ Cardinality(Removing') = Cardinality(Removing) - 1
      /\ Cardinality(Adding) \in Nat
      /\ Cardinality(Removing) \in Nat
  BY <1>4, Counts, SetTypes
<1>6. UpperInv'
  BY <1>5, SomeThread, MaxAssumption DEF UpperInv, PopFront, TypeOK, Threads
<1>7. LowerInv'
  BY <1>1, <1>5, SomeThread, MaxAssumption DEF LowerInv, PopFront, TypeOK, Threads
<1>8. EarlyInv'
  BY <1>1, MaxAssumption DEF EarlyInv
<1>10. PageInv'
  <2> SUFFICES ASSUME Reading', valid', left' >= 0 PROVE shown' + left' = size'
    BY DEF PageInv
  <2>1. t # Web /\ Reading /\ valid
    BY Moves DEF Reading, PopFront
  <2>2. left >= 1 /\ left' = left - 1
    BY <2>1 DEF PopFront, Passed, TypeOK
  <2> QED BY <2>1, <2>2 DEF PageInv, PopFront, TypeOK
<1> QED BY <1>3, <1>6, <1>7, <1>8, <1>10

LEMMA PushBackIInv ==
  ASSUME IInv, NEW t \in Thread, PushBack(t)
  PROVE  IInv'
<1> USE DEF IInv
<1> Goto(t, "idle") /\ t \in Adding /\ t \notin Removing
  BY DEF PushBack, Adding, Removing
<1>1. TypeOK'
  BY Moves, MaxAssumption DEF PushBack, TypeOK
<1>2. Adding' = Adding \ {t} /\ Removing' = Removing
  BY Moves
<1>3. /\ Cardinality(Adding') = Cardinality(Adding) - 1
      /\ Cardinality(Adding) \in Nat
      /\ Cardinality(Removing) \in Nat
  BY <1>2, Counts, SetTypes
<1>4. UpperInv'
  BY <1>3, SomeThread, MaxAssumption DEF UpperInv, PushBack, TypeOK, Threads
<1>5. LowerInv'
  <2>1. size' - Cardinality(Removing') >= written' - Threads
    BY <1>2, <1>3, SomeThread, MaxAssumption DEF LowerInv, PushBack, TypeOK
  <2> QED BY <2>1 DEF LowerInv, Threads
<1>6. EarlyInv'
  BY <1>2, MaxAssumption DEF EarlyInv, PushBack, TypeOK
<1>7. PageInv'
  BY Moves, MaxAssumption, ThreadAssumption
  DEF PageInv, Reading, PushBack, TypeOK, EarlyInv
<1> QED BY <1>1, <1>4, <1>5, <1>6, <1>7

(* The reader leaves the list alone. *)
LEMMA ReaderIInv ==
  ASSUME IInv, BeginPage \/ TestEnd \/ ReadLine \/ UseInvalid \/ Race
  PROVE  IInv'
<1> USE DEF IInv
<1>1. Adding' = Adding /\ Removing' = Removing
  <2>1. CASE BeginPage
    BY <2>1, Moves, ThreadAssumption DEF BeginPage, Adding, Removing, TypeOK, Goto
  <2>2. CASE TestEnd
    BY <2>2, Moves, ThreadAssumption DEF TestEnd, Adding, Removing, TypeOK, Goto
  <2>3. CASE ReadLine
    BY <2>3, Moves, ThreadAssumption DEF ReadLine, Adding, Removing, TypeOK, Goto
  <2>4. CASE UseInvalid \/ Race
    BY <2>4 DEF UseInvalid, Race, Adding, Removing
  <2> QED BY <2>1, <2>2, <2>3, <2>4
<1>2. size' = size /\ written' = written
  BY DEF BeginPage, TestEnd, ReadLine, UseInvalid, Race
<1>3. UpperInv' /\ LowerInv' /\ EarlyInv'
  BY <1>1, <1>2 DEF UpperInv, LowerInv, EarlyInv, Threads
<1>4. TypeOK'
  <2>1. CASE BeginPage
    BY <2>1, ThreadAssumption DEF BeginPage, Goto, TypeOK
  <2>2. CASE TestEnd
    BY <2>2, ThreadAssumption DEF TestEnd, Goto, TypeOK, page
  <2>3. CASE ReadLine
    BY <2>3, ThreadAssumption DEF ReadLine, Goto, TypeOK
  <2>4. CASE UseInvalid \/ Race
    BY <2>4 DEF UseInvalid, Race, TypeOK, page
  <2> QED BY <2>1, <2>2, <2>3, <2>4
<1>5. PageInv'
  <2>1. CASE BeginPage
    BY <2>1 DEF BeginPage, TypeOK, PageInv
  <2>2. CASE TestEnd
    BY <2>2 DEF TestEnd, PageInv, Reading, page
  <2>3. CASE ReadLine
    BY <2>3 DEF ReadLine, TypeOK, PageInv, Reading
  <2>4. CASE UseInvalid \/ Race
    BY <2>4 DEF UseInvalid, Race, PageInv, Reading, page
  <2> QED BY <2>1, <2>2, <2>3, <2>4
<1> QED BY <1>3, <1>4, <1>5

LEMMA NextIInv == IInv /\ [Next]_vars => IInv'
<1> SUFFICES ASSUME IInv, [Next]_vars PROVE IInv'
  OBVIOUS
<1>1. CASE UNCHANGED vars
  BY <1>1 DEF vars, IInv, TypeOK, UpperInv, LowerInv, EarlyInv, PageInv, Adding,
              Removing, Reading, Threads, page
<1> QED
  BY <1>1, CheckIInv, PopFrontIInv, PushBackIInv, ReaderIInv DEF Next

LEMMA Invariance == Spec => []IInv
BY InitIInv, NextIInv, PTL DEF Spec

-----------------------------------------------------------------------------

(* Types, among them that the number of lines never falls below zero.      *)
THEOREM TypeCorrect == Spec => []TypeOK
BY Invariance, PTL DEF IInv

(* The list exceeds its limit by less than the number of threads.          *)
THEOREM NeverMuchAboveMax == Spec => []SizeBound
<1>1. IInv => SizeBound
  <2> SUFFICES ASSUME IInv PROVE SizeBound
    OBVIOUS
  <2>1. Cardinality(Adding) \in Nat
    BY Counts, SetTypes
  <2> QED
    BY <2>1, SomeThread, MaxAssumption DEF IInv, UpperInv, SizeBound, TypeOK
<1> QED BY <1>1, Invariance, PTL

(* Of the last Max lines at most as many are missing as there are threads. *)
THEOREM NewestLinesStay == Spec => []NewestKept
<1>1. IInv => NewestKept
  <2> SUFFICES ASSUME IInv PROVE NewestKept
    OBVIOUS
  <2>1. Cardinality(Removing) \in Nat
    BY Counts, SetTypes
  <2> QED
    BY <2>1, SomeThread, MaxAssumption DEF IInv, LowerInv, NewestKept, TypeOK
<1> QED BY <1>1, Invariance, PTL

(* pop_front() always finds a line.                                        *)
THEOREM PopFindsALine == Spec => []PopNeverEmpty
<1>1. IInv => PopNeverEmpty
  BY Nonempty DEF IInv
<1> QED BY <1>1, Invariance, PTL

(* A page that ends with a valid iterator shows the list, no more and no   *)
(* less, whatever was removed while it was made.                           *)
THEOREM PageShowsTheList == Spec => PageIsList
<1> DEFINE Ends == pc[Web] = "test" /\ pc'[Web] = "idle" /\ valid => shown = size
<1>1. IInv /\ [Next]_vars => [Ends]_vars
  <2> SUFFICES ASSUME IInv, Next, pc[Web] = "test", pc'[Web] = "idle", valid
               PROVE  shown = size
    OBVIOUS
  <2> USE DEF IInv
  <2>1. ASSUME NEW t \in Thread, Check(t) \/ PopFront(t) \/ PushBack(t) PROVE FALSE
    BY <2>1, ThreadAssumption DEF Check, PopFront, PushBack, Goto, TypeOK
  <2>2. CASE TestEnd
    BY <2>2, ThreadAssumption DEF TestEnd, Goto, TypeOK, PageInv, Reading
  <2>3. CASE BeginPage \/ ReadLine \/ UseInvalid \/ Race
    BY <2>3 DEF BeginPage, ReadLine, UseInvalid, Race
  <2> QED BY <2>1, <2>2, <2>3 DEF Next
<1>2. Spec => [][Ends]_vars
  BY <1>1, Invariance, PTL DEF Spec
<1> QED BY <1>2 DEF PageIsList
=============================================================================
