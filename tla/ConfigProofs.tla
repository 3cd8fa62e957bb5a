---------------------------- MODULE ConfigProofs ----------------------------
(***************************************************************************)
(* What config.json leads to, for every file: which types the fields have  *)
(* that reach the streams, what an error can leave behind, and which of    *)
(* the file's streams run.  The inductive invariant follows the parser: up *)
(* to the element that it has reached nothing has thrown, the vector it is *)
(* building holds those of them that have an output, each at its rank      *)
(* among them, and Config::streams is still empty.                         *)
(*                                                                         *)
(* A stream is twice given a new place, by parseStreams and by init(): the *)
(* place of an element among the places of a set is its Rank, and          *)
(* RankOfRank puts the two together.                                       *)
(***************************************************************************)
EXTENDS Config, TLAPS, WellFoundedInduction, FiniteSetTheorems

(* A set of numbers has a least one. *)
LEMMA NatWellOrdered ==
  ASSUME NEW T, T \subseteq Nat, T # {}
  PROVE  \E n \in T : \A k \in T : n <= k
<1> DEFINE R == OpToRel(<, Nat)
<1>1. IsWellFoundedOn(R, Nat)
  BY NatLessThanWellFounded
<1>2. \A k, n \in Nat : <<k, n>> \in R <=> k < n
  BY DEF OpToRel
<1> HIDE DEF R
<1>3. PICK n \in T : \A k \in T : <<k, n>> \notin R
  BY <1>1, WFMin
<1>4. n \in Nat /\ \A k \in T : k \in Nat
  OBVIOUS
<1>5. \A k \in T : ~(k < n)
  BY <1>2, <1>3, <1>4
<1> QED
  BY <1>4, <1>5

(* Induction, over the set of the numbers of which a formula is true. *)
LEMMA NatSetInduction ==
  ASSUME NEW T, 0 \in T, \A n \in Nat : n \in T => n + 1 \in T
  PROVE  Nat \subseteq T
<1> DEFINE U == Nat \ T
<1> SUFFICES ASSUME U # {} PROVE FALSE
  OBVIOUS
<1>1. PICK n \in U : \A k \in U : n <= k
  <2>1. U \subseteq Nat
    OBVIOUS
  <2> HIDE DEF U
  <2> QED
    BY <2>1, NatWellOrdered
<1>2. n - 1 \in Nat /\ n - 1 \notin U
  BY <1>1
<1>3. (n - 1) + 1 \in T
  BY <1>2
<1> QED
  BY <1>3


-----------------------------------------------------------------------------
(* The place of an element among those of a set of places. *)
Rank(K, n) == Cardinality({k \in K : k <= n})

Places(K, N) == K \subseteq 1 .. N

(* Of the elements at the places A, those at the places B are the ones at  *)
(* the places C.                                                           *)
Picks(B, A, C) == \A i \in A : Rank(A, i) \in B <=> i \in C

(* The rank counts up where there is an element. *)
LEMMA RankNext ==
  ASSUME NEW N \in Nat, NEW K, K \subseteq 1 .. N, NEW n \in Nat
  PROVE  /\ Rank(K, n) \in Nat
         /\ Rank(K, n + 1) = Rank(K, n) + IF n + 1 \in K THEN 1 ELSE 0
<1>0. \A k \in K : k \in Int /\ 1 <= k /\ k <= N
  OBVIOUS
<1> DEFINE U == {k \in K : k <= n}
<1>1. IsFiniteSet(U)
  <2>1. IsFiniteSet(1 .. N)
    BY FS_Interval
  <2>2. U \in SUBSET (1 .. N)
    OBVIOUS
  <2> HIDE DEF U
  <2> QED
    BY <2>1, <2>2, FS_Subset
<1>2. Cardinality(U) \in Nat
  <2> HIDE DEF U
  <2> QED
    BY <1>1, FS_CardinalityType
<1>3. {k \in K : k <= n + 1} = IF n + 1 \in K THEN U \cup {n + 1} ELSE U
  <2>1. \A k \in K : k <= n + 1 <=> k <= n \/ k = n + 1
    BY <1>0
  <2>2. n + 1 <= n + 1
    OBVIOUS
  <2> QED
    BY <2>1, <2>2
<1>4. n + 1 \notin U
  OBVIOUS
<1> HIDE DEF U
<1>5. Cardinality(U \cup {n + 1}) = Cardinality(U) + 1
  BY <1>1, <1>4, FS_AddElement
<1>6. Rank(K, n) = Cardinality(U)
  BY DEF Rank, U
<1>7. Rank(K, n + 1) = Cardinality(IF n + 1 \in K THEN U \cup {n + 1} ELSE U)
  BY <1>3 DEF Rank
<1>8. Rank(K, n + 1) = Rank(K, n) + IF n + 1 \in K THEN 1 ELSE 0
  BY <1>2, <1>5, <1>6, <1>7
<1> QED
  BY <1>2, <1>6, <1>8

(* From nothing to all. *)
LEMMA RankEnds ==
  ASSUME NEW N \in Nat, NEW K, K \subseteq 1 .. N
  PROVE  Rank(K, 0) = 0 /\ Rank(K, N) = Cardinality(K) /\ Cardinality(K) \in Nat
<1>1. \A k \in K : k \in Int /\ 1 <= k /\ k <= N
  OBVIOUS
<1>2. {k \in K : k <= 0} = {}
  <2>1. \A k \in K : ~(k <= 0)
    BY <1>1
  <2> QED
    BY <2>1
<1>3. {k \in K : k <= N} = K
  BY <1>1
<1>4. Rank(K, 0) = 0
  BY <1>2, FS_EmptySet DEF Rank
<1>5. Rank(K, N) = Cardinality(K)
  BY <1>3 DEF Rank
<1>6. Rank(K, N) \in Nat
  BY RankNext
<1> QED
  BY <1>4, <1>5, <1>6

(* An element is among those up to any later place. *)
LEMMA RankMonotonic ==
  ASSUME NEW N \in Nat, NEW K, K \subseteq 1 .. N, NEW i \in K, NEW n \in Nat, i <= n
  PROVE  Rank(K, i) \in 1 .. Rank(K, n)
<1> DEFINE U == {k \in K : k <= i}
           V == {k \in K : k <= n}
<1>0. \A k \in K : k \in Nat
  OBVIOUS
<1>1. i \in Nat /\ i \in U
  BY <1>0
<1>6. U \in SUBSET V
  <2>1. \A k \in K : k <= i => k <= n
    BY <1>0
  <2> QED
    BY <2>1
<1>2. IsFiniteSet(U) /\ IsFiniteSet(V)
  <2>1. IsFiniteSet(1 .. N)
    BY FS_Interval
  <2>2. U \in SUBSET (1 .. N) /\ V \in SUBSET (1 .. N)
    OBVIOUS
  <2> HIDE DEF U, V
  <2> QED
    BY <2>1, <2>2, FS_Subset
<1>7. Rank(K, i) \in Nat /\ Rank(K, n) \in Nat
  BY <1>1, RankNext
<1>3. Rank(K, i) = Cardinality(U) /\ Rank(K, n) = Cardinality(V)
  BY DEF Rank
<1> HIDE DEF U, V
<1>4. Cardinality(U) <= Cardinality(V)
  BY <1>2, <1>6, FS_Subset
<1>5. Cardinality(U) # 0
  BY <1>1, <1>2, FS_EmptySet
<1> QED
  BY <1>3, <1>4, <1>5, <1>7

(* The places in B, of elements at the places A, that are those of C. *)
LEMMA RankOfRank ==
  ASSUME NEW N, NEW A, NEW B, NEW C, N \in Nat, Places(A, N), C \subseteq A,
         Places(B, Cardinality(A)), Picks(B, A, C)
  PROVE  \A n \in 0 .. N : Rank(B, Rank(A, n)) = Rank(C, n)
<1> DEFINE T == {n \in Nat : n <= N => Rank(B, Rank(A, n)) = Rank(C, n)}
           M == Cardinality(A)
<1>0. /\ N \in Nat /\ A \subseteq 1 .. N /\ B \subseteq 1 .. M
      /\ \A i \in A : Rank(A, i) \in B <=> i \in C
  BY DEF Places, Picks
<1>1. M \in Nat /\ C \subseteq 1 .. N
  BY <1>0, RankEnds
<1>2. 0 \in T
  <2>1. Rank(A, 0) = 0 /\ Rank(C, 0) = 0 /\ Rank(B, 0) = 0
    BY <1>0, <1>1, RankEnds
  <2> QED
    BY <2>1
<1>3. ASSUME NEW n \in Nat, n \in T PROVE n + 1 \in T
  <2>1. SUFFICES ASSUME n + 1 <= N PROVE Rank(B, Rank(A, n + 1)) = Rank(C, n + 1)
    OBVIOUS
  <2>2. Rank(B, Rank(A, n)) = Rank(C, n)
    BY <1>3, <2>1
  <2>3. Rank(A, n) \in Nat /\ Rank(A, n + 1) = Rank(A, n) + IF n + 1 \in A THEN 1 ELSE 0
    BY <1>0, <2>1, RankNext
  <2>4. Rank(C, n) \in Nat /\ Rank(C, n + 1) = Rank(C, n) + IF n + 1 \in C THEN 1 ELSE 0
    BY <1>0, <1>1, RankNext
  <2>5. CASE n + 1 \notin A
    BY <2>2, <2>3, <2>4, <2>5
  <2>6. CASE n + 1 \in A
    <3>1. Rank(A, n + 1) = Rank(A, n) + 1 /\ (Rank(A, n + 1) \in B <=> n + 1 \in C)
      BY <1>0, <2>3, <2>6
    <3>2. Rank(B, Rank(A, n) + 1) = Rank(B, Rank(A, n)) + IF Rank(A, n) + 1 \in B THEN 1 ELSE 0
      <4> DEFINE a == Rank(A, n)
      <4>1. a \in Nat
        BY <2>3
      <4> HIDE DEF a
      <4>2. Rank(B, a + 1) = Rank(B, a) + IF a + 1 \in B THEN 1 ELSE 0
        BY <1>0, <1>1, <4>1, RankNext
      <4> QED
        BY <4>2 DEF a
    <3> QED
      BY <2>2, <2>4, <3>1, <3>2
  <2> QED
    BY <2>5, <2>6
<1> HIDE DEF T
<1>4. Nat \subseteq T
  BY <1>2, <1>3, NatSetInduction
<1> QED
  BY <1>4 DEF T

-----------------------------------------------------------------------------
(* What a loop keeps *)

(* What the recursion of Kept has made of the first n elements. *)
Rounds(kept, seq, K, n) ==
  kept = [k \in 0 .. n |-> IF k = 0 THEN <<>>
                           ELSE IF k \in K THEN Append(kept[k - 1], seq[k]) ELSE kept[k - 1]]

(* A recursive function is a CHOOSE: that there is one takes induction. *)
LEMMA RoundsExist ==
  ASSUME NEW seq, NEW K, NEW n \in Nat
  PROVE  \E kept : Rounds(kept, seq, K, n)
<1> DEFINE T == {m \in Nat : \E kept : Rounds(kept, seq, K, m)}
<1>1. 0 \in T
  <2> DEFINE kept == [k \in 0 .. 0 |-> <<>>]
  <2>1. Rounds(kept, seq, K, 0)
    BY DEF Rounds
  <2> QED
    BY <2>1
<1>2. ASSUME NEW m \in Nat, m \in T PROVE m + 1 \in T
  <2>1. PICK kept : Rounds(kept, seq, K, m)
    BY <1>2
  <2> DEFINE last == IF m + 1 \in K THEN Append(kept[m], seq[m + 1]) ELSE kept[m]
             more == [k \in 0 .. m + 1 |-> IF k = m + 1 THEN last ELSE kept[k]]
  <2>2. \A k \in 0 .. m : more[k] = kept[k]
    OBVIOUS
  <2>3. more[m + 1] = last /\ more = [k \in 0 .. m + 1 |-> more[k]]
    OBVIOUS
  <2> HIDE DEF more
  <2>4. \A k \in 0 .. m + 1 :
          more[k] = IF k = 0 THEN <<>>
                    ELSE IF k \in K THEN Append(more[k - 1], seq[k]) ELSE more[k - 1]
    <3>1. TAKE k \in 0 .. m + 1
    <3>2. CASE k = m + 1
      <4>1. k # 0 /\ k - 1 = m /\ more[m] = kept[m]
        BY <2>2, <3>2
      <4> QED
        BY <2>3, <3>2, <4>1
    <3>3. CASE k # m + 1
      <4>1. k \in 0 .. m /\ more[k] = kept[k]
        BY <2>2, <3>3
      <4>2. kept[k] = IF k = 0 THEN <<>>
                      ELSE IF k \in K THEN Append(kept[k - 1], seq[k]) ELSE kept[k - 1]
        BY <2>1, <4>1 DEF Rounds
      <4>3. k # 0 => more[k - 1] = kept[k - 1]
        BY <2>2, <4>1
      <4> QED
        BY <4>1, <4>2, <4>3
    <3> QED
      BY <3>2, <3>3
  <2>5. Rounds(more, seq, K, m + 1)
    BY <2>3, <2>4 DEF Rounds
  <2> QED
    BY <2>5
<1> HIDE DEF T
<1>3. Nat \subseteq T
  BY <1>1, <1>2, NatSetInduction
<1> QED
  BY <1>3 DEF T

Within(seq, K, S) == \A k \in K : seq[k] \in S

(* The elements at the places K, each at its rank. *)
LEMMA KeptIs ==
  ASSUME NEW seq, NEW K, NEW S, Len(seq) \in Nat, Places(K, Len(seq)), Within(seq, K, S)
  PROVE  /\ Kept(seq, K) \in Seq(S)
         /\ Len(Kept(seq, K)) = Cardinality(K)
         /\ \A i \in K : Kept(seq, K)[Rank(K, i)] = seq[i]
<1> DEFINE N == Len(seq)
<1>0. N \in Nat /\ K \subseteq 1 .. N /\ \A k \in K : seq[k] \in S
  BY DEF Places, Within
<1>1. PICK kept : Rounds(kept, seq, K, N) /\ Kept(seq, K) = kept[N]
  <2>1. \E kept : Rounds(kept, seq, K, N)
    BY RoundsExist
  <2> QED
    BY <2>1, Zenon DEF Kept, Rounds
<1>2. \A k \in 0 .. N :
        kept[k] = IF k = 0 THEN <<>>
                  ELSE IF k \in K THEN Append(kept[k - 1], seq[k]) ELSE kept[k - 1]
  BY <1>1 DEF Rounds
<1> DEFINE OK(n) == /\ kept[n] \in Seq(S) /\ Len(kept[n]) = Rank(K, n)
                    /\ \A i \in K : i <= n => kept[n][Rank(K, i)] = seq[i]
           T == {n \in Nat : n <= N => OK(n)}
<1>3. 0 \in T
  <2>1. kept[0] = <<>>
    BY <1>2
  <2>2. Rank(K, 0) = 0
    BY <1>0, RankEnds
  <2>3. \A i \in K : ~(i <= 0)
    BY <1>0
  <2>4. kept[0] \in Seq(S) /\ Len(kept[0]) = 0
    BY <2>1
  <2>5. OK(0)
    BY <2>2, <2>3, <2>4
  <2> HIDE DEF OK
  <2> QED
    BY <2>5
<1>4. ASSUME NEW n \in Nat, n \in T PROVE n + 1 \in T
  <2>1. SUFFICES ASSUME n + 1 <= N PROVE OK(n + 1)
    OBVIOUS
  <2>2. OK(n)
    BY <1>4, <2>1
  <2>3. Rank(K, n) \in Nat /\ Rank(K, n + 1) = Rank(K, n) + IF n + 1 \in K THEN 1 ELSE 0
    BY <1>0, RankNext
  <2>4. kept[n + 1] = IF n + 1 \in K THEN Append(kept[n], seq[n + 1]) ELSE kept[n]
    BY <1>0, <1>2, <2>1
  <2>5. CASE n + 1 \notin K
    <3>1. \A i \in K : i <= n + 1 => i <= n
      BY <1>0, <2>5
    <3> QED
      BY <2>2, <2>3, <2>4, <2>5, <3>1
  <2>6. CASE n + 1 \in K
    <3>1. kept[n + 1] = Append(kept[n], seq[n + 1]) /\ seq[n + 1] \in S
        BY <1>0, <2>4, <2>6
    <3>2. kept[n + 1] \in Seq(S) /\ Len(kept[n + 1]) = Rank(K, n + 1)
      BY <2>2, <2>3, <2>6, <3>1
    <3>3. ASSUME NEW i \in K, i <= n + 1 PROVE kept[n + 1][Rank(K, i)] = seq[i]
      <4>1. CASE i = n + 1
        BY <2>2, <2>3, <2>6, <3>1, <4>1
      <4>2. CASE i # n + 1
        <5>1. i \in Nat /\ i <= n
          BY <1>0, <3>3, <4>2
        <5>2. Rank(K, i) \in 1 .. Rank(K, n)
          BY <1>0, <5>1, RankMonotonic
        <5> QED
          BY <2>2, <2>3, <3>1, <5>1, <5>2
      <4> QED
        BY <4>1, <4>2
    <3> QED
      BY <3>2, <3>3
  <2> QED
    BY <2>5, <2>6
<1> HIDE DEF T
<1>5. Nat \subseteq T
  BY <1>3, <1>4, NatSetInduction
<1>6. OK(N)
  <2>1. N \in T
    BY <1>5
  <2> QED
    BY <2>1 DEF T
<1>7. Rank(K, N) = Cardinality(K)
  BY <1>0, RankEnds
<1>8. \A i \in K : i <= N
  BY <1>0
<1> QED
  BY <1>1, <1>6, <1>7, <1>8

-----------------------------------------------------------------------------
(* Types *)

(* The low bits of a number, read as an int. *)
LEMMA Int32Is ==
  ASSUME NEW i \in Int
  PROVE  Int32(i) \in -(W \div 2) .. (W \div 2) - 1
<1> DEFINE h == W \div 2
<1>1. W \in Nat /\ W > 0 /\ h \in Nat /\ W = 2 * h
  BY WidthAssumption
<1>2. ((i + h) % W) \in 0 .. W - 1
  BY <1>1
<1> HIDE DEF h
<1>3. ((i + h) % W) - h \in -h .. h - 1
  BY <1>1, <1>2
<1> QED
  BY <1>3 DEF Int32, h

(* An item that is kept has a name, an alias and a multiplier. *)
LEMMA DataRefTyped ==
  ASSUME NEW item, ItemIsOne(item), ~ItemThrows(item), Named(item)
  PROVE  /\ DataRef(item).name \in Name /\ DataRef(item).alias \in Name
         /\ DataRef(item).multiplier \in Int
<1>1. item # Wrong /\ item.name # Wrong /\ item.alias # Wrong /\ item.multiplier # Wrong
  BY DEF ItemThrows, Named
<1>2. item.name \in Name \cup {Absent} /\ item.alias \in Name \cup {Absent}
        /\ item.multiplier \in Int \cup {Absent}
  BY <1>1 DEF ItemIsOne, Field
<1>3. ValueOr(item.name, "") \in Name /\ ValueOr(item.multiplier, 1) \in Int
  <2>1. item.name = Absent \/ item.name \in Name
    BY <1>2
  <2>2. ValueOr(item.name, "") \in Name
    BY <2>1, NameAssumption, Zenon DEF ValueOr
  <2>3. ValueOr(item.multiplier, 1) \in Int
    BY <1>2 DEF ValueOr
  <2> QED
    BY <2>2, <2>3
<1>4. ValueOr(item.alias, ValueOr(item.name, "")) \in Name
  BY <1>2, <1>3 DEF ValueOr
<1> QED
  BY <1>3, <1>4 DEF DataRef

(* The same of all that parseDataRefs returns. *)
LEMMA DataRefsTyped ==
  ASSUME NEW items, Len(items) \in Nat,
         \A i \in 1 .. Len(items) : ItemIsOne(items[i]) /\ ~ItemThrows(items[i])
  PROVE  \A i \in 1 .. Len(ParseDataRefs(items)) :
           /\ ParseDataRefs(items)[i].name \in Name /\ ParseDataRefs(items)[i].alias \in Name
           /\ ParseDataRefs(items)[i].multiplier \in Int
<1> DEFINE K == {i \in 1 .. Len(items) : Named(items[i])}
           S == {items[k] : k \in K}
           kept == Kept(items, K)
<1>1. K \subseteq 1 .. Len(items) /\ \A k \in K : items[k] \in S
  OBVIOUS
<1>2. kept \in Seq(S)
  <2>1. Places(K, Len(items)) /\ Within(items, K, S)
    BY <1>1 DEF Places, Within
  <2> HIDE DEF K, S
  <2> QED
    BY <2>1, KeptIs
<1>3. \A s \in S : ItemIsOne(s) /\ ~ItemThrows(s) /\ Named(s)
  OBVIOUS
<1>4. ParseDataRefs(items) = [i \in 1 .. Len(kept) |-> DataRef(kept[i])]
  BY DEF ParseDataRefs
<1> HIDE DEF K, S, kept
<1>5. Len(ParseDataRefs(items)) = Len(kept)
  BY <1>2, <1>4
<1> QED
  BY <1>2, <1>3, <1>4, <1>5, DataRefTyped

(* init() makes a sender for it if it is enabled. *)
HasSender(x) == x.udp \/ x.serial

(* A stream that does not throw is a well-typed entry with a sender. *)
LEMMA StreamTyped ==
  ASSUME NEW s, StreamIsOne(s), ~StreamThrows(s), HasOutput(s)
  PROVE  /\ IsEntry(StreamConfig(s)) /\ HasSender(StreamConfig(s))
         /\ StreamConfig(s).udp <=> s.udp # Absent
<1> DEFINE c == StreamConfig(s)
<1>1. s # Wrong /\ Wrong \notin {s.enabled, s.interval, s.udp, s.serial}
        /\ \A i \in 1 .. Len(s.dataRefs) : ~ItemThrows(s.dataRefs[i])
  BY DEF StreamThrows
<1>2. /\ s.enabled \in BOOLEAN \cup {Absent} /\ s.interval \in Int \cup {Absent}
      /\ s.udp \in {Absent, Given} /\ s.serial \in {Absent, Given}
      /\ Len(s.dataRefs) \in Nat
      /\ \A i \in 1 .. Len(s.dataRefs) : ItemIsOne(s.dataRefs[i])
  BY <1>1 DEF StreamIsOne, Field
<1>3. /\ c.enabled = ValueOr(s.enabled, TRUE)
      /\ c.intervalMs = Int32(ValueOr(s.interval, 1000))
      /\ c.dataRefs = ParseDataRefs(s.dataRefs)
  BY DEF StreamConfig
<1>4. c.udp = (s.udp = Given) /\ c.serial = (s.serial = Given)
  BY DEF StreamConfig
<1> HIDE DEF c
<1>5. c.enabled \in BOOLEAN
  BY <1>2, <1>3 DEF ValueOr
<1>6. c.intervalMs \in -(W \div 2) .. (W \div 2) - 1
  <2>1. ValueOr(s.interval, 1000) \in Int
    BY <1>2 DEF ValueOr
  <2> QED
    BY <1>3, <2>1, Int32Is
<1>7. \A i \in 1 .. Len(c.dataRefs) :
        /\ c.dataRefs[i].name \in Name /\ c.dataRefs[i].alias \in Name
        /\ c.dataRefs[i].multiplier \in Int
  <2>1. \A i \in 1 .. Len(s.dataRefs) : ItemIsOne(s.dataRefs[i]) /\ ~ItemThrows(s.dataRefs[i])
    BY <1>1, <1>2
  <2> DEFINE items == s.dataRefs
  <2> HIDE DEF items
  <2>2. \A i \in 1 .. Len(ParseDataRefs(items)) :
          /\ ParseDataRefs(items)[i].name \in Name /\ ParseDataRefs(items)[i].alias \in Name
          /\ ParseDataRefs(items)[i].multiplier \in Int
    BY <1>2, <2>1, DataRefsTyped DEF items
  <2> QED
    BY <1>3, <2>2 DEF items
<1>8. c.udp \in BOOLEAN /\ c.serial \in BOOLEAN
  BY <1>4
<1>9. HasSender(c) /\ (c.udp <=> s.udp # Absent)
  BY <1>2, <1>4, FileAssumption DEF HasSender, HasOutput
<1>10. IsEntry(c)
  BY <1>5, <1>6, <1>7, <1>8 DEF IsEntry
<1> QED
  BY <1>9, <1>10 DEF c

(* So is the only one of a legacy file. *)
LEMMA LegacyTyped ==
  ASSUME NEW f \in Files, f.streams = Absent, ~LegacyThrows(f)
  PROVE  IsEntry(Legacy(f)) /\ HasSender(Legacy(f))
<1> DEFINE c == Legacy(f)
<1>1. f.interval \in Field(Int) /\ Len(f.names) \in Nat
        /\ \A i \in 1 .. Len(f.names) : f.names[i] \in Name \cup {Wrong}
  BY FileAssumption
<1>2. f.interval # Wrong /\ \A i \in 1 .. Len(f.names) : f.names[i] # Wrong
  BY DEF LegacyThrows
<1>3. ValueOr(f.interval, 1000) \in Int
  BY <1>1, <1>2 DEF Field, ValueOr
<1>4. c.intervalMs = Int32(ValueOr(f.interval, 1000)) /\ c.enabled = TRUE
        /\ c.udp = TRUE /\ c.serial = FALSE
        /\ c.dataRefs = [i \in 1 .. Len(f.names) |->
                           [name |-> f.names[i], alias |-> f.names[i], multiplier |-> 1]]
  BY DEF Legacy
<1> HIDE DEF c
<1>5. c.intervalMs \in -(W \div 2) .. (W \div 2) - 1
  BY <1>3, <1>4, Int32Is
<1>6. \A i \in 1 .. Len(c.dataRefs) :
        /\ c.dataRefs[i].name \in Name /\ c.dataRefs[i].alias \in Name
        /\ c.dataRefs[i].multiplier \in Int
  BY <1>1, <1>2, <1>4
<1>7. IsEntry(c)
  BY <1>4, <1>5, <1>6 DEF IsEntry
<1>8. HasSender(c)
  BY <1>4 DEF HasSender
<1> QED
  BY <1>7, <1>8 DEF c

-----------------------------------------------------------------------------
(* The parser *)

(* What parseStreams and parseLegacy put into their vectors. *)
Entries ==
  {e \in {StreamConfig(f.streams[i]) : f \in Files, i \in Nat} \cup {Legacy(f) : f \in Files} :
     IsEntry(e) /\ HasSender(e)}

(* The elements of the file, up to n, that become streams. *)
Outputs(n) == {i \in 1 .. n : HasOutput(file.streams[i])}

(* The list is made from the first n elements. *)
MadeOf(list, n) ==
  /\ Len(list) = Cardinality(Outputs(n))
  /\ \A i \in Outputs(n) : list[Rank(Outputs(n), i)] = StreamConfig(file.streams[i])

Typed ==
  /\ file \in Files \cup {Missing, Malformed}
  /\ pc \in {"open", "web", "streams", "init", "started"}
  /\ at \in Nat /\ result \in Seq(Entries) /\ streams \in Seq(Entries)
  /\ webConfig.enabled \in BOOLEAN /\ webConfig.port \in Int
  /\ \A i \in 1 .. Len(running) : running[i].sender \in {"udp", "serial"}

(* Until the parser ends there is no stream, nothing has thrown, and the   *)
(* vector holds the elements that have been read.                          *)
Parsing ==
  /\ pc \in {"web", "streams"} => file \notin {Missing, Malformed}
  /\ pc \in {"open", "web", "streams"} => streams = <<>>
  /\ pc \in {"open", "web"} => at = 0 /\ result = <<>>
  /\ pc = "streams" => ~WebThrows
  /\ pc = "streams" /\ file.streams # Absent =>
       /\ at <= Len(file.streams) /\ MadeOf(result, at)
       /\ \A i \in 1 .. at : ~StreamThrows(file.streams[i])

(* After it, the list is of the whole file or empty. *)
Taken ==
  streams # <<>> =>
    /\ file \notin {Missing, Malformed}
    /\ file.streams # Absent => MadeOf(streams, Len(file.streams))

IInv == Typed /\ Parsing /\ Taken /\ AllOrNothing /\ WebOffOnRequest /\ RunsWhatIsEnabled

(* The counts start at nothing. *)
LEMMA MadeOfNothing == MadeOf(<<>>, 0)
<1>1. Outputs(0) = {}
  BY DEF Outputs
<1> QED
  BY <1>1, FS_EmptySet DEF MadeOf

LEMMA Inits == Init => IInv
<1> SUFFICES ASSUME Init PROVE IInv
  OBVIOUS
<1>1. Typed
  BY DEF Init, Typed, Default
<1>2. Parsing /\ Taken /\ AllOrNothing /\ WebOffOnRequest /\ RunsWhatIsEnabled
  BY DEF Init, Parsing, Taken, AllOrNothing, WebOffOnRequest, RunsWhatIsEnabled, Default
<1> QED
  BY <1>1, <1>2 DEF IInv

(* One more element, with an output or without. *)
LEMMA MadeOfNext ==
  ASSUME NEW n \in Nat, NEW list \in Seq(Entries), MadeOf(list, n),
         HasOutput(file.streams[n + 1]) => StreamConfig(file.streams[n + 1]) \in Entries
  PROVE  MadeOf(IF HasOutput(file.streams[n + 1])
                  THEN Append(list, StreamConfig(file.streams[n + 1])) ELSE list, n + 1)
<1> DEFINE s == file.streams[n + 1]
           K == Outputs(n)
           L == Outputs(n + 1)
           more == IF HasOutput(s) THEN Append(list, StreamConfig(s)) ELSE list
<1>1. K \subseteq 1 .. n /\ L \subseteq 1 .. n + 1 /\ n + 1 \in Nat
  BY DEF Outputs
<1>2. L = IF HasOutput(s) THEN K \cup {n + 1} ELSE K
  <2>1. 1 .. n + 1 = 1 .. n \cup {n + 1}
    OBVIOUS
  <2> QED
    BY <2>1 DEF Outputs
<1>3. Len(list) = Cardinality(K) /\ \A i \in K : list[Rank(K, i)] = StreamConfig(file.streams[i])
  BY DEF MadeOf
<1> SUFFICES MadeOf(more, n + 1)
  OBVIOUS
<1>4. CASE ~HasOutput(s)
  BY <1>2, <1>3, <1>4 DEF MadeOf
<1>5. CASE HasOutput(s)
  <2>1. more = Append(list, StreamConfig(s)) /\ L = K \cup {n + 1}
    BY <1>2, <1>5
  <2> HIDE DEF K, L
  <2>2. \A i \in K : {k \in L : k <= i} = {k \in K : k <= i}
    <3>1. \A i \in K : ~(n + 1 <= i)
      BY <1>1
    <3> QED
      BY <2>1, <3>1
  <2>3. \A i \in K : Rank(L, i) = Rank(K, i) /\ Rank(L, i) \in 1 .. Cardinality(K)
    <3>1. TAKE i \in K
    <3>2. Rank(L, i) = Rank(K, i)
      BY <2>2 DEF Rank
    <3>3. i <= n /\ Rank(K, n) = Cardinality(K)
      <4>1. Rank(K, n) = Cardinality(K)
        BY <1>1, RankEnds
      <4> QED
        BY <1>1, <4>1
    <3>4. Rank(K, i) \in 1 .. Rank(K, n)
      BY <1>1, <3>3, RankMonotonic
    <3> QED
      BY <3>2, <3>3, <3>4
  <2>4. Rank(L, n + 1) = Cardinality(L) /\ Cardinality(L) = Cardinality(K) + 1
          /\ Cardinality(K) \in Nat
    <3>1. Rank(L, n + 1) = Cardinality(L) /\ Cardinality(K) \in Nat
      BY <1>1, RankEnds
    <3>2. IsFiniteSet(K)
      <4>1. IsFiniteSet(1 .. n) /\ K \in SUBSET (1 .. n)
        BY <1>1, FS_Interval
      <4> QED
        BY <4>1, FS_Subset
    <3>3. n + 1 \notin K
      BY <1>1
    <3> QED
      BY <2>1, <3>1, <3>2, <3>3, FS_AddElement
  <2>5. Len(more) = Cardinality(L) /\ more[Cardinality(L)] = StreamConfig(s)
    BY <1>3, <2>1, <2>4
  <2>6. ASSUME NEW i \in L PROVE more[Rank(L, i)] = StreamConfig(file.streams[i])
    <3>1. CASE i = n + 1
      BY <2>4, <2>5, <3>1
    <3>2. CASE i \in K
      <4>1. Rank(L, i) \in 1 .. Len(list) /\ list[Rank(L, i)] = StreamConfig(file.streams[i])
        BY <1>3, <2>3, <3>2
      <4>2. more[Rank(L, i)] = list[Rank(L, i)]
        BY <2>1, <4>1
      <4> QED
        BY <4>1, <4>2
    <3> QED
      BY <2>1, <3>1, <3>2
  <2> QED
    BY <2>5, <2>6 DEF MadeOf, L
<1> QED
  BY <1>4, <1>5

(* Only the elements that a step reads change what is said of the lists. *)
LEMMA ParseKeeps ==
  ASSUME IInv, ParseStream
  PROVE  IInv'
<1> DEFINE s == file.streams[at + 1]
<1>1. /\ file \in Files /\ file' = file /\ pc = "streams" /\ streams' = streams
      /\ streams = <<>> /\ webConfig' = webConfig /\ running' = running
  BY DEF IInv, Typed, Parsing, ParseStream
<1>2. /\ at \in Nat /\ result \in Seq(Entries) /\ file.streams # Absent
      /\ at < Len(file.streams) /\ Len(file.streams) \in Nat
  BY <1>1, FileAssumption DEF IInv, Typed, ParseStream
<1>3. /\ ~WebThrows /\ MadeOf(result, at) /\ file \notin {Missing, Malformed}
      /\ \A i \in 1 .. at : ~StreamThrows(file.streams[i])
  BY <1>1, <1>2 DEF IInv, Parsing
<1>4. WebThrows' = WebThrows
  BY <1>1 DEF WebThrows
<1>5. AllOrNothing' /\ WebOffOnRequest' /\ Taken'
  BY <1>1 DEF IInv, AllOrNothing, WebOffOnRequest, Taken
<1>6. CASE StreamThrows(s)
  <2>1. pc' = "init" /\ at' = at /\ result' = result
    BY <1>1, <1>6 DEF ParseStream, Fails
  <2>2. Typed' /\ Parsing'
    BY <1>1, <2>1 DEF IInv, Typed, Parsing
  <2>3. RunsWhatIsEnabled'
    BY <2>1 DEF RunsWhatIsEnabled
  <2> QED
    BY <1>5, <2>2, <2>3 DEF IInv
<1>7. CASE ~StreamThrows(s)
  <2>1. /\ at' = at + 1 /\ pc' = "streams"
        /\ result' = IF HasOutput(s) THEN Append(result, StreamConfig(s)) ELSE result
    BY <1>1, <1>7 DEF ParseStream
  <2>2. StreamIsOne(s)
    BY <1>1, <1>2, FileAssumption
  <2>3. HasOutput(s) => StreamConfig(s) \in Entries
    <3>1. HasOutput(s) => IsEntry(StreamConfig(s)) /\ HasSender(StreamConfig(s))
      BY <1>7, <2>2, StreamTyped
    <3>2. at + 1 \in Nat
      BY <1>2
    <3> QED
      BY <1>1, <3>1, <3>2 DEF Entries
  <2>4. result' \in Seq(Entries)
    BY <1>2, <2>1, <2>3
  <2>5. MadeOf(IF HasOutput(s) THEN Append(result, StreamConfig(s)) ELSE result, at + 1)
    BY <1>2, <1>3, <2>3, MadeOfNext
  <2>6. MadeOf(result, at)'
    BY <1>1, <2>1, <2>5 DEF MadeOf, Outputs
  <2>7. \A i \in 1 .. at' : ~StreamThrows(file.streams[i])
    BY <1>2, <1>3, <1>7, <2>1
  <2>8. at' \in Nat /\ at' <= Len(file.streams)
    BY <1>2, <2>1
  <2>9. Typed'
    BY <1>1, <2>1, <2>4, <2>8 DEF IInv, Typed
  <2>10. Parsing'
    BY <1>1, <1>3, <1>4, <2>1, <2>6, <2>7, <2>8 DEF Parsing
  <2>11. RunsWhatIsEnabled'
    BY <2>1 DEF RunsWhatIsEnabled
  <2> QED
    BY <1>5, <2>9, <2>10, <2>11 DEF IInv
<1> QED
  BY <1>6, <1>7

(* init() starts the enabled ones of the list, which are those of the file. *)
LEMMA StartKeeps ==
  ASSUME IInv, InitStreams
  PROVE  IInv'
<1> DEFINE B == {i \in 1 .. Len(streams) : Starts(streams[i])}
           started == Kept(streams, B)
<1>1. /\ file' = file /\ pc = "init" /\ pc' = "started" /\ at' = at /\ result' = result
      /\ streams' = streams /\ webConfig' = webConfig
      /\ running' = [i \in 1 .. Len(started) |->
                       [config |-> started[i],
                        sender |-> IF started[i].udp THEN "udp" ELSE "serial"]]
  BY DEF InitStreams
<1>2. streams \in Seq(Entries) /\ Len(streams) \in Nat /\ B \subseteq 1 .. Len(streams)
  BY DEF IInv, Typed
<1>3. /\ started \in Seq(Entries) /\ Len(started) = Cardinality(B)
      /\ \A i \in B : started[Rank(B, i)] = streams[i]
  <2>1. Places(B, Len(streams)) /\ Within(streams, B, Entries)
    BY <1>2 DEF Places, Within
  <2> HIDE DEF B
  <2> QED
    BY <1>2, <2>1, KeptIs
<1> HIDE DEF started
<1>4. /\ Len(running') = Cardinality(B)
      /\ \A i \in 1 .. Cardinality(B) :
           running'[i] = [config |-> started[i],
                          sender |-> IF started[i].udp THEN "udp" ELSE "serial"]
  BY <1>1, <1>3
<1>5. Typed'
  BY <1>1, <1>3, <1>4 DEF IInv, Typed
<1>6. Parsing' /\ Taken' /\ AllOrNothing' /\ WebOffOnRequest'
  BY <1>1 DEF IInv, Parsing, Taken, AllOrNothing, WebOffOnRequest, WebThrows, MadeOf, Outputs
<1>7. RunsWhatIsEnabled'
  <2> DEFINE N == Len(file.streams)
             A == Outputs(N)
             on == {i \in 1 .. N :
                      /\ ValueOr(file.streams[i].enabled, TRUE)
                      /\ Absent # file.streams[i].udp \/ Absent # file.streams[i].serial}
  <2>1. SUFFICES ASSUME streams # <<>>, file.streams # Absent
                 PROVE  /\ Len(running') = Cardinality(on)
                        /\ \A i \in on :
                             LET r == running'[Rank(on, i)]
                             IN /\ r.config.dataRefs = ParseDataRefs(file.streams[i].dataRefs)
                                /\ r.sender = "serial" <=> file.streams[i].udp = Absent
    BY <1>1 DEF RunsWhatIsEnabled, Rank
  <2>2. /\ file \in Files /\ N \in Nat
        /\ MadeOf(streams, N) /\ \A i \in 1 .. N : ~StreamThrows(file.streams[i])
    BY <2>1, FileAssumption DEF IInv, Typed, Taken, AllOrNothing
  <2>3. Len(streams) = Cardinality(A)
          /\ \A i \in A : streams[Rank(A, i)] = StreamConfig(file.streams[i])
    BY <2>2 DEF MadeOf
  <2>4. A \subseteq 1 .. N /\ on \subseteq A
    BY DEF Outputs, HasOutput
  <2>5. ASSUME NEW i \in A
        PROVE  /\ Rank(A, i) \in 1 .. Len(streams)
               /\ Rank(A, i) \in B <=> i \in on
               /\ streams[Rank(A, i)].udp <=> file.streams[i].udp # Absent
    <3>1. i \in Nat /\ i <= N /\ i \in 1 .. N /\ HasOutput(file.streams[i])
      BY <2>2 DEF Outputs
    <3>2. Rank(A, i) \in 1 .. Rank(A, N) /\ Rank(A, N) = Cardinality(A)
      <4> HIDE DEF A
      <4>1. Rank(A, i) \in 1 .. Rank(A, N)
        BY <2>2, <2>4, <3>1, RankMonotonic
      <4> QED
        BY <2>2, <2>4, <4>1, RankEnds
    <3> DEFINE c == StreamConfig(file.streams[i])
    <3>3. HasSender(c) /\ (c.udp <=> file.streams[i].udp # Absent)
      <4>1. StreamIsOne(file.streams[i]) /\ ~StreamThrows(file.streams[i])
        BY <2>1, <2>2, <3>1, FileAssumption
      <4> QED
        BY <3>1, <4>1, StreamTyped
    <3>4. c.enabled = ValueOr(file.streams[i].enabled, TRUE)
      BY DEF StreamConfig
    <3>5. streams[Rank(A, i)] = c
      BY <2>3
    <3> HIDE DEF c, A
    <3>6. Rank(A, i) \in 1 .. Len(streams)
      BY <2>3, <3>2
    <3>7. Rank(A, i) \in B <=> Starts(c)
      BY <3>5, <3>6
    <3>8. Starts(c) <=> c.enabled
      BY <3>3 DEF Starts, HasSender
    <3>9. i \in on <=> c.enabled
      BY <3>1, <3>4 DEF HasOutput
    <3> QED
      BY <3>3, <3>5, <3>6, <3>7, <3>8, <3>9
  <2> HIDE DEF A, on, B
  <2>6. \A n \in 0 .. N : Rank(B, Rank(A, n)) = Rank(on, n)
    <3>1. Picks(B, A, on)
      BY <2>5 DEF Picks
    <3>2. Places(B, Cardinality(A)) /\ Places(A, N)
      BY <1>2, <2>3, <2>4 DEF Places
    <3>3. N \in Nat /\ on \subseteq A
      BY <2>2, <2>4
    <3> HIDE DEF N
    <3> QED
      BY <3>1, <3>2, <3>3, RankOfRank
  <2>7. Cardinality(B) = Cardinality(on)
    <3>1. Rank(A, N) = Cardinality(A) /\ Cardinality(A) \in Nat
      BY <2>2, <2>4, RankEnds
    <3>2. Rank(on, N) = Cardinality(on)
      <4>1. on \subseteq 1 .. N
        BY <2>4
      <4> QED
        BY <2>2, <4>1, RankEnds
    <3>3. Rank(B, Len(streams)) = Cardinality(B)
      BY <1>2, RankEnds
    <3>4. Rank(B, Rank(A, N)) = Rank(on, N)
      BY <2>2, <2>6
    <3> QED
      BY <2>3, <3>1, <3>2, <3>3, <3>4
  <2>8. ASSUME NEW i \in on
        PROVE  LET r == running'[Rank(on, i)]
               IN /\ r.config.dataRefs = ParseDataRefs(file.streams[i].dataRefs)
                  /\ r.sender = "serial" <=> file.streams[i].udp = Absent
    <3> DEFINE a == Rank(A, i)
               r == running'[Rank(on, i)]
    <3>1. i \in A /\ i \in 0 .. N /\ i \in Nat
      BY <2>2, <2>4
    <3>2. a \in B /\ a \in 1 .. Len(streams) /\ (streams[a].udp <=> file.streams[i].udp # Absent)
            /\ streams[a] = StreamConfig(file.streams[i])
      BY <2>3, <2>5, <3>1
    <3>3. Rank(B, a) = Rank(on, i)
      BY <2>6, <3>1
    <3> HIDE DEF a
    <3>4. Rank(B, a) \in 1 .. Cardinality(B)
      <4>1. a \in Nat /\ a <= Len(streams)
        BY <1>2, <3>2
      <4>2. Rank(B, a) \in 1 .. Rank(B, Len(streams))
        BY <1>2, <3>2, <4>1, RankMonotonic
      <4> QED
        BY <1>2, <4>2, RankEnds
    <3>5. started[Rank(B, a)] = streams[a]
      BY <1>3, <3>2
    <3>6. r = [config |-> streams[a], sender |-> IF streams[a].udp THEN "udp" ELSE "serial"]
      BY <1>4, <3>3, <3>4, <3>5
    <3>7. streams[a].dataRefs = ParseDataRefs(file.streams[i].dataRefs)
      BY <3>2 DEF StreamConfig
    <3> HIDE DEF r
    <3>8. r.config.dataRefs = ParseDataRefs(file.streams[i].dataRefs)
      BY <3>6, <3>7
    <3>9. r.sender = "serial" <=> file.streams[i].udp = Absent
      BY <3>2, <3>6
    <3> QED
      BY <3>8, <3>9 DEF r
  <2> QED
    BY <1>4, <2>7, <2>8 DEF on
<1> QED
  BY <1>5, <1>6, <1>7 DEF IInv

(* The part "web": an object or an absent one, of which the fields have    *)
(* been assigned that come before a wrong one.                             *)
LEMMA WebKeeps ==
  ASSUME IInv, Web
  PROVE  IInv'
<1>1. /\ file \in Files /\ file \notin {Missing, Malformed} /\ file' = file
      /\ pc = "web" /\ streams' = streams /\ streams = <<>> /\ running' = running
      /\ at' = at /\ at = 0 /\ result' = result /\ result = <<>>
      /\ IF WebThrows THEN pc' = "init" ELSE pc' = "streams"
  BY DEF IInv, Typed, Parsing, Web, Fails
<1> DEFINE enabled == IF file.web = Absent THEN TRUE ELSE ValueOr(file.web.enabled, TRUE)
           port    == IF file.web = Absent THEN file.serverPort ELSE file.web.port
<1>2. webConfig' = IF enabled = Wrong THEN Default
                   ELSE [enabled |-> enabled,
                         port |-> IF port = Wrong THEN 8080 ELSE Int32(ValueOr(port, 8080))]
  BY DEF Web, ReadWeb
<1>3. port \in Int \cup {Absent, Wrong}
  BY <1>1, FileAssumption DEF Field
<1>4. /\ enabled \in BOOLEAN \cup {Wrong}
      /\ enabled = FALSE => file.web # Absent /\ file.web.enabled = FALSE
  <2>1. CASE file.web = Absent
    BY <2>1
  <2>2. CASE file.web # Absent
    <3>1. file.web.enabled \in BOOLEAN \cup {Absent, Wrong}
      BY <1>1, <2>2, FileAssumption DEF Field
    <3> QED
      BY <2>2, <3>1 DEF ValueOr
  <2> QED
    BY <2>1, <2>2
<1> HIDE DEF enabled, port
<1>5. port # Wrong => Int32(ValueOr(port, 8080)) \in Int
  <2>1. SUFFICES ASSUME port # Wrong PROVE Int32(ValueOr(port, 8080)) \in Int
    OBVIOUS
  <2>2. ValueOr(port, 8080) \in Int
    BY <1>3, <2>1 DEF ValueOr
  <2>3. W \div 2 \in Int
    BY WidthAssumption
  <2>4. Int32(ValueOr(port, 8080)) \in -(W \div 2) .. (W \div 2) - 1
    BY <2>2, Int32Is
  <2> QED
    BY <2>3, <2>4
<1>6. webConfig'.enabled \in BOOLEAN /\ webConfig'.port \in Int
  <2>1. CASE enabled = Wrong
    BY <1>2, <2>1 DEF Default
  <2>2. CASE enabled # Wrong
    BY <1>2, <1>4, <1>5, <2>2
  <2> QED
    BY <2>1, <2>2
<1>7. ~webConfig'.enabled => enabled = FALSE
  <2>1. CASE enabled = Wrong
    BY <1>2, <2>1 DEF Default
  <2>2. CASE enabled # Wrong
    BY <1>2, <1>4, <2>2
  <2> QED
    BY <2>1, <2>2
<1>8. WebOffOnRequest'
  BY <1>1, <1>4, <1>7 DEF WebOffOnRequest
<1>9. Typed'
  BY <1>1, <1>6 DEF IInv, Typed
<1>10. Parsing'
  <2>1. WebThrows' = WebThrows
    BY <1>1 DEF WebThrows
  <2>2. file.streams # Absent => Len(file.streams) \in Nat
    BY <1>1, FileAssumption
  <2>3. MadeOf(result, at)'
    <3>1. MadeOf(<<>>, 0)
      BY MadeOfNothing
    <3> QED
      BY <1>1, <3>1 DEF MadeOf, Outputs
  <2>4. \A i \in 1 .. at' : ~StreamThrows(file.streams[i])
    BY <1>1
  <2> QED
    BY <1>1, <2>1, <2>2, <2>3, <2>4 DEF Parsing
<1>11. Taken' /\ AllOrNothing' /\ RunsWhatIsEnabled'
  BY <1>1 DEF Taken, AllOrNothing, RunsWhatIsEnabled
<1> QED
  BY <1>8, <1>9, <1>10, <1>11 DEF IInv

(* The list is taken over when it is of the whole file. *)
LEMMA TakeKeeps ==
  ASSUME IInv, TakeStreams
  PROVE  IInv'
<1>1. /\ file \in Files /\ file' = file /\ streams' = result /\ result' = result /\ at' = at
      /\ pc = "streams" /\ pc' = "init" /\ webConfig' = webConfig /\ running' = running
      /\ file.streams # Absent /\ at = Len(file.streams)
  BY DEF IInv, Typed, Parsing, TakeStreams
<1>2. /\ ~WebThrows /\ MadeOf(result, at) /\ file \notin {Missing, Malformed}
      /\ \A i \in 1 .. at : ~StreamThrows(file.streams[i])
  BY <1>1 DEF IInv, Parsing
<1>3. Typed' /\ Parsing' /\ WebOffOnRequest'
  BY <1>1 DEF IInv, Typed, Parsing, WebOffOnRequest
<1>4. AllOrNothing'
  BY <1>1, <1>2 DEF AllOrNothing, WebThrows
<1>5. Taken'
  BY <1>1, <1>2 DEF Taken, MadeOf, Outputs
<1>6. RunsWhatIsEnabled'
  BY <1>1 DEF RunsWhatIsEnabled
<1> QED
  BY <1>3, <1>4, <1>5, <1>6 DEF IInv

(* A legacy file has one stream. *)
LEMMA LegacyKeeps ==
  ASSUME IInv, ParseLegacy
  PROVE  IInv'
<1>1. /\ file \in Files /\ file' = file /\ result' = result /\ at' = at
      /\ pc = "streams" /\ pc' = "init" /\ webConfig' = webConfig /\ running' = running
      /\ file.streams = Absent
      /\ streams' = IF LegacyThrows(file) THEN <<>> ELSE <<Legacy(file)>>
  BY DEF IInv, Typed, Parsing, ParseLegacy
<1>2. ~WebThrows /\ file \notin {Missing, Malformed}
  BY <1>1 DEF IInv, Parsing
<1>3. streams' \in Seq(Entries)
  <2>1. ~LegacyThrows(file) => Legacy(file) \in Entries
    BY <1>1, LegacyTyped DEF Entries
  <2> QED
    BY <1>1, <2>1
<1>4. Typed' /\ Parsing' /\ WebOffOnRequest'
  BY <1>1, <1>3 DEF IInv, Typed, Parsing, WebOffOnRequest
<1>5. AllOrNothing'
  BY <1>1, <1>2 DEF AllOrNothing, WebThrows
<1>6. Taken' /\ RunsWhatIsEnabled'
  BY <1>1, <1>2 DEF Taken, RunsWhatIsEnabled
<1> QED
  BY <1>4, <1>5, <1>6 DEF IInv

LEMMA Steps == IInv /\ [Next]_vars => IInv'
<1> SUFFICES ASSUME IInv, [Next]_vars PROVE IInv'
  OBVIOUS
<1>1. CASE Open
  <2>1. /\ file' = file /\ at' = at /\ result' = result /\ streams' = streams
        /\ webConfig' = webConfig /\ running' = running /\ streams = <<>>
        /\ at = 0 /\ result = <<>>
        /\ IF file \in {Missing, Malformed} THEN pc' = "init" ELSE pc' = "web"
    BY <1>1 DEF IInv, Parsing, Open, Fails
  <2>2. Typed' /\ Parsing'
    BY <2>1 DEF IInv, Typed, Parsing
  <2>3. Taken' /\ AllOrNothing' /\ WebOffOnRequest' /\ RunsWhatIsEnabled'
    BY <2>1 DEF IInv, Taken, AllOrNothing, WebOffOnRequest, RunsWhatIsEnabled
  <2> QED
    BY <2>2, <2>3 DEF IInv
<1>2. CASE Web
  BY <1>2, WebKeeps
<1>3. CASE ParseStream
  BY <1>3, ParseKeeps
<1>4. CASE TakeStreams
  BY <1>4, TakeKeeps
<1>5. CASE ParseLegacy
  BY <1>5, LegacyKeeps
<1>6. CASE InitStreams
  BY <1>6, StartKeeps
<1>7. CASE UNCHANGED vars
  BY <1>7 DEF IInv, vars, Typed, Parsing, Taken, AllOrNothing, WebOffOnRequest,
              RunsWhatIsEnabled, WebThrows, MadeOf, Outputs
<1> QED
  BY <1>1, <1>2, <1>3, <1>4, <1>5, <1>6, <1>7 DEF Next

LEMMA Invariant == Spec => []IInv
BY Inits, Steps, PTL DEF Spec

-----------------------------------------------------------------------------
(* Every variable has its type, whatever is missing from the file or wrong *)
(* in it: no Absent or Wrong field gets into a stream or into the          *)
(* configuration of the web server, and every interval is an int.          *)
THEOREM TypeCorrect == Spec => []TypeOK
<1>1. IInv => TypeOK
  BY DEF IInv, Typed, Entries, TypeOK
<1> QED
  BY <1>1, Invariant, PTL

(* Every entry of the stream list has an output: what init() and the       *)
(* schedule in XplData take for granted, for every file.                   *)
THEOREM EveryStreamHasOutput == Spec => []Runnable
<1>1. IInv => Runnable
  BY DEF IInv, Typed, Entries, HasSender, Runnable
<1> QED
  BY <1>1, Invariant, PTL

(* No stream of a file with an error anywhere in it is ever run.           *)
THEOREM StreamsAllOrNothing == Spec => []AllOrNothing
<1>1. IInv => AllOrNothing
  BY DEF IInv
<1> QED
  BY <1>1, Invariant, PTL

(* Only "enabled": false under "web" switches the web server off, whatever *)
(* else is missing from the file or wrong in it.                           *)
THEOREM WebServerOffOnRequest == Spec => []WebOffOnRequest
<1>1. IInv => WebOffOnRequest
  BY DEF IInv
<1> QED
  BY <1>1, Invariant, PTL

(* parseStreams leaves out the streams without an output and init() the    *)
(* disabled ones, and between them every other stream of the file runs, at *)
(* its place in the file's order, with its own datarefs and its own kind   *)
(* of sender.                                                              *)
THEOREM RunsEnabledStreams == Spec => []RunsWhatIsEnabled
<1>1. IInv => RunsWhatIsEnabled
  BY DEF IInv
<1> QED
  BY <1>1, Invariant, PTL
=============================================================================
