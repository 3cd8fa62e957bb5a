---------------------------- MODULE MessageProofs ----------------------------
(***************************************************************************)
(* The slots of the cache keep their size, and the page that reads them    *)
(* with no lock stays inside them except at the two moments that           *)
(* PageInSlot names; a message has exactly the keys, the values and the    *)
(* exceptions that its entries call for.  All that for every set of        *)
(* datarefs, every list of entries, all values and sizes.                  *)
(*                                                                         *)
(* The reason for the page is in Ended: a slot that is waiting for its     *)
(* first value begins with a NUL, and one that has been filled ends with   *)
(* one.  The reason for the message is in MadeOK, what the loop of         *)
(* buildJson() has made of the first n entries, by induction over n.       *)
(***************************************************************************)
EXTENDS Message, WellFoundedInduction, TLAPS

Published == UNION {Sims[d] : d \in DataRef}

(* The elements that a slot may hold. *)
Elem == {0} \cup Byte \cup UNION {{s.val[i] : i \in 1 .. Len(s.val)} : s \in Published}

Size(s) == IF Kind(s.mask) \in Scalar THEN 1 ELSE IF Kind(s.mask) = "data" THEN Cap ELSE s.count

SlotOK(s) ==
  s.found => s.count \in Nat /\ s.cell \in Seq(Elem) /\ Len(s.cell) = Size(s)

EndedOK(d) ==
  slot[d].found /\ Kind(slot[d].mask) = "data" =>
    IF d \in read THEN slot[d].cell[Cap] = NUL ELSE slot[d].cell[1] = NUL

Functions ==
  /\ slot = [d \in DataRef |-> slot[d]]
  /\ sim = [d \in DataRef |-> sim[d]]
  /\ \A d \in DataRef : slot[d] = [found |-> slot[d].found, mask |-> slot[d].mask,
                                   count |-> slot[d].count, cell |-> slot[d].cell]
  /\ page = [open |-> page.open, todo |-> page.todo, json |-> page.json]

Slots == \A d \in DataRef : SlotOK(slot[d])

Sized == \A d \in DataRef : sim[d] \in Sims[d] \cup {Gone}

Ended == \A d \in DataRef : EndedOK(d)

Crashes == {"no", "array too long", "message 305", "message 316", "page overrun", "page 316"}

Plain ==
  /\ entries \in Streams
  /\ reading \in BOOLEAN /\ read \subseteq DataRef
  /\ \A d \in read : slot[d].found
  /\ message.sent \in BOOLEAN
  /\ page.open \in BOOLEAN /\ page.todo \subseteq DataRef
  /\ crashed \in Crashes

IInv == Functions /\ Slots /\ Sized /\ Ended /\ Plain /\ PageInSlot

Kinds == {"float", "int", "floats", "ints", "data"}

(* A type is compared as a whole. *)
LEMMA KindIs ==
  ASSUME NEW mask
  PROVE  /\ Kind(mask) \in Kinds \cup {"other"}
         /\ \A t \in Kinds : Kind(mask) = t <=> mask = {t}
         /\ Kind(mask) = "data" <=> mask = {"data"}
<1> DEFINE known == {t \in Scalar \cup Array \cup {"data"} : mask = {t}}
<1>1. CASE known = {}
  <2>1. Kind(mask) = "other" /\ \A t \in Kinds : mask # {t}
    BY <1>1 DEF Kind, Kinds, Scalar, Array
  <2> QED
    BY <2>1 DEF Kinds
<1>2. CASE known # {}
  <2>1. PICK u \in Kinds : known = {u} /\ mask = {u}
    BY <1>2 DEF Scalar, Array, Kinds
  <2>2. Kind(mask) = u
    BY <1>2, <2>1, Zenon DEF Kind
  <2> QED
    BY <2>1, <2>2 DEF Kinds
<1> QED
  BY <1>1, <1>2

(* The simulator's elements are elements of a slot. *)
LEMMA SimElements ==
  ASSUME Sized, NEW d \in DataRef
  PROVE  sim[d].val \in Seq(Elem)
<1>1. CASE sim[d] = Gone
  BY <1>1 DEF Gone
<1>2. CASE sim[d] \in Sims[d]
  <2> DEFINE v == sim[d].val
  <2>1. v \in Seq({v[i] : i \in 1 .. Len(v)})
    BY <1>2, SimAssumption
  <2>2. {v[i] : i \in 1 .. Len(v)} \subseteq Elem
    BY <1>2 DEF Elem, Published
  <2> QED
    BY <2>1, <2>2
<1> QED
  BY <1>1, <1>2 DEF Sized

LEMMA OverlaySize ==
  ASSUME NEW new \in Seq(Elem), NEW old \in Seq(Elem)
  PROVE  /\ Overlay(new, old) \in Seq(Elem)
         /\ Len(Overlay(new, old)) = Len(old)
         /\ \A i \in 1 .. Len(old) :
              Overlay(new, old)[i] = IF i <= Len(new) THEN new[i] ELSE old[i]
BY DEF Overlay

(* What is copied for a slot has the slot's size. *)
LEMMA CopySize ==
  ASSUME IInv, NEW d \in DataRef, slot[d].found
  PROVE  /\ Copy(d) \in Seq(Elem) /\ Len(Copy(d)) = Len(slot[d].cell)
         /\ ReadDataRef(d) \in Seq(Elem) /\ Len(ReadDataRef(d)) = Len(slot[d].cell)
         /\ Kind(slot[d].mask) = "data" =>
              /\ ReadDataRef(d)[Cap] = NUL
              /\ Len(sim[d].val) < Cap => Copy(d)[Cap] = slot[d].cell[Cap]
<1> DEFINE kind == Kind(slot[d].mask)
           has  == kind \in sim[d].mask
           cell == slot[d].cell
           new  == IF has THEN sim[d].val ELSE <<>>
<1>1. cell \in Seq(Elem) /\ Len(cell) = Size(slot[d]) /\ slot[d].count \in Nat
  BY DEF IInv, Slots, SlotOK
<1>2. sim[d].val \in Seq(Elem) /\ new \in Seq(Elem)
  BY SimElements DEF IInv
<1>3. kind \in Kinds \cup {"other"}
  BY KindIs
<1>4. Cap \in Nat /\ Cap > 1 /\ NUL \in Elem /\ 0 \in Elem
  BY SizeAssumption DEF Elem, Byte
<1>5. CASE kind \in Scalar
  <2>1. Copy(d) = <<IF has THEN sim[d].val[1] ELSE 0>> /\ Len(cell) = 1
    <3>1. Len(cell) = 1
      BY <1>1, <1>5 DEF Size
    <3>2. kind \notin Array \cup {"data"} /\ kind # "other"
      BY <1>5 DEF Scalar, Array
    <3> QED
      BY <1>5, <3>1, <3>2 DEF Copy
  <2>2. has => sim[d].val # <<>>
    <3>1. CASE sim[d] = Gone
      BY <3>1 DEF Gone
    <3>2. CASE sim[d] \in Sims[d]
      <4>1. has => kind \in {"float", "int"} \cap sim[d].mask
        BY <1>5 DEF Scalar
      <4> QED
        BY <3>2, <4>1, SimAssumption
    <3> QED
      BY <3>1, <3>2 DEF IInv, Sized
  <2>3. (IF has THEN sim[d].val[1] ELSE 0) \in Elem
    BY <1>2, <1>4, <2>2
  <2>4. kind # "data"
    BY <1>5 DEF Scalar
  <2> QED
    BY <2>1, <2>3, <2>4 DEF ReadDataRef
<1>6. CASE kind \in Array \cup {"data"}
  <2>1. Copy(d) = Overlay(new, cell)
    BY <1>6 DEF Copy, Scalar, Array
  <2>2. /\ Overlay(new, cell) \in Seq(Elem) /\ Len(Overlay(new, cell)) = Len(cell)
        /\ \A i \in 1 .. Len(cell) :
             Overlay(new, cell)[i] = IF i <= Len(new) THEN new[i] ELSE cell[i]
    BY <1>1, <1>2, OverlaySize
  <2>3. CASE kind # "data"
    BY <2>1, <2>2, <2>3 DEF ReadDataRef
  <2>4. CASE kind = "data"
    <3>1. ReadDataRef(d) = [Overlay(new, cell) EXCEPT ![Cap] = NUL]
      BY <2>1, <2>4 DEF ReadDataRef
    <3>2. Len(cell) = Cap
      BY <1>1, <2>4 DEF Size, Scalar
    <3>3. ReadDataRef(d) \in Seq(Elem) /\ Len(ReadDataRef(d)) = Cap /\ ReadDataRef(d)[Cap] = NUL
      BY <1>4, <2>2, <3>1, <3>2
    <3>4. Len(sim[d].val) < Cap => Copy(d)[Cap] = cell[Cap]
      <4>1. Len(sim[d].val) < Cap => ~(Cap <= Len(new))
        BY <1>2, <1>4
      <4> QED
        BY <1>4, <2>1, <2>2, <3>2, <4>1
    <3> QED
      BY <2>1, <2>2, <3>2, <3>3, <3>4
  <2> QED
    BY <2>3, <2>4
<1>7. CASE kind = "other"
  BY <1>1, <1>7 DEF Copy, ReadDataRef, Scalar, Array
<1> QED
  BY <1>3, <1>5, <1>6, <1>7 DEF Kinds, Scalar, Array

-----------------------------------------------------------------------------
LEMMA Inits == Init => IInv
<1> SUFFICES ASSUME Init PROVE IInv
  OBVIOUS
<1>1. \A d \in DataRef : slot[d] = Unfound /\ ~slot[d].found
  BY DEF Init, Unfound
<1>2. Slots /\ Ended
  BY <1>1 DEF Slots, SlotOK, Ended, EndedOK
<1>3. Sized
  BY DEF Init, Sized
<1>4. Functions
  <2>1. \A d \in DataRef : slot[d] = [found |-> slot[d].found, mask |-> slot[d].mask,
                                      count |-> slot[d].count, cell |-> slot[d].cell]
    BY <1>1 DEF Unfound
  <2> QED
    BY <2>1 DEF Init, Functions, NoPage
<1>5. Plain /\ PageInSlot
  BY DEF Init, Plain, PageInSlot, NoMessage, NoPage, Crashes
<1> QED
  BY <1>2, <1>3, <1>4, <1>5 DEF IInv

(* A slot as initDataRef() leaves it. *)
LEMMA FreshSlot ==
  ASSUME NEW mask, NEW n \in Nat, NEW cell \in Fresh(Kind(mask), n)
  PROVE  /\ cell \in Seq(Elem)
         /\ Len(cell) = IF Kind(mask) \in Scalar THEN 1
                        ELSE IF Kind(mask) = "data" THEN Cap
                        ELSE IF Kind(mask) \in Array THEN n ELSE 0
         /\ Kind(mask) = "data" => cell[1] = NUL
<1>1. Cap \in Nat /\ Cap > 1 /\ NUL \in Elem /\ 0 \in Elem /\ Byte \subseteq Elem
  BY SizeAssumption DEF Elem, Byte
<1>2. CASE Kind(mask) \in Scalar
  <2>1. cell = <<0>> /\ Kind(mask) # "data"
    BY <1>2 DEF Fresh, Scalar
  <2> QED
    BY <1>1, <1>2, <2>1
<1>3. CASE Kind(mask) \in Array
  <2>1. cell = [i \in 1 .. n |-> 0] /\ Kind(mask) # "data" /\ Kind(mask) \notin Scalar
    BY <1>3 DEF Fresh, Scalar, Array
  <2> QED
    BY <1>1, <1>3, <2>1
<1>4. CASE Kind(mask) = "data"
  <2>1. Kind(mask) \notin Scalar /\ Kind(mask) \notin Array
    BY <1>4 DEF Scalar, Array
  <2>2. PICK junk \in [1 .. Cap - 1 -> Byte] : cell = <<NUL>> \o junk
    BY <1>4, <2>1 DEF Fresh
  <2>3. junk \in Seq(Elem) /\ Len(junk) = Cap - 1
    BY <1>1, <2>2
  <2>4. <<NUL>> \in Seq(Elem) /\ Len(<<NUL>>) = 1
    BY <1>1
  <2> QED
    BY <1>1, <1>4, <2>1, <2>2, <2>3, <2>4
<1>5. CASE Kind(mask) \notin Scalar \cup Array \cup {"data"}
  <2>1. cell = <<>>
    BY <1>5 DEF Fresh
  <2>2. <<>> \in Seq(Elem) /\ Len(<<>>) = 0
    OBVIOUS
  <2> QED
    BY <1>5, <2>1, <2>2
<1> QED
  BY <1>2, <1>3, <1>4, <1>5

LEMMA FindKeeps ==
  ASSUME IInv, NEW d \in DataRef, InitDataRef(d)
  PROVE  IInv'
<1> DEFINE kind == Kind(sim[d].mask)
           n    == IF kind \in Array THEN Len(sim[d].val) ELSE 0
<1>1. sim[d].val \in Seq(Elem)
  BY SimElements DEF IInv
<1>2. n \in Nat
  BY <1>1
<1>3. PICK cell \in Fresh(kind, n) :
        slot' = [slot EXCEPT ![d] = [found |-> TRUE, mask |-> sim[d].mask,
                                     count |-> n, cell |-> cell]]
  BY DEF InitDataRef
<1>4. /\ ~slot[d].found /\ crashed' \in {"no", "array too long"}
      /\ message' = NoMessage
      /\ entries' = entries /\ sim' = sim /\ reading' = reading /\ read' = read
      /\ page' = page
  BY DEF InitDataRef
<1>5. d \notin read
  BY <1>4 DEF IInv, Plain
<1>6. /\ cell \in Seq(Elem)
      /\ Len(cell) = IF kind \in Scalar THEN 1
                     ELSE IF kind = "data" THEN Cap
                     ELSE IF kind \in Array THEN n ELSE 0
      /\ kind = "data" => cell[1] = NUL
  BY <1>2, FreshSlot
<1>7. /\ slot'[d] = [found |-> TRUE, mask |-> sim[d].mask, count |-> n, cell |-> cell]
      /\ \A e \in DataRef : e # d => slot'[e] = slot[e]
  BY <1>3 DEF IInv, Functions
<1>8. Functions'
  BY <1>3, <1>4, <1>7 DEF IInv, Functions
<1>9. Slots'
  <2>1. SlotOK(slot'[d])
    BY <1>2, <1>6, <1>7 DEF SlotOK, Size
  <2> QED
    BY <1>7, <2>1 DEF IInv, Slots
<1>10. Ended'
  <2>1. EndedOK(d)'
    <3>1. slot'[d].mask = sim[d].mask /\ slot'[d].cell = cell
      BY <1>7
    <3>2. d \notin read'
      BY <1>4, <1>5
    <3> QED
      BY <1>6, <3>1, <3>2 DEF EndedOK
  <2>2. ASSUME NEW e \in DataRef, e # d PROVE EndedOK(e)'
    BY <1>4, <1>7, <2>2 DEF IInv, Ended, EndedOK
  <2> QED
    BY <2>1, <2>2 DEF Ended
<1>11. Sized' /\ PageInSlot'
  BY <1>4 DEF IInv, Sized, PageInSlot
<1>12. Plain'
  BY <1>4, <1>5, <1>7 DEF IInv, Plain, NoMessage, Crashes
<1> QED
  BY <1>8, <1>9, <1>10, <1>11, <1>12 DEF IInv

LEMMA UpdateKeeps ==
  ASSUME IInv, NEW due \in BOOLEAN, Update(due)
  PROVE  IInv'
<1> DEFINE cell == [d \in DataRef |-> IF slot[d].found THEN ReadDataRef(d) ELSE <<>>]
           made == BuildJson(cell)
<1>1. /\ slot' = [d \in DataRef |-> [slot[d] EXCEPT !.cell = cell[d]]]
      /\ crashed' = IF ~due THEN "no"
                    ELSE IF made.error THEN "message 305"
                    ELSE IF Throws316(made.json) THEN "message 316" ELSE "no"
      /\ message' = IF due /\ crashed' = "no"
                      THEN [sent |-> TRUE, json |-> made.json] ELSE NoMessage
      /\ reading' = FALSE
      /\ read' = {d \in DataRef : slot[d].found}
      /\ entries' = entries /\ sim' = sim /\ page' = page
  BY DEF Update
<1> HIDE DEF made
<1>2. \A d \in DataRef :
        /\ slot'[d] = [found |-> slot'[d].found, mask |-> slot'[d].mask,
                       count |-> slot'[d].count, cell |-> slot'[d].cell]
        /\ slot'[d].found = slot[d].found /\ slot'[d].mask = slot[d].mask
        /\ slot'[d].count = slot[d].count
        /\ slot'[d].cell = IF slot[d].found THEN ReadDataRef(d) ELSE <<>>
  <2>1. TAKE d \in DataRef
  <2>2. slot[d] = [found |-> slot[d].found, mask |-> slot[d].mask,
                  count |-> slot[d].count, cell |-> slot[d].cell]
    BY DEF IInv, Functions
  <2>3. slot'[d] = [slot[d] EXCEPT !.cell = IF slot[d].found THEN ReadDataRef(d) ELSE <<>>]
    BY <1>1
  <2> QED
    BY <2>2, <2>3
<1>3. Functions'
  BY <1>1, <1>2 DEF IInv, Functions
<1>4. ASSUME NEW d \in DataRef PROVE SlotOK(slot'[d]) /\ EndedOK(d)'
  <2>1. CASE slot[d].found
    <3>1. /\ ReadDataRef(d) \in Seq(Elem) /\ Len(ReadDataRef(d)) = Len(slot[d].cell)
          /\ Kind(slot[d].mask) = "data" => ReadDataRef(d)[Cap] = NUL
      BY <2>1, CopySize
    <3>2. d \in read' /\ slot'[d].cell = ReadDataRef(d) /\ slot'[d].mask = slot[d].mask
            /\ slot'[d].count = slot[d].count
      BY <1>1, <1>2, <2>1
    <3>3. SlotOK(slot'[d])
      BY <2>1, <3>1, <3>2 DEF IInv, Slots, SlotOK, Size
    <3> QED
      BY <3>1, <3>2, <3>3 DEF EndedOK
  <2>2. CASE ~slot[d].found
    BY <1>2, <2>2 DEF SlotOK, EndedOK
  <2> QED
    BY <2>1, <2>2
<1>5. crashed' \in Crashes /\ crashed' # "page overrun" /\ message'.sent \in BOOLEAN
  BY <1>1 DEF Crashes, NoMessage
<1>6. PageInSlot' /\ Sized'
  BY <1>1, <1>5 DEF IInv, PageInSlot, Sized
<1>8. Plain'
  <2>1. \A d \in read' : slot'[d].found
    BY <1>1, <1>2
  <2> QED
    BY <1>1, <1>5, <2>1 DEF IInv, Plain
<1>7. Slots' /\ Ended'
  BY <1>4 DEF Slots, Ended
<1> QED
  BY <1>3, <1>6, <1>7, <1>8 DEF IInv

(* The page finds a NUL unless the slot is being written, for the first    *)
(* time or to its last byte.                                               *)
LEMMA PageKeeps ==
  ASSUME IInv, NEW d \in DataRef, PageSlot(d)
  PROVE  IInv'
<1>1. /\ entries' = entries /\ sim' = sim /\ slot' = slot /\ reading' = reading
      /\ read' = read /\ message' = NoMessage
      /\ crashed' \in {"no", "page overrun"}
      /\ \E j : page' = [open |-> page.open, todo |-> page.todo \ {d}, json |-> j]
  <2>1. /\ entries' = entries /\ sim' = sim /\ slot' = slot /\ reading' = reading
        /\ read' = read /\ message' = NoMessage /\ crashed' \in {"no", "page overrun"}
    BY DEF PageSlot
  <2>2. page = [open |-> page.open, todo |-> page.todo, json |-> page.json]
    BY DEF IInv, Functions
  <2> DEFINE rest == [page EXCEPT !.todo = @ \ {d}]
  <2>3. page' = rest \/ \E j : page' = [rest EXCEPT !.json = j]
    BY DEF PageSlot
  <2>4. \E j : page' = [open |-> page.open, todo |-> page.todo \ {d}, json |-> j]
    BY <2>2, <2>3
  <2> QED
    BY <2>1, <2>4
<1>2. PageInSlot'
  <2>1. SUFFICES ASSUME crashed' = "page overrun"
                 PROVE  /\ reading
                        /\ slot[d].mask = {"data"}
                        /\ d \notin read \/ Len(sim[d].val) >= Cap
    BY <1>1 DEF PageInSlot
  <2>2. PICK c \in Found(d) : slot[d].found /\ Kind(slot[d].mask) = "data" /\ ~Terminated(c)
    BY <2>1 DEF PageSlot
  <2>3. slot[d].mask = {"data"}
    BY <2>2, KindIs
  <2>4. slot[d].cell \in Seq(Elem) /\ Len(slot[d].cell) = Cap /\ Cap \in Nat /\ Cap > 1
    BY <2>2, SizeAssumption DEF IInv, Slots, SlotOK, Size, Scalar
  <2>5. /\ DOMAIN c = 1 .. Cap
        /\ \A i \in 1 .. Cap :
             c[i] \in {slot[d].cell[i]}
                        \cup (IF reading THEN {Copy(d)[i], ReadDataRef(d)[i]} ELSE {})
    BY <2>2, <2>4 DEF Found
  <2>6. \A i \in 1 .. Cap : c[i] # NUL
    BY <2>2, <2>4, <2>5 DEF Terminated
  <2>7. IF d \in read THEN slot[d].cell[Cap] = NUL ELSE slot[d].cell[1] = NUL
    BY <2>2 DEF IInv, Ended, EndedOK
  <2>8. reading
    BY <2>4, <2>5, <2>6, <2>7
  <2>9. ASSUME d \in read, Len(sim[d].val) < Cap PROVE FALSE
    <3>1. Copy(d)[Cap] = NUL /\ ReadDataRef(d)[Cap] = NUL
      BY <2>2, <2>7, <2>9, CopySize
    <3> QED
      BY <2>4, <2>5, <2>6, <2>7, <2>9, <3>1
  <2>10. Len(sim[d].val) \in Nat
    <3>1. sim[d].val \in Seq(Elem)
      BY SimElements DEF IInv
    <3> QED
      BY <3>1
  <2> QED
    BY <2>3, <2>4, <2>8, <2>9, <2>10
<1>3. Functions' /\ Slots' /\ Sized' /\ Ended'
  BY <1>1 DEF IInv, Functions, Slots, Sized, Ended, EndedOK
<1>4. Plain'
  <2>0. PICK j : page' = [open |-> page.open, todo |-> page.todo \ {d}, json |-> j]
    BY <1>1
  <2>1. page'.open = page.open /\ page'.todo = page.todo \ {d}
    BY <2>0
  <2>2. message'.sent \in BOOLEAN
    BY <1>1 DEF NoMessage
  <2> QED
    BY <1>1, <2>1, <2>2 DEF IInv, Plain, Crashes
<1> QED
  BY <1>2, <1>3, <1>4 DEF IInv

LEMMA Steps == IInv /\ [Next]_vars => IInv'
<1> SUFFICES ASSUME IInv, [Next]_vars PROVE IInv'
  OBVIOUS
<1>1. ASSUME NEW d \in DataRef, InitDataRef(d) PROVE IInv'
  BY <1>1, FindKeeps
<1>2. ASSUME NEW d \in DataRef, PageSlot(d) PROVE IInv'
  BY <1>2, PageKeeps
<1>3. ASSUME NEW d \in DataRef, NEW s \in Sims[d] \cup {Gone}, SimChange(d, s) PROVE IInv'
  <2>1. /\ sim' = [sim EXCEPT ![d] = s] /\ message' = NoMessage
        /\ entries' = entries /\ slot' = slot /\ reading' = reading /\ read' = read
        /\ page' = page /\ crashed' = crashed /\ crashed = "no"
    BY <1>3 DEF SimChange, Running
  <2>2. Functions' /\ Sized'
    BY <2>1 DEF IInv, Functions, Sized
  <2>3. Slots' /\ Ended' /\ Plain' /\ PageInSlot'
    BY <2>1 DEF IInv, Slots, Ended, EndedOK, Plain, PageInSlot, NoMessage
  <2> QED
    BY <2>2, <2>3 DEF IInv
<1>4. CASE BeginReads
  <2>1. /\ reading' = TRUE /\ message' = NoMessage
        /\ entries' = entries /\ slot' = slot /\ sim' = sim /\ read' = read
        /\ page' = page /\ crashed' = crashed /\ crashed = "no"
    BY <1>4 DEF BeginReads, Running
  <2> QED
    BY <2>1 DEF IInv, Functions, Sized, Slots, Ended, EndedOK, Plain, PageInSlot, NoMessage
<1>5. ASSUME NEW due \in BOOLEAN, Update(due) PROVE IInv'
  BY <1>5, UpdateKeeps
<1>6. CASE AskPage
  <2>1. /\ page' = [open |-> TRUE, todo |-> DataRef, json |-> Empty] /\ message' = NoMessage
        /\ entries' = entries /\ slot' = slot /\ sim' = sim /\ read' = read
        /\ reading' = reading /\ crashed' = crashed /\ crashed = "no"
    BY <1>6 DEF AskPage, Running
  <2> QED
    BY <2>1 DEF IInv, Functions, Sized, Slots, Ended, EndedOK, Plain, PageInSlot, NoMessage
<1>7. CASE EndPage
  <2>1. /\ page' = NoPage /\ message' = NoMessage
        /\ entries' = entries /\ slot' = slot /\ sim' = sim /\ read' = read
        /\ reading' = reading /\ crashed' \in {"no", "page 316"}
    BY <1>7 DEF EndPage
  <2> QED
    BY <2>1 DEF IInv, Functions, Sized, Slots, Ended, EndedOK, Plain, PageInSlot, NoMessage,
                NoPage, Crashes
<1>8. CASE UNCHANGED vars
  BY <1>8 DEF vars, IInv, Functions, Sized, Slots, Ended, EndedOK, Plain, PageInSlot
<1> QED
  BY <1>1, <1>2, <1>3, <1>4, <1>5, <1>6, <1>7, <1>8 DEF Next

LEMMA Invariant == Spec => []IInv
BY Inits, Steps, PTL DEF Spec

-----------------------------------------------------------------------------
(* Induction *)

(* A set of numbers has a least one. *)
LEMMA NatWellOrdered ==
  ASSUME NEW T, T \subseteq Nat, T # {}
  PROVE  \E n \in T : \A k \in T : n <= k
<1> DEFINE R == OpToRel(<, Nat)
<1>1. IsWellFoundedOn(R, Nat)
  BY NatLessThanWellFounded
<1>2. \A k, n \in Nat : <<k, n>> \in R <=> k < n
  BY DEF OpToRel
<1> HIDE DEF R
<1>3. PICK n \in T : \A k \in T : <<k, n>> \notin R
  BY <1>1, WFMin
<1>4. n \in Nat /\ \A k \in T : k \in Nat
  OBVIOUS
<1>5. \A k \in T : ~(k < n)
  BY <1>2, <1>3, <1>4
<1> QED
  BY <1>4, <1>5

(* Induction, over the set of the numbers of which a formula is true. *)
LEMMA NatSetInduction ==
  ASSUME NEW T, 0 \in T, \A n \in Nat : n \in T => n + 1 \in T
  PROVE  Nat \subseteq T
<1> DEFINE U == Nat \ T
<1> SUFFICES ASSUME U # {} PROVE FALSE
  OBVIOUS
<1>1. PICK n \in U : \A k \in U : n <= k
  <2>1. U \subseteq Nat
    OBVIOUS
  <2> HIDE DEF U
  <2> QED
    BY <2>1, NatWellOrdered
<1>2. n - 1 \in Nat /\ n - 1 \notin U
  BY <1>1
<1>3. (n - 1) + 1 \in T
  BY <1>2
<1> QED
  BY <1>3

-----------------------------------------------------------------------------
(* The loop of buildJson() *)

Start == [json |-> Empty, error |-> FALSE]

Rounds(made, cell, n) ==
  made = [k \in 0 .. n |-> IF k = 0 THEN Start ELSE AddEntry(made[k - 1], entries[k], cell)]

(* There is a function of the rounds up to any n ... *)
LEMMA RoundsExist ==
  ASSUME NEW cell, NEW n \in Nat
  PROVE  \E made : Rounds(made, cell, n)
<1> DEFINE T == {m \in Nat : \E made : Rounds(made, cell, m)}
<1>1. 0 \in T
  <2> DEFINE made == [k \in 0 .. 0 |-> Start]
  <2>1. Rounds(made, cell, 0)
    BY DEF Rounds
  <2> QED
    BY <2>1
<1>2. ASSUME NEW m \in Nat, m \in T PROVE m + 1 \in T
  <2>1. PICK made : Rounds(made, cell, m)
    BY <1>2
  <2> DEFINE more == [k \in 0 .. m + 1 |->
                        IF k = m + 1 THEN AddEntry(made[m], entries[m + 1], cell) ELSE made[k]]
  <2>2. \A k \in 0 .. m : more[k] = made[k]
    OBVIOUS
  <2>3. \A k \in 0 .. m + 1 :
          more[k] = IF k = 0 THEN Start ELSE AddEntry(more[k - 1], entries[k], cell)
    <3>1. TAKE k \in 0 .. m + 1
    <3>2. CASE k = m + 1
      <4>1. k # 0 /\ k - 1 = m /\ more[m] = made[m]
        BY <2>2, <3>2
      <4>2. more[k] = AddEntry(made[m], entries[m + 1], cell)
        BY <3>2
      <4> HIDE DEF more
      <4> QED
        BY <3>2, <4>1, <4>2
    <3>3. CASE k # m + 1
      <4>1. k \in 0 .. m /\ more[k] = made[k]
        BY <2>2, <3>3
      <4>2. made[k] = IF k = 0 THEN Start ELSE AddEntry(made[k - 1], entries[k], cell)
        BY <2>1, <4>1 DEF Rounds
      <4>3. k # 0 => more[k - 1] = made[k - 1]
        BY <2>2, <4>1
      <4> HIDE DEF more
      <4> QED
        BY <4>1, <4>2, <4>3
    <3> QED
      BY <3>2, <3>3
  <2>4. more = [k \in 0 .. m + 1 |-> more[k]]
    OBVIOUS
  <2> HIDE DEF more
  <2>5. Rounds(more, cell, m + 1)
    BY <2>3, <2>4 DEF Rounds
  <2> QED
    BY <2>5
<1> HIDE DEF T
<1>3. Nat \subseteq T
  BY <1>1, <1>2, NatSetInduction
<1> QED
  BY <1>3 DEF T

(* ... and buildJson() returns its last value. *)
LEMMA BuildRounds ==
  ASSUME NEW cell, Len(entries) \in Nat
  PROVE  \E made : Rounds(made, cell, Len(entries)) /\ BuildJson(cell) = made[Len(entries)]
<1>1. \E made : Rounds(made, cell, Len(entries))
  BY RoundsExist
<1> QED
  BY <1>1, Zenon DEF BuildJson, Rounds, Start

(* The kind of the slot of entry i, and what is put into a message for it. *)
KindOf(i) == Kind(slot[entries[i].name].mask)

Piece(i, cell) == Value(KindOf(i), cell[entries[i].name], entries[i].mul)

UpTo(n) == {k \in 1 .. n : Contributes(k)}

SameUpTo(i, n) == {k \in UpTo(n) : entries[k].alias = entries[i].alias}

(* The cells that a message is made from have the size of their slots. *)
CellsOK(cell) ==
  \A d \in DataRef :
    slot[d].found /\ Kind(slot[d].mask) \in Array =>
      slot[d].count \in Nat /\ Len(cell[d]) = slot[d].count

LEMMA ContributesBy ==
  ASSUME NEW i
  PROVE  Contributes(i) <=>
           /\ slot[entries[i].name].found
           /\ KindOf(i) \in Kinds
           /\ KindOf(i) \in Array => slot[entries[i].name].count > 0
<1> DEFINE mask == slot[entries[i].name].mask
<1>1. \A t \in Kinds : KindOf(i) = t <=> mask = {t}
  BY KindIs DEF KindOf
<1>2. /\ mask \in {{"float"}, {"int"}, {"data"}} <=> KindOf(i) \in {"float", "int", "data"}
      /\ mask \in {{"floats"}, {"ints"}} <=> KindOf(i) \in {"floats", "ints"}
  BY <1>1 DEF Kinds
<1> QED
  BY <1>2 DEF Contributes, Kinds, Array

LEMMA PieceIs ==
  ASSUME NEW i, NEW cell, KindOf(i) \in Kinds
  PROVE  /\ Piece(i, cell).is = "text" <=> KindOf(i) = "data"
         /\ Piece(i, cell).is = "array" <=> KindOf(i) \in Array
         /\ KindOf(i) = "data" => Piece(i, cell).val = Text(cell[entries[i].name])
         /\ KindOf(i) # "data" =>
              Piece(i, cell).val = [k \in 1 .. Len(cell[entries[i].name]) |->
                                      Number(cell[entries[i].name][k], KindOf(i), entries[i].mul)]
BY DEF Piece, Value, Kinds, Array

(* An array is put element by element: one without elements changes        *)
(* nothing.                                                                *)
LEMMA PieceEmpty ==
  ASSUME NEW i, NEW cell, CellsOK(cell), KindOf(i) \in Array,
         slot[entries[i].name].found, entries[i].name \in DataRef
  PROVE  Piece(i, cell).val = <<>> <=> ~(slot[entries[i].name].count > 0)
<1> DEFINE c == cell[entries[i].name]
           v == Piece(i, cell).val
<1>1. Len(c) = slot[entries[i].name].count /\ Len(c) \in Nat
  BY DEF CellsOK, KindOf
<1>2. v = [k \in 1 .. Len(c) |-> Number(c[k], KindOf(i), entries[i].mul)]
  BY PieceIs DEF Kinds, Array
<1>3. Len(c) = 0 => v = <<>>
  BY <1>2
<1>4. v = <<>> => Len(c) = 0
  <2>1. DOMAIN v = 1 .. Len(c)
    BY <1>2
  <2>2. v = <<>> => DOMAIN v = {}
    OBVIOUS
  <2> QED
    BY <1>1, <2>1, <2>2
<1> QED
  BY <1>1, <1>3, <1>4

(* An array that is put is one, and is as it was if its key is new. *)
LEMMA PutArray ==
  ASSUME NEW j, NEW key, NEW is, NEW val, NEW S, val \in Seq(S),
         is = "array", val # <<>>
  PROVE  /\ Put(j, key, [is |-> is, val |-> val])[key].is = "array"
         /\ key \notin DOMAIN j =>
              Put(j, key, [is |-> is, val |-> val])[key] = [is |-> is, val |-> val]
<1> DEFINE v == [is |-> is, val |-> val]
           old == IF key \in DOMAIN j /\ j[key].is = "array" THEN j[key].val ELSE <<>>
           new == [is |-> "array", val |-> val \o SubSeq(old, Len(val) + 1, Len(old))]
<1>1. Put(j, key, v)[key] = new
  BY DEF Put
<1>2. key \notin DOMAIN j => old = <<>>
  OBVIOUS
<1>3. SubSeq(<<>>, Len(val) + 1, Len(<<>>)) = <<>>
  OBVIOUS
<1>4. val \o <<>> = val
  OBVIOUS
<1> QED
  BY <1>1, <1>2, <1>3, <1>4

(* What buildJson() has made of the first n entries: *)
IsMade(m) ==
  /\ m = [json |-> m.json, error |-> m.error] /\ m.error \in BOOLEAN
  /\ m.json = [key \in DOMAIN m.json |-> m.json[key]]

(* its keys, *)
KeysOK(m, n) == ~m.error => DOMAIN m.json = {entries[k].alias : k \in UpTo(n)}

(* what its numbers and texts come from, *)
PlainAt(k, key, v, cell) ==
  /\ entries[k].alias = key /\ KindOf(k) \in {"float", "int", "data"}
  /\ v.is = "text" => KindOf(k) = "data" /\ v.val = Text(cell[entries[k].name])

PlainsOK(m, n, cell) ==
  \A key \in DOMAIN m.json :
    m.json[key].is # "array" => \E k \in UpTo(n) : PlainAt(k, key, m.json[key], cell)

(* why it is an error, *)
Mixed(i, k) ==
  /\ i < k /\ entries[i].alias = entries[k].alias
  /\ KindOf(i) \in {"float", "int", "data"} /\ KindOf(k) \in Array

ErrorOK(m, n) == m.error => \E i, k \in UpTo(n) : Mixed(i, k)

(* and which of the values that were put are still there. *)
Lasts(i, n) ==
  SameUpTo(i, n) \subseteq 1 .. i /\ (KindOf(i) \in Array => SameUpTo(i, n) = {i})

ValuesOK(m, n, cell) ==
  ~m.error => \A i \in UpTo(n) : Lasts(i, n) => m.json[entries[i].alias] = Piece(i, cell)

MadeOK(m, n, cell) ==
  IsMade(m) /\ KeysOK(m, n) /\ PlainsOK(m, n, cell) /\ ErrorOK(m, n) /\ ValuesOK(m, n, cell)

LEMMA UpToNext ==
  ASSUME NEW n \in Nat
  PROVE  /\ UpTo(n) \subseteq 1 .. n /\ UpTo(n) \subseteq UpTo(n + 1)
         /\ ~Contributes(n + 1) => UpTo(n + 1) = UpTo(n)
         /\ Contributes(n + 1) => UpTo(n + 1) = UpTo(n) \cup {n + 1}
<1>1. 1 .. n + 1 = 1 .. n \cup {n + 1}
  OBVIOUS
<1> QED
  BY <1>1 DEF UpTo

(* A round that skips its entry. *)
LEMMA SkipKeeps ==
  ASSUME NEW n \in Nat, NEW cell, NEW m, MadeOK(m, n, cell), m.error \/ ~Contributes(n + 1)
  PROVE  MadeOK(m, n + 1, cell)
<1>1. PlainsOK(m, n + 1, cell)
  BY UpToNext DEF MadeOK, PlainsOK
<1>2. ErrorOK(m, n + 1)
  BY UpToNext DEF MadeOK, ErrorOK
<1>3. CASE m.error
  BY <1>1, <1>2, <1>3 DEF MadeOK, KeysOK, ValuesOK
<1>4. CASE ~Contributes(n + 1)
  <2>1. UpTo(n + 1) = UpTo(n) /\ \A i : SameUpTo(i, n + 1) = SameUpTo(i, n)
    BY <1>4, UpToNext DEF SameUpTo
  <2> QED
    BY <1>1, <1>2, <2>1 DEF MadeOK, KeysOK, ValuesOK, Lasts
<1> QED
  BY <1>3, <1>4

(* A round that throws. *)
LEMMA ThrowKeeps ==
  ASSUME NEW n \in Nat, NEW cell, NEW m, MadeOK(m, n, cell), ~m.error,
         Contributes(n + 1), Throws305(m.json, entries[n + 1].alias, Piece(n + 1, cell))
  PROVE  MadeOK([json |-> m.json, error |-> TRUE], n + 1, cell)
<1> DEFINE e == entries[n + 1]
           after == [json |-> m.json, error |-> TRUE]
<1>1. IsMade(m)
  BY DEF MadeOK
<1>2. after = [json |-> m.json, error |-> TRUE]
  OBVIOUS
<1> HIDE DEF after
<1>3. after.json = m.json /\ after.error = TRUE /\ IsMade(after)
  BY <1>1, <1>2 DEF IsMade
<1>4. KindOf(n + 1) \in Kinds
  BY ContributesBy
<1>5. Piece(n + 1, cell).is = "array" /\ e.alias \in DOMAIN m.json /\ m.json[e.alias].is # "array"
  BY DEF Throws305
<1>6. KindOf(n + 1) \in Array
  BY <1>4, <1>5, PieceIs
<1>7. PICK k \in UpTo(n) : PlainAt(k, e.alias, m.json[e.alias], cell)
  BY <1>5 DEF MadeOK, PlainsOK
<1>8. k < n + 1 /\ k \in UpTo(n + 1) /\ n + 1 \in UpTo(n + 1)
  BY <1>7, UpToNext
<1>9. ErrorOK(after, n + 1)
  <2>1. Mixed(k, n + 1)
    BY <1>6, <1>7, <1>8 DEF PlainAt, Mixed
  <2> QED
    BY <1>8, <2>1 DEF ErrorOK
<1>10. PlainsOK(after, n + 1, cell)
  BY <1>3, UpToNext DEF MadeOK, PlainsOK
<1>11. MadeOK(after, n + 1, cell)
  BY <1>3, <1>9, <1>10 DEF MadeOK, KeysOK, ValuesOK
<1> QED
  BY <1>11 DEF after

(* A round that puts a value: it is the last one of its alias now. *)
LEMMA PutKeeps ==
  ASSUME NEW n \in Nat, NEW cell, NEW m, MadeOK(m, n, cell), ~m.error, CellsOK(cell),
         Contributes(n + 1), entries[n + 1].name \in DataRef
  PROVE  MadeOK([m EXCEPT !.json = Put(@, entries[n + 1].alias, Piece(n + 1, cell))], n + 1, cell)
<1> DEFINE e == entries[n + 1]
           v == Piece(n + 1, cell)
           j == Put(m.json, e.alias, v)
           after == [m EXCEPT !.json = Put(@, e.alias, v)]
<1>1. IsMade(m)
  BY DEF MadeOK
<1>2. after = [json |-> j, error |-> m.error]
  BY <1>1 DEF IsMade
<1>3. KindOf(n + 1) \in Kinds /\ slot[e.name].found
        /\ (KindOf(n + 1) \in Array => slot[e.name].count > 0)
  BY ContributesBy
<1>4. /\ v.is = "text" <=> KindOf(n + 1) = "data"
      /\ v.is = "array" <=> KindOf(n + 1) \in Array
      /\ KindOf(n + 1) = "data" => v.val = Text(cell[e.name])
  BY <1>3, PieceIs
<1>5. ~(v.is = "array" /\ v.val = <<>>)
  BY <1>3, <1>4, PieceEmpty
<1>6. DOMAIN j = DOMAIN m.json \cup {e.alias} /\ j = [k \in DOMAIN j |-> j[k]]
  BY <1>5 DEF Put
<1>7. \A k \in DOMAIN m.json : k # e.alias => j[k] = m.json[k]
  BY <1>5 DEF Put
<1>8. v.is # "array" => j[e.alias] = v
  BY <1>5 DEF Put
<1> HIDE DEF v
<1>9. ASSUME v.is = "array"
      PROVE  /\ j[e.alias].is = "array"
             /\ e.alias \notin DOMAIN m.json => j[e.alias] = v
  <2>1. KindOf(n + 1) \in Array
    BY <1>4, <1>9
  <2>2. Len(cell[e.name]) \in Nat
    BY <1>3, <2>1 DEF CellsOK, KindOf
  <2> DEFINE c == cell[e.name]
             val == [k \in 1 .. Len(c) |-> Number(c[k], KindOf(n + 1), e.mul)]
             S == {val[k] : k \in 1 .. Len(c)}
  <2>3. v = [is |-> "array", val |-> val]
    BY <2>1 DEF v, Piece, Value, Array
  <2>4. val \in Seq(S)
    BY <2>2
  <2> HIDE DEF val, S
  <2>5. val # <<>>
    BY <1>5, <2>3
  <2>6. /\ Put(m.json, e.alias, [is |-> "array", val |-> val])[e.alias].is = "array"
        /\ e.alias \notin DOMAIN m.json =>
             Put(m.json, e.alias, [is |-> "array", val |-> val])[e.alias] = [is |-> "array", val |-> val]
    BY <2>4, <2>5, PutArray
  <2> QED
    BY <2>3, <2>6
<1> HIDE DEF j, after
<1>10. UpTo(n + 1) = UpTo(n) \cup {n + 1} /\ UpTo(n) \subseteq 1 .. n
  BY UpToNext
<1>11. DOMAIN m.json = {entries[k].alias : k \in UpTo(n)}
  BY DEF MadeOK, KeysOK
<1>12. after.json = j /\ ~after.error /\ IsMade(after)
  BY <1>1, <1>2, <1>6 DEF IsMade
<1>13. KeysOK(after, n + 1)
  BY <1>6, <1>10, <1>11, <1>12 DEF KeysOK
<1>14. ASSUME NEW key \in DOMAIN j, j[key].is # "array"
       PROVE  \E k \in UpTo(n + 1) : PlainAt(k, key, j[key], cell)
  <2>1. CASE key = e.alias
    <3>1. v.is # "array" /\ j[key] = v
      BY <1>8, <1>9, <1>14, <2>1
    <3>2. KindOf(n + 1) \in {"float", "int", "data"}
      BY <1>3, <1>4, <3>1 DEF Kinds, Array
    <3>3. PlainAt(n + 1, key, j[key], cell)
      BY <1>4, <2>1, <3>1, <3>2 DEF PlainAt
    <3> QED
      BY <1>10, <3>3
  <2>2. CASE key # e.alias
    <3>1. key \in DOMAIN m.json /\ j[key] = m.json[key]
      BY <1>6, <1>7, <2>2
    <3> QED
      BY <1>10, <1>14, <3>1 DEF MadeOK, PlainsOK
  <2> QED
    BY <2>1, <2>2
<1>15. ASSUME NEW i \in UpTo(n + 1), Lasts(i, n + 1)
       PROVE  j[entries[i].alias] = Piece(i, cell)
  <2>1. CASE i = n + 1
    <3>1. CASE v.is # "array"
      BY <1>8, <2>1, <3>1 DEF v
    <3>2. CASE v.is = "array"
      <4>1. SameUpTo(n + 1, n + 1) = {n + 1}
        BY <1>4, <1>15, <2>1, <3>2 DEF Lasts
      <4>2. e.alias \notin DOMAIN m.json
        <5>1. SUFFICES ASSUME NEW k \in UpTo(n), entries[k].alias = e.alias PROVE FALSE
          BY <1>11
        <5>2. k \in SameUpTo(n + 1, n + 1) /\ k # n + 1
          BY <1>10, <5>1 DEF SameUpTo
        <5> QED
          BY <4>1, <5>2
      <4> QED
        BY <1>9, <2>1, <3>2, <4>2 DEF v
    <3> QED
      BY <3>1, <3>2
  <2>2. CASE i # n + 1
    <3>1. i \in UpTo(n) /\ i < n + 1
      BY <1>10, <2>2
    <3>2. entries[i].alias # e.alias
      <4>1. SUFFICES ASSUME entries[i].alias = e.alias PROVE FALSE
        OBVIOUS
      <4>2. n + 1 \in SameUpTo(i, n + 1)
        BY <1>10, <4>1 DEF SameUpTo
      <4>3. n + 1 \in 1 .. i
        BY <1>15, <4>2 DEF Lasts
      <4> QED
        BY <1>10, <3>1, <4>3
    <3>3. SameUpTo(i, n + 1) = SameUpTo(i, n)
      BY <1>10, <3>2 DEF SameUpTo
    <3>4. Lasts(i, n)
      BY <1>15, <3>3 DEF Lasts
    <3>5. m.json[entries[i].alias] = Piece(i, cell)
      BY <3>1, <3>4 DEF MadeOK, ValuesOK
    <3>6. entries[i].alias \in DOMAIN m.json
      BY <1>11, <3>1
    <3> QED
      BY <1>7, <3>2, <3>5, <3>6
  <2> QED
    BY <2>1, <2>2
<1>16. PlainsOK(after, n + 1, cell) /\ ErrorOK(after, n + 1) /\ ValuesOK(after, n + 1, cell)
  BY <1>12, <1>14, <1>15 DEF PlainsOK, ErrorOK, ValuesOK
<1>17. MadeOK(after, n + 1, cell)
  BY <1>12, <1>13, <1>16 DEF MadeOK
<1> QED
  BY <1>17 DEF after, j, v

(* The entries up to n name datarefs of the registry. *)
Named(n) == \A i \in 1 .. n : entries[i].name \in DataRef

(* Any round. *)
LEMMA RoundKeeps ==
  ASSUME NEW n \in Nat, NEW cell, NEW m, MadeOK(m, n, cell), CellsOK(cell), Named(n + 1)
  PROVE  MadeOK(AddEntry(m, entries[n + 1], cell), n + 1, cell)
<1> DEFINE e == entries[n + 1]
           v == Piece(n + 1, cell)
<1>1. e.name \in DataRef /\ m.error \in BOOLEAN
  BY DEF Named, MadeOK, IsMade
<1>2. AddEntry(m, e, cell) =
        IF m.error \/ ~slot[e.name].found \/ KindOf(n + 1) = "other" THEN m
        ELSE IF Throws305(m.json, e.alias, v) THEN [json |-> m.json, error |-> TRUE]
        ELSE [m EXCEPT !.json = Put(@, e.alias, v)]
  BY DEF AddEntry, KindOf, Piece
<1>3. CASE m.error \/ ~slot[e.name].found \/ KindOf(n + 1) = "other"
  <2>1. AddEntry(m, e, cell) = m
    BY <1>2, <1>3
  <2>2. m.error \/ ~Contributes(n + 1)
    BY <1>3, ContributesBy DEF Kinds
  <2> QED
    BY <2>1, <2>2, SkipKeeps
<1>4. CASE ~(m.error \/ ~slot[e.name].found \/ KindOf(n + 1) = "other")
  <2>1. KindOf(n + 1) \in Kinds /\ ~m.error /\ slot[e.name].found
    BY <1>4, KindIs DEF KindOf
  <2>2. CASE Throws305(m.json, e.alias, v)
    <3>1. KindOf(n + 1) \in Array /\ v.val # <<>>
      BY <2>1, <2>2, PieceIs DEF Throws305
    <3>2. Contributes(n + 1)
      BY <1>1, <2>1, <3>1, PieceEmpty, ContributesBy
    <3>3. AddEntry(m, e, cell) = [json |-> m.json, error |-> TRUE]
      BY <1>2, <1>4, <2>2
    <3> QED
      BY <2>1, <2>2, <3>2, <3>3, ThrowKeeps
  <2>3. CASE ~Throws305(m.json, e.alias, v)
    <3>1. AddEntry(m, e, cell) = [m EXCEPT !.json = Put(@, e.alias, v)]
      BY <1>2, <1>4, <2>3
    <3>2. CASE Contributes(n + 1)
      BY <1>1, <2>1, <3>1, <3>2, PutKeeps
    <3>3. CASE ~Contributes(n + 1)
      <4>1. KindOf(n + 1) \in Array /\ ~(slot[e.name].count > 0)
        BY <2>1, <3>3, ContributesBy
      <4>2. v.is = "array" /\ v.val = <<>>
        BY <1>1, <2>1, <4>1, PieceIs, PieceEmpty
      <4>3. Put(m.json, e.alias, v) = m.json
        BY <4>2 DEF Put
      <4>4. [m EXCEPT !.json = Put(@, e.alias, v)] = m
        BY <4>3 DEF MadeOK, IsMade
      <4> QED
        BY <3>1, <3>3, <4>4, SkipKeeps
    <3> QED
      BY <3>2, <3>3
  <2> QED
    BY <2>2, <2>3
<1> QED
  BY <1>3, <1>4

(* What buildJson() makes of all entries. *)
LEMMA BuildMakes ==
  ASSUME NEW cell, CellsOK(cell), Len(entries) \in Nat, Named(Len(entries))
  PROVE  MadeOK(BuildJson(cell), Len(entries), cell)
<1> DEFINE N == Len(entries)
<1>1. PICK made : Rounds(made, cell, N) /\ BuildJson(cell) = made[N]
  BY BuildRounds
<1>2. \A k \in 0 .. N :
        made[k] = IF k = 0 THEN Start ELSE AddEntry(made[k - 1], entries[k], cell)
  BY <1>1 DEF Rounds
<1> DEFINE T == {n \in Nat : n <= N => MadeOK(made[n], n, cell)}
<1>3. 0 \in T
  <2>1. made[0] = Start
    BY <1>2
  <2>2. Start.json = Empty /\ Start.error = FALSE /\ DOMAIN Empty = {}
          /\ Start = [json |-> Start.json, error |-> Start.error]
          /\ Empty = [key \in DOMAIN Empty |-> Empty[key]]
    BY DEF Start, Empty
  <2>3. UpTo(0) = {}
    BY DEF UpTo
  <2>4. MadeOK(Start, 0, cell)
    <3> HIDE DEF Start, Empty
    <3> QED
    BY <2>2, <2>3 DEF MadeOK, IsMade, KeysOK, PlainsOK, ErrorOK, ValuesOK
  <2> QED
    BY <2>1, <2>4
<1>4. ASSUME NEW n \in Nat, n \in T PROVE n + 1 \in T
  <2>1. SUFFICES ASSUME n + 1 <= N PROVE MadeOK(made[n + 1], n + 1, cell)
    OBVIOUS
  <2>2. MadeOK(made[n], n, cell)
    BY <1>4, <2>1
  <2>3. made[n + 1] = AddEntry(made[n], entries[n + 1], cell)
    BY <1>2, <2>1
  <2>4. Named(n + 1)
    BY <2>1 DEF Named
  <2> QED
    BY <2>2, <2>3, <2>4, RoundKeeps
<1> HIDE DEF T
<1>5. Nat \subseteq T
  BY <1>3, <1>4, NatSetInduction
<1>6. N \in T
  BY <1>5
<1> QED
  BY <1>1, <1>6 DEF T

-----------------------------------------------------------------------------
(* What a message shows *)

LEMMA MinIs ==
  ASSUME NEW S, NEW m \in S, S \subseteq Int, \A k \in S : m <= k
  PROVE  Min(S) = m
<1>1. Min(S) \in S /\ \A k \in S : Min(S) =< k
  <2>1. \E x \in S : \A y \in S : x =< y
    OBVIOUS
  <2> QED
    BY <2>1, Zenon DEF Min
<1>2. Min(S) \in Int /\ m \in Int /\ Min(S) =< m /\ m =< Min(S)
  BY <1>1
<1> QED
  BY <1>2

(* A text ends at its first NUL. *)
LEMMA TextIs ==
  ASSUME NEW c \in Seq(Elem), NEW m \in 1 .. Len(c), c[m] = NUL,
         \A k \in 1 .. m - 1 : c[k] # NUL
  PROVE  Text(c) = SubSeq(c, 1, m - 1)
<1> DEFINE S == {i \in 1 .. Len(c) : c[i] = NUL}
<1>1. m \in S /\ S \subseteq Int /\ \A k \in S : m <= k
  OBVIOUS
<1>2. Terminated(c)
  BY DEF Terminated
<1> HIDE DEF S
<1>3. Min(S) = m
  BY <1>1, MinIs
<1> QED
  BY <1>2, <1>3 DEF Text, S

(* The text of the simulator, cut to what a slot can hold, is what is      *)
(* found before the first NUL of the slot once it has been copied.         *)
LEMMA TextShown ==
  ASSUME IInv, NEW d \in DataRef, slot[d].found, slot[d].mask = {"data"}, Ends(d)
  PROVE  Text(ReadDataRef(d)) = Shown(d)
<1> DEFINE val == sim[d].val
           c   == ReadDataRef(d)
           L   == Min({Cap - 1, Len(val)})
           s   == SubSeq(val, 1, L)
<1>1. val \in Seq(Elem) /\ Len(val) \in Nat /\ Cap \in Nat /\ Cap > 1
  BY SimElements, SizeAssumption DEF IInv
<1>2. Kind(slot[d].mask) = "data" /\ "data" \in sim[d].mask
  BY KindIs DEF Ends
<1>3. c \in Seq(Elem) /\ Len(c) = Cap /\ c[Cap] = NUL
  <2>1. Len(slot[d].cell) = Cap
    BY <1>2 DEF IInv, Slots, SlotOK, Size, Scalar
  <2> QED
    BY <1>2, <2>1, CopySize
<1>4. \A i \in 1 .. Cap - 1 : i <= Len(val) => c[i] = val[i]
  <2>1. Copy(d) = Overlay(val, slot[d].cell)
    BY <1>2 DEF Copy, Scalar, Array
  <2>2. slot[d].cell \in Seq(Elem) /\ Len(slot[d].cell) = Cap
    BY <1>2 DEF IInv, Slots, SlotOK, Size, Scalar
  <2>3. c = [Overlay(val, slot[d].cell) EXCEPT ![Cap] = NUL]
    BY <1>2, <2>1 DEF ReadDataRef
  <2>4. /\ Overlay(val, slot[d].cell) \in Seq(Elem) /\ Len(Overlay(val, slot[d].cell)) = Cap
        /\ \A i \in 1 .. Cap :
             Overlay(val, slot[d].cell)[i] = IF i <= Len(val) THEN val[i] ELSE slot[d].cell[i]
    BY <1>1, <2>2, OverlaySize
  <2> QED
    BY <1>1, <2>3, <2>4
<1>5. L = IF Cap - 1 <= Len(val) THEN Cap - 1 ELSE Len(val)
  <2> DEFINE S == {Cap - 1, Len(val)}
  <2>0. S \subseteq Int
    BY <1>1
  <2>1. CASE Cap - 1 <= Len(val)
    <3>1. Cap - 1 \in S /\ \A k \in S : Cap - 1 <= k
      BY <1>1, <2>1
    <3> HIDE DEF S
    <3>2. Min(S) = Cap - 1
      BY <2>0, <3>1, MinIs
    <3> QED
      BY <2>1, <3>2 DEF S
  <2>2. CASE ~(Cap - 1 <= Len(val))
    <3>1. Len(val) \in S /\ \A k \in S : Len(val) <= k
      BY <1>1, <2>2
    <3> HIDE DEF S
    <3>2. Min(S) = Len(val)
      BY <2>0, <3>1, MinIs
    <3> QED
      BY <2>2, <3>2 DEF S
  <2> QED
    BY <2>1, <2>2
<1>6. Shown(d) = Text(s)
  BY DEF Shown
<1> HIDE DEF L, c, val
<1>7. L \in Nat /\ L <= Cap - 1 /\ L <= Len(val)
  BY <1>1, <1>5
<1>8. s \in Seq(Elem) /\ Len(s) = L /\ \A i \in 1 .. L : s[i] = val[i]
  BY <1>1, <1>7
<1>9. \A i \in 1 .. L : s[i] = c[i]
  <2>1. TAKE i \in 1 .. L
  <2>2. i \in 1 .. Cap - 1 /\ i <= Len(val)
    BY <1>1, <1>7
  <2> QED
    BY <1>4, <1>8, <2>2
<1> HIDE DEF s
<1>10. CASE \E i \in 1 .. L : s[i] = NUL
  <2> DEFINE T == {i \in 1 .. L : s[i] = NUL}
  <2>1. T \subseteq Nat /\ T # {}
    BY <1>10
  <2>2. PICK m \in T : \A k \in T : m <= k
    <3> HIDE DEF T
    <3> QED
      BY <2>1, NatWellOrdered
  <2>3. m \in 1 .. L /\ s[m] = NUL /\ \A k \in 1 .. m - 1 : s[k] # NUL
    BY <1>7, <2>2
  <2>4. m \in 1 .. Len(c) /\ c[m] = NUL /\ \A k \in 1 .. m - 1 : c[k] # NUL
    BY <1>3, <1>7, <1>9, <2>3
  <2>5. Text(s) = SubSeq(s, 1, m - 1)
    BY <1>8, <2>3, TextIs
  <2>6. Text(c) = SubSeq(c, 1, m - 1)
    BY <1>3, <2>4, TextIs
  <2>7. SubSeq(s, 1, m - 1) = SubSeq(c, 1, m - 1)
    BY <1>3, <1>7, <1>8, <1>9, <2>3
  <2> QED
    BY <1>6, <2>5, <2>6, <2>7 DEF c
<1>11. CASE \A i \in 1 .. L : s[i] # NUL
  <2>1. L = Cap - 1
    <3>1. SUFFICES ASSUME ~(Cap - 1 <= Len(val)) PROVE FALSE
      BY <1>5
    <3>2. L = Len(val) /\ Terminated(val)
      BY <1>1, <1>5, <3>1 DEF Ends, val
    <3> QED
      BY <1>8, <1>11, <3>2 DEF Terminated
  <2>2. Text(s) = s
    BY <1>8, <1>11 DEF Text, Terminated
  <2>3. Text(c) = SubSeq(c, 1, Cap - 1)
    BY <1>1, <1>3, <1>9, <1>11, <2>1, TextIs
  <2>4. SubSeq(c, 1, Cap - 1) = s
    BY <1>1, <1>3, <1>8, <1>9, <2>1
  <2> QED
    BY <1>6, <2>2, <2>3, <2>4 DEF c
<1> QED
  BY <1>10, <1>11

(* The cells that update() makes a message from. *)
Cells == [d \in DataRef |-> IF slot[d].found THEN ReadDataRef(d) ELSE <<>>]

LEMMA CellsFit == IInv => CellsOK(Cells)
<1> SUFFICES ASSUME IInv, NEW d \in DataRef, slot[d].found, Kind(slot[d].mask) \in Array
             PROVE  slot[d].count \in Nat /\ Len(Cells[d]) = slot[d].count
  BY DEF CellsOK
<1>1. Cells[d] = ReadDataRef(d)
  BY DEF Cells
<1>2. Kind(slot[d].mask) \notin Scalar /\ Kind(slot[d].mask) # "data"
  BY DEF Array, Scalar
<1> QED
  BY <1>1, <1>2, CopySize DEF IInv, Slots, SlotOK, Size

LEMMA EntriesNamed == IInv => Len(entries) \in Nat /\ Named(Len(entries))
BY StreamAssumption DEF IInv, Plain, Named

LEMMA SameSeq ==
  ASSUME NEW S, NEW s \in Seq(S), NEW t \in Seq(S), Len(s) = Len(t),
         \A n \in 1 .. Len(t) : s[n] = t[n]
  PROVE  s = t
OBVIOUS

(* What is put for a dataref that is as it was when found. *)
LEMMA PieceShows ==
  ASSUME IInv, NEW i \in 1 .. Len(entries), Contributes(i), Steady(entries[i].name)
  PROVE  Piece(i, Cells) = Showing(entries[i])
<1> DEFINE e == entries[i]
           d == entries[i].name
           k == KindOf(i)
           val == sim[d].val
           c == Cells[d]
<1>1. d \in DataRef
  BY EntriesNamed DEF Named
<1>2. slot[d].found /\ k \in Kinds
  BY ContributesBy
<1>3. \A t \in Kinds : k = t <=> slot[d].mask = {t}
  BY KindIs DEF KindOf
<1>4. sim[d].mask = slot[d].mask /\ sim[d].mask = {k} /\ k \in sim[d].mask
  BY <1>2, <1>3 DEF Steady
<1>5. c = ReadDataRef(d) /\ Kind(slot[d].mask) = k
  BY <1>1, <1>2 DEF Cells, KindOf
<1>6. CASE k = "data"
  <2>1. slot[d].mask = {"data"} /\ sim[d].mask = {"data"}
    BY <1>3, <1>4, <1>6
  <2>2. Text(c) = Shown(d)
    BY <1>1, <1>2, <1>5, <2>1, TextShown DEF Steady
  <2> QED
    BY <1>6, <2>1, <2>2 DEF Piece, Value, Showing
<1>7. CASE k # "data"
  <2>1. sim[d].val \in Seq(Elem) /\ sim[d] \in Sims[d]
    <3>1. sim[d] # Gone
      BY <1>4 DEF Gone
    <3> QED
      BY <1>1, <3>1, SimElements DEF IInv, Sized
  <2>2. c = val
    <3>1. CASE k \in Scalar
      <4>1. Len(val) = 1
        BY <1>1, <1>4, <2>1, <3>1, SimAssumption DEF Scalar
      <4>2. k \notin Array \cup {"data"} /\ k # "other"
        BY <3>1 DEF Scalar, Array
      <4>3. Copy(d) = <<val[1]>>
        BY <1>4, <1>5, <3>1, <4>2 DEF Copy
      <4>4. c = <<val[1]>>
        BY <1>5, <4>2, <4>3 DEF ReadDataRef
      <4> QED
        BY <2>1, <4>1, <4>4
    <3>2. CASE k \in Array
      <4>1. slot[d].cell \in Seq(Elem) /\ Len(slot[d].cell) = slot[d].count
        BY <1>1, <1>2, <1>5, <1>7, <3>2 DEF IInv, Slots, SlotOK, Size, Scalar, Array
      <4>2. Len(val) = slot[d].count
        BY <1>4, <3>2 DEF Steady, Array
      <4>3. c = Overlay(val, slot[d].cell)
        BY <1>4, <1>5, <1>7, <3>2 DEF ReadDataRef, Copy, Scalar, Array
      <4>4. /\ c \in Seq(Elem) /\ Len(c) = Len(val)
            /\ \A n \in 1 .. Len(val) : c[n] = val[n]
        BY <2>1, <4>1, <4>2, <4>3, OverlaySize
      <4> HIDE DEF c, val
      <4> QED
        BY <2>1, <4>4, SameSeq DEF val
    <3> QED
      BY <1>2, <1>7, <3>1, <3>2 DEF Kinds, Scalar, Array
  <2> DEFINE mask == sim[d].mask
  <2>3. mask \in {{"int"}, {"ints"}} <=> k \in {"int", "ints"}
    BY <1>2, <1>4
  <2>4. mask \in {{"float"}, {"int"}} <=> k \notin Array
    BY <1>2, <1>4, <1>7 DEF Kinds, Array
  <2>5. mask # {"data"}
    BY <1>4, <1>7
  <2>6. \A x : Number(x, k, e.mul) = [int |-> mask \in {{"int"}, {"ints"}} /\ e.mul = 1, n |-> x * e.mul]
    BY <2>3 DEF Number
  <2>7. Piece(i, Cells) = [is  |-> IF k \in Array THEN "array" ELSE "number",
                           val |-> [n \in 1 .. Len(val) |-> Number(val[n], k, e.mul)]]
    BY <1>7, <2>2 DEF Piece, Value
  <2>8. Showing(e) = [is  |-> IF k \in Array THEN "array" ELSE "number",
                      val |-> [n \in 1 .. Len(val) |->
                                 [int |-> mask \in {{"int"}, {"ints"}} /\ e.mul = 1,
                                  n |-> val[n] * e.mul]]]
    BY <2>4, <2>5 DEF Showing
  <2>9. [n \in 1 .. Len(val) |-> Number(val[n], k, e.mul)]
          = [n \in 1 .. Len(val) |-> [int |-> mask \in {{"int"}, {"ints"}} /\ e.mul = 1,
                                     n |-> val[n] * e.mul]]
    <3> HIDE DEF mask, val, k, e
    <3> QED
      BY <2>6, Zenon
  <2> QED
    BY <2>7, <2>8, <2>9, Zenon
<1> QED
  BY <1>6, <1>7

(* Filling the slots changes nothing that the properties of a message      *)
(* depend on but their cells.                                              *)
LEMMA SlotsStay ==
  ASSUME IInv, NEW due \in BOOLEAN, Update(due)
  PROVE  /\ entries' = entries /\ sim' = sim
         /\ \A i \in 1 .. Len(entries) :
              /\ slot'[entries[i].name].mask = slot[entries[i].name].mask
              /\ Contributes(i)' <=> Contributes(i)
              /\ Steady(entries[i].name)' <=> Steady(entries[i].name)
              /\ Same(i)' = Same(i)
<1>1. entries' = entries /\ sim' = sim
        /\ slot' = [d \in DataRef |-> [slot[d] EXCEPT !.cell = Cells[d]]]
  BY DEF Update, Cells
<1>2. \A d \in DataRef :
        /\ slot'[d].found = slot[d].found /\ slot'[d].mask = slot[d].mask
        /\ slot'[d].count = slot[d].count
  <2>1. TAKE d \in DataRef
  <2>2. slot[d] = [found |-> slot[d].found, mask |-> slot[d].mask,
                  count |-> slot[d].count, cell |-> slot[d].cell]
    BY DEF IInv, Functions
  <2>3. slot'[d] = [slot[d] EXCEPT !.cell = Cells[d]]
    BY <1>1
  <2> QED
    BY <2>2, <2>3
<1>3. \A i \in 1 .. Len(entries) : Contributes(i)' <=> Contributes(i)
  BY <1>1, <1>2, EntriesNamed DEF Named, Contributes
<1>4. \A i \in 1 .. Len(entries) :
        /\ slot'[entries[i].name].mask = slot[entries[i].name].mask
        /\ Steady(entries[i].name)' <=> Steady(entries[i].name)
  BY <1>1, <1>2, EntriesNamed DEF Named, Steady, Ends
<1>5. \A i \in 1 .. Len(entries) : Same(i)' = Same(i)
  BY <1>1, <1>3 DEF Same
<1> QED
  BY <1>1, <1>3, <1>4, <1>5

LEMMA SameIs == \A i : Same(i) = SameUpTo(i, Len(entries))
BY DEF Same, SameUpTo, UpTo

(* Of the message, or the exception, of an update. *)
Sent == KeysExact /\ Faithful /\ MessageThrows

LEMMA UpdateSends ==
  ASSUME IInv, NEW due \in BOOLEAN, Update(due)
  PROVE  Sent'
<1> DEFINE made == BuildJson(Cells)
           N == Len(entries)
<1>1. N \in Nat /\ Named(N) /\ MadeOK(made, N, Cells)
  BY EntriesNamed, CellsFit, BuildMakes
<1>2. /\ crashed' = IF ~due THEN "no"
                    ELSE IF made.error THEN "message 305"
                    ELSE IF Throws316(made.json) THEN "message 316" ELSE "no"
      /\ message' = IF due /\ crashed' = "no"
                      THEN [sent |-> TRUE, json |-> made.json] ELSE NoMessage
  BY DEF Update, Cells
<1> HIDE DEF made
<1>3. made.error \in BOOLEAN
  BY <1>1 DEF MadeOK, IsMade
<1>4. message'.sent => message'.json = made.json /\ ~made.error
  <2>1. ~NoMessage.sent
    BY DEF NoMessage
  <2> QED
    BY <1>2, <1>3, <2>1
<1>5. KeysExact'
  <2>1. SUFFICES ASSUME message'.sent
                 PROVE  DOMAIN message'.json =
                          {entries[i].alias : i \in {k \in 1 .. N : Contributes(k)}}
    BY SlotsStay DEF KeysExact
  <2> QED
    BY <1>1, <1>4, <2>1 DEF MadeOK, KeysOK, UpTo
<1>6. Faithful'
  <2>1. SUFFICES ASSUME message'.sent, NEW i \in 1 .. N,
                        Contributes(i), Steady(entries[i].name), Same(i) \subseteq 1 .. i,
                        sim[entries[i].name].mask \in {{"floats"}, {"ints"}} => Same(i) = {i}
                 PROVE  message'.json[entries[i].alias] = Showing(entries[i])
    <3>1. \A e : Showing(e)' = Showing(e)
      BY SlotsStay DEF Showing, Shown
    <3> QED
      BY <3>1, SlotsStay DEF Faithful
  <2>2. i \in UpTo(N)
    BY <2>1 DEF UpTo
  <2>3. KindOf(i) \in Array => sim[entries[i].name].mask \in {{"floats"}, {"ints"}}
    BY <2>1, KindIs DEF KindOf, Steady, Array, Kinds
  <2>4. Lasts(i, N)
    BY <2>1, <2>3, SameIs DEF Lasts
  <2>5. made.json[entries[i].alias] = Piece(i, Cells)
    BY <1>1, <1>4, <2>1, <2>2, <2>4 DEF MadeOK, ValuesOK
  <2> QED
    BY <1>4, <2>1, <2>5, PieceShows
<1>7. MessageThrows'
  <2>1. ASSUME crashed' = "message 305"
        PROVE  \E i, k \in 1 .. N :
                 /\ i < k /\ Same(i) = Same(k) /\ {i, k} \subseteq Same(i)
                 /\ slot[entries[i].name].mask \in {{"float"}, {"int"}, {"data"}}
                 /\ slot[entries[k].name].mask \in {{"floats"}, {"ints"}}
    <3>1. made.error
      BY <1>2, <2>1
    <3>2. PICK i, k \in UpTo(N) : Mixed(i, k)
      BY <1>1, <3>1 DEF MadeOK, ErrorOK
    <3>3. i \in 1 .. N /\ k \in 1 .. N /\ {i, k} \subseteq Same(i) /\ Same(i) = Same(k)
      BY <3>2 DEF UpTo, Same, Mixed
    <3>4. slot[entries[i].name].mask \in {{"float"}, {"int"}, {"data"}}
            /\ slot[entries[k].name].mask \in {{"floats"}, {"ints"}}
      BY <3>2, KindIs DEF Mixed, KindOf, Array, Kinds
    <3> QED
      BY <3>2, <3>3, <3>4 DEF Mixed
  <2>2. ASSUME crashed' = "message 316"
        PROVE  \E i \in 1 .. N :
                 LET d == entries[i].name
                 IN slot[d].mask = {"data"} /\ ~(Ends(d) /\ Utf8(Shown(d)))
    <3>1. Throws316(made.json) /\ ~made.error
      BY <1>2, <2>2
    <3>2. PICK key \in DOMAIN made.json : made.json[key].is = "text" /\ ~Utf8(made.json[key].val)
      BY <3>1 DEF Throws316
    <3>3. PICK i \in UpTo(N) : PlainAt(i, key, made.json[key], Cells)
      BY <1>1, <3>2 DEF MadeOK, PlainsOK
    <3> DEFINE d == entries[i].name
    <3>4. i \in 1 .. N /\ d \in DataRef /\ slot[d].found
      BY <1>1, <3>3, ContributesBy DEF UpTo, Named
    <3>5. slot[d].mask = {"data"} /\ made.json[key].val = Text(Cells[d])
      BY <3>2, <3>3, KindIs DEF PlainAt, KindOf
    <3>6. Cells[d] = ReadDataRef(d)
      BY <3>4 DEF Cells
    <3>7. ~(Ends(d) /\ Utf8(Shown(d)))
      BY <3>2, <3>4, <3>5, <3>6, TextShown
    <3> QED
      BY <3>4, <3>5, <3>7
  <2> QED
    BY <2>1, <2>2, SlotsStay DEF MessageThrows, Shown, Ends
<1> QED
  BY <1>5, <1>6, <1>7 DEF Sent

(* Only update() sends, and only it throws so. *)
LEMMA OthersSend ==
  ASSUME Sent, message' = NoMessage \/ UNCHANGED vars,
         crashed' \notin {"message 305", "message 316"} \/ UNCHANGED vars
  PROVE  Sent'
<1>1. CASE UNCHANGED vars
  <2>1. /\ entries' = entries /\ sim' = sim /\ slot' = slot
        /\ message' = message /\ crashed' = crashed
    BY <1>1 DEF vars
  <2>2. \A i : Contributes(i)' <=> Contributes(i)
    BY <2>1 DEF Contributes
  <2>3. \A i : Same(i)' = Same(i)
    BY <2>1, <2>2 DEF Same
  <2>4. \A d : Shown(d)' = Shown(d) /\ (Ends(d)' <=> Ends(d)) /\ (Steady(d)' <=> Steady(d))
    BY <2>1 DEF Steady, Shown, Ends
  <2>5. \A e : Showing(e)' = Showing(e)
    BY <2>1, <2>4 DEF Showing
  <2>6. KeysExact'
    BY <2>1, <2>2 DEF Sent, KeysExact
  <2>7. Faithful'
    BY <2>1, <2>2, <2>3, <2>4, <2>5 DEF Sent, Faithful
  <2>8. MessageThrows'
    BY <2>1, <2>3, <2>4 DEF Sent, MessageThrows
  <2> QED
    BY <2>6, <2>7, <2>8 DEF Sent
<1>2. CASE message' = NoMessage /\ crashed' \notin {"message 305", "message 316"}
  BY <1>2 DEF Sent, KeysExact, Faithful, MessageThrows, NoMessage
<1> QED
  BY <1>1, <1>2

LEMMA SentSteps == IInv /\ Sent /\ [Next]_vars => Sent'
<1> SUFFICES ASSUME IInv, Sent, [Next]_vars PROVE Sent'
  OBVIOUS
<1>1. ASSUME NEW due \in BOOLEAN, Update(due) PROVE Sent'
  BY <1>1, UpdateSends
<1>2. ASSUME NEW d \in DataRef, InitDataRef(d) \/ PageSlot(d) PROVE Sent'
  BY <1>2, OthersSend DEF InitDataRef, PageSlot
<1>3. ASSUME NEW d \in DataRef, NEW s \in Sims[d] \cup {Gone}, SimChange(d, s) PROVE Sent'
  BY <1>3, OthersSend DEF SimChange, Running
<1>4. CASE BeginReads \/ AskPage \/ EndPage
  BY <1>4, OthersSend DEF BeginReads, AskPage, EndPage, Running
<1>5. CASE UNCHANGED vars
  BY <1>5, OthersSend
<1> QED
  BY <1>1, <1>2, <1>3, <1>4, <1>5 DEF Next

LEMMA SentInvariant == Spec => []Sent
<1>1. Init => Sent
  BY DEF Init, Sent, KeysExact, Faithful, MessageThrows, NoMessage
<1> QED
  BY <1>1, SentSteps, Invariant, PTL DEF Spec

-----------------------------------------------------------------------------
(* A slot never holds more than its type gave it room for, whatever the    *)
(* simulator returns, and every other variable has its type.               *)
THEOREM TypeCorrect == Spec => []TypeOK
<1>1. IInv => TypeOK
  BY DEF IInv, Sized, Slots, SlotOK, Size, Plain, Crashes, TypeOK
<1> QED
  BY <1>1, Invariant, PTL

(* The page of the web thread stays inside the slots, which it reads with  *)
(* no lock, but for a first value or a text that fills its slot.           *)
THEOREM PageStaysInSlot == Spec => []PageInSlot
<1>1. IInv => PageInSlot
  BY DEF IInv
<1> QED
  BY <1>1, Invariant, PTL
(* A message has the keys of the datarefs found with one of the five types *)
(* and of no other, for every list of entries.                             *)
THEOREM MessageKeys == Spec => []KeysExact
<1>1. Sent => KeysExact
  BY DEF Sent
<1> QED
  BY <1>1, SentInvariant, PTL

(* It shows what the simulator has at that moment, wherever no entry has   *)
(* replaced or overlaid the value and the dataref is as it was when found. *)
THEOREM MessageFaithful == Spec => []Faithful
<1>1. Sent => Faithful
  BY DEF Sent
<1> QED
  BY <1>1, SentInvariant, PTL

(* buildJson() throws for an alias of a scalar and then of an array, or    *)
(* for a text that is no UTF-8 up to its end or cut, and for nothing else. *)
THEOREM MessageThrowsOnly == Spec => []MessageThrows
<1>1. Sent => MessageThrows
  BY DEF Sent
<1> QED
  BY <1>1, SentInvariant, PTL
==============================================================================
