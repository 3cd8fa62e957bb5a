------------------------------- MODULE Message -------------------------------
(***************************************************************************)
(* The value cache of XplData and the JSON texts made from it: a slot per  *)
(* dataref, filled by the flight loop, read by buildJson() for a stream's  *)
(* message and, on the web server's thread and with no lock, by            *)
(* valuesAsJson() for the page /api/xpl.                                   *)
(*                                                                         *)
(* A dataref is a set of types and a sequence of elements; a scalar is a   *)
(* sequence of one.  Data is text, byte by byte: "a" stands for ASCII and  *)
(* "L" and "C" for the two halves of a two-byte UTF-8 character.  A        *)
(* dataref changes on the thread of the flight loop, never during it.      *)
(*                                                                         *)
(* A definition marked "Fault" is a plausible wrong version of the one     *)
(* that follows it; no specification uses it.                              *)
(***************************************************************************)
EXTENDS Integers, Sequences, SequencesExt

CONSTANTS
  DataRef,
  Sims,     (* Sims[d]: what the simulator may publish as dataref d.       *)
  Streams,  (* Lists of entries that a stream may have.                    *)
  Words,    (* 64: numbers that the union of a slot has room for.          *)
  Cap       (* 256: its bytes.                                             *)

ASSUME SizeAssumption == Words \in Nat /\ Cap \in Nat \ {0, 1}

ASSUME SimAssumption ==
  \A d \in DataRef : \A s \in Sims[d] :
    /\ s.val \in Seq({s.val[i] : i \in 1 .. Len(s.val)})
    /\ {"float", "int"} \cap s.mask # {} => s.val # <<>>
    /\ s.mask \in {{"float"}, {"int"}} => Len(s.val) = 1

ASSUME StreamAssumption ==
  \A s \in Streams : /\ Len(s) \in Nat
                     /\ \A i \in 1 .. Len(s) : s[i].name \in DataRef

VARIABLES
  entries,  (* The entries of a stream: name, alias, mul.                  *)
  sim,      (* Simulator: the types and elements of each dataref.          *)
  slot,     (* The registry: found, and type, valuesCount and value once   *)
            (* it is; cell holds the elements of the value.                *)
  reading,  (* The flight loop is copying values into the slots.           *)
  read,     (* History: the slots that it has filled at least once.        *)
  message,  (* What the step just taken passed to sendData.                *)
  page,     (* The page that the web thread is building.                   *)
  crashed   (* The exception or overrun that ends the program, or "no".    *)

vars == <<entries, sim, slot, reading, read, message, page, crashed>>

NUL    == "0"
Byte   == {"a", "L", "C", NUL}
Scalar == {"float", "int"}
Array  == {"floats", "ints"}
Empty  == <<>>   (* The JSON object with no key; it is written as null.    *)

NoMessage == [sent |-> FALSE, json |-> Empty]
NoPage    == [open |-> FALSE, todo |-> {}, json |-> Empty]
Unfound   == [found |-> FALSE, mask |-> {}, count |-> 0, cell |-> <<>>]

(* Fault: the type is tested bit by bit. *)
KindBits(mask) ==
  LET known == {t \in Scalar \cup Array \cup {"data"} : t \in mask}
  IN IF known = {} THEN "other" ELSE CHOOSE t \in known : TRUE

(* The type is a bit mask, compared as a whole. *)
Kind(mask) ==
  LET known == {t \in Scalar \cup Array \cup {"data"} : mask = {t}}
  IN IF known = {} THEN "other" ELSE CHOOSE t \in known : TRUE

(* A dataref whose owner has gone has no type and no elements. *)
Gone == [mask |-> {}, val |-> <<>>]

Init ==
  /\ entries \in Streams
  /\ sim \in [DataRef -> {Gone}]
  /\ slot = [d \in DataRef |-> Unfound]
  /\ reading = FALSE /\ read = {}
  /\ message = NoMessage /\ page = NoPage /\ crashed = "no"

-----------------------------------------------------------------------------
(* Filling a slot *)

(* What initDataRef() leaves in the union: a zero, an array of zeros, or   *)
(* a NUL before bytes that nobody has written.                             *)
Fresh(kind, n) ==
  IF kind \in Scalar THEN {<<0>>}
  ELSE IF kind \in Array THEN {[i \in 1 .. n |-> 0]}
  ELSE IF kind = "data" THEN {<<NUL>> \o junk : junk \in [1 .. Cap - 1 -> Byte]}
  ELSE {<<>>}

(* Fault: the size of the cache is not passed. *)
OverlayUnbounded(new, old) ==
  [i \in 1 .. Max({Len(new), Len(old)}) |-> IF i <= Len(new) THEN new[i] ELSE old[i]]

(* Fault: the last element is left out. *)
OverlayShort(new, old) ==
  [i \in 1 .. Len(old) |-> IF i < Len(new) THEN new[i] ELSE old[i]]

(* XPLMGetDatavf, XPLMGetDatavi and XPLMGetDatab copy the elements that    *)
(* there are, as far as there is room.                                     *)
Overlay(new, old) ==
  [i \in 1 .. Len(old) |-> IF i <= Len(new) THEN new[i] ELSE old[i]]

(* What the getters return for d; the getter of a type that d does not     *)
(* have (any more) returns 0 or copies nothing.                            *)
Copy(d) ==
  LET kind == Kind(slot[d].mask)
      has  == kind \in sim[d].mask
  IN CASE kind \in Scalar          -> <<IF has THEN sim[d].val[1] ELSE 0>>
       [] kind \in Array \cup {"data"} -> Overlay(IF has THEN sim[d].val ELSE <<>>, slot[d].cell)
       [] kind = "other"           -> slot[d].cell

(* Fault: the text is not terminated. *)
ReadDataRefNoNul(d) == Copy(d)

(* readDataRefValue(): a text is terminated once it has been copied. *)
ReadDataRef(d) ==
  IF Kind(slot[d].mask) = "data" THEN [Copy(d) EXCEPT ![Cap] = NUL] ELSE Copy(d)

-----------------------------------------------------------------------------
(* JSON *)

Terminated(cell) == \E i \in 1 .. Len(cell) : cell[i] = NUL

Text(cell) ==
  IF Terminated(cell)
    THEN SubSeq(cell, 1, Min({i \in 1 .. Len(cell) : cell[i] = NUL}) - 1)
    ELSE cell

(* dump() accepts valid UTF-8 only. *)
Utf8(text) ==
  /\ \A i \in 1 .. Len(text) : text[i] = "L" => i < Len(text) /\ text[i + 1] = "C"
  /\ \A i \in 1 .. Len(text) : text[i] = "C" => i > 1 /\ text[i - 1] = "L"

(* An int stays one only if the multiplier is exactly 1. *)
Number(n, kind, mul) ==
  [int |-> kind \in {"int", "ints"} /\ mul = 1, n |-> n * mul]

(* Fault: the elements of an array are not multiplied. *)
ValueArrayPlain(kind, cell, mul) ==
  IF kind = "data" THEN [is |-> "text", val |-> Text(cell)]
  ELSE [is  |-> IF kind \in Array THEN "array" ELSE "number",
        val |-> [i \in 1 .. Len(cell) |->
                   Number(cell[i], kind, IF kind \in Array THEN 1 ELSE mul)]]

(* The JSON value of a slot of this kind; the multiplier of a text is      *)
(* ignored.                                                                *)
Value(kind, cell, mul) ==
  IF kind = "data" THEN [is |-> "text", val |-> Text(cell)]
  ELSE [is  |-> IF kind \in Array THEN "array" ELSE "number",
        val |-> [i \in 1 .. Len(cell) |-> Number(cell[i], kind, mul)]]

(* j[key] = v, or j[key][i] = v[i] for each i: an array goes over a longer *)
(* one, and over a number or a text it throws type_error 305.  An empty    *)
(* array assigns nothing.                                                  *)
Put(j, key, v) ==
  LET old == IF key \in DOMAIN j /\ j[key].is = "array" THEN j[key].val ELSE <<>>
      new == IF v.is = "array"
               THEN [v EXCEPT !.val = @ \o SubSeq(old, Len(@) + 1, Len(old))] ELSE v
  IN IF v.val = <<>> /\ v.is = "array" THEN j
     ELSE [k \in DOMAIN j \cup {key} |-> IF k = key THEN new ELSE j[k]]

Throws305(j, key, v) ==
  v.is = "array" /\ v.val # <<>> /\ key \in DOMAIN j /\ j[key].is # "array"

Throws316(j) == \E k \in DOMAIN j : j[k].is = "text" /\ ~Utf8(j[k].val)

(* A round of buildJson()'s loop; error is the exception that ends it. *)
AddEntry(made, e, cell) ==
  LET kind == Kind(slot[e.name].mask)
      v    == Value(kind, cell[e.name], e.mul)
  IN IF made.error \/ ~slot[e.name].found \/ kind = "other" THEN made
     ELSE IF Throws305(made.json, e.alias, v) THEN [json |-> made.json, error |-> TRUE]
     ELSE [made EXCEPT !.json = Put(@, e.alias, v)]

(* buildJson(), as far as dump(): made[n] is what the first n rounds make. *)
BuildJson(cell) ==
  LET made[n \in 0 .. Len(entries)] ==
        IF n = 0 THEN [json |-> Empty, error |-> FALSE]
        ELSE AddEntry(made[n - 1], entries[n], cell)
  IN made[Len(entries)]

-----------------------------------------------------------------------------
(* The flight loop *)

Running == crashed = "no"

(* initDataRef() finds d.  An array that does not fit is zeroed beyond the *)
(* end of the slot.                                                        *)
InitDataRef(d) ==
  /\ Running /\ ~reading
  /\ ~slot[d].found /\ sim[d].mask # {}
  /\ LET kind == Kind(sim[d].mask)
         n    == IF kind \in Array THEN Len(sim[d].val) ELSE 0
     IN /\ \E cell \in Fresh(kind, n) :
             slot' = [slot EXCEPT ![d] = [found |-> TRUE, mask |-> sim[d].mask,
                                          count |-> n, cell |-> cell]]
        /\ crashed' = IF n > Words THEN "array too long" ELSE "no"
  /\ message' = NoMessage
  /\ UNCHANGED <<entries, sim, reading, read, page>>

(* update() starts to copy. *)
BeginReads ==
  /\ Running /\ ~reading
  /\ reading' = TRUE
  /\ message' = NoMessage
  /\ UNCHANGED <<entries, sim, slot, read, page, crashed>>

(* Every slot that has a handle holds its new value, and the stream, if it *)
(* is due, sends a message made from them.                                 *)
Update(due) ==
  /\ Running /\ reading
  /\ LET cell == [d \in DataRef |-> IF slot[d].found THEN ReadDataRef(d) ELSE <<>>]
         made == BuildJson(cell)
     IN /\ slot' = [d \in DataRef |-> [slot[d] EXCEPT !.cell = cell[d]]]
        /\ crashed' = IF ~due THEN "no"
                      ELSE IF made.error THEN "message 305"
                      ELSE IF Throws316(made.json) THEN "message 316" ELSE "no"
        /\ message' = IF due /\ crashed' = "no"
                        THEN [sent |-> TRUE, json |-> made.json] ELSE NoMessage
  /\ reading' = FALSE
  /\ read' = {d \in DataRef : slot[d].found}
  /\ UNCHANGED <<entries, sim, page>>

-----------------------------------------------------------------------------
(* The web server's thread *)

AskPage ==
  /\ Running /\ ~page.open
  /\ page' = [open |-> TRUE, todo |-> DataRef, json |-> Empty]
  /\ message' = NoMessage
  /\ UNCHANGED <<entries, sim, slot, reading, read, crashed>>

(* What a reader may find in the cells of d: while the flight loop writes, *)
(* each one before or after, and the last byte of a text also in between.  *)
Found(d) ==
  LET old == slot[d].cell
      in(i) == {old[i]} \cup IF reading THEN {Copy(d)[i], ReadDataRef(d)[i]} ELSE {}
  IN {c \in [1 .. Len(old) -> UNION {in(i) : i \in 1 .. Len(old)}] :
        \A i \in 1 .. Len(old) : c[i] \in in(i)}

(* valuesAsJson() looks at the slot of d.  A text without a NUL is read    *)
(* on, beyond the slot.                                                    *)
PageSlot(d) ==
  /\ Running /\ d \in page.todo
  /\ LET kind == Kind(slot[d].mask)
         rest == [page EXCEPT !.todo = @ \ {d}]
     IN IF ~slot[d].found \/ kind = "other"
          THEN page' = rest /\ crashed' = "no"
          ELSE \E c \in Found(d) :
                 /\ page' = [rest EXCEPT !.json = Put(@, d, Value(kind, c, 1))]
                 /\ crashed' = IF kind = "data" /\ ~Terminated(c) THEN "page overrun" ELSE "no"
  /\ message' = NoMessage
  /\ UNCHANGED <<entries, sim, slot, reading, read>>

EndPage ==
  /\ Running /\ page.open /\ page.todo = {}
  /\ page' = NoPage
  /\ crashed' = IF Throws316(page.json) THEN "page 316" ELSE "no"
  /\ message' = NoMessage
  /\ UNCHANGED <<entries, sim, slot, reading, read>>

-----------------------------------------------------------------------------
(* The simulator: d changes, is registered, with another type or length    *)
(* than before, or goes away.                                              *)
SimChange(d, s) ==
  /\ Running /\ ~reading /\ sim[d] # s
  /\ sim' = [sim EXCEPT ![d] = s]
  /\ message' = NoMessage
  /\ UNCHANGED <<entries, slot, reading, read, page, crashed>>

Next ==
  \/ \E d \in DataRef : InitDataRef(d) \/ PageSlot(d)
  \/ \E d \in DataRef : \E s \in Sims[d] \cup {Gone} : SimChange(d, s)
  \/ BeginReads
  \/ \E due \in BOOLEAN : Update(due)
  \/ AskPage \/ EndPage

Spec == Init /\ [][Next]_vars

-----------------------------------------------------------------------------
(* Properties *)

(* Every variable has its type; above all, a slot keeps the size that its  *)
(* type gives it, whatever the simulator returns later.                    *)
TypeOK ==
  /\ entries \in Streams
  /\ \A d \in DataRef :
       /\ sim[d] \in Sims[d] \cup {Gone}
       /\ LET kind == Kind(slot[d].mask)
          IN slot[d].found =>
               Len(slot[d].cell) = IF kind \in Scalar THEN 1
                                   ELSE IF kind = "data" THEN Cap ELSE slot[d].count
  /\ reading \in BOOLEAN /\ read \subseteq DataRef
  /\ message.sent \in BOOLEAN
  /\ page.open \in BOOLEAN /\ page.todo \subseteq DataRef
  /\ crashed \in {"no", "array too long", "message 305", "message 316",
                  "page overrun", "page 316"}

(* The dataref of entry i is part of a message. *)
Contributes(i) ==
  LET s == slot[entries[i].name]
  IN /\ s.found
     /\ \/ s.mask \in {{"float"}, {"int"}, {"data"}}
        \/ s.mask \in {{"floats"}, {"ints"}} /\ s.count > 0

Same(i) == {k \in 1 .. Len(entries) : entries[k].alias = entries[i].alias /\ Contributes(k)}

(* The simulator's text of d ends, or is cut, within the cache. *)
Ends(d) ==
  "data" \in sim[d].mask
    /\ (Len(sim[d].val) >= Cap - 1 \/ Terminated(sim[d].val))

Shown(d) == Text(SubSeq(sim[d].val, 1, Min({Cap - 1, Len(sim[d].val)})))

(* The dataref still has the type and the length it was found with. *)
Steady(d) ==
  /\ sim[d].mask = slot[d].mask
  /\ sim[d].mask \in {{"floats"}, {"ints"}} => Len(sim[d].val) = slot[d].count
  /\ sim[d].mask = {"data"} => Ends(d)

(* What the entry e should show. *)
Showing(e) ==
  LET mask == sim[e.name].mask
      val  == sim[e.name].val
  IN IF mask = {"data"} THEN [is |-> "text", val |-> Shown(e.name)]
     ELSE [is  |-> IF mask \in {{"float"}, {"int"}} THEN "number" ELSE "array",
           val |-> [k \in 1 .. Len(val) |->
                      [int |-> mask \in {{"int"}, {"ints"}} /\ e.mul = 1, n |-> val[k] * e.mul]]]

(* A message has a key for the alias of every entry whose dataref has been *)
(* found with exactly one of the five types and is not an empty array, and *)
(* no other: a mask of two types (a float that is also a double) never     *)
(* shows, and a message without any key is null, not an object.            *)
KeysExact ==
  message.sent =>
    DOMAIN message.json = {entries[i].alias : i \in {k \in 1 .. Len(entries) : Contributes(k)}}

(* A message shows what the simulator has at that moment, multiplied: the  *)
(* number, every element of the array, the text up to its NUL.  That holds *)
(* for the last entry of an alias, if its dataref is as it was when found  *)
(* and, for an array, no other entry has put elements below it.            *)
Faithful ==
  message.sent =>
    \A i \in 1 .. Len(entries) :
      LET d == entries[i].name
      IN (/\ Contributes(i) /\ Steady(d)
          /\ Same(i) \subseteq 1 .. i
          /\ sim[d].mask \in {{"floats"}, {"ints"}} => Same(i) = {i})
         => message.json[entries[i].alias] = Showing(entries[i])

(* The flight loop throws out of the plugin only for a stream that lists   *)
(* one alias first for a scalar and later for an array, or for a text that *)
(* is not UTF-8, is not terminated, or is cut in the middle of a           *)
(* character.                                                              *)
MessageThrows ==
  /\ crashed = "message 305" =>
       \E i, k \in 1 .. Len(entries) :
         /\ i < k /\ Same(i) = Same(k) /\ {i, k} \subseteq Same(i)
         /\ slot[entries[i].name].mask \in {{"float"}, {"int"}, {"data"}}
         /\ slot[entries[k].name].mask \in {{"floats"}, {"ints"}}
  /\ crashed = "message 316" =>
       \E i \in 1 .. Len(entries) :
         LET d == entries[i].name
         IN slot[d].mask = {"data"} /\ ~(Ends(d) /\ Utf8(Shown(d)))

(* The page reads beyond the end of a slot only while the flight loop is   *)
(* writing, and only in a slot written for the first time or a text that   *)
(* fills the cache: in every other moment a NUL stops it, although it      *)
(* takes no lock.                                                          *)
PageInSlot ==
  crashed = "page overrun" =>
    /\ reading
    /\ \E d \in DataRef :
         /\ slot[d].mask = {"data"}
         /\ d \notin read \/ Len(sim[d].val) >= Cap
==============================================================================
