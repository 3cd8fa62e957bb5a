------------------------------ MODULE MCXplData ------------------------------
(* Instances of XplData for TLC. *)
EXTENDS XplData

CONSTANTS fast, slow, off, a, b, c, e

(* One stream, one dataref: room for long schedules. *)
OneStream    == {slow}
OneEvery     == [s \in OneStream |-> 3]
OneDataRef   == {a}
OneDataRefs  == [s \in OneStream |-> {a}]

NoCopied     == {}

(* Three entries, one disabled; two share a dataref, which is an array.    *)
(* b has an unknown type, e belongs to the disabled entry only.            *)
Streams      == {fast, slow, off}
On           == {fast, slow}
Every        == [s \in Streams |-> IF s = fast THEN 0 ELSE IF s = slow THEN 2 ELSE -1]
Refs         == {a, b, c, e}
StreamRefs   == [s \in Streams |-> IF s = fast THEN {a} ELSE IF s = slow THEN {a, b, c} ELSE {e}]
Known        == {a, c, e}
Arrays       == {a}
=============================================================================
