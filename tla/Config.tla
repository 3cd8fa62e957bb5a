------------------------------- MODULE Config -------------------------------
(***************************************************************************)
(* From config.json to the running streams: Config::readConfigFile() and   *)
(* the part of XplData::init() and XPluginStart() that uses its result.    *)
(* The file is read once, at the start of the plugin; whether that worked  *)
(* is not looked at.                                                       *)
(*                                                                         *)
(* The file is what the JSON parser makes of it.  A field is Absent, Wrong *)
(* (of a type that value() or [] throws on), or its value.  Hosts, names   *)
(* of ports and rates say nothing here: the object "udp" or "serial" is    *)
(* Absent, Wrong (not an object, or with a Wrong field) or Given.  A range *)
(* loop over a JSON value that is no array visits an object's values, a    *)
(* null not at all and anything else as its only element, so "streams" and *)
(* "dataRefs" are sequences.                                               *)
(*                                                                         *)
(* A definition marked "Fault" is a plausible wrong version of the one     *)
(* that follows it; no specification uses it.                              *)
(***************************************************************************)
EXTENDS Integers, Sequences, SequencesExt

CONSTANTS
  Files,        (* Files: web, serverPort, streams, interval, receiver and *)
                (* names, the last three being the legacy fields.          *)
  Name,         (* The strings that name datarefs, "" among them.          *)
  Absent, Wrong, Given,
  Missing,      (* There is no config.json ...                             *)
  Malformed,    (* ... or it is not JSON.                                  *)
  W             (* 2^32: an int holds the values from -W \div 2.           *)

ASSUME NameAssumption == "" \in Name

ASSUME WidthAssumption == W \in Nat \ {0} /\ W % 2 = 0

Field(type) == type \cup {Absent, Wrong}

ItemIsOne(item) ==
  \/ item = Wrong
  \/ /\ item.name \in Field(Name) /\ item.alias \in Field(Name)
     /\ item.multiplier \in Field(Int)

StreamIsOne(s) ==
  \/ s = Wrong
  \/ /\ s.enabled \in Field(BOOLEAN) /\ s.interval \in Field(Int)
     /\ s.udp \in Field({Given}) /\ s.serial \in Field({Given})
     /\ Len(s.dataRefs) \in Nat
     /\ \A i \in 1 .. Len(s.dataRefs) : ItemIsOne(s.dataRefs[i])

ASSUME FileAssumption ==
  /\ Absent # Wrong /\ Given \notin {Absent, Wrong}
  /\ \A f \in Files :
       /\ \/ f.web = Absent /\ f.serverPort \in Field(Int)
          \/ f.web # Absent /\ f.web.enabled \in Field(BOOLEAN) /\ f.web.port \in Field(Int)
       /\ \/ /\ f.streams = Absent
             /\ f.interval \in Field(Int) /\ Len(f.names) \in Nat
             /\ \A i \in 1 .. Len(f.names) : f.names[i] \in Name \cup {Wrong}
          \/ /\ f.streams # Absent /\ Len(f.streams) \in Nat
             /\ \A i \in 1 .. Len(f.streams) : StreamIsOne(f.streams[i])

VARIABLES
  file,         (* The file, or Missing or Malformed.                      *)
  pc,           (* Where XPluginStart is.                                  *)
  at,           (* How many elements of "streams" have been parsed.        *)
  result,       (* parseStreams: the vector it is building.                *)
  streams,      (* Config::streams.                                        *)
  webConfig,    (* Config::webConfig.                                      *)
  running       (* XplData::streams: the entry and the kind of sender.     *)

vars == <<file, pc, at, result, streams, webConfig, running>>

Default == [enabled |-> TRUE, port |-> 8080]

Init ==
  /\ file \in Files \cup {Missing, Malformed}
  /\ pc = "open" /\ at = 0 /\ result = <<>>
  /\ streams = <<>> /\ webConfig = Default
  /\ running = <<>>

(* value(): what the field holds, or the default. *)
ValueOr(field, default) == IF field = Absent THEN default ELSE field

(* The conversion of a JSON number to int keeps its low bits. *)
Int32(i) == ((i + W \div 2) % W) - (W \div 2)

(* The elements of seq at the places K, in their order: what a loop that   *)
(* skips the others has pushed back after its last round.                  *)
Kept(seq, K) ==
  LET kept[n \in 0 .. Len(seq)] ==
        IF n = 0 THEN <<>>
        ELSE IF n \in K THEN Append(kept[n - 1], seq[n]) ELSE kept[n - 1]
  IN kept[Len(seq)]

-----------------------------------------------------------------------------
(* parseDataRefs *)

(* An item is a string, an object, or Wrong (anything else). *)
ItemThrows(item) == item # Wrong /\ Wrong \in {item.name, item.alias, item.multiplier}

(* Fault: no alias means no key. *)
DataRefNoDefault(item) ==
  [name |-> ValueOr(item.name, ""), alias |-> item.alias,
   multiplier |-> ValueOr(item.multiplier, 1)]

(* A string is an object with nothing but a name. *)
DataRef(item) ==
  LET name == ValueOr(item.name, "")
  IN [name |-> name, alias |-> ValueOr(item.alias, name),
      multiplier |-> ValueOr(item.multiplier, 1)]

Named(item) == item # Wrong /\ ValueOr(item.name, "") # ""

ParseDataRefs(items) ==
  LET named == Kept(items, {i \in 1 .. Len(items) : Named(items[i])})
  IN [i \in 1 .. Len(named) |-> DataRef(named[i])]

-----------------------------------------------------------------------------
(* parseStreams *)

HasOutput(s) == s.udp # Absent \/ s.serial # Absent

(* The items are not looked at in a stream that has no output. *)
StreamThrows(s) ==
  \/ s = Wrong
  \/ Wrong \in {s.enabled, s.interval, s.udp, s.serial}
  \/ HasOutput(s) /\ \E i \in 1 .. Len(s.dataRefs) : ItemThrows(s.dataRefs[i])

StreamConfig(s) ==
  [enabled    |-> ValueOr(s.enabled, TRUE),
   intervalMs |-> Int32(ValueOr(s.interval, 1000)),
   udp |-> s.udp = Given, serial |-> s.serial = Given,
   dataRefs   |-> ParseDataRefs(s.dataRefs)]

(* parseLegacy: empty names are kept. *)
LegacyThrows(f) ==
  Wrong \in {f.interval, f.receiver} \/ \E i \in 1 .. Len(f.names) : f.names[i] = Wrong

Legacy(f) ==
  [enabled |-> TRUE, intervalMs |-> Int32(ValueOr(f.interval, 1000)),
   udp |-> TRUE, serial |-> FALSE,
   dataRefs |-> [i \in 1 .. Len(f.names) |->
                   [name |-> f.names[i], alias |-> f.names[i], multiplier |-> 1]]]

-----------------------------------------------------------------------------
(* readConfigFile: an exception ends it with what has been assigned so far *)

Fails == pc' = "init" /\ UNCHANGED <<at, result>>

Open ==
  /\ pc = "open"
  /\ IF file \in {Missing, Malformed} THEN Fails ELSE pc' = "web" /\ UNCHANGED <<at, result>>
  /\ UNCHANGED <<file, streams, webConfig, running>>

(* The part "web", or the legacy port: each field is assigned before the   *)
(* next one is read.                                                       *)
ReadWeb ==
  LET enabled == IF file.web = Absent THEN TRUE ELSE ValueOr(file.web.enabled, TRUE)
      port    == IF file.web = Absent THEN file.serverPort ELSE file.web.port
  IN webConfig' =
       IF enabled = Wrong THEN Default
       ELSE [enabled |-> enabled,
             port |-> IF port = Wrong THEN 8080 ELSE Int32(ValueOr(port, 8080))]

WebThrows ==
  IF file.web = Absent THEN file.serverPort = Wrong
  ELSE Wrong \in {file.web.enabled, file.web.port}

Web ==
  /\ pc = "web"
  /\ ReadWeb
  /\ IF WebThrows THEN Fails ELSE pc' = "streams" /\ UNCHANGED <<at, result>>
  /\ UNCHANGED <<file, streams, running>>

(* Fault: the streams parsed before an exception are kept. *)
ParseStreamAtOnce ==
  /\ pc = "streams" /\ file.streams # Absent /\ at < Len(file.streams)
  /\ LET s == file.streams[at + 1]
     IN IF StreamThrows(s) THEN Fails /\ UNCHANGED streams
        ELSE /\ at' = at + 1 /\ pc' = pc
             /\ result'  = IF HasOutput(s) THEN Append(result, StreamConfig(s)) ELSE result
             /\ streams' = result'
  /\ UNCHANGED <<file, webConfig, running>>

ParseStream ==
  /\ pc = "streams" /\ file.streams # Absent /\ at < Len(file.streams)
  /\ LET s == file.streams[at + 1]
     IN IF StreamThrows(s) THEN Fails
        ELSE /\ at' = at + 1 /\ pc' = pc
             /\ result' = IF HasOutput(s) THEN Append(result, StreamConfig(s)) ELSE result
  /\ UNCHANGED <<file, streams, webConfig, running>>

TakeStreams ==
  /\ pc = "streams" /\ file.streams # Absent /\ at = Len(file.streams)
  /\ streams' = result
  /\ pc' = "init"
  /\ UNCHANGED <<file, at, result, webConfig, running>>

ParseLegacy ==
  /\ pc = "streams" /\ file.streams = Absent
  /\ streams' = IF LegacyThrows(file) THEN <<>> ELSE <<Legacy(file)>>
  /\ pc' = "init"
  /\ UNCHANGED <<file, at, result, webConfig, running>>

(* Fault: a disabled stream runs as well. *)
InitStreamsAll ==
  /\ pc = "init"
  /\ running' = [i \in 1 .. Len(streams) |->
                   [config |-> streams[i], sender |-> IF streams[i].udp THEN "udp" ELSE "serial"]]
  /\ pc' = "started"
  /\ UNCHANGED <<file, at, result, streams, webConfig>>

Starts(s) == s.enabled /\ (s.udp \/ s.serial)

(* init(): a sender for each enabled stream, by UDP if it has both. *)
InitStreams ==
  /\ pc = "init"
  /\ running' =
       LET on == Kept(streams, {i \in 1 .. Len(streams) : Starts(streams[i])})
       IN [i \in 1 .. Len(on) |->
             [config |-> on[i], sender |-> IF on[i].udp THEN "udp" ELSE "serial"]]
  /\ pc' = "started"
  /\ UNCHANGED <<file, at, result, streams, webConfig>>

Next == Open \/ Web \/ ParseStream \/ TakeStreams \/ ParseLegacy \/ InitStreams

Spec == Init /\ [][Next]_vars

-----------------------------------------------------------------------------
(* Properties *)

IsEntry(s) ==
  /\ s.enabled \in BOOLEAN
  /\ s.intervalMs \in -(W \div 2) .. (W \div 2) - 1
  /\ s.udp \in BOOLEAN /\ s.serial \in BOOLEAN
  /\ \A i \in 1 .. Len(s.dataRefs) :
       /\ s.dataRefs[i].name \in Name /\ s.dataRefs[i].alias \in Name
       /\ s.dataRefs[i].multiplier \in Int

(* Every variable has its type: no field of a stream is left Absent or     *)
(* Wrong, and its interval is an int.                                      *)
TypeOK ==
  /\ pc \in {"open", "web", "streams", "init", "started"}
  /\ at \in Nat
  /\ \A i \in 1 .. Len(result) : IsEntry(result[i])
  /\ \A i \in 1 .. Len(streams) : IsEntry(streams[i])
  /\ webConfig.enabled \in BOOLEAN /\ webConfig.port \in Int
  /\ \A i \in 1 .. Len(running) : running[i].sender \in {"udp", "serial"}

(* What the schedule of XplData takes for granted of the list it is given: *)
(* every entry has an output, so that init() makes a sender for each one   *)
(* that is enabled.                                                        *)
Runnable ==
  \A i \in 1 .. Len(streams) : streams[i].udp \/ streams[i].serial

(* The stream list is taken over as a whole: after an error anywhere in    *)
(* the file not one stream runs, also not those before the error.          *)
AllOrNothing ==
  streams # <<>> =>
    /\ ~WebThrows
    /\ IF file.streams = Absent THEN ~LegacyThrows(file)
       ELSE \A i \in 1 .. Len(file.streams) : ~StreamThrows(file.streams[i])

(* The web server is off only if the file says so: whatever is missing or  *)
(* wrong elsewhere in it, the status page and the log can tell the user.   *)
WebOffOnRequest ==
  ~webConfig.enabled =>
    file \notin {Missing, Malformed} /\ file.web # Absent /\ file.web.enabled = FALSE

(* Exactly the streams of the file that are enabled and have an output     *)
(* run, in its order, if no exception intervenes.                          *)
RunsWhatIsEnabled ==
  pc = "started" /\ streams # <<>> /\ file.streams # Absent =>
    LET on == {i \in 1 .. Len(file.streams) :
                 /\ ValueOr(file.streams[i].enabled, TRUE)
                 /\ Absent # file.streams[i].udp \/ Absent # file.streams[i].serial}
    IN /\ Len(running) = Cardinality(on)
       /\ \A i \in on :
            LET r == running[Cardinality({k \in on : k <= i})]
            IN /\ r.config.dataRefs = ParseDataRefs(file.streams[i].dataRefs)
               /\ r.sender = "serial" <=> file.streams[i].udp = Absent
=============================================================================
