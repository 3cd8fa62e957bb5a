------------------------------- MODULE XplData -------------------------------
(***************************************************************************)
(* The class XplData as the flight loop sees it: the master registry of    *)
(* datarefs, the retries of failed lookups, and the per-stream schedule    *)
(* driven by the system clock.  The callbacks of a plugin run on one       *)
(* thread, so each is one action here; the senders are in PushService.     *)
(*                                                                         *)
(* Time is in milliseconds of any granularity.  now is the reading of      *)
(* system_clock, which an adjustment of the clock may move either way;     *)
(* real time passes only by Tick and is seen only by history variables.    *)
(*                                                                         *)
(* A definition marked "Fault" is a plausible wrong version of the one     *)
(* that follows it; no specification uses it.                              *)
(***************************************************************************)
EXTENDS Integers, FiniteSets

CONSTANTS
  Stream,    (* The entries of the configuration's stream list.            *)
  Enabled,   (* Those with enabled = true.                                 *)
  Interval,  (* Interval[s]: intervalMs, an int, so it may be negative.    *)
  DataRef,   (* Names of datarefs.                                         *)
  DataRefs,  (* DataRefs[s]: the names that stream s lists.                *)
  Readable,  (* Datarefs whose type mask is exactly one of the five types  *)
             (* that readDataRefValue and buildJson know.                  *)
  Copied,    (* Datarefs that are arrays or texts.                         *)
  Val, Zero, (* Values of datarefs, and the one a fresh cache slot holds.  *)
  W,         (* Timestamps are unsigned and wrap at W (2^64).              *)
  Retry,     (* 10000: how long a failed lookup is left alone.             *)
  Period,    (* The flight loop calls back within Period of the last call. *)
  MinClock, MaxClock,  (* Range of the readings of system_clock.           *)
  MaxSteps   (* Bound: how often the clock is adjusted.                    *)

ASSUME ConfigAssumption ==
  /\ Enabled \subseteq Stream
  /\ DataRefs \in [Stream -> SUBSET DataRef]
  /\ Readable \subseteq DataRef
  /\ Copied \subseteq DataRef
  /\ IsFiniteSet(DataRef)
  /\ Zero \in Val
  /\ Interval \in [Stream -> Int]

(* An int is smaller than any date since 1970 in milliseconds, and an      *)
(* adjustment of the clock is small beside 2^64 ms.                        *)
ASSUME TimeAssumption ==
  /\ W \in Nat /\ Retry \in Nat /\ Period \in Nat /\ MaxSteps \in Nat
  /\ MinClock \in Nat \ {0} /\ MaxClock \in Nat /\ MinClock <= MaxClock
  /\ Retry < W - MaxClock
  /\ \A s \in Stream : Interval[s] <= MinClock /\ Interval[s] <= W - MaxClock

VARIABLES
  active,      (* Between XPluginStart and XPluginStop.                      *)
  registered,  (* Keys of masterRegistry.                                    *)
  found,       (* Those whose slot has a handle.                             *)
  cache,       (* The cached value of each slot.                             *)
  initCount,   (* dataRefInitializedCount.                                   *)
  lastAttempt, (* lastDataRefInitAttemptMillis.                              *)
  streams,     (* The vector of running streams.                             *)
  lastSent,    (* lastSent[s]: lastSentMillis of the stream made from s.     *)
  inFlight,    (* The flag of that name.                                     *)
  posts,       (* posts[s]: what the step just taken passed to sendData, for *)
               (* the streams that were due.                                 *)
  published,   (* Simulator: the datarefs that XPLMFindDataRef finds.        *)
  sim,         (* Simulator: the values of the published datarefs.           *)
  now,         (* The reading of system_clock.                               *)
  sinceUpdate, (* Real time since the last update() (or the start).          *)
  silence,     (* History: real time since the last send, or the start.      *)
  age,         (* History: real time a dataref has been published, unfound.  *)
  steps,       (* History: clock adjustments so far.                         *)
  sentSteps,   (* History: steps at the last send of each stream.            *)
  triedSteps   (* History: steps when lastAttempt was set.                   *)

simulator == <<published, sim>>
registry  == <<registered, found, cache, initCount>>
schedule  == <<lastAttempt, streams, lastSent>>
clock     == <<now, sinceUpdate, steps>>
history   == <<silence, age, sentSteps, triedSteps>>

vars == <<active, registry, schedule, inFlight, posts, simulator, clock, history>>

Names == UNION {DataRefs[s] : s \in Stream}

(* Streams with a schedule to keep. *)
Regular == {s \in Enabled : Interval[s] >= 0}

NoPosts == [s \in {} |-> Zero]

(* Published datarefs the registry ought to have a handle for. *)
Waiting == (Names \cap published) \ found

Init ==
  /\ active = FALSE
  /\ registered = {} /\ found = {} /\ initCount = 0
  /\ cache = [d \in DataRef |-> Zero]
  /\ lastAttempt = 0 /\ streams = {}
  /\ lastSent = [s \in Stream |-> 0]
  /\ inFlight = FALSE
  /\ posts = NoPosts
  /\ published = {} /\ sim = [d \in DataRef |-> Zero]
  /\ now \in MinClock .. MaxClock
  /\ sinceUpdate = 0 /\ steps = 0
  /\ silence = [s \in Regular |-> 0] /\ sentSteps = [s \in Regular |-> 0]
  /\ age = [d \in DataRef |-> 0]
  /\ triedSteps = 0

-----------------------------------------------------------------------------
(* The registry *)

(* Fault: datarefs that had a handle before the call are not counted. *)
InitDataRefsNewOnly(keys) ==
  LET new == (keys \cap published) \ found IN
  /\ registered' = keys
  /\ found'      = found \cup new
  /\ initCount'  = Cardinality(new)
  /\ age'        = [d \in DataRef |-> IF d \in new THEN 0 ELSE age[d]]

(* initDataRefs(): every listed name has a slot afterwards, every slot     *)
(* without a handle is looked up, and the slots that have one are counted. *)
InitDataRefs(keys) ==
  LET new == (keys \cap published) \ found IN
  /\ registered' = keys
  /\ found'      = found \cup new
  /\ initCount'  = Cardinality(new) + Cardinality(found)
  /\ age'        = [d \in DataRef |-> IF d \in new THEN 0 ELSE age[d]]

(* initDataRef() gives a slot that it resolves a zero value. *)
ZeroNew == cache' = [d \in DataRef |-> IF d \in found' \ found THEN Zero ELSE cache[d]]

KeepRegistry == UNCHANGED <<registered, found, initCount, age>>

-----------------------------------------------------------------------------
(* The schedule *)

(* Fault: a signed difference, so a time in the future is never due. *)
ElapsedSigned(t) == now - t

(* uint64_t subtraction. *)
Elapsed(t) == IF now >= t THEN now - t ELSE W + now - t

(* The cast of an int to uint64_t. *)
Unsigned(i) == IF i >= 0 THEN i ELSE W + i

(* Fault: a stream is due one callback ahead of its interval. *)
DueEarly(s) == Elapsed(lastSent[s]) + Period >= Unsigned(Interval[s])

Due(s) == Elapsed(lastSent[s]) >= Unsigned(Interval[s])

RetryDue ==
  /\ initCount < Cardinality(registered)
  /\ lastAttempt = 0 \/ Elapsed(lastAttempt) > Retry

(* init(): one running stream per enabled entry, none of them sent yet,    *)
(* and every slot is looked up.  Every entry has an output: the parser     *)
(* drops those that have none.                                             *)
InitStreams ==
  /\ streams'  = Enabled
  /\ lastSent' = [s \in Stream |-> 0]
  /\ InitDataRefs(registered \cup Names)
  /\ ZeroNew

-----------------------------------------------------------------------------
(* Callbacks of the flight loop thread *)

(* XPluginStart calls init() once the configuration has been read. *)
Start ==
  /\ ~active /\ registered = {} /\ streams = {}
  /\ active' = TRUE
  /\ InitStreams
  /\ sinceUpdate' = 0
  /\ silence'     = [s \in Regular |-> 0]
  /\ sentSteps'   = [s \in Regular |-> steps]
  /\ posts' = NoPosts
  /\ UNCHANGED <<lastAttempt, inFlight, simulator, now, steps, triedSteps>>

(* /api/reload calls init() again.  It runs on the web server's thread;    *)
(* here it falls between two callbacks of the flight loop.                 *)
Reload ==
  /\ active
  /\ InitStreams
  /\ posts' = NoPosts
  /\ UNCHANGED <<active, lastAttempt, inFlight, simulator, clock, silence,
                 sentSteps, triedSteps>>

(* buildJson(): the readable datarefs of s that have a handle.  One that   *)
(* has no handle is left out.                                              *)
Json(s) == [d \in DataRefs[s] \cap found' \cap Readable |-> cache'[d]]

(* What a slot with a handle holds once it has been read.  Of a dataref    *)
(* whose owner is gone, a number reads zero, and nothing is copied over an *)
(* array or a text.                                                        *)
DataRefValue(d) ==
  IF d \in published THEN sim[d] ELSE IF d \in Copied THEN cache[d] ELSE Zero

(* Fault: the slots are read before the lookups are tried again. *)
ReadAllFirst ==
  cache' = [d \in DataRef |->
              IF d \in found \cap Readable THEN DataRefValue(d)
              ELSE IF d \in found' THEN Zero ELSE cache[d]]

(* readDataRefValue() for every slot. *)
ReadAll ==
  cache' = [d \in DataRef |->
              IF d \in found' \cap Readable THEN DataRefValue(d) ELSE cache[d]]

(* The streams that are due send the values just read. *)
SendDue ==
  LET due == {s \in streams : Due(s)} IN
  /\ posts'     = [s \in due |-> Json(s)]
  /\ lastSent'  = [s \in Stream  |-> IF s \in due THEN now ELSE lastSent[s]]
  /\ silence'   = [s \in Regular |-> IF s \in due THEN 0 ELSE silence[s]]
  /\ sentSteps' = [s \in Regular |-> IF s \in due THEN steps ELSE sentSteps[s]]

(* Fault: the time of the attempt is stored whether or not there was one.  *)
RetryLookupsAlwaysStamped ==
  /\ lastAttempt' = now
  /\ triedSteps'  = steps
  /\ IF RetryDue THEN InitDataRefs(registered \cup Names) ELSE KeepRegistry

(* Failed lookups are tried again. *)
RetryLookups ==
  \/ /\ RetryDue
     /\ InitDataRefs(registered \cup Names)
     /\ lastAttempt' = now
     /\ triedSteps'  = steps
  \/ /\ ~RetryDue
     /\ KeepRegistry
     /\ UNCHANGED <<lastAttempt, triedSteps>>

(* update(), with one reading of the clock. *)
Update ==
  /\ active
  /\ RetryLookups
  /\ ReadAll
  /\ SendDue
  /\ sinceUpdate' = 0
  /\ UNCHANGED <<active, streams, inFlight, simulator, now, steps>>

(* XPLM_MSG_PLANE_LOADED and XPLM_MSG_PLANE_UNLOADED for the user's plane; *)
(* any other message or plane changes nothing.                             *)
PlaneLoaded ==
  /\ active
  /\ InitDataRefs(registered \cup Names)
  /\ ZeroNew
  /\ inFlight' = TRUE
  /\ posts' = NoPosts
  /\ UNCHANGED <<active, schedule, simulator, clock, silence, sentSteps, triedSteps>>

PlaneUnloaded ==
  /\ active
  /\ inFlight' = FALSE
  /\ posts' = NoPosts
  /\ UNCHANGED <<active, registry, schedule, simulator, clock, history>>

(* XPluginStop: the callback is unregistered and the streams are stopped.  *)
Stop ==
  /\ active
  /\ active' = FALSE
  /\ streams' = {}
  /\ posts' = NoPosts
  /\ UNCHANGED <<registry, lastAttempt, lastSent, inFlight, simulator, clock, history>>

-----------------------------------------------------------------------------
(* The simulator, other plugins and time *)

Publish(d) ==
  /\ d \notin published
  /\ published' = published \cup {d}
  /\ age' = [age EXCEPT ![d] = 0]
  /\ posts' = NoPosts
  /\ UNCHANGED <<active, registry, schedule, inFlight, sim, clock, silence,
                 sentSteps, triedSteps>>

(* The dataref's owner is unloaded: a handle stays valid, there is no      *)
(* value.                                                                  *)
Withdraw(d) ==
  /\ d \in published
  /\ published' = published \ {d}
  /\ sim' = [sim EXCEPT ![d] = Zero]
  /\ posts' = NoPosts
  /\ UNCHANGED <<active, registry, schedule, inFlight, clock, history>>

SimChange(d, v) ==
  /\ d \in published
  /\ sim[d] # v
  /\ sim' = [sim EXCEPT ![d] = v]
  /\ posts' = NoPosts
  /\ UNCHANGED <<active, registry, schedule, inFlight, published, clock, history>>

(* A millisecond passes. *)
Tick ==
  /\ active /\ now < MaxClock /\ sinceUpdate < Period
  /\ now' = now + 1
  /\ sinceUpdate' = sinceUpdate + 1
  /\ silence' = [s \in Regular |-> silence[s] + 1]
  /\ age' = [d \in DataRef |-> IF d \in Waiting THEN age[d] + 1 ELSE age[d]]
  /\ posts' = NoPosts
  /\ UNCHANGED <<active, registry, schedule, inFlight, simulator, steps,
                 sentSteps, triedSteps>>

(* The system clock is adjusted, by the user or by its time service. *)
ClockStep(t) ==
  /\ active /\ steps < MaxSteps
  /\ now' = t
  /\ steps' = steps + 1
  /\ posts' = NoPosts
  /\ UNCHANGED <<active, registry, schedule, inFlight, simulator, sinceUpdate, history>>

Environment ==
  \/ \E d \in DataRef : Publish(d) \/ Withdraw(d) \/ \E v \in Val : SimChange(d, v)
  \/ Tick
  \/ \E t \in MinClock .. MaxClock : ClockStep(t)

Next ==
  \/ Start \/ Reload \/ Update \/ PlaneLoaded \/ PlaneUnloaded \/ Stop
  \/ Environment

Spec == Init /\ [][Next]_vars

-----------------------------------------------------------------------------
(* Properties *)

(* Every variable has its type. *)
TypeOK ==
  /\ active \in BOOLEAN /\ inFlight \in BOOLEAN
  /\ registered \subseteq DataRef /\ found \subseteq DataRef
  /\ cache \in [DataRef -> Val]
  /\ initCount \in 0 .. Cardinality(DataRef)
  /\ lastAttempt \in 0 .. MaxClock
  /\ streams \subseteq Enabled
  /\ lastSent \in [Stream -> 0 .. MaxClock]
  /\ DOMAIN posts \subseteq Stream
  /\ \A s \in DOMAIN posts : posts[s] \in [DataRefs[s] \cap found \cap Readable -> Val]
  /\ published \subseteq DataRef /\ sim \in [DataRef -> Val]
  /\ now \in MinClock .. MaxClock
  /\ sinceUpdate \in 0 .. Period
  /\ steps \in 0 .. MaxSteps
  /\ silence \in [Regular -> Nat] /\ age \in [DataRef -> Nat]
  /\ sentSteps \in [Regular -> 0 .. MaxSteps]
  /\ triedSteps \in 0 .. MaxSteps

(* The comparison of dataRefInitializedCount with the size of the registry,*)
(* which is all that update() looks at, tells exactly whether a slot still *)
(* has no handle, whichever of init, retry, reload and plane load came     *)
(* last: a retry is neither forgotten nor made forever.                    *)
CountExact ==
  initCount < Cardinality(registered) <=> registered \ found # {}

(* A dataref that appears after the start (those of an aircraft's plugin)  *)
(* is found within one retry interval and one callback of its appearance,  *)
(* and each adjustment of the clock since the last attempt, forward or     *)
(* back beyond that attempt, adds at most as much again.                   *)
DiscoveryBound ==
  active =>
    \A d \in Waiting : age[d] <= (steps - triedSteps + 1) * (Retry + Period)

(* No stream falls silent: between two sends there is at most the interval *)
(* and one callback, reloads included, and each adjustment of the clock    *)
(* since the last send adds at most as much again, even one that puts      *)
(* lastSentMillis in the future.                                           *)
SilenceBound ==
  \A s \in streams \cap Regular :
    silence[s] <= (steps - sentSteps[s] + 1) * (Interval[s] + Period)

(* Unless the clock is adjusted or the stream is new, two sends of a       *)
(* stream are at least its interval apart.                                 *)
NotTooEarly ==
  [][\A s \in Regular \cap DOMAIN posts' :
       lastSent[s] # 0 /\ steps = sentSteps[s] => silence[s] >= Interval[s]]_vars

(* A message holds the value that each dataref has in the simulator at     *)
(* that moment, also for a dataref found in the same callback: neither the *)
(* zero of a fresh slot nor the value of an earlier callback.  A dataref   *)
(* whose owner is gone shows zero; only if it is an array or a text, a     *)
(* message may go on with what the slot held before.                       *)
FreshPosts ==
  \A s \in DOMAIN posts : \A d \in DOMAIN posts[s] :
    \/ d \in published /\ posts[s][d] = sim[d]
    \/ d \notin published /\ (d \in Copied \/ posts[s][d] = Zero)
=============================================================================
