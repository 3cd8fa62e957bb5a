---------------------------- MODULE XplDataProofs ----------------------------
(***************************************************************************)
(* Proofs about XplData, for any configuration, any retry interval, any    *)
(* period of the flight loop and any number of adjustments of the clock.   *)
(***************************************************************************)
EXTENDS XplData, FiniteSetTheorems, TLAPS

(* The registry holds the names of the whole configuration from the start  *)
(* on, initCount counts its handles, and the enabled streams run until the *)
(* plugin is stopped.                                                      *)
RegistryInv ==
  /\ registered \in {{}, Names}
  /\ active => registered = Names
  /\ streams = IF active THEN Enabled ELSE {}
  /\ found \subseteq registered
  /\ initCount = Cardinality(found)

(* A timer with timestamp t (0: never set) and interval i, which has been  *)
(* waiting for x of real time when the clock reads n and the last update() *)
(* is u ago.  k adjustments of the clock allow it to wait k * (i + Period) *)
(* longer than the clock tells if t is in the past; if t is in the future, *)
(* the next update() ends the wait, unless the clock reaches t before it.  *)
OnTime(n, u, x, t, k, i) ==
  /\ t # 0 /\ n >= t => x - (n - t) <= k * (i + Period)
  /\ t # 0 /\ n < t  => x - u + Period <= k * (i + Period)
  /\ x - u <= k * (i + Period) + i

SilenceInv ==
  \A s \in streams \cap Regular :
    /\ sentSteps[s] <= steps
    /\ OnTime(now, sinceUpdate, silence[s], lastSent[s], steps - sentSteps[s], Interval[s])
    /\ lastSent[s] # 0 /\ steps = sentSteps[s] =>
         now >= lastSent[s] /\ silence[s] = now - lastSent[s]

DiscoveryInv ==
  /\ triedSteps <= steps
  /\ lastAttempt # 0 /\ steps = triedSteps => now >= lastAttempt
  /\ active =>
       \A d \in Waiting :
         /\ OnTime(now, sinceUpdate, age[d], lastAttempt, steps - triedSteps, Retry)
         /\ lastAttempt = 0 => age[d] <= sinceUpdate

IInv == TypeOK /\ RegistryInv /\ SilenceInv /\ DiscoveryInv

-----------------------------------------------------------------------------
(* Arithmetic and finite sets *)

LEMMA Allowance ==
  ASSUME NEW k \in Nat, NEW c \in Nat
  PROVE  /\ k * c \in Nat
         /\ (k + 1) * c = k * c + c
         /\ k >= 1 => k * c >= c
<1>1. k * c \in Nat /\ (k + 1) * c = k * c + c
  OBVIOUS
<1>2. ASSUME k >= 1 PROVE k * c >= c
  <2>1. k - 1 \in Nat
    BY <1>2
  <2>2. (k - 1) * c \in Nat
    BY <2>1
  <2>3. k * c = (k - 1) * c + c
    BY <2>1
  <2> QED
    BY <1>1, <2>2, <2>3
<1> QED
  BY <1>1, <1>2

LEMMA NamesFinite == Names \subseteq DataRef /\ IsFiniteSet(Names)
<1>1. Names \subseteq DataRef
  BY ConfigAssumption DEF Names
<1> QED
  BY <1>1, ConfigAssumption, FS_Subset

LEMMA StrictSubset ==
  ASSUME NEW S, IsFiniteSet(S), NEW T \in SUBSET S, T # S
  PROVE  Cardinality(T) < Cardinality(S)
<1>1. IsFiniteSet(T) /\ Cardinality(T) <= Cardinality(S) /\ Cardinality(T) # Cardinality(S)
  BY FS_Subset
<1>2. Cardinality(T) \in Nat /\ Cardinality(S) \in Nat
  BY <1>1, FS_CardinalityType
<1> QED
  BY <1>1, <1>2

(* What InitDataRefs leaves behind. *)
LEMMA AfterInitDataRefs ==
  ASSUME TypeOK, RegistryInv, InitDataRefs(registered \cup Names)
  PROVE  /\ registered' = Names
         /\ found' = found \cup (Names \cap published)
         /\ found' \subseteq Names
         /\ initCount' = Cardinality(found')
         /\ initCount' \in 0 .. Cardinality(DataRef)
         /\ age' \in [DataRef -> Nat]
         /\ published' = published => Waiting' = {}
<1> DEFINE new == (Names \cap published) \ found
<1>1. registered \cup Names = Names
  BY DEF RegistryInv
<1>2. /\ registered' = Names
      /\ found' = found \cup new
      /\ initCount' = Cardinality(new) + Cardinality(found)
      /\ age' = [d \in DataRef |-> IF d \in new THEN 0 ELSE age[d]]
  BY <1>1 DEF InitDataRefs
<1>3. found \subseteq Names /\ found' \subseteq Names
  BY <1>2 DEF RegistryInv
<1>4. IsFiniteSet(found) /\ IsFiniteSet(new) /\ IsFiniteSet(found')
  BY <1>2, <1>3, NamesFinite, FS_Subset
<1>5. found \cap new = {}
  OBVIOUS
<1>6. Cardinality(found') = Cardinality(found) + Cardinality(new)
  <2>1. Cardinality(found \cup new)
          = Cardinality(found) + Cardinality(new) - Cardinality(found \cap new)
    BY <1>4, FS_Union
  <2>2. Cardinality(found \cap new) = 0
    BY <1>5, FS_EmptySet
  <2>3. Cardinality(found) \in Nat /\ Cardinality(new) \in Nat
    BY <1>4, FS_CardinalityType
  <2> QED
    BY <1>2, <2>1, <2>2, <2>3
<1>7. /\ Cardinality(found') \in Nat
      /\ Cardinality(DataRef) \in Nat
      /\ Cardinality(found') <= Cardinality(DataRef)
  BY <1>3, <1>4, NamesFinite, ConfigAssumption, FS_Subset, FS_CardinalityType
<1>8. initCount' = Cardinality(found')
  <2>1. Cardinality(found) \in Nat /\ Cardinality(new) \in Nat
    BY <1>4, FS_CardinalityType
  <2> QED
    BY <1>2, <1>6, <2>1
<1>9. age' \in [DataRef -> Nat]
  BY <1>2 DEF TypeOK
<1>10. published' = published => Waiting' = {}
  BY <1>2 DEF Waiting
<1> QED
  BY <1>2, <1>3, <1>7, <1>8, <1>9, <1>10

-----------------------------------------------------------------------------
(* Types and the registry *)

LEMMA NoPostsEmpty == DOMAIN NoPosts = {}
BY DEF NoPosts

LEMMA InitTypes == Init => TypeOK /\ RegistryInv
<1> SUFFICES ASSUME Init PROVE TypeOK /\ RegistryInv
  OBVIOUS
<1> USE DEF Init
<1>1. Cardinality({}) = 0 /\ Cardinality(DataRef) \in Nat
  BY FS_EmptySet, FS_CardinalityType, ConfigAssumption
<1>2. TypeOK
  <2>1. /\ active \in BOOLEAN /\ inFlight \in BOOLEAN
        /\ registered \subseteq DataRef /\ found \subseteq DataRef
        /\ streams \subseteq Enabled
    OBVIOUS
  <2>5. initCount \in 0 .. Cardinality(DataRef)
    BY <1>1
  <2>6. /\ lastAttempt \in 0 .. MaxClock /\ lastSent \in [Stream -> 0 .. MaxClock]
    BY TimeAssumption
  <2>2. /\ published \subseteq DataRef
        /\ cache \in [DataRef -> Val] /\ sim \in [DataRef -> Val]
    BY ConfigAssumption
  <2>3. /\ now \in MinClock .. MaxClock
        /\ sinceUpdate \in 0 .. Period
        /\ steps \in 0 .. MaxSteps
        /\ silence \in [Regular -> Nat] /\ age \in [DataRef -> Nat]
        /\ sentSteps \in [Regular -> 0 .. MaxSteps]
        /\ triedSteps \in 0 .. MaxSteps
    BY TimeAssumption
  <2>4. DOMAIN posts = {}
    BY NoPostsEmpty
  <2> QED
    BY <2>1, <2>2, <2>3, <2>4, <2>5, <2>6 DEF TypeOK
<1>3. RegistryInv
  BY <1>1 DEF RegistryInv
<1> QED
  BY <1>2, <1>3

LEMMA NextTypes == TypeOK /\ RegistryInv /\ [Next]_vars => TypeOK' /\ RegistryInv'
<1> SUFFICES ASSUME TypeOK, RegistryInv, [Next]_vars PROVE TypeOK' /\ RegistryInv'
  OBVIOUS
<1> USE ConfigAssumption, TimeAssumption, NoPostsEmpty
    DEF registry, schedule, simulator, clock, history
<1>1. CASE Start
  <2>1. InitDataRefs(registered \cup Names) /\ ZeroNew
    BY <1>1 DEF Start, InitStreams
  <2>2. cache' \in [DataRef -> Val]
    BY <2>1 DEF ZeroNew, TypeOK
  <2>3. RegistryInv'
    BY <1>1, <2>1, AfterInitDataRefs DEF Start, InitStreams, RegistryInv
  <2>4. /\ registered' \subseteq DataRef /\ found' \subseteq DataRef
        /\ initCount' \in 0 .. Cardinality(DataRef)
        /\ age' \in [DataRef -> Nat]
    BY <2>1, AfterInitDataRefs, NamesFinite
  <2>5. /\ active' \in BOOLEAN /\ inFlight' \in BOOLEAN
    BY <1>1 DEF Start, TypeOK
  <2>6. /\ streams' \subseteq Enabled
        /\ lastAttempt' \in 0 .. MaxClock /\ lastSent' \in [Stream -> 0 .. MaxClock]
    BY <1>1 DEF Start, InitStreams, TypeOK
  <2>7. /\ sinceUpdate' \in 0 .. Period
        /\ silence' \in [Regular -> Nat]
        /\ sentSteps' \in [Regular -> 0 .. MaxSteps]
    BY <1>1 DEF Start, TypeOK
  <2>8. DOMAIN posts' = {}
    BY <1>1 DEF Start
  <2>9. TypeOK'
    BY <1>1, <2>2, <2>4, <2>5, <2>6, <2>7, <2>8 DEF Start, TypeOK
  <2> QED
    BY <2>3, <2>9
<1>2. CASE Reload
  <2>1. InitDataRefs(registered \cup Names) /\ ZeroNew
    BY <1>2 DEF Reload, InitStreams
  <2>2. cache' \in [DataRef -> Val]
    BY <2>1 DEF ZeroNew, TypeOK
  <2>3. RegistryInv'
    BY <1>2, <2>1, AfterInitDataRefs DEF Reload, InitStreams, RegistryInv
  <2>4. /\ registered' \subseteq DataRef /\ found' \subseteq DataRef
        /\ initCount' \in 0 .. Cardinality(DataRef)
        /\ age' \in [DataRef -> Nat]
    BY <2>1, AfterInitDataRefs, NamesFinite
  <2>5. /\ streams' \subseteq Enabled /\ lastSent' \in [Stream -> 0 .. MaxClock]
    BY <1>2 DEF Reload, InitStreams
  <2>6. DOMAIN posts' = {}
    BY <1>2 DEF Reload
  <2>7. TypeOK'
    BY <1>2, <2>2, <2>4, <2>5, <2>6 DEF Reload, TypeOK
  <2> QED
    BY <2>3, <2>7
<1>3. CASE Update
  <2>1. \/ InitDataRefs(registered \cup Names) /\ lastAttempt' = now /\ triedSteps' = steps
        \/ KeepRegistry /\ UNCHANGED <<lastAttempt, triedSteps>>
    BY <1>3 DEF Update, RetryLookups
  <2>2. /\ registered' \subseteq DataRef /\ found' \subseteq registered'
        /\ initCount' \in 0 .. Cardinality(DataRef)
        /\ age' \in [DataRef -> Nat]
        /\ lastAttempt' \in 0 .. MaxClock
        /\ triedSteps' \in 0 .. MaxSteps
    <3>1. CASE InitDataRefs(registered \cup Names) /\ lastAttempt' = now /\ triedSteps' = steps
      <4>1. now \in 0 .. MaxClock /\ steps \in 0 .. MaxSteps
        BY DEF TypeOK
      <4> QED
        BY <3>1, <4>1, AfterInitDataRefs, NamesFinite
    <3>2. CASE KeepRegistry /\ UNCHANGED <<lastAttempt, triedSteps>>
      BY <3>2 DEF KeepRegistry, TypeOK, RegistryInv
    <3> QED
      BY <2>1, <3>1, <3>2
  <2>3. cache' \in [DataRef -> Val]
    BY <1>3 DEF Update, ReadAll, DataRefValue, TypeOK
  <2>4. /\ lastSent' \in [Stream -> 0 .. MaxClock]
        /\ silence' \in [Regular -> Nat]
        /\ sentSteps' \in [Regular -> 0 .. MaxSteps]
    BY <1>3 DEF Update, SendDue, TypeOK
  <2>5. /\ DOMAIN posts' \subseteq Stream
        /\ \A s \in DOMAIN posts' :
             posts'[s] \in [DataRefs[s] \cap found' \cap Readable -> Val]
    <3>1. PICK due \in SUBSET Enabled : posts' = [s \in due |-> Json(s)]
      BY <1>3 DEF Update, SendDue, TypeOK
    <3> QED
      BY <2>3, <3>1 DEF Json
  <2>6. TypeOK'
    <3>1. found' \subseteq DataRef
      BY <2>2
    <3>2. /\ UNCHANGED <<active, streams, inFlight, simulator, now, steps>>
          /\ sinceUpdate' \in 0 .. Period
      BY <1>3 DEF Update
    <3> QED
      BY <2>2, <2>3, <2>4, <2>5, <3>1, <3>2 DEF TypeOK
  <2>7. RegistryInv'
    BY <1>3, <2>1, AfterInitDataRefs DEF Update, KeepRegistry, RegistryInv
  <2> QED
    BY <2>6, <2>7
<1>4. CASE PlaneLoaded
  <2>1. InitDataRefs(registered \cup Names) /\ ZeroNew
    BY <1>4 DEF PlaneLoaded
  <2>2. cache' \in [DataRef -> Val]
    BY <2>1 DEF ZeroNew, TypeOK
  <2>3. RegistryInv'
    BY <1>4, <2>1, AfterInitDataRefs DEF PlaneLoaded, RegistryInv
  <2>4. TypeOK'
    BY <1>4, <2>1, <2>2, AfterInitDataRefs, NamesFinite DEF PlaneLoaded, TypeOK
  <2> QED
    BY <2>3, <2>4
<1>5. CASE PlaneUnloaded
  BY <1>5 DEF PlaneUnloaded, TypeOK, RegistryInv, Names, Regular
<1>6. CASE Stop
  BY <1>6 DEF Stop, TypeOK, RegistryInv, Names, Regular
<1>7. ASSUME NEW d \in DataRef, Publish(d) PROVE TypeOK' /\ RegistryInv'
  BY <1>7 DEF Publish, TypeOK, RegistryInv, Names, Regular
<1>8. ASSUME NEW d \in DataRef, Withdraw(d) PROVE TypeOK' /\ RegistryInv'
  BY <1>8 DEF Withdraw, TypeOK, RegistryInv, Names, Regular
<1>9. ASSUME NEW d \in DataRef, NEW v \in Val, SimChange(d, v) PROVE TypeOK' /\ RegistryInv'
  BY <1>9 DEF SimChange, TypeOK, RegistryInv, Names, Regular
<1>10. CASE Tick
  <2>1. /\ age' \in [DataRef -> Nat] /\ silence' \in [Regular -> Nat]
        /\ now' \in MinClock .. MaxClock /\ sinceUpdate' \in 0 .. Period
    BY <1>10 DEF Tick, TypeOK
  <2> QED
    BY <1>10, <2>1 DEF Tick, TypeOK, RegistryInv, Names, Regular
<1>11. ASSUME NEW t \in MinClock .. MaxClock, ClockStep(t) PROVE TypeOK' /\ RegistryInv'
  BY <1>11 DEF ClockStep, TypeOK, RegistryInv, Names, Regular
<1>12. CASE UNCHANGED vars
  BY <1>12 DEF vars, TypeOK, RegistryInv, Names, Regular
<1> QED
  BY <1>1, <1>2, <1>3, <1>4, <1>5, <1>6, <1>7, <1>8, <1>9, <1>10, <1>11, <1>12
  DEF Next, Environment

-----------------------------------------------------------------------------
(* Timers *)

(* Time passes: if the clock reaches a timestamp that was in the future,   *)
(* the interval begins anew.                                               *)
LEMMA TimerTick ==
  ASSUME NEW n \in Nat, NEW u \in Nat, NEW x \in Nat, NEW t \in Nat, NEW k \in Nat,
         NEW i \in Nat, OnTime(n, u, x, t, k, i), u < Period
  PROVE  OnTime(n + 1, u + 1, x + 1, t, k, i)
<1> DEFINE C == k * (i + Period)
<1>1. C \in Nat /\ Period \in Nat
  BY TimeAssumption, Allowance
<1> HIDE DEF C
<1>2. /\ t # 0 /\ n >= t => x - (n - t) <= C
      /\ t # 0 /\ n < t  => x - u + Period <= C
      /\ x - u <= C + i
  BY DEF OnTime, C
<1>3. t # 0 /\ n + 1 >= t => (x + 1) - ((n + 1) - t) <= C
  BY <1>1, <1>2
<1>4. t # 0 /\ n + 1 < t  => (x + 1) - (u + 1) + Period <= C
  BY <1>1, <1>2
<1>5. (x + 1) - (u + 1) <= C + i
  BY <1>1, <1>2
<1> QED
  BY <1>3, <1>4, <1>5 DEF OnTime, C

(* The clock is adjusted to m. *)
LEMMA TimerStep ==
  ASSUME NEW n \in Nat, NEW u \in Nat, NEW x \in Nat, NEW t \in Nat, NEW k \in Nat,
         NEW i \in Nat, NEW m \in Nat, OnTime(n, u, x, t, k, i), u <= Period
  PROVE  OnTime(m, u, x, t, k + 1, i)
<1> DEFINE C == k * (i + Period)
           D == (k + 1) * (i + Period)
<1>1. C \in Nat /\ Period \in Nat /\ D = C + i + Period
  BY TimeAssumption, Allowance
<1> HIDE DEF C, D
<1>2. x - u <= C + i
  BY DEF OnTime, C
<1>3. t # 0 /\ m >= t => x - (m - t) <= D
  BY <1>1, <1>2
<1>4. t # 0 /\ m < t  => x - u + Period <= D
  BY <1>1, <1>2
<1>5. x - u <= D + i
  BY <1>1, <1>2
<1> QED
  BY <1>3, <1>4, <1>5 DEF OnTime, D

(* update() finds that the timer is not due. *)
LEMMA TimerNotDue ==
  ASSUME NEW n \in Nat, NEW u \in Nat, NEW x \in Nat, NEW t \in Nat, NEW k \in Nat,
         NEW i \in Nat, OnTime(n, u, x, t, k, i), t # 0, n >= t, n - t <= i
  PROVE  OnTime(n, 0, x, t, k, i)
<1>1. k * (i + Period) \in Nat
  BY TimeAssumption, Allowance
<1> QED
  BY <1>1 DEF OnTime

(* A wait begins. *)
LEMMA TimerStart ==
  ASSUME NEW n \in Nat, NEW u \in Nat, NEW t \in Nat, NEW k \in Nat, NEW i \in Nat,
         t = 0 \/ n >= t \/ k >= 1
  PROVE  OnTime(n, u, 0, t, k, i)
<1>1. /\ Period \in Nat /\ k * (i + Period) \in Nat
      /\ k >= 1 => k * (i + Period) >= i + Period
  BY TimeAssumption, Allowance
<1> QED
  BY <1>1 DEF OnTime

LEMMA TimerBound ==
  ASSUME NEW n \in Nat, NEW u \in Nat, NEW x \in Nat, NEW t \in Nat, NEW k \in Nat,
         NEW i \in Nat, OnTime(n, u, x, t, k, i), u <= Period
  PROVE  x <= (k + 1) * (i + Period)
<1>1. /\ Period \in Nat /\ k * (i + Period) \in Nat
      /\ (k + 1) * (i + Period) = k * (i + Period) + i + Period
  BY TimeAssumption, Allowance
<1> QED
  BY <1>1 DEF OnTime

(* A stream of which lastSentMillis is in the future is due, as is one     *)
(* that was never sent.                                                    *)
LEMMA NotDue ==
  ASSUME TypeOK, NEW s \in Regular, ~Due(s)
  PROVE  lastSent[s] # 0 /\ now >= lastSent[s] /\ now - lastSent[s] <= Interval[s]
<1>1. /\ Interval[s] \in Nat /\ Interval[s] <= MinClock /\ Interval[s] <= W - MaxClock
      /\ lastSent[s] \in 0 .. MaxClock /\ now \in MinClock .. MaxClock
  BY ConfigAssumption, TimeAssumption DEF Regular, TypeOK
<1> QED
  BY <1>1, TimeAssumption DEF Due, Elapsed, Unsigned

-----------------------------------------------------------------------------
(* The schedule of the streams *)

LEMMA RegularInterval ==
  \A s \in Regular : s \in Stream /\ Interval[s] \in Nat
BY ConfigAssumption DEF Regular

(* The natural numbers behind a stream's timer. *)
LEMMA SilenceTypes ==
  ASSUME TypeOK, NEW s \in Regular, sentSteps[s] <= steps
  PROVE  /\ silence[s] \in Nat /\ lastSent[s] \in Nat
         /\ steps - sentSteps[s] \in Nat
         /\ now \in Nat /\ sinceUpdate \in Nat /\ sinceUpdate <= Period
BY RegularInterval, TimeAssumption DEF TypeOK

LEMMA NextSilence == TypeOK /\ RegistryInv /\ SilenceInv /\ [Next]_vars => SilenceInv'
<1> SUFFICES ASSUME TypeOK, RegistryInv, SilenceInv, [Next]_vars,
                    NEW s \in streams' \cap Regular
             PROVE  /\ sentSteps'[s] <= steps'
                    /\ OnTime(now', sinceUpdate', silence'[s], lastSent'[s],
                              steps' - sentSteps'[s], Interval[s])
                    /\ lastSent'[s] # 0 /\ steps' = sentSteps'[s] =>
                         now' >= lastSent'[s] /\ silence'[s] = now' - lastSent'[s]
  BY DEF SilenceInv, Regular
<1> DEFINE Goal == /\ sentSteps'[s] <= steps'
                   /\ OnTime(now', sinceUpdate', silence'[s], lastSent'[s],
                             steps' - sentSteps'[s], Interval[s])
                   /\ lastSent'[s] # 0 /\ steps' = sentSteps'[s] =>
                        now' >= lastSent'[s] /\ silence'[s] = now' - lastSent'[s]
<1> USE DEF registry, schedule, simulator, clock, history
<1>1. s \in Stream /\ s \in Regular /\ Interval[s] \in Nat
  BY RegularInterval
<1>2. steps \in Nat /\ now \in Nat /\ sinceUpdate \in Nat /\ sentSteps[s] \in Nat
  BY <1>1, TimeAssumption DEF TypeOK
<1>3. ASSUME UNCHANGED <<lastSent, clock, silence, sentSteps>>, s \in streams
      PROVE  Goal
  BY <1>3, <1>1 DEF SilenceInv
<1>4. CASE Start
  <2>1. /\ lastSent'[s] = 0 /\ silence'[s] = 0 /\ sentSteps'[s] = steps
        /\ sinceUpdate' = 0 /\ UNCHANGED <<now, steps>>
    BY <1>4, <1>1 DEF Start, InitStreams
  <2>2. OnTime(now, 0, 0, 0, 0, Interval[s])
    BY <1>1, <1>2, TimerStart
  <2> QED
    BY <1>2, <2>1, <2>2
<1>5. CASE Reload
  <2>1. /\ lastSent'[s] = 0 /\ s \in Enabled
        /\ UNCHANGED <<clock, silence, sentSteps>>
    BY <1>5, <1>1 DEF Reload, InitStreams
  <2>2. s \in streams
    BY <1>5, <2>1 DEF Reload, InitStreams, RegistryInv
  <2>3. /\ sentSteps[s] <= steps
        /\ OnTime(now, sinceUpdate, silence[s], lastSent[s], steps - sentSteps[s], Interval[s])
    BY <2>2, <1>1 DEF SilenceInv
  <2>4. OnTime(now, sinceUpdate, silence[s], 0, steps - sentSteps[s], Interval[s])
    BY <2>3 DEF OnTime
  <2> QED
    BY <2>1, <2>3, <2>4
<1>6. CASE Update
  <2>1. s \in streams /\ sinceUpdate' = 0 /\ UNCHANGED <<now, steps>>
    BY <1>6 DEF Update
  <2>2. /\ sentSteps[s] <= steps
        /\ OnTime(now, sinceUpdate, silence[s], lastSent[s], steps - sentSteps[s], Interval[s])
        /\ lastSent[s] # 0 /\ steps = sentSteps[s] =>
             now >= lastSent[s] /\ silence[s] = now - lastSent[s]
    BY <2>1, <1>1 DEF SilenceInv
  <2>3. CASE Due(s)
    <3>1. lastSent'[s] = now /\ silence'[s] = 0 /\ sentSteps'[s] = steps
      BY <1>1, <1>6, <2>1, <2>3 DEF Update, SendDue
    <3>2. OnTime(now, 0, 0, now, 0, Interval[s])
      BY <1>1, <1>2, TimerStart
    <3> QED
      BY <1>2, <2>1, <3>1, <3>2
  <2>4. CASE ~Due(s)
    <3>1. /\ lastSent'[s] = lastSent[s] /\ silence'[s] = silence[s]
          /\ sentSteps'[s] = sentSteps[s]
      BY <1>1, <1>6, <2>1, <2>4 DEF Update, SendDue
    <3>2. OnTime(now, 0, silence[s], lastSent[s], steps - sentSteps[s], Interval[s])
      BY <1>1, <1>2, <2>2, <2>4, NotDue, SilenceTypes, TimerNotDue
    <3> QED
      BY <2>1, <2>2, <3>1, <3>2
  <2> QED
    BY <2>3, <2>4
<1>7. CASE PlaneLoaded
  BY <1>3, <1>7 DEF PlaneLoaded
<1>8. CASE PlaneUnloaded
  BY <1>3, <1>8 DEF PlaneUnloaded
<1>9. CASE Stop
  BY <1>9 DEF Stop
<1>10. ASSUME NEW d \in DataRef, Publish(d) PROVE Goal
  BY <1>3, <1>10 DEF Publish
<1>11. ASSUME NEW d \in DataRef, Withdraw(d) PROVE Goal
  BY <1>3, <1>11 DEF Withdraw
<1>12. ASSUME NEW d \in DataRef, NEW v \in Val, SimChange(d, v) PROVE Goal
  BY <1>3, <1>12 DEF SimChange
<1>13. CASE Tick
  <2>1. /\ s \in streams /\ sinceUpdate < Period
        /\ now' = now + 1 /\ sinceUpdate' = sinceUpdate + 1
        /\ silence'[s] = silence[s] + 1
        /\ UNCHANGED <<lastSent, steps, sentSteps>>
    BY <1>1, <1>13 DEF Tick
  <2>2. /\ sentSteps[s] <= steps
        /\ OnTime(now, sinceUpdate, silence[s], lastSent[s], steps - sentSteps[s], Interval[s])
        /\ lastSent[s] # 0 /\ steps = sentSteps[s] =>
             now >= lastSent[s] /\ silence[s] = now - lastSent[s]
    BY <2>1, <1>1 DEF SilenceInv
  <2>3. silence[s] \in Nat /\ lastSent[s] \in Nat /\ steps - sentSteps[s] \in Nat
    BY <1>1, <2>2, SilenceTypes
  <2>4. OnTime(now + 1, sinceUpdate + 1, silence[s] + 1, lastSent[s],
               steps - sentSteps[s], Interval[s])
    BY <1>1, <1>2, <2>1, <2>2, <2>3, TimerTick
  <2> QED
    BY <1>2, <2>1, <2>2, <2>3, <2>4
<1>14. ASSUME NEW t \in MinClock .. MaxClock, ClockStep(t) PROVE Goal
  <2>1. /\ s \in streams /\ now' = t /\ steps' = steps + 1
        /\ UNCHANGED <<lastSent, sinceUpdate, silence, sentSteps>>
    BY <1>14 DEF ClockStep
  <2>2. /\ sentSteps[s] <= steps
        /\ OnTime(now, sinceUpdate, silence[s], lastSent[s], steps - sentSteps[s], Interval[s])
    BY <2>1, <1>1 DEF SilenceInv
  <2>3. /\ silence[s] \in Nat /\ lastSent[s] \in Nat /\ steps - sentSteps[s] \in Nat
        /\ sinceUpdate <= Period /\ t \in Nat
    BY <1>1, <2>2, SilenceTypes, TimeAssumption
  <2>4. OnTime(t, sinceUpdate, silence[s], lastSent[s], (steps - sentSteps[s]) + 1, Interval[s])
    BY <1>1, <1>2, <2>2, <2>3, TimerStep
  <2>5. steps' - sentSteps'[s] = (steps - sentSteps[s]) + 1 /\ sentSteps'[s] < steps'
    BY <1>2, <2>1, <2>2
  <2> QED
    BY <1>2, <2>1, <2>2, <2>4, <2>5
<1>15. CASE UNCHANGED vars
  BY <1>3, <1>15 DEF vars
<1> QED
  BY <1>4, <1>5, <1>6, <1>7, <1>8, <1>9, <1>10, <1>11, <1>12, <1>13, <1>14, <1>15
  DEF Next, Environment

-----------------------------------------------------------------------------
(* The lookups *)

(* update() only leaves failed lookups alone while the retry interval has  *)
(* not passed: a slot without a handle is noticed, the first attempt is    *)
(* immediate and a last attempt in the future does not hold up the next.   *)
LEMMA NotRetried ==
  ASSUME TypeOK, RegistryInv, active, NEW d \in Waiting, ~RetryDue
  PROVE  lastAttempt # 0 /\ now >= lastAttempt /\ now - lastAttempt <= Retry
<1>1. registered = Names /\ found \subseteq Names /\ d \in Names \ found
  BY DEF RegistryInv, Waiting
<1>2. initCount < Cardinality(registered)
  <2>1. Cardinality(found) < Cardinality(Names)
    BY <1>1, NamesFinite, StrictSubset
  <2> QED
    BY <1>1, <2>1 DEF RegistryInv
<1>3. lastAttempt # 0 /\ Elapsed(lastAttempt) <= Retry
  <2>1. Elapsed(lastAttempt) \in Int
    BY TimeAssumption DEF Elapsed, TypeOK
  <2> QED
    BY <1>2, <2>1, TimeAssumption DEF RetryDue
<1> QED
  BY <1>3, TimeAssumption DEF Elapsed, TypeOK

LEMMA DiscoveryTypes ==
  ASSUME TypeOK, NEW d \in DataRef, triedSteps <= steps
  PROVE  /\ age[d] \in Nat /\ lastAttempt \in Nat /\ steps - triedSteps \in Nat
         /\ now \in Nat /\ sinceUpdate \in Nat /\ sinceUpdate <= Period
         /\ steps \in Nat /\ triedSteps \in Nat /\ Retry \in Nat /\ Period \in Nat
BY TimeAssumption DEF TypeOK

LEMMA NextDiscovery == TypeOK /\ RegistryInv /\ DiscoveryInv /\ [Next]_vars => DiscoveryInv'
<1> SUFFICES ASSUME TypeOK, RegistryInv, DiscoveryInv, [Next]_vars PROVE DiscoveryInv'
  OBVIOUS
<1> USE DEF registry, schedule, simulator, clock, history
<1>1. /\ triedSteps <= steps
      /\ lastAttempt # 0 /\ steps = triedSteps => now >= lastAttempt
  BY DEF DiscoveryInv
<1>2. /\ steps \in Nat /\ triedSteps \in Nat /\ now \in Nat /\ lastAttempt \in Nat
      /\ sinceUpdate \in Nat /\ Retry \in Nat /\ Period \in Nat
  BY TimeAssumption DEF TypeOK
<1>3. Waiting \subseteq DataRef /\ Waiting' \subseteq DataRef
  BY NamesFinite DEF Waiting
(* Every lookup that could succeed has just been made. *)
<1>4. ASSUME InitDataRefs(registered \cup Names),
             UNCHANGED <<published, lastAttempt, now, steps, triedSteps>>
      PROVE  DiscoveryInv'
  <2>1. Waiting' = {}
    BY <1>4, AfterInitDataRefs
  <2> QED
    BY <1>1, <1>4, <2>1 DEF DiscoveryInv
(* Nobody starts to wait and time stands still. *)
<1>5. ASSUME UNCHANGED <<found, lastAttempt, clock, age, triedSteps>>,
             published' \subseteq published, active' => active
      PROVE  DiscoveryInv'
  <2>1. Waiting' \subseteq Waiting
    BY <1>5 DEF Waiting
  <2> QED
    BY <1>5, <2>1 DEF DiscoveryInv
<1>6. CASE Start
  BY <1>4, <1>6 DEF Start, InitStreams
<1>7. CASE Reload
  BY <1>4, <1>7 DEF Reload, InitStreams
<1>8. CASE Update
  <2>1. CASE RetryDue
    <3>1. /\ InitDataRefs(registered \cup Names)
          /\ lastAttempt' = now /\ triedSteps' = steps
          /\ UNCHANGED <<published, now, steps>>
      BY <1>8, <2>1 DEF Update, RetryLookups
    <3>2. Waiting' = {}
      BY <3>1, AfterInitDataRefs
    <3> QED
      BY <1>2, <3>1, <3>2 DEF DiscoveryInv
  <2>2. CASE ~RetryDue
    <3>1. /\ UNCHANGED <<found, age, lastAttempt, triedSteps, published, now, steps>>
          /\ sinceUpdate' = 0 /\ active /\ active' = active
      BY <1>8, <2>2 DEF Update, RetryLookups, KeepRegistry
    <3>2. Waiting' = Waiting
      BY <3>1 DEF Waiting
    <3>3. ASSUME NEW d \in Waiting
          PROVE  /\ OnTime(now, 0, age[d], lastAttempt, steps - triedSteps, Retry)
                 /\ lastAttempt # 0
      <4>1. lastAttempt # 0 /\ now >= lastAttempt /\ now - lastAttempt <= Retry
        BY <2>2, <3>1, NotRetried
      <4>2. OnTime(now, sinceUpdate, age[d], lastAttempt, steps - triedSteps, Retry)
        BY <3>1 DEF DiscoveryInv
      <4>3. age[d] \in Nat /\ steps - triedSteps \in Nat
        BY <1>1, <1>3, DiscoveryTypes
      <4> QED
        BY <1>2, <4>1, <4>2, <4>3, TimerNotDue
    <3> QED
      BY <1>1, <3>1, <3>2, <3>3 DEF DiscoveryInv
  <2> QED
    BY <2>1, <2>2
<1>9. CASE PlaneLoaded
  BY <1>4, <1>9 DEF PlaneLoaded
<1>10. CASE PlaneUnloaded
  BY <1>5, <1>10 DEF PlaneUnloaded
<1>11. CASE Stop
  BY <1>5, <1>11 DEF Stop
<1>12. ASSUME NEW d \in DataRef, Publish(d) PROVE DiscoveryInv'
  <2>1. /\ published' = published \cup {d} /\ age' = [age EXCEPT ![d] = 0]
        /\ UNCHANGED <<active, found, lastAttempt, clock, triedSteps>>
    BY <1>12 DEF Publish
  <2>2. ASSUME NEW e \in Waiting', active
        PROVE  /\ OnTime(now, sinceUpdate, age'[e], lastAttempt, steps - triedSteps, Retry)
               /\ lastAttempt = 0 => age'[e] <= sinceUpdate
    <3>1. CASE e = d
      <4>1. age'[e] = 0
        BY <2>1, <3>1 DEF TypeOK
      <4>2. lastAttempt = 0 \/ now >= lastAttempt \/ steps - triedSteps >= 1
        BY <1>1, <1>2
      <4>3. steps - triedSteps \in Nat
        BY <1>1, <1>2
      <4> QED
        BY <1>2, <4>1, <4>2, <4>3, TimerStart
    <3>2. CASE e # d
      <4>1. e \in Waiting /\ age'[e] = age[e]
        BY <1>3, <2>1, <3>2 DEF Waiting, TypeOK
      <4> QED
        BY <2>2, <4>1 DEF DiscoveryInv
    <3> QED
      BY <3>1, <3>2
  <2> QED
    BY <1>1, <2>1, <2>2 DEF DiscoveryInv
<1>13. ASSUME NEW d \in DataRef, Withdraw(d) PROVE DiscoveryInv'
  BY <1>5, <1>13 DEF Withdraw
<1>14. ASSUME NEW d \in DataRef, NEW v \in Val, SimChange(d, v) PROVE DiscoveryInv'
  BY <1>5, <1>14 DEF SimChange
<1>15. CASE Tick
  <2>1. /\ active /\ sinceUpdate < Period
        /\ now' = now + 1 /\ sinceUpdate' = sinceUpdate + 1
        /\ age' = [d \in DataRef |-> IF d \in Waiting THEN age[d] + 1 ELSE age[d]]
        /\ UNCHANGED <<active, found, published, lastAttempt, steps, triedSteps>>
    BY <1>15 DEF Tick
  <2>2. Waiting' = Waiting
    BY <2>1 DEF Waiting
  <2>3. ASSUME NEW d \in Waiting
        PROVE  /\ OnTime(now + 1, sinceUpdate + 1, age'[d], lastAttempt,
                         steps - triedSteps, Retry)
               /\ lastAttempt = 0 => age'[d] <= sinceUpdate + 1
    <3>1. /\ OnTime(now, sinceUpdate, age[d], lastAttempt, steps - triedSteps, Retry)
          /\ lastAttempt = 0 => age[d] <= sinceUpdate
      BY <2>1 DEF DiscoveryInv
    <3>2. age[d] \in Nat /\ steps - triedSteps \in Nat /\ age'[d] = age[d] + 1
      BY <1>1, <1>3, <2>1, DiscoveryTypes
    <3>3. OnTime(now + 1, sinceUpdate + 1, age[d] + 1, lastAttempt, steps - triedSteps, Retry)
      BY <1>2, <2>1, <3>1, <3>2, TimerTick
    <3>4. lastAttempt = 0 => age[d] + 1 <= sinceUpdate + 1
      BY <1>2, <3>1, <3>2
    <3> QED
      BY <3>2, <3>3, <3>4
  <2> QED
    BY <1>1, <1>2, <2>1, <2>2, <2>3 DEF DiscoveryInv
<1>16. ASSUME NEW t \in MinClock .. MaxClock, ClockStep(t) PROVE DiscoveryInv'
  <2>1. /\ active /\ now' = t /\ steps' = steps + 1 /\ t \in Nat
        /\ UNCHANGED <<active, found, published, lastAttempt, sinceUpdate, age, triedSteps>>
    BY <1>16, TimeAssumption DEF ClockStep
  <2>2. Waiting' = Waiting
    BY <2>1 DEF Waiting
  <2>3. steps' - triedSteps' = (steps - triedSteps) + 1 /\ triedSteps' < steps'
    BY <1>1, <1>2, <2>1
  <2>4. ASSUME NEW d \in Waiting
        PROVE  /\ OnTime(t, sinceUpdate, age[d], lastAttempt, (steps - triedSteps) + 1, Retry)
               /\ lastAttempt = 0 => age[d] <= sinceUpdate
    <3>1. /\ OnTime(now, sinceUpdate, age[d], lastAttempt, steps - triedSteps, Retry)
          /\ lastAttempt = 0 => age[d] <= sinceUpdate
      BY <2>1 DEF DiscoveryInv
    <3>2. age[d] \in Nat /\ steps - triedSteps \in Nat /\ sinceUpdate <= Period
      BY <1>1, <1>3, DiscoveryTypes
    <3> QED
      BY <1>2, <2>1, <3>1, <3>2, TimerStep
  <2> QED
    BY <1>2, <2>1, <2>2, <2>3, <2>4 DEF DiscoveryInv
<1>17. CASE UNCHANGED vars
  BY <1>5, <1>17 DEF vars
<1> QED
  BY <1>6, <1>7, <1>8, <1>9, <1>10, <1>11, <1>12, <1>13, <1>14, <1>15, <1>16, <1>17
  DEF Next, Environment

-----------------------------------------------------------------------------
(* Theorems *)

LEMMA InitIInv == Init => IInv
BY InitTypes, TimeAssumption DEF Init, IInv, SilenceInv, DiscoveryInv, TypeOK

LEMMA NextIInv == IInv /\ [Next]_vars => IInv'
BY NextTypes, NextSilence, NextDiscovery DEF IInv

LEMMA Inductive == Spec => []IInv
BY InitIInv, NextIInv, PTL DEF Spec

(* Every variable of XplData always has its type; in particular initCount  *)
(* never leaves the range of the registry's size.                          *)
THEOREM TypeCorrect == Spec => []TypeOK
<1>1. IInv => TypeOK
  BY DEF IInv
<1> QED
  BY <1>1, Inductive, PTL

(* initCount and the registry's size tell update() exactly whether there   *)
(* is something left to look up.                                           *)
THEOREM CountIsExact == Spec => []CountExact
<1>1. IInv => CountExact
  <2> SUFFICES ASSUME IInv PROVE CountExact
    OBVIOUS
  <2>1. found \subseteq registered /\ IsFiniteSet(registered) /\ IsFiniteSet(found)
    BY ConfigAssumption, FS_Subset DEF IInv, TypeOK, RegistryInv
  <2>2. Cardinality(found) \in Nat /\ Cardinality(registered) \in Nat
    BY <2>1, FS_CardinalityType
  <2>3. CASE found = registered
    BY <2>2, <2>3 DEF IInv, RegistryInv, CountExact
  <2>4. CASE found # registered
    <3>1. Cardinality(found) < Cardinality(registered)
      BY <2>1, <2>4, StrictSubset
    <3> QED
      BY <2>1, <2>4, <3>1 DEF IInv, RegistryInv, CountExact
  <2> QED
    BY <2>3, <2>4
<1> QED
  BY <1>1, Inductive, PTL

(* A dataref published while the plugin runs is found in bounded time.     *)
THEOREM DiscoveryIsBounded == Spec => []DiscoveryBound
<1>1. IInv => DiscoveryBound
  <2> SUFFICES ASSUME IInv, active, NEW d \in Waiting
               PROVE  age[d] <= (steps - triedSteps + 1) * (Retry + Period)
    BY DEF DiscoveryBound
  <2>1. /\ OnTime(now, sinceUpdate, age[d], lastAttempt, steps - triedSteps, Retry)
        /\ triedSteps <= steps
    BY DEF IInv, DiscoveryInv
  <2>2. d \in DataRef
    BY NamesFinite DEF Waiting
  <2> QED
    BY <2>1, <2>2, DiscoveryTypes, TimerBound DEF IInv
<1> QED
  BY <1>1, Inductive, PTL

(* No running stream is silent for longer than its interval and a period,  *)
(* and as much again for each adjustment of the clock.                     *)
THEOREM SilenceIsBounded == Spec => []SilenceBound
<1>1. IInv => SilenceBound
  <2> SUFFICES ASSUME IInv, NEW s \in streams \cap Regular
               PROVE  silence[s] <= (steps - sentSteps[s] + 1) * (Interval[s] + Period)
    BY DEF SilenceBound
  <2>1. /\ OnTime(now, sinceUpdate, silence[s], lastSent[s], steps - sentSteps[s], Interval[s])
        /\ sentSteps[s] <= steps
    BY DEF IInv, SilenceInv
  <2> QED
    BY <2>1, RegularInterval, SilenceTypes, TimerBound DEF IInv
<1> QED
  BY <1>1, Inductive, PTL

(* With an undisturbed clock a stream never sends before its interval.     *)
THEOREM IntervalIsKept == Spec => NotTooEarly
<1> DEFINE Early == \A s \in Regular \cap DOMAIN posts' :
              lastSent[s] # 0 /\ steps = sentSteps[s] => silence[s] >= Interval[s]
<1>1. IInv /\ [Next]_vars => [Early]_vars
  <2> SUFFICES ASSUME IInv, Next, NEW s \in Regular \cap DOMAIN posts',
                      lastSent[s] # 0, steps = sentSteps[s]
               PROVE  silence[s] >= Interval[s]
    OBVIOUS
  <2>1. Update
    <3>1. DOMAIN posts' # {}
      OBVIOUS
    <3>2. posts' # NoPosts
      BY <3>1, NoPostsEmpty
    <3> QED
      BY <3>2 DEF Next, Environment, Start, Reload, PlaneLoaded, PlaneUnloaded, Stop,
        Publish, Withdraw, SimChange, Tick, ClockStep
  <2>2. s \in streams /\ Due(s)
    BY <2>1 DEF Update, SendDue
  <2>3. now >= lastSent[s] /\ silence[s] = now - lastSent[s]
    BY <2>2 DEF IInv, SilenceInv
  <2> QED
    BY <2>2, <2>3, RegularInterval DEF Due, Elapsed, Unsigned
<1>2. Spec => [][Early]_vars
  BY <1>1, Inductive, PTL DEF Spec
<1> QED
  BY <1>2 DEF NotTooEarly

(* A message carries the simulator's current value of every dataref it     *)
(* holds, except an array or a text whose owner is gone.                   *)
THEOREM PostsAreFresh == Spec => []FreshPosts
<1>1. Init => FreshPosts
  BY NoPostsEmpty DEF Init, FreshPosts
<1>2. IInv /\ FreshPosts /\ [Next]_vars => FreshPosts'
  <2> SUFFICES ASSUME IInv, FreshPosts, [Next]_vars PROVE FreshPosts'
    OBVIOUS
  <2>1. CASE posts' = NoPosts
    BY <2>1, NoPostsEmpty DEF FreshPosts
  <2>2. CASE Update
    <3>1. PICK due \in SUBSET streams : posts' = [s \in due |-> Json(s)]
      BY <2>2 DEF Update, SendDue
    <3>2. ASSUME NEW s \in due, NEW d \in DOMAIN posts'[s]
          PROVE  \/ d \in published' /\ posts'[s][d] = sim'[d]
                 \/ d \notin published' /\ (d \in Copied \/ posts'[s][d] = Zero)
      <4>1. d \in DataRefs[s] \cap found' \cap Readable /\ posts'[s][d] = cache'[d]
        BY <3>1, <3>2 DEF Json
      <4>2. cache'[d] = DataRefValue(d)
        BY <2>2, <4>1, ConfigAssumption DEF Update, ReadAll
      <4> QED
        BY <2>2, <4>1, <4>2 DEF Update, DataRefValue, simulator
    <3> QED
      BY <3>1, <3>2 DEF FreshPosts
  <2>3. CASE UNCHANGED vars
    BY <2>3 DEF vars, simulator, FreshPosts
  <2> QED
    BY <2>1, <2>2, <2>3 DEF Next, Environment, Start, Reload, PlaneLoaded,
      PlaneUnloaded, Stop, Publish, Withdraw, SimChange, Tick, ClockStep
<1> QED
  BY <1>1, <1>2, Inductive, PTL DEF Spec
=============================================================================
