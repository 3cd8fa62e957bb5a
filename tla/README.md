# Verification of XplDrToUdp

XplDrToUdp is an X-Plane plugin (C++, Windows) that reads datarefs on the simulator's flight
loop and pushes them, as JSON, to UDP sockets and serial ports, each stream on its own
schedule; a small web server shows the values and can reload the streams. This directory
holds TLA+ models of its code, TLC configurations that check them on small instances, and
TLAPS proofs of their main properties for all instances. Paths below are relative to the
repository.

## 1. Inventory

### Threads

| Thread | Runs | Started / ended by |
|---|---|---|
| flight loop (X-Plane's) | `XPluginStart`, `XPluginStop`, `XPluginReceiveMessage`, `MyFlightLoopCallback` -> `XplData::update` | the simulator |
| web | `TcpListener::run` -> `WebServer::onMessageReceived` -> `ApiController`; `/api/reload` runs `XplData::init` on this thread | `XPluginStart` / `XPluginStop` (stop flag, join) |
| one worker per stream | `run` of `UdpDataPushSerice` or `SerialDataPushService` | `XplData::init` / `stopAllStreams` (terminate, join) |

### Components

| Component | Source | State | Operations | Hard behaviour | What makes it correct |
|---|---|---|---|---|---|
| push services | `src/UdpDataPushSerice.cpp`, `src/SerialDataPushService.cpp` | mailbox `dataToSend`, `mtx`, `cv`, `isConnected`, `shouldTerminate`, handle | connect, disconnect, run, doSendData, sendData, terminate | worker, flight loop and stopping thread interleave; spurious wakeups; system calls under the lock; connect and write failures | newest text is sent, once, none is lost silently; join ends; everything is released |
| registry and schedule | `src/XplData.cpp` | `masterRegistry`, `dataRefInitializedCount`, `lastDataRefInitAttemptMillis`, `streams` with `lastSentMillis`, `inFlight` | init, initDataRefs, update, onPluginReceiveMessage, stopAllStreams | a counter kept beside the map; unsigned time arithmetic on an adjustable clock; datarefs that appear late; reloads | datarefs are found in bounded time; streams keep their interval and never fall silent; messages hold current values |
| value cache and JSON | `src/XplData.cpp` (initDataRef, readDataRefValue, buildJson, valuesAsJson) | union `XplValue`, `valuesCount`, `type` | find, read, build | fixed-size buffers, type masks, alias collisions, datarefs that change their type, a reader without a lock | a message says what the simulator says; nobody reads beyond a slot |
| life cycle | `src/main.cpp` | callback registration, `webServerThread` | start, stop, callback, messages | order of the threads' ends, reload during an update | no thread survives the stop; no use of a freed stream |
| configuration | `src/Config.cpp` | stream list, `WebConfig` | readConfigFile, parseStreams, parseLegacy, parseDataRefs | two formats, defaults, an error in the middle | a stream list that init can run |
| TCP listener | `src/TcpListener.cpp` | `m_master`, `m_running`, `m_socket` | init, run, stop, sendToClient | set of at most 64 sockets, failing accept, stop before run, clients that do not read | every client is served or closed; stop ends run |
| web server, API | `src/WebServer.cpp`, `src/ApiController.cpp` | none of their own | route a request, reload | runs beside the flight loop | one answer per request |
| log appender | `src/main.cpp` (`MyAppender`) | deque of at most 100 lines | write, read by `/log` | every thread writes, no lock, one also reads | never far from the maximum, newest lines kept, a page shows the list and ends |

Interaction: `update` calls `sendData` of each due stream, which hands the text to the
worker through the mailbox; `init` makes senders and threads; `stopAllStreams` terminates
and joins them; the web thread calls `init` and reads the registry; every component logs.

The line-by-line list of what is hard to test is under `hazards` in `PROJECT.json`, each
entry with the properties that cover it, or a note saying why none does.

## 2. Modules

| Module | Content |
|---|---|
| `LatestValueChannel` | abstract specification of a push service: a one-place channel that keeps the newest value |
| `Worker` | the worker of a push service as the rest of the plugin sees it: no mutex, the mailbox full or empty |
| `PushService` | both push services, in full concurrency; properties; refinement mappings to `LatestValueChannel` and to `Worker` |
| `MCPushService` | instance for TLC |
| `PushServiceProofs` | inductive invariant, theorems, two refinement proofs |
| `XplData` | registry, retries and stream schedule, on a clock that may be adjusted |
| `MCXplData` | instances for TLC |
| `XplDataProofs` | inductive invariant, theorems |
| `Plugin` | the threads from `XPluginStart` to `XPluginStop` around the vector of streams, with a `Worker` for each sender |
| `MCPlugin` | instance for TLC |
| `PluginProofs` | inductive invariants, theorems, refinement proofs against `Worker` and `Server` |
| `ConcurrentLookup` | `initDataRefs` run by two threads at once |
| `ConcurrentLookupProofs` | inductive invariant, theorems |
| `Server` | the web server's thread as the rest of the plugin sees it: the turns of its loop and `m_running` |
| `TcpListener` | the set of sockets of the web server, its loop and its clients, with a refinement mapping to `Server`; run by TLC as it is |
| `TcpListenerProofs` | inductive invariant, theorems, refinement proof |
| `LogAppender` | the list of log lines, its writers and the page that reads it; run by TLC as it is |
| `LogAppenderProofs` | inductive invariant, theorems |
| `Message` | the slots of the value cache and the JSON texts made from them |
| `MCMessage` | instance for TLC |
| `MessageProofs` | inductive invariant, theorems |
| `Config` | from `config.json` to the running streams, with every error on the way |
| `MCConfig` | instance for TLC |
| `ConfigProofs` | inductive invariant, theorems |

Definitions commented "Fault" are plausible wrong versions of the definition that follows
them. No specification uses them; they serve to show that each property can fail (`mutants`
in `PROJECT.json`).

### PushService

One record of variables per sender, all functions over `Sender`. `pc` is where the worker
stands in `run`:

    start --Run--> loop --CheckFlag--> lock --Lock--> test --HasData--> send --BeginSend--> write --Write--> clear --Clear--> loop
                    |                                  | ^
                    v exit --Exit--> done          Wait v | Recheck
                                                      wait --(notified, spurious)--> woken --Reacquire--> recheck

`Recheck` with the flag set goes to `send`, not to the end: that is what the `break` does.
`mtx` records who owns the lock; waiting releases it. The flight loop's call is
`CallSendData`, `SendDataLock`, `SendDataPost` (store and notify happen under the lock and
are one step, because whoever could see them needs the lock, and the waiter that is notified
must take it first). The stopping thread's `terminate` is two steps, `TerminateFlag` and
`TerminateNotify`, since it takes no lock; then `Join`. `Unregister` is the first act of
`XPluginStop`; without it the behaviour is a reload, in which the callback goes on calling
`sendData` on the sender being stopped.

Abstractions. A text is a model value; the text and the text with its newline are not told
apart (only the empty text matters). Host, port and baud rate play no part. A write either
reaches the wire as a whole or does not: what a partial write does to the line is not
modelled. The packet counters are left out, no code reads them. `shouldTerminate` is a plain
`bool` read and written by two threads, formally a data race; every read of it is next to a
lock operation or an opaque call, so the build reads memory each time, and the model takes
reads and writes to be atomic and ordered. `latest`, `unsent` and `wire` are history
variables.

### Worker

The same worker with everything left out that the plugin cannot tell: who owns `mtx`, the
steps of a send, the text itself. `worker` is one of none, new (not yet connected), loop,
checked (the flag has been read, the wait has not begun), waiting, woken, done. The lost
wakeup is still in it: `Wait` does not look at the flag. A mailbox counts as empty from the
moment its text is being sent, as `sendData` cannot fill it before it is cleared, and
`WakeUp` with the flag set goes back to the loop with a send of whatever is there. The
clients' calls are `Post` (`sendData`), `Flag` and `Notify` (`terminate`).

`PushService` maps to it by `Place` (of `pc`) and `HasText`, and `WorkerSpec` says that it
implements it; `Plugin` instantiates it. So the safety of `Plugin`, shown with the small
worker, is that of the real one. `Worker` states no fairness: that a worker keeps moving is
an assumption of `Plugin!Fairness`, with the same reasons as that of `PushService`.

### XplData

The callbacks of a plugin run on the flight loop's thread one after the other, so each is
one action and models the whole handler: `Start` (XPluginStart's call of `init`), `Update`,
`PlaneLoaded`, `PlaneUnloaded`, `Stop`. `Reload` is `init` called by `/api/reload`; here it
falls between two callbacks; overlaps are in `Plugin` (the streams) and `ConcurrentLookup`
(the registry). The environment publishes and withdraws datarefs and changes their values,
lets time pass (`Tick`) and adjusts the system clock (`ClockStep`).

`Update` follows `update()`: one reading of the clock, the retry of lookups, the read of
every slot, the sends of the due streams. `posts` holds what the step gave to `sendData`, so
an invariant can speak about it. `Elapsed` is the subtraction of unsigned timestamps,
`Unsigned` the cast of the interval; both wrap at `W`. What a value looks like in JSON is in
`Message`; here a message is a function from the datarefs it holds to their values.
`Readable` are the datarefs whose type mask equals one of the five types the code compares
it with; the others are counted and never sent. `Copied` are the arrays and texts. When the
owner of a dataref is gone, the getter of a number returns zero, but those of arrays and
texts copy nothing, so the slot keeps the value of an earlier callback (`DataRefValue`) and
goes on being sent; `FreshPosts` names this as the one exception to fresh messages.

`silence`, `age`, `steps`, `sentSteps` and `triedSteps` are history variables: real time
since a send, real time a dataref has been available without being found, and how many
adjustments of the clock fell where.

Assumptions on the environment: the simulator calls back at the latest `Period` after the
previous callback; readings of the clock are later than any interval counted from 1970
(`MinClock`) and far from the wrap at 2^64 (`MaxClock`).

### Plugin

Three kinds of threads: the flight loop's (`pc["flight"]`: off, start, idle, the loop of
`update`, inside `sendData`, the stages of `XPluginStop`), the web server's (`pc["web"]`:
serving, polled, blocked in a `send()`, in a reload) and a worker for each sender. `init`
and `stopAllStreams` are the same actions for both callers (`Terminate` and `Notify`,
`Join`, `Clear`, `Create`), taken for one stream after the other. A sender is the pair of
the call of `init` that made it and its entry. Its worker is that of the module `Worker`;
`terminate()` is its `Flag`, then its `Notify` (`Terminate`, `Notify`), so that the worker
may run in between. `m_running` is set by the new thread (`Serve`) and cleared by `StopWeb`.

`update` walks the vector with the end it took at the beginning (`last`). The vector keeps
its storage after `clear`, and a reload makes as many streams as before, so nothing is
reallocated: an element is gone between `Clear` and the `Create` of its index, and a sender
for good. Touching either is undefined behaviour, which the model takes as the end of the
process (`UseAfterFree`).

`Regular` are the entries whose interval is not negative. Config.cpp:51 accepts a negative
one, which the cast of XplData.cpp:259 makes so long that the stream is never due, so
`CallSendData` is for `Regular` entries only. `Block` and `Unblock` are the wait of
`send()` for a client that does not read (TcpListener.cpp:142), which has no timeout; which
socket it is and what else it holds up is in `TcpListener`.

### ConcurrentLookup

`initDataRefs` with each access to a shared slot as a step, run by the flight loop and by a
reload. The keys of the registry do not change in a reload, since the configuration is read
only once, so the map itself is safe to walk; the slots and the counter are not. Datarefs
are published and withdrawn on the simulator's main thread, hence never inside a callback of
the flight loop. `Store` puts the result of the lookup into the slot; whether the slot counts
is read from the slot again (`TestStored`), where the other thread may have stored its own
result by then.

### TcpListener

`pc` follows `run`: the test of `m_running` (`Poll`), `select` on the copy of the set
(`Select`), one step for each socket it has returned (`Accept`, `Receive` and `Send`,
`Drop`), and the closing of all members after the loop. `master` is the `fd_set` as a set
with the capacity of its array: `FdSet` does nothing when it is full, so a connection
accepted then is open and never looked at. The result of a failing `accept()` is put into
the set like a socket, and `select()` on a set with `INVALID_SOCKET` in it fails at once:
from then on the server is deaf, though it can still be stopped. `Send` waits while the
client does not read (`stalled`). A request is received as a whole and answered by one
`send()`, whatever `WebServer::onMessageReceived` puts in it. `Stop` can come at any time,
also before `Serve`, which overwrites it.

`Server` is what is left of the thread when the sockets are taken away, and the common
ground of this module and `Plugin`: in `TcpListener` the whole of `select` and its sockets
is one turn of the loop (`Place`), in `Plugin` a reload is (`WebPlace`).

### LogAppender

The list holds the newest lines without a gap, because lines come in at the back and go out
at the front only; so its size is what has to be modelled. `Check`, `PopFront` and
`PushBack` are the calls of the deque in `MyAppender::write`, in any interleaving of the
threads; nobody takes a lock. `left` is how many lines lie between the front and the
iterator of the page `/log`; the loop compares the iterator with a `rend()` made anew, so a
line removed at the wrong moment lets it pass the end. `shown` counts the lines of the page.

`push_back()` invalidates every iterator of a deque, whatever its size, and the page holds
one across its rounds (WebServer.cpp:166-168): one line logged while a page is being made is
enough, and the list need not be full. `PushBack` clears `valid` then. What using such an
iterator does depends on the build: a Debug build, the one build.bat makes, stops with an
assertion, and any other may go on as if nothing had happened. So `UseInvalid` may end the
process at every use, and `TestEnd` and `ReadLine` may go on. Two calls at the same time
(`Race`), or a read beyond the front, are undefined too; the model records that it has come
to this (`broken`) and ends. The properties on the size say what holds until then, if each
call is taken as atomic: the check and the act are apart even so. Of the page, `PageIsList`
promises its contents only if no line was added under it, and `PageEnds` that it ends unless
the process leaves defined behaviour; nothing promises that it does not.

### Message

A slot has the bit mask of the dataref's type, the number of its elements and their values
in `cell`. `Kind` compares the whole mask, as the code does: a dataref that is a float and a
double at once has none of the five types, is cached but never sent. `InitDataRef` is the
lookup of one dataref; the bytes of a text behind the first are whatever was there before.
`Update` is `readDataRefValue` for every slot, and `buildJson` for a stream that is due,
entry by entry (`AddEntry`); the getters of X-Plane copy as many elements as there are and
fit (`Overlay`), a dataref withdrawn or registered with another type leaves an array as it
was. `Put` is `j[key] = v` and `j[key][i] = v[i]`; `Throws305` and `Throws316` are the
exceptions of the JSON library, which nobody catches. The page of `/api/xpl` is built slot
by slot on the web server's thread, with no lock: `BeginReads` opens the time in which the
slots are written, and a reader finds in each cell the old or the new value, or the last
byte before it is overwritten with the NUL (`Found`).

Abstractions. A text consists of an ASCII byte, the two halves of a two-byte character, and
NUL; numbers are small integers, a multiplier is an integer. One look of the page at a slot
overlaps with at most one update. Lookups are atomic here (`ConcurrentLookup` has their
steps). A union of `Words` numbers stands for the 64 that have room in its 256 bytes: the
arrays of 16 are members of the union, and an index from 16 to 63 still falls inside it, so
the model takes such an array to work (which is what the build does; the standard does not
promise it). A longer one ends the program.

### Config

One action for each assignment that an exception may leave behind: the web part, each
stream, the list as a whole. A field of the file is `Absent`, `Wrong` (its type makes
`value()` or `[]` throw) or its value. The range loops go over whatever JSON value they are
given, so a list is a sequence also where the file has an object or a number. A name is any
string, and the empty one is skipped like a missing one. `Kept` is the loop that pushes some
of a list to a new one: it makes the datarefs of a stream and the running streams
(`Starts`). `Int32` is the narrowing of a JSON number to `int`. `InitStreams` is the loop of
`XplData::init`, which looks at the outputs again. The file is read once; a reload uses the
same list.

## 3. Runs

| Run | Checks | Shows |
|---|---|---|
| `push_service` | `TypeOK`, `FreshFrame`, `NoSilentLoss`, `BlankOnlyOnTerminate`, `ReleasedWhenJoined`, `ChannelSpec`, `WorkerSpec`, `JoinCompletesWhilePosting`, `SendDataReturns` | one UDP sender and two texts: all interleavings of the three threads |
| `join_completes` | `JoinCompletes` | violated: lost wakeup, the join of a plugin stop hangs |
| `schedule` | `DiscoveryBound`, `SilenceBound`, `NotTooEarly` | one stream, up to two adjustments of the clock, in either direction and of any size |
| `registry` | `CountExact`, `FreshPosts` | three entries (interval 0, interval 2, disabled with a negative interval), four datarefs, of which one is an array and one has an unknown type, two values |
| `plugin` | `WorkersOwned`, `PortFree`, `NothingSurvivesStop`, `FreedJoined`, `AliveUntilReload`, `ReloadEnds`, `StopEnds` | two streams, one of which never becomes due, two reloads, a stop at any moment, clients that do not read |
| `sender_alive` | `SenderAlive` | violated: a reload frees a stream under `update` |
| `concurrent_lookup` | `AloneIsExact` | two threads, three slots |
| `retries_go_on` | `RetriesGoOn` | violated: a NULL stored over a handle, and a counter that hides it |
| `tcp_listener` | `TypeOK`, `SetIsOpen`, `RecvReturns`, `Hears`, `Answered`, `StopEnds` | three connections on a set of three sockets, failing `accept()`, clients that leave or do not read |
| `log_appender` | `SizeBound`, `PopNeverEmpty`, `PageIsList`, `PageEnds` | three threads, one of which also reads the page, and a list of four lines |
| `message` | `TypeOK`, `KeysExact`, `Faithful`, `MessageThrows`, `PageInSlot` | two datarefs of all types that change them, two streams with shared aliases, the page beside them |
| `config` | `TypeOK`, `AllOrNothing`, `RunsWhatIsEnabled` | some twelve thousand files of both formats, right and wrong |

The runs that expect a violation state what the documentation says; the counterexample is
what the code does. Each is a finding in `PROJECT.json`.

Bounds and why they are enough:

- Senders share nothing but the thread that stops them, so one sender at a time is checked;
  `push_service` uses the UDP kind, whose `connect` can end in one more way than the serial
  one's. Two texts tell "the newest" from "an older one".
- `Retry` 3, `Period` 2, interval 3 and a clock from 4 to 14 leave room for several sends
  and retries in a row, for a callback early or late in its period, and for an adjustment
  that puts a timestamp far in the past, just in the future, or far in the future; `W` 32
  makes the wrap happen. `MaxSteps` 2 is the least number with an adjustment that is taken
  back before the next callback.
- `registry` needs no long schedule: a clock of three readings lets a retry happen and not
  happen. The array is in two streams, and can be sent, withdrawn and sent again.
- `plugin`: two streams tell the loops of terminate, join and create from single steps;
  three calls of `init` let a second reload meet what the first left. One of the two has a
  negative interval, so both a worker that a text rescues and one that none does occur.
- `concurrent_lookup`: three slots let the threads be ahead of and behind each other.
- `tcp_listener`: with the listening socket two connections fill the set of three, and the
  third is the one that is lost; it also exhausts the sockets of the process, so that
  `accept()` fails for both of its reasons.
- `log_appender`: three threads can have seen room, or none, at the same time; a list of
  four holds one line more than there are threads, so it can be below, at and above the
  limit with every thread at work.
- `message`: two numbers per slot tell an array that fits (also of length 0 and 1, for tails
  that go stale) from one that does not; three bytes have room for a text of two and its
  NUL, for a character cut by the NUL, and for a text that fills the slot.
- `config`: up to two elements in a list put an error before, in and after a good one; `W`
  is 2^16 in place of 2^32, so that an interval of 70000 wraps.

More differences from the documentation that have no run of their own, as the code says them
plainly:

- The worker that `terminate()` wakes with an empty mailbox sends an empty message before it
  ends (SerialDataPushService.cpp:140; README.md:28: "Each stream sends a compact JSON
  object", README.md:40). `BlankOnlyOnTerminate` says that this is the only time.
- `sendData` waits for `mtx` while the worker holds it in `WriteFile` or `sendto`
  (ARCHITECTURE.md:177: "non-blocking"). `SendDataReturns` says that it does return.
- A stream none of whose datarefs is available sends the text `null` (README.md:28). It is
  the empty message of `KeysExact`.
- `run` of the listener sets `m_running` and so overwrites a `stop` that came before it
  (TcpListener.cpp:56; ARCHITECTURE.md:195-196: stop "terminates and joins all worker
  threads"). `Plugin!StopEnds` and `TcpListener!StopEnds` except it.
- Datarefs with several types, and doubles, are never sent (README.md:21: "any dataref").
  `KeysExact` says which are.
- A stream with both outputs is accepted and uses UDP (ARCHITECTURE.md:49: "Exactly one").
- `interval` is not required (README.md:84): it is 1000 if absent.
- The datarefs of a disabled stream are looked up and read all the same (README.md:83:
  "skipped entirely when false"): `Names` in `XplData` is a union over all streams.

Deadlock is checked for `ConcurrentLookup` only. The others may stop: a plugin once stopped,
a listener whose thread has ended, a program that has crashed or left defined behaviour, a
start that is over.

### Fairness

`PushService!Fairness` gives weak fairness to every step of a thread that is running and to
the calls of `sendData` by a registered callback; strong fairness to taking `mtx`, as the
lock is free between two callbacks most of the time and the operating system does not starve
a waiter for ever; none to spurious wakeups, to `TerminateFlag` or to `Unregister`. System
calls return: `sendto` on a datagram socket does not wait, and `connect` sets a write
timeout on the port. Under these assumptions `JoinCompletes` fails, and
`JoinCompletesWhilePosting` and the progress of `LatestValueChannel` hold. `XplData` has no
fairness: its bounds on real time are safety properties.

`Plugin!Fairness` schedules every thread that can run and lets each stream with an interval
of 0 or more become due again and again in `update`, as `XplData!SilenceBound` shows for
these intervals; for a negative one it assumes nothing. A turn of the web server serves a
bounded number of sockets, so it ends unless one `send()` waits for ever: strong fairness
for `EndPoll`, none for `Unblock`. A stop, a request and a spurious wakeup are never forced.
`ReloadEnds` holds because the callback rescues a worker that missed its notification; the
worker of a stream with a negative interval gets no text and may hold a reload up for ever,
which the property excepts. `XPluginStop` has no such rescue at all: `StopEnds` says that it
ends unless the web server's flag was overwritten, its `send()` waits for a client that
never reads, or a worker missed its notification.

`TcpListener` schedules the thread of the listener, lets `send()` return if its client reads
again and again, and forces neither a client nor a stop; a client that stops reading for
good is excepted in each property (`Blocked`). `LogAppender` schedules every thread that is
in `write` or in the page, and forces nobody to log. `Message` and `Config` state no
fairness.

## 4. Proofs

`tlapm` checks every step of the proofs, for all values of the constants that satisfy the
named assumptions (`DistinctAssumption` in `PushService`, `ConfigAssumption` and
`TimeAssumption` in `XplData`, `BoundAssumption` and `RegularAssumption` in `Plugin`,
`SlotAssumption` in `ConcurrentLookup`, `HandleAssumption`, `NumberAssumption` and
`LimitAssumption` in `TcpListener`, `ThreadAssumption`, `MaxAssumption` and `RoomAssumption`
in `LogAppender`, `SizeAssumption`, `SimAssumption` and `StreamAssumption` in `Message`,
`NameAssumption`, `WidthAssumption` and `FileAssumption` in `Config`).

**PushServiceProofs.** None of the safety invariants is inductive alone. `IInv` adds who
owns `mtx` at which `pc` (`LockInv`), the relation of mailbox, frame and history
(`MailboxInv`: a text not yet attempted is in the mailbox and is the latest, a text in the
mailbox that was attempted is about to be cleared), that the link is up exactly inside the
loop (`LinkInv`), and the progress of the stopping thread (`StopInv`). `NextIInv` has one
step per action. From it follow the theorems for every safety invariant of the run, and
`ImplementsChannel`: every step is a step of `LatestValueChannel` or a stutter.
`ImplementsWorker` is the same for `Worker`, with its whole specification, which states no
fairness. It too needs the invariant: `sendData` finds the worker outside the critical
section (`LockInv`), so its text is not the one that is being cleared; `BeginSend` never
takes the way back to the loop without a send (`LinkInv`), and `Exit` has seen the flag,
which is never taken back (`StopInv`).

**XplDataProofs.** `RegistryInv` (the registry's keys are the configured names once started,
the counter is the number of handles) gives `CountExact`. The bounds on time rest on
`OnTime`, which states for a timer how long it may have been waiting in real time, in terms
of what the clock and the last callback tell, after k adjustments of the clock. The case
that makes it necessary is a timestamp left in the future by an adjustment: the next
callback ends the wait because the unsigned difference is huge, but if the clock reaches the
timestamp before that callback, a whole new interval begins. The lemmas `TimerTick`,
`TimerStep`, `TimerNotDue`, `TimerStart` and `TimerBound` are pure arithmetic and serve both
the streams (`SilenceInv`) and the lookups (`DiscoveryInv`). `PostsAreFresh` follows from the
order of lookups, reads and sends in `Update`, with arrays and texts whose owner is gone
excepted.

**PluginProofs.** `WorkersOwned` needs to know that every worker has ended when `Clear`
comes: `JoinInv` says so for the streams behind the index of a joining thread, that they are
joined too (hence `FreedJoined`), and `Exclusive` that no other thread can add a stream
meanwhile, because the flight loop's thread stops streams only when the web server has no
thread. `VectorInv` (one stream of each entry, in order) then gives `PortFree`, and with the
empty vector of a stopped plugin `NothingSurvivesStop`. Two more invariants stand on these.
`FreshInv`: a sender that `init` has yet to make has no thread, so `Create` is
`Worker!Begin`; this gives `WorkersUsed`, that every step of the plugin is one of `Worker`
or leaves the workers alone. `FirstInv`: until the first reload nothing is destroyed and the
vector is as long as `update` took it to be, which is `AliveUntilReload`; that `SenderAlive`
is violated is therefore the reload's doing alone. `ToldInv` follows the loop of
`terminate()` and gives `ToldBeforeJoined`. This is the safety part of `StopEnds`: whoever
hangs in `join()` hangs for a worker that has been told to end, and if that one still waits,
it has missed its notification. `WebIsServer` needs, of `FreshInv`, that the web server's
thread is made once.

**ConcurrentLookupProofs.** `AloneIsExact` is about a count that is right only as a whole.
`CountInv` says it for a run under way without counting a set: a run that is alone is short
of its position by nothing if every slot it has passed has a handle, and otherwise by
something. `BehindInv` makes the second part stable: a count that has fallen behind never
catches up.

**TcpListenerProofs.** The three properties and `PhaseInv` are inductive together. The
lemmas on the capacity (`FdSetBound`, `FdClrBound`) carry the only argument about
cardinality. `RecvReturns` holds because the loop takes a socket out of what is left before
anything can happen to its number, and only `Drop` frees numbers. `ImplementsServer` adds
that `m_running` stays cleared once the loop has been left (`LeftInv`).

**LogAppenderProofs.** The size alone is not inductive: a thread that has seen room will add
a line, one that has seen none will remove one. `UpperInv` counts the first along with the
size, `LowerInv` the second, and both are bounded by the number of threads. With
`RoomAssumption` (fewer threads than lines) `PopNeverEmpty` follows. For `PageIsList`,
`PageInv` says that under a valid iterator the lines shown and the lines left are together
those of the list, as a removal takes one from the list and one from what is left; at the end
none is left.

**MessageProofs.** `Ended` is why the page, with no lock, finds a NUL: a text slot waiting
for its first value begins with one, and a slot once filled ends with one, also while the
next text arrives. The two exceptions in `PageInSlot` are the first value, which takes the
NUL at the front away before the one at the end is written, and a text as long as the slot,
which for a moment overwrites the NUL at its end.

`KeysExact`, `Faithful` and `MessageThrows` are about what the loop of `buildJson` makes of
any list of entries. The loop is a recursive function of the number of entries done. That
there is such a function, and what its value is at the end, is shown by induction: the
library's rule takes a predicate as parameter, so `NatSetInduction` states it for a set of
numbers instead, from the well-order of the naturals, and the predicate becomes a set.
`RoundKeeps` is the step: after n entries the object has exactly the aliases of the first n
datarefs that contribute, with the value of the last of each, unless two of them disagree
about being an array. `PieceShows` is the other half, that a value as `Put` leaves it shows
the simulator's value of this callback; `OverlaySize` and `TextShown` carry the argument for
arrays that do not fit and texts cut by a NUL. `SentInvariant` is the three properties
together, which hold from `Update` on because nothing but `Update` changes a message.

**ConfigProofs.** `IInv` follows the parser: nothing has thrown up to the element it has
reached, the vector it builds is fit to run, and `Config::streams` is empty until it is
done. `RunsWhatIsEnabled` speaks of the place of a stream in a list from which others are
left out: `Rank` counts the elements kept up to a place, `KeptIs` says that `Kept` puts each
element at its rank and nothing else anywhere (again by `NatSetInduction`), and `RankOfRank`
that ranks compose, because the stream list is made in the parser and thinned out once more
in `init`. The typing lemmas (`DataRefTyped` to `LegacyTyped`) take a field through
`value()` and `Int32` to what the program keeps.

Only model-checked:

- everything temporal under fairness, which is out of the prover's reach:
  `JoinCompletesWhilePosting`, `SendDataReturns`, the progress part of `ChannelSpec`,
  `ReloadEnds`, both `StopEnds`, `Hears`, `Answered`, `PageEnds`.

Every safety property of the passing runs is proved.

Only proved, and in no run: `PushService!ConnectedInLoop` (the branch of `doSendData` that
reconnects is dead), `LogAppender!NewestKept`, the type invariants of `XplData`, `Plugin`,
`ConcurrentLookup` and `LogAppender`, `Config!Runnable` and `Config!WebOffOnRequest`,
`Plugin!JoinsTold`, `TcpListener!ServerSpec`, and `Plugin` against `Worker` and `Server`.
The runs that would check them check what is harder to see.

## 5. Plan

All seven parts of the plan are done: `PushService` with `LatestValueChannel`, `XplData`,
`Plugin` with `Worker` and `Server`, and `ConcurrentLookup`, `TcpListener`, `LogAppender`,
`Message`, `Config`, each with its proofs. What could follow:

- the registry of `XplData` with its lookups atomic, shown to be implemented by
  `ConcurrentLookup` as long as runs do not overlap;
- the bytes of a connection and of a serial line: a request in two pieces, an answer with
  its extra NUL, a frame cut by a write that times out;
- the status page, which parses the JSON text of the page again.

## 6. Not modelled

The HTML of the status page, static files, the texts of log messages, host and port strings,
digits and NaN in numbers, build files. nlohmann/json and plog are third-party code and by
far the largest part of the source; of them only the functions are modelled on whose results
the plugin depends (`operator[]`, `value`, the narrowing of numbers, the check of UTF-8, the
unlocked `Logger::write`). `broadcastToClients`, the packet counters and the handlers that
are empty do nothing anybody sees. X-Plane, Winsock, Win32 and the C++ threading library are
modelled only by what the code can see of them.

A page torn by an update may hold half of a character, and `dump()` then throws out of the
web server's thread. The step is in `Message` (`page 316`); no property excludes it, because
any two texts of a dataref, one with a character across the tear, are enough.
