# CatraLibraries: a TLA+ verification project

CatraLibraries is a collection of C++ libraries for server programs: error
objects, thread and socket wrappers, event sets through which threads talk to
each other, two schedulers with periodic and calendar alarms, tracing, caching,
load balancing, a connections manager, configuration files, and tools.  This
directory holds TLA+ models of the parts with a state and a protocol of their
own, the TLC configurations that check them and TLAPS proofs of the properties
that matter most.  Paths below are relative to the repository's root (`src/`
here).

## 1. Inventory

### 1.1 Components that carry the core logic

**MultiEventsSet** (`MultiEventsSet/src/MultiEventsSet.cpp`, `Event2.h`).
*State*: one mutex; per destination a `multimap` from expiration time point to
event, and a condition variable.
*Operations*: `addDestination`, `addEvent`, `deleteEvent` run from lock to
unlock; `getFirstEvent` and `getAndRemoveFirstEvent` may block in `wait_for`.
*Hard*: producers, cancellations and consumers interleave with waits, timeouts
and spurious wake-ups; iterators seen before a wait are stale after it; the
remaining time is a difference of clock readings taken at different moments.
*Correct when*: the multimaps stay ordered, no event is lost, duplicated or
both cancelled and delivered; an event is delivered when it is due and before
every later one; `nullptr` is answered only after the blocking time and when
nothing is due; every call returns.

**EventsFactory** (`MultiEventsSet/src/EventsFactory.h`, `.cpp`).
*State*: per event type a deque of free events, a map of used ones, a counter,
the block size and the maximum; one recursive mutex.
*Operations*: `addEventType`, `getFreeEvent` (allocates a block when no event is
free), `releaseEvent`.
*Hard*: what one thread releases another one gets; the limit of allocation;
double releases.
*Correct when*: no event is leaked, duplicated or given to two threads, and the
maximum is never exceeded.

**EventsSet** (`EventsSet/src/EventsSet.cpp`, with `PThread/src/PMutex.cpp`,
`PCondition.cpp`).
*State*: the status of the object (built, initialized), per destination a
multimap by local expiration time and a condition; a pool of user events.
*Operations*: `init`, `finish`, `addDestination`, `addEvent`, `deleteEvent`,
`getFirstEvent`, `getAndRemoveFirstEvent`; `getFreeEvent`, `releaseEvent`.
*Hard*: no wait has a predicate, and a thread that timed out and one that was
signalled go on differently; expirations and what remains of the blocking time are
*local* times while the waits run on UTC.  The local time of `DateTime.cpp:168` is UTC
less `tz_minuteswest`, the zone the kernel got at boot: it does not follow daylight
saving time.
*Correct when*: as for MultiEventsSet, and no wait goes, in UTC, past the call plus its
blocking time, in whatever zone.

**Scheduler2 and Times2** (`Scheduler/src`).
*State*: the scheduler has a status, a list of active Times2 and a recursive
mutex; a Times2 has a status, a current and a next expiration as local date and
daylight saving flag, and a mutex of its own.
*Operations*: `operator()` (the thread: scan, sleep, read the status),
`handleTimes`, `suspend`, `resume`, `cancel`, `activeTimes`, `deactiveTimes`;
`start`, `stop`, `isStarted`, `isExpiredTime`, `updateNextExpirationDateTime`.
*Interaction*: a scan calls the methods of every Times2, each under that
object's mutex but not together, and `handleTimeOut`, user code that may call
every method of the scheduler in turn.
*Hard*: stop and start between two calls of a scan; handlers that change the
list under the scan or throw; last timeouts; the repeated hour at the end of
daylight saving time; a status read before a sleep.
*Correct when*: handlers run when due and never before, a timeout is handled in
the end, only what timed out for good or failed leaves the list, and suspend
and cancel take effect.

**The first scheduler** (`Scheduler.cpp`, `Times.cpp`).
The version on `PosixThread`, with error objects where the second one throws.
*Hard*: `start` of a Times writes its status after it has unlocked; a Times can
be finished under a scan; `handleTimes` deactivates by an index it took before
the handler.
*Correct when*: as for Scheduler2, and `cancel` ends the thread.

**The calendars** (`updateNextCalendarExpirationDateTime` of both versions).
*State*: the date the search has reached, and the field it looks at.
*Hard*: months of different lengths, days of 23 and 25 hours, lists and ranges in
every field; the second version is a rewriting of the first in two thousand
lines.
*Correct when*: the search passes over no date, ends, and both versions agree.

**PosixThread** (`PThread/src/PosixThread.cpp`).
*State*: the status of the object, which the owner and the thread's last lines
both write without a mutex; what the kernel keeps of the thread.
*Correct when*: a thread is joined or detached once, and runs alone.

**SocketsPool, ClientSocketsPool, SocketImpl** (`Socket/src`).
*State*: the members of a pool in four tables; its thread in `poll`; the free and
the used client sockets with their age; descriptors; what was read of a stream.
*Hard*: deletions between `poll` and the calls of `updateSocketStatus`, signals,
a shutdown at any moment, every system call failing, a stream cut anywhere.
*Correct when*: the tables agree, updates go to members, a client socket has one
user and is young, no descriptor leaks, lines and telnet text are kept.

**LoadBalancer, HTTPCacheManager, WebTools**.
*State*: groups that share modules, with a mutex each; the queue of requests, the
downloads, keys by name and by time; a get, a server, a post from init to finish;
a message on the wire.
*Hard*: a probe holds a module's mutex while clients want it; a cancel before
`run` has begun; two clients that miss the same content; objects used again after
a failure.
*Correct when*: modules are given in turn, clients return, no content is
downloaded twice at a time, each error path gives back what it took, and a
message ends where its length says, unless a peek ended inside the blank line of its
header (finding 3).

**Tracer** (`Tracer/src/Tracer.cpp`).
*State*: two pools of traces, a cache, the thread with its commands; numbered
files, their info file and its lock, shared by processes.
*Hard*: pools exchanged under the clients, a disk that fails, a cancel at any
moment; crashes between two steps of a rotation or a compression.
*Correct when*: a trace is written once and in order or counted as gone, finish
flushes and returns, the files stay within their number and none that counts is
overwritten or lost.

**ConnectionsManager** (`ConnectionsManager/src`).
*State*: sessions, free or with a connection; events, timers and processors; the
parts the service has built and the threads it has started.
*Hard*: processors, proxies and the check of unused sockets meet on a session; a
failure at any of forty steps of `onInit`; a signal at any moment of `onStart`.
*Correct when*: a free session is unused and an answer goes to the client that asked,
but for the cases of section 5; every path of a handler finishes its event and gives it
back once; a failed init leaves nothing but what section 5 names, and finishes the last
part first; cancel ends everything.
Its directory is commented out of the top `CMakeLists.txt`; the code is modelled
as it stands.

**FileIO** (`Tools/src/FileIO.cpp`).
*State*: a file system; for each process the stack of its active functions.
*Hard*: a failure, a crash or another process between any two system calls of a
move, a copy or a removal of a tree; a lock file that is removed after use.
*Correct when*: no file is lost but by one of the three calls whose result nobody looks
at (section 5), what succeeded is whole unless `readdir` failed (section 5), nothing is
left open or locked, and calls return.

### 1.2 Other components

`Configuration`, and of `Tools` the buffers, the tokenizer, the merge sort and
most of `DateTime`, are sequential.  `ErrMsg`, `MyFTP`, `SNMPWrapper` and the rest
of `Tools` wrap operating system or library calls.  `ConfigurationFile` is
generated by flex and bison; `my_hash_map`, `utf8_v2_3_4` and `examples` are
vendored code and samples.  `PROJECT.json` lists every one with its status and
the reason, and the hazards at their lines.

### 1.3 How they fit together

A program's threads exchange `Event2` objects: they take them from an
`EventsFactory`, fill them in, add them to a `MultiEventsSet` under the
destination thread's name, and that thread takes them out, handles them and
releases them to the factory.  `EventsSet` is the earlier version of the same
idea on the PThread wrappers, with a pool of its own.  Timers are `Times2`
objects that a `Scheduler2` thread looks after; their handlers usually add an
event to a set.  The ConnectionsManager puts most of the
others together: its processors take events from an `EventsSet`, its timers are
`Times` of the first scheduler, its sockets are in a `SocketsPool`, its proxies
are gets of `WebTools`.  The libraries share no locks with each other and call each
other downwards only, so each is modelled with its own clients; where two work on
the same objects they are in one model (`Scheduler2` extends `Times2`,
`FirstScheduler` extends `FirstTimes`, `SocketsPool` extends `PosixThread`,
`CMEvents` has the events set with its pool, its timers and its processors,
`FileTrees` the lock files with the moves that use them).

## 2. Modules

| module | what it is |
|---|---|
| `EventsMultiMap` | `std::multimap` as the sets use it: a sequence, the insert position, insert, erase |
| `MultiEventsSet` | the set: one action per method, the consuming ones split at every wait |
| `DeadlineQueue` | what a set promises to its clients, without mutex, waits and order |
| `EventsFactory` | the pool of events |
| `EventsSet` | the first events set, with init/finish, the pthread waits and the local clock |
| `Times2`, `Scheduler2` | dates with daylight saving flags and the methods of a Times2; the scheduler with its threads and the steps of a scan |
| `FirstTimes`, `FirstScheduler` | the same for the first version, with the thread object and finish |
| `CalendarDates` | a small calendar and its local time; the fields of a schedule; the dates of a schedule by definition |
| `TimesCalendar`, `Times2Calendar` | the search for the next date: a turn of the loop per step, and a field per step; the second refines the first |
| `PosixThread` | the thread object, one read or write of its status per step |
| `SocketsPool`, `ClientSocketsPool` | the polled pool with its thread (extends `PosixThread` and `SocketImpl`, and states what the kernel holds for them); the pool of connected sockets |
| `SocketImpl`, `SocketStream` | descriptors from create to close; lines, telnet, waits and writes on a stream |
| `LoadBalancer` | init from a configuration, the probing thread, clients, cancel, finish |
| `HTTPCacheManager` | requests, downloads, keys, retention |
| `HttpThreads`, `HttpMessage` | a get into a file, the server's loop and a post; where a message ends, and the encoding of URLs |
| `WebResources` | the load balancer, the gets, the server and the posts side by side, what they own and what becomes of their messages |
| `Tracer`, `TraceFiles` | pools, cache, thread and finish; the files of a directory, their info and lock files, crashes |
| `CMSessions`, `CMEvents`, `CMService` | the sessions; the events, timers and processors; the service that builds and ends the parts |
| `FileTrees` | FileIO on trees, from one system call to the next |
| `MC*` | what TLC needs: constants, symmetry, and the compositions of section 3 |
| `EventsMultiMapProofs` | lemmas on the multimap, for both sets |
| `MultiEventsSetProofs`, `EventsSetProofs` | theorems about the module of that name |
| `SchedulersProofs` | theorems about `Scheduler2` and `FirstScheduler`, with their Times, and about the calendars |
| `PoolsProofs` | theorems about `EventsFactory`, `PosixThread`, `SocketsPool`, `ClientSocketsPool`, `SocketImpl` and `SocketStream` |
| `TracerProofs` | theorems about `Tracer` and `TraceFiles` |
| `ConnectionsProofs` | theorems about `CMSessions`, `CMEvents` and `CMService` |
| `WebProofs` | theorems about `HTTPCacheManager`, `LoadBalancer`, `HttpThreads` and `HttpMessage` |

### 2.1 Correspondence with the code

*Steps.*  A method that holds a mutex from its first to its last line and never
waits is one action.  A consuming method of a set is cut where another thread
or the clock can come in between: after its first look at the clock, which the
code takes before the lock (`Call`), at the lock (`Acquire`, `Lock`), while it
sleeps (`WaitTimeout`, `SpuriousWakeUp`, and being notified inside `AddEvent`),
when it has the mutex again (`Relock`, `Woken`), and at every turn of the
expiration loop (`TakeFront`, `GiveUp`, `LoopTurn`).  In `MultiEventsSet` the
`wait_for` of that loop has a predicate that already holds, so a turn that
neither takes an event nor gives up changes nothing and keeps the mutex: it is
a stuttering step.  A scan of the scheduler is cut at every call of a Times2
method and at the handler (`EnterScan`, `Look`, `UpdateTimes`,
`HandlerReturns`/`HandlerThrows`, `LeaveScan`); the handler's own calls are the
client actions, which are enabled for it because the mutex is recursive
(`CanLock`).  What `EventsSet` has in common with `MultiEventsSet` has `Es` or `es` before
its name.

*Data.*  Events, destinations, threads and Times2 objects are model values; a
time is a number; milliseconds and seconds are one unit.  An event of a factory
is the number `getFreeEvent` gives it within its type.  `owner` in the sets, and
`held` in the factory, record who works with an event: the code has that in the
callers' variables.  A local date is its wall time and the flag.  The next date
of a calendar is the least later instant of its schedule in the two scheduler
models; that the search finds it is what the calendar modules are about.

*Clock.*  The clock saturates at `MaxTime`, which stands for itself and every
later instant; that keeps the state spaces finite and the clock fair.  In
`EventsSet` no call is made whose blocking time ends beyond `EsMaxTime`; its local clock
is `esNow + offset`, with an offset of `Offsets` that stays for the whole behaviour.

*Undefined values.*  The daylight saving flag of a next date is uninitialized
until the first update: `InitTimes` takes either value.

*Rules for clients.*  Three things make `handleTimes` misbehave and are the
clients' doing: starting a Times2 that has no timeout left or whose first
timeout has passed, stopping one that is in the list from outside a handler,
and a handler that throws after it moved its own Times2 in the list.  The model
allows all of them and records in `rulesKept` whether one has happened; the
properties that need the rules say so.

*System calls.*  In the models of sockets, files, traces and services each call
that the code checks may fail, and the model takes the code's own way back.  What
the code does not check is not checked in the model either: the result of `readdir`,
`gzclose` and the writes of `concatFile` may be wrong unseen, and `fsUnseen` remembers it
with the path.  A fault or crash
happens between any two steps; `FsMaxFaults`, `TfMaxFailures`, `CmMaxFailures` and
`CeMaxTrouble` bound how many there are in a behaviour.

*Events and parts of the server.*  In `CMEvents` an event has the status that its `init`
and `finish` set, so that an error path that gives back an event without its `finish`
leaves one in the pool that `init` will refuse.  In `CMService` each step of `onInit` has
the list of what its own branch finishes (`SvBack...`), in the order of the code, and
`SvGivesBack` takes one part of that list at a time; `cancel` goes through its list in the
same way.

*Thread objects.*  A thread that `cancel` ends by force stops at a cancellation
point and keeps the mutexes it holds, in `SocketsPool`, `LoadBalancer` and
`Tracer`: the liveness properties name that case.

*The calendars.*  `ClMonthDays`, `ClHours`, `ClMinutes` and `ClSeconds` make a year
of three months with 4, 2 and 3 days, days of four hours, hours of two minutes of
two seconds.  `ClFebruary`, `ClThirty` and `ClThirtyOne` stand for the 2, 30 and 31
that the code compares with.  The local clock is an hour ahead between `ClDstFrom`
and `ClDstTo`.  Where `mktime` has to choose between the two readings of the hour
that comes twice, the model takes both and `clAmbiguous` remembers it.

*Directory trees.*  `fsTree` maps paths to entries with their contents as a sequence
of chunks; `fsStack` has a frame for each active function, so that the recursive
functions of `FileIO.cpp` are recursive in the model.  A file that is unlinked while
it is open keeps its inode and its lock (`fsHolder`), which is what the lock files
are about.

*Histories.*  Some variables are not in the code and record what the properties
compare: `trWritten`, `trGone`, `csCrossed`, `csSuspect`, `tfStale`, `fsAsked`,
`fsUnseen`, `lbSince`.  No action's guard reads them but to bound the instance.

## 3. Runs

Bounds are small because the state that matters is small: two events are enough
for every order of insertion, expiration, deletion and delivery, one
destination because destinations share nothing but the mutex, and two or three
threads for a producer, a consumer and a competitor.

| run | instance | what it shows |
|---|---|---|
| `queues_safety` | `MultiEventsSet`: 3 threads, 2 events, times 0..2, waits of 1, symmetric. `EventsSet`: 2 threads, 2 events, times 0..2, waits of 1 and 2, a local clock an instant ahead of UTC | `MultiEventsSet`: the multimaps stay ordered (`OrderedSet`), no event is lost or duplicated (`HeldOnce`), the loop of `getAndRemoveFirstEvent` never meets an empty multimap (`LoopNeverFindsEmpty`), a blocking call answers `nullptr` only after its time and when nothing is due (`NullOnlyAfterBlockingTime`). `EventsSet`: no event is lost or duplicated (`EsHeldOnce`); events are delivered when due and in order (`DeliveredInTime`); waits for an expiration end, in UTC, within the blocking time of the call (`WaitsWithinBlockingTime`) |
| `queues_liveness` | 2 threads and 2 events in each set, times 0..1, fair | every consuming call of either set returns (`CallReturns`, `EsCallReturns`); MultiEventsSet refines `DeadlineQueue` (`ImplementsDeadlineQueue`) |
| `scheduler_safety` | 2 threads in `operator()`, a periodic Times2 and a calendar with one date, up to 2 list entries, daylight saving time ending at 1, fair | no handler runs before its timeout (`FiresWhenDue`), at most one more scan per thread after suspend or cancel (`OneLateScan`), a timeout takes off the list only the Times2 it belongs to, and once (`DeactivatesOnce`), every timeout is handled in the end (`DueIsHandled`) |
| `pools` | factory: 2 clients, 2 types, blocks 1 and 2, maxima 2 to 4; thread: 2 runs; pool: 3 sockets, 2 of one port, room for 2; client sockets: 3 per address, time to live 2; 3 descriptors; streams of up to 5 bytes, telnet sessions with each command, texts of up to 6 | `NoLeakNoDuplicate`, `OneHolder`, `WithinMax` of the factory; `PoolConsistent`, `ClientSocketsSafe`, `KernelResourcesOwned`, `TextKept`; a shutdown ends the pool's thread (`ShutdownEndsPool`) |
| `web` | 2 modules in four configurations; 2 clients, 2 URLs, 2 downloads, 2 request records; 2 gets of 0, 1 or 3 chunks; messages cut anywhere, URLs of up to 4 symbols; 2 served clients | modules are given in turn (`RoundRobin`); `CacheConsistent`, `WebResourcesOwned`, `MessagesWhole`, `WebCallsEnd` |
| `tracing` | 2 clients with 2 traces of two sizes, pools of one trace, a cache of 3; 2 processes, 2 files to maintain, numbers up to 4, 2 failures or crashes | `TracesKept`, `TraceFilesKept`, `TracerGoesOn` |
| `connections` | a session, 2 connections, 2 processors, a proxy, one failure; 3 timers with a processor and one trouble; a service with 2 sessions and 2 processors | `SessionsOwned`, `EventsWhole`, `ServiceWhole`, `ServerGoesOn` |
| `tools` | five trees with files, links, devices and subdirectories; 2 processes, 2 calls, one fault or crash | `TreesWhole`, `CallsEndClean` |
| `schedulers` | the first scheduler with two Times; both calendars over three years, 76 schedules | `SchedulerSafe`, `CalendarRight`, `SchedulersGoOn`; Times2 gives the dates of Times (`SameAsTimes`) |
| `session_reuse` | as `connections` | violation, finding 1 |
| `calendar_loop` | as `schedulers` | violation, finding 2 |
| `split_header` | as `web` | violation, finding 3 |

### 3.1 Several parts in one run

`MCQueues`, `MCPools`, `MCWeb`, `MCTracing`, `MCConnections` and `MCSchedulers` put
independent parts side by side.  A variable `part`, chosen at the beginning, says
which one takes steps; the others stay in their initial state, where none of the
actions with a fairness condition is enabled.  The state space is the sum of the
parts', not their product.  A property named after a promise of the whole is the
conjunction of the properties that each part's module states.  Where a theorem of
section 4 proves the conjunction, it is stated in the module of the parts
(`SocketsPool`, `ClientSocketsPool`, `CMSessions`, `CMEvents`, `CMService`,
`HTTPCacheManager`, `WebResources`), the others in the `MC*` module.  *Types* are those of every part.

| property | conjuncts |
|---|---|
| `PoolConsistent` | `PoolInfosConserved`, `UpdatesOfMembers`, `PollWithinPeriod`, types |
| `ClientSocketsSafe` | `ClientSocketUsedOnce`, `HandedOutIsYoung` (new, or below its time to live), types |
| `KernelResourcesOwned` | `ThreadsReleased`, `OneThreadPerObject`, `DescriptorsOwned`, types |
| `TextKept` | `LinesKeepText`, `TelnetTextIsPlain`, `FindsFirstOccurrence`, `WaitNeverLonger`, types |
| `WithinMax` | `BelowMax`, types |
| `CacheConsistent` | `RequestsConserved`, `OneDownloadPerUri`, `KeysConsistent`, types |
| `WebResourcesOwned` | `ModulesOwned`, `BuffersInitializedOnce`, `EndedGetIsClean`, `ServerReleasesAll`, `PostSocketOwned`, types |
| `MessagesWhole` | `MessageBoundary`, `ParameterComesBack`, `TruncationKeepsCodes`, `MarkerAfterWholeBody`, types |
| `WebCallsEnd` | `ClientReturns`, `CancelEndsThread`, `CancelEndsServer` |
| `TracesKept` | `TracesInOrder`, `FinishFlushes`, `InitAllOrNothing`, types |
| `TraceFilesKept` | `FilesBounded`, `NoFileOverwritten`, `ClosedFilesKept`, types |
| `TracerGoesOn` | `TracesMove`, `FinishReturns`, and `BytesCounted`: the bytes the cache is said to hold are those of its traces |
| `SessionsOwned` | `FreeUnused`, `HeldOnlyOnce`, `AnswersToOwner`, types |
| `EventsWhole` | `EventsKept`, `FreeEventsFinished`, `EventsInitialized`, types |
| `ServiceWhole` | `ServiceAllOrNothing`, `LastMadeFirst`, `ThreadsUseHeldParts`, `NoThreadLeft`, types |
| `ServerGoesOn` | `UnusedFreed`, `ConnectionHandled`, `ProcessorEnds` |
| `TreesWhole` | `NothingLost`, `MovesWhole`, `CopiesWhole`, `RemovesAll`, `CountsOnce`, types |
| `CallsEndClean` | `NothingLeftOpen`, `NoLockFileLeft`, `CallsReturn` |
| `SchedulerSafe` | `ListedOnce`, `HandledWhenDue`, `DeactivatesNoOther`, types |
| `CalendarRight` | `FindsNextDate`, `LastTimeoutIsLast`, types |
| `SchedulersGoOn` | `ScDueIsHandled`, `CancelEndsTheThread`, `SearchComesToAnEnd` |

### 3.2 Bounds

* `MaxListed` 2 lets a Times2 be in the list twice and be followed by another one.
  The calendar's only date comes after the switch; its timeout is the last one,
  so the deactivation before the handler happens.
* The thread of the pool runs once (`PoolRuns`), a thread alone twice (`MaxRuns`).
  `ulMaxSocketsNumber` 2 with three sockets makes the pool full, and a deletion move
  a slot; two sockets of one port make an addition fail half way.
* `TTL` 2 with ages up to 2 hands out sockets just below and just at their limit.
* `TrMaxTraces` 1 with two clients makes traces overflow; `TrSizes` 2 and 4 with
  `TrCacheSize` 3 has a trace that fits once, and one that never fits.
* `TfLast` 4 with two files to maintain makes the numbers start again while files of
  the other end are there.
* `MaxBody` 3 with Content-Lengths of 0, 1 and 3 has bodies that come in one chunk or
  several, whole or cut short, and bodies without a length.
* `CmTTL` 1 with times up to 3 lets the check find a session old at the moment it is
  read, and two connections begin in the same second.
* `FsMaxCalls` 2 lets two processes move the same tree or file; the other operations
  run alone, since nothing in `FileIO` protects them from each other.
* The calendar has a month without the days 30 and 31, one with 30 only, and a date in
  the hour that is left out and in the one that comes twice; the years are three
  so that a list of years has a first, a middle and a last one.

The runs `pools`, `web`, `tracing`, `connections` and `tools` do not check deadlock:
their instances come to an end when the bounds on calls, failures or messages are
used up.

### 3.3 Fairness

* *The sets*: the clock moves; a thread whose wait has timed out is scheduled;
  a thread that asks for the mutex gets it in the end.  In `MultiEventsSet` that
  is strong fairness, since other threads take the mutex in between (a
  `std::mutex` does not promise it, the usual implementations do in practice);
  in `EventsSet` the mutex is free between any two steps and weak fairness is
  enough.  Nothing is assumed about producers: nobody has to add an event.
* *The schedulers*: a thread in `operator()` or `run` goes on when it can (strong
  fairness in Scheduler2, because of the mutex), and handlers come to an end, which
  the library has to take from its users.  Clients owe nothing; the clock owes
  nothing, as a timeout that is due stays due.  A search for a date runs in the
  thread that called it.
* *SocketsPool*: the thread is scheduled and `poll` returns when its time is over.
* *LoadBalancer*: the thread and its probes go on, as the probes have a timeout; a
  client gets a mutex in the end (strong fairness); the clock moves while cancel
  waits.
* *HttpThreads*, the server: the loop goes on, its waits have timeouts; the clock moves during
  cancel.
* *Tracer*: the thread goes on, its wait for a command has a timeout; cancel and
  finish go on; a client that wants the mutex gets it (strong fairness).
* *ConnectionsManager*: processors take the steps they can, the timer of the check
  of unused sockets expires again and again, time passes; a cancel waits five
  seconds and then ends the processor by force.  Clients need not send anything.
* *FileIO*: a process goes on with its call.  It may crash, which ends the call.

### 3.4 Findings

1. **A session is free while it is used** (`session_reuse`, `CMProcessor.cpp:2117`).
   The check of unused sockets tries to release a session whose socket a processor
   has just taken; `releaseConnection` fails as its comment foresees, and the caller
   adds the session to the free ones all the same, since the `continue` is commented
   out.
2. **A search that never ends** (`calendar_loop`, `Times2.cpp:385`).  The constructor
   refuses some of the schedules of which the comment says that they loop: a list of
   days with a 30, a range from 30, or the single day 31 in every February is
   accepted.
3. **A header that runs on** (`split_header`, `WebUtility.cpp:849`).  While no whole blank
   line was seen, `readHttpMessage` takes all that a peek has.  If that ends inside the
   blank line, its beginning is gone when the rest arrives, and the body, up to the next
   blank line, is taken for header, against "vacuum just the header from the socket".
   `MessageBoundary` says for each case where the header ends.

## 4. Proofs

Proved with TLAPS, for every value of the constants that meets the assumptions: all
sets of threads, events, clients, sockets, sessions, modules and URLs, all limits,
periods and times, and every bound of section 3.2.  Of the 40 properties of the passing
runs, those that a listed theorem of `PROJECT.json` names are proved.

**Assumptions.**  Each is in the module that declares the constants.

* The bounds, limits and times are natural numbers, and the tags (`NoThread`, `InSet`,
  `NoDate`, `MinusOne`) are none of the values they stand beside: `ConstantsAssumption`,
  `EventsSetAssumption`, `SchedulerAssumption`, `TimesAssumption`, `PoolAssumption`,
  `DescriptorsAssumption`, `ClientSocketsAssumption`, `HttpGetAssumption`,
  `HttpServerAssumption`, and the `CmAssumption` of the sessions.
* `FactoryAssumption`: blocks have at least one event; with 0 the code reads the front of
  an empty deque.  `CeAssumption`: the same for the server's events, and finitely many
  processors.  `SvAssumption`: at least one session and one processor.
* `TimesAssumption`, `FirstTimesAssumption`: no calendar has a date in the hour that comes
  twice.  `FirstTimesAssumption` also has finitely many Times, and times of day in Nat.
* `FirstSchedulerAssumption`: the array of the first scheduler grows by one at least;
  `init` refuses less (`Scheduler.cpp:77`).
* `CalendarAssumption`: any months, week, hours, minutes, seconds and years, none of them
  empty, with a February as the code means it.  The clock is put forward and back once,
  at full hours that are neither the first nor the last two of a day, and not within one
  day: the code, whose comments have the clock go "3 -> 2" and "2 -> 3"
  (`Times2.cpp:2733`, `2753`), throws when a day and 24 hours is neither at the hours 0,
  1 nor 23, and passes over at most one repeated hour.  `ScheduleAssumption`: a field of a
  schedule has one of its four forms, and starts and the years that a schedule names are
  in the years of the model.  What the numbers of the other fields may be is left to the
  constructor.
* `TracerAssumption`: a client is not named like the thread or the owner, and a trace is
  not empty (its header is not).  `TraceFilesAssumption`: finitely many processes.
* `ThreadAssumption`: the attributes that the setters of `PosixThread` name are among
  those of the model.
* `CmAssumption` of the cache: finitely many request records.
* `LbAssumption`: an item of the configuration with a number of values that `init` takes
  has six of them for every module it describes.  `init` reads no other.
* `StreamAssumption`: streams, the reply and the text that `waitForBuffer` waits for are
  sequences of bytes, and that text is not empty: the code would take any byte for an
  empty one.  `HttpMessageAssumption`: a message is a sequence of bytes and has a length
  or none.  `UrlAssumption`: a URL has the characters that stand for all of them: plain
  ones, the space, the plus, the percent sign and the ampersand.  A signed character above
  127, which `encodeURL` treats apart (`WebUtility.cpp:1867`), is not among them.
* `TelnetAssumption`: a telnet peer sends whole commands, none with a byte inside that
  `readLine` would take for a line end (it looks for the end before `telnetDecoder` sees
  the bytes), and the only subnegotiation is the question for the terminal type, the only
  one that the decoder knows.  The sessions of `pools` meet it.

**The multimap** (`EventsMultiMapProofs`).  `UpperBoundFacts`: the insert position
exists and separates smaller-or-equal from greater keys.  `InsertFacts`,
`EraseFacts`: what the sequences hold.  `InsertSorted`: inserting there keeps the
order.

**EventsFactory** (`PoolsProofs`).  The inductive invariant `FactoryInv` is
`TypeOK`, the three properties, and the facts about limits that `BelowMax` needs
to be inductive: a type nobody asked for has no events, and a known type has
a block of at least one.  `FactoryInvariant` is `Spec => []FactoryInv`;
`FactoryNoLeakNoDuplicate`, `FactoryOneHolder` and `FactoryWithinMax` follow.
The work is in `GetFreeEvent`: `NewBlockFacts` and `AvailableFacts` say that the
deque after an allocation is injective and covers exactly the numbers not used,
`TailFacts` what is left after `pop_front`.

**MultiEventsSet** (`MultiEventsSetProofs`).  The inductive invariant is `TypeOK`,
`Ordered`, `HeldOnce` and `ThreadsOK`.  `HeldOnce` alone is not inductive for
consumers: a thread in the loop takes `Front(d)`, so it has to be known that the
multimap is not empty, and that in turn holds only because the thread has had
the mutex since it saw the event.  `ThreadsOK` says that: who is in the loop
holds the mutex, and its call, destination and deadline are as the code set
them.  One lemma per action shows that it keeps the invariant; the books of who
holds what are moved by `InsertBooks` and `EraseBooks`.  From it: `SetTypeOK`,
`SetOrdered`, `SetHeldOnce`, `SetLoopNeverFindsEmpty`,
`SetNullOnlyAfterBlockingTime` (an action property: the front is the least
expiration, so a front that is not due means that nothing is) and
`SetImplementsDeadlineQueue`: initial states map to initial states, and every
step maps to a step of `DeadlineQueue` or to a stutter.

**EventsSet** (`EventsSetProofs`).  `IInv` is `EsTypeOK`, `WaitsWithinBlockingTime` and,
unless keys may be the same, `SetOK`: per destination the sequence is ordered and has
each event of that destination once, and no event elsewhere has the key of one in the
set.  The last part is what `deleteEvent`, which erases by key, needs.
`EventsSetTypeOK` and `EventsSetWaitsWithin` hold whatever the clients do and for every
offset of the local clock: the deadline of a wait and the end of the blocking time are
compared on the same clock, UTC, which takes the offset off again.  `EventsSetHeldOnce` and `EventsSetDeliveredInTime` have the hypothesis
`~DuplicateKeys`, which `addEvent` does not enforce; without it TLC refutes `EsHeldOnce`
(section 5).

**Scheduler2** (`SchedulersProofs`).  `ControlInv`: who scans, and nobody else, has the
mutex; before an update the index is that of the Times2 in hand, as the list can change
in a handler only; a loop that is about to read the status has begun no late scan.
`SchedulerOneLateScan` and `SchedulerDeactivatesOnce` follow from it without
conditions.  For `SchedulerFiresWhenDue` the dates are needed as well: the dates of a
started Times2 are readings of the local clock, the current one has passed and the next
is a period or a calendar's date after it (`DatesOK`).  That is inductive only when
nobody gives a start date, whose flag -1 is stored as true (section 5), and when no
period is longer than daylight saving time (`ShortPeriods`): with a period of 3 and
daylight saving time from 1 to 3 TLC finds a handler that runs too soon.  Both are
hypotheses of the theorem, which the instance of `scheduler_safety` meets.

**The first scheduler** (`SchedulersProofs`).  `FirstControl`: the list is without
repetitions and within its array, so no longer than the set of Times, and from its look at
a Times to the update the thread has the mutex and the Times in hand is at its index.
`FirstTimesOK`: the next date of a Times that is started, or that start has left behind
without its status, is a reading of the local clock, and unless a client broke a rule the
flag of its current date is down only after the end of daylight saving time.  With that
`FtExpiredIsDue` shows that `isExpiredTime`, which compares local dates, is right on both
sides of that hour.  `FirstDueOK` carries its answer to the update: between the two, which
are calls with a mutex of their own, only a stop or a finish could take the Times away,
which the rules exclude.  `FirstSchedulerIsSafe` follows: types, `ListedOnce`,
`HandledWhenDue`, for any period and for start dates as well, where Scheduler2 needs
hypotheses, and `DeactivatesNoOther`.  `scRules` in the last two stands for the rules for
clients, which `FirstScheduler` states at each method.

**The calendars** (`SchedulersProofs`).  `CalendarFindsDates` is `CalendarRight` for every
calendar and schedule.  The inductive invariant is `SearchOK`: the fields before the one
that the search looks at match, `clAddDay` says of the two day fields what they are, and,
as long as `mktime` never had to choose, no date lies behind the search.  That a field
matched is not forgotten between the steps is what makes "found" a date; that a move
keeps the last part is the work.  For each move there is a lemma (`SecondJump`,
`MinuteJump`, `HourJump`, `DayJump`, `MonthJump`, `YearJump`): it goes forward, and what
it passes over has the field for which the date was refused.  They rest on the
arithmetic of cells (`DivMod` to `DivDiv`: instants of one minute, hour, day, year agree
on the larger fields), on `DaysBefore` being the sums of the months, by a least
counterexample since it is a recursive function (`DaysBeforeSums`, `DaysBeforeOrdered`),
on the clock standing still within a unit (`SameUnit`) and on what a midnight is
when the local clock jumps: it comes once (`MidnightOnce`), nothing before it comes
after it (`MidnightPassed`), and the correction by an hour finds it (`NextDayRight`).
`LastTimeoutIsLast` adds that years do not go back (`YearsPassed`).
`Times2ImplementsTimes` is the refinement `SameAsTimes`: the constructor accepts less than
`init` did (`AcceptsLess`), a step that goes over to the next field is a stutter of the
first version, and one that moves or returns is a turn of its loop, whose conditions on
all the earlier fields are those that `SearchOK` has kept.

**Threads, pools and sockets** (`PoolsProofs`).  `ThreadInv` says, for every pair of
places of the owner and of the thread, who still owes the kernel the join or the
detach; `ThreadsAreReleased` and `OneThread` follow.  `PoolInv`: an info is free or of
one member, both hash maps lead to it, the mutex is held from `poll` to the unlock, and
the updates still to make are those of members already scanned; only the mutex makes the
last part inductive, as `deleteSocket` would take a member away.  `PoolIsConsistent`
follows.  `ImplInv`: an open descriptor has one socket, and a socket that is only built
has none; with the thread's theorems it gives `KernelResourcesAreOwned`.
`ClientPoolInv`: a client socket is in one place, free, in use or lost;
`ClientSocketsAreSafe` adds the action property that one handed out is new or young.

**Streams** (`PoolsProofs`).  `TextIsKept` is `TextKept` for every stream, buffer size,
text and timeout, and every cut of the stream by the network.
`WindowOK` is what makes `FindsFirstOccurrence` inductive: the window of `waitForBuffer`
is the end of what was read, one byte shorter than the text, and the text has not ended
anywhere before.  `TimesOK`: the end of a wait that was interrupted is never later than
the end of the first one.  `StreamInv` is for the lines and the decoder: what was peeked
at is exactly a line and its end, so that the second read, which finds the line again in
fewer bytes, takes the same characters (`LineFacts`); the lines have the text up to
there; and the decoder, which never sees a line end and is given one line at a time, is
where it would be if the stream had come at once with its line ends (`DecodeConcat`,
`DecodeOn`, `EndsAreSkipped`).  What `telnetDecoder` makes of a whole session is compared
with the shape of its commands in `Everywhere`: after any number of bytes a command or
character is next or has begun and the state says how far it is (`Place`).
`DecodeFrom`, `Text` and `Plain` are recursive functions: that they exist is proved step by
step (`StepByStep`), and an induction over a sequence is the least place where it fails
(`AllPlaces`).

**Tracer** (`TracerProofs`).  `TrInv`: the secondary pool is empty while nobody has the
mutex of the variables, which is why the pools can be exchanged without a trace being
lost or passed by another; each trace in the file is older than each in the cache, that
one than each in the secondary pool and that one than each in the main pool, and they
are, with those that are gone, the numbers that were given out (`OrderOf`).  A lemma per
move of traces (added, exchanged, taken, dropped, flushed) says that `OrderOf` stays.
`TrControl` says where each thread can be at each place of the owner: with it the flush
of `finish` is alone, and what it has emptied stays empty (`TrFlushed`).
`TracerKeepsTraces` follows.

**Trace files** (`TracerProofs`).  While one process is alone, the numbers of the files
that count lie in a window of the last ones, which goes back from the number in the info
file over the last number once the numbers have started again.  `TfInv` says for each step of a
rotation which number has already left the window; `TfWindowSize` counts it.
`TraceFilesAreKept` follows: the bound on the files, and as action properties that no
file that counts is overwritten and that the text of a closed one is not taken away before its turn.

**ConnectionsManager** (`ConnectionsProofs`).  *Sessions*: what refers to a session (its
place in the pool, an event in the queue, a processor, a proxy) is called a token.  The
invariant is that a session which was never freed in use has at most one token, and
that the token's connection and start time are the session's while it is read.  From
that: `SessionsAreOwned`.  *Events* (`EventsInv`): for each type, what is
allocated is the sum of what is free, in the set, in hand and with a processor that cancel
ended, counted with finite sets; what is free is built, what is in the set or taken from
it is initialized, and an event in hand that is still to be initialized is built, which is
why none of the refusals of `Event::init` is met.  `EventsAreWhole` follows.  *Service*
(`ServiceInv`): which parts are held at each of the forty steps of `onInit`, `onStart` and
`cancel` (`HeldOK`); what a branch has still to finish are, each once and the last made
first, all the held parts but those that stay (`BackOK`, `Finishes`), where each list of a
branch is compared with the parts held at its step (`Rows`, `ListsOfServer`); and which
threads and timers may be there (`ThreadsAndTimes`).  `ServiceIsWhole` follows.

**Cache** (`WebProofs`).  `IInv`: no record is twice in the free ones and the queue
together and their number is that of all (so that none is missing, `RecordsAreAll`);
the two tables have the same keys, the oldest first; a URL that waits or downloads does
so once.  `Assign` gives the first of the queue to the first idle thread: `TurnFacts`
shows that the turns of the idle threads are 1, 2, and so on, so that no record is given
twice.  `CacheIsConsistent` follows.

**Load balancer, gets, server and posts** (`WebProofs`).  `ListsOK`: the heap is the list
of all modules, each once, and an iterator is on a place of its group.  `PlaceOK`: where
`init` reads a module, the item describes one more than have been read.  `TurnsOK` is
what makes `RoundRobin` inductive: since a place was selected, every place that the
iterator has passed (`Ahead`, the way around the group), and every one that is down, was
selected or found down.  When the iterator is back on the place it has passed all the
others (`BalancerTakesTurns`).  `GetInv`: the buffers there are those up to where `init`
is, and the file has at most what was received.  `ServerInv` and `PostInv`: what `run` and a
post hold where they are.  Together: `WebResourcesAreOwned`.
`MarkedWhenWhole` is the action property `MarkerAfterWholeBody`: it rests on
`CountedIsReceived`, that the count of the cache object is that of this get, as both are
reset by `init` and both grow with a chunk, whatever of it was written.

**Messages** (`WebProofs`).  `MessageInv`: as long as no peek ended inside a blank line,
what was taken of the header ends before the first blank line begins; once one did, the
first blank line has begun in what was taken, so that none but a later one can end the
header.  Afterwards the body is counted from the byte after it.  `MessageEndsRight` gives
`MessageBoundary`, in both cases, and the types for every message, buffer and cut of the
stream.

**URLs** (`WebProofs`).  `EncodeFacts`, `TruncateFacts` and `DecodeFacts` give what the
three loops have after each character; `AllPlaces` and `SameSteps` carry a fact from one
character to the next.  `DecodedChar` is the round trip of one character.  The invariant
of the round trip (`DecodedEncoding`): where the encoding of the first k characters ends,
the decoder is between two codes and has these k characters, the spaces as pluses.  A
value that is cut is the encoding of its first characters (`TruncationDecodes`), so no
code is cut.  An encoded value has no separator, so in a URL with three parameters only
the one that was added under a name is found there (`ThreeParameters`, `OnlyPlace`,
`ParameterFound`).  `UrlsComeBack` gives `ParameterComesBack` and `TruncationKeepsCodes`
for values of any length, and `MessagesAreWhole` puts the four parts of `MessagesWhole`
together.

**Only model-checked.**

* Liveness under fairness, which the prover cannot express: `CallReturns`,
  `EsCallReturns`, `DueIsHandled`, `ShutdownEndsPool`, `WebCallsEnd`, `TracerGoesOn`,
  `ServerGoesOn`, `CallsEndClean`, `SchedulersGoOn`.
* `TreesWhole` and its five properties: what the calls of `FileTrees` leave behind when
  they are done, which needs an invariant for every frame of the stack of calls.
  `BytesCounted` is a sum over a sequence.
* That a search ends (`SearchComesToAnEnd`, in `SchedulersGoOn`) is liveness too.

## 5. Observations

What the code does against one of its documents, or against what a reader would
expect, and what no run of section 3 checks.  The first group are properties of the
modules that TLC refutes on the given instance, once the cfg checks the property
alone, without its symmetry.

| property | instance | what it shows |
|---|---|---|
| `NoLostWakeUp` | `QueuesSafety.cfg` | `notify_one` is called only for a new front (`MultiEventsSet.cpp:78`), and the thread it wakes may be unable to use the event: an expired event lies in the set while a consumer sleeps |
| `WaitsWithoutMutex` | `QueuesSafety.cfg` | the predicate of `wait_for` holds already (`MultiEventsSet.cpp:322`): the thread spins with the mutex |
| `EsHeldOnce` | `QueuesSafety.cfg` with `DuplicateKeys = TRUE` | `deleteEvent` erases by key (`EventsSet.cpp:1167`) and takes another event with the same one |
| `NoEventsFoundMeansEmpty` | `QueuesSafety.cfg` | a timeout is answered without a look at the set (`EventsSet.cpp:1623`) |
| `SchedulerSurvives` | `Scheduler2Safety.cfg` | `stop` between `isExpiredTime` and the update ends the scheduler's thread (`Scheduler2.cpp:138`) |
| `FirstTimeoutAfterPeriod` | `Scheduler2Safety.cfg` with `StartDates = {1}`, `DstEnd = 0` | the flag -1 of a start date is stored in a `bool` (`Times2.cpp:1192`): an hour off outside daylight saving time |
| `FinishedThreadIsInitialized` | `Pools.cfg` | a join that loses the race with the end of the thread writes STARTED back (`PosixThread.cpp:1849`); a cancelled thread leaves it (`1677`) |
| `PollsAllMembers` | `Pools.cfg` | `deleteSocket` moves a slot without telling the info that points at it (`SocketsPool.cpp:1866`) |
| `AcceptedIsDownloaded` | `Web.cfg` | the URL of a download that has ended counts as being downloaded (`HTTPCacheManager.cpp:806`) |
| `LostAreReported` | `Tracing.cfg` | the trace that tells of lost ones is added to the pool that was full (`Tracer.cpp:3404`) |
| `UsageIsWhole` | `Tools.cfg` | `readDirectory` answers "finished" when `readdir` returns `NULL`, without a look at `errno` (`FileIO.cpp:582`): `getDirectoryUsage` returns fewer bytes than the directory uses, against `FileIO.h:195`, and `copyDirectory` a part of the tree, both without an error. `moveDirectory` and `removeDirectory` do not succeed then, since their `rmdir` meets what was left |
| `OneInSection` | `Tracing.cfg` | `unLockFile` removes the path after it gave the lock back (`FileIO.cpp:6597`): a process that waited has the lock of a file without a name |

Cases that the properties leave out, because the code is as it is there and the
models do the same:

* `FreeUnused` and `HeldOnlyOnce` are about sessions that were never made free after a
  release that failed, and whose requests came whole (`Session.cpp:1154`: a request
  whose body is late goes back to the pool and is processed all the same).
  No property says what becomes of such a late request.  `AnswersToOwner` cannot tell
  two connections of one second (`Session.cpp:947`).
* `FiresWhenDue`, `DeactivatesOnce` and `DeactivatesNoOther` leave out the clients that
  broke a rule of section 2.1 (`rulesKept`, `scRules`): what such a client gets is in the
  table above and in the hazards.  `FinishReturns` leaves out a tracer's thread that was
  ended by force with the mutex (`Tracer.cpp:2909`), for which `finish` waits for ever.
* `ServiceAllOrNothing` leaves what `SvLeft` names: the list of the free sessions, whose
  sessions are deleted, when a session cannot be initialized
  (`ConnectionsManagerService.cpp:565-612` does not clear it), and the base of a processor
  and its section of the configuration when the last item of the proxy is missing
  (`CMProcessor.cpp:207-222` finishes neither).
* `EventsKept` counts as lost the events of a processor that is ended by force, and those
  that `processEvent` cannot tell the type of (`CMProcessor.cpp:430`, whose release is in
  a comment); `EventsInitialized` says that it never meets one of these.
* `ParameterComesBack` takes a plus that comes back as a space (`WebUtility.cpp:2064`).
* `FilesBounded` does not count files whose removal failed or was skipped after a
  failed compression (`Tracer.cpp:4851`).  `TracesInOrder` counts among the traces that
  are gone the rest of a pool whose flush failed (`Tracer.cpp:3540`).
* `NothingLost` leaves out the one file for which something failed that the code does not
  look at before it removes the source: the result of `gzclose` (`FileIO.cpp:4045`), the
  stream of `concatFile` (`4837-4865`), and a lock file that was removed while another
  process was about to lock it (`6597`).  `CopiesWhole` and `CountsOnce` take a part for
  the whole only after a `readdir` that failed (`UsageIsWhole`).
* `FindsNextDate` leaves out searches in which `mktime` chose in the hour that comes
  twice (`Times.cpp:3857`); `SearchComesToAnEnd` those that pass the last year.
* `ShutdownEndsPool` leaves out a `cancel` before `run` has begun, which `run` forgets
  (`SocketsPool.cpp:386`); `LoadBalancer`, `HttpServer` and the processors have the same
  line and end by force, which their properties cover.  A thread ended by force inside
  `poll` or a flush keeps its mutex (`SocketsPool.cpp:504`, `Tracer.cpp:2909`).
* `DueIsHandled` and `ScDueIsHandled` need the rules for clients of section 2.1: a `stop` or
  `finish` between two calls of a scan ends the thread of either scheduler
  (`Scheduler.cpp:555`), a calendar that is started without a later date expires at once
  (`Times2.cpp:1264`), and a handler that starts its Times again in the past keeps the
  scan from its end (`Scheduler2.cpp:164`).

Read in the code and not modelled:

* `MultiEventsSet.h:51-52` speaks of unique keys where the multimap takes duplicates.
  `EventsFactory.h:99` compares with `>=` and so refuses a block that would just reach
  the maximum; with blocks of 0 events it reads the front of an empty deque (`119`).
* `PCondition.cpp:290` adds milliseconds to `tv_nsec` without a carry to the seconds.
* `SocketImpl.cpp:462` takes a writable socket for a connected one without reading
  `SO_ERROR`; `2232` adds microseconds where a difference is meant; `3889` drops a byte
  that arrives alone.  `ClientSocket.cpp:250` returns the result of bind after an
  option failed.  `ClientSocketsPool.cpp:571` takes a socket off the free ones before it
  is connected and does not give it back (the model loses it too).
* `SaveHttpGetThread.cpp:230` does not notice a short write.  `HttpServer.cpp:624` ends the
  server when a request cannot be read.
* `Tracer.cpp:3157` makes every trace a lost one when the number of traces is -1,
  documented as unlimited.
* `FileIO.cpp:2666` gives `createLink` the path of the directory, so that a copy of a tree
  with a link always fails; `lockFile` with -1 waits although `FileIO.h:515-521` says
  that it does not; `copyFile` and `moveFile` of a file onto itself truncate it (`4615`).
* `ConnectionsManagerService.cpp:344` installs the signal handlers before most parts exist;
  the models take signals after `onInit`.
* `Times2.cpp:1457`: a period of 0 has no last timeout, although `Times2.h:298` says so.
  `Times2.cpp:1380`: a suspension longer than a whole daylight saving period confuses the
  flags.  `DateTime.cpp:581`: `isLeapYear` is always true.

## 6. Not modelled

* A copied `EventsFactory`, which shares its contents under another mutex; the
  repository never copies one.
* Jumps of the system clock in `MultiEventsSet`, where time points and `wait_for`
  use different clocks.
* Failures of mutexes and conditions where the code only reports them, and of
  `localtime_r`.
* The Windows and `select` builds, thread attributes and signals of `PosixThread`.
* Socket addresses and options, Java numbers on a socket, SOAP, the texts of
  headers, traces, mails and administration commands.
* Single reads, writes and `stat` calls of `FileIO`; `System`, `Service`, `LdapWrapper`
  and the other wrappers of one call.
* `Configuration` and the sequential algorithms of `Tools`: what they compute is reached
  by unit tests, or needs the strings that the models abstract.
* `ConfigurationFile` (generated), vendored code, examples.

## 7. Plan

1. Done: the event sets and the factory; both schedulers and their calendars; threads,
   pools and sockets; load balancer, cache and `WebTools`; tracer; ConnectionsManager;
   the trees of `FileIO`.
2. Done: the theorems of section 4.
3. Proofs, next: the trees of `FileTrees`, first while one process is alone.
4. Then: `MergeSort` and the tokenizer as operators against a reference; the date
   operators of `DateTime`.
