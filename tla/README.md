# TLA+ verification of the IEC 61850 interop adapters

This directory models the adapters of `iec61850-interop` (formerly
`mms-interop`): the small programs that put four independent IEC 61850 stacks
behind one command-line and JSON Lines contract. The stacks themselves
(libiec61850, go-iec61850, iec61850-rust, iec61850bean) are not in the
repository. They are modelled where an adapter relies on them, from how the
adapter calls them, and marked external in `PROJECT.json`.

Most services exist three times, in C, Go and Rust, under one specification
(`docs/goose.md`, `docs/sv.md`, `docs/contract.md`). Where possible the project says
once what a service promises and shows each program to keep it.

## 1. The system

| Part | State | Operations | Talks to |
|---|---|---|---|
| goose-subscriber (Go, C, Rust) | per gocbRef: deadline or timer, timed-out flag; Go: generation numbers and a mutex; C: a table of `MAX_STREAMS` | receive a frame, supervise, timer or deadline check, signal | raw socket, stdout |
| goose-publisher (Go, C, Rust) | stNum, sqNum, schedule position, next deadline, values | send a due frame, `set`/`stop` lines, EOF, signal | stdin, raw socket, the library's own counters |
| sv-publisher (Go, C, Rust) | smpCnt, totals, data set, deadline, pending announcement | send a due frame, `set`/`stop` lines, EOF, signal | stdin, raw socket; goroutines, thread and channel |
| sv-subscriber (Go, C, Rust) | per (APPID, svID): last smpCnt, learnt wrap, totals | receive and count, one event per N ASDUs, a stats line per second, signal | raw socket, stdout; Go: four goroutines, two mutexes, one channel |
| mms-server (Go, Rust) | values, named variable lists, open files, journal, associations | read, write, define/list/delete lists, name lists, files, ObtainFile, journal, reports | clients over TCP; one mutex around the model |
| mms-server (C) | the loaded fixture, the value cache, a file store on disk; lists and associations inside libiec61850 | load a fixture, populate the file store, `write_handler`, journal storage, reports, signal | one thread that answers requests; the directory outlives the process |
| mms-client (C) | place in a fixed script, collected names or bytes, report counter, lost flag | four associations: the full sequence, a short one, an abort, an abort by the server | an MMS server; the library's connection thread, which also prints |
| ied-server (C) | attribute values; selections and report control blocks inside libiec61850 | initial values, write policy, control handlers, signal | several clients at once |
| ied-controller, ied-reporter, ied-client (C) | place in the script, logical device, failed flag; the reporter: a report shared with a callback, a semaphore | read, select, operate, enable a report, write, wait, exit code | the ied-server; the library's thread |
| mms-client, IED programs (Go, Rust, Java) | the same sequences over other stacks | - | - |
| typed values (C) | none | JSON to MmsValue and back, times, quality | the GOOSE and SV programs |
| JSON Lines, Go and Rust typed values, BER, fixture files, scripts | none | formatting, parsing | - |

What is hard in this code:

* **time against traffic** - supervision timers race the frames that restart
  them; a loop that reads until the socket is empty never looks at the clock;
* **threads around stdout** - a blocked pipe, a mutex held while writing, and
  an exit that three goroutines race for;
* **partial failure** - a refused frame must use up its number and its slot,
  but not its announcement;
* **finite words** - stNum and sqNum wrap to 1, smpCnt wraps at the fixture's
  wrap, intervals double in 32 bits, gaps are subtracted in three integer types;
* **full tables** - the C programs have fixed tables for streams and APPIDs;
* **atomicity** - a Read or Write of several items, the reports it causes, and
  the pages of a name list, under concurrent associations;
* **two threads behind a blocking call** - the library's thread prints reports
  and posts a semaphore while the main thread is inside a request, times out, or
  has already destroyed what the callback uses;
* **processes that come and go** - a server stopped, killed and started again
  under a client, with a directory that may be left over; loops over pages,
  files and reports whose end depends on what the peer answers.

Section 7 of this file says what is not modelled. `PROJECT.json` lists every
hazard at its line, with the properties that would catch it going wrong.

## 2. Modules

`A <- B` reads "B extends or instantiates A".

| Module | Models |
|---|---|
| `GooseSupervision` | abstract: what a subscriber may say about supervision |
| `GooseWire` | the socket, the history of each gocbRef, the refinement mapping to `GooseSupervision` |
| `GooseSubscriberGo`, `C`, `Rs` <- `GooseWire` | the three subscribers |
| `GooseSubscribersProofs` | the proofs about all three |
| `GooseRetrans` | the retransmission schedule in C and Rust arithmetic; also a "program" of its own in `MCGoosePublishers` |
| `GoosePublishing` | counters, schedule, operator, wire and history of the publishers |
| `GoosePublisherC`, `Rs` <- `GoosePublishing`, `GooseRetrans` | the two publishers |
| `GoosePublishersProofs` | the proofs about both |
| `SvCounting` | the three `count` functions as operators, with their integer widths |
| `SvLink` <- `SvCounting` | one stream over a link that loses, repeats and delays; part of `MCSvSubscribers` |
| `SvPublishing`; `SvPublisherGo`, `C`, `Rs` | the three SV publishers |
| `SvPublishersProofs` | the proofs about all three |
| `SvSubscriberGo` <- `SvCounting` | four goroutines, two mutexes, one channel; with its instance for TLC |
| `SvSubscriberGoProofs` | the proofs about it |
| `SvReceiving`; `SvSubscriberC`, `Rs` <- `SvCounting` | the single-threaded SV subscribers |
| `SvSubscribersProofs` | the proofs that the three count alike, exactly, and never too many, and that the C and Rust ones count every ASDU |
| `MmsStore` | abstract: each MMS request is one atomic step |
| `MmsModel` | variables, access paths, lists, requests, pages |
| `MmsServers` <- `MmsModel` | the mutex, the item loops, the walk through pages, the mapping to `MmsStore`; the two servers, `GoSpec` and `RsSpec` |
| `MmsFiles` | the file services of the Go and Rust mms-servers, and ObtainFile with its calls to the client; a "program" of its own in `MCMmsServers` |
| `MmsServersProofs` | the proofs about `MmsServers` and `MmsFiles` |
| `MmsFixtureC` | `fixture.c`: from a JSON fixture to variables, files, journals and reports |
| `MmsAssociation` | one association as libiec61850 gives it to both sides: calls, results, PDUs in order |
| `MmsServerC` <- `MmsFixtureC`, `MmsAssociation` | the C mms-server: start-up, handlers, file store, stop and crash |
| `MmsClientC` <- `MmsAssociation` | the C mms-client: the scripts, the rules of the lines, both threads |
| `MmsStationC` <- `MmsServerC`, `MmsClientC` | the client against the C server, or against any server that answers in order |
| `MmsStationProofs` | the proofs about the C mms-server and mms-client |
| `IedServerC` | the C ied-server and its associations |
| `IedClientsC` <- `IedServerC` | the C ied-controller, ied-client and ied-reporter, and what they share: a script, a blocking call, a line |
| `IedStationC` | the server with two of them at once |
| `IedStationProofs` | the proofs about them, on the lemmas about queues of `MmsStationProofs` |
| `TypedValues` | typed values, times and quality of the C GOOSE and SV programs |
| `MC*` | instances for TLC; `MCLibiec61850` holds the two stations and the conversions |

Several programs with one specification are checked in one run: the MC module
has a variable `program` that the initial state picks and no step changes, and
`Next` is the picked program's own `Next`. The union is therefore exactly the
disjoint union of the programs' state graphs. In `MCGooseSubscribers` the
variable is `room`, the number of entries of the C stream table (`Rooms` has one
that is too small and one that is not), or `Unbounded` for the Rust program.
A proof module extends the MC module, or the module with the specification
of the one program it is about (`GoSpec`, `RsSpec`, `FilesSpec`,
`BlockedSpec`, `MmsSpec`), with the constants left open.

### State and actions against the code

* **GOOSE subscribers.** A frame is its gocbRef, its timeAllowedToLive and
  whether the filters keep it. In Go, `supervisor.frame` and the timer callback
  hold the mutex from first to last statement, so each is one action
  (`Supervise`, `Callback`); the `goose` line is printed outside it
  (`EmitGoose`). `Fire` turns a timer into a goroutine that `Stop` no longer
  reaches. In C and Rust each turn of the loops is an action, so that the clock
  may move between any two of them.
* **GOOSE publishers.** `send_frame` is one action, with what the library's
  encoder does to its own copy of the counters. `TooBig` values are those the
  encoder refuses; the socket may refuse frames.
* **SV publishers.** Time is counted in frame intervals, so slot `k` is due at
  `k`. A data set is the number of the `set` that brought it. The Go program
  loads its data set pointer when it builds the frame and looks again when it
  announces it; the two are separate actions (`Build`, `Write`).
* **SV subscribers.** Each takes the `count` operator of its own language from
  `SvCounting`. In Go every lock, channel operation and write to stdout is an
  action of its own; `streams` is the map from (APPID, svID) to the last smpCnt
  and the largest one seen, `stats` the four totals.
* **MMS servers.** A variable is the set of its leaves, and an item is an access
  path that selects leaves (`Path`); overlapping paths (`s` and `s$x`) are the
  interesting case. The loops over the items of a Read, Write or Delete go one
  item at a time, with the mutex as a variable, so that atomicity is checked and
  not assumed. `resolve`, `conform` and `set` are `ReadResult`, `WriteCode` and
  `Stored`; which paths exist and which data conform are constants. The names of
  lists are numbers in the order in which a server sorts them, as a page is
  the next names after a given one and nothing else about a name matters. The answer
  and the InformationReports of one request are one observation: the Go library
  holds the reports back until the response is sent, the Rust server sends them
  first.
* **Files of the MMS servers.** A name stands for an inode. In Go the directory
  is the store: an open file stays with its inode, and `WriteFile` truncates and
  then writes in place (`Truncate`, `WriteBytes`, `WriteFails`). In Rust FileOpen
  copies the bytes and ObtainFile replaces the entry (`Insert`). An ObtainFile
  under way is a job with the call it waits for; `Resume` is what it does with
  the result, and its answer, a timeout (`CallFails`), a lost association and an
  answer that comes after the timeout (`DropAnswer`) are separate actions. The
  Go server goes on serving the association meanwhile (`req.Defer`), the Rust
  task reads for its own call and drops everything else (`DropRequest`).
* **C mms-server.** A JSON object is a record whose domain is the set of keys it
  has, so that every "missing or of another type" branch of `fixture.c` is a
  branch here; a value is its type, the types of its elements and its contents.
  `Load`, `Populate` and `StartFails` are the stages of `main`, `Serve` is one
  request with what the handlers do to it, `Stop`, `Cleanup` and `Killed` are the
  ways it ends. The disk is a function from directories to files that survives
  the process. What libiec61850 answers by itself (`AnswerTo` and what it uses)
  is external.
* **C mms-client.** The scripts name every call in the order of the source, with
  the object and the values; `LineOk` has one case for each helper that decides
  `ok`. A call is sent, waited for and printed in separate actions. The
  connection thread hands over answers, drops late ones, runs `report_handler`
  (its two `fputs` apart) and calls `on_connection_lost`. The loops of
  `file_directory`, `file_read` and `svc_reports` are actions of their own.
* **IED programs.** As above; `reportCallback` is two actions, since `main`
  reads `ReportState` without a lock, and `emit_report` is two as well.
* **Typed values.** A text is what the code looks for in it: digits, bits, the
  parts of a time.

## 3. Runs

| Run | Shows | Bounds |
|---|---|---|
| `goose_sub_go` | the Go subscriber implements `GooseSupervision`, liveness included; timers follow frames | 2 gocbRefs, timeAllowedToLive up to 2, 3 frames, queue of 2 |
| `goose_sub` | the C subscriber, with and without room in its table, and the Rust one: events are never wrong, lapses are reported where the program can | as above; the Rust wire never falls silent |
| `goose_sub_c_starved` | violation: endless traffic keeps the C program in its inner loop | 2 gocbRefs, endless frames |
| `goose_pub` | every frame is announced as it is, stNum names a state, a healthy publisher never expires, EOF and failures do not stop it, every line takes effect once and in its turn; the schedule doubles, C and Rust agree, timeAllowedToLive covers the interval | 4-value counters (wrap included), 2 lines, 3 for the healthy programs, which may be 1 tick late; the schedule with 11-bit words and 6 steps (`ScheduleWord`, `ScheduleSteps`) instead of 17, times around every boundary of the clamps |
| `sv_pub` | smpCnt is the slot, totals and announcements are true, stop and signal end it | noASDU 2 with wrap 3 (the wrap falls inside a frame), 4 frames, 2 lines, lag 2 |
| `sv_sub_go` | snapshots, order, no deadlock while stdout is read | 2 frames, channel of 1, 1 tick |
| `sv_sub_go_exit` | violation: exit code 1 on a signal | as above |
| `sv_sub_go_blocked` | violation: a blocked stdout stops the receive loop | as above, nobody reads stdout |
| `sv_sub` | every ASDU counted once and for its stream; a full table costs whole streams; missed seconds are caught up; over a bad link the three counters agree, exact while the order is kept, never too high with a learnt wrap | 3 streams under 2 APPIDs, 3 frames, 4 s; tables of 3 entries (`Ample`) or 2 (`Scant`); link: wrap 7, bursts of 2, up to 9 ASDUs, 8 dropped, 2 late |
| `mms_server` | each request is one step of `MmsStore`; a paged walk misses nothing; files are read and obtained whole; every request is answered | 2 associations, 15 requests to choose from, 3 requests in all, pages of one name; files: 5 plans of two clients with up to 4 requests between them, files of 1 and 2 bytes in chunks of one, 2 upsets (timeout, silent client, client's refusal, failed write, lost association) |
| `libiec61850` | lines are whole and true, the store keeps types, values and files, reports are waited for, controls and reports reach those who asked, exit codes tell, every client ends unless it is fed for ever; conversions keep values | the full scripts; 1 disturbance at any point (timeout, cut, stop, kill, failed start, foreign write), 2 starts, 3 fixtures, pages of 2; 6 pairs of IED programs, 3 server directories; 8192 times and quality words; loops over a listing or a file have no bound, 8 names or bytes of one are remembered (`MaxGot`) |
| `mms_client_raw` | violation: a refused item printed as ok | as above |

Why the bounds are enough: the GOOSE programs keep streams apart, so two show
interference; three frames give a frame before, during and after a timeout,
and a stale timer on either side. The schedule has no state beyond two times
and a step, and its times hold both sides of every comparison. Counting
compares a gap with half the wrap: bursts up to 2 of 7 stay below it, late
ASDUs lie above it, and nine ASDUs pass the wrap; the theorem then covers every
wrap. One channel slot and two frames fill the channel and drop an event. Two
associations are enough for a data race on one mutex; three requests are
one in the way of another, and the next page of a walk after a deletion. Files
of two chunks can change between their first and their last read; two
ObtainFile, of one association or of two, are what it takes to confuse their
calls or their destinations, and two upsets allow a timeout followed by a late
answer or by the loss of the association.

The C clients run their whole scripts, about 90 calls over four associations, so
a disturbance can fall at every call; a second one would mostly meet a client
that has already lost its connection. Two starts give a server that finds what
the one before it left. The three fixtures are a good one, one with two
variables that are skipped (no value; an unknown type) and one that is refused. Pages of
two and files of up to six bytes make the loops of `file_directory` and
`file_read` go round. The waiting rounds of `svc_reports` are scaled from 60 and 6
to 8 and 3, with a server whose first report may take up to 4 rounds and the
next ones 2. The pairs of IED programs are those that share something: two
controllers of one select-before-operate object, a direct and an enhanced one
side by side, a reporter with a client that writes another member of its data
set, two reporters of one control block. The largest listing of the C server has 6
names, so `MaxGot` cuts nothing that a property looks at; the server that may answer anything
goes through listings of two names and files of up to 2 bytes (`MaxBytes`), with empty
answers for ever, so that every way round the loops is met. Integer words are scaled (`Word`,
`UnsignedEnd`, `Step32`), and so are the ranges of the time types (`SecsEnd`, `Epoch84`,
`DaySecs`, `DaysEnd`: a UtcTime of 7 s and a BinaryTime of two days of 2 s from
second 2), with values on both sides of each limit.

Each property has a mutant in `PROJECT.json`: a plausible slip in a mapped
definition that makes the run fail on that property.

### Deadlock

Runs whose programs end (signal, stop, a bound on traffic) switch TLC's
deadlock check off. That no program gets stuck before that is what the
liveness properties say: `ReceiveLoopRuns`, `AllAnswered`, `RunsUntilStopped`,
`StreamGoesOn`, `LapseReported`, `ProgramsEnd`.

### Type invariants

The component modules state a type invariant, `TypeOK`. Those of the Go
goose-subscriber, of the Go sv-subscriber, of `SvLink` and of `MmsServers` are
theorems, and that of `MmsFiles` is a part of the inductive invariant of its
theorem; the runs spend their properties on behaviour.

## 4. Fairness

* Threads, tasks and goroutines have weak fairness: the schedulers run whatever
  can run. Each is one fairness condition over all its steps, as there is
  always at most one step it can take next.
* The clock has weak fairness.
* Clients, operators, links, signals and the writer of stdin have none, except
  that a client answers the calls of ObtainFile unless it has fallen silent,
  when the call times out after 5 seconds.
* The C programs over MMS have one weak fairness condition over everything that
  goes on by itself: the programs, the library's threads, the server while it
  runs. That is enough as the only thing there that can go on for ever is a loop of the
  client that is fed for ever (`ProgramsEnd` names it). Nobody has to start a server, and disturbances need not happen;
  without a server the client's connect fails and it ends, as in the code.
* Stdout is read on (`Drained`) in `sv_sub_go`, and not in `sv_sub_go_blocked`.
* The mutex of the MMS servers is not assumed to be fair. One weak
  fairness condition over the handlers, the tasks and the clients' answers is
  enough, as the associations send finitely many requests. With
  endless requests of others the answer depends on the starvation mode of
  `sync.Mutex`, and Rust's `Mutex` does not promise it.
* The C goose-subscriber reports a lapse under weak fairness only when traffic
  leaves gaps; `goose_sub_c_starved` is the case where it does not.

## 5. Proofs

Every theorem leaves the constants open, so it holds for any bound a run uses
and for those it cannot reach. The assumptions are the `ASSUME`s of the modules
(bounds are natural numbers, words hold the values they are used for), which TLC
evaluates in the runs. Some theorems have a further hypothesis, named with them
below.

### GOOSE subscribers

`GooseSubscribersProofs`, for any set of gocbRefs, any timeAllowedToLive, any
queue and any number of frames. About the Go program (`GoSpec`):

* `TypeCorrect` - the type invariant.
* `TimersFollow` - only the timer of the current generation is alive, it counts
  down the time the last frame left, and the flag says what the reader was told.
  It is inductive together with the type invariant. The contract alone is not
  inductive: a callback may only say "timeout" because its generation is
  current, and that a current generation means a lapsed stream is a fact about
  all earlier steps.
* `KeepsContract` - every step is a step of `GooseSupervision` or a stutter.
  One step per action, each from `TimersFollowFrames`.

The same for C and Rust, for any size of the C table:

* `DeadlinesFollow`, `OkComesFirst`, `LoopsKeepContract`. The invariant
  `SubscriberInv` says, per gocbRef and for every place in the loops, how the
  deadline, the flag and what was said and shown relate (`CStream`, `RsStream`).
  It is stronger than `DeadlineFollowsFrames` where a loop is between the check
  of a deadline and the event, or between the bookkeeping of a frame and its
  `goose` line, and for a stream that found no room in the table, of
  which the C program may never say anything.

### GOOSE publishers

`GoosePublishersProofs`, for every word length, schedule, set of values, lateness
and number of command lines, with values that cannot be encoded and a socket
that refuses frames. All but the last theorem rest on `PublisherInv`; the lemmas `CSends`
and `RsSends` say what the two `send_frame` have in common (`Sent`), and one lemma
each says that sending, handling a line, typing and waiting keep the invariant.

* `EventsPerFrame` - `EventPerFrame`. Not inductive by itself: the event is printed
  from the adapter's counters and the frame from the library's, so the invariant
  has that both pairs are equal after every failure, and for Rust that the last event
  is about the last frame on the wire (`Alike`). The C program announces a refused
  frame too, so there only the numbers can be proved of an event.
* `NeverExpires` - `FreshWhenHealthy`, of programs whose frames get through and
  that are less late than their shortest interval (`FreshAssumption`). `InTime`
  says that the age of the last frame plus the time to the next deadline is at
  most half its timeAllowedToLive.
* `StatesNamed` - `StNumNamesState`, under `FewLines`: fewer command lines than stNum has
  values. Frames may be refused for so long that stNum comes round to that of the last
  frame that went out, with other values. `Named` says that the stNum on the
  wire is not above the current one, which is not above the lines handled.
* `LinesObeyed` - `LinesInTurn`. The lines still to be handled are a concatenation of three
  queues, of which each program uses two (`TurnInv`): a read cuts a batch off standard
  input (`Cut`), the reader thread passes one line on (`PassOn`), handling takes the
  first (`TailAhead`), typing adds the last (`AppendBehind`), and none of the moves between
  queues changes the whole. That a C program whose loop has ended sends only first frames
  of a state, the one before the loop included, is the rest of `TurnInv`.
* `SchedulesSound` - `ScheduleSound`, for every word length, number of steps and pair of
  times whose double fits in a word (`ScheduleAssumption`; with 32 bits, below 2^31 ms).
  Both loops double an interval, C modulo the word, Rust saturating. `Iterates` proves
  by induction that these recursive functions exist, `DoubledBelow` that as long as an interval
  is below MaxTime it is MinTime doubled and has not left the word, so both
  loops collect the same intervals and stop together (`Collected`, `SameStop`). `Built` puts it
  together as `Schedule`, the description of the sequence from which `WalkSound`
  gets the property at every step of the walk.

### Sampled values

`SvSubscribersProofs`, for every wrap, word size, burst length and number of ASDUs:

* `CountsAlike` - the three `count` functions hold equal records after any
  sequence of ASDUs, with a known or a learnt wrap and without `ShortBursts`. The
  invariant `Alike` adds that the wrap they use is above every smpCnt they have seen
  (`Referenced`), which is what keeps the subtraction in an unsigned word, in a
  Go int and in an i64 the same.
* `CountsExactly` - under `ShortBursts` (a gap stays below half the wrap) all
  three subscribers that know the wrap count every lost and repeated ASDU
  exactly, as long as the link keeps the order. The lemmas say what each `count`
  does with a gap of `g` ASDUs, on either side of the wrap, in its own
  arithmetic; the invariant adds that the smpCnt all three hold lies behind the
  publisher's by exactly the current burst (`Ahead`), which is what makes the
  next gap the number lost.
* `NeverTooMany` - `SameCounts`: the same for a program that has to learn the
  wrap, with "not more than" for "exactly" (`Near`, `Bounded`).
* `AsdusCounted` - `CountedIfRoom`, for any set of APPIDs, svIDs and frames. `Entries`
  says of the tables that a stream with an entry is counted completely, has one entry
  and its APPID one SVSubscriber, and that a stream without an entry is not counted and
  was met, if at all, when a table was full. A frame is a loop over its ASDUs
  inside one step, for which the same is proved after each of them, by induction
  (`AllNumbers`). That `Ample` tables never fill is a count: entries are distinct
  and there are not more streams or APPIDs on the wire than `Ample` (`RoomAssumption`).

`SvPublishersProofs`, for every number of ASDUs per frame, wrap, reporting
interval and number of frames and lines:

* `SlotsNumbered` - `SmpCntOfSlot`. The numbers of a frame are defined by a
  recursive function; that it counts up modulo the wrap is proved by
  induction, from the well-foundedness of the natural numbers
  (`Least`, `AllNumbers`, `CountsUp`). For the C program the theorem has the
  hypothesis that it is never more than `Second + 1` intervals late, beyond which
  `sv_publisher.c:387` starts the schedule again and slots are lost on purpose.
* `OneFrameAtMost` - `StopsAtOnce`. The invariant says where each program can
  still be when the one frame has gone out.
* `EventsTell` - `EventsTrueIfLearnt`. The invariant `History` is the property
  with what it needs of the program: `stopped` is the last event, the total is
  the length of the wire, and the pending announcement (`lastGen`, `after_set`,
  `pending_set`) is set exactly when the last frame on the wire has older values.

`SvSubscriberGoProofs`, for any streams and frames, every capacity of the output
channel and every number of frames and seconds. The theorems are about `BlockedSpec`, in
which nobody has to read stdout, so they hold for `Spec` as well:

* `TypeCorrect` - the type invariant: the channel never holds more than its
  capacity, and whoever holds the mutex of `jl` has a line to write.
* `SnapshotsOnly` - `StatsAreSnapshots`. A line is taken in one step and printed in
  another, with any number of ASDUs counted in between, so the invariant
  (`Snapshots`) says it of the lines the ticker and the signal goroutine have in
  hand too, and that `stats` is a snapshot whenever main is not inside `count`.
* `EventsInOrder` - `ReportedInOrder`. An event is in one of three places: on
  stdout, in the writer's hand, in the channel. `InOrder` gives each of them a place
  in the sequence of sampled ASDUs, increasing through the three; what the full
  channel drops has no place and disturbs nothing.

### MMS servers

`MmsServersProofs`, for any associations, variables, access paths, lists, page
sizes and requests:

* `GoImplementsStore`, `RsImplementsStore` - each server implements `MmsStore`,
  in which a request is one atomic step. The handlers work item by item, so the
  invariant `ServingInv` has a part `SoFar` that says, for each request under way,
  what the items handled so far have done to the model since the mutex was taken
  (`before`); the step that gives the mutex back is then the step of `MmsStore`,
  and every other step leaves what the others can see alone. That only the
  holder of the mutex is in such a place is `HandlerOk`.
* `TypesKept` - the type invariant `TypeOK`, with mutual exclusion in it.
* `WalksComplete` - `WalkComplete`. The invariant `Walks` says that a walk has
  seen every standing name up to its cursor; a name that has gone makes a server
  start from the beginning, which sees more, never less.

The same module about `MmsFiles`, for any associations, files, plans of requests and chunk size,
and any number of timeouts, failures and lost associations:

* `WholeFiles` - `FilesWhole`. The invariant `FilesInv` has five parts besides the types.
  * `CallsOK`, per association, is about the calls of ObtainFile. That a job takes
    only the answer to its own call is not enough: what matters is that the answer
    to a FileRead continues what the job has. That needs the order of calls and
    answers (invoke ids grow, answers come in the order of the calls), that no
    two jobs read through one frsmID, also not one whose FileOpen was
    answered and not yet taken (`FreshUnread`), and that the client's position in
    the file is where the job's data ends (`FitsAsk`, `FitsRead`). After a timeout
    the job closes the file, so a late answer meets no job that still reads.
  * `FetchedOK` - a job that reads has a beginning of the file; one that has finished
    without an error has all of it.
  * `StoredOK` - every inode is whole, or empty with exactly one job about to write it,
    or torn; the last two only in Go.
  * `KeptOK` - an open file, unless it was written to, still has the bytes it was
    opened with, its position is as far as what was read, and what was read is the
    beginning of what was to be read.
  * `ToldOK` - the answers given.

  The steps of the calls are proved for one association and its own queues
  (`SendCalls`, `AskCalls`, `AnswerCalls`, `PopCalls`, `LessCalls`, `LostCalls`), those of
  the store for an inode (`InsertStored`, `TruncateStored`, `WriteStored`) and for an
  open file (`OpenedKept`, `AdvancedKept`, `DisturbedKept`); one lemma for each
  action of the servers and the clients puts them together.

### The C programs over MMS

`MmsStationProofs`, for any fixtures, any writes of other clients, any number of
starts, reports and disturbances, and either kind of server. The theorems are about
`MmsSpec`: every step of `MCLibiec61850` with this station is a step of `MmsNext` or
leaves its variables alone. (`MCLibiec61850` itself reaches recursive operators in
`TypedValues`.)

* `VariablesKept` - `StoreKept`, under `ArraysComplete`: an array that announces a
  "count" has that many values. `fixture.c` announces the count and stores the values it
  finds without comparing them, so a fixture that breaks this gives a variable whose value does not
  have its own type. Every variable that is loaded has a value that fits its
  specification (`VariableFits`), and every way of writing, whole, an element, a
  component, a range or a list, keeps that (`KeptAll`).
* `RunsStartFresh` - `RunsApart`: no directory with the number of a later run exists, as
  runs are numbered upwards (`DirectoryInv`).
* `LinesTellTruth` - `CheckedLinesTell`. The client does not look at what it
  receives; it takes the next answer that is not one to a call that timed out. That
  this is the right one is a count (`CountInv`): the answers under way and the requests
  not yet served are the calls that timed out and the one that waits. With it the
  last request, or when there is none the last answer, belongs to the call being made
  (`MatchInv`), the lost flag is set only after the connection is gone (`LostInv`), and
  each kind of call is only given answers of its kind (`RightAnswer`), from which its
  line is right.
* `NoLineTorn` - `WholeLines`. The scripts print with the lock only where reports can
  come, so the invariant is about places: before the write of the report trigger
  there are no reports (`EarlyInv`); after the read that follows it, whose answer comes behind
  every report, there are none any more (`LateInv`), unless a call timed out and
  the answer is an older one.

### The C programs over ACSI

`IedStationProofs`, about `IedSpec`, for any cast of controllers, clients and reporters,
any directory of the server and any number of disturbances. The assumptions
(`IedAssumption`): a server has its model in one logical device, and a controller is told
one of its control objects. A step is described once for each program: it is
one of its own, the server answers it or sends it a report, it loses its association, or
nothing of it changes (`IedMoves`). Under everything lies `BaseInv`, the count of
answers known from the mms-client, here with reports between them (`WireInv`), and that the
block belongs to a program with an association (`OwnerInv`).

* `SemaphoresAlive` - `SemaphoreAlive`. The server gives the block up when it grants
  disable-rcb, and from then on sends no report; so the answer is the last PDU of its
  queue (`SemGone`), and when the call returns the queue is empty, no callback is
  under way, and none begins (`SemDone`). It needs that no other enable-rcb of the
  reporter is still on its way (`SemAsk`).
* `ExitCodesTell` - `ExitTells`. `Placed` says where ied-client is in its
  script; the answer to come tells what the server's data will be when it is taken
  (`ClientTold`): once Mod was written it stays 5, as nobody writes
  anything else to it (`ModStays`), so the read of the data set shows it. `ClientCode`
  ties the flag `failed` to the lines, and `ClientFine` says that undisturbed the flag
  stays down, which needs that `resolve_interop_ld` finds the model (`Resolves`).

### Only model-checked

* Every liveness property, and so the fairness part of `ContractSpec`: the
  provers do not reason about fairness.
* `ConversionsKeep`: the conversions of the C typed values are long divisions, bit
  fields and rounding with fixed moduli, arithmetic in which the provers' SMT
  solver has no decision procedure; TLC computes them.
* `LinesShowServer` and `ReportsInTime` of the C mms-client. What a read must show
  depends on every write before it in the script, and the two waiting rounds on the pace of
  the reports: an invariant would have a case for each place in the 80 calls,
  which is what TLC enumerates.
* `ControllerObeyed` and `OwnReportShown` of the C IED programs: what two rivals, or a
  server with its reports, do to one object at every place of both scripts.

## 6. What the models show against the documents

Four disagreements have a run of their own, and `findings` in `PROJECT.json`
quotes the document:

* the C goose-subscriber does not look at its deadlines while frames keep
  coming (`goose_subscriber.c:215`), so another stream's lapse goes unreported;
* the Go sv-subscriber may exit with 1 on a signal (`main.go:190`);
* the Go sv-subscriber's receive loop waits for stdout (`main.go:255`);
* the C mms-client prints a read as ok in Phase 1A and Step 5 although the server
  refused the item (`mms_client.c:425`); its other reads go through
  `check_read_val`.

Others are kept as the condition of a property, named so that it can be seen:

* a full table of the C goose-subscriber means a stream that is never reported
  timed out (`goose_subscriber.c:73`; `LapseReported` leaves it out); the C
  sv-subscriber does not count such a stream (`sv_subscriber.c:122`);
* the Go goose-subscriber may print a `timeout` between the supervision of a
  frame and its `goose` line (`main.go:176`; `OkBeforeGoose` is a property of C
  and Rust only);
* the C schedule doubles modulo 2^32 and the Rust one saturates; they agree
  while MaxTime is at most 2^31 ms;
* the C goose-publisher announces and counts frames that the socket refuses, as what
  `GoosePublisher_publish` returns is about the encoding only, and the result of
  `Ethernet_sendPacket` is not looked at (`goose_publisher.c:116`, `:113`), although
  `docs/goose.md:65` promises an event "per frame put on the wire" and an error for "a
  send failure" (`EventPerFrame` asks for the frame only in Rust);
* the C goose-publisher obeys lines that came in one read with a `stop`
  (`goose_publisher.c:294`; `TakesLine` in `LinesInTurn`);
* the C programs accept any `binary-time` and `utc-time` (`docs/goose.md:137`), also those
  the type cannot hold, before 1984, beyond 16 bits of days, beyond 32 bits of seconds; they
  come out as another time (`goose_common.c:171`; `Holds` in `ConversionsKeep`);
* `file_read` of the C mms-client reads on as long as the server says moreFollows, with or
  without data, and `file_directory` gives up only at a repeated last name, so a server
  can keep it for ever (`mms_client_services.c:756`, `:699`; `Fed` in `ProgramsEnd`);
* the C and Rust sv-publishers count and announce refused frames
  (`sv_publisher.c:187`, `sv_publisher.rs:171`; `EventsTrueIfLearnt`);
* the C sv-publisher starts its schedule again when it is more than a second
  late (`sv_publisher.c:387`);
* a smpCnt above the fixture's wrap is counted differently in the three
  languages (`sv_subscriber.c:153`). The publishers send one when `--frequency` or
  `--smp-rate` moves their wrap away from the fixture's; the link of `SvLink` wraps where
  the subscribers that know the wrap expect it;
* the MMS servers find the errors of DefineNamedVariableList in different
  orders, restart a paged list from its beginning when the name to continue
  after is gone, and a Delete with a name that cannot be decoded is refused
  after the lists before it were deleted;
* ObtainFile of the Go mms-server writes into the file it replaces, so a client
  that has it open may read a mixture, two ObtainFile to one name may leave one,
  and a failed write leaves a part (`files.go:335`; `FilesWhole` leaves these
  out with `disturbed` and `torn`); the Rust server has none of this;
* the Rust mms-server drops the requests a client sends while its ObtainFile is
  under way (`mms_server.rs:637`; `AllAnswered` asks such a client to wait);
* a write to a range of elements does not pass `write_handler` of the C
  mms-server, so it reaches arrays that are not writable (`StoreKept` leaves
  arrays and structures out of "keeps its value");
* after a call that timed out the C mms-client may print `conclude` inside a
  report's line (`WholeLines`);
* the C ied-controller and ied-reporter address `InteropLD`, while the C ied-server's
  logical device is `InteropIEDInteropLD`: together they get nothing but
  failures. The programs succeed with a server that lists `InteropLD`
  (`ControllerObeyed`, `OwnReportShown`); ied-client resolves the name;
* ied-reporter takes the initial value to be true unless told otherwise, and
  the C ied-server starts with false: the write then changes nothing and no report comes
  (`OwnReportShown` asks for the right initial value);
* a report that arrives between the two halves of `emit_report`, or after a
  failed `disable-rcb`, is the reporter's unsynchronised window (`OwnReportShown` speaks of a
  single report, `SemaphoreAlive` of a successful disable);
* `--ctlval` is documented as `true|false` (`docs/contract.md:103`), the C
  ied-controller reads it with `atoi`; the model has its values 0 and 1.

## 7. Not modelled

* The protocol stacks: external.
* JSON text, BER, Go and Rust typed values, GeneralizedTime: pure functions over
  bytes; a decoding failure is a request or a frame of its own kind. The C
  typed values are in `TypedValues`.
* The Go goose-publisher: its retransmission loop is in the external library.
* iec61850bean (Java): only IED commands, with their state in the library.
* The Go and Rust mms-clients and IED programs: the sequences of the C ones over
  other libraries; each has its own order and error handling, so the modules
  for C do not stand for them.
* FileDirectory and ReadJournal of the Go and Rust mms-servers, which change
  nothing, and the reading of their fixtures (that of the C server is in
  `MmsFixtureC`).
* Fixture validation and shell scripts: no state.

## 8. Plan

1. Done: GOOSE supervision and publishing, SV counting, publishing and
   receiving, the MMS variable, list and file services of the Go and Rust
   servers, all the C programs; proofs about the GOOSE and SV programs, the MMS
   variable, list and file services and all the C programs over MMS.
2. The journals and FileDirectory of the Go and Rust servers beside `mem_get_entries` of
   `MmsServerC`.
3. The Go and Rust clients on `MmsAssociation` and `IedServerC`.
4. Proofs of `ControllerObeyed` and `OwnReportShown` of `IedStationC`, and of
   `LinesShowServer` and `ReportsInTime` of `MmsStationC` with one case per stretch of the script.
