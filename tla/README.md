# Verification of full-js

TLA+ models of the asynchronous core of this repository: the system-call pool
that runs blocking calls on machine-code threads and the ring of blocks it grew
out of, the queue of macro tasks, the event loop and its timers, the epoll
sockets under `dgram`, the inotify watcher, `fs.watchFile`, the asynchronous
functions and read streams of `fs`, and how the three runtimes hand numbers and
addresses to the kernel. TLC checks the models on small instances; TLAPS proves
the safety properties of each of these parts for every value of the constants.

Paths below are relative to the repository's root (the `source` paths of
`PROJECT.json` have `src/` in front). `PROJECT.json` says for every definition
of the models which lines it stands for.

## 1. The system

full-js is Node.js written in JavaScript on top of one primitive, `syscall`. The
runtime (Duktape or V8) gives JavaScript system calls, raw memory and a way to
execute machine code; everything else is here.

| component | code | state it keeps | operations |
|---|---|---|---|
| asyscall pool | `full-js/src/libasyscall` | linked list of 72-byte blocks shared with threads; `curr`, `next`, used queue; poll closures | `build`, `exec`, `exec64`, `pollBlock`, `recycleBlock`, `stop`; thread: `func_thread` |
| macro-task queue | `full-js/src/lib/eloop.ts`, `EventQueue` | doubly linked list, one deep pointer per class of delays, active batch | `insert`, `sliceActiveQueue`/`cycle`, `pop`, `cancel`, `msNextTask` |
| event loop, timers | `eloop.ts`, `EventLoop`; `timers.ts`; `boot.js` | ref and unref queue, microtask queue, `poll.refs` | `start`, `insert`, `insertMicrotask`, `setTimeout`, `setInterval`, `setImmediate`, `setIOPoll`, `setMicroTask`, `clearTimeout`, `clearInterval`, `clearImmediate`, `clearIOPoll` |
| epoll sockets | `full-js/src/libaio/epoll.ts` | `socks` by descriptor, `refs`, event buffer; `fd`, `reffed` of each socket | `createUdpSocket`, `start`, `bind`, `send`, `update`, `wait`, `stop` |
| dgram | `full-js/src/lib/dgram.ts` | `bindState` | `bind`, `send`, `close`, options |
| inotify watcher | `full-js/src/libaio/inotify.ts` | `wd`, `wdr`, `wdCount`, timer | `start`, `poll`, `addPath`, `removePath`, `stop` |
| fs, asynchronous | `full-js/src/lib/fs.ts` | descriptors opened on the way | `open`, `close`, `read`, `readFile`, `readdir`, `writeFile`, `appendFile`, ... on `asyscall` |
| fs.watchFile | `fs.ts`, `StatWatcher` | `last`, `interval`, map of watchers | `start`, `loop`, `stop`, `unwatchFile` |
| fs streams | `fs.ts` | `pos`, `bytesRead`, `destroyed`, pool | `open`, `_read`, `_write`, `destroy`, `close` |
| fs, synchronous | `fs.ts` | none beyond a call | `*Sync` |
| ring pool (older) | `asyscall/index.ts` | fixed ring of blocks with ids | `exec`, `stop`, thread code |
| libjs | `full-js/src/libjs` | none | one function per system call |
| typebase, libmem | `full-js/src/libjs/typebase.ts`, `libmem` | none: packing of bytes | `pack`, `unpack`, `read*`, `write*` |
| StaticBuffer | `full-js/src/lib/static-*.js` | executable memory | `alloc`, `slice`, `call` |
| strace | `full-js/src/strace` | none | printing |
| Node.js library | `full-js/src/lib/_stream_*.js`, `events.js`, ... | taken over from Node.js | |
| runtimes | `full-js/runtime`, `libsys` | none of their own | `syscall`, `syscall64`, `getAddress`, `call`, `frame` |
| code generation, engines | `elf`, `jsc`, `libjit`; `duktape` | generators; third-party C | |

How they interact. `boot.js` makes the loop, inserts a task that runs the
program and calls `start()`. Everything the program does afterwards happens in a
callback of the loop. `fs` and others call `process.asyscall`, which is `exec` of
the pool: it writes a block that threads take without any lock of the operating
system, and registers a closure with `setIOPoll` that looks at the block once per
turn of the loop. `dgram` sockets live in `process.loop.poll`; the loop waits in
`Poll.wait`, which calls the handlers of sockets from inside, and which sets a
timer to be called again. `fs.watch` is a chain of timers that reads an inotify
descriptor; `fs.watchFile` is an interval whose every turn sends a `stat` to the
pool; `readFile` and the streams are chains of pool calls, each made in the
callback of the one before. Every argument of every call passes the conversions
of the runtime (calls made at once) or of `writeArg` (calls of the pool).

What is hard here:

* **Shared memory.** The pool's threads and JavaScript share blocks with one
  compare-and-exchange per block and otherwise plain stores whose order is all
  that keeps them apart (`index.ts:176-225`, `compiler.ts:112-160`).
* **Linked structures with shortcuts.** `EventQueue` has a deep pointer for each
  class of delays; insertion, slicing and cancelling each repair them.
* **Merging.** Two queues are sliced apart and merged by time, while callbacks
  insert into both and may queue microtasks.
* **Stale events.** A handler may stop sockets whose events are already in the
  buffer, and create others that get the same descriptors.
* **Reentrancy.** Callbacks call `exec`, `stop`, `bind`, `cancel`, `addPath` again.
* **Late answers.** Between a call of the pool and its callback the program may
  close the descriptor, destroy the stream or stop the watcher the answer is
  for; a number that was closed is given to the next file at once.
* **Partial failure.** Any system call in a chain may fail with a descriptor open.
* **Widths and signs.** A 64-bit address is two signed 32-bit halves on its way.

What makes each component correct:

* pool: a call is executed, its callback is called once with a result of its own
  arguments, in finite time; no thread walks off the list; nobody writes a block
  that another still uses; `stop` lets the threads finish what was issued;
* queue: tasks come out in the order they are due, first come first served, none
  lost, none after it was cancelled;
* loop: no timer early or slept through, microtasks before the next task, batch
  merged in order, stop only when nothing is left, nothing starves;
* sockets: each socket gets its own datagrams in order, none after `stop`, and
  what waits is read; a bound socket keeps the process alive;
* inotify: an event is reported under a path of the file it is about, while a
  path is watched its events are read, and after `stop` nothing is read;
* StatWatcher: listeners are told of changes forward in time and not after `stop`,
  and no interval runs that `unwatchFile` cannot reach;
* fs: callers get the bytes they asked for, in order; every function calls back,
  once; an operation uses its own descriptors only and closes what it opened;
* ring: a callback gets the result of its own call or the time-out, no call
  waits for ever, and a call times out only when the ring came round;
* runtimes: what the program passes is what the kernel reads, what the kernel
  returns is what the program gets, and errors are negative.

## 2. Modules

| module | what it is |
|---|---|
| `AsyscallService` | abstract: issue a call, execute it, answer it once |
| `AsyscallPool` | the pool: JavaScript object and machine-code threads |
| `AsyscallPoolInv` | its inductive invariant `IInv`, in named parts |
| `AsyscallPoolProofs` | theorems about the pool, and about what its calls carry (`NativeCalls`) |
| `TimerQueue` | abstract: a queue of tasks in the order they are due |
| `EventQueue` | the linked list with deep pointers |
| `EventQueueProofs` | theorems about the queue, with the refinement of `TimerQueue` |
| `EventLoop` | the loop and the timers over two `TimerQueue`s |
| `EventLoopProofs` | theorems about the loop |
| `UdpPoll` | `Poll`, `SocketUdp4`/`6` and `dgram.Socket` over a small kernel |
| `UdpPollProofs` | theorems about the sockets |
| `Inotify`, `InotifyProofs` | the watcher under `fs.watch` over a model of inotify(7); theorems |
| `StatWatcher`, `StatWatcherProofs` | `watchFile`, `unwatchFile` and the watcher; theorems |
| `AsyncFiles` | the calls of `fs` in the pool, and the kernel's descriptors |
| `FileOps` | the functions of `fs` that are chains of calls |
| `ReadStream` | `fs.ReadStream` |
| `FileSystem`, `FileSystemProofs` | the functions and the streams together; theorems |
| `AsyscallRing`, `AsyscallRingProofs` | the older pool, a ring of blocks; theorems |
| `NativeCalls` | arguments and results between JavaScript and registers |
| `MC...` | constants, symmetry and values for TLC, where a cfg does not suffice |

Composition: `EventQueue` implements `TimerQueue` (property `KeepsPromise`), and
`EventLoop` is built from two `TimerQueue`s, instantiated with its own variables,
and shown to use the ref queue the way `TimerQueue` allows (`UsesRefQueueRight`).
`AsyscallPool` implements `AsyscallService` (`ServiceSpec`). `EventLoop` has the
socket poll as one phase; `UdpPoll` has what happens inside it. `FileSystem` puts
`FileOps` and `ReadStream` over the one descriptor table and the one set of calls
of `AsyncFiles`, which execute and answer calls in any order, once each, as
`AsyscallService` promises (but for the second execution of finding 1, which is
left out there).

A definition whose name starts with `Mutant` is no part of a model. It is the
definition that follows it with one plausible bug (a dropped guard, a missing
reset, an off-by-one); with it in place of the original, the property named
beside it in `PROJECT.json` fails.

### AsyscallPool

One action per memory access of a thread (`Load`, `Cas`, `Verify`, `Execute`,
`Store`, `MarkDone`, `StoreThreadId`, `Leave`, `Advance`: the instructions of
`func_thread` from `process_block` to `go_to_next_block`), with the registers
`pc`, `r13`, `r14`, `rax` of each thread. The JavaScript thread is cut where the
machine-code threads can tell the difference: `ExecLink` (allocate and link the
third block), `ExecFill` (write arguments), `ExecFree` (`curr[0] = FREE`, register
the poll, move on), `PollDone`/`PollAgain` (the closure of `pollBlock`),
`Recycle` (after the callback), `StopCurr`/`StopNext`.

Abstractions and assumptions:

* An address is the number of a block, 0 the null pointer. `newBlock` allocates
  even when it takes a block off the used queue, so blocks are never used twice
  and call *n* is the one in block *n*.
* Argument values are abstracted to whether slots 6 and 7 still hold arguments
  when the kernel reads them; a result is "right" if they did. `WideCalls` are the
  system calls that read arguments 5 and 6.
* The block memory is written in the program order of x86; each store is visible
  at once. `__DEBUG__` is true in `compiler.ts:34`, so a thread that stops also
  leaves a mark in the block it stops at (`:163-165`), in the place of a call's
  number; no call is in that block, and the mark is left out.
* `exec` is not called after `stop`; every `exec` has a callback; `exec64` differs
  from `exec` only in the encoding of arguments.
* `stop` ends in a `TypeError`, as no `StaticBuffer` has `free`: the program caught
  it ("stopped") or the loop ended with it ("threw").
* Bound: `MaxCalls`.

### EventQueue

`Insert`, `Cycle`, `Pop`, `Cancel` are the methods with all they call; the walks
along `next` and `prev` (`LastDueBy`, `FirstDueAfter`) go through the sequence of
tasks that hangs from a task along a link (`ListAlong`), as far as their condition
holds (`Walk`).
`timeout` is an absolute time of a clock that may also step back, as `Date.now()`
may. The classes of `DELAYS` are a short increasing list that keeps its special
members: immediates, I/O polls, and the last, unbounded class. Tasks are inserted
once and numbered in the order of insertion. `CancelKind` tells cancellations of
tasks apart by where they are: "simple" of a pending task that no deep pointer of
another class names, "pointed" of one that such a pointer names, "batched" of a task
in the batch that is not popped next, "next" of the one that is, and "over" of one
that was executed or cancelled. A run names the kinds it allows (`Cancels`); all that
`cancel` does for them is in `Cancel`.
Bounds: `MaxTask`, `MaxTime`.

### EventLoop

`phase` is the position in `start()`: slicing, popping from both queues, picking
the task that is due first, its callback, microtasks, popping one more, the
decision to stop, sleep or poll, and the handlers inside `Poll.wait`. `Program`
is what a callback may do: schedule (`Schedule`), clear (`Clear`, `ClearCuts`), queue
a microtask, bind a socket. `Handles` are the tasks it may clear.

The queues are `TimerQueue`s, and `cancel` is an operation of those only where
`EventQueue` implements it. `Clear` is a clear of a task that is pending or in the
batch behind the one popped next ("simple" and "batched" above). `ClearCuts` is every
other one, with what it leaves of the queue (`Cuts`): nothing of the batch behind a
head that is cleared; a task taken out that a deep pointer still names ("pointed"),
so that what is inserted next may hang from it; and for a task that was popped, ran or
was cleared before, if none is linked before it, no pending task, or the batch once
more. These set `astray`. The model follows the loop no further than that it may stop
(`StopAstray`): what would run then depends on the links of tasks long over, which are
only in `EventQueue`. The properties say which of them claim nothing any more
(`NothingDropped`, `UsesRefQueueRight`, `StopsWhenIdle`, `EveryRefTaskRuns`).

Time advances by `Tick`, in steps of 1. `Intervals` are
tasks scheduled again when they run: `setInterval`, or an immediate that passes
itself on. An exception in a callback ends the process and is left out. Bounds:
`MaxMicro` (microtasks ever queued), `MaxTime` (no task is scheduled for later), and the
sets of tasks: `RefTask`, `UnrefTask`, `PollTask` (timers that `wait()` sets for
itself). At most one handler is called
per `wait` here; `UdpPoll` has several.

### UdpPoll

`socks`, `refs`, `fd`, `reffed`, `bindState` are the fields of the code. The
kernel, which is external, is a small model of what the code relies on: the
lowest free descriptor is handed out, `close` frees it and drops what was not
read, a datagram is queued for the bound socket, and `epoll_wait` returns at most
`MaxEvents` of the descriptors that have data, level-triggered, in turn. `js` is
the position of the thread: `Wait` fills the event buffer, `NextEvent` looks up
the socket, `Recv`/`RecvFails` are one `recvfrom` each of the loop in `update`,
`OndataReturns` its end. In "idle" and "ondata" the program may create, bind,
stop and send.

* `life` is what a `dgram.Socket` holds; "Error" is what `createUdpSocket` returns
  when `socket`, `fcntl` or `epoll_ctl` failed, in the last two cases with the
  descriptor left open (`CreateLeaks`).
* Which ports are taken is left open: `bind` may fail at any time. A `send` on an
  unbound socket has the kernel bind it, without a reference.
* A datagram is *full* if `recvfrom` fills all `CHUNK` bytes. Descriptor 0 is
  standard input and no socket. `EPOLLERR` is not modelled: an unconnected UDP
  socket does not raise it.
* `armed`: some timer will call `wait`; how many there are is not counted. Until one
  is, `wait` is called by the loop alone, and only when no task is due
  (`eloop.ts:498`). `busy` says that one always is, as when an immediate repeats
  itself; the program may begin or end that at any time (`Busy`), and the loop does
  not wait for the first time while it lasts.
* Bounds: `MaxSockets` (sockets are numbered in the order they are made), `MaxFd`,
  `MaxDatagrams`.

### Inotify

`fd`, `wd`, `wdr`, `wdCount` and `timeout` are the fields. `js` cuts `poll` where
`onevent` is called, since the handler may add and remove paths, stop and start;
`NextTick` is the decision to set another timer. A timer that no field holds any
more still fires: `orphans` counts these, and `Chains` all timers that will go
on. The kernel gives one watch to an inode, numbers watches upwards in each
instance, drops what waits when the descriptor is closed, and queues
`IN_IGNORED` when a watch is removed. `start` called from `onevent` gives `poll`
another buffer to unpack the rest of the events from, of zeros (`Unpacked`). Several paths may lead to one inode. A
path leads to one inode throughout; a deletion ends the watch of the inode
(`Delete`). To clear a timer that has fired is a no-op here and
recorded in `cleared`; what it does to the queue is in `EventQueue`.
Bounds: `MaxWd`, `MaxStarts`, `MaxCount`, `MaxEvents`; `BufEvents` is the
size of the buffer of one `read`.

### StatWatcher

One file name and the watchers made for it one after another. A `stat` is sent,
executed (it finds the version the file has then) and answered, in any order;
`start` and `loop` send them, `unwatchFile` and `stop` come at any time. The code
compares `atime` only, so that a version stands for it. The exception that
`clearInterval(undefined)` throws is kept (`Throws`): it leaves `stop` before
anything was changed. Bounds: `MaxWatchers`, `MaxListeners`, `MaxCalls` (calls of
one watcher in flight), `MaxVersion`.

### AsyncFiles, FileOps, ReadStream, FileSystem

An operation or stream is an actor that has calls in flight. `Execute` is a
thread of the pool together with the kernel, `Callbacks` and `StreamCallbacks` are
the callbacks with all they do. Data is a chunk, that is whose file it is from and
its place there; a file has `Size` chunks and a `read` gives one. Every
operation opens a file of its own, so a chunk of another file shows a stray
descriptor; the program has one descriptor that all `read` calls share. Any call
may fail. `strays`, `disturbed`, `failed`, `early` and `interrupted` record what
the properties make exceptions for. A stream that starts behind its end is refused
(`Create`). `Started` operations and streams are at most `MaxActors`, descriptors
`MaxFd`.

### AsyscallRing

One action per memory access, as in `AsyscallPool`. A call's number stands for
its ID, its arguments and its result, and calls have fewer than six arguments,
because the result is stored in the place of the sixth. `exec` is two actions, the
mark on the next block and the release of the current one. `passed` has the calls
whose block was marked before they were answered, `late` that a block came round
while a thread executed in it. Bound: `MaxCalls`; `Queue` is the size of the ring.

### NativeCalls

A 64-bit word is two halves, of `Half` values each; the code has `Half` = 2^32.
`ToInt` is the runtime's conversion of a number (Duktape clamps, V8 and Node.js wrap), `Lo`, `Hi`
and `Join` are how addresses are split and put together, `SyncArg` is the argument
of a call made at once and `AsyncArg` what `writeArg` leaves in a block of the
pool. An argument that `writeArg` does not write, `null`, is 0, because `newBlock`
allocates every block, and the memory of `mmap` is 0. `Return` takes every result the kernel may give, -`MaxErrno` and up.

## 3. What the runs check

States are distinct states; times are of two workers.

| run | instance | what it shows |
|---|---|---|
| `AsyscallPool` | 2 threads, 3 calls, the last of them wide; 403,000 states, 2 min | no thread meets a null pointer, arguments are written alone, answers right and once, calls taken in order, `stop` drains; every issued call is answered, threads exit after `stop`; the pool implements `AsyscallService` |
| `AsyscallPool_once` | 2 threads, 2 calls | *violated*: two threads execute one call |
| `EventQueue` | 4 tasks, 5 classes, delays -2, -1, 1, 2; 556,000 states, 90 s | the list implements `TimerQueue`; links and pointers consistent; cancelling a task no foreign pointer names, or one in the batch behind the head, is right |
| `EventQueue_cancel_pointed` | 3 tasks | *violated*: later tasks hang from a cancelled one |
| `EventLoop` | an immediate that repeats, a timer that may be cleared, two unref timers, one timer of `wait`, a socket, 2 microtasks; 931,000 states, 3 min | order, times, microtasks; until a clear cuts a queue also stopping, no starvation, nothing dropped, and the ref queue is used as `TimerQueue` allows |
| `UdpPoll` | 3 sockets, 2 descriptors, event buffer of 2, 2 datagrams; 313,000 states, 50 s | own datagrams only, in order, none after `stop`, none left unread once the loop waits; a bound socket counts |
| `Inotify` | 3 paths to 2 files, 2 watches an instance, 2 starts, 2 waiting events; 594,000 states, 40 s | events named after their file, no read of descriptor 0, what waits is read |
| `StatWatcher` | 2 watchers, 2 listeners, 2 calls in flight, 3 versions; 397,000 states, 10 s | intervals reachable, changes forward and not after `stop` |
| `FileSystem` | 2 operations, 1 stream, of which 2 start; files of 2 chunks; 3 descriptors; 313,000 states, 1–2 min | own descriptors, right bytes, nothing leaks, every function calls back, once |
| `AsyscallRing` | 2 threads, 3 blocks, 4 calls; 342,000 states, 2–3 min | results belong to their calls, time-outs are late, nobody waits for ever but behind an overfull block |
| `NativeCalls` | halves of 3 bits (`Half` = 8), 2 error numbers; 41,000 states, 5 s | addresses, ints and results arrive |
| `NativeCalls_v8` | the same | *violated*: on V8 errors are positive |

Most properties state exceptions. They are what the code really does wrong or
leaves open (see the deviations below): the property names the condition under
which it happens and shows that it happens then only.

Why these bounds are enough. *Pool:* a race needs two threads in one block while
JavaScript fills the next; with three calls a thread can be two blocks behind,
`newBlock` meets a used queue that is empty, has one block and has two, and `stop`
is called with calls in every stage. *Queue:* four tasks and delays in the first
four classes put a new task before, between, behind and among equals of others,
with pointers set, unset and shared. *Loop:* one task of each kind, a repeating
one to starve the others, and two unref tasks that time out together; the timer may be
cleared when it is pending, in the batch, popped, running and over; times up to
3 contain a sleep, a late wake-up and a batch of several tasks; two microtasks
show one that queues another. *Sockets:* two descriptors and three sockets make
descriptors be handed out again while their events wait; two datagrams show order
and the read after a full one. *Inotify:* two of the three paths lead to one file,
so that watches are shared, counted twice and ended for both; the second start
gives watch numbers out again; two events with a handler between them that
changes the tables. *StatWatcher:* a second watcher after the first was
unwatched; two calls overtake each other; three versions tell forward from back.
*Files:* two actors suffice for one to meet the descriptor of another, files of
two chunks have a first, a last and a read past the end, and the stream may end
before the file does. *Ring:* four calls go once round the three blocks, the
fourth meets an unanswered first, and two threads are fewer than blocks, as the 4
are fewer than the 100 of the code. *Conversions:* three bits have all cases of
sign and carry between the halves; nothing in the definitions depends on the
width.

Deadlock is not checked where the system may stop: the loop ends, a program that
calls nothing more leaves the pool's threads spinning, watchers are stopped, a
process without bound sockets does not wait. Only `NativeCalls` never stops.

**Findings.** The violated runs state what a comment or the project's own
documentation says and are listed with their sources in `PROJECT.json`:

1. After `lock cmpxchg` a thread does not use the outcome but reads the lock
   again, so the loser of the race executes the call too (`compiler.ts:131`). A
   `write` is then written twice. A wide call can be executed with a result in
   place of its argument 6 and a thread ID in place of argument 5.
2. `cancel` repairs one deep pointer of several; later timers are lost
   (`eloop.ts:296`).
3. On V8 `syscall` and `syscall64` return the error number without its sign, so a
   failed call looks like one that succeeded (`full-v8.cpp:166`).

**Deviations without a run.** The code also does the following. Where a property is
about it, the property makes the exception.

* *Pool.* `recycleBlock` chains the used queue backwards, so blocks are forgotten
  (`libasyscall/index.ts:84`; `UsedKeptUntilLeft` states the intent).
* *Queue.* `cancel` of a task that was popped, ran or was cancelled before, with no
  task linked before it, overwrites `start` and loses the pending tasks
  (`eloop.ts:292`); the process may end with them. `clearTimeout` of a timer that has
  fired is enough. `cancel` of the head of the active batch does not stop it from
  running (`active` is not moved), and unlinks the rest of the batch, which is lost;
  if no task is linked before the head, `start` is overwritten too. These are the
  kinds "over" and "next" of `CancelKind`, and `ClearCuts` in `EventLoop`, where
  `astray` is the exception. `Inotify.stop` and `StatWatcher.stop` can both do the
  first (`cleared`, `broken`).
* *Loop.* Of unref tasks that time out together one can be lost, as `popOne` looks
  only into the ref queue once the loop has no other ref task (`eloop.ts:446`;
  `NoUnrefDropped` states the intent). Nothing in the repository makes unref
  tasks. Microtasks queued by a socket handler wait until after the next macro
  task (`MicrotasksAlwaysFirst`). Every `wait` leaves one more timer behind.
* *Sockets.* A datagram of `CHUNK` bytes or more is followed by a spurious `EAGAIN`
  error (`EagainIsNoError`); nothing decrements `refs`. An immediate that repeats
  itself from before the first `wait` keeps the loop from ever calling it, as `ms` is
  never above 0: no datagram is read as long as that goes on (`busy`;
  `EveryDatagramReadAlways` states what one would expect).
* *Inotify.* A path added twice is counted twice, so polling goes on for ever; of
  two paths to one file the removal of one ends the watch of both; a path added
  right after the last was removed starts a second chain of timers, and `stop`
  ends only one of them.
* *StatWatcher.* A watcher of a file that does not exist never gets an interval,
  and `unwatchFile` then throws and leaves it in the map; overlapping `stat`s
  report changes back in time.
* *fs.* `open` calls back a second time after an error. `appendFile` never calls
  back. `read` at position 0 reads wherever the last read ended, and two reads of
  one descriptor disturb each other. A failed `read` in `readFile` and `readdir`
  and a failed `write` in `appendFile` leave the descriptor open.
* *ReadStream.* Destroyed before its `open` returned, it leaks the descriptor;
  closed with a read under way, or twice while it opens, it reads or closes a
  number that may belong to another file by then.
* *Ring.* "in case queue is overfilled, blocks determine that they time-out by
  their ID" (`asyscall/index.ts:133`) is not so: threads stop at the marked block,
  and nobody ever overwrites its ID (`OverfilledTimesOut`).
* *Conversions.* In calls of the pool the offset of a tuple is ignored, and a negative
  int arrives as a large positive number. V8's `getAddress` ignores its offset.

**Fairness.** *Pool:* the operating system schedules each thread and every system
call returns (`WF` of each `ThreadStep`); JavaScript finishes `exec` and `stop`
once begun, and the loop runs the poll closures (`WF` of `PollDone`, which the
loop's own `EveryRefTaskRuns` supports). Nothing forces `exec` or `stop`. *Ring:*
the same. *Loop:* it runs, callbacks return, time passes. *Sockets:* `WF` of the
one JavaScript thread's loop steps; the program's and the kernel's steps are not
forced. `wait` is one of the loop's steps if a timer calls it (`armed`), or if the loop
itself does, because a socket is bound and no task is due (`refs`, not `busy`); a
program that is `busy` for ever is not forced to stop that. *Inotify:* `WF` of the
steps of `poll`. *Files:* `WF` of the pool and its callbacks together, of which each
makes one step of a finite chain. `StatWatcher` and `NativeCalls` state no liveness.

## 4. What is proved

**The pool**, for any finite set of threads, any number of calls and any choice of
wide calls (`ThreadsAssumption`, `CallsAssumption`, `KindsAssumption`):

| theorem | property |
|---|---|
| `Invariance`, `TypeCorrect` | `IInv`, `TypeOK` |
| `NoNullPointerEver` | no thread walks off the list |
| `LeftBlocksAreUnused` | `left = THREADS` means that no thread can touch the block |
| `ArgumentsNeverShared` | no thread is in a block while it is filled |
| `CallsTakenInOrder` | calls are taken in the order they were made |
| `StopDrainsAlways` | when all threads exited, every issued call was executed |
| `AnswersRightOnce` | callbacks are called at most once, with a right result |
| `DoneStays` | `DONE` is final |
| `PoolImplementsService` | the pool implements `AsyscallService` |

The argument is one inductive invariant, `IInv`. None of the properties is
inductive alone. `ListOK` and `RegistersOK` say that every block up to `curr`
points to its successor and that `r14` is the successor of `r13`; this is where
the *third* block of `exec` is needed: a thread that leaves `curr` reads the link
of `next`. `LocksOK` ties locks to the position of `curr`; `TakenOK` says that a
FREE block has been passed by nobody and a LOCKED one is being executed by some
thread, so that no call is skipped; `CountsOK` equates `left` with the number of
threads beyond the block, which gives `LeftBlocksAreUnused` by counting
(`FiniteSetTheorems`); `DataOK` and `DeliveryOK` follow a result from the kernel
to the callback. The proof has a lemma per action and in it a step per part that
the action can disturb. The last theorem maps `issued`, `runs` and `answered` to
the pool's state and shows each step to be one of the service or a stutter; the
service's limit on executions is the number of threads, because finding 1 makes 1
impossible.

**The queue**, for any number of tasks, any increasing classes of delays, any
delays requested, negative ones included, and any range of the clock, which may
step back at any time (`BoundsAssumption`, `DelaysAssumption`,
`RequestAssumption`):

| theorem | property |
|---|---|
| `Invariance` | `IInv` of `EventQueue` |
| `Structure` | links and deep pointers are consistent (`StructureOK`) |
| `Reachable` | a task that is queued can be reached by the loop (`NothingLost`) |
| `Cancelled` | a cancelled task is never executed |
| `Implements` | the linked list implements `TimerQueue` (`KeepsPromise`) |

Each has the hypothesis `Cancels \subseteq {"simple", "batched"}`, under which
`EventQueue` is also run: nobody cancels a task that the pointer of another class names
(finding 2 shows what happens then), that is the next of the batch, or that is over
(the hazards at `eloop.ts:285` and `:292`). `clearTimeout` does all of this, so these
theorems say what the list does as long as it does not happen. It is the same line
that divides `Clear` from `ClearCuts` in `EventLoop`.

The argument follows the list that no variable holds. `ListsAre` and `HangsOnce`
say that at most one sequence of distinct tasks hangs from a task along a link,
so that `ListAlong` is that sequence, once one is exhibited; nothing is computed
by recursion. `Shape` then says of two sequences, the pending tasks and the batch,
that they hang from `start` and `active` along `next`, that `prev` reads the first
one backwards, and the second down to its head (`Chained`: the head of a batch may be
linked back to a task that was popped), that the first is in order, and that the two
have exactly the queued tasks. An operation changes these sequences by putting a task in, taking one out
or cutting in two (`Put`, `Took`, `Parts`), and for each change there is a lemma of
what happens to the links (`PutLinks`, `TookLinks`, `PartsLinks`), one for the
order and one for what it is as a step of `TimerQueue`. The deep pointers enter in
one place: an insertion, or a slice, may start its walk at any pending task, since in a
list that is in order the walk ends where `DueBy` of `TimerQueue` cuts
(`WalkOn`, `WalkBack`, `DueByIsFront`). What has to be shown of the pointers is
therefore only that they name pending tasks and that with one also those of all
longer delays are set and no less deep (`Pointed`), of which the second half is
needed when a slice unsets a front of them (`SlicePointers`) and when `cancel` puts
the pointer of the next shorter class in place of its own (`CancelPointers`).

**The loop**, for any set of tasks of each kind, any delays and any bounds
(`TasksAssumption`):

| theorem | property |
|---|---|
| `Invariance` | `IInv` of `EventLoop` |
| `NeverEarlyEver` | no task runs before it is due |
| `NothingEverDropped` | what was scheduled with a reference is queued, in the batch, has run or was cleared, unless a clear cuts a queue |
| `MicrotasksAreFirst` | no task starts while a microtask waits |
| `StopsOnlyWhenIdle` | the loop ends with nothing left to do, unless a clear cuts a queue |
| `NeverOversleeps` | the loop does not sleep past a timer, in `nanosleep` or in its `epoll_wait` |
| `BatchesInOrder` | a batch is merged in the order its tasks are due |
| `RefQueueUsedRight` | the loop uses its ref queue as `TimerQueue` allows, until a clear cuts a queue |

`IInv` has two cases. Once a clear has cut a queue (`astray`), it says no more than that
the model follows the loop no further. Until then it is what the rest of this paragraph
is about, for programs that clear tasks wherever `TimerQueue` allows it.
The queues are sequences and a slice cuts off a front; a clear takes out one task, which
keeps the order. What is due is a front
because both queues are in order (`QueuesOK`); `DueByIsFront` is the lemma, and
insertion keeps the order. `PhasesOK` says for each phase of `start()` what of the
batch is left: above all that the batch of the ref queue is empty whenever the
next slice is taken, since a slice overwrites what is left of the one before.
For the batch of the unref queue this cannot be said, which is the loss of unref
tasks under the deviations above. In the last theorem a slice is `Cycle` of `TimerQueue`.

**The sockets**, for any number of sockets, descriptors, events and datagrams
(`NumbersAssumption`):

| theorem | property |
|---|---|
| `SocketInvariance` | `IInv` of `UdpPoll` |
| `TableFindsOpen` | an open descriptor is found in `socks` under its socket |
| `DatagramsInOrder` | each socket gets its own datagrams in order and once |
| `BoundAlwaysCounted` | an open bound socket counts in `refs` |
| `StoppedGetsNothing` | `stop` is final |

`IInv` joins the descriptor table (each open socket owns its descriptor and has
its entry) to the queues (what was given followed by what waits is what was sent).
Needed besides: a new or stopped socket has descriptor 0, only a working socket
has a port, and the socket whose `update` runs exists. Three lemmas about
sequences carry the datagrams (`HeadMoves`, `TailGrows`, `PrefixOfConcat`). The
invariant does not speak of the event buffer: whatever stale descriptors it holds
does no harm, which is what one wants to know.

**Inotify**, for any finite set of paths, any files they lead to and any bounds
(`PathsAssumption`, `NumbersAssumption`):

| theorem | property |
|---|---|
| `Invariance` | `IInv` of `Inotify` |
| `EventsAlwaysNamed` | an event is reported under a path of its file |
| `NoStrayReadEver` | descriptor 0 is read only after two chains overlapped |
| `PollingGoesOn` | while paths are watched, each counted once, a timer will poll |

The invariant has two independent halves. `ChainsInv` is about timers: without an
overlap there is at most one chain, and it is the one `stop` clears. `NamesInv` is
about names: a number of a watch, wherever it is held (kernel, `wd`, `wdr`, an
event that waits, an event in the buffer), stands for one file, because numbers
are not given out twice in an instance; an event in the buffer that is of an
earlier instance is left out, and may be named wrongly.

**fs.watchFile**, for any number of watchers, listeners, calls and versions
(`NumbersAssumption`):

| theorem | property |
|---|---|
| `Invariance` | `IInv` of `StatWatcher` |
| `IntervalsAlwaysReachable` | a running interval belongs to the watcher in the map |
| `ChangesAlwaysRight` | changes go forward, and end with `stop` |

`StartsOK` says that a watcher that waits for its first `stat` has no interval yet,
so that `stop` throws and leaves it in the map: the exception is what the property
rests on. `AnswersOK` says that without an overlap at most one call is in flight
and its version is not older than `last`.

**The ring**, for any number of threads, blocks and calls (`NumbersAssumption`):

| theorem | property |
|---|---|
| `Invariance` | `IInv` of `AsyscallRing` |
| `AnswersAlwaysRight` | a callback gets its own result; time-outs are late |

`HomesOK` says where the last `Queue` calls have their blocks, counted back from
`offset`, and that these blocks still have their IDs, so a call that finds another
ID is at least `Queue` calls old. `FillingOK` and `ResultsOK` say that, as long as
no block came round while a thread executed in it (`late`), no thread executes in
a block that `exec` may fill, and what is DONE has the result of its arguments.
The number of threads plays no part in this; it does in `ThreadsExit`.

**fs**, for any operations, streams and descriptors and files of any size
(`ActorsAssumption`, `NumbersAssumption`, `EndAssumption`):

| theorem | property |
|---|---|
| `Invariance` | `IInv` of `FileSystem` |
| `OwnDescriptorsAlways` | nobody uses another's descriptor, with one exception |
| `NothingLeaksAlways` | what is over owns no descriptor, with three exceptions |
| `AnsweredOnceAlways` | no callback is called twice, but that of `open` |
| `BytesInvariance` | `BytesInv` of `FileSystem` |
| `RightBytesAlways` | callers are given the bytes they asked for, with two exceptions |

`IInv` follows each descriptor from the moment the kernel gives it out. The owner of
one is unique (`TableOK`); it is in the result of an `open` not yet answered, in a
call that uses or closes it, in `fd` of a stream, or known to leak (`Keeps` in
`OperationOK`, `StreamOK`). That alone gives `NothingLeaks`. For `OwnDescriptors`
the converse is needed, that what a call or `fd` names is owned by its actor
(`OwnOperation`, `OwnStream`): it holds until an interrupted stream uses a number
that was given out again, after which anybody's descriptor may be closed under
him, so `OwnOK` claims it only until then. The two sides are preserved by the
kernel in one lemma (`ExecuteStep`), by operations in `AnswerStep` and `BeginStep`
and by streams in `StreamStep`, of which the steps of the code are instances.

`BytesInv` adds the data. A chain of calls is at chunk *n* of its file: the offset
of the descriptor is *n* wherever the next call will read, a result that was read
is chunk *n* and its descriptor is at *n* + 1, and "nothing left" says that *n* is
the end (`ChainOK`). For `readFile` and `readdir` *n* is how much they have
(`ReaderOK`). A stream may have several calls in flight, since it can be closed at
any time, but only one that seeks or reads, while `reading` holds, and `pos` is
ahead of what was pushed by exactly that one (`ReadingOK`); between two reads `fd`
is where the next chunk is (`IdleOK`). It is this, and not only the order of
answers, that a stream rests on, because `_read` counts `pos` up when it asks and
not when it is answered. All of it is claimed while `strays` is empty, and
`strays` only grows, so a step can assume it of the state before. Positions of
`read` need another reason, since all of them share the program's descriptor: one
that no other `read` has met is the only one in flight (`PositionOK`). A stream
starts within its part, because the constructor refuses a start behind the end. TLC
checked `IInv` and `BytesInv` on the run's instance, and `BytesInv` with other
`Size` and `End` (0 and 0, 1 and 0, 3 and 1, 2 and 5), before they were proved.

**The conversions**, for every even number of values of an int above 2, and every
largest errno that is an int (`WidthAssumption`):

| theorem | property |
|---|---|
| `ArgumentsAlwaysArrive` | the register holds what the program passed (`ArgumentsArrive`) |
| `ResultsAlwaysArrive` | the program gets what the kernel returned (`ResultsArrive`) |

Here the properties are inductive as they stand, since each is made true by one
action out of its own argument; the work is arithmetic. `SplitAndJoined` is the
lemma: a word split into two signed halves by `Lo` and `Hi`, and joined with an
offset, is the word plus the offset. Both halves may have come out negative; the
sign of the upper one is a multiple of the whole word, and that of the lower one is
taken off by the mask in `Join` (without which it is false: the mutant). A run has
halves of 3 bits because TLC goes through every number; the theorems are about 32
as well.

**Only model-checked.** All liveness: fairness is beyond the prover. Every
invariant and every action property that a run checks is also proved, and so are
the two refinements.

## 5. Not modelled

`fs` synchronous operations, the rest of the asynchronous ones, `libjs` and
`strace` are single system calls without state. `typebase` and `libmem` pack and
read bytes, which is arithmetic without control; their layouts could be operators
checked against a reference definition. `StaticBuffer` is memory that the pool's
model takes as given. The Node.js library files, Duktape and V8 are third-party:
they are most of the lines of the repository (`duktape.c` alone, which is there
twice, is 173,000 of them), which is why the models stand for a small part of
all lines though they cover the asynchronous core. `elf`, `jsc` and `libjit`
generate files. Older packages (`libaio`, `libjs`, `fslib`) are earlier copies of
what is in `full-js/src`; several packages are READMEs only. `SocketTcp` cannot
run (`connect` calls `poll`, an object), nor can `WriteStream` (`_write` calls a
function `write` that `fs.ts` does not define). `SocketTcp` and `WriteStream`
would be modelled once they run.

Left out of modelled parts: `exec` after `stop` of the pool; what the loop does after a
clear has cut a queue; exceptions thrown by callbacks, which leave `start()`, that
catches none, and end the process: among them that of `appendFile` when its `write`
fails (`fs.ts:379`), where `FileOps` lets the other operations go on; options of
sockets; strings as arguments of pool calls, whose memory may be collected before a thread reads it.

## 6. Plan

Done: the pool, the ring, the loop, the sockets, inotify, `fs.watchFile` and the
asynchronous functions and read streams of `fs`, the queue with its refinement
of `TimerQueue`, and the conversions, all with runs and proofs. Next, in this order:

1. The composition of pool and loop: the closures of `setIOPoll` as tasks of
   `EventLoop`, so that `EveryCallAnswered` follows from the loop's fairness.
2. Accessors of `libmem` and layouts of `typebase` as operators, checked against a
   reference definition over bounded inputs (`% 2^w`).
3. `exec` after `stop` in `AsyscallPool`.
