# TLA+ models of droid-kernal

droid-kernal is a small Android-like stack: two kernel drivers (a log device and
binder with its binderfs), a C++ utility library (reference counting, vectors,
looper, threads), the user-space half of binder, a service manager and a zygote.
This directory holds TLA+ models of its core logic, TLC configurations that check
them on small instances, and TLAPS proofs of what holds for every size.
`PROJECT.json` maps each definition to the lines of `src/` that it models.

Contents: [the system](#the-system) · [the modules](#the-modules) ·
[the runs](#the-runs) · [fairness](#fairness) · [proofs](#proofs) ·
[what the models show about the code](#what-the-models-show-about-the-code) ·
[not modelled](#not-modelled) · [plan](#plan)

## The system

Parts marked * have a module. "Hard" is what tests of that part would hardly reach.

| Part | State | Operations | Hard | What makes it correct |
|---|---|---|---|---|
| RefBase, sp, wp * (`system/core/libutils/RefBase.cpp`, `utils/StrongPointer.h`) | `mStrong`, `mWeak`, `mFlags`, the object, the counter block (`weakref_impl`) | `incStrong`, `decStrong`, `incWeak`, `decWeak`, `attemptIncStrong`, `attemptIncWeak`, the destructors | lock-free counters with a bias, promote against the last release, three places that may delete the counter block | nothing is used after it is freed, nothing leaks, `onFirstRef` is called once, promote fails only for a dead object |
| Vector, SharedBuffer * (`VectorImpl.cpp`, `TypeHelpers.h`) | slots, `mCount`, capacity | `insertAt`, `removeItemsAt`, `clear`, `setCapacity`, `editItemAt` | overlapping moves, capacity boundaries | it holds the sequence it should; every element is destroyed once |
| Looper, timers * (`Looper.cpp`, `Timers.cpp`) | sorted queue of messages, `mSendingMessage`, `mNextMessageUptime`, an eventfd | `sendMessageAtTime`, `wake`, `pollOnce`, `pollAll`, `pollInner` | a send between the computing of a timeout and the sleep, handlers that send, interrupted polls | no wake-up is lost; messages are handled once, in order, not early, and in the end |
| Thread * (`Threads.cpp`) | `mRunning`, `mExitPending`, `mHoldSelf`, `mThread`, `mTid`, `mLock` | `run`, `_threadLoop`, dropping the object | who keeps the object alive, a run while the previous thread ends | no use after destruction, one thread, no self-reference for ever |
| Log driver * (`common/drivers/staging/log/logger.c`) | ring buffer, `w_off`, `head`, per reader `r_off`, `r_all`; a wait queue, a mutex | open, read, write, release | readers going to sleep while a writer wakes, a writer that overtakes a reader, entries that wrap | readers get whole entries, in order, and are woken for each |
| Binder driver * (`common/drivers/staging/binder/binder.c`, `binder_alloc.c`) | processes, their threads and mappings, the context manager's node and its counts, the transaction log | open, mmap, ioctl (version, context manager, write-read), the transaction up to where the source is commented out | a lock-free log, counts under several locks, failures in the middle | counts are exact, one manager, log entries whole |
| binderfs * (`common/drivers/staging/binder/binderfs.c`) | minors, mount options, device counts, directory entries | mount, remount, `BINDER_CTL_ADD`, eviction, kill_super | error paths after a number was taken, parsing in place, limits | no number lost or used twice, names unique, limits kept, options survive a remount |
| libbinder * (`frameworks/native/libs/binder`) | `ProcessState`: the driver's descriptor, the handle table; `IPCThreadState`: the key, per thread `mIn`/`mOut`; `Parcel` buffers and objects | `self` and `initWithDriver`, `getStrongProxyForHandle`, Parcel writes, `transact`, `talkWithDriver` | first calls by several threads, stale table entries, growth of buffers, failures that are ignored, a resend after an error | one key, one state for a thread and one proxy for a handle; the buffer is what was sent, in order; calls return |
| Strings, Unicode * (`system/core/libutils/Unicode.cpp`, `String8.cpp`, `String16.cpp`, `SharedBuffer.cpp`) | none for the conversions; per string the address of a counted buffer | the conversions between UTF-8, 16 and 32, lengths, comparisons, search; making, copying, setting and appending | malformed and truncated texts, units at the edges of a length class, buffers that two strings share, `malloc` and `realloc` that fail | what was measured is what is written, and comes back; a search finds the first occurrence; a string holds what was put into it |
| liblog * (`system/core/liblog/log.cpp`) | the function pointer `write_to_log`, four descriptors | `__droid_log_buf_write`, `write_to_log_init` | lazy initialisation by several threads without a lock, failures in the middle of it | a message reaches the log it is for; each log is open once |
| Zygote * (`frameworks/droid/core/zygote`) | `listenFd`, `connFd` of the server, `connFd` of the client; the forked processes, the pending signal | `startSocket` with its accept loop, `openSocket`, `closeSocket`, `nativeForkSystemServer`, the SIGCHLD handler | a descriptor closed by two, numbers that outlive their files, merged signals, a handler that waits | a descriptor names the file its holder opened; every child is reaped but for merged signals |
| Service manager (`frameworks/native/cmds`) | the map of services | `addService` | | |

Interactions. `Thread`, the looper's handlers and (through `BpBinder`) libbinder live
in RefBase objects and are kept by `sp`/`wp`; the looper keeps its messages in a
`Vector`, and `ProcessState` its handle table. The sockets of the zygote and the logs that
its threads open share one table of descriptors, in which a number that was closed is
given out again. libbinder talks to the binder driver
through `ioctl` and a mapping; which binder devices exist is up to binderfs. liblog and
LogPrinter are the writers and the readers of the log driver.

## The modules

| Module | Models | Extended by |
|---|---|---|
| `RefBase` | the counters, one atomic access per step | `RefBase_proofs` |
| `ObjectLifetime` | abstract: what reference counting promises | instantiated by `RefBase` with a refinement mapping |
| `VectorImpl` | vectors as values, the operations as operators on them | `Vector`, `Looper` |
| `Vector` | a vector under any sequence of operations, beside the sequence it should hold | `MCVector`, `Looper_proofs` |
| `Looper` | senders, the looper thread and its handlers, on `VectorImpl` | `MCLooper`, `Looper_proofs` |
| `Thread` | callers of `run` and the threads it makes | `Libutils_proofs` |
| `Logger` | one log, its writers and readers | `MCLogger`, `Logger_proofs` |
| `BinderDriver` | processes and tasks inside `ioctl` | `MCBinderDriver`, `BinderDriver_proofs` |
| `Binderfs` | mounts that share the minor numbers | `MCBinderfs`, `Binderfs_proofs` |
| `Parcel` | parcels as values, the writes as operators on them | `IPCThreadState` |
| `IPCThreadState` | one process that uses libbinder: `ProcessState`, its proxies, the state of each thread, `transact` | `MCIPCThreadState`, `IPCThreadState_proofs` |
| `Unicode` | every conversion, length, comparison and search as an operator | `Strings` |
| `Strings` | a caller with a text in its hands and strings made from it, on the counted buffers | `MCStrings`, `Libutils_proofs` |
| `Liblog` | threads that log, the first of them opening the devices, on the descriptors of the process | `Zygote` |
| `Zygote` | the sockets' owner, a thread that may close them, children and signals, in a process that logs | `MCZygote`, `Zygote_proofs` |

The `MC` modules give constants their values. A definition that says "Bug:" above it
is not part of any specification: it is the altered form of the definition after it,
kept to show that a property notices such a bug.

All models are sequentially consistent: a step is one atomic access, one critical
section, or code that only one actor can see. That is what the locked instructions of
x86 and the kernel's and pthread's locks give. `RefBase.cpp:55` decrements with
`memory_order_relaxed`; on a weakly ordered machine that needs a release, and the
model does not show it.

### RefBase and ObjectLifetime

`Ptrs` are handles: each is at one time a null, an `sp`, a `wp`, or in the middle of one
of their operations. `pc[p]` is where: "incS.add" is before `fetch_add`, "incS.sub"
before the `fetch_sub(INITIAL_STRONG_VALUE)`, "att.cas1" in the first loop of
`attemptIncStrong`, and so on. `cur[p]` is the local variable with the value last read,
`src[p]` the handle or raw pointer that an operation copies from, which must stay until
it is done. `mStrong`, `mWeak` and `lifetime` are the code's; `objLive` and `implLive` say
what has been deleted; `raw` is the creator's own pointer, before the first `sp` or for
`delete`. `weak_compare_exchange` is one round per step and may fail spuriously.
`ObjectLifetime` knows only who refers to the object, strongly or at all, and when it
may be destroyed; the mapping takes "holds a strong reference" to be "has added to
`mStrong` and not yet subtracted".

### VectorImpl, Vector

A vector is a record: `slots` (value, and whether an object is alive there), `mCount`,
`capacity`, and whether the type is trivial. `grow` and `shrink` are `_grow` and
`_shrink` with both cases each (reallocate or move in place), and `MoveForward` is the
copy loop of `move_forward_type` in closed form; `MoveForwardLoop` is the loop, and the
lemma `Looper_proofs!LoopMoves` proves that both leave the same. `Vector` runs the operations next to `model`, the sequence a vector should hold;
`hit` says that one of the two defective operations was used. The specification is named
`VecSpec`, so that `Looper_proofs` can be about both the vector and the looper's queue.

### Looper

`pc` is the step of the looper thread ("inner": in `pollInner` before the timeout is
computed; "wait": in `epoll_wait`; "event", "timeout", "eintr": it returned, `mLock` not
yet taken; "drain": with `mLock` in the loop at `Done`; "handler": in `handleMessage`).
`call` is the call of `pollOnce` or `pollAll` under way. `spc[s]` is "wake" for a
sender between `mLock` and `wake()`. `signalled` is the eventfd, `now` the clock in
nanoseconds, `NsPerMs` of which make a millisecond; `INT_MAX` and `LLONG_MAX` are
constants so that the limits of the conversions are met by small numbers. `clobbered`
and `overflowed` note that the vector's overlapping move or the −1 of
`toMillisecondTimeoutDelay` happened.

### Thread

One `Thread` object, callers that may hold an `sp` to it, and the threads made for it.
`holders` are the strong references (the callers', a thread's local `strong`, and
`mHoldSelf`); when the last goes, `alive` does (`LetGo`, which takes what `RefBase` shows
for granted). `pc[c]` is a caller's step in `run`, which holds `mLock`; `pc[w]` a
thread's step in `_threadLoop`. A caller runs an object it holds or one fresh from `new`
that nobody holds. `mTid` is stored by the new thread itself, after `run` has returned, and is
never reset, so that between the two it may be that of a thread which has ended. The outcome of a run with `canCallJava`, which reads a variable that
nothing wrote (`Threads.cpp:140`), is chosen freely.

### Logger

The buffer holds units `<<i, k>>`: unit k of the entry of write i. An entry is `HdrLen`
units of header and its payload. A write is one step (it holds the mutex), waking the
readers another; a read is queueing and testing ("start"), the sleep ("sched"), and
taking the mutex again ("take"). "skip" is the loop of `get_next_entry_by_uid`, one round
per step, with the mutex held. A header that a reader has lost is read as any header
with a length of `GarbageLens`. `writes`, `wpos`, `rpos`, `dirty`, `got` and `lost` are
histories: places counted from the first byte ever written, what each reader has read,
and whether its place means nothing any more (it was overtaken or went to a wrong place).

`Mapped` is what `vmalloc` maps for the buffer, which is whole pages: for the 512 KB of
`log_main` just the buffer, for the other three logs a page of 4 KB for a buffer of 1 KB. A
payload there may be longer than the log. Its second part then covers the beginning of its
own entry and goes on behind `log->size` (`Copied`). After `w_off` was moved, and with the mutex
held, the driver copies the payload once more for a message (`logger.c:354`-`360`):
`StrCopied` is whether that succeeds, which it does not when `vzalloc` failed or when the copy,
which does not go round the end of the buffer, leaves what is mapped. In `log_main` that is every
payload that wraps. The writer is then killed ("oops"): the entry is in the log, nobody is
woken, and nobody gets the mutex again.

### BinderDriver

A process opens the device once, maps and unmaps it, and ends. `pc[t]` is the step
of a task in `ioctl`; a command buffer is a sequence of commands, abstracted to what
the driver does with them. The steps of a transaction are the atomic increments
(`binder_last_id`, `log->cur`), the groups of writes to the log entry, and what is done
under `context_mgr_node_lock` and the inner and node locks. `node` is the manager's node.
"oops" is a task killed by a null pointer in the driver for want of a target, "oopsHolding" one
killed at `binder.c:688`, because the test for a failed allocation before it has an empty body;
it keeps a temporary and a strong reference on the node and one on the process. `claims` and `overrun` are
histories of the log; `MaxTransactions` bounds the number of transactions.

### Binderfs

`pc[t]` and `job[t]` are a task making devices: "control" and "next" while it mounts,
"reserve" (under `binderfs_minors_mutex`), "link" (under the directory's lock), "undo" (the
error path). `binderfs_minors` is shared by all mounts; `ida_alloc_max` gives the lowest
free number, up to a limit that is lower outside of the first IPC namespace (`Reserved`).
A remount is one step per option, because the options in use are parsed over where they
are; at a mount nobody sees them half parsed, and `ParsedAll` is what the loop leaves
(`ParsedInTurn` proves it from `AfterOption`, the parsing of one). Every allocation, and the copy of the answer to the user, may fail.

### Parcel, IPCThreadState

A parcel is its words (a word is known by its transaction and its place in it), the size
and the capacity in bytes, and `mError`; a write that needs memory may fail. `pc[t]` is the
step of a thread in `transact`: "self" tests `gHaveTLS` without the lock, "lock" waits for
`gTLSMutex`, "locked" tests again and makes the key, "get" is `pthread_getspecific` and the
constructor, "write" is `writeTransactionData`, "talk" is `talkWithDriver`; "dead" is a
thread that the driver or a null pointer killed, "gone" one that ended. `processes` are the
`ProcessState` objects ever made, by what became of their drivers; `gProcess` is the current
one, and the threads that were first to call under an older one keep it (`mProcess`).
`table` is the handle table of the current one; `proxies` have a life ("dying" is between
the last strong release and the last weak one) and the weak references that lookups
leaked. The driver is taken as `BinderDriver` has it, a whole `ioctl` at a time: it executes
the commands of the buffer in order, kills the thread at one that has no target, and
stores no `write_consumed`. `sent`, `executed` and `made` are histories.

### Unicode, Strings

A text is a sequence of units of the `width` in use and a pointer into it is an index;
masks and shifts are quotients and remainders. The loops over a text are recursive
functions on the index, so that what a sequence cut short makes a loop read behind its
end is modelled too (it reads as the terminator). `utf8_length` takes whether `char` is
signed as a parameter: it is on x86 and is not on ARM. In `Strings` the caller types a
text unit by unit, so that a run goes through all texts, and then works with strings:
`heap` is the list of buffers with their `mRefs`, `mSize` and contents, `mString[s]` the
buffer of a string. Copying a `String8` copies the pointer and does not count, as the
compiler's copy does, there is no destructor, and all empty strings share one buffer
whose count is 1. `value[s]` is what the string should hold and `takers` whether more
than one string ever took a buffer; both are histories.

### Liblog, Zygote

`fdTable` has the file of each descriptor; `open`, `socket` and `accept` give the lowest that
is free or fail, and `close` frees whatever has the number. `pc[t]` is where a thread is in
a log call: "test" asks whether `write_to_log` still points to `write_to_log_init`, "open"
opens the devices one by one (`at[t]` is the next), "check", then "publish" on success or
"close" and "reset" on failure, and "write". `task[t]` is what the thread does around its
log calls: `nativeOpen` and `startSocket` in `Main`, `nativeClose` in another thread, or the
client's calls. The Java part that gets a message is not in the repository; here it forks
or does not. Forking, the one pending SIGCHLD, its delivery to a thread and the handler's
`waitpid` are actions; a second signal while one is pending is lost in it (`merged`), and a
child stopped by a signal raises one as well (`stopped`). A thread inside the handler does
nothing else, and `waitpid` is disabled while there is only a living child. `connected`,
`misused`, `raced` and `broken` are histories: the client is connected, a socket was closed
that its class closes too, two threads opened the logs at once, and one of those failed.

## The runs

Twelve runs. Times are with two workers.

| Run | Bounds | Shows |
|---|---|---|
| `refbase` (269 421 states) | 4 handles, both lifetimes | `NoUseAfterFree`; `CountersExact`: both counters equal the holders at every atomic step, bias included; `Reclaimed`: nothing leaks; `FirstRefOnce`; `ImplementsLifetime`: the refinement of `ObjectLifetime`; `PromoteFailsOnlyWhenDead`; `EventuallyDestroyed` |
| `vector_operations` (38 708) | 2 elements (symmetric), up to 5 of them, capacities 2 and 6 asked for | `HoldsSequence` (contents, sizes, and that each element is alive exactly while it is in) under any sequence of operations, except after the two defects |
| `looper` (247 514) | 2 senders, 3 messages for the times 1 and 3, calls with −1 and 1 ms, 2 ns to the ms, time to 4 | `NoLostWakeup`, `QueueIntact`, `HandledInOrder`, `NoEarlyTimeout`, `EveryMessageHandled` |
| `logger_ring` (2 313 401) | a log shorter than an entry may be: 5 units in a mapping of 6, headers of 2, payloads up to 4, 2 writers, 1 reader, 4 writes | `ReadInOrder`: a reader that kept up has read exactly the entries it may see up to its place, each once and in order; `AtEntry`: its offset is that of the next whole entry, and the log looks empty to it only when it is |
| `logger_wakeups` (72 054) | a log like `log_main`, 5 units and nothing mapped behind, headers of 1, payloads of 1 and 2 of which a reader's buffer holds the first, 1 writer, 2 readers, 2 writes, 1 signal | `NoLostWakeup`: a reader asleep with something to read is about to be woken, unless a writer was killed; `EveryEntryRead`: every entry a reader may see is read by it, but for the five ways the code has to lose one |
| `binder` (2 265 560) | 2 processes of different users with a task each, log of 2, 3 transactions | `RefsExact`: the node's counts and the process's are those of the transactions under way, of those killed while they held some, plus what each one leaks; `ManagerKept`; `LogExact`: an entry marked complete is one transaction's from end to end, and the log holds the last ones |
| `binderfs` (242 228) | 2 mounts in different namespaces, 2 tasks (symmetric), 3 numbers, one default device, 3 names, 3 option lists | `MinorsExact`: numbers taken are those of the devices and of the makings under way, plus those lost on one error path, and counts stay under the limits; `NamesUnique`, `StatsKeptByWhole` |
| `ipc` (442 352) | 2 threads, handles 0 and 1, 2 drivers, `errno` 0 or `EINTR` before a call, transactions of 2 words, 5 units of work | `OneState`, `OneProxy`, `OutIsHistory`, `CallReturns` |
| `thread` (2 839) | 2 callers, 3 threads | `NoUseAfterFree`; `OneThread`: one thread that may be in `threadLoop`; whenever `mLock` is free `mThread` names it, and `mTid` does from its store on; `DestroyedWhenDropped` |
| `strings` (268 218) | all texts of up to 5 bytes over 8, 4 UTF-16 units over 6, 3 code points over 13; 3 strings (symmetric), 4 buffers, up to 4 bytes | `DecodersAgree`: what `utf32_to_utf8` writes every decoder reads back, and it has the measured length if all code points are valid (`utf8_length` with signed characters: for ASCII); `RoundTrip`: UTF-16 to UTF-8 and back loses the unpaired surrogates and nothing else; `ConversionFits`: any bytes, converted into as much room as measured or less, give whole units that do not depend on what lies behind them; `SearchIsFirst`: `strstr16` finds the first occurrence, and the comparisons order as dictionaries do, and call two texts the same only if they are or one goes on with a 0 where the other ends; `StringHolds`: a string whose buffer no other one took holds its value, whatever failed |
| `unicode_utf8_length` | as `strings`, texts of valid code points without 0 | violated: the header's account of `utf8_length` (see below). The text of the trace is the code point 128 |
| `zygote` (2 286 733) | 2 threads, 2 logs, 5 descriptors, 2 children (symmetric) | `DescriptorsHeld`: whoever opened a file finds it under its number, unless a thread failed to open the logs while another was at it or a socket was closed twice; `OneOpenPerLog`; `ZombiesAccounted`: the zombies are those that a handler is about to reap and those whose signals were merged |

Type invariants are no property of a run: `TypeOK` of `RefBase`, `Looper`, `Logger` and `Thread`
is proved with the theorems that rest on it.

Why the bounds are enough for what they are meant to show:

- *refbase*. A race over the end of an object has at most one thread in each of: the last
  `decStrong`, a promote that read the count before it, another that revives a WEAK
  object, and a weak release. Four handles give each an actor; the theorems cover the
  rest.
- *vector*. The minimum capacity is 4, so 5 elements grow a full vector in each way and
  shrink it below half. Elements are only moved, so two are enough to notice an exchange.
- *looper*. Two senders and the handlers are three sources of sends; three messages are
  the fewest for which the queue's removal overlaps. Times 1 and 3 give two messages for
  the same time, one for a later, and a delay over `INT_MAX` − 1. A timeout of 0 is
  left out: `pollInner` then looks at nothing and returns.
- *logger*. With entries of 4 units a buffer of 5 is gone round three times in four writes:
  the second has its header across the end, the third starts behind it, and the fourth
  has its payload across the end; the mapping of 6 holds the copy of that one, and not of one
  that is longer. Entries of 6 cover themselves. The run of the wake-ups has entries of 2 and
  3, of which the second wraps and kills its writer. Three of the logs have the form of the first
  run, `log_main` that of the second; the theorems are about every size.
- *binder*. Three transactions are more than the log holds, so that its entries are
  reused, while finished ones and ones under way are in it.
- *binderfs*. Three numbers are fewer than the two mounts ask for, and the mount of the
  second namespace may not take the last one; `max` is at times less than the names.
- *ipc*. Work counts the `ProcessState`s made, the lookups and the calls together, because
  each of them makes a history longer. Five units let both threads look up and call under
  one `ProcessState`, or one thread call three times (the buffer grows and an allocation
  may fail behind a whole transaction), or a driver be replaced between two calls. The
  programs of the repository use handle 0 and one driver; handle 1 and a second path are
  what the interface offers beyond that, and what the table is for.
- *strings*. The alphabets hold a unit on each side of every place where a conversion
  changes its mind: code points of 1, 2, 3 and 4 bytes at both ends, both kinds of
  surrogates with their neighbours, the first code point that is none; bytes of each
  length class, well placed or not, with lengths that lie. Five bytes are one more than
  the longest sequence, so that one is cut short behind another. Strings are made from a
  few of these texts (`WorkTexts`), because what they are made of does not change what
  happens to the buffers; four buffers are the empty one, two that share, and a new one.
- *zygote*. Two logs are one before and one after another; the other two are opened and
  closed like them. Five descriptors hold standard input, both logs, the listening socket
  and one connection: each further open fails, and failures are allowed at any time. The
  garbage in the client's uninitialised number is that of nobody (3) or of standard input
  (0). Two children are the fewest whose signals merge. The constraint stops where the
  properties no longer promise anything, after a second close or a failing race.
- *thread*. Three threads are three generations of the object; every one starts in the
  same state, so that more would repeat them.

Deadlock is checked for `looper`, `binderfs` and `zygote`. The other
systems may stop: handles are all null and the object gone, the log's writers have
written what they may and a reader sleeps, processes have ended, a thread object is
destroyed, the threads of a process have used up their work, strings the buffers.

## Fairness

- `RefBase!FairSpec`: a thread inside an operation goes on. The operations take no lock,
  and a compare-exchange that fails because another succeeded leaves progress to that
  one. Nothing makes a handle let go, so `EventuallyDestroyed` is about objects that
  nobody refers to any more.
- `Looper!FairSpec`: the looper thread polls again and again, as the looper's test
  program does, time passes, and a sender that has left `mLock` calls `wake`. Sends,
  calls of `wake` and interrupted polls are not fair: they need not happen.
- `Logger!FairSpec`: writers wake who sleeps, readers read again and again as LogPrinter
  does. Steps that need the mutex are strongly fair: the kernel's mutex hands itself to
  waiters, so none of them misses it for ever; and a repeated read does not fail with
  `-EFAULT` every time. Signals, opens and closes are not fair.
- `Thread!LiveSpec`: started threads and callers in `run` are scheduled, and `threadLoop`
  returns. Callers need not drop the object.

- `IPCThreadState!FairSpec`: a thread inside a call goes on, and `pthread_mutex_lock` returns
  when the mutex is free (a key is made once, so that nobody can keep taking it). Nothing
  makes a thread call, exit, look up or drop.

`BinderDriver`, `Binderfs`, `Strings` and `Zygote` have safety properties only. The merged signals
of `Zygote` show why a child need not be reaped in the end, whatever the scheduling.

## Proofs

All theorems are for any finite set of actors and any values of the constants that
satisfy the named assumptions of the modules. 17 500 obligations, by Z3, Zenon and LS4.

| Theorem | Says | Along |
|---|---|---|
| `RefBase_proofs!TypeCorrect`, `CountersAreExact`, `MemorySafety`, `Reclamation`, `FirstRefCalledOnce` | the invariants of run `refbase` | `RefBase!IInv`, which is inductive |
| `RefBase_proofs!ZeroIsFinal` | a STRONG object whose count reached zero is never revived | an action property from `IInv` |
| `RefBase_proofs!PromoteIsFaithful` | promote of a STRONG object fails only when no strong reference is left | the same |
| `RefBase_proofs!Refinement` | `Spec => Lifetime!Spec` | each step is a step of `ObjectLifetime` or a stutter, under `IInv` |
| `Looper_proofs!LooperTypes`, `WakeupsKept` | `TypeOK`, `NoLostWakeup` | `Looper!IInv` |
| `Looper_proofs!TimeoutsAreDue` | `NoEarlyTimeout` | `CInv`: what the looper thread knows of the time it waits for |
| `Looper_proofs!QueueStaysIntact`, `MessagesInOrder` | `QueueIntact`, `HandledInOrder` | `QInv`: the queue against the messages sent and handled |
| `Looper_proofs!VectorHoldsSequence` | `Vector!HoldsSequence` | `VInv`, from one lemma each for `insertAt` and `shrink` |
| `Logger_proofs!LoggerTypes`, `ReadersWoken` | `TypeOK` (so all offsets stay in the log, and no copy leaves what is mapped), `NoLostWakeup` | their conjunction is inductive |
| `Logger_proofs!ReadersAtEntries`, `ReadersReadInOrder` | `AtEntry`, `ReadInOrder` | `RInv`: the log (`LogInv`) and each reader's place in it (`Good`) |
| `BinderDriver_proofs!ManagerStays` | `ManagerKept` | that a manager's user is the one on record |
| `BinderDriver_proofs!RefsAreExact` | `RefsExact` | `RInv`, by counting as in `RefBase_proofs` |
| `BinderDriver_proofs!LogIsExact` | `LogExact` | `LInv`: the window of the last claims of the log |
| `Binderfs_proofs!ParsedInTurn` | `ParsedAll` is what parsing one option after another leaves | first the prefixes of the list, then the whole of it |
| `Binderfs_proofs!NamesAreUnique`, `StatsAreKept` | `NamesUnique`, `StatsKeptByWhole` | the first is inductive with `Phases`; `OInv` |
| `Binderfs_proofs!MinorsAreExact` | `MinorsExact` | `MInv`: `OInv`, `Phases`, `Ledger` and `Tally` |
| `IPCThreadState_proofs!OneStateHolds` | `OneState` | `IInv`: `DriverKept` and `StateKept` |
| `IPCThreadState_proofs!OneProxyLives` | `OneProxy` | `PInv`: `ProxyTypes` and `ProxyKept` |
| `IPCThreadState_proofs!OutKeepsHistory` | `OutIsHistory` | `HInv`: each parcel against what its thread sent |
| `Libutils_proofs!ThreadMemorySafe`, `OneThreadAtATime` | `NoUseAfterFree`, `OneThread` | `Libutils_proofs!IInv`: `Types`, `Kept`, `RunningTold` |
| `Libutils_proofs!StringsHold` | `StringHolds` | `StrInv`: `TextInv` and `Held`; each conversion writes what it measured, and a terminator |
| `Libutils_proofs!ConversionsFit` | `ConversionFits` | what a conversion gives, from the end of the text to its beginning (`ConversionOf`) |
| `Libutils_proofs!SearchFindsFirst` | `SearchIsFirst` | `Searched`, `DifferenceIs` |
| `Libutils_proofs!RoundTrips`, `DecodersDoAgree` | `RoundTrip`, `DecodersAgree` | `Chain`: a text as pieces, and one step of a decoder over a piece (`ChainStep`) |
| `Zygote_proofs!ZombiesAreAccounted`, `HandlerNeverWaits` | `ZombiesAccounted`; while no child was stopped, a thread in the handler finds a zombie | `ChildInv`, by counting |
| `Zygote_proofs!DescriptorsAreHeld` | `DescriptorsHeld` | `DInv` |
| `Zygote_proofs!LogsOpenOnce` | `OneOpenPerLog` | `DInv` and `CInv` |

*RefBase.* `NoUseAfterFree` is not inductive: that nobody uses a deleted object follows
from what the counters are worth. `IInv` adds that both counters are exact
(`CountersExact`); that a handle someone is copying from stays (`SourcesHeld`); that
while the creator has the raw pointer nothing is on its way down (`RawProtects`); what a
promote knows from the values it has read (`PromoteKnows`: a STRONG object seen at zero
is at zero for good); that at most one thread is about to delete (`OneDeleter`); what
each deletion implies (`Lifecycle`); and that `onFirstRef` is owed only by the thread
whose `fetch_add` found the initial value (`FirstRefPending`). Counting is about
cardinalities of sets of handles: the assumption `InitialAboveCount`, that there are
fewer handles than `INITIAL_STRONG_VALUE` (2^28), is what keeps the bias apart from a
count. The lemmas about cardinalities come first in `RefBase_proofs`.

*Looper.* `NoLostWakeup` says: when the looper thread sleeps or is about to and a message
is queued, the eventfd is signalled, or a sender is about to signal it, or the timeout
was computed from a time not later than the first message's. The case that matters is
a send: it wakes only if the message went to the head and no handler is running
(`mSendingMessage`); the proof needs `TypeOK`, which ties `mSendingMessage` to the step of
the looper thread, and `StorageOf`, the shape of the vector, to know what is at the
head after an insertion.

The contents of the queue (`QInv`) are a relation of three histories: messages are numbered
as they are sent (`Numbered`), every queued one is alive, was sent and not handled
(`Queued`), the queue is sorted strictly by time and number (`Sorted`), and nothing else
was sent and not handled (`Everything`). Strict sorting gives that no message is in the
queue twice, and so the cardinality in `QueueIntact` (lemma `Counted`). An insertion keeps it
because the search stops before the first later message and the new one has the largest
number; a removal at the front because, unless `clobbered` becomes true, it moves every
other element down. `NoEarlyTimeout` needs that rounding up reaches the time asked for
(`RoundedUp`), that a shorter wait was computed from a time at which a message is queued
(`NextKnown`: the first message may have become an earlier one since, never a later), and
that a wait which ended by its timeout has reached its deadline (`Timed`). Its assumption
`NoOverflow` is that the clock and an `int` of milliseconds are far from `LLONG_MAX`; without
it the end of a call could be the number that means "no end".

*Vector.* `VInv` says that the slots below `mCount` hold the elements of `model`, alive, and
that nothing behind them is, for a vector not `hit`. Of the two cases of `_grow` and `_shrink`
each (lemmas `Grows`, `Shrinks`) the moves in place are the difficult ones: `CellsKept` says
that a copy into a higher place overwrites nothing it still has to move, and `TakenInRange`
that the copies of an overlapping move come from slots of the vector. The rest is the
arithmetic of the sequences: `SpliceParts`.

That the closed form of a move is the loop of `move_forward_type` (`LoopMoves`), a recursive
function on the rounds done, is a lemma about the operators for a range inside the vector: what the
slots are after each round also has a closed form (`Moved`), and each round makes one into the
next (`OneMoved`; elements that move up and elements that move down lose different ones). So a
function with the loop's equations exists, and the loop, which is one, is that one: there is no
least round in which they differ (`Least`).

*Logger.* A reader is on the queue before it tests, both under the mutex that a write
holds while it moves `w_off`; so a queued reader with something to read has a writer that
has not yet called `wake_up_interruptible`, or was killed before it could.

What readers get is proved along places counted from the first byte ever written.
`LogInv` is about the log alone: the whole entries follow one another up to `wpos`
(`Chained`), so that the end of each is the start of the next or of nothing yet
(`Boundaries`), and a unit of a whole entry is still in the buffer if nothing has been written
a buffer's length behind it (`Kept`; a write changes only places that have different
remainders). `Good(r)` is about a reader that is not `lost`: it is at such a boundary, less
than a buffer behind `wpos`, and `got` has the visible entries before it, in ascending
order. That it reads the length of its own entry follows from `Kept`; that nothing it may
see is skipped, from `Chained`. `LoggerSizes` assumes what holds for all four logs: a header
fits into the log, and a payload into what is mapped. That no copy leaves the mapping is then
arithmetic (`OffsetMapped`, `memcpyTyped`). `Kept` is about entries no longer than the log, for which the
two parts of a copy are a ring (`PlaceInRing`, `CopiedRound`); a longer one leaves every reader
overtaken that has the log open. A killed writer changes nothing of this: its entry is whole, and
after it the log stays as it is.

*BinderDriver.* `RefsExact` is about sums, so the invariant first fixes the shape of the
node (`NodeIs`: one strong and one weak reference from becoming manager, one strong more
for each transaction that has found it) and says that before there is a manager nothing
has found it. Each step then changes one of the sets that are counted by one task; a task killed
after it took its references stays in them. It needs that tasks are finitely many.

`LogExact` is about the last `LogSize` claims. While no task was overtaken by a whole log
(`overrun`), the slots of these claims are all different (lemma `WindowApart`, on
remainders), each is the slot of the task that is filling it or complete, and what is
complete is one transaction's (`LogOrdered`). A claim moves the window on by one: the slot
that leaves it is the one that was taken.

*Binderfs.* `MinorsExact` counts, and counting needs that the things counted are disjoint.
`Ledger` says that each number taken and not lost has one owner, a device, a control
device or a task between `Reserve` and `Link`. `Tally` says for each mount that
`device_count` is the number of its devices and of the tasks making one, and that both stay
under the limit if the mount was never remounted. Both need `Phases`: a task at work keeps its
mount alive, and a mount being filled has one task. `OInv` says what a remount under way
has saved (`StatsKept`) and that only a mounted instance is remounted.

*IPCThreadState.* That a thread gets one `IPCThreadState` follows from two facts that
`OneState` does not say (`StateKept`): `gHaveTLS` is set exactly when one key exists and a
thread that goes for its value has seen it set, and a thread for which a state was made
still has it under that key or has ended. That its driver stays open (`DriverKept`) also
needs that the current `ProcessState` is not closed, because that is the one a thread
takes. `OneProxy` follows from something stronger: because every handle is slot 0, one
`ProcessState` has one live proxy, and while it is the current one its first slot names
that proxy. A lookup makes a new one only if the slot is empty or its proxy is gone, so
never beside a live one.

`OutIsHistory` is kept as a relation of the parcel and the history, one thread at a time
(`HInv`): words are known by numbers that ascend (`Ascending`) and are below those of the
next transaction (`Below`), whatever was lost; while `mError` is clear the parcel is
everything ever sent, and what the driver has executed is closed downwards
(`Closed`). That a write which fits or finds memory stays within the capacity is
arithmetic on the growth by half (`Sized`). Induction over the transactions is by the
least one that is missing.

*Thread.* A thread that may touch the object holds a reference or has one in
`mHoldSelf` (`Kept`). That there is one thread is not inductive; `RunningTold` adds what the
fields say of it in each state: `mRunning` is set from before the thread is made until it
leaves the loop or its creator gives up, both under `mLock`, `mThread` is this thread's once its
creator has written it, which is before `mLock` is free again, and `mTid` once the thread itself
has stored it. Of `mTid` before that nothing is said: it may be that of an ended thread.

*Strings.* The loops of `Unicode.cpp` are recursive functions on an index, and the induction
theorems of the library take an operator. So each is first brought into a form without
recursion. `Recursion` says that a function with the equations exists whenever every step
goes to a place of lower rank, and `RecursionUnique` that two with the same equations are
equal; so the definition, a `CHOOSE` of such a function, is that function (`Measured`,
`Converted`, `ShiftedUpTo`, `JoinedIs` and others, most of them by `LoopExists` and `LoopUnique`
for loops that run to the end of a text). What the function computes is then proved from
the last index to the first: `Downward`, which takes a set for the indices the claim holds at,
and rests on the least number.

With that, `ConversionFits` is `ConversionOf`: in any room a conversion writes the beginning of what it
writes in enough of it, cut before the pair that does not fit (`Cut`), and `Measures` and
`Spelt` give as many units. What lies behind the end is not seen because a sequence that goes
on there makes the measured length −1 (`SameSpelling`); for `utf8_length`, because the terminator
is not 128 to 191 (`AcceptedEnds`, `WalkSame`).

`RoundTrip` and `DecodersAgree` are about encoding followed by decoding. `SixBits` and `EncodedComposes`
say which six bits are in which byte, `Decoded` that each of the decoders reads a
valid code point of them again, whatever follows, and `TenBitsOf` and `SurrogatesOf` the same of
the two units of a pair. What was written is a `Chain`, pieces one behind the other, and a
decoder that stands at the beginning of one of its ends (`Ending`) is after one step at that of
the next (`StepOver`), or stays, if the code point was not valid and left no bytes. One lemma for
each decoder goes along the chain: `ChainConverted`, `ChainWalked`, `ChainLength`, `ChainNarrowed`. For
`RoundTrip` the places of lonely surrogates are those at which the chain has an empty piece
(`KeptIs`). `SearchIsFirst` needs what the loop of `strstr16` has passed (`Searched`), and that a difference of
units decides like the first place where the texts differ (`FirstCases`, `DifferenceIs`).

`StringHolds` says of a string whose buffer it alone took what it holds. That is kept because
whoever else has the buffer makes `takers` 2 (`Held`, for all strings at once), and because
what a step does to the heap touches only its own string's buffer or one that is marked
(`Gives`, `StaysHeld`). Where a string is made of UTF-16, one definition measures the
buffer and another fills it: `NarrowMeasured` and `NarrowEnds` say that they agree.
`AlphabetAssumption` says that the units of a text fit in its width; there is none about the
lengths.

*Zygote.* The counting of zombies needs that the handler is set before there is a child.
For the descriptors: each number in `logFd` is −1 or names its log, unless no thread has
come to that log yet or a failing one has just closed it (`LogsSound`), so that the `close`
of a failing thread hits no socket; while `broken` is false only one thread fails, alone
among those that open (`OneFails`), before the logs are published (`FailsInInit`), and −1 is
seen by the check of whoever put it there (`MissingSeen`). `CInv` adds, for threads that do not race, that a log is open exactly under its number
(`OpenedOnce`).

*Only model-checked.* Liveness (`EventuallyDestroyed`, `EveryMessageHandled`,
`EveryEntryRead`, `DestroyedWhenDropped`, `CallReturns`) and anything with `ENABLED` is outside of
what the proof system does. Every invariant and action property that a run checks is a
theorem, except `Utf8LengthOfValid`, which is false.

## What the models show about the code

One run ends in a violation, because the header says what the code does not do:

- `Unicode.cpp:379`, `393`: `utf8_length` keeps the first byte of a sequence in a `char` and masks it
  with 0x80 and the bits counted, where the other decoders mask with 0xFFFFFF80. Where
  `char` is signed the sign bits stay, the code point is too large, and the result is −1 for
  every text that is not ASCII. `Unicode.h:114` says that it "returns the length of src when
  src is valid UTF-8".

Others are part of the models, and the properties say what holds apart from them:

- `RefBase.cpp:213`: the comment says that a count that is neither 0 nor the initial value
  on this path is negative. It can be positive: two promotes revive a WEAK object at
  once, and `onLastStrongRef` is called while strong references exist.
- `logger.c:354`: for a message that nobody has to see, a writer that has moved `w_off` and holds
  the mutex allocates memory without looking whether it got some, and copies the payload to
  it without going round the end of the buffer. Out of memory, or when in `log_main` a payload
  wraps, the writer is killed; no reader is woken, and whoever needs the mutex waits for ever.
- `logger.c:345`: a payload may be 4 KB and three of the logs have 1 KB: what does not fit is
  written over the beginning of the entry and past `log->size`.
- `logger.c:367`: a write whose payload wraps returns the length of its first part. A
  caller that writes the rest again logs the tail a second time.
- `binderfs.c:270`: a remount that is refused for one of its options returns before it
  restores the statistics mode, which "cannot be changed during a remount" (line 275).
- `VectorImpl.cpp:324`: `_shrink` moves elements down with a loop that runs from the end.
  With more elements to move than the gap is wide, those with a destructor are overwritten
  before they are moved. A looper that takes the first of three queued messages loses the
  second and handles the third twice (`clobbered`). `VectorImpl.cpp:131`: `editItemLocation`
  ignores its index.
- `Timers.cpp:27`: a delay of `INT_MAX` − 1 ms or more becomes −1, and `pollInner` then
  waits without a timeout (`overflowed`).
- `logger.c:327`: the call of `fix_up_readers` is commented out and `head` stays 0. After
  the log has wrapped, a reader that opens it takes the middle of an entry for a header;
  readers that are overtaken lose their place too (`lost`, `dirty`).
- `logger.c:107`: `get_next_entry_by_uid` leaves out the current offset, so a reader confined
  to its own entries goes astray, or loops for ever with the mutex held. `logger.c:218`: a
  reader whose buffer is too small for the next entry never gets past it.
- `binder.c:1260`: no `release`; a manager that ended stays manager. `binder.c:1052`: the
  user is recorded before the allocation that may fail. `binder.c:596`: each transaction
  leaves a strong reference, a process reference and two allocations behind. `binder.c:669`:
  a transaction without a target reads through a null pointer. `binder.c:687`: the test for a
  failed allocation is an empty `if`, and the next line writes through a null pointer, with
  references held on the node and its process. `binder.c:788`: `consumed` is
  not updated.
- `binderfs.c:387`: a number is lost when there is no memory for the name of the control
  device. The control device is counted out when a mount goes and was never counted in.
  `binderfs.c:215`: during a remount the limit is the default. `binderfs.c:542`: the last
  number handed out is outside of the region registered.
- `Threads.cpp:151`: a `run` that fails on an object which only it held destroys the
  object together with the lock it is holding. `Threads.cpp:140`: with `canCallJava`, `run`
  tests a variable that nothing wrote. `Threads.cpp:166`: `mTid` is never reset; after a second
  `run`, `getTid` gives the ended thread's until the new one has stored its own.
- `IPCThreadState.cpp:260`: `mOut` is drained by what the driver says it consumed, and it
  never says so; each call of a thread sends all its earlier transactions again.
  `IPCThreadState.cpp:254`: the test of the `ioctl` is the wrong way round, so that a failure
  counts as success and a success returns the `errno` of some earlier call; if that is
  `EINTR`, the thread repeats the `ioctl` for ever. `IPCThreadState.cpp:324`: the results of
  the two writes are ignored; a command whose transaction found no memory makes the driver
  read past it. `IPCThreadState.cpp:43`: when the key cannot be made, `self()` is null and is
  used.
- `ProcessState.cpp:230`: `editItemAt` is slot 0 for every handle, so that handles share a
  proxy entry. `ProcessState.cpp:243`: a lookup that finds an entry takes a weak reference,
  never returns it and yields null, for ever after; an entry whose proxy has gone names a
  counter block that was freed.
- `String8.cpp:22`: the buffer of the empty string is not acquired, so the first `setTo` of an
  empty string (or `append` to one) frees it for all of them; and a copied `String8`
  shares a buffer that counts one owner, which whoever changes its copy frees or moves.
  `StringHolds` is about buffers that one string took.
- `Unicode.cpp:319`: two texts of which one is the other with a unit 0, and maybe more, behind
  it compare as equal; `Unicode.h:33` says that they are different if their lengths are.
  `SearchIsFirst` leaves these texts out. `Unicode.cpp:209`, `214`, `347`, `352`, `526`, `538`: the conditions of
  `LOGF_ASSERT` are the wrong way round; it only logs.
- `Unicode.cpp:184`: `utf32_to_utf8_length` counts an invalid code point as nothing (and
  `utf32_to_utf8` leaves it out), where `Unicode.h:46` says that −1 is returned.
  `DecodersAgree` claims the length of texts of valid code points only.
- `log.cpp:62`: threads that log for the first time at once each open the devices; the
  descriptors of all but the last are lost. If one of them fails, it closes what the others
  have opened, or numbers that were given to something else meanwhile, and leaves `logFd`
  at −1 for a process that writes directly (`raced`, `broken`).
- `ZygoteSocketServer.cpp:76`: a connection is never closed before the next is accepted.
  When descriptors run out, `accept` fails, `startSocket` closes its sockets and returns, and
  as `listenFd` stays positive `nativeOpen` takes it for open and never starts it again.
  `ZygoteSocketServer.cpp:28`: `nativeClose` closes numbers that `startSocket` will close too,
  after which they may be another thread's (`misused`).
- `ZygoteSocketClient.cpp:67`: `connFd` is not initialised and stays positive when `connect`
  fails and after `closeSocket`; closing again closes whatever has the number.
- `droid_internal_os_ZygoteInit.cpp:15`: one `waitpid` for each signal leaves zombies when
  signals are merged, and a child that is stopped, not ended, holds up the thread that
  gets its signal until some child ends.

## Not modelled

- *SortedVector, KeyedVector*: nothing inserts into one. *LightRefBase*: one `fetch_add`
  and one `fetch_sub`.
- *Looper*: requests for file descriptors (there is no `addFd`), `setForThread`, errors of
  `epoll_wait` other than `EINTR`.
- *Vector*: failing allocations, copy on write (nothing takes a second reference to a buffer).
- *Logger*: several logs, module loading, files that two threads read at once.
- *Binder driver*: everything behind the point where `binder_transaction` is commented out:
  buffers, delivery, replies, deaths. Priorities, statistics, debugfs.
- *Service manager*: the driver delivers nothing to it yet. JNI registration, the media
  server, tests and build files: no state of their own.
- *Strings*: `SharedBuffer::attemptEdit` and `eKeepStorage`, which nothing calls with an effect
  of its own, and a `String16` whose buffer cannot be allocated (it writes to null).
- *liblog*: formatting and the tag filter. *Zygote*: what Java does with a message, the
  sockets' names and what is sent over them.
- *libbinder*: objects in parcels and parcels that others own (nothing in the repository
  makes one), reading parcels, `becomeContextManager`, the settings of `ProcessState`, and
  what is done with replies (the driver sends none; `mIn` stays empty).

## Plan

Done, in this order: `RefBase` with `ObjectLifetime`, their proofs and the refinement;
`VectorImpl` and `Looper`; `Logger`; `BinderDriver`; `Binderfs`; `Thread`; `Parcel` and
`IPCThreadState`; `Unicode` and `Strings`; `Liblog` and `Zygote`; the proofs of `Thread`,
`Zygote`, `RefsExact` and `OneProxy`; those of `LogExact`, of `Binderfs`, of what readers of a
log get, of the parcels of libbinder, of the looper's queue and timeouts, of `Vector`, and of
the conversions and the strings.

Next, models:

1. `IPCThreadState` above `BinderDriver` itself instead of the summary of a whole `ioctl`, with
   an abstract specification of a binder call that the two implement together.
2. `Parcel` as a data structure of its own: positions, objects and their references, owned
   data, beside the contents it should have.
3. The rest of the drivers: `logger_init` and `logger_exit` with their error paths, the
   allocator's pages.
4. Small: the binary search of `SortedVector`, `Looper::prepare`, `becomeContextManager`.

Next, proofs: that every step of `Looper` on its queue is a step of `Vector`, so that the two
proofs share their lemmas on `insertAt` and `shrink`; safety of `Liblog` alone, for processes without sockets.
