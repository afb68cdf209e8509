# UCB in TLA+

UCB ("useful C bits") is a C library: threads and a thread pool, containers, child
processes, files and paths, strings and Unicode, buffers, an argument parser, errors and a
tracker of allocations.  This directory holds TLA+ specifications of those parts: where
their behaviour depends on order (who runs when, what fails when, what one call leaves for
the next), as state machines; where it is an algorithm on a text, as the steps of the
algorithm, compared with a definition of what it should compute.  They are written from the
code in `src/ucb/` and `include/ucb/`; line numbers below are those of the files named.
`PROJECT.json` maps every definition to its lines.

## The system

| Component | State | Operations | What makes it correct |
|---|---|---|---|
| **Thread pool** (`threads/threadpool.c`) | mutex `lock`, conditions `task_notify` and `finished_notify`, `running`, `stop`, `num_running`, the queue `tasks`, the worker threads | `new`, `start`, `add_task`, `wait_all`, `join`, `free`; the worker loop | every accepted task is executed once or discarded; no wakeup is lost; `wait_all` and `join` return, at the right moment; a start that fails leaves nothing behind |
| **Priority queue** (`container/pqueue.c`) | an array of buckets sorted by priority, each a linked list; a mutex if asked for | `push`, `pop`, `peek`, `size`, `empty`, `clear`, `fit` | priority order, FIFO within a priority, atomic calls, no item lost or used after a realloc |
| **Threads** (`threads/thread.c`) | flags, `running`, `status[2]`, the pthread handle | `new`, `start`, the wrapper, `join`, `free` | a thread is joined or detached once, the object is not used after it has been freed, the status is that of the last run |
| **Mutex, condition variable** (`threads/mutex.c`, `cond.c`) | the system's objects; on Windows an owner and a count beside them | lock, try, unlock, wait, signal, broadcast | mutual exclusion; no signal is lost; the bookkeeping is right whoever reads it |
| **Once, thread local storage** (`threads/once.c`, `tls.c`) | a flag; slots, on Windows with a wrapper | call once; get, set, key_free | destructors run once, by the exit of their thread |
| **Allocation tracker** (`memdbg.c`) | per level a list of blocks with counters, a table of recent frees, `s_mutex` | malloc, realloc, free; push, pop, reset | lists, counters and table agree with the blocks that are live, although blocks are freed at other levels and addresses are used again |
| **Process** (`process.c`, `process_unix.c`, `process_win32.c`) | pid or handle, `reaped`, exit code; a status pipe or the marks of handles during spawn | spawn, wait, terminate, free, capture | a handle is a started child and nobody else, no zombie is lost, spawn and capture return, a child has what it was given |
| **File** (`file*.c`) | descriptor, `own`, flags | open, pipe, dup, from_fd, close; read_full, read_buffer, write_full | a descriptor is closed once and by its owner; transfers are whole |
| **Filesystem, directories** (`fs*.c`, `dir*.c`) | the file system, shared with everybody | copy, move, mkdir_p, remove_all, copy_tree | atomic replacement, clean-up after a failure, nothing else touched, tolerance of others' changes |
| **Errors** (`error.c`) | per thread an error and a depth, a handler, a lock | report, throw, copy, clear | every report is told once, whole |
| **Vectors** (`container/vector_generic.c`, the template) | data, size, capacity, ownership | insert, remove, move, fit, sort, search, ... | each element owned once, also after a failed allocation; the search is exact |
| **Buffer, string, C string** (`buffer*.c`, `string.c`, `cstring.c`) | a block, its size and its use | push, resize, transfer; append, insert, copy, adopt, ... | within the block, terminated, all or nothing |
| **Unicode** (`unicode.c`) | the state of a scan | validate, decode, encode, clusters, normalize, case | what the standard says |
| **Path** (`path.c`) | directory, stem, extension, caches | assign, set, append, normalize, parent | the parts make the path, caches are fresh |
| **Environment** (`env.c`, `envmap.c`) | entries | set, append, copy, apply, ... | a map holds what it was told |
| **Argument parser, units** (`argparse.c`, `units/bytes.c`) | options and what was seen of them | parse; help; parse and print sizes | arguments mean what the documentation says |

How they interact: the pool calls the queue, the mutex and the condition variables, and
starts and joins `ucb_thread`s; the queue has a mutex of its own, which the pool does not
use; `ucb_process_capture` calls spawn and wait, reads two pipes with
`ucb_file_read_buffer` and starts a `ucb_thread` to drain one of them; the operations on
trees use the iterator of directories and the copy of a file; strings use the encoder of
Unicode, which writes to a buffer; in debug builds every allocation of the library goes
through the tracker, which takes one global mutex; failures are reported through
`ucb_throw` or a report, whose default handler aborts the program, so that most error paths
are those of a program that has installed a handler of its own.

The hard behaviours are in `PROJECT.json` under "hazards", each at its line: interleavings
(the pool, a spawn with another spawn, a report of leaks with the threads that go on, other
programs in the file system), partial failures (a start that fails after some workers, a
realloc that fails after the old array has been freed, an exec that fails in the child, a
copy that stops halfway), what a long sequence of legal calls leaves (levels of the tracker,
restarts, numbers of descriptors that are used again, caches of a path), and the edges of
the algorithms on text.

## The modules

| Module | Models | Composes / implements | Checked in |
|---|---|---|---|
| `TaskPool` | what a pool promises, without threads | | |
| `ThreadPool` | `threadpool.c` with its lock and conditions | implements `TaskPool` | `PoolSafety`, `PoolLiveness`, `PoolTwoWaiters` |
| `ThreadPoolProofs`, `PQueueProofs`, `MemDbgProofs`, `ProcessProofs`, `CaptureProofs`, `VectorProofs`, `PlatformProofs` | theorems about the modules of these names, the last about `Thread`, `WinMutex`, `Tls`, `Errors`, `FileCopy`, `FileHandle`, `FileIO`, `Redirect` and `WinProcess` within `MCPlatform` | | |
| `PQueueSpec` | what the header of the queue promises | | |
| `PQueue` | `pqueue.c`: array, search, growth, `fit`, failures, mutex | implements `PQueueSpec` | `PQueue` |
| `MemDbg` | `memdbg.c`: lists, counters, levels, the table of frees | | `MemDbg`, `MemDbgPopRace` |
| `Process` | `process_plat_spawn` on POSIX step by step, wait, terminate, free | | `Process`, `ProcessLeakedPipe` |
| `Capture` | `ucb_process_capture`, its drainer, its child | spawn is one step | `Capture` |
| `VectorSpec`, `Vector` | what the header of the generic vector promises, and `vector_generic.c` | implements it | `Vector` |
| `Thread` | `thread.c`: an object started several times | | `Platform` |
| `WinMutex` | `mutex.c` and `cond.c` on Windows: owner and count beside a critical section | | `Platform` |
| `Tls` | `tls.c`: values, destructors, the wrapper of Windows | | `Platform` |
| `Errors` | `error.c`, `error_errno.c`: reports, nested reports, throw and copy | | `Platform` |
| `FileCopy` | `ucb_fs_copy_file` and `ucb_fs_move` of `fs.c`, a system call a step | the move composes the copy | `Platform` |
| `FsTree` | mkdir, mkdir_p, remove, remove_all, copy_tree, the move of a tree, with `dir.c` | the copy of a file is one step | `Platform` |
| `Redirect` | the child of a spawn on POSIX between fork and exec: dup2, close, the status pipe | part of what `Process` takes as one step | `Platform` |
| `FileHandle` | handles and descriptors of `file.c`, `file_unix.c` | | `Platform` |
| `FileIO` | the loops of read_full, write_full, read_buffer | | `Platform` |
| `WinProcess` | inheritance of handles and the life of a child in `process_win32.c` | | `Platform` |
| `Utf8`, `Grapheme`, `Normalize`, `CaseMap` | the algorithms of `unicode.c` | | `Text` |
| `Str`, `CStr` | `string.c`, `cstring.c` | | `Text` |
| `TypedVector` | `vector_template.h`, with the binary search of `algorithm.c` | | `Text` |
| `Path`, `Buffer`, `EnvMap` | `path.c`; `buffer.c`, `buffer_private.c`; `envmap.c`, `env.c` | | `Text` |
| `ArgParse`, `ArgHelp` | the parser and the help texts of `argparse.c` | | `Text` |
| `SizeUnits` | `units/bytes.c` | | `Text` |
| `ProgramSearch` | the search for a program along PATH, and what the child runs | | `Text` |
| `WinArgs` | the command line and the variables of a child in `process_win32.c` | | `Text` |
| `MC...` | values of the constants for TLC | | |

`MCPlatform` and `MCText` put components that share no state side by side: the variable
`part` names the one that a behaviour is of.  Each module is a specification of its own (`Spec`).
`MCText` extends `TypedVector`, whose constants are in `Text.cfg`, and instantiates the others.

### ThreadPool
`pc[t]` is the place a thread has reached.  A critical section is one step: between
`ucb_mutex_lock` (`Acquire`) and the unlock or `ucb_cond_wait` that ends it, nothing the
section touches is visible to a thread without the lock.  Where a function leaves the
lock and takes it again (`reap_partial`, `join`) there are as many locations.  A thread
in `ucb_cond_wait` is one whose `pc` is `w_sleep`, `wait_sleep` or `join_sleep`;
`Move(t, loc, woken)` is t's step together with the threads that it wakes, and
`SpuriousWakeup` may wake any of them at any time.  `fate` is a history variable: what has
become of each task, from which the five sets of `TaskPool` are read.  The queue is the
sequence in which tasks will be popped, with `Insert`, which is what
`PQueue` is shown to implement.  `JoinContract` is the rule of pthreads that two
threads must not join one thread: it is the caller's duty and an assumption here.

### PQueue
The bucket array is the sequence `buckets`, each a priority with the sequence of its items (the linked list);
`alloc_buckets` is its capacity and `array_freed` says that the array has been given back.
`Search` is the code's binary search, `Grown` and `Fit` its reallocs.  `PushGrowFails` is a failing
`ucb_realloc`, which frees the array that it could not enlarge.  With `MT` every call takes the
queue's mutex; a call's steps are enter, lock, work, unlock and return.

### MemDbg
One step is what runs under `s_mutex`, or a call to the heap between two of them, so that
the window between the heap's free and the record of it is there.  Blocks are addresses
that the heap hands out again at once.  `SizeMod` is the width of the counters.  `live`,
`freed`, `most` and `rare` are history: the blocks the caller has, the frees in order, the
greatest number of live blocks, and whether one of the realloc branches named in `Failures`
was taken whose effect is a divergence listed below.  `corrupted` is set by a step that
fails an assert or touches freed memory; nothing happens after it.

### Process, Capture, Redirect, ProgramSearch, WinProcess and WinArgs
The kernel is modelled from how the code uses it: fork copies every open descriptor, exec
closes those that are close-on-exec, a pid is given again once its process has been waited
for.  In `Capture` spawn is one step and the bytes of a stream are counted, not named; a
helper process started by the child may keep the write ends after the child has exited.
In `Redirect` a file is named by the descriptor that the program has for it, and `table` is the
child's table of them; `Opens` are the descriptors a program may have open, among them programs
without standard input or output, so that the status pipe or an opened file gets a number below 3.
`ProgramSearch` has the places at which there is an executable file, and the directories of the
program and of the child.  In `WinProcess` the flag of a handle is read, set, used by CreateProcess and restored in
four steps, between which other threads spawn with handles they may share; `owned` is
what the program has set.  `WinArgs` builds a command line argument by argument and reads
it back as the C runtime of the child does.

### Thread, WinMutex, Tls
The wrapper's writes (status, `status[0]`, `running`, the read of `flags`) are steps of
their own, between which the owner polls, joins, starts again or frees.  `WinMutex` takes
the reads of `owner` outside of the critical section, its writes, and the release apart;
`holds` is what the calls have told each thread.  `Tls` has the values of one key; every call of
the system may fail.  Where the wrapper of Windows is freed and goes on to be used (`UsesFreed`, and a refused `Set`), `corrupted`
ends the behaviour; `refused` is history: FlsSetValue has failed.

### Errors
A report is formatted into the thread's `err` before it is known whether it is nested;
handler, lock, the three lines on stderr, and the way back are steps.  `told` is what was
handled or printed, `due` what should be.

### Files
`FileCopy`: `entry` is what has each of three names: source, destination and temporary
sibling.  A file is its text and its metadata, each whole or partial.  Every call may fail;
`OtherCreates` is another program that creates the destination between two calls; `Crash`
may happen anywhere.
`FsTree`: `fs` maps paths to entries, `stack` holds the calls in progress as the recursion
of the code does.  Links lead to one directory outside of the tree.  `Strangers` are the
entries another program may create, at any moment.
`FileHandle`: `desc` is the table of descriptors, each with what is open, who opened it and
whether it is close-on-exec; the rest of the program opens and closes descriptors as well,
so that a number that was closed too early is soon somebody else's.
`FileIO`: every read and write transfers any part of what was asked for.

### Containers
`Vector`: the first `size` slots are `elems`, the array has `bytes`, and `owned`
tells a vector with `data_clone` and `data_free` from one of plain values.  Items are
what a clone allocates; `value` says which are allocated, `given` which the
caller took with `out_data`.  `diverged` is history: after one of the branches in `Known`
nothing is promised.  `TypedVector` keeps the slots as memmove and realloc leave them and
compares with `want`, what the calls were to leave.  `Buffer` does the same with bytes.

### Text
`Utf8`, `Grapheme`, `Normalize`, `CaseMap`, `ArgParse`, `ArgHelp`, `SizeUnits` and `WinArgs`
take one step for each round of the code's loop; their properties compare with definitions
made otherwise: the table of well-formed sequences, the rules of UAX #29 over the text before
a position, canonical ordering and blocking of UAX #15, the sets of ways to read a command
line, a help text or a size, of which there is one.  Characters are
members of a small set with every combination of properties that the code tells apart.
`Str` has blocks byte by byte, because slices of a string are given to calls that move it; a block that
a failed realloc has released is `Freed`, and `call.excuse` says why a call has not done what it should.
In `EnvMap` every allocation of a call may fail: an entry's `text` is then null or freed, a map's `array` freed or missing,
and `broken` ends a behaviour that uses them.  The maps are those of a handler that survives the report of the failure.
`Path` has characters, because separators and dots are what it is about.

## The runs

| Run | Instance | Shows |
|---|---|---|
| `PoolSafety` | 2 workers, 3 tasks of 2 priorities, an owner who makes every call and a thread that adds; starts may fail | the pool's types and counts; `NobodyStranded` (no worker sleeps over a task, no waiter over nothing, free is alone); `WaitAllSettles` and `FailedStartKeepsTasks`; `TaskPool` is implemented |
| `PoolLiveness` | 2 workers, 2 tasks, one thread in the blocking calls | tasks settle, `wait_all` and `join` return |
| `PoolTwoWaiters` | two threads in `wait_all` | *violated*: one of them is never woken |
| `PQueue` | 2 threads, 4 items of 3 priorities, 1 bucket at first, reallocs may fail | `QueueSound` (the array is well formed, an item is in one place), `PQueueSpec` is implemented |
| `MemDbg` | 2 threads, 3 addresses, 2 levels, a table of 2 frees, counters modulo 4 | `BlocksAccounted` (lists and counters), `LogRight` (the table) |
| `MemDbgPopRace` | another thread runs during the report of a pop | *violated*: freed memory is used |
| `Process` | 2 threads, 2 children, 2 pids | handles, zombies, and that spawn returns if its pipe has not leaked |
| `ProcessLeakedPipe` | the same | *violated*: spawn waits for a program started by another thread |
| `Capture` | pipes of 2 bytes, 4 bytes of output, every step may fail | `CaptureSound` (complete, child reaped, drainer joined); the call returns |
| `Vector` | 2 vectors, 4 items of 2 values, capacity 1 at first and at most 3; clones and reallocs may fail | `MemorySound` (one owner for an item, no access outside the array), `VectorSpec` is implemented |
| `Platform` | one thread object with 4 starts; 3 threads on a mutex of Windows and on a key; 2 threads that report errors, twice each; every copy and move of a file; trees of three levels; 3 descriptors and 3 handles; files of up to 4 bytes; 2 spawns on 2 handles; a child with 7 descriptors | the ten properties of these components, below |
| `Text` | every text, command line, path and sequence of calls within the bounds of `MCText` | the nine properties of these components, below |

`Platform`: `ThreadsReleased` and `StatusIsOfLastStart` of the thread object; `OwnerTold`:
whoever reads the owner of a mutex outside of it learns nothing wrong about itself;
`ValuesDestroyedOnce`; `ErrorsTold`; `CopyIsAtomic`, `CallsComplete`, `MoveLosesNothing` and
`OutsideUntouched`: at every moment the destination of a copy is old or new, a moved file or
tree is whole at one end, a call that says so has done it all, and neither links nor other
programs lead it astray; `FilesWhole`: descriptors and handles are closed once and
inherited as they say, flags are restored after any interleaving of spawns, a child has its streams and no more, and transfers are whole whatever read and write return.

`Text`: `Utf8IsValid`, `ClustersAgree`, `ResultIsNormal`, `CaseMapped`: the algorithms
compute what Unicode defines; `StringsKept`, `TypedVectorsHold`, `PathsAgree`, `ContentsHeld`:
after any sequence of calls the object holds what they say, and a call that fails changes
nothing of it but, for want of memory, the one text that it was to change (of a string, or of a variable in a map),
or the array of a map's entries; what a call on one of them can lose is part of the property; `CommandLinesRight`: arguments, help texts, sizes, and what is given to a child on Windows
are read as they were written; the first program on PATH is run.

Bounds.  Two workers are needed for a signal to go to the wrong one and for a start to
fail after some; a third would add symmetric interleavings (the theorems are about any
number).  Three tasks let one be queued behind two that run, and two priorities let one
overtake.  Four items in a queue that starts with one bucket make the array grow twice and
shrink, and search arrays of one to three buckets.  Two threads are enough for each race
of the tracker, of spawn and of reports, since in each an actor overlaps one other; two pids
for three processes make ids be used again, as do three descriptors for what two parties
open.  In `MemDbg` two addresses are shared by both threads; the third,
by which the table of frees overflows, is used by one thread alone with no other
block live (`ThirdAddress`), and after a failed realloc whose effect is a divergence the run
follows the call until it returns (`UntilReturn`); both are constraints at the end of `MemDbg`, as `UntilUsed` is of `Vector`, which follows a divergence only to the use of the freed array.  A pipe of two bytes is full before the
child's four are written.  Four starts make an object finish, fail to start and be started
again.  Three threads on a mutex: one holds it, one waits for it, one in a wait
is woken.  A vector of capacity 1 grows while it is filled, and with two of them one can be
copied and moved while the other holds items; the typed vectors have three items, two of one key.  A tree of three levels has a directory in a directory,
a file in each and a link beside them.  Texts are as long as the longest context
that the code looks at: four bytes of a character with all of their neighbours, a mark
after two others and a starter, six flags in a row, five characters of a conjunct; the array of the encoder is
`MultiLen` = 3 code points long, so that seven fill it twice; sizes are in a base of 10 or 16 with a limit of 65536.
`Bounds`, `UsedStrings` and `SmallMaps` keep the blocks of strings and the maps small, and leave a string that is broken
alone; of the maps one text or array is lost at a time, and a second map is filled while the environment is as at the start (`Small`); an array
of entries may have to grow at any size; `PathBudget` is how many calls follow on a path.
The bounds of `Platform` are in its `.cfg`: descriptors 0 to 2 for handles, of which three are ever opened
(`HandleFds`, `MaxOpens`), files of up to 4 bytes and buffers of 3 (`MaxSize`, `Capacity`), and for a child of POSIX
descriptors 0 to 6 with the sets of them that its parent has open (`ChildFds`, `Opens`, `Cloexecs`), among which are
those where the standard ones are closed, so that a pipe gets their numbers.
`FileCopy` and `FsTree` need no bound: a call is finite.  `Platform` assumes that close does
not report a late write error (`LateErrors`), and that what others create where mkdir_p
does is a directory (`Newcomers`).

Fairness.  `PoolLiveness`: a thread inside a function of the pool runs on (weak fairness
of its steps), a task returns, and a thread that keeps asking for the mutex gets it in
the end (strong fairness of `Acquire`, as threads come and go); no client has to call
anything, no wakeup has to be spurious, no allocation has to fail.  `Process`: a thread
inside spawn and a forked child before exec run on; programs need never end.  `Capture`: both
threads run on, the child writes what it wants to and exits in the end, as does its helper;
no step has to fail.  The other components are about safety: their calls are finite loops.

`CHECK_DEADLOCK FALSE` is set where all calls may have been made: a pool that has been
freed, items and children that are used up, a call that has returned, an aborted program.

## Divergences

Three are listed as findings, with a run each.  The others are shown by TLC with the
configuration named, its properties replaced by the one given here (`SPECIFICATION FairSpec` and PROPERTY
for a liveness property), and the constants given:

| Property, configuration | What the code does |
|---|---|
| `JoinReturns`, `PoolSafety` with `Ops <- WaiterAndJoiner`, no failing start | `wait_all` and `join` sleep on one condition; the single signal of the last task may wake the one that does not need it (threadpool.c:71) |
| `WaitAllReturns`, `Ops <- StarterAndWaiter` | `wait_all` of another thread during the joins of a failed start sees a running pool and sleeps for ever (threadpool.c:124) |
| `StartTrueMeansRunning`, `Ops <- TwoStarters` | `start` returns true during another thread's failed start, for a pool that then stops (threadpool.c:296) |
| `NoUseAfterFree` with `MT = FALSE`, `MutexReleased`, `PQueue` | a push whose realloc fails leaves a freed array in place and the mutex locked (pqueue.c:109-111) |
| `CountsMatchLists`, `PeakIsReal`, `MemDbg` with `Failures = {}` | freeing a block of a lower level is subtracted from the current one, so that a level's count is not the length of its list (memdbg.c:803); merging levels adds peaks of different moments (676) |
| `NoFalseDoubleFree` with `Failures = {"free"}`, `ListedHasMagic` with `{"keep"}`, `ListedIsAllocated` with `{"zero_keep"}`, `MemDbg` | a realloc that fails records the free after the heap's (memdbg.c:947), registers the block without its magic (972), or, of size 0, registers the freed block (955) |
| `NoPipeDeadlock`, `Capture` | after a failed read nobody empties the pipe, the child blocks, and capture waits for it (process.c:322) |
| `FreeJoinsFirst`, `JoinOrFreeEnds`, `Platform` | a finished thread that is started again without a join: its wrapper may read the object after it is freed, and its handle is lost (thread.c:211, 396) |
| `SlotsValid`, `Platform`; `FreeRunsNone` of `Tls` | a wrapper that FlsSetValue refuses is freed and written to (tls.c:98-104); one that FlsSetValue does not take out of its slot is freed, and the next get, set or exit of the thread uses and frees it again (tls.c:108-110, 50-57); key_free on Windows runs destructors, which tls.h says it does not |
| `HandledStays`, `Platform` | a report made by a handler is formatted over the error that the handler was given (error.c:34; error.h:45-46) |
| `NotCorrupted`, `Vector` with one of `Known` | `moved`: insert into a vector that was moved from doubles a capacity of 0 and writes outside the array (vector_generic.c:235); `fit`: fit of an empty vector frees the array and keeps the pointer (217); `sizes`: copy to a vector with smaller elements compares element counts (118); `insert`, `set`: a clone that fails leaves an item in two slots, or a freed one (248, 365); `realloc`: a reserve that fails keeps the pointer (173) |
| `StaysUsable`, `Text` | the same of typed vectors (vector_template.h:1005-1020, 1060-1072); insert_sorted returns a position although nothing was inserted (1255-1276) |
| `NoClobber` of `FileCopy` | without `UCB_FS_OVERWRITE` a destination that appears after the check is replaced, or removed by the clean-up (fs.c:931, 933, 1067) |
| `MoveLosesNothing`, `Platform` with `LateErrors = TRUE` | what close reports is dropped, and a move between devices removes the source after a copy that is not complete (fs.c:309, 1095) |
| `CallsComplete`, `Platform` with a file at `<<"m", "d">>` among `Newcomers` | mkdir_p succeeds where another program has just put a file (fs.c:439; fs.h:245) |
| `NotIntoItself`, `Platform` | a copy of a tree into itself is refused by name, and not refused through a link (fs.c:223, 959; fs.h:323-325) |
| `OwnsItsOwn`, `Platform` | a close that fails leaves the handle, which owns a closed descriptor and closes it again (file.c:149; file.h:147-159) |
| `StreamsGiven`, `Undisturbed`, `Platform` | with `UCB_PROCESS_INHERIT_HANDLES` a redirection to a handle that is not inheritable is not inherited (process_win32.c:268); of two spawns with one handle the first restores its flag before the other has created its child, and a child that inherits all has what other spawns have marked |
| `FoundIsRun`, `Text` | a relative program is looked for in the program's directory and executed from `cwd`, where it may be another one or none (process_unix.c:194, 251, 265); the comment at 65 says the search is only for a custom environment, and it is always made |
| `StreamsAsAsked`, `Platform` | dup2 for in, out and err in this order, of sources that may be 0, 1 or 2 themselves: with `out` = stderr and `err` = stdout, standard error becomes what standard output has just become (process_unix.c:247, 249; process.h:114-117) |
| `HandleIsStarted`, `Platform` | in a program whose standard descriptors are closed the write end of the status pipe is one of them, a redirection closes it in the child, spawn takes that for a successful exec, and the failure has nowhere to go (process_unix.c:245-250, 269; process.h:171-174) |
| `RedirectedAsAsked` of `Redirect` without `Refused` | a source that is close-on-exec and in its place already, as `/dev/null` is at 0 in a capture of a program without standard input, is closed by exec (process_unix.c:245; process.h:140) |
| `PushReturns`, `Text` | a push to a full buffer that cannot grow aborts; buffer.h:315 says it returns false |
| `NeverExits`, `Text` with `HasVersion = FALSE` | an option of the action VERSION in a parser without a version aborts (argparse.c:1439; argparse.h:14-16) |
| `Terminated`, `RoomIsUsed`, `Text` | append_cp of code points that cannot be encoded leaves a string without its NUL (string.c:565-592; string.h:52-53); fit, reserve, append or insert whose realloc fails leave it with the block that ucb_realloc has freed (string.c:299, 332; memory.c:57-73); reserve returns false if there is room, and an append with it (string.c:312-357; string.h:383-392) |
| `SaysTrue`, `Text` | insert_cp returns true although insert_at has inserted nothing, without memory or because there was room (string.c:716-720; string.h:759) |
| `SeparatorsCollapsed`, `NormalizeKeepsDir`, `Text` | three separators in front of a directory become two (path.c:239-294; path.h:406-407); a path whose style was changed is normalized as one name (path.c:1070-1088; path.h:499) |
| `TrueMeansSet`, `Text` | an append returns true whatever its two appends have done, and set whether or not the entry was pushed; a failed realloc has then freed the variable's text, or the array of all entries (envmap.c:338, 370-374; envmap.h:93, 113; container/impl/vector_ptr.c:83, 111) |
| `FailureKeeps`, `Text` | set and prepend of a variable copy over its text, which ucb_str_copy releases before it allocates: without memory the value is gone and its data null (envmap.c:330, 404; string.c:246-256) |
| `ContentsHeld`, `Text` with `MapFaults = {"again"}` | a map that was in use is taken from the process again and keeps two entries of a name (envmap.c:213-257) |

`ucb_cstr_sprintf` ignores the size of the buffer on POSIX (cstring.c:149-162), which is not modelled: the size is the
caller's to respect.

The passing runs state what holds in spite of these: `BlocksAccounted` and `LogRight` unless
`rare`, `SpawnReturns` unless the pipe has leaked, `CaptureReturns` unless a read has failed,
`ThreadsReleased` unless a handle was overwritten, `MemorySound` until a call has `diverged`,
`TypedVectorsHold` of vectors that are not freed, `CopyIsAtomic` of everything but the file that another program created,
`FilesWhole` of handles until a close has reported an error and of streams unless `Replaced`, `Refused` or `StatusOverwritten`, `CommandLinesRight` of absolute names and children that stay, `StringsKept` except after a call with that `excuse`, `ContentsHeld` except of the text or array that a call without memory has lost,
`ValuesDestroyedOnce` unless FlsSetValue was `refused`, `PathsAgree` except of those paths.

## The proofs

The proof modules are about any number of threads, tasks, vectors, items, addresses, children
and pids, and any values of the other constants that satisfy the assumptions named in the
modules they extend.  Every module states its inductive invariant part by part, and each part
has lemmas of its own, which cite only the other parts that they need.  TLC has checked each
invariant on the run of its component before it was proved.

| Module | Theorems | From |
|---|---|---|
| `ThreadPoolProofs` | types, `RunningCount`, `WorkersMatchState`, `OnePlace`, `NoIdleWorker`, `WaitAllSettles`, `JoinSettles`, `FailedStartKeepsTasks`, `TakesHighestPriority`, `TaskPool` is implemented | the assumptions of `ThreadPool`, among them `JoinContract` |
| | `NobodyStranded` | also `OneWaiter` |
| `PQueueProofs` | types, `QueueSound`, the binary search, `PQueueSpec` is implemented | the assumptions of `PQueue` |
| `MemDbgProofs` | `LogRight` | the assumptions of `MemDbg` |
| | `BlocksAccounted` | also `Quiet` |
| `ProcessProofs` | types, `HandleOwnsPid`, `ChildrenAccounted`, `HandleIsStarted`, `CodeIsOwn` | `NoneAssumption` |
| `CaptureProofs` | types, `CaptureSound`, `FailureReported` | `SizesAssumption` |
| `VectorProofs` | `MemorySound`, `VectorSpec` is implemented | `CapacityAssumption`, `NullAssumption` of `Vector` |
| `TypedVectorProofs` | `TypedVectorsHold`, and `find` for any key | `VectorAssumption` |
| `PlatformProofs` | `StatusIsOfLastStart`, `ThreadsReleased` | `MaxStartsAssumption` |
| | `OwnerTold`, `ValuesDestroyedOnce`, `ErrorsTold` | `NamesAssumption`, `MaxDepthAssumption` |
| | `CopyIsAtomic`, and what `CallsComplete` and `MoveLosesNothing` say of a file | `EntriesAssumption`; also `~LateErrors` |
| | `FilesWhole`: of handles, of transfers, of the streams of a child on POSIX, of spawns on Windows | `HandleAssumption`, `TransferAssumption`, `RedirectAssumption`, `WinAssumption` |

Some theorems have a hypothesis that is not an assumption of the model, because without it
the code does not keep the property, as a run shows.  `OneWaiter`: one client at a time makes
the calls that sleep on `finished_notify` (`PoolTwoWaiters` has two).  `Quiet`: no other thread
calls the tracker while one reports the leaks of a pop (`MemDbgPopRace`).  `~LateErrors`: the file system reports a write
that fails to the write, and not to close, which the code does not ask.  All are met by
instances that `PoolSafety`, `MemDbg` and `Platform` check.

**The pool.**  `LockDiscipline` (the owner of the lock is the one thread whose location is
`Critical`) is inductive by itself and makes the steps of a critical section exclusive.
`WorkersMatchState` is not inductive alone: `JoinFinal` and `ReapFinal` clear `running`
believing the workers joined, so `OneCloser` says that one client at a time is past the
point at which it set `stop`, and that the workers are gone where it believes so.
`RunningCount` follows with the theorems on cardinality, and with it that the size_t never
wraps.  `TaskPlaces` says where each task is; `Retirement` that who frees the pool is alone.
`WakeupsSuffice` is why no wakeup is lost: every `add_task` wakes a sleeper if there is one,
so while any worker sleeps those awake are at least as many as the tasks; a worker that takes
a task reduces both, and one that sleeps has seen an empty queue.  The results on
`wait_all`, `join` and a failed start are properties of steps, proved from the
invariant before the step.  The refinement of `TaskPool` maps `start`, `add_task`, the take,
the end and the discard of a task to the steps of that name and every other step to a stutter.

**The queue.**  What the code computes in loops is a recursive function in `PQueue`:
bisection, the sum of the lengths, the concatenation of the buckets.  `LeastNumber` (a set of numbers that is not
empty has a least one, from the well-foundedness of `<`) takes the place of induction, and `Recursion` shows that such a
function exists.  `Inv` says that the buckets are sorted, filled and within the capacity, that their concatenation `Flat` has every
queued item once, and that an item being pushed is nobody else's.  Every step of
the code then does to `Flat` what `PQueueSpec` does to its queue, the insertion between buckets or at the end of one
being the case that needs the search to be exact.

**The tracker.**  `LogPrefix` says that the table of frees is the newest part of the history.
The lists are there if some sequence of blocks for each level, `s`, is `Represents(s)`:
its `head`, `next` and `prev` are the neighbours in `s`, and every live block is in the
sequence of its level.  Registering puts a block in front, unregistering cuts one out
(`Cut`), a pop puts one list in reverse order on top of another (`Moved`).  `Counted` is about counters that wrap: there are
integers, of which the counters are the remainders, whose sums up to a level are the lengths, although a single one may be negative.

**Processes.**  A pid has one holder because a child keeps it until it is reaped, and only
the thread that has the child reaps it (`OneParent`, `OneHolder`, `ChildStage`); the write end of the
status pipe stays open until exec (`PipeHeld`), which is why a spawn that reads the end of the file has a started child.
In `Capture` a stream that was read without a failure is at its end for good (`ReadToTheEnd`), because the parent's own write
ends are closed before (`ends`), and every failure is kept until the call returns (`FailureKept`).

**Vectors.**  Until a call diverges, every vector is `Sound` (its fields have their types, its
elements fit into the capacity and the capacity into the array, and it holds no item twice), and `OneOwner`
says that an item is allocated if and only if one vector or the caller has it.  A call on one vector
`Replaces` it: the items it gains were nobody's, and those it loses are freed or the caller's.  Lemma `Replaced` draws
both conclusions from that once for all calls: the state is good again, and only the contents of this vector have
changed.  What is left for a call is what it does to the sequence, from what `InsertAt` and `RemoveAt` (the
memmoves) do at every position and to the set of elements.  The insert needs more: an array that is full and has
capacity 0 cannot hold another element, so that the insert diverges ("moved"), which is why the invariant says that it has
no bytes.  Only the move changes two vectors and is proved by itself.  The calls that
diverge are excluded by what the theorems say, not by an assumption: `Known` may name all of them.

**Typed vectors.**  `VectorInv`: what is in the slots in use `Shows` what the calls were to leave, and those elements are
allocated; what is behind them may be anything.  Each operation on the slots has a lemma that says which elements it shows (`InsertedShows`,
`MovedIs`, `SwappedShows`, ...), because memmove and realloc leave old values behind and a call works on the slots, not on the elements.
`Find` is a recursive function of a range: `Recursion` shows that it exists, by the length of the range, and
`SearchFinds` that what it returns is right, since what is in front of the range is greater than the slots it leaves out
(`Falls`: in a sorted vector the comparison with a key falls from slot to slot).  `FindIs` is about any key and both orders,
whereas the run tries four keys; the order of `insert_sorted` follows from it.

**Platform.**  The theorems are about `MCSpec`, where the other components take steps as well; these leave a component
alone.  *The thread object*: `LastRuns` is what makes the fields without a lock safe: a
wrapper that has not cleared `running` is that of the last start.  *The mutex of Windows*: `owner` and `count` are written
next to the critical section and not with it.  `SectionHeld` says who is inside, those who have just entered or are
about to leave included, and `OwnerHolds` that the owner is one of them or has left to sleep without a successor.
*Thread local storage*: `SlotsOwned`: a value has one owner and has not been destroyed while it has one, a slot holds its
owner's value or nothing, and on Windows a value in a slot has a live wrapper, whatever fails; a freed wrapper comes from a
refused FlsSetValue only, and ends the behaviour when it is used.  *Errors*: `LockHeld` and `LinesWhole` (the length of
the output modulo 3 tells what the one printing thread does next) keep the lines together; `BufferDue` says that between
a report and its telling the code is in the thread's buffer, and `EndsThere` that a thread which told of an error that ends
the process has not gone on from there.  *A copy*: `QueriesHold` says that what the call has asked about source and
destination is still so when it is used, although another program may have created the destination since: the code writes
over the name itself only if it was free.  `EntriesAt` says what each name has at every point of the call.
*A handle of a file*: `HandlesKnown` says that no two handles have one descriptor and that a handle owns one exactly if the
library has opened it or was given it, which is why closing it is safe although its number is used again at once.
`CallKnown` goes through the call in progress: each descriptor that it has opened `Waits` (is open, the library's, and no
handle's) until its handle is made, so that a failure at any point may close all of them; `Accounted` that every descriptor of the
library is a handle's or waits.  After a close that reports an error the handle keeps a closed descriptor, and nothing is claimed.
*Transfers*: `ReadFullKnown`, `ReadBufferKnown` and `WriteKnown` relate the position, the end and the bytes that have been
transferred at each step of the loops; what is written is compared by its positions, so that no recursion is needed.
*The child on POSIX*: `MovedTo` says that after n of the three redirections every other descriptor is what it was at the
fork, so that a source is still itself unless one of them has replaced it; `PipeKnown` that the child has the pipe by which it
tells of a failure unless that was replaced.  *Spawns on Windows*: `MarksKnown` says which flags are a
call's own to take away, and `InheritKnown` that a handle which is inheritable against the program's will has such a call.

Assumptions.  The model of a constant is that of the caller's duty or of the machine: workers are at
least one, priorities are integers (`PrioAssumption`), a queue without a mutex has one thread
(`SingleThreaded`), `Addrs` is finite because memory is (`AddrsAssumption`).  `NoTask`, `None`, `Null` and `Free` are values of no other set.

Only model-checked:
- liveness under fairness, which is out of the prover's reach: `QueuedTaskSettles`, `WaitAllReturns`, `JoinReturns`,
  `SpawnReturns`, `CaptureReturns`;
- of `Platform`: of trees `CallsComplete`, `MoveLosesNothing` and
  `OutsideUntouched`: where a path leads is found by recursion through the links of a tree that changes;
- the other properties of `Text`: those of Unicode, paths and command lines compare an algorithm with a definition made by
  recursion over the text; `StringsKept` and `ContentsHeld` could be proved like `TypedVectorsHold`.

## Not modelled

What `PROJECT.json` lists as `not_modelled`, each with its reason: the Windows back ends of files,
directories and strings (direct system calls that cannot be interleaved in the ways above), tables
and generated code, backtraces, time.  `vector_ptr.c`, `vector_val.c` and `vector/vector_uint.c`
in `container/` are not built (CMake builds `impl/` and `vector_generic.c`).  Of the modelled components the parts named in
their notes: the deadlines of timed waits, searches in strings, paths of Windows and what asks the
system for a path, the layout of the usage line, output for a reader.  Calls that end at once are left out where nothing is
left to go wrong after them: an allocation that fails while the tracker is on ends the program at the assert on its entry (memdbg.c:731, 862-874),
`ucb_pqueue_new` without memory returns no queue.  A wait on a mutex of Windows by a thread that has not locked it is undefined
(`SleepConditionVariableCS`) and not a call that `WinMutex` makes.

## Plan

1. Proofs about `FsTree`, for which lemmas on `Real` (that it is idempotent, and what a change of one entry does to it) come first.
2. Proofs about `Str` and `Buffer`, whose invariants are like that of the typed vectors.
3. Paths of Windows; the usage line; the deadlines of timed waits.
