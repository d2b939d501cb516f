# Verification of the embedded systems course code

TLA+ models of the programs in this repository, what TLC checks about them on
small instances and what TLAPS proves about them for all.  `PROJECT.json` lists
the components, the runs, the lines each definition models, the findings, the
hazards and the theorems; this file explains how they fit together.

Directories are abbreviated: **A3** is
`src/assignments-3-and-later-saloni1307-master`, **A7** is
`src/assignment-7-saloni1307-master`, **FP** is
`src/final-project-saloni1307-master`.

## 1. The system

The repository holds the assignments of a course on Linux systems programming.
Its centre is the *AESD line logger*: a TCP server (`aesdsocket`) that appends
each line a client sends to a device and sends the whole content back, and a
kernel driver (`aesdchar`) that keeps the last ten lines in a circular buffer.
Around it are the drivers of *Linux Device Drivers* that the course builds into
its image and has students work with: `scull` and its relatives, `short`,
`shortprint`, `snull`, `sbull`, `tiny_tty`, a USB skeleton, and modules about
waiting and deferring.  The rest builds images for these, and a student project.

| component | state | operations | interacts with | what is hard |
|---|---|---|---|---|
| circular buffer (A3 `aesd-circular-buffer.c`) | entries, two offsets, `full` | add an entry, find the entry of a byte offset | the driver calls it with its mutex held | wrap-around, full against empty, who owns an overwritten entry |
| aesd driver (A3 `aesd-char-driver/main.c`) | the buffer, the line being built (`temp_entry`), allocated memory, file positions | open, release, read, write, load, unload | system calls; `kmalloc`, `krealloc`, user copies that fail | two files at once, a fault between two steps, ownership of memory |
| aesd server (A3 `server/aesdsocket.c`) | the socket, list of threads, `data_mutex`, `end_pos`, the stop flag | set up, fork, accept, receive, write, reply, join, signal | the driver or a file; clients; signals | joining while serving, clients that leave, faults with the mutex held |
| scullpipe (A7 `scull/pipe.c`) | ring of bytes, two wait queues, users | open, release, read, write, poll | `scull_p_buffer` may change | lost wake-ups, an open that reinitialises |
| scull (A7 `scull/main.c`) | list of arrays of quanta | read, write, seek, trim, parameters | module parameters read outside the mutex | values read before a lock and used after, holes |
| scull-access (A7 `scull/access.c`) | owner and count, list of clones | four ways to open and release | spinlocks, a wait queue | check and change in two steps, waking the right one |
| shortprint (A7) | ring of bytes, work, timer, printer | write, worker, interrupt, timer; reader of time stamps | hardware handshake | writer, worker, interrupt and timer at once; lost interrupts |
| short (A7) | page of time stamps, array, count | interrupt, bottom half, read | interrupts at any point | top half against bottom half, page wrap |
| snull (A7) | pool, receive queue, status | transmit, receive, NAPI poll, timeout, open, stop | two interfaces inside each other | status shared without a lock, stopping and waking the queue |
| sbull (A7) | sectors, users, timer | open, release, timer, requests | block layer | medium invalidated while in use, concurrent requests |
| scullp, scullv, sculld (A7) | list of arrays of blocks of pages, count of mappings, parameters | read, write, seek, trim, ioctl, map, unmap, fault | processes' address spaces | a count changed without a lock, parameters read before it |
| listings under `/proc` (A7 `scull*`) | an iterator, a device's mutex | `scullmem`, `scullseq`, and those of pipes and variants | opens that trim, writes that extend | a way out with the mutex held, a list that is freed meanwhile |
| scullc (A7) | objects of one cache for all devices | read, write, trim, parameters | the slab allocator, which gives back used objects | a parameter that changes between a trim and an allocation |
| loading and unloading (nineteen drivers) | what has been taken so far | init and exit functions | the kernel, which may call in as soon as a device is added | a step that fails, a device that is reached too early |
| tiny_tty (A7) | port, count, timer | open, close, write, timer, modem lines, ioctls, unload | tty core | a timer that adds itself again |
| tiny_serial (A7) | port, its ring, one timer | open, close, write, stop, start, flush, timer | serial core | a handler that is given something else, and works without the lock |
| queue.h (A3 `server`) | heads and elements of five kinds of list | insert, remove, concatenate, swap, replace, loops | the server's list of threads | a pointer back that is not kept, a loop whose body removes |
| usb-skeleton (A7) | counted structure, one buffer | probe, disconnect, open, release, read, write | USB core | disconnect against open |
| silly (A7 `misc-modules`), ports of short (A7) | I/O memory or a port, a buffer per call | read, write, toggle, shared handler | the port's interrupt line | units, alignment, places past the end, a handler between two bytes |
| jit, jiq, sleepy, complete (A7 `misc-modules`) | wait queues, timers, jobs | read, write, delay, job, timer | scheduler, signals | freeing and waking, lost wake-ups |
| threading, systemcalls (A3 `examples`) | a mutex and a thread; a child process | start a thread; run a command | pthreads; fork, exec, wait | shared globals, killed children |
| dashboard (FP `pygame_try.py`, `thread_ex.py`) | speed, fuel level, a stream of sentences | count, show, pass positions on | a GPS receiver, clients | where a read ends |

Correctness, per component, in a sentence: the *buffer* is a bounded log of the
newest entries; the *driver* is a list of lines whose calls are atomic, and
uses only memory it owns; the *server* serves everybody once, replies with the
file and can be stopped; a *pipe* is a FIFO that forgets no sleeper; *scull* is
a file with holes; an *access-controlled* device lets in who may come in; the
*printer* prints each byte once and in order; an *interrupt* is reported; an
*interface* receives each packet once and its queue goes on; a *disk* keeps
what is written while in use and moves every sector of a request; a *mapping*
keeps its pages; a *port* is fed as long as somebody has it open; what is
*counted* is freed when, and only when, nobody uses it; a *reader* that sleeps
has somebody to wake it; a *load* that fails gives back what it took.

### What is not modelled

`PROJECT.json` names each part left out with its reason.  In groups:

* `scull-async`, whose deferred operation follows a pointer that nothing sets:
  its code has no defined behaviour beyond the first step;
* `skull` and `pci_skel`, which probe and then do nothing; `hello`, `kdata*`,
  which print and end; the iterator of `seq`, which walks a number; the read and
  write of `faulty`, wrong by design, one past its own buffer and the other through
  a null pointer; the vm operations of `simple` and the callbacks of `lddbus`, which
  only log (how `faulty`, `simple` and `lddbus` are loaded is modelled);
* the programs that try the drivers out, the assignment's `writer` and its
  scripts, the test harness, earlier copies of later assignments, shell
  scripts, and Buildroot and Yocto configuration;
* what the dashboard draws, its client, and the face recognition, a loop around a
  vision library;
* `CIRCLEQ_REPLACE` and `CIRCLEQ_FOREACH_REVERSE_SAFE` of `queue.h`, which do not
  compile where they are used (a head taken for a pointer and for a structure, a
  macro with an argument too many).

Inside the modelled components: formatting and logging, argument parsing, how
the kernel's probing finds the interrupt of `short`, the headers and counters of
`snull`, and configurations that the repository does not build.  The server is
modelled as its source selects (`USE_AESD_CHAR_DEVICE`); the other build, with
its thread of time stamps, does not compile (`cleanup` and `timer_thread` use a
`filefd` that only `thread_func` declares).

## 2. Modules

Each component has a module of the same name, and those that are proved about a
module `..._proofs`. Some have an `MC` module of their own with the finite sets
TLC needs; the others say them in their `.cfg`, or at their end (`AesdChar`).
Drivers that have nothing to do with each other share one: every behaviour of
`MCDevices` and of `MCTasks` has a *subject* that is chosen at the start and is an
instance of one component's module with its constants; the others stay as they
are. In the same way `MCSnull` has five loads of the driver, each with values of
the module's parameters, `MCShortPrint` a flag that says whether somebody reads,
and `MCScullPipe` a flag that says whether the size of the buffer changes. A
property of such a module says for each subject which property of its component
holds, under that component's conditions. An operator named `X_Something` just
before an operator `X`, marked `slip`, is a plausible mistake in that operator; no
specification uses it. Each checked property is known to fail when one of the
slips takes the place of its operator.

| module | models | built on | implements |
|---|---|---|---|
| `WriteLog` | abstract: the newest `Max` entries, added at one end | | |
| `CircularBuffer` | A3 `aesd-circular-buffer.c` | | `WriteLog` |
| `LineDevice` | abstract: lines, the line being built, reads and writes as one step each | | |
| `AesdChar` | A3 `aesd-char-driver/main.c` | extends `CircularBuffer` | `LineDevice` |
| `AesdSocket` | A3 `server/aesdsocket.c` | the operators and state of `LineDevice` for the device | |
| `ByteFifo`, `ScullPipe` | abstract FIFO; A7 `scull/pipe.c` | | `ByteFifo` |
| `SparseFile`, `Scull` | abstract file with holes; A7 `scull/main.c` | | `SparseFile` |
| `ScullAccess` | A7 `scull/access.c` | | |
| `TimeRing` | the page of time stamps that the next two share | | |
| `PrintQueue`, `ShortPrint` | abstract print queue; A7 `shortprint.c` | `TimeRing` | `PrintQueue` |
| `Short` | A7 `short.c`, the interrupt part | `TimeRing` | |
| `Snull` | A7 `snull.c` | | |
| `Sbull` | A7 `sbull.c` | | |
| `ScullMap` | A7 `scullp`, `scullv`, `sculld`: `main.c` and `mmap.c` | | |
| `ProcMem` | the listings of A7 `scull`, its pipes, `scullp`, `scullv`, `scullc`, `sculld` | | |
| `TinyTty`, `TinySerial`, `UsbSkel` | A7 `tiny_tty.c`, `tiny_serial.c`, `usb-skeleton.c` | | |
| `SinglyLinked`, `DoublyLinked` | A3 `server/queue.h`: `SLIST`, `STAILQ`; `LIST`, `TAILQ`, `CIRCLEQ` | | |
| `ScullCache` | A7 `scullc/main.c` | | |
| `Loading` | init and exit functions of `aesdchar`, `scull` with pipes and access control, `scullp`, `scullv`, `scullc`, `sculld`, `lddbus`, `simple`, `sbull`, `short` (with ports, with memory), `shortprint`, `snull`, `tiny_tty`, `tiny_serial`, `sleepy`, `complete`, `faulty`, `silly` | | |
| `IoMemory` | A7 `silly.c`; A7 `short.c`, the ports, the toggling node and the handler of a shared line | | |
| `Jit`, `Jiq`, `Sleepy` | A7 `jit.c`, `jiq.c`, `sleepy.c` with `complete.c` | | |
| `Threading`, `SystemCalls` | A3 `examples/` | | |
| `Dashboard` | FP `pygame_try.py`, `thread_ex.py` | | |

**Composition.**  The three layers of the line logger meet at their abstract
specifications.  `AesdChar` contains the ring's variables and uses its
operators, so a write that commits a line *is* an `AddEntry`; it is shown to
implement `LineDevice`, in which a read or a write is a single step on a list
of lines.  `AesdSocket` then takes that device as its file: what the server
sees of the driver is what the driver was shown to promise.

**Granularity.**  A section under a mutex or spinlock is one action, unless it
lets go of the lock, sleeps, or its fields are also read without the lock; then
it is split at those points.  What runs without a lock is split at each access
to shared state.  `pc` variables say where a call, thread or handler is, with a
name for each place.  `krealloc`, user copies, timers, work queues, the tty,
USB and network cores are modelled by how the code uses them, and marked
external in the map.

**Data.**  A line is a sequence of one or two letters and a newline, a page or
a quantum a number of bytes or sectors that is just large enough to have a
first, a middle and a last one; a pointer is a model value that is or is not
in the heap; memory never written holds `Garbage`, which may turn out to be
any byte.  Time stamps are the numbers of their interrupts.  Variables marked
*history* are not in the code: they remember what a property needs and guard
nothing.

### Where code and model meet

* `CircularBuffer`: `in_offs`, `out_offs`, `full`, `entry` as in the code;
  `AddEntry` is `aesd_circular_buffer_add_entry`, with the pointer it drops in
  `ret`; `FindEntry` is the lookup, a fold over at most `Max` slots.
* `AesdChar`: `Enter`, `LockRead`/`LockWrite`, `Interrupted` (a signal in
  `mutex_lock_interruptible`), `Read`, `WriteAlloc` (`kmalloc` or `krealloc`),
  `WriteNoMem`, `WriteCopy` (the user copy, the search for the newline and the
  commit), `Load`, `Unload`.  The allocation and the copy are two steps, since
  the line under construction is in between in a state of its own.
* `AesdSocket`: `pc[c]` follows the thread of connection `c` through receive,
  lock, write, reply and exit; `mpc` and `iter` follow `main` through accept
  and through the list it joins.  A thread id may be used again when its
  thread has been joined, as pthreads allows.  Before that `mpc` goes through
  the set-up of `main`, each call of which may fail, with a signal between any
  two; `sock` is the file that `sockfd` names, which is standard input until
  there is a socket, and `parent` the process that a fork leaves behind.
* `ScullMap`: one module for the three drivers; `Driver` chooses the allocator
  and the fault handler.  `Enter` reads the parameters that the code reads before
  the mutex, the rest of a call is one action under it.
* `ProcMem`: a listing goes from device to device, a step for each lock, item
  and unlock; `Trim` and `Extend` are what other processes do, and wait for the
  mutex where the code they stand for does.
* `TinySerial`: `Old` says which kind of timer the kernel has.  Before 4.15 the
  handler is given what was set as its data, the port; since then it is given
  the timer, and takes what lies there for a port.  The handler has a step for
  each read of what the locked operations write.
* `SinglyLinked`, `DoublyLinked`: one memory of pointers, and one action for each
  macro; `list` says which elements each list should have, and in what order.
* `Loading`: a driver is a plan, the steps of its init function in their order,
  each with what is given back when it fails, and the steps of its exit
  function with the pointers they test; the actions carry out any plan.
* The other modules have one action for each step, named after the function
  or the place in it; `PROJECT.json` gives the lines.

## 3. What the runs show

| run | what is there | what is shown |
|---|---|---|
| `driver` | two files, two slots, three blocks of memory, lines of at most two bytes, every fault | `RingInv`: offsets, `full` and entries agree. `FindIsExact`: the lookup of every offset is what counting through the entries gives. `RingKeepsLog`: the ring is a `WriteLog`. `NoDanglingEntry`: entries and the line being built own memory of their size, each its own. `LeaksOnlyAfterFault`: memory is lost only after a fault. `ImplementsLineDevice`: the device is a list of lines whose calls are atomic |
| `server` | two clients, nothing fails | `MainInv`: main is where its list, its threads and its socket say, each thread in the list is joined or to be joined; `MutualExclusion`; `ReplyIsTheFile`: a reply is the file from its start, and of one moment; `EveryClientServed`; `SignalStopsServer` |
| `server_faults` | two clients that may leave, and each call that can fail, of the set-up, too | `NothingRunsAtExit`; `EndPosBehindDevice`: `end_pos` never promises more than the device took |
| `server_close` | one client that leaves before its newline | a violation of `EveryClientServed`, section *Findings* |
| `server_stuck` | two clients and a device that may refuse a write | a violation of `SignalStopsServer`, section *Findings* |
| `scull` | two files, one or two quanta a set of one or two bytes, parameters that change, allocations and copies that fail | `WellFormed`: the list keeps its shape and its size; `ImplementsSparseFile`: the device is a file with holes; both unless a call straddles a trim |
| `pipe` | two files on three bytes, of which two are usable, so that full and empty wrap; or a size that changes between opens, with one reader and one writer | `NoLostWakeup`: a sleeper has somebody to wake it; `BufferOfUsers`: the buffer is there as long as its users; `ImplementsFifo`; `ReaderWakes`; the three also for processes in `poll` |
| `access` | ann, bob who acts for ann, and root, on a terminal or on none | `SingleOpen`, `OneUser`, `OnePerTerminal`: who is in is who may be; `SleeperLooks`: who sleeps for a release looks again |
| `print` | a ring of three bytes, of which two are usable: two programs write two bytes each and close it; or they write byte by byte, another reads time stamps from a page of two lines of which the second is too long, and interrupts get lost | `OutputKeepsMoving`: output that is active has the worker, an interrupt or the timer to move it; `NoLostWakeup`, of writers, closes and readers; `ImplementsQueue`: what is printed is what was written, in order |
| `snull` | five loads: one sender and one buffer; both send; NAPI in one direction and in both; NAPI with interfaces that go down, lost interrupts and the watchdog | `ReceivedOnce`; `QueueFollowsPool`: each buffer is in one place, pool, queue or hands, always, and a queue is stopped while its pool is empty, until an interface goes down, a timeout, or a buffer that is taken again too soon; `SkbFreedOnce` and `QueueGoesOn`, for one sender |
| `devices` | `sbull` in two request modes; `scullp`, `scullv`, `sculld`, and `scullp` where one parameter changes; `scullc`; `tiny_tty` with and without memory; `tiny_serial` on both kinds of kernel; `usb-skeleton`; the listings; `silly`; the ports of `short`; loading where what the code looks at fails, and where anything does; the five kinds of list | `DataKept`: sectors go to their places, a disk in use is not invalidated, a byte of `scullc` is what was written, what `silly` reads it has read from its place, every second byte toggled raises the line, the pointers of a list follow what was put into it; `MappingKeepsPages`; `FedWhileOpen`: the port's count is its users, characters come while there are any, and what `tiny_serial` sends is what was written, in order; `FreedWhenUnused`: what is counted is freed when nobody uses it, and not before; `LoadsGiveBack`: what a load or a removal has taken is given back, once, and what can be reached is ready; `ListsUnderMutex`: a listing holds the mutex of its device, and no other, on every way out |
| `tasks` | `short` whole and in halves, the worker of `shortprint`, the files of `jiq` and `jit`, those that delay where `jiffies` wraps, `sleepy` and `complete`, the two examples, the aesd driver with one slot, the display and the server of the dashboard; each also where signals or faults come | `SleepersHaveWakers`: no wake-up is lost, and a completion is one read; `SuccessIsTrue`: a full file, a delay that is over, a true result, a thread's success mean what they say, and a gauge has an image; `AllComesToItsEnd`: calls return, what is waited for comes, a needle comes back, and every position sent is passed on |

The passing runs have, in this order, about 215,000, 198,000, 5.8 million, 1.7
million, 512,000, 92,000, 5.1 million, 1.0
million, 666,000 and 100,000 distinct states.

### Findings, and what the code does not keep

Two runs are to find a violation.  `server_close`: `aesdsocket.c:377` says that
the reply loop runs "until we get a newline character", and when a client has
left before its newline there is none, so the thread reads for ever and keeps
the mutex that every other client needs.  `server_stuck`: the mutex is to be
released "after writing to file" (`aesdsocket.c:315`), and when the device
refuses a write it is not, so the next client waits for it for ever, and `main`,
told to stop, joins that client's thread and never ends.

Other statements of the code's comments, messages and documentation are not
kept either.  They stand at the end of the modules, after *"The code's texts
also state what follows"*, each with the line that says it; TLC gives a
counterexample to each in an instance of its module, with the fairness of that
module where the statement is about what happens in the end.  They are

| module | statements |
|---|---|
| `AesdSocket` | `ReplyEndsWithFile`, `ScanJoinsCompleted`, `ClosesSocket`, `ServesTillSignal` |
| `ScullPipe` | `EndIsEnd`, `WriterWakes` |
| `Scull` | `NeverOverruns`, `NeverDividesByZero` |
| `ScullAccess` | `TrimAlone`, `BusyIsOpen` |
| `ScullCache` | `ObjectHolds`, with a quantum that is longer than the cache's objects |
| `ScullMap` | `MappedAreSingle`, `AccessEnds`, and for `sculld` `PageIsThere`; with two processes, `VmasCount`; with orders, `SharesPages` and `QuantumHolds` |
| `ProcMem` | `WalksLiveItems`, `FitsPage` |
| `TimeRing`, `ShortPrint`, `Short` | `LineFits`; `SleeperHasNoSpace`, and with lost interrupts `OutputGoesOn`; `OneLineEach`, `CountsAddUp`, `CopyReadable` |
| `Snull` | `PollDone`, `PollWhileOff`, `NeverStuck`; with two senders, `SkbFreedOnce` and `QueueGoesOn`; `StoppedWhenEmpty` without its exception for a buffer taken again |
| `Sbull` | with segments of different sizes in one bio, `AllMoved` |
| `TinyTty` | `TimerShutDown`, `FreedUnused`, `CallFindsPort`, `SentIsTold`, `DtrSet` |
| `TinySerial` | `TimerShutDown`, `AddedOnce`; with flushes, `SentInOrder`; since Linux 4.15, `FeedsOpenPort` |
| `UsbSkel` | `ReadsItsOwn`, `FreedOnce` |
| `IoMemory` | `UnitsWritten`, `Claimed`, `BuffersFreed` |
| `Jiq`, `Jit`, `Sleepy` | `PrintsInPlace`, `SetUpOnce`; `DataAlive`, `FileAlive`; `WakesReaders` |
| `Threading`, `SystemCalls` | `FilledWithOwn`, `NoneExitsHolding`; `FileClosed`, and with signals or a failing `dup2`, `TrueIfSucceeded` |
| `Dashboard` | for the server, `NeedleTurns`; where a read may end within a sentence, `ThreadLives`, `WereSent` |
| `Loading` | the properties without their exceptions: `Leaving`, `Careless` and `Early` name the drivers, and the lines |

The properties of the passing runs are stated with the conditions under which
they do hold, so that a change of the code that breaks them there is seen.

One condition needs a word. `snull_release_buffer` unlocks and then asks whether
the buffer's `next` is null (`snull.c:164`), to know if the pool was empty before.
By then, with NAPI, the buffer may have been taken again and be first on the
receiver's queue, where its `next` is null for another reason: the queue is woken
although the pool is empty, the next packet finds no buffer, and
`snull_get_tx_buffer` returns with the lock held. TLC finds this with one sender,
two buffers and four packets; `events` remembers, as `"reuse"`, that a buffer was
taken in that moment, and `StoppedWhenEmpty` says what holds until then.

### Bounds

Every bound is a constant. `Max`, `Sizes`, `Quanta`, `QSets`, `Qsets`,
`ObjectSize`, `PageSize`, `OutSize`, `NR_TIMEVAL`, `PoolSizes`, `Budget`, `LIMIT`,
`LOOPS`, `PageLines`, `UART_XMIT_SIZE`, `WAKEUP_CHARS`, `Fifosize`, `Top` (in
`MCTasks` `Fastest`), `Few`,
`Most`, `Size`, `WRAP`, `delay` stand for sizes of the code: each is the smallest
that has a first and a last element, or that lets the thing be full, wrap and
overflow. `Counts` and `Offsets` are aligned and not, within the memory of `silly`
and past it. `MaxLine`, `MaxPos`, `NBytes`, `MaxPart`, `MaxSent`, `MaxMoves`,
`MaxUsers`, `MaxInterrupts` (`MaxWhole`, `MaxSplit`), `MaxBlocks`, `MaxCalls`, `MaxTty`, `MaxOpens`,
`MaxItems`, `MaxTrims`, `Object`, `Buffer`, `Writes`, `Packets`, `Lines` cap what
is otherwise unbounded, and a delay of `jit` is not overslept by half the range of
`jiffies`: runs go at least once round each ring and let each actor come twice.
Two or three actors are enough for the races that are here: each is between two
that do the same or one that waits for another, and the third is the one that
overtakes. Where a subject has fewer the reason is its state space or, where this
file says so, that the property does not hold for more. `Loading` has two devices
where the code has any number, the first and one that comes after it. The lists of
`queue.h` have three elements and two heads, so that there is a first, a middle
and a last one, and another list to concatenate or swap with. Symmetry is used in
runs without liveness, over actors, blocks or objects that differ in nothing;
where a liveness property is about each of several actors that differ in nothing,
a run checks it of one of them.

Deadlock is checked where somebody can always go on (`driver`, `pipe`, `access`,
`print`).  The other configurations say `CHECK_DEADLOCK FALSE`
because the system does stop: the server exits, a driver is unloaded, a bounded
number of calls, positions, packets or interrupts comes to its end, a reader
reads once.

### Fairness

A process inside a system call, a thread that can run, a job, tasklet or timer
that is due, and a bottom half that is scheduled all run eventually: that is
the kernel's scheduling, weak fairness of their steps.  Where a mutex is
handed on, waiting for it is strongly fair (`AesdChar`, `ScullPipe`): Linux
mutexes hand themselves over to a waiter that has waited too long.  Nothing is assumed of
clients, users, opens, writers that have not begun, failures, signals or the
loss of interrupts; `ShortPrint` assumes in addition that the printer
acknowledges, which is not enough when an interrupt is lost.  `MCSnull` asks for
fairness of the transmissions only, in the load with one sender.

## 4. What is proved

TLAPS checks these for every value of the constants that satisfies the named
assumptions of the modules.  The proofs of a component are in a module
`..._proofs`, with a lemma for each action or group of actions; those of the
drivers that share `MCDevices` are in `Devices_proofs`, a section for each, those
of the subjects of `MCTasks` behind those of `ScullAccess` in `AccessTasks_proofs`,
and their theorems are about every subject that the property speaks of.

| theorem | says | assumes, of the constants |
|---|---|---|
| `RingInvariant`, `RingImplementsLog` | `RingInv`: full and offsets agree, entries beyond `in_offs` are empty until the ring is full; the ring implements `WriteLog` | at least one slot; sizes are naturals |
| `LookupIsExact` | `FindIsExact`: the lookup of any offset finds the byte that counting through the entries finds, and NULL past the end | the same |
| `DriverTypes`, `DriverOneInside`, `DriverKeepsRing`, `DriverFindsExactly` | types; `driver_lock` is held by exactly who is inside; the ring's invariant and the lookup, inside the driver | data are sequences of bytes, sizes read are naturals, `ZeroPtr` and `NULL` are no blocks |
| `DriverNoDangling`, `DriverLeaksNothing` | each live entry and the line being built own a block of at least their size, whatever fails; without a fault nothing else is allocated | the same |
| `DriverImplementsLineDevice` | the driver is a list of lines whose calls are atomic | the same |
| `DriverKeepsLog` | while loaded, the ring changes as the log of the newest lines does | in addition, every length up to `MaxLine` is a size |
| `ServerMutualExclusion`, `NothingRuns`, `EndPosNeverAhead`, `MainKeepsServing` | `data_mutex` admits one thread; no thread is left at the exit; `end_pos` counts nothing the device did not accept; `MainInv`; each under any faults | nobody, `NL` and junk thread ids are no connections; at least one line |
| `RepliesAreTheFile` | `ReplyIsTheFile`: each client is sent the file from its start, and its packet with it | nothing fails, and each packet has a byte before its newline |
| `DeviceKeepsShape`, `DeviceIsSparseFile` | `scull`, until a call has run with values from before a trim: arrays and quanta have the lengths of the parameters and nothing is used past its end; the device is a file with holes | quanta, set sizes and sizes read are naturals, `MaxPos` is not zero, a hole is no byte |
| `PipeBelongsToUsers`, `PipeLosesNoWakeup` | `BufferOfUsers`: pointers stay in the buffer, counters count, the buffer lives as long as its users; `NoLostWakeup`, with `poll` | finitely many files; sizes of at least two, with a largest |
| `PipeIsFifo` | what is read is what was written, once and in order | in addition, no read asks for nothing |
| `OutputMoves` | `OutputKeepsMoving`: the indices of `shortprint` stay in its two buffers, active output has something that moves it, and what waits is active output, also while interrupts get lost | a page that is not empty, an output buffer of at least two bytes, data are sequences of bytes |
| `WritersAndClosersWoken`, `PrinterLosesNoWakeup` | no writer sleeps beside more room than the worker wakes it for, and no close after the output; with one reader, `NoLostWakeup` as a whole | the same; the second, at most one reader |
| `PrinterPrintsWrites` | `ImplementsQueue`: what is printed is what was written, once, in order, a write's bytes together | the same, any number of readers |
| `CountersCount`, `DevicesHaveOneUser`, `TerminalsHaveOneDevice` | the counters of `scull-access` count, the single device has one file; who is in may be; a terminal has one private device | finitely many processes, each with its users |
| `NoWakeUpIsLost` | `SleepersHaveWakers`: no reader of `short` sleeps over a line, none of a work queue's file in `jiq` without a job, none of `sleepy` over an announcement nobody will take; `jiq`'s timer is gone when its readers are; a completion is one read | finitely many readers of `sleepy`; one of `short`, and a page and an array that are not empty |
| `WhatSucceededIsDone` | `SuccessIsTrue`: a read of `jit` that ends without a signal has all its lines, and a delay has lasted, where `jiffies` wraps, too; one thread has the mutex, and none that reports success; a true result is a command that succeeded; a gauge has an image | at least one line; a delay of at most half the range of `jiffies`, as `time_before` needs; no thread is `None`; a speed and a fuel level above zero |
| `PoolAndQueue` | `QueueFollowsPool`: each buffer of `snull` that is allocated is in one place, whatever fails, goes down or times out; until something of the kind, the queue is stopped while its pool is empty, and only then but for who is about to wake it | two interfaces; no buffer is `NULL`; sizes and counts are naturals |
| `OpenPortsAreFed` | `FedWhileOpen`: the count of `tiny_tty` is who has the port open, an open port has a timer that feeds it, what `tiny_serial` sends is what was written, in order, and a writer that waits for room is woken | finitely many processes, none of which is `None`; a ring that is not empty and longer than `WAKEUP_CHARS` |
| `StructuresFreedUnused` | `FreedWhenUnused`: the structure of `usb-skeleton` is freed when the interface and every file are gone, and under nobody; the objects of `scullc` in use are those of its devices, one for a slot | finitely many processes; quanta, sets and objects of at least one byte or place, as the code divides by them; `None` is no object |
| `MappingsKeepPages` | `MappingKeepsPages`: `vmas` counts the mappings, pages are shared between the file and the mapping, reads and writes stay in their quantum, each until what the property excepts | one process and one file (more, and it does not hold); sets of at least one place; an order of 0 among the orders, and 2 to an order at least 1 |
| `ListingsHoldTheMutex` | `ListsUnderMutex`: a listing holds the mutex of its device and no other, on every way out, and shows that device's list | counts and bounds are naturals |
| `PacketsReceivedOnce`, `SkbsFreedOnce` | `ReceivedOnce`: a packet is handed up once, dropped once or on its way; `SkbFreedOnce`, as long as the other interface sends nothing | the same |

The assumptions are what the code or the kernel gives: a size of memory is not
negative, a device table is finite, a null pointer is no block.  Where a theorem
needs more than that its own row says so: the pipe's buffer has a size of at
least two because one of one can hold nothing, and a read that asks for nothing
returns nothing, which no step of `ByteFifo` does; and `shortprint` may have one
reader, because `shortp_read` holds no lock: a second one counts the bytes up to the
end of the page, the first moves the tail, and the second then copies bytes past it.
TLC finds that, a behaviour of sixteen states, when the run is given two readers.

### The arguments

**Ring.**  `RingIInv == BufferTypeOK /\ RingInv` is inductive, by cases of the
wrap.  The lookup walks the slots from `out_offs` and subtracts sizes; it is
compared with the running totals of the sizes, a recursive function whose values
`SumsExist` and `SumsGrow` give by induction.  That induction is by a least element: were
there an index at which the claim fails, there would be a first one, and it is
neither zero nor the next after one at which the claim holds.  (The library's
induction theorems take the claim as a parameter, which the provers cannot
instantiate; the least element of a set of naturals follows from the theorem on
well-founded relations, which takes none.)

**Driver.**  `NoDanglingEntry` is not inductive by itself.  A commit moves the
pointer of the line to the ring, so the line must be known to own a block that no
entry has; the evicted entry is freed, so entries must be known to own distinct
blocks; a copy writes what the call brought into the room the allocation made, so
the arguments must agree with the room while the call is between its two steps;
and only one call may be there at a time.  Hence

    IInv == DeviceTypeOK /\ RingInv /\ LockInv /\ CallMatches /\ MemInv

with `MemInv` the distinct ownership by slots, and by the line, of blocks as long
as their sizes.  A failed `krealloc` leaves a line with a size and no memory: the
invariant has it as the case of a null pointer, in which nothing is claimed but
that nothing is used.  `LeakInv` adds that the heap is what the line and the
entries own, until something fails.  The refinement maps the slots from `out_offs`
on to lines; a read's answer is the lookup's, which the fold lemmas relate to the
list, and a write maps to a stutter at its allocation and to the device's write at
its copy.

**Server.**  `LockInv` says the owner of the mutex is the thread whose `pc` is in
it.  `ExitInv` follows threads through the list: who is alive is named by its thread
id in `holder`, is in the list while main serves and in `iter` while main cleans up,
so that an id used again never makes a join return early.  `EndPosInv` counts what a
thread has written and not published as part of the file, and is proved under
any faults.  `ReplyInv` says of each thread what it has sent and what it holds: the
file from its start up to its position, and that before its newline is met it
reads only bytes that `end_pos` counts.  The theorem holds until a line is evicted,
as the property says.

**scull.**  `IInv == Typed /\ (~stale => ~overrun /\ Shaped)`: every array has no
place or `qset` places, every quantum no byte or `quantum`.  `item`, `s_pos` and
`q_pos` are the digits of the position: `Splits` and `Joins` say that a position has
one and only one triple, `Together` and `Further` that positions in one quantum are
as far apart as their offsets.  `WithCell` then says that a quantum that is replaced
changes the file there and nowhere else, and each path through a read or write is
compared with the file position by position: a missing item, array or quantum is a
hole before and after, and a new quantum turns holes to garbage around what is
written.

**Pipe.**  `IInv == TypeOK /\ LockInv /\ PointersInv /\ UsersInv /\ NoLostWakeup`.
A pointer may be at the end of the buffer only until its owner wraps it, under the
lock; the counters are cardinalities; and one slot stays empty, so `rp = wp` always
means an empty pipe.  For the FIFO, a place of the ring is a function of an index in
the queue, a read cuts the queue at the front, a write joins at its end the places it
fills, and a wrap changes no place.

**Printer.**  `IInv == OutTypes /\ ProcTypes /\ MutexInv /\ WriterInv /\ WritersWoken`.
A writer reads the head and the tail in two steps and the worker moves the tail in
between, without the mutex.  `OrderOf` and `StaleOf` say what a half of
`shortp_out_space` that has been read still says: an order of "head first" holds
until the writer itself moves the head, since the tail may come up to it and not
pass it; the other order may be stale by a wrap of the tail, and then the worker has
woken the writer, or there is too little room for it to do so.  `CopyOf` says that
what was counted as room is room until it is filled.  `KernInv`, apart from it,
says of active output that the timer is pending or running, or that the work is queued
or has not yet had its look at the buffer.  For the queue, a place of
the ring is a function of an index, as in the pipe: a copy joins at the end what it
fills, the worker takes the first, and nothing else moves.

**Access control.**  `IInv == Types /\ Counts /\ OneUser /\ Terminals`: every counter
is the cardinality of a set of processes, the transient `-1` of the single device
counted by who is about to put it back; and who is about to add a private device
holds the lock under which it saw that its terminal has none.

**Interfaces.** `IInv == Types /\ CallInv /\ BufferInv /\ QueueInv /\ PacketInv /\
SkbInv`. `BufferInv` and `PacketInv` partition the buffers that are allocated and
the packets that were sent; a step moves one of them, from a place to the next.
`QueueInv` is the delicate one: three may give a buffer of an interface back at a
time, the two threads and the other's poll, each in steps of its own. `Follows`
says of a pool, its queue and the three that whoever has given a buffer back and
not left finds it in the pool; that one of them, at most, has the buffer whose
`next` is null; and that, while the queue is stopped beside a pool that is not
empty, there is one. The conditions of the property are what keeps this inductive:
a lookup of `next` says what the giver left there as long as the buffer is in the
pool. `SkbInv` says that a transmission that has not interrupted yet is remembered
by its own skb, which is not freed; with NAPI, neither is any skb that is
remembered.

**Listings.** The inductive invariant says of each place in the walk what mutex is
held there and by whom, and that a place under the mutex of a device has its list as
it was when the walk came to it (`WalkInPlace`): `Trim` and `Extend` wait for the
mutex, and only `scullmem` looks at a list after somebody may have freed it.

**Terminals.** `tiny_tty`: the count is the number of processes that are past the
increment of `tiny_open` and before the decrement of `do_close`, which the lock of
the tty core makes one step each; from that a port with users has its timer pending
or its handler running (`TtyFed`), since only the close that makes the count zero
stops it. The count needs memory for the port, or one process: where the allocation
may fail and there are two, one of them closes a port it did not open, and
`CountsUsers` is false; the subject `nomem` has one process for that reason.
`tiny_serial`: `SerialRing` says that the ring from `tail` to `head` is what was
written and not sent, by place (`Place`), and `WaitsForRoom` that who waits has a ring
that is fuller than `WAKEUP_CHARS`, or a handler on its way to wake it. The handler
reads head and tail in steps without the lock; what it has read still holds because
only it moves the tail, and a write adds at the other end.

**Counted structures.** `usb-skeleton`: `kref` is one for the interface while it is
bound and one for each process between its count and its release
(`kref = OfInterface + Cardinality(Users)`); it is freed exactly when that sum is zero
and it was allocated, and an open that has found the interface does so while the
interface still counts. `scullc`: the objects in use are in one slot of one device
each (`OneSlotEach`, `UsedAreHeld`), and a slot that a call is about to fill is a
place within the sets the device has now (`PlaceInSlots`, by division).

**Mappings.** With one process, `vmas` is the number of its mappings while it is
between calls (`MapCount`); a device is trimmed only when it is zero, so that while
there is a mapping its list may grow and never lose a block (`Longer`, `GrownTo`).
Hence what a page shows stays what the device has at it (`MapShared`), and with one
order and one size of sets every array has no place or all of them (`MapWhole`),
which keeps a read or write that no trim has overtaken within the quantum that was
allocated for it.

**Interrupts and jobs.** `short`: `NoLostWakeup` is inductive with the types, as only
the reader moves the tail, and does not while it sleeps; a second reader would move it
away from the head beside one that sleeps. `jiq`: whoever it prints for, a job is in
its queue or runs while a reader of its file is on the wait queue, because one that
has printed goes back and one that finds the page full wakes everybody; and
`TimerHeld` says that a timer that is pending or runs has a reader that sleeps or is
about to stop it. `sleepy`: with completions, writes are the completions that are
left, those about to be taken and the reads (`SleepyInv`), and while somebody sleeps
there are no more left than readers awake that will look; with the flag, one that is
up and whose writer has gone has nobody asleep.

**Timers and threads.** `jit`: `Prints` counts a file's lines by its loops, a line
that is printed and not counted apart, and keeps the timer from being due when no
loops are left. `Apart` says of who delays that `jiffies` is as far from its end as
its ticks are from the delay, but for a whole range either way; since neither is more
than half a range, `time_before` can take one for the other only when the delay is
over. `threading`: who is between obtaining and releasing is the mutex's, who is
before or behind is not, and who has reported success is behind. `systemcalls`: a
child that has ended without a signal did so with the command's status or, where
there is no command, with one that is not zero. The display: below the top while it
rises, above zero while it falls.

### Only model-checked

* Liveness, everywhere (`EveryClientServed`, `SignalStopsServer`, `ReaderWakes`,
  `SleeperLooks`, `QueueGoesOn`, `AllComesToItsEnd`): the prover does not treat
  fairness and `ENABLED`.
* `NoLostWakeup` of `shortprint` for more than one reader, which does not hold.
* `DataKept`: the sectors of `sbull`, the bytes of `scullc`, `silly`, the ports of
  `short` and the lists of `queue.h`.
* `LoadsGiveBack`: the plans of nineteen drivers are a finite table without
  parameters, of which TLC sees every behaviour with the two devices it has; a proof
  would be the same enumeration.

## 5. Hazards

`PROJECT.json` lists what in this code a test would hardly reach, at its line,
with the properties that watch it.  They come down to a few shapes:

* a field read before a lock and used after it (`scull`, `scullp`, `shortprint`);
* a count or status changed without a lock (`scullp`, `snull`, `short`, `tiny_tty`);
* an object handed to somebody who frees it while it is still used (`jit`,
  `snull`, `tiny_tty`);
* a queue woken for one who is not there any more, or a flag lowered by the first
  of several (`jiq`, `sleepy`, `scullpipe`);
* one step of several that fails with a lock held or half the work done
  (driver, server, listings, `usb-skeleton`);
* a handler that works without the lock its callers hold, or on what is not
  there any more (`tiny_serial`, `jiq`'s timer);
* the end of a ring or a page (ring, `short`, `shortprint`, `scull`).

## 6. Plan

Done: the line logger (ring, driver, server from its set-up to its end) with its
abstract specifications and their theorems; `scull`, its pipe, access
control, listings and the three variants with mappings; `scullc`, `shortprint`,
`short`, `snull`, `sbull`, the two terminals, `usb-skeleton`, the waiting and
deferring modules, the two examples, `queue.h`, the dashboard, and the loading of
the drivers.

Next, a theorem about `SinglyLinked` and `DoublyLinked`: `PointersFollowLists` is
inductive, for any number of heads and elements, with `TypeOK` and what an element
outside every list points to; with `Sbull`'s `InPlace`, the first parts of `DataKept`.

And, of what is left to model, the headers of `snull`, when a property is found that
they could break.
