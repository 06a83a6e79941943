# Illinux kernel: a TLA+ verification project

Illinux is a small RISC-V kernel (src/src/kern) for one hart: threads with
conditions and sleep locks, interrupts relayed by a PLIC and an M-mode timer
handler, a serial and a virtio block driver, a flat file system, processes with
their own Sv39 address spaces, and system calls. This directory models its
state machines, from the scheduler to the drivers, files and address spaces,
checks them with TLC on small instances, and proves with TLAPS, for every size of
the tables, the safety properties of the scheduler, the timer, the two drivers,
the descriptors, the file system and the address spaces. Three of the runs show
places where the code does not do what its comments say.

## The system and its parts

| part | source | what it does | here |
|---|---|---|---|
| thread manager | thread.c, thrasm.s | thread table, ready list, conditions, switch, spawn, fork, join, exit, idle | `Threads` |
| sleep locks | lock.h | acquire (test, sleep, test again), release (broadcast) | `Threads` |
| interrupts, traps | intr.c, trapasm.s, excp.c, plic.c | entry from S and U mode, dispatch, yield after a trap from U mode | SIE and the yield in `Threads`, the M-mode relay in `Timer`, page faults in `Memory` |
| timer | timer.c | alarms in time order, one comparator, tick | `Timer` |
| serial driver | uart.c | ring buffers between callers and handler | `Uart` |
| block driver | vioblk.c | one request at a time, wait for its interrupt, a position all callers share | `VioBlk`, the wait also in `Threads` |
| file system | kfs.c, util/mkfs.c | open files, block reads and writes under kfs_lock | `Kfs`, what it promises in `FileSys` |
| io objects, devices | io.h, io.c, device.c | reference counts, terminal object | `Files` with `IoRef`; `IoTerm` |
| processes, system calls | process.c, syscall.c | process table, descriptor tables, fork, exec, exit, wait, usleep | `Files`; their memory in `Memory`; wait also in `Threads`, usleep in `Timer` |
| memory, heap, ELF | memory.c, ezheap.c, elf.c | free list, page tables, clone, unmap, load | `Memory`, what it promises in `AddrSpaces` |
| console, strings, boot | console.c, string.c, start.s, main.c | formatting, polling, straight-line initialisation | not modelled |

How they interact. Threads do not preempt one another inside the kernel:
`intr_handler` yields only if the trap came from U mode. Two things interleave
with kernel code: interrupt service routines, while `sstatus.SIE` is set, and
other threads, at `suspend_self`. Every blocking wait of the kernel is a
`condition_wait` whose broadcast comes from another thread (locks, child exit)
or from a service routine (disk, serial port, alarm). The modules follow that:
`Threads` has the scheduler in full detail with one example of each kind of
waiting. The other modules abstract the scheduler to "some thread that does not
wait runs next" and put the detail in the driver, the table or the hardware: an
action of a thread runs from one point where it may wait to the next.

## Modules

`Threads` (thread.c, thrasm.s, lock.h, intr.c, operation_single_blk and
vioblk_isr of vioblk.c). Thread ids index functions for the fields of
`struct thread`; the ready list and the wait list of every condition are
sequences; `hart` says where in `condition_wait` or `suspend_self` the current
thread is, and `pc[t]` where thread t goes on. A step is the code between two
points at which an interrupt or a switch can be seen: `condition_wait` is three
steps (state WAITING; insertion in the list; `suspend_self`), because an
interrupt may come between them; `suspend_self` is two (the choice, with
interrupts disabled; the switch, with interrupts enabled). `SwtchResult` is what
`_thread_swtch` leaves in a0. A user thread enters the kernel by `Ecall` with
interrupts disabled and leaves by `Sret`; kernel threads (`KTHREADS`) run with
interrupts enabled. Locals of frames that have returned are reset.

`Timer` (timer.c, the M-mode handler of trapasm.s, sysusleep). The clock, the
comparator, MTIE and STIP are variables; `alarm_sleep` is split where the clock
or the M-mode interrupt, which S mode cannot mask, may come in between. Counters
keep their width: the product of sysusleep wraps and the wake-up time saturates
at `UINT64_MAX`.

`Uart` (uart.c). The registers rbr, thr (as LSR_THRE) and ier, two ring buffers
with free-running positions modulo `POSMOD`, several threads sharing the port.
`rbuf_get`, `rbuf_put` and `ier |= bit` are two steps each when a thread runs
them with interrupts enabled, and atomic inside `uart_isr`. `taken`, `got`,
`written` and `sent` record the bytes at the four ends of the two buffers. A byte
that arrives while rbr is unread replaces it (overrun); the driver's count of
overruns is left out.

`VioBlk` (vioblk.c). The virtqueue holds one request; the device answers it at
any time, or with an error for a sector it does not have. Threads stop at
`vio_lock` and in the wait for `used_updated`; `vioblk_isr` is two steps, the test
and the acknowledgement. `bufblkno` is written before the lock is held, as in the
code, and `mixed` remembers that a read overlapped a write or a new position. The
byte count of a write wraps around. Once a read has marked the data descriptor
device-writable it stays so, and a device may then carry out a write, skip it or
refuse it.

`Kfs` (kfs.c, with the image layout of util/mkfs.c). The disk is a function from
block numbers to boot block, inodes and data blocks. `pc[t]` names the disk access
a call waits for, and one action runs from its answer to the next access. All
calls share one cached inode and one cached data block. Any access may fail.
`FileSys` is the promise: files as byte arrays, calls that take effect at one
instant. `WritesAtPos` says whether the disk below writes at the position that
was set (the literal device of io.c) or from sector 0 (vioblk.c).

`Files` (process.c, syscall.c, io.h, device.c). Process table, descriptor tables,
reference counts modulo `REFMOD`, file slots and devices, thread ids. `using[p]`
is the object a waiting call holds on to. `IoRef` is the promise: an object is
open while somebody refers to it. `name`, `lost` and `zombie` are history.
`SharedExit` says whether a process may end while another refers to its objects.

`Memory` (memory.c, ezheap.c, elf.c, excp.c, process.c, and the switch of satp in
thread.c). A page has entries or a value; the walk, the allocation of tables,
clone, unmap, flags and faults are operators on `ram`, in the shape of the C
functions; a loop over pages is a recursive function from rounds to states of
`ram`, and the three levels of `walk_and_free_user` are three operators. `elf_load`
is one step per segment, because other processes run while it waits for the disk,
and it works on the space that satp names. A step that panics is not taken.
`AddrSpaces` is the promise: each process has pages of its own.

`IoTerm` (io.c). `ioterm_read`, `ioterm_write` with the loop of `iowrite`, and
`ioterm_getsn`, as algorithms on byte sequences, against definitions of what the
whole stream should become.

`Callers` declares the names of threads that `Timer`, `Uart` and `VioBlk` share.

The MC modules instantiate them. `ThreadsProofs`, `ThreadsWaits`, `DriverProofs` (the
two drivers), `FilesTimerProofs`, `KfsSteps`, `KfsProofs`, `MemoryPages` and
`MemoryProofs` have the proofs. Definitions marked "faulty variant" are not part of
any `Next`: each is a plausible bug that the property it belongs to detects.

## Runs

| run | configuration | checks |
|---|---|---|
| threads | MCThreads.cfg | 13 invariants of the scheduler, joins, locks and the disk wait |
| threads_live | MCThreadsLive.cfg | ready threads run, disk waits end, joins return |
| threads_stacks | MCThreadsStacks.cfg | violated: stacks of exited threads are not given back |
| timer | MCTimer.cfg | list order, no lost timer interrupt, no early wake-up, sleeps end, ticks catch up |
| uart | MCUart.cfg | byte order through the ring buffers, interrupts armed, no lost wake-up, reads and writes served |
| vioblk | MCVioBlk.cfg | answers belong to requests, reads follow the position, the lock's holder returns |
| kfs | MCKfs.cfg | lock discipline, metadata untouched, the calls implement `FileSys` |
| kfs_vioblk | MCKfsVioblk.cfg | violated: over vioblk.c a write does not reach the file |
| files | MCFiles.cfg | descriptors lead to open objects, fork's value, the counts implement `IoRef` |
| files_exit | MCFilesExit.cfg | violated: a process that ends closes objects others refer to |
| memory | MCMemory.cfg | one owner per page, heap objects apart, the tables implement `AddrSpaces` |
| ioterm | MCIoTerm.cfg | line ends across chunks and writes, the line editor's screen |

What they show, beyond types:

* `ListsExact`, `OneRunning`: states and intrusive lists agree at every point an
  interrupt can come. One case deserves mention: an interrupt may make a thread
  READY again while it is on its way into `suspend_self`. If that thread were the
  head of the ready list it would be queued and switched to at once. It never is,
  because the idle thread is already in the list when another thread runs.
* `NoLostUnlock`, `NoLostExit`, `NoLostCompletion`: no sleeper is left without
  somebody who will wake it, including across the gap in `lock_acquire` between
  its test and its sleep, which is harmless only because no service routine
  releases a lock and threads do not preempt one another there.
* `NoSpuriousChildExit`: the panic in `thread_join_any` is unreachable.
* `ForkFrameIntact`: the child of a fork reads its parent's trap frame from the
  parent's kernel stack. This is safe only because the ready list is FIFO and
  the parent yields after queueing the child.
* `InterruptsRestored` is about `suspend_self` and `condition_wait`. Calls into
  uart.c, which enables interrupts unconditionally, are not in `Threads`; see the
  hazard listed for uart.c.
* `NoLostTimer`: `alarm_sleep`'s ecall may clear a pending interrupt; the level of
  the comparator raises it again. The property starts at the first tick:
  `next_tick` is 0 until then, so an earlier alarm is not put into the comparator
  and its thread sleeps until the first tick.
* `BytesInOrder`, `InterruptsArmed`: the ring buffers stay queues although each
  `rbuf_put` and `rbuf_get` of a thread can be interrupted in the middle. The
  unprotected updates of ier are safe because threads only set bits and the
  handler only clears them, and a clear that is lost is repeated by the next
  interrupt.
* `OwnAnswer`: the status byte is preset to OK and the wait in
  `operation_single_blk` is not a loop; both are safe only because `vio_lock` keeps
  every other request away until the owner has looked. `ReadsFollowPos` has an exact
  condition: `bufblkno` is computed before `vio_lock` is held, and a write or a
  `vioblk_setpos` between the two makes it stale (`mixed`). kfs.c never lets that
  happen, because it takes `kfs_lock` around position and transfer.
* `ImplementsFileSys`: interleaved calls that share one cached inode and one cached
  block behave as if each took effect at its return; a failing disk access makes
  a call fail and never leaves `kfs_lock` held (`LockDiscipline`).
* `DescriptorIntact`, `ImplementsIoRef`: when no process ends while another one
  refers to its objects, an object is closed by the removal of its last reference.
  References do get lost, in `sysexec` and in `sysdevopen` without a free
  descriptor; `IoRef` allows that, and it only delays the close.
* `ForkNamesChild`: fork returns a process number, wait takes a thread
  number. They agree until a fork happens while an ended child has not been waited
  for (`zombie`); from then on `wait(fork())` may name another thread.
* `PagesOwned`, `ImplementsAddrSpaces`: processes do not see each other's pages,
  also when one is switched away in the middle of `elf_load`, which works through
  the active space. `HeapDisjoint`: `kmalloc` never hands out room twice.
* `LineEndsNormal`, `ScreenShowsLine`: one bit per direction is enough to keep CR LF
  together across reads and writes; see below for the write that begins with LF.

## Findings

1. `threads_stacks` (thrasm.s:8). `suspend_self` frees the stack of the thread that
   `_thread_swtch` returns when it has EXITED, and the comment in thrasm.s says that
   is the previously scheduled thread. The routine leaves its argument, the resumed
   thread, in a0. `StacksAccounted` is violated by a thread that exits and is
   joined: its page is in no list.
2. `kfs_vioblk` (vioblk.c:437). `vioblk_write` counts its sectors from 0 and does not
   use the block number it computed from the position. `WritesReachFile` is violated
   by the first `fs_write` over this driver: the bytes go to the boot block. The
   same file system over a disk that writes at its position satisfies `FileSys`.
3. `files_exit` (process.c:149). `process_exit` calls the close operation of every
   object in its table, whatever the reference count; io.h:72 says that close is
   called only when the count reaches zero. After a fork, the process that ends first
   leaves the other with a closed object, possibly asleep in a call on it.

Smaller observations. Each is the condition of a property or part of a model, so
that the properties say exactly when the code is right:

* `walk_and_free_user` (memory.c:807) descends only through entries with PTE_U, which
  entries that lead to a table do not carry. It frees nothing: the pages of a
  program are lost at exit and at exec. `Memory` follows the code. A repair would
  also have to clear the entries (memory.c:814); the faulty variant used against
  `PagesOwned` shows why.
* A load or store fault maps the page of the stack pointer, not of the address that
  faulted (excp.c:88); a fault elsewhere is repeated.
* mkfs (util/mkfs.c:119) counts one block more than it writes for a file whose length
  is a multiple of the block size, which shifts the files after it
  (`ImageAssumption`).
* `ioterm_write` does not count an LF it drops at the start of a write, so `iowrite`
  sends the last byte again or reports a failure (`split` in `IoTerm`).
* kfs.c passes a `uint32_t *` to IOCTL_SETPOS where `vioblk_setpos` reads a `uint64_t`.
  The other half is whatever lies next to it; a position that is too large makes
  the call fail, which `DiskFails` covers.

## Bounds

* `threads`: four slots are main, idle and two others, enough for a parent, a child
  and a grandchild that is adopted, two waiters on a lock and a reused slot; three
  pages and no reclaiming make allocation fail. `threads_live`: three slots, user
  threads only.
* `timer`: three sleepers, six clock values with a tick every two, arguments that
  collide, saturate and wrap.
* `uart`: two threads, buffers of two bytes with positions modulo four, four bytes in
  each direction per opening: both buffers fill, drain and wrap.
* `vioblk`: two threads, two sectors of two bytes, transfers of none, part of a
  sector and both sectors, positions at both sectors and at the end; a word of 16
  so that the count of a write wraps.
* `kfs`: two threads, two files of three and two bytes in blocks of two, two open
  files that may be the same file, reads of three bytes and writes of two from
  positions inside, across and beyond a block; two writes. Threads are symmetric.
  The view leaves out caches that every call reloads before it uses them.
* `files`: three processes, two descriptors, one slot for an open file, one device,
  two names, four thread ids; counts modulo 8, and no fork that would give an
  object more than three references, the lost ones included.
* `memory`: two processes, 12 pages, three levels of tables with two entries, four
  user pages, two execs. The view leaves out what is in pages that no table and no
  list reaches.
* `ioterm`: one ordinary byte, CR, LF, backspace, chunks of up to three bytes, four
  bytes each way, a line buffer of three.

Deadlock is checked except in three places where the system may stop: `files` (the
main process ends, or all others wait), `memory` (`memory_alloc_page` panics without
pages) and `ioterm` (the bounded streams are used up). `Halted`, `ClockEnds` and
`Quiet` are the intended ends elsewhere.

## Fairness

Code that is running goes on (weak fairness of the steps of the hart and of a call
in progress). System calls return and critical sections are released, since they
are straight-line code (strong fairness of `Sret` and `LockRelease`, because other
threads run in between). The tick preempts user code that keeps running
(`Preempt`). The device answers, and a pending interrupt is taken if interrupts are
enabled again and again, which they are in U mode, in the idle loop and around
every switch. No thread has to make a call. In `Uart` the input is finite, so
`WriteReturns` says a write returns once the other callers have nothing left to
send; the code does not promise more, as lock and buffer waiters can be overtaken.
`VioBlk` assumes weak fairness of the device, of the two steps of `vioblk_isr` and of
each thread that was woken; getting `vio_lock` is not assumed, and `OwnerReturns` is
about the thread that has it. `Kfs`, `Files`, `Memory` and `IoTerm` are checked for
safety only.

## Proofs

Every theorem has the form `Spec => []P` (or `Spec =>` the abstract specification)
and holds for all values of the constants that satisfy the named assumption of its
module. Of the safety properties that passing runs check, the two of `IoTerm` have no
theorem; all others have. A leaf of a proof names Zenon where first-order reasoning
is enough; the others need arithmetic, sequences or records and go to the SMT solver.

| module | theorems |
|---|---|
| `ThreadsProofs` | `TypeOK`, `ListsExact`, `OneRunning`, `SuspendAsserts`, `MutualExclusion`, `NoLostUnlock` |
| `ThreadsWaits` | `NoLostExit`, `NoSpuriousChildExit`, `ForkFrameIntact`, `FreeSlotUnreferenced`, `InterruptsRestored`, `NoSleepWhileReady`, `NoLostCompletion` |
| `DriverProofs` | block driver: `OwnAnswer`, `ReadsFollowPos`; serial driver: `NoLostWakeup`, `InterruptsArmed`, `BytesInOrder` |
| `FilesTimerProofs` | timer: `SleepListExact`, `NoLostTimer`, `NoEarlyWake`; descriptors: `DescriptorIntact`, `ImplementsIoRef` (both from `~SharedExit`), `ForkNamesChild` |
| `KfsSteps` | `LockDiscipline` |
| `KfsProofs` | from `WritesAtPos`: `MetadataIntact`, `WritesReachFile`, `ImplementsFileSys` |
| `MemoryProofs` | `PagesOwned`, `HeapDisjoint`, `ImplementsAddrSpaces`, and the invariant `MemInv` they follow from |

**Scheduler and locks**, from `ConstantsAssumption` (at least two slots, any number of
pages). `ThreadsProofs` has the lemmas about lists, the inductive invariant, the type
argument, one lemma for each operation, and combines them. The inductive invariant
`SchedInv` adds to types, lists and states:

* `IdleInv`: the idle thread never waits or exits. So the ready list holds it
  whenever another thread runs.
* `FamilyInv`: every thread but main has a parent in the table, needed where
  `thread_exit` broadcasts to it.
* `ArgInv`: only t waits on the `child_exit` of t, and `thread_join` waits for a
  child; needed where `create_thread` resets that condition and where
  `recycle_thread` frees a slot.
* `SuspInv`: a thread inside `condition_wait` is on no list yet, and at the head
  of `suspend_self` another thread is next. This is the strengthening that makes
  `OneRunning` inductive.

`LockInv` then gives mutual exclusion, and, by saying that the lock is held while a
thread is between its test and its insertion in the wait list, that no release is
lost.

**Joins, fork, idle thread and disk wait** (`ThreadsWaits`, on top of `SchedInv`).
None of the seven properties is inductive, and each says why in its strengthening:

* `JoinInv` is about every WAITING thread, since between the state change and the
  insertion in the list a thread is on no list; and a thread that `thread_join_any`
  has woken has an exited child until it runs, because only a parent frees its
  children. `WaitInv` ties the condition a thread waits on to its operation.
* `ForkInv`: the child is ahead of its parent on the ready list from the parent's
  yield until the switch. That is the FIFO argument, for a list of any length.
* `SlotInv`: a free slot has no parent and no lock, an exited thread no lock.
* `ModeInv`, `IntrInv`: the interrupt state a thread will get back is in its
  `suspend_self` frame, or after the disk wait in its `operation_single_blk` frame;
  wfi is reached only with interrupts disabled and nothing ready.
* `DiskInv`: the request is under `vio_lock`, so at most one thread waits for it, and
  interrupts stay disabled from the notification until it is on the wait list.

**Timer** (`FilesTimerProofs`, from `TimerAssumption`: any threads, tick period, clock
bound and conversion of microseconds). `CompareInv` is the strengthening: the M-mode
interrupt is masked exactly while the S-mode one is pending, and the comparator is
no later than the first alarm (when that comes before the next tick) and no later
than the tick. So whatever the ecall of `alarm_sleep` clears, the comparator raises
again. Lemmas on insertion in order and on the prefix of alarms that are due give
`SleepListExact`.

**Block driver** (`DriverProofs`, from `VioBlkAssumption`: any number of threads,
sectors and bytes). `OwnAnswerHolds` needs `QueueInv` (only the holder of `vio_lock`
has a request in the queue, and while it waits the request is pending, or its
interrupt is still to be handled) and `DataInv` (what the buffer, the status and the
disk hold once the device is done). `ReadsFollowPosHolds` adds `PosInv`: without
mixed calls, a thread that waits for the lock to read has left in `bufblkno` the
sector at `pos`, and each owner leaves it so.

**Serial driver** (`DriverProofs`, from `UartAssumption`: any number of threads, buffers
of any size that divides the range of the positions). `ThreadInv` says where a
thread can be given `cur` and the wait sets, `BufInv` relates positions to the steps
in progress, and `IerInv` is the argument for the unlocked `ier |=`: between its load
and its store only `uart_isr` can run, which only clears bits, so `ier` is a subset
of the loaded value. `NoLostWakeupHolds` and `InterruptsArmedHolds` follow.
`BytesInOrderHolds` adds `OrderInv`: the bytes that went in are the bytes that came
out followed by the contents of the buffer, less the one a thread has read and not
yet counted; the contents are read off the positions, and the lemmas show that a
put and a get move them by one also where a position wraps.

**Descriptors** (`FilesTimerProofs`, from `FilesAssumption`, and for the first two
theorems `~SharedExit`: no process ends while another one refers to its objects).
`DescriptorIntactHolds` needs `TableInv` (a process refers to an object by one
descriptor, free table entries are empty), `CountInv` (the count of an open object
is the number of descriptors in all tables plus the references that were lost) and
`UsingInv` (a waiting call still has its descriptor, or the reference it used is
lost, so nobody else's close is the last). The bound `MAXREFS < REFMOD - 1` keeps a
count from wrapping by forks.
`ImplementsIoRefHolds` maps every action to a step of `IoRef` by counting the
descriptors before and after. `~SharedExit` cannot be dropped: that is finding 3.
`ForkNamesChildHolds` needs `NameInv`: until a fork beside an ended child, the live
threads are the threads of the processes with their numbers, so the two searches of
`sysfork` find the same one.

**File system** (`KfsSteps`, `KfsProofs`, from `KfsAssumption` and `ImageAssumption`: any number of
threads and open files, any block size, any directory and lengths in which no file
but the last fills its last block; without that mkfs itself misplaces the files).
`LockDisciplineHolds` is about every disk. The other three assume `WritesAtPos`, a
disk that writes where `fs_write` has set the position; finding 2 shows that the
hypothesis is needed, since vioblk.c is no such disk. `KfsSteps` has the invariant and
what each disk access does to it, `KfsProofs` the returns, the theorems and the
refinement. They follow from one inductive invariant, `KfsInv`, which TLC has checked
on the `kfs` instance:

* `CallInv`: who is inside a call has the lock, and from the first answer on the
  cached inode is the one of its own file. This is what sharing one cache needs.
* `DiskInv`: the disk is the disk at the last return with the bytes the write in
  progress has done so far laid over its own file. With `WriteInv` (the cached block
  before write-back is the block on the disk with the next bytes in place) it gives
  `WritesReachFile`.
* `ReadInv`: the buffer of a read holds the bytes of its file from its position on.
* `MetaInv`, `BlockInv`, `FilesInv`: inodes and boot block are the ones of the image,
  data blocks are whole, positions stay within the blocks of the file.

The lemmas on the image show that inodes number the blocks as mkfs stores them and
that no two files share one; the ones on `div` and `%` that consecutive chunks cover
consecutive bytes. `FileSysImplemented` is the refinement: the content of the files is
that of the disk at the last return, and the position of a writer that is at
`write_inode` is the one it began at. A call's first step is `Call` of `FileSys`, its
return is the operation, disk accesses in between are stuttering; a disk error under
a write is the disjunct that leaves a first part of the bytes.

**Address spaces and heap** (`MemoryPages`, `MemoryProofs`, from `MemoryAssumption`:
any number of processes and pages, tables of any size, a user space that one entry of
the root reaches, any size of the heap's block, objects that fit in a page, and any
set of programs whose segments have `filesz <= memsz`, as ELF demands). All follow from one inductive
invariant, `MemInv`, which TLC has checked on the `memory` instance:

* `Owned(ram)`: the free list has no page twice, no page is two of free, mapped and
  the heap's, no two entries map one page, and free pages have no entries left in
  them. The last clause is needed because `walk_pt` does not clear a new table. Roots
  and kernel stacks are outside of these three sets, and each is of one process.
* No root has an entry that `walk_and_free_user` would follow: `walk_pt` gives the
  entries that lead to a table no PTE_U. So exit and exec free no user page
  (`FreesNothing`): the pages are lost to the free list, but none is freed that is in
  use.
* The active space is the one of the process that runs, and a segment `elf_load` has
  mapped is still mapped, writable, when the process comes back from the disk.

`Tree` is the fact the rest stands on: under `Owned`, the tables below two roots have
no page in common. So a new entry, a new page and a store change what one process
sees at one page (`LeafWrite`, `RootWrite`, `TableWrite`, `DataWrite`). `MemoryPages`
has these and one lemma for each C function that works on one page, `MemoryProofs` the
loops and the steps. The loops over pages (`memory_alloc_and_map_range`,
`memory_set_range_flags`, the loop of `memory_space_clone`, the filling of a segment)
are recursive functions; what each round keeps, the loop keeps, by the least round
that would break it (`Rounds`). `NextStep` shows for every action at once that it keeps
`MemInv` and is a step of `AddrSpaces`: fork copies, a fault and `MapSegment` give fresh
pages, `ReadSegment` gives the segment's content and permissions, exit takes one space
away, a store changes one page of the running process, and exec changes no space by
itself. `PagesOwned` counts the uses of a page; `AtMostOne` turns "no two" into that
count.

Only model-checked:

* liveness (`ReadyRuns`, `DiskWaitReturns`, `JoinReturns`, `SleepEnds`, `TicksCatchUp`,
  `ReaderServed`, `WriteReturns`, `OwnerReturns`): fairness and ENABLED are out of the
  prover's reach;
* `IoTerm`: `LineEndsNormal` and `ScreenShowsLine` compare folds over whole streams
  with each other, which takes induction over the stream.

## Not modelled

* Trap entry and exit: frame layout, stvec and sscratch, the PLIC registers. They
  would need a model of the hart's registers instruction by instruction; only
  SIE, the yield, the timer relay and the page faults are in.
* The virtio transport: negotiation is straight-line code at boot.
* The literal device's own ioctls, the formatting of ioprintf and the console: no
  state a property could be about. String functions: pure library code.
* `memory_space_create` and the pointer validation of memory.c: nothing calls them.
  The kernel's own mappings are fixed after boot.
* The checks of the ELF header are one way for `elf_load` to fail, not modelled one by
  one. The dispatch of system calls by number, msgout and pioref change no state.
* The filling of devtab at boot; tests and user programs.
* `process_exit` closing a file another process is using is shown in `Files`; `Kfs`
  has only the closes that come with the last reference.

`PROJECT.json` lists every part with its reason.

## Plan

1. `Trap`: stvec, sscratch and SIE on the way in and out of U mode, with calls that
   enable interrupts (uart.c:216).
2. Composition: `Kfs` over `VioBlk` in one specification, `Files` over the joins of
   `Threads`.
