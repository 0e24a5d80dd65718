# Yalnix in TLA+

Yalnix is a small operating-system kernel for a simulated single-CPU machine
with paged memory. The kernel proper is the C code at the top of the
repository; `etc/`, `lib/`, `include/` and `sample/` are the course framework
(hardware simulation, user library), `progs/` the programs it is tested with.
This directory models the kernel, its loader and the parts of the user library
with logic of their own. It holds the instances that TLC checks and the proofs
that hold for every size.

## 1. Inventory

| Component | State | Operations | Modelled by |
|---|---|---|---|
| Processes, scheduling (`process.c`, `syscalls.c`, `traphandlers.c`, `contextswitch.c`) | `activePCB`, `ready_q`, `blocked_q`, `defunct_q`, the PCB fields, one saved kernel context per process | `SwapProcess`, Fork, Exit, Wait, Delay, clock trap, math/illegal traps | `Process`, `ProcessTty`, `Sched` |
| Clock and Delay (`traphandlers.c`, `CheckBlocked` in `kernel.c`) | `clock_ticks` | clock trap, scan of `blocked_q` | `Process`, `DelayTiming` |
| Frames and address spaces (`process.c`, `load_program.c`, `KernelBrk`, `TrapMemoryHandler`, `AllocatePFN`) | `pfn_list`, page tables, kernel stacks, segment indices, free region 0 pages | Fork, Exec, Exit, Brk, stack growth | `Memory` |
| Translation buffer (hardware, flushed by `process.c`, `contextswitch.c`, `load_program.c`) | cached frames of region 1 | use of a page, switch, Exec, Brk | `Tlb` |
| Boot and kernel memory (`kernel.c`, `contextswitch.c`) | region 0 page table, `kernel_brk` | `SetRegion0_pt`, `SetKernelBrk`, Fork's and `KCCopy`'s borrowed page, `KCSwitch` | `KernelHeap` |
| Loader (`load_program.c`, `KernelExec`) | the new program's segments, argument block, user context | `LoadProgram` step by step | `Loader`, `Memory` |
| Terminals (`KernelTtyRead`, `KernelTtyWrite`, two traps) | line buffers, read and write queues, open/closed flag | read, write, receive, transmit | `Tty`, `ProcessTty` |
| Pipes (`pipe.c`, `KernelPipe*`) | list of pipes, buffers, waiters | init, read, write, reclaim | `Pipe` |
| Locks, condition variables, `KernelReclaim` | id lists, owners, waiters | init, acquire, release, signal, broadcast, wait, reclaim | `Sync`, `Torture` |
| Queues and lists (`queue.c`, `list.c`) | linked nodes | add, pop, peek | `QueueOps` (as sequences) |
| User heap (`yuserlib/yuser/libc.c`) | `current_break`, malloc's blocks | brk, sbrk, Brk, `init_heap`, `grow_heap` | `UserHeap` |
| Formatted output and numbers (`vsnprintf.c`, `strntoumax.c`) | position in format, buffer and count | one step per character of the format | `Printf`, `Numerals` |

How they interact. Every component of the kernel changes the others' state
through the PCB and the queues: a process that blocks is moved by
`SwapProcess`, another handler (Exit, the clock, a terminal interrupt, a writer,
a release) puts it back into `ready_q`. Nothing is locked because handlers are
not interrupted; but a handler that calls `SwapProcess` stops there and **the
handler of another process continues after its own call of `SwapProcess`**. What
is hard is exactly this: which state a handler finds when it continues, which
code runs when (the scan of `blocked_q` comes after the switch), what a handler
has changed when it fails half way, and whether a process ever continues.

What makes each component correct:

- processes: each in exactly one place; parents, children and `num_children`
  agree; no wake-up is lost or given to the wrong process; Wait returns the
  status of the caller's own child; every ready process runs;
- Delay: ends, and is short only by the scans owed when it began;
- frames: one owner each, none lost, the heap mapped, the translation buffer in
  step with the page table;
- kernel memory: the running process on its own stack, the heap backed, region 0
  mapped one to one;
- loader: `main` finds its arguments;
- terminals, pipes: bytes arrive once and in order, two writes are not mixed,
  waiters are woken and writes return;
- locks: a waiter is in one queue; an id has one user;
- user library: its break and the kernel's agree; nothing is written behind a
  buffer; numbers that are printed can be read.

The list of hazards, with the line where each bites, is in `PROJECT.json`.

## 2. Modules

| Module | Contents |
|---|---|
| `QueueOps` | queues as sequences, and the loops "pop everything, add some of it back" as operators, without recursion |
| `Process` | process management with births and deaths |
| `LifeCycle` | abstract specification: what Fork, Exit and Wait promise, implemented by `Process` |
| `DelayTiming` | extends `Process` with history variables about clock interrupts |
| `ProcessTty` | extends `Process` with reading from a terminal |
| `Memory`, `Tlb` | page frames and address spaces; the translation buffer on top |
| `KernelHeap` | region 0 |
| `Loader` | `LoadProgram` |
| `Sched` | the scheduler for a fixed set of processes, which `Tty`, `Pipe` and `Sync` extend |
| `Tty`, `Pipe`, `Sync` | terminals; pipes; locks, condition variables and Reclaim |
| `ByteStream` | abstract specification: bounded streams of bytes, implemented by `Tty` (reading) and by `Pipe` |
| `Torture` | two programs of `progs/torture.c` on top of `Sync` |
| `UserHeap` | the library's break on top of `KernelBrk` |
| `Numerals`, `Printf` | `strntoumax`; `vsnprintf` |
| `MC...` | instances for TLC |
| `QueueTheorems`, `SchedProofs` | lemmas about queues and loops, and about `Sched` |
| `ProcessProofs`, `MemoryProofs`, `HeapProofs`, `SyncProofs`, `PipeProofs`, `TtyProofs` | theorems, see section 5 |

Modules whose theorems share a proof module have prefixes where their names
would meet (`LInit`, `FNext`, `TSpec`).

An operator with a suffix (`AfterPop_Peek`) preceded by a comment "Mutant of"
is a plausible mistake in the definition it is named after; putting it in that
definition's place makes the property that `PROJECT.json` names fail.

### Process

A PCB is named by its pid. Pids come from `helper_new_pid` (a library) in
increasing order and are never retired, so a pid is never reused. `life[p]` says
what became of the PCB; it is not in the code, which has the pointer instead.

`pc[p]` is the saved kernel context: where `p` continues when `KCSwitch` selects
it. An action is one handler up to its call of `SwapProcess`, or from there to
its end (`Resume...`); while the active process is inside a handler only its
`Resume` action is possible, as traps are disabled in kernel mode. `Sched` and
the modules built on it work the same way.

| Action | Code |
|---|---|
| `TrapClock`, `ResumeClock`, `TrapClockIdle` | `TrapClockHandler` before and after the switch, and when there is nothing to switch to |
| `KernelFork`, `KernelForkError`, `KernelForkNull`, `ResumeNew` | `KernelFork`: success, ERROR after `init_process`, NULL from `init_process`, and the child's return from `KCCopy` |
| `Exit`, `Abort` | `KernelExit` with the program's code, and with ERROR after a failed Exec or a bad address |
| `TrapFault` | `TrapMathHandler`, `TrapIllegalHandler` |
| `KernelWaitReap`, `KernelWaitBlock`, `ResumeWait` | `KernelWait` |
| `Delay`, `ResumeDelay` | `KernelDelay` |

The loops of `KernelExit` and `KernelWait` rotate whole queues. As the elements
are distinct (`OnePlace`, which is proved) a rotation is described by the set of
processes it keeps. `ForkMayFail` and `MayFault` keep apart the runs in which
Fork may fail and programs may fault.

`LifeCycle` leaves out queues, contexts and scheduling. A process is born, runs
and dies with a code; the code goes to the parent's Wait, is kept, or is dropped.
`Lifetimes` maps its variables: `stage` is `life` with the ways of being gone put
together, `waiting` are the processes with `BLOCKED_WAIT` in `blocked_q`,
`answer[p]` is the `blocked_code` of a process that was taken out of Wait and has
not run yet. What the code does oddly is in it too: a child whose Fork failed is
waited for ("lost"), and nobody is told of a process that faulted.

Assumed: kernel `malloc` succeeds (except for page frames, which are modelled);
the idle program never exits, forks or blocks (`progs/idle.c`); `KernelExit`'s
accesses to the PCB it has just freed still see it, as nothing allocates before
the switch. System calls that return without changing anything (`GetPid`, an
invalid argument, `Wait` without children, `Delay(0)`) are stuttering steps.

### DelayTiming and ProcessTty

`asked`, `owed` and `elapsed` record for a process in Delay its argument, how
many scans of `blocked_q` were outstanding at the call (processes swapped out
inside the clock handler) and how many interrupts came since.

`ProcessTty` adds the terminal's read queue, which the loops of `KernelExit` do
not search. Of the line buffer it keeps the number of bytes: a line of any length
comes in, as much of it as fits, whether or not there is something left to read,
and a read takes any part of what is there (its length and the newlines decide).
`missed` records the children that exited while their parent was in that queue.
A read that leaves bytes makes the next reader ready and leaves it in the queue
(`WakeNext`). From there on a process can be in several queues and can be freed
while it is in one, which `Process`, where a process is once in a queue, does
not describe: `peeked` is set and the model ends. `Tty` goes on from there, with a
fixed set of processes.

### Memory and Tlb

The order of `pfn_list` is kept, since `AllocatePFN` takes the frame freed last
and treats frame 0 as an error. Loops that allocate until the first failure are
`Drawn` (what is left) and `Mapped` (what was mapped). Calls that use frames run
to their end without a switch. A page table entry is the frame of a valid page
or `INVALID_FRAME`; contents and protections are left out. A truncated
executable (LoadProgram returns KILL) has the same effect on frames as a
successful Exec. `mishaps` is a history variable naming what has failed so far;
the invariants say which failure can break what.

`Tlb` adds who runs and what the translation buffer holds for region 1. The
buffer is hardware: it is taken to keep an entry until somebody flushes it.

### KernelHeap

Pages of region 0 as page table entries with valid bit, protection and frame.
`FillTable` and `EnableVM` are boot; `SetKernelBrk` is what kernel `malloc`
calls, at any time; `KernelFork` and its two failures borrow the highest invalid
entry; `KCSwitch` and `KernelExit` exchange the stack's entries. `spoilt`
records that a Fork failed inside `CopyUPT`.

### Loader

`LoadProgram` in eight steps with every early return, for every argument list of
the instance. Memory is the bytes of the new stack; a word knows which of its
bytes is where, so that an overlap or a misplaced pointer is visible. The
copying loop is a recursive function of the argument's number.

### Tty, Pipe, Sync

`Tty`: a process blocked on a terminal is only in that terminal's queue. The
write side is the loop over chunks: `KernelTtyWriteFirst` and
`KernelTtyWriteBlock` enter it, `ResumeTtyWrite` continues it. `busy` is the
hardware. `typed` and `given` record what went in and out.

`Pipe`: a pipe is a pointer, its id a field, because ids are used again. The
three places where the code writes `=` for `==` are modelled as what they do:
`Renamed` overwrites a pid and takes the head of `blocked_q` for the process to
wake. A NULL or freed pipe that is used is a crash, after which nothing runs, and
so is the id of the list's head (`UseHead`), which `get_pipe` and `remove_pipe`
match although its queue was never set. `crowded` is a history variable: the
head of `blocked_q` may have been another process than the one meant.

`Sync`: the four status codes of `include.h` are parameters. In `include.h` they
are all 0, so a lock that was handed out cannot be told from one that was not
and every `Acquire` returns ERROR; this is what `Torture` shows. The run
`locks_cvars` gives them different values, to show what the handlers do when
the tests can tell. Programs are assumed (`MayReclaim`, `MayUse`) to give back
only what they were given and do not use any more, which the kernel does not
test. The first id that CvarInit hands out is one past the end of the arrays;
using its queue is a crash.

### UserHeap, Numerals, Printf

`UserHeap`: the library counts bytes and calls the kernel only when the break
moves to another page. `malloc` itself (`new_heap.c`) is not in the repository:
it calls `init_heap` once and `grow_heap` when it needs more. Other processes
take and return frames at any time. `odd` records that the program took memory
away from malloc.

`Printf` is `vsnprintf`'s machine character by character. `buffer` has `Slack`
cells more than the caller gave, to see whether they are touched; `Runaway` is
the loop that a negative precision starts (section 4), with `state` "lost". The reference
(`Text`, `WholeText`) is written from what directives mean and shares no
operator with the machine for padding, grouping or digits. Integer types have 3
to 6 bits, so that wrap-around and the most negative number are among the
values.

## 3. Runs

| Run | Module | Checks | Shows |
|---|---|---|---|
| `process_all_failures` | `MCProcess` | `TypeOK`, `OnePlace`, `ChildCount`, `NoExitedParent`, `NoLostWakeup`, `WaitStatus`, `ContextMatches`, `LivesAsPromised` | processes stay consistent, and implement `LifeCycle`, with 3 forked processes, failing Forks, faults, exit codes 1 and 2 (which collide with `BLOCKED_DELAY` and `BLOCKED_WAIT`) |
| `process_no_failure` | `MCDelay` | `ScanLedger`, `WaitOnlyForChildren`, `ReadyRuns`, `DelayEnds` | without failures only a process with children blocks in Wait, interrupts and scans balance, every ready process runs, every Delay ends; no deadlock |
| `process_tty` | `MCProcessTty` | `LiveInOnePlace`, `LineHasReader`, `CountedOrMissed` | births, deaths and Delay mixed with reading from a terminal, lines typed ahead, lose nobody until a reader is left in the queue, and spoil `num_children` by exactly the exits during a TtyRead |
| `frames` | `MCTlb` | `FramesNotShared`, `FramesConserved`, `HeapMapped`, `StaleOnlyGiven` | no frame shared or lost except by the named failures; the heap mapped; what the TLB can hold that the page table does not |
| `terminals` | `MCTty` | `WriteNotInterleaved`, `ScheduledOnce`, `ReadIsStream`, `WriteReturns` | two processes, the clock and the terminal's interrupts |
| `pipes` | `MCPipe` | `NoLostReader`, `PidsKept`, `PipeIdsDistinct`, `PipeIsStream` | three processes, up to three pipes that come and go, ids that no pipe has, the head's id |
| `locks_cvars` | `MCSync` | `QueuedOnce`, `FreeIdsFree` | three processes, two locks, two condition variables, with codes that differ |
| `kernel_heap` | `MCKernelHeap` | `OwnStack`, `HeapBacked`, `IdentityMapped`, `FramesDistinct` | boot, kernel malloc, Fork and its failures, switches |
| `loader` | `MCLoader` | `ArgsIntact` | 156 argument lists, three executables, every failure of LoadProgram |
| `user_heap` | `MCUserHeap` | `BreaksAgree`, `BlocksTile` | malloc, the program and other processes compete for memory |
| `printf` | `MCPrintf` | `WithinBuffer`, `Rendered`, `ReadsBack`, `Advances` | every flag with every conversion; two and three directives; buffers of 0 to 20 cells |
| `torture_cvar` | `Torture` | `PrintsAfterSignal` | violation: with the codes of `include.h` Bouncer prints unsignalled |

Outside of `Process`, `TypeOK` is a conjunct of one of the invariants.

Bounds, and why they are enough.

- `process_all_failures`: `MaxPid` 4 is idle, the first program and three more
  processes: a parent, a child, a grandchild and a sibling, so that one exit finds
  a parent and children in different queues.
- `process_no_failure`: `MaxPid` 3, as time and liveness need two processes that
  compete; `MaxDelay` 2, so that a count-down has a step in the middle.
- `process_tty`: a buffer of 2 and three lines, so that a line is read in two
  parts, is typed before the last is read, and does not fit.
- `frames`: 9 frames, 5 pages, so that a second process fits with one frame to
  spare, frames run out in every operation, and heap and stack are two pages
  apart; one region 0 page to copy through, so that a failing Fork exhausts it;
  3 calls of Exec, Brk or stack growth (`MaxCalls`), because their repetition
  only permutes `pfn_list`.
- `terminals`: two processes and reads of 3 bytes, which leave nothing of a line
  (`WholeLines`); a line buffer of 3 and lines of 2 and 3 bytes, so that the second
  line fits, fits in part, or not at all; writes of 2 and 7 bytes, so that a
  write takes one chunk, or three with a short last one; three writes, so that a
  third joins a queue while two are under way; `MaxInput` 5.
- `pipes`: a buffer of 2 with writes of 2 and reads of 1 and 2, so that a
  write is cut short, a read gets less than it asks for and a read leaves
  something; three processes, so that two readers wait for one writer; three
  pipes, so that one is removed from the middle of the list before the next is
  made; 4 bytes in total (`MaxBytes`).
- `locks_cvars`: three processes, so that a third takes a lock between the
  release and the wake-up of the second.
- `kernel_heap`: 6 pages below a stack of 2, 21 frames, so that the third
  Fork runs out inside `CopyUPT`.
- `loader`: pages of 16 bytes and arguments of 0 to 4 characters, so that the block
  takes one to four pages and every rounding occurs.
- `user_heap`: pages of 16 bytes, addresses in and between pages, 9 frames for 8
  pages.
- `printf`: see `MCPrintf`; flags are those whose combinations the code treats.

Symmetry is not used: pids, frames and queue positions are ordered.

Fairness. `Process` (`Fairness`): weak fairness of `Resume`, as a handler that
continues runs to its end; strong fairness of the clock, as the timer interrupts
again and again and an interrupt that arrives in kernel mode is delivered on
return to user mode, so the clock trap is enabled again and again, not
continuously. `Tty` (`FairSpec`): the same, and strong fairness of the transmit
interrupt of every terminal, which the hardware promises for every `TtyTransmit`.
No fairness is assumed of programs or of the user at the terminal, so `TtyRead`
need not return.

Deadlock is checked except where the machine really stops: `KernelForkNull` uses
a NULL pointer (`process_all_failures`, `frames`), and so do the crashes of
`Pipe` and `Sync`.

## 4. Disagreements met while modelling

One of them has a run of its own. `torture_cvar`: `UNUSED_LOCK` and `FREE_LOCK`
are both 0, and so are `UNUSED_CVAR` and `USED_CVAR` (`include.h:52-55`). Acquire
and CvarWait return ERROR for every id (`syscalls.c:969`), so Bouncer, which
"Waits for a cvar signal, prints a message" (`progs/torture.c:8`), never waits.

The others are part of the models; the properties are stated so that they hold
beside them, and the comments of the properties say what they exclude.

- *Failed Fork.* `init_process` has incremented `num_children` when `KernelFork`
  returns ERROR (`syscalls.c:65`) and nobody decrements it: a later Wait blocks
  for ever, where `syscalls.c:264` says "so calling wait with no children will
  just give ERROR". `WaitOnlyForChildren` holds without failing Forks.
- *Faults.* The math and illegal traps put the process into `defunct_q` without
  looking for a parent (`traphandlers.c:262`), where `syscalls.c:211` says "for
  now only condition for defunct is if it has a ready/blocked parent"; its
  children and its frames stay as they are.
- *Wait after TtyRead.* `KernelExit` looks for the parent in `ready_q` and
  `blocked_q` (`syscalls.c:147`). A parent in TtyRead is in neither: its child is
  deleted as an orphan, `num_children` stays, and its Wait blocks for ever.
  `CountedOrMissed` says that this is the only way in which the count goes wrong
  (beside a failed Fork).
- *Early Delay.* `TrapClockHandler` swaps first and scans later
  (`traphandlers.c:153`): the process swapped out at interrupt *k* scans when it
  next runs, and counts a Delay down that began after the interrupt. `ScanLedger`
  says by how much a Delay can be short.
- *Exec.* `LoadProgram` runs out of frames, frees the address space and returns
  ERROR (`load_program.c:219`); `TrapKernelHandler` reacts by `KernelExit`, which
  frees it again. `FramesNotShared` excludes it.
- *KILL.* `LoadProgram` returns KILL when a segment cannot be read
  (`load_program.c:290`); `KernelExec` tests for ERROR only (`syscalls.c:113`) and
  the process goes on without a program, where `load_program.c:126` says "we are
  committed to either loading succesfully or killing the process".
- *Partial Brk.* A Brk that runs out of frames leaves pages valid above the break
  (`syscalls.c:376`), and because of them every later one is refused
  (`syscalls.c:368`), however many frames are free by then.
- *Brk and the TLB.* `KernelBrk` unmaps pages without flushing
  (`syscalls.c:405`), where `include/hardware.h:261` says the buffer "must be
  flushed during a context switch or when changing page tables".
  `StaleOnlyGiven` bounds the effect.
- *Frame 0.* `KernelFork` (`syscalls.c:71`) and `KCCopy` (`contextswitch.c:52`)
  leave frame number 0 in the entry they copied through, and `SetKernelBrk` makes
  an entry valid without setting its frame. `IdentityMapped` shows that this is
  harmless until a Fork fails inside `CopyUPT`.
- *Unaligned SetKernelBrk.* The page that holds the address asked for is not made
  valid (`kernel.c:478`); `HeapBacked` speaks of the pages below it.
- *Order of readers.* A woken reader is taken out of the queue before it runs
  (`traphandlers.c:303`), so a TtyRead called in between takes its line, where
  `Checkpoint 5 Writeup.md:57` says the order of reading is the order of calling.
- *Peeked reader.* The next reader is made ready but stays in the queue
  (`syscalls.c:518`), where `syscalls.c:516` says "move next reader". It is
  then in `ready_q` and in the terminal's queue, and the next line wakes it in place
  of one that waits, or out of whatever it waits for by then. If that is its own
  TtyWrite behind another writer's, it transmits between that one's chunks, and
  when it is done it takes the other writer off the write queue
  (`syscalls.c:608`), which nothing wakes any more. All of this takes a reader in
  the queue while a read leaves something in the buffer: three readers and two
  lines, as in `progs/ttyread_test.c`, or two of which one asks for less than a
  line. `ScheduledOnce`, `WriteNotInterleaved` and `WriteReturns` are stated for
  the rest (`WholeLines`: nobody reads, or two processes read whole lines), and
  the properties of `ProcessTty` up to the first such reader (`~peeked`).
- *Transmit interrupt.* It puts the head of the write queue, when that is ready
  already, into `blocked_q` as well (`traphandlers.c:330`).
- *Pipes.* `=` for `==` (`syscalls.c:767`, `798`, `917`) wakes the head of
  `blocked_q`, whoever it is, under another's pid; the wake-up loops pop from the
  queue whose size bounds them, so half of the waiters stay (`syscalls.c:905`,
  where `898` says "signal all readers and writers"); a PipeWrite to an id that no
  pipe has uses a NULL pointer (`syscalls.c:849`). `NoLostReader` and `PidsKept`
  hold until a second pipe is made, a process delays itself or a third one waits
  (`~crowded`): when three wait for one writer, the write makes two of them ready,
  the second under the pid of the first.
- *Negative precision.* `vsnprintf` goes on reading digits after the `*` of a
  precision (`vsnprintf.c:258`): `%.*3s` with a negative argument makes `prec`
  smaller than -1 and with it `slen` (`vsnprintf.c:411`), and the loop that counts
  `slen` down to 0 reads on behind the string. The buffer is not exceeded.
- *Acquire.* A process woken in Acquire takes the lock without looking whether a
  third one has it by now (`syscalls.c:979`).
- *Reclaim.* A second Reclaim of an id puts it on the free list twice
  (`syscalls.c:1086`). `FreeIdsFree` holds for programs that do not do that.

## 5. Proofs

Proved with TLAPS, for all values of the constants that satisfy the assumptions
named in the modules (`MaxPid >= 1`, `NProc >= 1`, integer exit codes, positive
sizes, pages that are a multiple of 8 bytes, the kernel's segments in
their order, a first heap of at least one block's header, a pointer no wider than
the widest integer: what the build guarantees).

| Module | Theorems | Inductive invariant |
|---|---|---|
| `ProcessProofs` | `TypeCorrect`, `OnePlaceCorrect`, `ContextCorrect`, `WaitStatusCorrect`, `StatusKeptCorrect`, `ChildCountCorrect`, `NoExitedParentCorrect`, `NoLostWakeupCorrect`, `WaitOnlyForChildrenCorrect`, `LivesAsPromisedCorrect` | `TypeOK /\ Births /\ OnePlace /\ Contexted`, and on top of it `WaitStatus` or `Kin` |
| `ProcessProofs` | `ScanLedgerCorrect` (of `DelayTiming`) | `LedgerInv` |
| `ProcessProofs` | `LiveInOnePlaceCorrect`, `LineHasReaderCorrect`, `CountedOrMissedCorrect` (of `ProcessTty`) | `ReadInv` |
| `MemoryProofs` | `FramesNotSharedCorrect`, `FramesConservedCorrect`, `HeapMappedCorrect`, `StaleOnlyGivenCorrect` | `MemoryInv`, `TlbInv` |
| `MemoryProofs` | `ArgsIntactCorrect` (of `Loader`) | `LoadInv` |
| `HeapProofs` | `HeapBackedCorrect`, `OwnStackCorrect`, `IdentityMappedCorrect`, `FramesDistinctCorrect` | `KernelHeapInv` |
| `HeapProofs` | `BreaksAgreeCorrect`, `BlocksTileCorrect` (of `UserHeap`) | `BreakInv` |
| `HeapProofs` | `WithinBufferCorrect`, `TerminatedCorrect`, `AdvancesCorrect` (of `Printf`) | `FormatInv` |
| `SyncProofs` | `FreeIdsFreeCorrect`, `QueuedOnceCorrect` | `SyncInv` |
| `PipeProofs` | `PipeIdsDistinctCorrect`, `PipeIsStreamCorrect`, `NoLostReaderCorrect`, `PidsKeptCorrect` | `PipeList`, `StreamInv`, `CalmInv` |
| `TtyProofs` | `ReadIsStreamCorrect`, `WriteNotInterleavedCorrect`, `ScheduledOnceCorrect` | `StreamInv`, `TurnInv` |

Each of them states a property that a run checks on a small instance, except
`TerminatedCorrect` and `StatusKeptCorrect` (which `LivesAsPromised` contains).

**Loops.** The loops of the handlers are sequences taken apart, or recursive
functions over `0 .. n`. That such a function exists and what it computes needs
induction. It is done over sets of numbers: a nonempty set of numbers up to `n`
has a greatest one (`GreatestExists`, by induction on `n`), so a set that holds 0
and with each number the next is all of `0 .. n` (`UpTo`), and a loop of `n`
steps has a run (`LoopExists`). `ScanRuns` and `BroadcastRuns` apply it to the
scan of `blocked_q` and the broadcast of PipeWrite, `SumRuns` and `CopyRuns` to
the two loops of `LoadProgram` over its arguments, `PowerRuns` to powers of a
base in `vsnprintf`.

**Processes.** `TypeOK` is inductive by itself. `OnePlace` is not: that a new
child is in no queue yet needs "pids from `nextpid` on are unborn" and that the
loops over kin do not meet the running process needs "a parent is older than
its children". Both are in `Births`. Two lemmas carry the weight: `SwapPlaces`
(what `SwapProcess` does to the sets of processes in the queues) and
`ScanPlaces` (the same for the scan of `blocked_q`). They rest on
`QueueTheorems`: append, pop, rotation and `Keep` preserve the absence of
duplicates and change the set of elements as expected.

`ContextMatches` becomes inductive, on top of `OnePlace`, with two facts
(`Contexted`): idle is only ever swapped out by the clock and never blocks
(`SwapProcess` falls back on idle without looking at its PCB), and a process
inside Wait has no ticks left (`KernelWait` clears `blocked_code` when it returns
but not `clock_ticks`).

`WaitStatus` is inductive on top of that, from three facts about any step:
nothing is written to a PCB after it was deleted (`FreedKeeps`), the status of
a woken waiter is not overwritten (`StatusStep`, which is also `StatusKept`),
and only the exit of a child makes a process a woken waiter (`WokenBy`).

`ChildCount`, `NoExitedParent` and `NoLostWakeup` are inductive only together
(`Kin`): Exit decides by `num_children` and Wait by the queues, so a wrong count
loses a wake-up and a lost orphan spoils the count. The count is a cardinality;
each step changes the set of children by at most one process or empties it.

**The life cycle.** That `Process` implements `LifeCycle` follows from `KinInv`, the
conjunction of all of the above, action by action. Who is in `KernelWait` is
blocked there or has been taken out (`WaitStates`), so a step concerns the Wait of
a process only if it changes its context, its place in `blocked_q` or its
`blocked_code` (`Unconcerned`): the clock, Delay and the resuming of other
handlers are stutters. KernelExit searches three queues, and only when the
count of children or the parent's pid says so; that what it finds is all the kin
there is (`KinFound`) needs `ChildCount` and `OnePlace`. So does Wait: a count that
is not 0 means a child, and if none is in `defunct_q` it is alive or lost.

**Delay.** `ScanLedger` counts the processes that were swapped out inside the
clock handler and still owe a scan. `LedgerInv` adds that a PCB that does not exist
owes none; each step adds or removes at most one member of that set.

**Processes that read.** The lemmas about types, births and places are stated for
a kernel in which some processes, a set `A`, wait in queues that `Process` does
not know, and contexts are in a set `C` that may have more than `Contexts`
(`Placing`, `Typed`). `Process` is the case of an empty `A`; in `ProcessTty`,
`A` is what the terminal's queue holds. `ReadInv` holds up to the first reader that
is left in the queue. It adds that who is in that queue continues in `KernelTtyRead`
and `LineHasReader`: a step of `Process` leaves who is ready in `ready_q`, or one
of them running, in the context it was in (`ReadyStay`), so the reader that was
woken for a line is not lost on the way. For `CountedOrMissed` the children that
count are a set with the missed ones in it (`Counted`): the exit of a child whose
parent is in `A` moves it from one part of the set to the other, and every other
step changes set and count as in `Process` (`CountStepIn`).

**Frames.** `MemoryInv`: the segments of a live process are mapped and apart
(`Segments`), no frame has two owners until an Exec has run out of frames
(`Owners`), every frame has an owner until a failure loses some (`Owned`), and the
table of a process that was not made is empty (`Blank`: Fork copies into it). `Owners` and `Owned` speak of frames, stacks, tables and
the free list at once, because Fork, Exec and Brk move frames between all of
them; that a frame moves from one owner to another is a statement about the order
of `pfn_list`. `StaleOnlyGiven` is inductive given the facts about the page tables,
which hold with the buffer as without (a lemma, `TlbImplementsMemory`).

**Loader.** `LoadInv` follows the program counter: once the size was checked the
block of strings and pointers is inside the stack's pages, the arguments are saved
before the old pages go, and the new stack is untouched until they are written.
The rest is about one step, `Args`. The strings begin at the partial sums of
their lengths (`SumRuns`, `SumGrows`), so no two of them meet and none meets
the pointers below (`Addresses`, `StringPlaces`), whatever the rounding;
the copying loop keeps "arguments below i are where `main` looks for them"
(`CopyStep`), and the two NULL words are written beside them (`BlockHeld`).

**vsnprintf.** `FormatInv`: as long as there is room, pointer and count agree, and
only the n cells of the buffer have changed (`Inside`). Every piece of code that
stores keeps that: `EMIT` (`EmitInside`), and the number that is written from right
to left after pointer and count were advanced over it (`NumberInside`). That the
machine has a next state at all needs that digits can be counted: dividing a value
of `uintmax_t` again and again leaves nothing, and only 0 has no digit
(`DigitsCounted`). `AdvancesCorrect` goes through the machine's states: a character
that is looked at again is looked at in a later state.

**Kernel memory.** `KernelHeapInv` has a part for each property and one for boot
(`Booting`). `IdentityInv` is stronger than `IdentityMapped`: the entry that pages
are copied through is always the one below the stack, so that the frame number 0
left there is in nobody's way.

**The heap of a program.** `BreakInv`: the pages below the kernel's break are
mapped, the frames of the process and the free ones are not more than there are
(so that giving pages back does not overflow the list), and the kernel's break is
the page of the library's (`Agrees`). A failing `Grow` leaves pages mapped above
the break, but moves no break; `Shrink` cannot fail. The library compares rounded
addresses and the kernel rounds again, and the arithmetic (`UpMultiple`,
`PageOfAddress`) holds for every page size. `BlocksTile` needs that the break has
not gone below `heap_end`, which is what `odd` records.

**Locks.** `SyncInv`: the free ids (`IdsInv`), every process in one place
(`Places`), and nobody holds or waits for a lock that is not handed out (`Quiet`,
from `MayReclaim`).

**Pipes.** `PipeList`: the list is in the order of the ids, which is why the last
id plus one is new although ids are used again. `StreamInv`: the bytes accepted
are those delivered followed by those in the buffer; with it PipeWrite is
`Accept` or a stutter of `ByteStream`, and PipeRead is `Deliver` or a stutter,
whoever is woken. `CalmInv`: as long as nothing was crowded, the only pipe's queue
and `blocked_q` are the same sequence of at most two, so the process that is taken
for the one to wake is the one, and half of the queue is its head. The number of
processes and the lengths of Delay are not bounded.

**Terminals.** `StreamInv`: a line buffer holds what was typed and not yet handed
out, and a process in a call is at a terminal that exists; reading implements
`ByteStream` whoever is woken and however often. `TurnInv`, under `WholeLines`:
every loop that makes a process ready goes by its `blocked_code`, so who runs or
is ready is not blocked, and is there once (`OnceReady`); who is queued to read is
blocked for that (`Readers`); when somebody is queued although there is input, the
input is one line and another reader has been woken for it, so nothing is left
when that one takes it and nobody is peeked at (`OneLine`); the first in a write
queue is ready or waits for its transmission and the others have not begun
(`Writers`). A writer that comes back is not blocked, so it is the first of its
queue, although it tests only the terminal: that is why no two writes mix.

Only model-checked, and why:

- liveness (`ReadyRuns`, `DelayEnds`, `WriteReturns`): fairness is out of the
  prover's reach;
- `Rendered`, `ReadsBack`: they say that two recursive definitions, the machine's
  and the reference's, compute the same text or number for formats and numerals of
  any length, which needs an induction over data that the library's theorems do not
  give this prover.

## 6. Not modelled

- The nodes and pointers of `queue.c` and `list.c`: `queue_remove`, `queue_find`
  and `queue_delete` are empty, and no kernel code calls the iterators.
- `vsscanf`, the character tables and the string functions of the user library:
  table look-ups and one-loop functions without state.
- `new_heap.c` (malloc), the hardware and `helper_new_pid`: not in the repository
  as source. `sample/` and the linker scripts: course material.
- Contents of pages and segments, page protections in region 1, the copying of
  arguments in and out of registers, trace output.
- Accesses one past the end of an array (`lock_id` equal to `MAX_LOCKS`, the last
  entry of the interrupt vector, a terminal number out of range): what they hit
  depends on the linker.
- Test programs other than `idle` and the two of `torture.c`: they are sequences
  of system calls, all of which the modules allow.
- The disk trap: its handler only prints a message.

## 7. Plan

What the models leave open:

- births and deaths after a reader was made ready and left in the terminal's queue
  (`peeked`): a process can then be freed while it is in a queue, which takes a
  `Process` in which PCBs in a queue may be dangling and a queue may hold one twice;
- a property of `Tty` that goes on after that point, beside `ReadIsStream`;
- pipes once they are crowded: which waiters are still woken, and under which pid;
- the composition of `Process` with `Sync` (a parent blocked on a lock when its
  child exits), and with the writing half of a terminal;
- several terminals in `ProcessTty`.
