# ZiranOS in TLA+

ZiranOS is a single-core x86_64 teaching kernel in Rust (`src/src`, `src/boot`)
with a Node.js bridge (`src/ctf-server/bridge.mjs`) that serves one emulated
kernel per WebSocket and web pages that run the kernel in an emulator in the
browser (`src/web`). This directory models the parts whose correctness depends
on order (who runs, who holds which lock, when interrupts are on, which of
several callbacks comes first) and the memory and file-system algorithms whose
correctness depends on long sequences of legal calls or on arbitrary input.

Paths below are relative to the repository (`src/` is its root here, so the
kernel's files are `src/src/*.rs`).

## Inventory

| Component | State | Operations | Talks to | Hard about it |
|---|---|---|---|---|
| Task scheduler (`task.rs`, `boot/switch.asm`) | `SCHED`: `tasks`, `ready`, `current`; one parked stack per task | `init`, `spawn`, `yield_now`, `preempt`, `task_exit`, `snapshot`, `switch_context` | called by tasks, by the timer IRQ; allocates from the heap | re-entry from the IRQ, the lock across a switch, IF saved on one stack and restored on it much later |
| Boot sequence, idle task (`lib.rs`) | position in `kernel_main` | self-tests, three schedulers, `hlt_loop` | everything | runs as task 0 with interrupts on while other tasks exist |
| Interrupt dispatch (`interrupts.rs`, `boot/isr.asm`) | IF, the frames on the stack | IRQ0, IRQ1, exceptions, `int 0x80`; `save_and_disable`, `restore` | PIC, PIT, scheduler, ring | a tick between any two instructions |
| PIC and PIT (`pic.rs`, `pit.rs`) | pending and in-service bits, tick count | `init`, `send_eoi`, tick | dispatch | an EOI missing or late silences a line |
| Keyboard ring (`keyboard.rs`) | `RING`, `HEAD`, `TAIL`, `SHIFT` | `handle_interrupt`, `push`, `pop` | producer in the IRQ, consumer in the shell | lock-free, wrap, full against empty |
| Shell (`shell.rs`) | line, cwd, `LOADED`, `TIER2` | read loop, editor, parser, commands, `load` | ring, serial, heap and scheduler statistics, file system | the gap between an empty poll and `hlt` |
| Serial and VGA (`serial.rs`, `vga_buffer.rs`) | the device locks | print, `read_byte` | everyone | printing with IF = 0 while a parked task holds the lock |
| Frame allocator (`frame_allocator.rs`) | bitmap | `init`, `alloc`, `free`, `reserve` | Multiboot map, paging, heap | boundary frames, freeing what was never allocated |
| Heap (`heap.rs`) | free list | `alloc`, `dealloc` | frames, everyone | splitting, alignment, no merging |
| Paging (`paging.rs`) | the page-table tree, CR3; the CPU's translation cache | `init`, `map_page`, `map_user_page`, `unmap_page`, `translate`, `user_range_ok` | frames, heap, user mode | partial failure, U/S at every level, a stale translation |
| RAM-disk file system (`fs.rs`) | image bytes (read-only) | `mount`, `resolve`, `list_dir`, `read_path` | shell | extents read from the image: overflow, cycles, depth |
| Loopback network (`net.rs`) | endpoints, inboxes, wire | `bind`, `send`, `poll`, `recv`, `close` | heap | stale frames after a rebind, queues without a bound |
| User mode (`usermode.rs`, `boot/usermode.asm`) | saved kernel context, last violation | excursion, `sys_exit`, recovery | paging, dispatch | three ways back to one saved stack |
| CTF bridge (`bridge.mjs`) | `metrics.live`, `livePerIp`, `rateHits`, `spawnTimes`; per session a socket, a child, two timers, `cleaned` | connection handler, timers, message, exit, close, error | clients, QEMU | state tested before an `await` and used behind it; five events that end a session |
| Web front end (`web/load.js`, `out.js`, `ctf.html`, `qemu-wasm.html`) | `Module`: preRun callbacks, run dependencies, files; the package request | `loadPackage`, `runWithFS`, `removeRunDependency`, `run` | the page, the network, the emulator | package, wasm and workers finish in any order |
| Boot assembly, Multiboot, GDT, ports, `fw_cfg` | - | run once | - | nothing concurrent; not modelled |

What makes each correct: the run queue and the task table agree and nobody
starves (scheduler); a tick never meets a taken `SCHED` and each task keeps its
own IF (dispatch); nobody spins with interrupts off for a lock that cannot be
released (all locks); the ring is a FIFO that loses a byte only when full
(keyboard); a byte reaches the shell in bounded time (shell); counters equal
the sessions they count, limits hold and every session ends (bridge); the
emulator starts when, and only when, all its files are there (front end); a
frame has one use at a time, comes from usable RAM, and a page is reachable
exactly as its owner mapped it (frames, paging); blocks never overlap (heap); a
mounted image is walked inside its bounds and in bounded time (file system).
`PROJECT.json` lists the hazards with the line where each one bites.

## Modules

| Module | Models | Role |
|---|---|---|
| `Scheduler` | `task.rs`, one action per critical section | the abstract promise of the scheduler |
| `RoundRobin` | `Scheduler` and a counter of turns waited | round-robin as a bound |
| `SchedulerProofs` | - | TLAPS proofs about both |
| `Kernel` | scheduler, IF, PIC, locks, stacks, switch, tick; step by step | the CPU that executes task bodies; refines `Scheduler` |
| `KernelProofs` | - | TLAPS proofs about `Kernel` for every body, about the self-tests, and about `KernelInput` |
| `KernelBoot` | the bodies of `kernel_main`, workers, waiter, setter, shell | what TLC runs on `Kernel`; the self-tests, liveness |
| `InputQueue` | - | the abstract bounded FIFO |
| `InputRing` | `keyboard.rs` `push`/`pop`, one step per atomic access | refines `InputQueue` |
| `InputRingProofs` | - | TLAPS proofs about `InputRing` |
| `KernelInput` | `Kernel` + `InputRing` + IRQ1 + the shell's loop | the composed input path |
| `Bridge` | `bridge.mjs` | sessions, limits, control channel, crash and restart |
| `BridgeProofs` | - | TLAPS proofs about `Bridge` |
| `Loader` | `load.js` and the start of `out.js` | the page's asynchronous start |
| `LoaderProofs` | - | TLAPS proofs about `Loader` |
| `AddressSpace` | - | the abstract promise of paging and the frame allocator |
| `Memory` | `frame_allocator.rs`, `paging.rs`, their callers, the TLB | refines `AddressSpace` |
| `MemoryProofs` | - | TLAPS proofs about `Memory` |
| `Heap` | `heap.rs` | the free list |
| `HeapProofs` | - | TLAPS proofs about `Heap` |
| `FS` | `fs.rs` | mount and path walk over any image |
| `FSProofs` | - | TLAPS proofs about `FS` |
| `MC_Boot`, `MC_Input`, `MC_Bridge`, `MC_Memory`, `MC_Heap`, `MC_FS` | - | instances for TLC |

### Scheduler and Kernel

`Scheduler` has the state of `struct Scheduler` (`state`, `count` = `tasks.len()`,
`ready`, `current`) and the number of schedulers installed. `YieldNow` is
`yield_now` (and `preempt`, which only calls it): pop the front or fall back to
idle, requeue the outgoing task unless it is idle, switch. `TaskExit` is the mark
and the switch. Each is atomic because every critical section runs with IF = 0 on
the only core. That is an assumption of the abstract module, and what the detailed
one establishes: `Kernel` gives every routine its steps. A context is a place in
the task's body and a stack of call frames; a frame is a label, the lock it is
about and the IF it saved. `save_and_disable` is the entry of a guarded routine
(`CallGuarded`), `restore` its last frame. A tick raises `irr`; when IF is set it is
taken before the next instruction (`TimerIrq`), pushes an interrupt frame, is
acknowledged and calls `preempt`. Of IRQ1 `Kernel` knows only that it ends a `hlt`
(`OtherIrq`); what it does is in `KernelInput`. `SwitchContext` parks the running context and
adopts the incoming one as it was read before the switch. A spinlock found taken
has no step, so a spin with IF = 0 stops the model, as it stops the machine.

`KernelBoot` writes the bodies out as lists of kernel calls, in the order of the
source. Boxes and strings are their heap calls, console output is one acquisition
of the serial lock. `ImplementsScheduler` maps `state` to itself except that the
current task counts as running until it is switched away from (`task_exit` marks
it finished one critical section earlier).

### Input

`InputRing` names a byte by the number of its key press. Loads and stores of
`HEAD`, `TAIL` and the slot are separate steps of either side, so the interrupt may
fall anywhere in `pop`; a routine that is not running keeps no locals.
`KernelInput` adds the interrupt line and in-service bit of IRQ1 (lower priority
than IRQ0), the handler, and the shell's loop: empty poll, serial poll, `hlt`. The
scancode is abstracted to a character or none, a command to the locks it takes.
The handler stands on top of whatever runs and has no call frame of its own (`kbd`
is its position); the shell's loop is the body call `shell` with a position in it
(`repl`). Both are additions to the variables of `Kernel`, so `Kernel`'s theorems
carry over. `ran` and `slept` are history: whether the running task has executed
code of its own since the last tick, and how many ticks in a row found the CPU in
`hlt` with a byte in the ring.

### Bridge

One action per callback. The connection handler is split at its `await`: `Admit`
before, `Reserve` or `Dismiss` behind. Without `TURNSTILE_SECRET` the promise is
resolved and the handler continues before any other callback (`Idling`); with it
every other callback may come between, and the socket may go unheard
(`SocketGone`: no listener is attached yet). Behind the reservation the handlers
are actions of their own: both timers, output and its backlog, messages, exit,
close and error. `Message` keeps the order of its handler: arm the idle timer,
count, compare with the cap, then the control channel or the guest's stdin.
Timers fire at any time while armed; a window slides at any time (`TimePasses`).
`CONFIG` is a variable that never changes, so that one run covers several
environments.

An `'error'` event nobody listens to (a failed `spawn`, a socket without a
session, the stdin of a child that died while input was written to it) ends the process, as in node: every socket, timer and counter goes, and
so do the children in its control group; a child in a systemd scope of its own
lives on. `Restart` is systemd's `Restart=on-failure`; a signal exits with status
0 and is final. Left out: log lines, `metrics.spawned` and `rejected`, malformed
`req.url`; `bufferedAmount` and the pause file may say anything at any time.
`Cleanup` also clears the dead counters `inBytes` and `submits` of its session,
which nothing reads again.

### Loader

One action per turn of the browser's event loop. `m` is what `load.js` and
`out.js` share through `Module`; `deps` is `runDependencies`. `Removed` is
`removeRunDependency` with what it triggers at zero: `run()`, the preRun callbacks
(`runWithFS`, the page's kernel file, the worker pool), and the timers behind
which `main` starts if nothing was added meanwhile. The package request may
succeed or fail at any time, and the embedder may have the package already.

### Memory

Addresses keep their structure and lose their size: `Fanout` for 512, `PageSize`
for 4096; four levels, the identity window in huge pages below one entry of the
PDPT, the canonical limit at half the range. `mem` is what a frame holds when it
is read as a table; a frame nobody zeroed holds `Garbage`, entries that are present
and point at frame 0. `MapInner` is the descent with what it leaves behind when it
fails half-way. The callers are those of the kernel (paging's self-tests,
`map_user_program`, the heap and the secret page): alloc, map, unmap, free in
that order, and no other caller in between, since all of them run at boot or with
interrupts off. `Fill` lets the CPU cache any translation at any time; `Flushed`
is `invlpg`.

`AddressSpaceKept` maps this to a set of translations as an access would see them
(cached first) and a set of frames with owners. It says that every operation
changes its own page only, at every interleaving with the cache, and that a failed
one changes nothing a caller can see.

### Heap

`free` is the list from `head.next`, in order. `Alloc` unlinks the first region that
fits, gives up the gap in front of the aligned address and puts the tail back at
the front of the list; `Dealloc` does not merge. The list is a sequence although
the nodes lie in the regions themselves: `Disjoint` is what makes that sound.
The comment at `heap.rs:25` has the gap lost for alignments above 16 only; regions
are aligned to a node, 8 bytes, so that a request aligned to 16 can lose 8 as well.

### FS

The image is chosen lazily: an entry is picked from `Entry` when the validator
first reads it and stays what it is, so a run covers every image without listing
them. The recursion of `validate_dir` is a stack of calls; `Fail` is the `?` of
every caller. After `mounted`, `Resolve` walks one path component at a time. The
comment at `fs.rs:337-343` says that each table is validated exactly once and a
second entry for it fails; a table of length zero is an exception (its end is not
behind its start), harmless because it has no entries: `TablesDisjoint` speaks of
tables with a byte.

## Runs

| Run | Bounds | Shows |
|---|---|---|
| `scheduler` | 5 tasks, 3 `init`s | run queue and table agree; finished is final; a bounded wait; nobody starves |
| `boot` | `ITERS` = 4 as in the code, 2 tasks per scheduler, 3 schedulers, ticks anywhere | the detailed scheduler implements the abstract one; the interrupt, switch and IF discipline; the self-tests' assertions |
| `ring` | 4 slots, 3 byte names reused for ever | FIFO under every interleaving, cursors wrapping |
| `input` | 3 slots (2 usable), 3 key presses, the shell | every byte reaches the shell; at most three slept ticks; no spin with interrupts off; shell and idle both run for ever |
| `bridge` | 2 connections of one address, 3 environments | counters, orphans, limits, flags, ends of sessions, through crashes and restarts |
| `loader` | 3 files, 5 progress steps | the start of the emulator in every order of completion |
| `memory` | 15 frames of 2 bytes, tables of 4 entries, 4 pages, 3 memory maps | frames, tables and cache implement an address space; the range check is exact |
| `heap` | 28 bytes, nodes of 4, 4 layouts | no overlap, what is lost, what is reused |
| `fs` | a superblock of 1 and 4 entries of 2, depth 2, 13 extents, 3 readers | mounting ends, paths stay inside |
| `boot_wedge`, `key_wait`, `bridge_caps` | as above; `bridge_caps` has 3 connections | the findings below |

Why the bounds are enough. Five tasks exceed what the kernel spawns and let a
queue of four be rotated, extended and shortened; the theorems remove the bound.
The boot is not bounded at all but for the trailing shell: two tasks per
scheduler is what the code spawns. Three slots already have a full ring, an empty
one, a wrap and a pop in progress while the producer laps; three keys fill it and
drop one. In `bridge` two connections reach every race of two sessions for a slot,
and the environments make each cap bind once (total, per address, per window, per
hour, input), with the human gate on and off and with both ways to spawn. In
`memory` two user pages share a page table, a kernel page shares their page
directory and another their PDPT; the first map has just the frames all of them
take, the second runs out on the way down, the third cannot start. In `heap` the
layouts include one smaller than a node, one whose size is no multiple of its
alignment, one that leaves slivers and two stricter than a node. In `fs` extents
name tables at each entry's place, of one, two and no entries, one not whole, and
regions ending at and past each limit. `SleptCap` stops the history counter one
above its bound; `Counted` stops a session's byte count where it is only compared.

Deadlock is checked in `ring` and `input`. It is off where the system may stop:
`scheduler` (all tasks finished and all bounds used), `boot` (the reachable wedge
below stops the CPU, and the property under test there is another), `bridge`
(stopped, or all sessions over), `loader` (started or failed), `memory` (a panic),
`heap` (a null for every layout is no step), `fs` (an image refused).

### Fairness

`Scheduler`: weak fairness of `YieldNow`, because the timer makes the running task
yield. `KernelInput`: the CPU executes when it can, a deliverable interrupt is
delivered and the PIT keeps ticking. `InputTick` has the guard `ran`: between two
ticks the running task executes at least one instruction of its own. A period is
10 ms and the handler a few microseconds; without the guard a tick could fall on
every `iretq` and no task would run, which no machine does. `KeysTaken`,
`BothRunOnceStarted` and `BoundedSleep` need it; the safety of `boot` is shown
without it, and so are the theorems about `Kernel`, which hold for more ticks than a
PIT can give. Key presses are never forced. `Bridge`: an armed hard timer fires, an await
settles, a killed child exits and a closing socket closes; a client never has to
do anything, and systemd never has to restart. `Loader`: the event loop takes the
callbacks that are due; nothing says that the download ends. `Memory`, `Heap` and
`FS` have safety properties only; that mounting ends is the bound on `entries`.

## Findings

1. **`boot_wedge`.** A tick that finds the waiter running with the queue empty
   resumes idle, because `yield_now` pops before it requeues. `kernel_main` goes on
   printing with interrupts on; a tick taken while it holds the serial lock resumes
   the waiter, which retires and prints with interrupts off. It spins for ever. In
   the milder outcome of the same early return the self-test reports that
   preemption was not confirmed, although `task.rs:480` has it return "once both
   workers finish"; `SelfTests` states what is left of its assertion.
2. **`key_wait`.** A key between the empty poll and `hlt` waits for two or three
   ticks, not one: the tick that ends the sleep hands the CPU to idle. The
   passing property `BoundedSleep` gives the true bound.
3. **`bridge_caps`.** The caps are tested before the `await` and the slot is taken
   behind it. `LimitsHold` shows they hold when there is nothing to await.

## Proofs

`SchedulerProofs` proves for every `MaxTasks` and `MaxInits`:

- `SchedulerTypeOK`, `SchedulerQueueInv`: `TypeOK` and `QueueInv` are inductive
  together. `QueueInv` is the conjunction of four facts that need each other: no
  duplicate in the queue, the queue is the set of ready tasks, only the current
  task runs, and indices are contiguous. Popping keeps them because the popped task
  is in the queue once; requeueing because the outgoing task was running, hence not
  queued. Lemmas state what popping and appending do to membership.
- `SchedulerFinishedForever`: a step property from the same invariant: the chosen
  task comes from the queue, so it is not finished.
- `SchedulerBoundedWait`: the strengthening `WaitInv` bounds the turns waited by the
  place in the queue (`waited + place <= count - 1`); a lemma bounds the length of
  a queue without duplicates by the number of tasks other than the current one.

`KernelProofs` proves, for every number of tasks and schedulers and for **every
body**, what `Kernel` says about preemption, and that it implements `Scheduler`. The
bodies that boot runs (`KernelBoot`) are one instance; the theorems hold for any
kernel code written with the same calls.

- The invariant `KernelInv` is a grammar of call stacks. `StackOK` lists the shapes a
  context can have when its body asked for `IF = asked` and the CPU runs it with
  `IF = on`: in its body or in one plain call (then `on = asked`); in a guarded
  routine that saved `asked`, possibly printing or allocating inside it; a finished
  task on its last way out; a tick that interrupted a body with IF set, possibly in
  the middle of a plain call, possibly already inside `yield_now`. In the last
  three IF is clear, so ticks never nest and a guarded routine is never
  interrupted. `LiveInv` says this of the running context, `ParkedInv` of each parked
  one, which moreover stands right behind its switch. `SwitchInv`, `TickInv` and
  `HeldInv` tie `current`, the in-service bit and the lock to the one label where
  each may be off. None of the properties is inductive without the shapes: that
  `restore` gives a task its own flag needs what its frame saved, possibly many
  switches ago.
- `PreemptionSafeHolds`, `OwnInterruptFlagHolds` and `CleanSwitchHolds` are read off
  it. `SchedUncontendedHolds` adds that no routine ever spins for `SCHED`: the two
  other locks are contended (finding 1), this one is not.
- `ImplementsSchedulerHolds`: `InitInstall`, `SpawnPush`, `YieldPick` and, for a task
  that exits, `YieldPick` after `ExitMark` map to a step of `Scheduler`, every
  other step to a stutter. That `current` may be read as running, whatever its
  state says, holds because a finished `current` is on its way to the scheduler.
- `KernelQueueInv` and `KernelFinishedForever` are theorems of `SchedulerProofs`
  carried over through the refinement, so they hold between any two instructions.

Three more groups of theorems in `KernelProofs` are about what runs on `Kernel`.

- **The composed input path.** `InputImplementsKernel`: every step of `KernelInput` is
  a step of `Kernel` or a stutter, whatever the bodies; `InputImplementsRing`: it is
  a step of `InputRing` or a stutter, because the handler is one process (IF is clear in
  it) and the shell the other (a tick parks it in its loop, and it goes on where it
  stood). So all theorems of both modules hold of the composition
  (`InputKernelSafe`, `InputNoSlotRace`, `InputImplementsQueue`).
- **The self-tests** (`SelfTestsHold`), for every number of turns and of tasks. `SelfTests`
  is about what the bodies have done, so the frames must say which body call
  they belong to: `CallInv` has, for each routine on a stack, that the call in front
  of the context's place in its body is that routine's. On it rest the phases of
  the cooperative test (nobody spawned, one worker, both, the first gone, both
  gone), in each of which the queue, the two workers' places and the letters
  written so far determine each other (`LogInv`): with interrupts off a worker
  loses the CPU in its `yield` or `exit` only, and then to the other one. In the
  preemptive test a waiter past its loop has seen the flag (`WaitInv`).
- **The shell and the idle task.** `NeverWedgedHolds`: once the shell is in the table, the
  idle task takes no lock but `SCHED` (`IdleLockless`); every other lock that is
  taken is on some context's stack (`LockInv`), hence on the shell's; and the
  routines that ask with IF clear ask for `SCHED` or are the shell's own
  (`AsksInv`). It is a theorem of these two bodies and false of others: finding 1 is
  an idle task that prints while another task can be preempted. `InputNeverWedged`
  adds the keyboard. `BoundedSleepHolds`: `SleepBound` is how long the row of slept
  ticks can be at each stand of the two tasks (a row has the tick that resumes
  a shell parked in front of its `hlt`, the one that ends this `hlt`, and the one
  that ends idle's). It needs that only those two places sleep (`HaltInv`), that a
  tick preempts only a task that has run since the one before (`RanInv`, from the
  guard of `InputTick`), that the task which does not run is the next one (`Both`),
  and that before idle's first `hlt` there is only the shell's to count (`EarlyInv`).

`BridgeProofs` proves every safety property of `Bridge` for any finite set of
connections, any addresses and any settings. The invariant `IInv` has a part for
each thing that several events of a session change. `SessionInv`: a session that
was cleaned up has its socket no longer open and its child no longer running;
until then its 'close' is still to come and its hard timer armed (`NoGhostSession`
and `EveryChildCounted` are read off it). This is why
whichever of exit, close, error and the timers comes first does the work and the
others find it done. `CountersExact` follows from the four things a step can do to
the slots (take one, free one, free all, leave them: `SlotSteps`). `RateInv` also
counts the hits of connections still at their await. `CapsInv` needs that without
the human gate at most one connection is between its test and its reservation and
that its test still holds then; with the gate it says nothing (finding 3).
`InputInv` and `FlagInv` are per session.

`InputRingProofs` proves, for every capacity of at least two, the types, that
neither side ever touches the slot the other one uses, and that the ring
implements `InputQueue`. `RingInv` says that room found stays (the consumer only
frees slots) and that a byte found stays (the producer only adds them), which is
what makes a load of the other side's cursor safe to use later. The mapped queue is
read off the slots between the cursors (`Contents`): the store is hidden until
`HEAD` is published, publishing appends, advancing `TAIL` drops the head.

`LoaderProofs` proves for every finite set of files and every package size that the
dependency count is the work outstanding and that `main` finds its files. Its
invariant relates the count to package, wasm and workers (`Exact`), fixes the order
in which the scripts register and run their callbacks (`Order`) and says that
nothing is waited for when the count is zero (`NothingWaited`).

`MemoryProofs` proves every property of `Memory`, for every memory map, number of
frames, table size, page size and set of pages the assumption allows. The invariant
`MemoryInv` says that some assignment `T` of frames to levels makes the page tables a
tree, and that the pool, the tables and the callers' frames are apart and together
are the frames found at boot (`Parted`):

- `LinksLeadDown`, `AllHang`, `HangOnce`: a present entry leads to a table of the
  level below, every table but the root hangs somewhere, and in one entry only. This
  is why a write to an entry is seen by the pages whose digits lead to it and by no
  other (`SamePath`, `LeafWrite`).
- `HugeIsIdentity`: huge pages are those of the identity window, so a walk for a page
  above the window never meets one, and `Err(HugePage)` is never returned.
- `Leaves`, `Owners`: an entry of a PT is there for one page, with its owner's frame
  and the access asked for, and the tables above a user page are open.
- `Cached`: a cached translation is the mapping its page has now. Without it neither
  disjointness nor the refinement is inductive: the CPU may cache a page at any time
  and use it until it is flushed.

`T` is not a variable: `map_inner` takes a table from the pool in the middle of its
walk, and the proof extends `T` by it (`NewTable`). The walk is proved level by level
(`Halfway`, `DescendKeeps`): whether it ends at the leaf or for want of a frame, no
page is mapped or lost on the way, and what it opened or left behind stays inside the
tree. That a page is its four digits (`SamePage`) rests on division alone, with
any fan-out; the count of tables in `FramesDisjoint` follows from the links being in
bijection with the tables they lead to.

- `MemoryTypeOK`, `MemoryFramesDisjoint`, `MemoryOnlyUsableRam` are read off the
  invariant; the bytes of the last follow from the order of the phases of `init`:
  whole usable frames first, then every frame a reserved range touches is withdrawn,
  and with them the first one.
- `MemoryRangeCheckExact` is the property TLC checks; `MemoryEveryRangeExact` says it
  of every address and length, a range that passes the end of the low half or of the
  64 bits included.
- `MemoryImplementsAddressSpace`: `Alloc`, `Map`, `Unmap` and `Free` map to the step of
  the same name of `AddressSpace` (a failed one to a stutter), the switch to the
  kernel's tables and the CPU's fills to a stutter.

`HeapProofs` proves all three properties of `Heap` for any heap, any node size and
any set of layouts the assumption allows. It argues about the extents of regions
and blocks by their ends (`Apart`) and turns to sets of bytes only at the end.
`IInv` is `ListInv` (each region is node-aligned, large enough for a node, inside
the heap, apart from the others) and `LiveInv` (the same of the blocks, and that
blocks and regions are apart). An allocation puts block and tail inside the region
it found, so both are apart from everything that region was apart from; a free
returns the block as it was carved. What is lost is read off the same step: the
region less block and tail is the gap in front of the block. A block freed fits its
own layout at its own address, and is the first on the list to do so.

`FSProofs` proves all three properties of `FS` for images of any length and
content. `EntriesInv` is about the entries read (inside, apart, directories forward
and apart below the high-water mark), `CallsInv` about the open calls (each
inner call's table lies behind the outer ones), `WalkInv` about both: a call has
read exactly the entries in front of its next one, hence no entry is read twice,
and every directory is either read to its end or open. The depth of an entry is
not a variable; `WalkInv` says that some assignment of depths fits, and a step
extends it. A directory's step is two lemmas, entering its table and moving the
call around it on. The bound on the entries is a count of positions at least one
entry apart (`SpacedBound`). The proof needs that the header confines `data_end`
to the image: without it the two checks on an extent would overlap.

The proofs use the assumptions on the constants and nothing else:
`SchedulerAssumption`, `RingAssumption`, `BootAssumption` and `InputAssumption`
(numbers, two slots at least), `KernelAssumption` and `BodiesAssumption` (numbers; `task_exit` ends task bodies only
and only the idle task calls `init`, as in every caller in the source),
`BridgeAssumption` (finitely many connections, each with an address; a flag is
not the word for "none"; settings of their types), `LoaderAssumption` (finitely
many files, a package that is not empty), `MemoryAssumption` (the frames
there are fit the map below 1 GiB, the memory map is pairs of numbers),
`HeapAssumption` (the heap's base and a node's size are multiples of the node's
alignment, and of a layout's alignment and that one divides the other, as of powers
of two), `FSAssumption` (lengths are numbers, those of an entry and of a superblock
are not 0). TLC evaluates each of them on the runs. The theorems about
particular bodies name them as a hypothesis: `Booted` and `Shelled` say that `Main`
and `Body` are those of `kernel_main`, as in the runs `boot` and `input`, that
there are as many schedulers as they install, and tasks enough; the number of
turns, of task slots, of ring slots and of keys is left open.

Only model-checked are the liveness properties (`EveryTaskRuns`,
`BothRunOnceStarted`, `KeysTaken`, `SessionsEnd`, `MainStarts`): temporal reasoning
with fairness and ENABLED is out of the prover's reach. Every invariant, action
property and refinement that a passing run checks is a theorem.

## Plan

The order was: the scheduler, abstract then per step; the boot on top of it; the
input path; the bridge; the page's start; memory, heap and file system; proofs of
the parametric modules, smallest first; proofs of what depends on the bodies.
Nothing of the plan is left but what stays with TLC.

## Not modelled

- **Loopback network** (`net.rs`). Two kinds of queue behind one lock, used by one
  task at a time, at boot and for the `net` command; each caller closes what it
  binds and polls what it sends before anybody else runs, so that no caller meets
  a frame of an earlier owner.
- **The excursion to ring 3** (`usermode.rs`, `usermode.asm`, the exception and
  syscall arms of `interrupts.rs`). It runs once, before a second task exists, with IF
  clear in ring 3 as well (`usermode.asm:49`); what it could get wrong is the layout of a saved stack, below the level of
  these modules. Its pages and its pointer check are in `Memory`.
- **Boot assembly, Multiboot parsing, GDT, TSS, ports, `fw_cfg`, PIC and PIT
  initialisation words.** They run once, single-threaded, before any state of
  interest exists, or have no state.
- **The shell's line editor, parser and base64 decoder, the scancode table, number
  formatting, VGA scrolling.** Sequential text processing; the modules keep the
  locks and heap calls it makes.
- **The emulators** (`libv86.js`, `out.js` behind its start, the worker script).
  Generated or vendored code of other projects. The pages' layout and terminal
  wiring is presentation; a download that fails is not retried, so there is no
  retry to model.
- **The scripts and images of the build.** They run before the system does.
