# Verification of the LPS runtime

LPS runs many sandboxed Linux programs inside one host process. `lps-core`
owns address space, contexts and the switch between host and sandbox;
`lps-linux` emulates a Linux process on top of it: loader, system calls,
descriptors, pipes between sandboxes, and two schedulers. The modules here model
the parts that keep state and interact, check them with TLC on small instances,
and prove with TLAPS, for every size, the safety properties of the scheduler and
the pipes, of the ring queues and the multi-core scheduler, of the address space,
of the box allocator and the pointer checks, of the descriptor tables and of the
context switch.

## 1. The system

| Part | State | Operations | Interacts with |
|---|---|---|---|
| Round-robin scheduler (`sched.c`, `queue.h`) | run queue, thread states, loaded thread | `rrschedadd`, `rrschedstart`, `rrschedblock`, `rrschedwake` | handlers call block and wake; control moves by `kswitch` |
| Pipes (`sys/sys_pipe.c`) | table of 64 slots: ring, counters, open flags, two wait queues | `lps_pipe_new`, read, write, close | scheduler, descriptor tables, exit |
| Dispatch, exit, yield, timer (`sys.c`, `sys_proc.c`, `sys_rtcall.c`) | user timer armed | one handler per system call | everything above |
| Ring queues (`queue.c`) | array, `head`, `tail`, `count`, two mutexes | `ring_push_one`, `ring_push`, `ring_pop_one`, `ring_pop_back`, `ring_pop` | pthreads of the multi-core scheduler |
| Multi-core scheduler (`sched.c`) | workers, local queues, global queue | `mcsched_init/add/start/join`, worker loop | ring queues |
| Address-space tracker (`lps-core/mmap.c`) | sorted list of mappings, a cursor | map at, map anywhere, unmap | host `mmap` through `box.c` |
| Box and memory calls (`box.c`, `sys_mem.c`, `proc.c`, `elfload.c`, `thread.c`) | the break, the box's pages, a new thread's stack | load, create a thread, `brk`, `mmap`, `munmap`, `mprotect` | tracker, host kernel |
| Descriptor table and file calls (`fd.c`, `kfile.c`, `sys_file.c`, `sys_cwd.c`, `sys_ioctl.c`) | slots, reference counts, working directory | open, close, dup, read, write, vectors, seek, chdir, exit | pipes; host files; path library |
| Path library (`cwalk.c`) | none | is absolute, join | `proc_chdir` |
| Pointer checks (`sys.h`) | none | `ptrcheck`, `bufcheck` | every system call |
| Box allocator (`boxmap.c`, `core.c`) | reserved regions, bit vectors | reserve, add space, remove space | `lps_box_new` |
| Context switch (`ctx.c`, `runtime.S`) | register files, kernel stacks, current context per pthread | enter, leave, trap, `kswitch` | both schedulers |
| DASICS bounds (`bound.c`) | two configuration words, bound registers | set and clear memory and jump bounds | context switch |

What is hard in it, and what correctness means for each part:

* *Scheduler and pipes.* A handler tests the pipe, sleeps, and is resumed an
  arbitrary time later; wake-ups, closes, exits and the reuse of a slot happen in
  between. Correct: every thread is in one list only, no wake-up is lost, nothing
  reaches a released buffer, bytes arrive in order, nobody starves or sleeps on a
  process that is gone.
* *Rings and workers.* Operations choose the mutexes they take by a count they
  read before taking them. Correct: each element leaves once, every call returns,
  every task runs to its end on one worker at a time, and `mcsched_join` returns
  exactly then.
* *Address space.* A list with a cursor that survives the nodes it points to, two
  copies of the truth (tracker and host), and a host that can refuse. Correct: the
  list stays sorted, the copies agree, a call changes its own range only.

* *Descriptors.* A structure is shared by slots and freed by a count; some
  structures enter a table without being counted. Correct: the count is the number
  of slots, nothing freed is reached, exit closes what is left.
* *Contexts.* Assembly finds everything through registers it has just swapped: the
  context through a CSR, the thread-local storage through a word saved when the
  context was first entered. Correct: a sandbox finds its registers and bounds, a
  handler its own stack and storage, and `lps_thread_run` returns to its caller.

The complete list of hazards, each at its line, is in `PROJECT.json`.

## 2. Modules

| Module | Models |
|---|---|
| `RRSched` | the round-robin scheduler: loop steps and the primitives block, wake, leave |
| `Pipe` | the pipes and every handler that reaches them, on `RRSched` |
| `Channel` | abstract: a bounded, lossless, ordered byte channel |
| `PipeProofs`, `PipeDataProofs` | TLAPS proofs about `Pipe`: types, ring, lists, slots and wake-ups; data and the refinement of `Channel` |
| `RingQueue` | the two-lock ring, one step per shared access |
| `RingClients`, `RingProofs` | one ring under a client that pushes and others that pop, and TLAPS proofs about it |
| `MCSched`, `MCSchedProofs` | host, workers, local and global rings, stealing, on `RingQueue`; TLAPS proofs about it |
| `MMap` | the tracker as operators on values |
| `ProcMem`, `ProcMemProofs` | one sandbox's memory: loading and the memory system calls, on `MMap`; TLAPS proofs about both and the refinement of `PageMap` |
| `PageMap` | abstract: a map from pages to mappings changed by one range at a time |
| `BoxMap`, `BoxMapProofs` | the engine: reservation of address space and allocation of boxes; TLAPS proofs about it and about `SysBuf` |
| `StackInit` | what a new thread finds on its stack, on values |
| `SysBuf` | the pointer checks |
| `CWalk` | joining and normalising paths, and a reference definition |
| `Files`, `FilesProofs` | descriptor tables, the calls that go through them, the working directory, on `CWalk`; TLAPS proofs about all but the directory |
| `Bound` | the register file with its offsets, and the DASICS bounds kept in it |
| `Ctx`, `CtxProofs` | context switch, trap handler and the loops that enter sandboxes, on `Bound`; TLAPS proofs about both |
| `MCPipe`, `MCRing`, `MCMCSched`, `MCProcMem`, `MCBoxMap`, `MCFiles`, `MCCtx` | instances for TLC |

### RRSched and Pipe

All of it runs on one host thread; `phase` says who has it (host program,
scheduler loop, running thread, just returned). `call[t]` is the frame of the
handler thread t is in. Handlers run with user interrupts off, so a handler gives
up control only in `rrschedblock`; between two such points its steps (test, size
computation, copy, wake-up, return) are separate actions, and only that handler
can step. One action per arm of `pipe_read` and `pipe_write`:
`pipe_read_wait/size/copy/return`, `pipe_write_fail/full/wait/copy/return`;
`pipe_close_read/write` with `PipeRelease` are `pipe_close`;
`sys_exit`, `fdfree_read/write` and `sys_exit_switch` are the exit path, one
descriptor at a time; `sys_close_read/write` show what `close(2)` really does
(`filefree` tests `!f->close` and so never reaches `pipe_close`: the descriptor is
gone and the end stays open for good, so that a reader at the other end waits for
ever). `sys_runtime_call` and `TimerIrq` are
the two ways a thread gives up the processor while runnable.

Bytes of a pipe are numbered by the program that writes them, so loss,
duplication and reordering all show. `wsent` and `rcvd` are history.

Assumptions: sandboxes call read and write with n >= 1 on ends they hold; the
`FDFile` that `pipe_new` allocates with malloc and does not fully initialise is
taken as zeroed; the allocation failures of `lps_pipe_new` are left out because
every caller asserts on the result; an end is in one slot (dup of an end, and the
uninitialised members, are in `Files`). `PIPESZ` is 64 KiB in the code
(`research.md` says 1024 bytes); any positive size is covered by the proofs.

### RingQueue, RingClients, MCSched

Accesses to `head`, `tail`, the slots, `count` and the mutexes are single steps in
sequentially consistent interleaving, but for the loop condition of `ring_push` and
`ring_pop` (`LoopGoes`), which compares `head` with `tail` in one; a mutex is the
default kind, whose unlock does not look at the owner. `Need` is which mutexes an
operation decides to take, `locked_both`/`Release` which it gives back, both as the
code has them. `count` goes below zero where the unsigned counter wraps; `AtLeast`
is the comparison the unsigned value really makes.

`RingClients` is a queue with the calls its clients make in any order: one pushes
single elements, others pop single elements or batches. The global run queue is
used so (`mcsched_add` by the host, `ring_pop` by every worker).

`MCSched` follows `mcsched_loop` call by call: local pop, global share sized by
an unlocked count, push of the share, steal round, run, requeue. The workers'
randomness is interleaving; tasks yield up to `MaxYield` times and then exit.

### MMap, ProcMem, PageMap

`MMap` has the list, the cursor and the five ways a range overlaps a node, in the
order the loop visits them; the loop is a recursive function of the number of
nodes it has passed. Nodes get an identity for the length of one operation
so that the cursor follows a node; a cursor left on a freed node shows as
`Dangling`. `ProcMem` adds the host's pages and the calls. Each host `mmap` may
fail. A failed assertion ends the program: stage `aborted` for the range
assertions of `box.c`, the number of segments in `elfload.c` and the limit
assertion of `sys_brk`, `mm_aborted` for those inside `mmap.c`. Lengths are words
that wrap at `WordMod`, and the box is at `BoxBase`, so that sums of an address and
a length wrap where the code's do. A length in the last page of the address space
rounds up to no pages: with `MAP_FIXED` that fails the assertion at `mmap.c:239`
(`mm_aborted`); without, `mm_mapany` takes a gap of no pages for it (`EmptyFit`),
the host refuses the mapping and `mm_unmap` refuses to take the node out again
(stage `spoiled`); `munmap` lets `cbunmap` map nothing, which fails its assertion
when a node is there (`UnmapNothing`). The sandbox goes on after `spoiled`; the model does
not, because the next unmapping that meets the empty node fails the assertion of
`cbunmap` in turn. The loader maps one segment per step and ignores a failing bss
mapping, as the code does. A descriptor without a host descriptor changes no
memory and is left out, as are protections and offsets.

`lps_thread_new` maps the stack and fills it with `stack_init`: `StackInit` has
the list of its copies, in their order, so that a later one may go over an
earlier one. Strings are given by their lengths; of the auxiliary vector the
entries that point into the stack are kept. Nothing compares the arguments with
the size of the stack; a copy that reaches pages which are not mapped is stage
`crashed`. The contents are forgotten when the program starts (`lps_thread_run`).

### BoxMap

Units are host pages. The host's `mmap` gives any free range or fails, so every
placement and every alignment occurs. `boxmap_reserve` is one step per iteration
of its loop: what `reserve()` got after halving, then `addregion`, which maps the
aligned part again with `MAP_FIXED`. Every failing iteration ends in
`boxmap_delete`; the unaligned ends of a reservation stay mapped and are kept in
`ours`. Boxes are not given back, because `lps_box_free` is declared and not
defined. `lps_core.h:30` promises room for the number of sandboxes asked for, which
is `RoomPromised`; the alignment costs one chunk unless the host happens to return an
aligned address, so the promise is not kept (`box_room`) and an engine for one sandbox
usually cannot be made. `AlignmentCostsOneChunk` says that it is never more than
one. `lps_proc_new` uses the box it gets without a test; that ends the program
when every chunk is used, and `FullOnlyWhenUsed` says it ends it only then.
`SysBuf` is checked on the boxes of each engine with addresses and sizes that wrap
at 16: `BuffersAccepted` says exactly which buffers `bufcheck` accepts, among them
empty ones (but at the start of the box, where an empty one is refused) and ones
nearly as long as the whole address space, which its comment ("Returns true if the
buffer is valid", `sys.h:28`) does not suggest.

### Files and CWalk

An `FDFile` has a reference count, whether its memory was freed and whether its host
descriptor (or pipe end) is open; the members `pipe_new` leaves uninitialised are
zero or not (`clean`). `filefree` frees on every reference but the last and closes
in no case, as the code does. It holds `f->lk_refs` and gives it back on return,
also from a structure it has just freed; in `sys_close` that write does damage
(`unlock`) or goes unnoticed. A use of freed memory, of an uninitialised member or
of a null pointer ends the behaviour in `Fault`, which keeps only the tables and the
structure it happened with (`blame`); `FaultHasCause` says which history such a
structure has. `readv`, `writev` and `pread64` are made of several host calls, one
action each, so that other sandboxes act in between; offsets are the host's. A
relative path given to `openat` goes to the host as it stands (`pathcopyresolve`
does not use the working directory). `chdir` stores absolute paths as given and
joins relative ones. `fchdir` does the same with the path the descriptor was opened
with. The sandbox means the directory the descriptor was opened on, which for a
relative path is one below the host program's directory: the history `where` is then
`Astray` and stays so until the next absolute path, and `CwdResolves` says nothing
of such a sandbox, whose stored directory is wrong. `CWalk` follows `cwk_path_join`:
which segments the normalisation removes is decided by the counting walks of the
code, and `Resolve`, a stack of names, is the reference that `CwdResolves` compares
it with.

### Bound and Ctx

A register file is a function from byte offsets, the ones of `arch_asm.h`, to
values; the offsets the assembly uses and the ones the C structure has are
computed separately. A configuration word is kept as nibbles, because the shift
of an `int` decides what becomes of the upper half. `Ctx` is the machine: every
register, word of a context and word of thread-local storage holds a value that
says what it stands for, and the code follows the registers it would really use.
`SAVE_ALL`, `RESTORE_ALL`, `lps_ctx_entry`, `dasics_ufault_entry` and `kswitch`
are value operators; the trap handler, blocking, exit and the three hosts
(round-robin loop, multi-core loop, `lps-security`) are actions.

## 3. Runs

| Run | Instance | Result |
|---|---|---|
| `pipe_chain` | 3 threads, 2 slots, 1-byte rings, requests up to 2, 2 bytes per pipe | holds: `TypeOK`, `PlacedOnce`, `NoLostWakeup`, `NoUseAfterRelease`, `StuckOnlyOnPeers` |
| `pipe_ring` | 3 threads, 1 slot, 2-byte ring, requests up to 2, 3 bytes, fairness | holds: `InOrderDelivery`, `ImplementsChannel`, `NoStarvation`, `ExitAnswersPeer` |
| `ring_clients` | ring of 2, 3 elements, a client that pushes, one that pops singly and in batches, one in batches, fairness | holds: `HoldsTheRest`, `CallsReturn` |
| `mcsched_one` | 1 worker, 3 tasks, 2 yields, rings of 4, fairness | holds: `EachInOnePlace`, `JoinMeansFinished`, `JoinReturns` |
| `mcsched_three` | 3 workers, 3 tasks, rings of 4 | holds: `HandedOutOnce` |
| `mcsched_hang` | 2 workers, 2 tasks | violated: `JoinReturns` (`queue.c:198`) |
| `procmem` | box of 5 pages, heap region of 2, 32 bytes to a page, words modulo 256 | holds: `TypeOK`, `ListSound`, `TrackerMatchesHost`, `FirstFitComplete`, `BrkKeepsHeap`, `BrkNearRegion`, `StartupFindsArgs`, `ImplementsPageMap` |
| `boxmap` | chunk of 2 pages, address space of 15 with one foreign page, 2 regions, 2 engines | holds: `TypeOK`, `BoxesApart`, `OnlyOwnPages`, `AlignmentCostsOneChunk`, `FullOnlyWhenUsed`, `BuffersAccepted` |
| `box_room` | the same | violated: `RoomPromised` (`boxmap.c:129`) |
| `files` | 2 sandboxes, tables of 3 slots, 4 structures, counts modulo 5, files of 2 units | holds: `TypeOK`, `RefsMatchSlots`, `SharedBeforeDangling`, `FaultHasCause`, `ExitClosesRest`, `OffsetMovesByResult`, `CwdResolves` |
| `ctx` | 2 workers, 2 tasks, 2 traps each, 2 calls of `bound.c`, no stealing of tasks that have run | holds: `SandboxResumes`, `BoundsFollowTask`, `HandlerAtHome`, `ReturnsToCaller` |
| `ctx_migrate` | the same with stealing | violated: `ReturnsToCaller` (`runtime.S:120`) |

Why the bounds are enough:

* Pipes: three threads give a reader, a writer and a bystander, or a chain with a
  middle thread that reads one pipe and writes another; two slots give reuse of one
  while the other is busy. A one-byte ring is full or empty after every byte, so
  every write of two bytes blocks half way. A two-byte ring with three bytes wraps,
  with copies that stop at the end of the array, and blocks half way through a
  request.
* Rings: a ring of two is at the limit where both mutexes are needed most of the
  time and wraps after two operations; with three elements it is filled again after
  it was full. Two clients that pop meet each other in the critical section, and a
  batch meets an element that is being pushed. Three workers are the least with two
  victims to steal from.
* Memory: five pages hold the image, a two-page heap, one free page and the stack;
  after unmapping, every overlap of a range with one to three nodes occurs. 32 bytes
  to a page let a break lie at a boundary and at two places inside a page, and a one-page stack
  with two-byte words hold some argument lists, one of them exactly, and not others;
  lists longer than `ARGV_MAX`, a string one byte too long and an `argv` that ends
  before `argc` are among them. The lengths are nothing, part of a page, more than a
  page, the longest that does not wrap when it is rounded up and the longest there
  is. The program has exactly `ELFSEGMAXN` segments, the most that load; the abort
  of one more is in the scope of the proofs only.
* Boxes: a chunk of two pages gives aligned and unaligned reservations; the foreign
  page splits the address space, so that taking as much as possible needs both
  regions; the second engine meets what the first one left mapped.
* Files: three slots let a file be in all of them and a table be full; a count
  modulo 5 wraps below zero; two pipe slots let `lps_pipe_new` fail at its first and
  at its second end. Calls that touch different state are not crossed with each
  other: one sandbox opens, moves and walks, the other holds ends of pipes, uses and
  exits (`Openers`, `Movers`, `Walkers`), and a sandbox moves offsets only before it
  changes directory and before a file is opened by an absolute path, and changes
  directory only while no offset is moved. The paths go up, down and stay, within
  one path and across calls, to a depth of two.
* Contexts: two tasks share a worker or have one each; two traps resume a task that
  was interrupted and one that made a call. Bounds 1 and 7 are the ends of the lower
  half of the configuration word besides bound 0, where the sign of the `int`
  matters. `Steals` is off in `ctx` because `ctx_migrate` shows what a stolen task
  that has run does.

Deadlock checking is on for the pipes and the ring. The
multi-core, memory, box, file and context instances end (join returned, process
ended, all engines used, every sandbox exited), so it is off there.

The violated properties quote the repository. `box_room`: the reservation for n
sandboxes is cut to n - 1 chunks. `mcsched_hang`: `ring_pop_back` keeps a mutex it took.
`ctx_migrate`: the thread-local storage a trap goes to is the one of the worker
that first entered the context.

Two more defects of the ring are visible in the model and listed as hazards: a full
ring looks empty to `ring_pop` (the instances of `MCSched` have rings larger than
the number of tasks), and `ring_pop_one`, whose `locked_both` is never cleared, can
release a mutex that the other party holds. With two workers two of them can
therefore run one task at once, although the comment at `queue.c:71` calls the
locking absolutely safe; `EachInOnePlace` is a statement about one worker. With
three workers the steal loop goes on after a success and overwrites the stolen task,
as `plan.md` describes; `HandedOutOnce` is therefore about the global queue. Growth
from an unaligned break rounds the start up and the length up again; `BrkNearRegion`
states how far that goes.

Observations no property is about: `close(2)` does not close a pipe end
(`kfile.c:135`; `fd.h:30` says it closes the file), and a sandbox that closed its
end does not close it by exiting either; `pathcopyresolve` ignores the working
directory; a program started with an even number of arguments and variables has
its stack pointer eight bytes off a multiple of 16; the `argc` on the stack is the
caller's even if `argv` ends earlier (no host passes such an `argv`, and
`StartupFindsArgs` leaves it out); a multi-core task that blocked on a pipe would
be put into the round-robin queue (no host program connects the two).

### Fairness

* `Pipe`: weak fairness of the scheduler loop and of handlers (they run
  straight-line code on the only host thread), strong fairness of `TimerIrq`: an
  armed timer that expires during a handler stays pending and is taken on the
  return to the sandbox, so a program that keeps making calls is interrupted too.
  Nothing is assumed of the host program or of what sandboxes call.
* Rings and workers: weak fairness of each pthread, strong fairness of obtaining
  a mutex that is free again and again. Tasks eventually exit because they yield a
  bounded number of times.

## 4. Proofs

### Scheduler and pipes

`PipeProofs` proves, for every set of threads, number of slots, ring size and
request bound (assumptions `NoThreadAssumption`, `NPIPEAssumption`,
`PIPESZAssumption`, `BoundAssumption`, `QueueAssumption`):

| Theorem | Statement |
|---|---|
| `TypeCorrect` | `Spec => []TypeOK` |
| `RingNeverOverruns` | `Spec => []RingBounded`: the counters never cross nor get more than `PIPESZ` apart |
| `PlacedOnceHolds` | `Spec => []PlacedOnce` |
| `NoUseAfterReleaseHolds` | `Spec => []NoUseAfterRelease` |
| `NoLostWakeupHolds` | `Spec => []NoLostWakeup` |
| `StuckOnlyOnPeersHolds` | `Spec => []StuckOnlyOnPeers` |

Two inductive invariants carry them.

* `CoreInv` = `TypeOK`, `RingBounded`, and two facts about frames: a copying
  reader was promised no more bytes than the ring holds (otherwise `nread` could
  pass `nwrite`), a handler's progress does not exceed its request, and a loaded
  thread exists whenever the phase says one runs. `TypeOK` alone is not inductive: that
  `n - done` is a natural number needs the frame facts.
* `SafeInv` = `CoreInv`, `PlacedOnce`, `NoUseAfterRelease` and
  `CurInv` (the loop has no thread in hand in the phases `host` and `pick`, and the
  running thread is not `BLOCKED`, so that it is in no list and appending it keeps
  lists free of duplicates), `SleepInv` (readers asleep see an empty ring with an open
  writer unless the handler now running is the one that will wake them: the
  statement of `NoLostWakeup` for the middle of a handler), and `ExitInv` (an
  exited thread holds no descriptor once its exit handler is done, which is what
  `StuckOnlyOnPeers` needs). Each action has one lemma; the lemmas about lists
  (append, tail, concatenation) are stated once at the beginning.

Both invariants were checked with TLC on the `pipe_chain` instance first.

### Data through the pipes

`PipeDataProofs` adds, from the same assumptions:

| Theorem | Statement |
|---|---|
| `InOrderDeliveryHolds` | `Spec => []InOrderDelivery` |
| `ImplementsChannelHolds` | `Spec => ImplementsChannel`: every step is a step of `Channel` or leaves its state alone |

`DataInv` says what the array means: for every k between the two counters of a
live pipe, the cell `k % PIPESZ` holds byte k; the write counter is what completed
writes sent plus the progress of a handler inside `pipe_write`, and the read
counter the same for readers. `InOrderDelivery` alone is not inductive, because
it says nothing about the cells that were not read yet. That two positions less
than `PIPESZ` apart fall into different cells is the arithmetic lemma under the
copy steps. For the refinement each action is shown to be a send, a receive, a
close, a reuse of the slot or a stutter of the channel under the mapping of
`Pipe`.

### Boxes

`BoxMapProofs` proves, for every chunk size, address space, number of regions and
engines (assumptions of `BoxMap` and `WordAssumption`):

| Theorem | Statement |
|---|---|
| `BoxTypesHold` | `Spec => []TypeOK` |
| `BoxesApartHolds` | `Spec => []BoxesApart` |
| `OnlyOwnPagesHolds` | `Spec => []OnlyOwnPages` |
| `AlignmentCostsOneChunkHolds` | `Spec => []AlignmentCostsOneChunk` |
| `FullOnlyWhenUsedHolds` | `Spec => []FullOnlyWhenUsed` |
| `BuffersAcceptedHolds` | `Spec => []BuffersAccepted` |

`BoxInv` says that regions are whole numbers of chunks at aligned addresses,
disjoint, inside `ours`; that a region's boxes are the aligned addresses of its
bit vector; and, while `boxmap_reserve` loops, how much of the size asked for the
regions so far account for. Counting is done by cutting a region into its chunks:
a set of aligned addresses has `Cardinality` times `Chunk` pages.

`BoxMapProofs` also has the pointer checks of `SysBuf`, for every word size
(assumption `WordAssumption`), every box, pointer and alignment:

| Theorem | Statement |
|---|---|
| `BufcheckIsSound` | a buffer that `bufcheck` accepts lies inside the box, for sizes from 1 to what the address space has outside the box |
| `BufcheckIsComplete` | every buffer of one byte or more that lies in the box is accepted |

`bufcheck` looks at the first and the last byte only, and the address of the last
one is computed modulo the word. The lemma `LastByte` splits on whether it wraps:
if it does, it would have to come round to the box again, which takes a size
larger than the rest of the address space. The bounds on the size are needed: a
size close to the whole address space is accepted, and so is a size of zero
behind the box's first byte; `BuffersAcceptedHolds` states them as part of an equivalence
over all sizes.

### Descriptor tables

`FilesProofs` proves, for every set of sandboxes, table size, number of structures,
width of the count and lengths of files (assumption `FilesAssumption`):

| Theorem | Statement |
|---|---|
| `FilesTypesHold` | `Spec => []TypeOK` |
| `RefsMatchSlotsHolds` | `Spec => []RefsMatchSlots` |
| `SharedBeforeDanglingHolds` | `Spec => []SharedBeforeDangling` |
| `FaultHasCauseHolds` | `Spec => []FaultHasCause` |
| `ExitClosesRestHolds` | `Spec => []ExitClosesRest` |
| `OffsetMovesByResultHolds` | `Spec => []OffsetMovesByResult` |

`FilesInv` strengthens them with: a structure is only in the table of its owner;
`peak`, the most slots it was ever in, bounds the slots it is in now; a structure
in a table has memory and an open descriptor unless it was shared; and a call in
the middle of its host calls has moved the offset by what it has counted so far,
with the structure still in its slot (nothing of the same sandbox runs in
between, and nobody else moves that offset). `FaultHasCause` follows for the
unlock after a free because the count that decides about the free is the number of
slots (one less for uncounted files): the only close that does not free is the one
that takes the count to zero. The reference count is compared with
the cardinality of a set of slots that gains or loses one slot per step, so the
lemmas are about that set under `dup`, `dup2`, `close` and an assignment.

### Contexts

`CtxProofs` proves, for every set of workers and tasks and any number of traps and
of calls of `bound.c` (assumptions `CtxAssumption`, and `LayoutAssumption`, that
the offsets in `arch_asm.h` are the ones of the C structure, which `arch_asm.c`
asserts statically and TLC evaluates):

| Theorem | Statement, under `NoMigration` |
|---|---|
| `SandboxResumesHolds` | `Spec => []SandboxResumes` |
| `BoundsFollowTaskHolds` | `Spec => []BoundsFollowTask` |
| `HandlerAtHomeHolds` | `Spec => []HandlerAtHome` |
| `ReturnsToCallerHolds` | `Spec => []ReturnsToCaller` |

`NoMigration` says that no task that has run is stolen: either the multi-core loop
is not among the hosts, or its tasks are stolen only before their first run. It is
needed: `ctx_migrate` has the counterexample without it. The round-robin loop and
`lps-security` satisfy it always.

`CtxInv` describes the machine between any two steps. Each worker is in its loop,
inside a context or just back from one. Inside, `lps_kctx` holds the loop's
registers, the bound registers are loaded from the words of this task, and what
the registers hold depends on the code the worker is at (`Entered`). No two
workers are in the same context. A task that is in a queue has stopped on a
definite worker: it has never run and its words are the ones of `lps_ctx_new`, or
its kernel registers lead back into the handler on its own kernel stack, its words
are what the last trap saved, and the `tp` in them is that worker's. This last part
is what migration breaks. The four properties say nothing about stopped tasks, so
none of them is inductive. The register file is handled by lemmas about offsets:
each store changes one word only, because different fields have different
offsets, and the nibbles of a configuration word change one at a time.

### Ring queue

`RingProofs` proves, for every ring size, number of elements and batch size
(assumptions `CapAssumption`, `NullAssumption`, `ClientAssumption`):

| Theorem | Statement, under `Many(p)` |
|---|---|
| `RingHolds` | `Spec => []HoldsTheRest` |

`Many` says that p is the only client that pushes, one element at a time, and that
every other one pops in batches, which are the calls on the global run queue. The
scheduler's local queues also have owners that pop single elements, and thieves;
section 3 says what goes wrong with them.

`RingInv` numbers the elements and follows three numbers: how many were read out of
their cells, how many `head` has passed and how many `count` has forgotten. They
differ by what the one popper inside its critical section has in hand or has not
counted yet (`Lag`). `ring_pop` takes both mutexes in every case, so there is one such
popper (`Held`: whoever is between its lock and its unlock owns `hlock`); every
element read is in one popper's hands, once (`Handed`). From the number passed
to the number pushed, cell `n % Cap` holds element n + 1, and `head` and `tail` are
those two numbers modulo `Cap` (`Between`). Between the pusher and the poppers the
proof uses no mutex: what the pusher's look at `count` promises stays true, because
poppers subtract from `count` only after they have taken, so a pusher
that saw room (`Room`) and a popper that saw an element (`Some`) still have it when
they come to use it.

### Multi-core scheduler

`MCSchedProofs` proves, for every interleaving of the memory accesses of host and
workers (assumptions `CapAssumption`, `NullAssumption`, `CoreAssumption`,
`SizeAssumption`, `NamesAssumption`):

| Theorem | Statement | For |
|---|---|---|
| `HandedOnceHolds` | `Spec => []HandedAtMostOnce` | any number of workers and tasks, any `QUEUESIZE` |
| `HandedOutHolds` | `Spec => []HandedOutOnce` | any number of workers, `NTasks < Cap` |
| `EachInOnePlaceHolds` | `Spec => []EachInOnePlace` | one worker, `NTasks < Cap` |
| `JoinFinishedHolds` | `Spec => []JoinMeansFinished` | one worker, `NTasks < Cap` |

The hypotheses are the conditions under which the code is right. With `QUEUESIZE`
tasks or more, a full queue has `head = tail` and reads as empty to `ring_pop`, and
`mcsched_add` does not look at a failed push. With more workers the defects of
stealing (section 3) reach the local queues; what is left of the promise then is
`HandedOutOnce`. Three invariants are built on one another.

* `SchedInv`: `ring_pop` takes both mutexes whatever the count, so one worker at a
  time is between its loads of the bounds of the global queue and its count; the
  P tasks the host stored are in cells 0 to P - 1, the first H of them are gone, and
  no task is in two shares or in a share and handed out. This needs no hypothesis.
* `HandInv`: a worker steals, or leaves, only after it found the global queue empty,
  and it does not fill again. A worker on its way with a share took it from a queue
  that was not empty, so until it has pushed it nobody has touched its own queue:
  its `count`, `head` and `tail` are what its own calls left (`Level`,
  `Untouched`). The local queue was empty when the worker went to the global one,
  therefore the share fits and the assertion on `ring_push` holds; every task below
  `head` is in a share or was handed out (`Covered`).
* `SoloInv`: with one worker its queue is never touched by others. Every task that
  left the global queue and has not exited is in exactly one place (`Places`): in
  the worker's hands, in a cell of its queue, or in the share under way. Places are
  numbered, so that a step moves a task from one number to another. At the exit of
  the loop all places are empty, hence all tasks have exited; between two ring
  functions the places are the `Spots` of `EachInOnePlace`.

### Address space

`ProcMemProofs` proves, for every box, page size, program, heap and stack region
and all arguments of the calls (assumptions `NPagesAssumption`, and
`LayoutAssumption`, that the image, the heap region and the stack fit the box, that
the box lies inside the address space and behind its first page, and that the address
space is a whole number of pages):

| Theorem | Statement |
|---|---|
| `TypeHolds` | `Spec => []TypeOK` |
| `ListHolds` | `Spec => []ListSound` |
| `TrackerHolds` | `Spec => []TrackerMatchesHost` |
| `FirstFitHolds` | `Spec => []FirstFitComplete` |
| `BrkRegionHolds` | `Spec => []BrkNearRegion` |
| `BrkHolds` | `Spec => BrkKeepsHeap` |
| `PageMapHolds` | `Spec => ImplementsPageMap`: every step changes one range of pages to one mapping, or none |

The core is what the tracker's operations do to a list. `Sound` is the list between
two operations: nodes not empty, sorted, apart, inside the box, with the cursor at
one of them or at none. A list that a wrapped length has spoiled has one empty node
more; `PMInv` has it as a case of its own (`Spoilt`) that no step leaves. The loop
of `mm_unmap_cb` is the recursive function of `MMap`, and `Walked` its loop
invariant: after k nodes, the nodes kept cover exactly the pages of those k nodes
outside the range, `gone` the ones inside, and the cursor is at a node that is kept,
or at one still to come. One lemma for each of the five overlaps extends it by a
node, `IntervalInduction` carries it to the end, and `UnmapFacts` (`Cleared`) is the
result. `mm_mapat_cb` has the same kind of lemma for the place where the new node
goes, `mm_mapany` one that its walk over the gaps finds one whenever there is one
(`FitComplete`).

`Agree` is the host's side: a page has mapping i in the tracker exactly when it has it
in the host. Each call of `box.c` keeps `Sound` and `Agree` whether the host's `mmap`
succeeds or fails, and paints one range of pages. `PMInv` adds the process: the
break is in its region but for one page, and how far the loader is. The
arithmetic of pages (`ceil`, truncation) is by the quotient and the remainder, with
lemmas for products because the page size is a parameter.

Every inductive invariant was checked with TLC on the instance of its run before
it was proved.

### Only model-checked

* Liveness (`NoStarvation`, `ExitAnswersPeer`, `CallsReturn`, `JoinReturns`): the
  prover does not reason about fairness and ENABLED.
* `CwdResolves`, and what `CWalk` and `Resolve` compute for every path: they are
  folds of the community modules over sequences. A fold takes an operator as a
  parameter, and so do the induction theorems that would say what it computes;
  none of the provers instantiates them. (The loop of the tracker, a recursive function of
  a number, is within reach: the principle that a set of naturals has a least
  element takes no operator, and gives `IntervalInduction`.)
* `StartupFindsArgs`: the places of the strings on the stack are sums of lengths,
  folds again. It is also a statement about its instance: nothing compares the
  arguments with the size of the stack, and whether a list that is too long ends
  the program depends on what lies below the stack.
* What holds of the rings and of the multi-core scheduler outside the hypotheses
  of their theorems is only what the runs show; section 3 lists what does not.
* `ReturnsToCaller` with stealing of tasks that have run is false (`ctx_migrate`).

## 5. Not modelled

* Floating-point save and restore and the cycle counters of `runtime.S`: nothing
  calls the first, the second are measurements. DASICS bounds from index 8 up,
  where the shift in `bound.c` is undefined and no caller goes; the hardware check
  itself.
* System calls that pass a path to the host and keep no state (`truncate`,
  `mkdirat`, `unlinkat`, `renameat`, `faccessat`, `readlinkat`), `getcwd`, time,
  information and random calls; open flags; the host's file system.
* The functions of the path library without a caller, its Windows style, and the
  truncation of a joined path to the output buffer.
* `mm_free`, `mm_mark_original`, `mm_unmap_non_original`, `ring_free`,
  `boxmap_rmspace`, `extalloc_allocat`: no caller that runs.
* ELF header checks beyond "may refuse", file contents, protections, the auxiliary
  entries that carry constants.
* The benchmarks and measurement programs.
* Weak memory: the ring's unlocked accesses are interleaved words. The violations
  found need no reordering.
* Failing malloc outside the loader. Lengths beyond 2^64 are modelled in `ProcMem`
  and `SysBuf`; that `iovcnt * sizeof(struct IOVec)` may wrap before `bufcheck` sees
  it (`sys_file.c:30`) is not.
* What a sandbox can still do on a tracker with an empty node (stage `spoiled`).

## 6. Mutants

Each property has a bug form in its module (comments `Bug form`) that replaces a
definition, listed in `PROJECT.json`; TLC must find the property violated with it.

## 7. Plan

Done, in this order: scheduler and pipes with proofs; rings and multi-core
scheduler; tracker and memory calls; box allocator; descriptor tables, file calls
and the working directory; context switch and bounds; pointer checks with proofs;
stack of a new thread.

Proved after that: data through the pipes and the refinement of `Channel`, the box
allocator, the descriptor tables, the context switch with the bounds; then the
address space with the refinement of `PageMap`, the ring under the clients of the
global run queue, and the multi-core scheduler.

Open: `CwdResolves` for every path, which needs the path library's walks as
functions of a position instead of folds; and `ReturnsToCaller` with stealing,
which needs a change of the code.
