# A TLA+ model of alphaOS

alphaOS is a Unix-like 32-bit kernel for one CPU with a small user library. This
directory holds a model of it in TLA+: the scheduler and its context switch, the
terminal and its screen, memory from the boot map to the user heap, the file store
and its disk. TLC checks the modules on small instances;
TLAPS proves every safety property the runs check, and both refinements, for all values
of the constants. `PROJECT.json` maps every definition to the lines it models and
lists the runs, the hazards, the findings and the theorems.

## Inventory of the system

| Component | State | Operations | Hard behaviour |
|---|---|---|---|
| Scheduler (`kernel/scheduler/scheduler.c`, `kernel/timer.c`) | `current_task`, `task_t.next` and `.status`, `dead_queue`, `awaiting_stdin`, `task_total`, `quantum_tick` | `enqueue_task`, `scheduler_tick`, `await_stdin`, `wake_stdin_task`, `task_exit`, `reaper_task_loop` | order of interrupts, traps and the reaper; pointers shared by ring and queue; a loop without exit |
| Dispatch (`kernel/idt`, `drivers/keyboard.c`) | frames on the stack | the stubs, `timer_`, `keyboard_interrupt_handler`, `syscall_handler`, `exception_handler` | what a C struct laid over a frame reads; faults of the kernel itself; a report that faults |
| Context switch (`scheduler.s`, `load_context`) | saved registers, the tasks' stacks | `load_context`, `restore_task_context` | stack pointers saved one way and restored another, between any two instructions |
| Terminal (`kernel/tty.c`, `kernel/syscall/{read,write,ioctl}.c`) | `stdin_buffer`, head, tail, flags, cursor | `write_tty_buffer`, `tty_read`, `terminal_write`, `tty_ioctl` | typing races reading, retry of a blocked read, a buffer at its end |
| Slab caches (`kmalloc`, `kfree`) | two lists of slabs, `free_list` inside each slab | `kmalloc`, `kfree` | long sequences of calls; `free_list` overlaps objects |
| Frames and paging (`pmm_*`, `mmap`, `unmmap`, `mmap_ring3`, `unmmap_ring3`, `sys_mmap`, `sys_munmap`) | bitmap, page directories and tables, `kheap_pages` | those | frames that change hands; copies of the kernel's entries; holes; a `munmap` nobody checks; exhaustion |
| User heap (`userspace/stdlib`) | page blocks, mem_blocks, free lists | `malloc`, `free` | split, merge and unmap by sums of sizes; stale links; page blocks in pieces |
| Boot memory map (`init_memory`) | bitmap, page table | `populate_bitmap` | any memory map, any place of the module |
| Virtual files (`fs.c`) | vnodes, `file_t`, `task_t.fds` | `init_vfs`, `open_file`, `sys_read`, `sys_write`, `sys_ioctl` | order of the boot; descriptors and buffers nobody checks |
| Inode store (`fs.c`) | two bitmaps, inodes and data on disk | `init_fs`, `alloc_inode_num`, `write_inode_data`, `write_inode` | power cuts, limits nobody checks |
| ATA driver (`disk.c`) | registers of the drive | `init_disk`, `disk_read`, `disk_write` | polling a drive that works, or fails, meanwhile |
| Screen (`graphics`) | framebuffer | `put_char`, `put_pixel` | memory that is not mapped |
| C library | `flags` of `fgets` | `fgets`, `printf` | overlapping calls of several tasks |
| GDT, PIC, PIT, libc wrappers | constants | — | — |

How they interact: the timer interrupt calls the scheduler when the quantum is
over. The keyboard interrupt starts a task for the key `t` and hands every other
key to the terminal, which wakes the waiter in the scheduler on a newline. A
read system call without a line puts its task to sleep with `eip` moved back
onto `int 0x80`, so the call is made again. `task_exit`, from the exit call or a
page fault in ring 3, queues the task for the reaper, which frees its address
space (paging), its stack and its `task_t` (kernel heap). The kernel heap takes
pages from paging, and so does the user heap through `sys_mmap`.

What makes each correct: the scheduler's walks end, each task is in one place,
no pointer leads to a freed task, a ready task runs, dead tasks are freed. The
terminal delivers what was stored in order and nobody sleeps on a line. The
allocators hand out nothing twice, lose nothing, and give back only what is
free. A frame has one use at a time, and only usable memory becomes a frame. A
program goes on where it was interrupted. A file reads back as it was stored, and a
disk call comes back with its data on the disk. A fault of the kernel is reported.

## Modules

| Module | Models | Run by | Proofs |
|---|---|---|---|
| `Scheduler` | scheduler, timer, dispatch | `MCSchedulerLife`, `Stdin` | `SchedulerProofs` |
| `TaskLife` | abstract: what the scheduler promises a task | `MCSchedulerLife` | `SchedulerProofs` |
| `SchedulerLife` | the refinement of `TaskLife`, and turns | `MCSchedulerLife` | `SchedulerProofs` |
| `Tty` | terminal and its system calls | `MCConsole`, `Stdin` | `TtyProofs` |
| `Stdin` | `Scheduler` and `Tty` composed | itself | `SchedulerProofs` |
| `Traps` | stubs, context switch, stacks | itself | `TrapsProofs` |
| `SlabCache` | one slab cache | `MCSlabCache` | `HeapProofs` |
| `BootMemory` | the frame bitmap at boot | itself | `BootProofs` |
| `Paging` | frames, heap mappings, address spaces | `MCPaging` | `PagingProofs` |
| `UserHeap` | `malloc` and `free` in ring 3 | itself | `HeapProofs` |
| `Files` | vnodes, descriptors, order of the boot | itself | `FilesystemProofs` |
| `InodeStore` | the file store on disk | `MCInodeStore` | `FilesystemProofs` |
| `AtaDisk` | the disk driver and a drive | `MCAtaDisk` | `AtaDiskProofs` |
| `Console` | `Tty` with its screen: keys, pixels, fault report | `MCConsole` | `TtyProofs` |
| `Fgets` | `fgets` in several tasks | | `TtyProofs` |

**Atomicity.** There is one CPU and every gate of the IDT is an interrupt gate
(`idt.c:90-97`), so a handler runs with interrupts off until it returns or
restores another task. Each handler is one action; its calls are part of it.
The reaper runs with interrupts on only before its `cli`; in that stretch it
changes nothing.

**Scheduler.** `next` is the pointer of each `task_t`, shared by the ring and the
dead queue as in the code. `status` has the code's four values and `"FREE"` for
memory that is no `task_t`. A `while` loop over the list is `Walk`, the least set
that holds its start and is closed under the step; `next_task` is empty when the
loop has no end, and `cpu` becomes `"spinning"`. A task is created for `t` as if
the terminal were mounted, that is on a kernel that calls `init_vfs`; `Files` has
the one in the repository, which does not.

**TaskLife, SchedulerLife.** `TaskLife` has no list, no queue, no idle and no reaper:
a task is ready, running, waiting for the next line, lost to another waiter, or
dead. The mapping reads the stage off `status`, the dead queue and
`awaiting_stdin`. `passed` is a history.

**Tty.** `accepted` and `delivered` are histories. What a reader does between
calls, and which awake reader runs, is left open; `Scheduler` decides it.

**Stdin.** One action per entry into the kernel, each made of the actions of both
modules over what they share: `awaiting_stdin` and who is asleep. `want` is the call a task is in
the middle of: a task whose read slept has its `eip` back on `int 0x80` and its
registers unchanged, so it can do nothing but make the call again. The refinement
shows that under this scheduler the terminal's callers do what `Tty` assumes.

**Traps.** A frame is the sequence of words on the stack and a struct reads the word
that is there, so a stub that pushes one word too few is a shifted frame. The
user's stack is modelled word by word under the instructions a compiler without
optimisation emits for calls; those actions are external, and so is what the CPU pushes.
`restore_task_context` pushes `ds` before `esp`, so a program comes back with one
word more on its stack. `leave`, with which functions that have locals or make calls
end, removes it; in the middle of a call or a return it is taken for an argument or a
return address, and functions without locals (`align_up`, `pages_required`) end in
`pop %ebp; ret`, which takes it for the frame pointer. Idle, in ring 0, keeps
two words for each time it is resumed. System calls and keys may make the kernel touch
a page that is not there (`kernel_fault`, after which `exception_handler` halts) or
overwrite itself; `misled` records which. That they can, and when, is in `Files` and
`Console`.

**SlabCache.** List surgery is one operator per group of assignments. An object
is an index in its slab and `free_list` a sequence of indices; `caller_writes`
overwrites the entries that lie in an object a caller holds. That action is
external: it stands for the callers. What they write may be the address of an object
of the same cache, held or not (a `file_t` has its `ops` there), so when `kmalloc`
pops such a word any object, or none, is handed out (`hand_out_junk`), and the model
stops.

**Paging.** A directory is modelled with the tables it leads to. `runs`, `regions`
and `torn` are histories: what callers of `mmap` and `sys_mmap` hold, and the tasks
that were given a region in pieces or called `munmap` for other pages than exactly one
region. `sys_munmap` takes any address and length, as the code does: a part of a
region, the code or the stack, pages that are not mapped, the kernel's half.
`KernelHalfFresh` allows a copied kernel entry to be absent, since a table the heap
adds after a task was created is missing in its directory; that flaw of the code is a
hazard no property rules out.

**UserHeap.** Sizes are in units of 8 bytes. The two kinds of list are sequences, and a
page block is named by its first page. Three steps of the code break the heap, and
the model makes them as the code does, sets `astray` and stops behind them: a split that
leaves less than a header (the size of the rest wraps and its header lands in the next
block), a block put back on the list with the link it kept from before (`stale`),
and a page block of several pages that `sys_mmap` starts in a hole, so that it runs over its
neighbour. No property notices these steps themselves; the properties say what holds
until then. The program is taken to use `mmap` and `munmap` only through `malloc` and
`free`, and its page blocks to lie in the first page table, behind code and stack.

**BootMemory.** Addresses are bytes and pages are small; the memory map, the module
and the byte at address 0 are inputs. `_kernel_start` is a `char`, so the code takes
that byte for the start of the kernel. The first entry of the map is available from
address 0 and holds kernel and module; an ordinary PC has a hole below 1 MB there,
where the kernel begins (`linker.ld:6`), which makes no difference since all below the
kernel's end is marked whatever the map says.

**Files.** `with_vfs` tells two kernels apart. `file` and `fds` are memory: a
descriptor beyond the three that are set leads anywhere. A buffer lies in the program,
where nothing is mapped, or in the kernel, and the terminal's operations use it in ring
0 (`After`). `passed` is a history: the kinds of buffer, and whether a descriptor was out
of range.

**InodeStore.** One action per disk write, in the order the comment in `init_fs`
shows, the only use these functions have. `power_cut` may come between any two. Every
boot formats the store anew (`fs.c:154-156`), so nothing stored before it is left to be
recovered.

**AtaDisk.** The drive is external and works while the driver polls; a loop that
polls is an action that waits for its condition. `raced` and `lost` are histories.
The drive sets BSY in the step in which the command is written; a drive that takes
longer, and a poll that reads the status from before the command, are left out.

**Console.** `Tty` on a screen that has an end. Drawing a character writes pixels as
far down as the lowest inked row of its glyph (`Ink`); `init_video_memory` maps as
many whole pages as the framebuffer fills, and what lies below faults. A fault while
drawing enters the handler, which draws.

**Fgets.** The statements of `fgets` in several tasks; the terminal's flags are a set.
It has no run: its three invariants are proved.

**Names.** Two modules that are proved about in one have different names for the same
things: `Files` has `VfsInit`, `VfsNext`, `VfsSpec`, `UserHeap` has `HeapInit`,
`HeapNext`, `HeapSpec`, `Fgets` and `Console` likewise.

**TypeOK** is stated in the modules and in no run of its own; the proofs need it.

**wild.** Where the code follows a pointer that is not one, or runs out of memory
without noticing, what happens next is arbitrary. The modules set `wild` and
stop. Properties then describe all behaviour up to that step, and
`WildExplained`, `WildNeedsOddMachine`, `DamageNeedsExcess`, `LossExplained`,
`KernelLossExplained` and `RecursesOnlyBelow` say what the step needs.

**Slip operators.** A definition `Slip_f` before `f` is `f` with one plausible
slip. It is no part of a specification. `PROJECT.json` pairs it with the property
that notices it.

## Runs

| Run | Instance | Shows |
|---|---|---|
| `scheduler` | four ring-3 tasks, quantum 2 | the ring is a cycle, each task on it or on the dead queue, the waiter asleep, the reaper awake while it has work, `task_total` exact; a spin in `next_task` needs an enqueue while idle was not current; `Scheduler` implements `TaskLife`; while a task is ready no other gets the CPU twice |
| `stdin` | two tasks, quantum 2, buffer of 2, fairness | `Stdin` implements `Tty`; a woken reader's call returns unless another task reads its line first, a ready task gets the CPU and dead tasks are freed, all unless `next_task` spins |
| `console` | two readers, buffer of 3, screen of 2 by 2 characters, up to 5 stored characters | order, no sleep on a line, at most one buffer in all; the report of a fault faults in turn only when the cursor is below the mapped screen |
| `slab_1024` | three slabs of three objects, `free_list` inside object 0 | lists sound; nothing offered twice or lost until `kmalloc` pops a word a caller wrote |
| `slab_2048` | one object per slab | violation of `NoEmptySlab`, see below |
| `paging` | two tasks, 11 frames, tables of 3 entries, 8 calls, 6 once a task is torn | frames used once, none leaked, heap runs sound, and regions too for tasks that are not torn; memory is overrun only when frames or heap addresses ran out or a task is torn |
| `user_heap` | four pages of 7 units, sizes 1, 2, 5 | until a step goes astray: blocks tile, are free or held, page blocks do not overlap and are unmapped with the last held block |
| `traps` | a stack of 12 words, a boot stack of 12, exceptions 0, 13, 14 | a program strays only if resumed between the instructions of a call, in a function that ends in `pop %ebp`, or at the end of its stack; as long as none has, the kernel is lost only by a fault of its own, by writing through a program's pointer, by an exception other than a page fault, or with a boot stack used up |
| `files` | three programs, both kernels, descriptors up to 3, buffers of each kind | files neither lost nor shared; system calls and starts of programs take the kernel down only for a descriptor out of range, a buffer not the program's, or a kernel without `init_vfs` |
| `inode_store` | five files, room for two inodes and four sectors, one power cut | files read back and bitmaps are exact, until the store is asked for more than it holds |
| `ata_disk` | three sectors, calls of one or two, fairness | reads return what was written; writes are durable unless the flush was ignored or an error not looked at; calls end unless the drive failed or is absent |
| `boot_memory` | maps of up to three entries over five pages | no unusable frame is free but the tail of an unaligned range, no usable one is lost on a sorted map, nothing else is written on an ordinary machine |

**Bounds.** Four tasks allow a current, a waiting, a displaced and a dead task at
once, and queues of three; a quantum of 2 has a tick that switches and one that
does not. A buffer of 3 is filled, read in part and jammed within 5
characters (`TYPED_BOUND`); `ROW_BOUND` lets the cursor go below the screen. Three slabs give
lists with a middle, where unlinking is hardest. Eleven frames hold an address
space with a second table beside a growing heap, and run out; regions go over
the end of a table; `CALL_BOUND` and `TORN_BOUND` are there because the permutations of
frames over pages are too many: a task, two regions, a hole and a region in pieces take
five calls, frame 0 freed, given away and freed again take four. In `user_heap` four pages
(`AREAS`) allow a hole of one page between two page blocks, and every branch of
`malloc` and `free` is taken, in page blocks of one and of two pages.
In `stdin` the scheduler's state space multiplies the terminal's, so it has two
tasks and two characters: enough for a line that is stolen, a second waiter that
takes the first one's place, and a buffer that is used up. In `traps` twelve words hold
two nested calls with the five words of a restore, and the boot stack is used up after
four turns. In `inode_store` each of the three limits is
exceeded by some choice of files, and only just. The memory maps of `boot_memory` have
entries at every byte of five pages of three bytes, so aligned and not, touching,
apart and out of order. The screen of `console` is scaled down with the page: its last
page ends where its last row does, and `ROW_BOUND` lets the cursor go far enough below
for a whole report to be drawn there.

**Deadlock** is not checked in `Scheduler`, where a CPU that spins takes no step,
nor in the modules that stop at `wild`, at a crash or at a bound, or that run once.

**Fairness.** `StdinFairSpec` has weak fairness of the timer, since it interrupts for
ever and every handler returns, and strong fairness of the reaper and of a task in the
middle of a read: who gets the CPU has it for a quantum, and each needs a few
instructions to take its step. Nothing is assumed about the keyboard or about what
programs do. `AtaDisk` has weak fairness of the driver, which is all the CPU runs, and
of the drive, which ends a command or reports an error; nobody has to make a call.

**Finding.** `memory.h:63` says that there are no empty slabs because "ALL empty
slabs are freed". With objects of 2048 bytes a slab has one object; `kmalloc`
leaves the new slab on the partial list, `kfree` takes it for one from the full
list and links it to itself, and after `unmmap` the partial list still leads to
it (`slab_2048`).

`LossExplained` has one cause that is no odd input: `kernel_main` calls `init_fs` and
nobody calls `init_vfs`, so `global_tty` is NULL, and at this commit the first `t`
typed after the boot makes `open_file` read address 0 in ring 0, which halts the
kernel.

## Proofs

Each module below proves `Spec => []P` for the properties `P` its runs check and for
the type invariant, from an inductive invariant that is named here. `P` alone is
seldom inductive. The only hypotheses are the named assumptions of the modules
(distinct tasks, positive sizes and the like, which TLC evaluates in the runs), and
those that are said here.

**SchedulerProofs**, any finite set of tasks, any quantum. That unlinking keeps a cycle
needs that the current task is on it, that the dead queue ends needs that no ring task
points into it, that `next_task` returns needs to know who may be asleep.
`IInv` is the conjunction of the properties in a form the prover can use: `TypeOK` and,
while the CPU is not lost,

- `RingInv`: the tasks that are live and not queued form a cycle, stated as
  "every set that holds one and is closed under `next` holds all";
- `QueueInv`: the dead queue holds live ring-3 tasks only and ends in NULL;
- `CountInv`, `RunInv`, `DeadInv`, `WaiterInv`, `ReaperInv`: the count, the marks
  and the waiter;
- `IdleInv`: unless a task was enqueued while idle was not current, idle can be
  picked, or idle is current and another task on the ring is ready.

Lemmas on the list come first: what a walk visits (`WalkIsCycle`), that inserting
before and removing a task keep a cycle (`CycleInsert`, `CycleRemove`), that
links outside do not matter (`CycleFrame`), and how the queue grows (`QueuePush`).
Then there is one lemma per operation, and `NextInv` puts them together. On top of it:

- `LifeImplemented`: `Scheduler` implements `TaskLife`. Every action is a step of one
  task's life or a stutter; `UserInv` says that no ring-3 task has idle's status.
- `RoundRobin`: `Segment` is the part of the ring from behind the current task to a
  ready task. `TurnInv` says that nobody who had a turn since that task became ready is
  in its segment; a switch only moves the start of the segment on, and
  enqueueing and unlinking change it at the far end.
- `StdinSchedules`: a step of the composition is a step of the scheduler or a stutter,
  so all the above holds in `Stdin`. `TtyImplemented`: it is a step of the terminal too.
  What the terminal takes for its waiters are the ring-3 tasks asleep (`Sleepers`);
  the lemmas say which operations of the scheduler change that set.

**TtyProofs**, any buffer size, readers, characters and screen. `BufInv` says that the
buffer is in one of two phases: in the first the tail has not gone back and what was
stored is the array up to the tail, with `delivered` its prefix up to the head; in the
second the head is at the end of the array, `SIZE` characters were delivered and they
are the first that were stored. From there the head is never below the tail, no line is
seen and nothing is delivered again. `ConInv` adds where the
cursor can be: a column of the terminal, after a text of any length. That a
report recurses only below the screen (`ReportsUnlessBelow`) assumes `ScreenFits`: the
terminal's rows and columns fit the framebuffer and it ends on a page, as with the
sizes `boot.s` and `tty.h` name. The proof is about the character that faults: every
pixel above the last row is mapped. The invariants of `fgets` are inductive together
(`CallInv`): a call under way has the echo bit in its word, and every bit that is set
belongs to such a call.

**TrapsProofs**, any sizes of the stacks. `Frames` says that the saved frame pointers on
the user's stack form a chain, each leading to the one before, with return address and
argument under each unless a resume came between the instructions of a call; `Pending`
says what lies on top in the middle of one, up to a resume that makes the task `bare`;
both are kept while the program is fine. `SavedRight` says that a task which does not run
has its stack pointer saved. A `leave` or `ret` then finds the word it expects unless
`bare`. The causes of a loss are read off the step that sets `status`, with the frames
computed by the first lemmas; that the boot stack lasts until idle was resumed often
enough is part of `TrapsInv`.

**HeapProofs**, the two allocators.

- `SlabCache`, any number of objects and words they cover. `ObjectInv` counts: free
  and held objects add up, and while nothing is wild no entry below the counter that the
  allocator wrote is held or listed twice. `Chain` says that a list holds exactly the slabs its
  counter names, with `next` and `prev` mirrored and no smaller closed set; the lemmas
  are about `push` and `unlink`. `ListsAreSound` and `NoSlabIsEmpty` assume `TOTAL > 1`,
  and `slab_2048` shows that they need it.
- `UserHeap`, any number of pages, sizes and headers. `HeapInv` says, while nothing is
  astray, of each page block that its blocks tile it (`Tiled`), that its free list has each
  block once that nobody holds (`Listed`) and that no other page block has its pages
  (`Apart`). Each branch of `malloc` and `free` has a lemma
  on one page block (`SplitArea`, `ExactArea`, `FreshArea`, `MergeArea`, `AppendArea`).
  `FullIff` is what `is_page_free` rests on: the sum of the free sizes is the
  size of the page block exactly if nothing else is held. The blocks are disjoint
  intervals that cover the page block, so the sum is a cardinality; the sum is a
  recursive function, and that there is one and what it counts follow from the
  least-number principle.

**PagingProofs**, any tasks, frames and tables. `Owned` sees all entries of all tables as
uses of frames: no frame has two uses, and the frames taken are those in use or
reserved. `RunsSound` and `SpacesSound` say which pages are mapped: for a task that is
not torn exactly its code, its stack and its regions, so that a `munmap` of one of them in
one table finds all its pages (`UnmappedIs`); any other one makes its task torn. The loops of
`mmap` and `sys_mmap` are recursive functions; what they keep holds because there is
no least round that breaks it. The search in `sys_mmap` finds a page by the pigeonhole
principle, which is why `PagingAssumption` has fewer frames than pages below
`KERNEL_BASE`: a machine with less than 3 GB.

**BootProofs**, any memory map, module and page size. `BootInv` describes the machine
(`Machine`), the sizes computed from it (`Sized`) and what is marked after each entry
(`Progress`). That no unusable frame stays free needs that a frame outside all entries
is in the gap in front of one, the least that starts behind it.

**FilesystemProofs**. `Files`, any tasks: `FilesInv` says that the files in use are
those the descriptors lead to, each once, what the boot leaves behind, and what was
passed by the programs when the kernel is down. `InodeStore`,
any files and sizes of the tables: `StoreInv` says which numbers the stored files have
(`Stored`) and how far the current one is (`Stage`); a number the bitmap
gives is fresh because the lowest clear bit is the count of files.

**AtaDiskProofs**, any disk and contents. `DiskInv` pairs each place in the driver with
the states the drive can be in (`Protocol`) and says which sectors of the
cache have what was written (`Data`), until a sector is lost.

**What proving changed in the model.** `putchar` had overlapping `CASE` guards, which in
TLA+ leave the choice open; it has the `IF` of the code now. In `BootMemory` a
`low_byte` is any value `_kernel_start` can have. `UserHeap` names the sum it compares.

**Only model-checked**: liveness, since the prover has no fairness (`WokenReturns`,
`ReadyRuns`, `DeadAreReaped`, `CallEnds`), and the violation of `NoEmptySlab` with one
object per slab.

## Not modelled

- GDT, PIC, PIT and the IDT's entries: tables and port writes at boot that never
  change. `PIT_HZ` is 0.0005 at this commit and the divisor overflows; the models
  have no real time.
- `boot.s`, which enters `BootMemory` as inputs, and `enter_userspace`, which nobody
  calls.
- The VGA text buffer, which nothing writes to, and the shapes of glyphs.
- Conversions: `printf`, `terminal_writeuint`, the debug output of `misc.h`, and
  `tar_parse_octal` with the walk over the archive in `init_fs`, whose result is not used.
- The library's system-call wrappers, `crt0` and `hello`: they keep no state.
- What a program does after it strayed or went `astray`, or the kernel after `wild`: anything.
- A drive that has not yet reacted when its status is first polled, and programs that mix
  `mmap` and `munmap` of their own with `malloc`.
- Two causes of a fault in ring 0 are in modules of their own and enter `Traps` as the
  open choice `kernel_fault`: bad descriptors, buffers and the missing `init_vfs` (`Files`),
  and keys without a character and pixels below the screen (`Console`).

## Plan

Done: the modules above, their runs, and the proofs of all safety properties and of both
refinements. Next, in this order:

1. Action properties from the invariants at hand: what a step may never do to a block
   a program holds (`UserHeap`), to a frame in use (`Paging`) or to a file that is
   stored (`InodeStore`).
2. What a read returns in `Stdin`, carried over from `Tty` along the refinement.
3. Shorter proofs where a lemma can serve two modules.
