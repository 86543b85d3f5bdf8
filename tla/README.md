# TLA+ models of the NEHCPU system

The repository holds a computer built from the gates up: a MIPS CPU in Verilog
(`NEHCPU_3`), the ucore operating system that runs on it
(`ucore-thumips-2017summer`), a Decaf compiler whose output runs under that
system (`decaf_modified`), and a Qt terminal for its serial line
(`NEHCPU_TERMINAL`). This directory models the parts whose behaviour depends on
the order of events or on what runs out when: the kernel, from processes down to
the blocks of the disk, the tool that makes the disk, the shell, and the way of
an access from the pipeline over the bus.

Paths below are relative to `ucore-thumips-2017summer/kern/` unless they name
another part. `PROJECT.json` has the line ranges each definition translates.

## 1. Inventory

### Kernel

| component | state | operations | interacts with | correct when |
|---|---|---|---|---|
| process management, `process/proc.c`, `syscall/syscall.c` | `current`, `proc_list`, hash list, `nr_process`; per process state, flags, wait state, family pointers, exit code | fork, exec, exit, wait, kill, yield, sleep; idleproc, initproc and user_main | scheduler, timers, memory, file table; called from traps | no wakeup is lost, every zombie is reaped once and by its parent, pids are unique, families and pointers agree |
| scheduler and timers, `schedule/` | run queue, slices, `need_resched`, `timer_list` (a delta list) | `schedule`, `wakeup_proc`, `add_timer`, `del_timer`, `run_timer_list` | timer interrupt | the queue holds what can run, nobody starves, a timer expires at its tick |
| traps, `trap/` | the trap frame; `PF_EXITING` and `need_resched` are read on the way out | `mips_trap`, interrupts, faults, TLB refill | all of the above | a fault of the kernel happens only when memory is gone |
| semaphores and wait queues, `sync/` | value, queue of waits, wakeup flags | `down`, `up`, `try_down`, `wakeup_queue` | scheduler, kill | units add up, every waiter gets one |
| console input, `driver/console.c`, `fs/devs/dev_stdin.c` | UART FIFO, ring `cons`, `stdin_buffer` with free running positions, wait queue | serial interrupt, `cons_getc`, `dev_stdin_write`, `dev_stdin_read` | scheduler, kill | the bytes that the handler fetches arrive in order and once, no reader sleeps on one |
| physical pages, `mm/buddy_pmm.c`, `mm/default_pmm.c`, `mm/pmm.c` | free lists, `PG_property`, `property`, counters; page reference counts | `alloc_pages`, `free_pages`; `page_insert`, `page_remove`, `copy_range` | address spaces, heap | no page is lost or given out twice |
| address spaces and TLB, `mm/vmm.c`, `mm/thumips_tlb.c` | vma list and cache, page directory, `current_pgdir`, TLB entries | `mm_map`, `dup_mmap`, `exit_mmap`, `do_pgfault`, refill | fork, exec, exit | a process sees its own memory and nothing else |
| kernel heap, `mm/kmalloc.c` | slab lists, buffer control links | `kmalloc`, `kfree` | everybody | objects never overlap, lists match use |
| file table, `fs/file.c`, `fs/fs.c`, `fs/sysfile.c` | per descriptor status, position, open count | open, close, read, write, seek, dup, fsync | VFS | a descriptor names its file until it is closed |
| VFS, `fs/vfs/` | inode reference and open counts, device list, current directory | lookup, open, close, mount | SFS, devices | counts are exact on every path |
| SFS, `fs/sfs/` | inode hash, `din`, dirty flags, free map, superblock | block map, truncate, io, fsync, reclaim, lookup, sync, mount | disk | every block has one owner, a close saves |
| disk, `driver/ramdisk.c`, `fs/devs/dev_disk0.c`, `fs/sfs/sfs_io.c` | the RAM disk, `disk0_buffer`, `sfs_buffer` | block and part-of-block transfers | SFS | a block keeps what was written last |
| red-black tree, `libs/rb_tree.c` | nodes, sentinels | insert, search, delete, successor | its own test | it stays a red-black tree of what was inserted |
| library, start-up, monitor, output | none that outlives a call | | | |

Everything is driven by one CPU. A trap from user mode runs with interrupts off
until it returns or calls `schedule()`, and no call sleeps while it holds a lock
of the file system (the disk is memory). So two kinds of code really interleave:
what lies between two calls of `schedule()` in different processes, and the
interrupt handlers with user mode and with the three kernel threads. The hard
behaviours are: wakeups that race with the decision to sleep; kills that meet a
process in any state; orphans handed over while initproc is asleep; timers that
outlive the sleep they belong to; the hand-over of a semaphore; a byte that
arrives while readers are woken, killed or late; a TLB that still knows the last
process; buffers, tables, memory and the disk at their limits; and calls that
fail half way.

### Outside the kernel

* `tools/mksfs.c` writes the disk image: a walk over a directory with caches for
  the index blocks of the file being written. Correct when the image accounts
  for every block and the kernel reads back what was put in.
* `user/sh.c` reads a line with an editor, cuts it into tokens and runs it with
  processes that each hold a copy of the line. Correct when the commands between
  `;` run in their order, one after the other.
* The CPU (`NEHCPU_3/NEHCPU_3.srcs/sources_1`): five stages (`id.v`, `ex.v`,
  `mem.v` and the registers between them), `ctrl.v` (stalls and flushes),
  `cp0_reg.v` (exceptions, timer), `mmu.v` and `vir2phy.v` (sixteen TLB entries),
  two bus masters (`wishbone_bus.v`: idle, busy, wait for the stall to end),
  slaves (`sram.v`, `wb_flash.v`, `uart_controller.v` with a FIFO, VGA) behind
  `wb_conmax`. Hard: a flush in the middle of a bus cycle, both masters busy
  while the pipeline is stalled, a slave that sees an access one clock longer
  than its master meant. Correct when every access is done once, for the
  instruction that asked, and the pipeline never stops for good.
* The Decaf compiler is a sequential pass over trees; the terminal shows what it
  receives. Neither is modelled.

## 2. Modules

| module | models | state and actions |
|---|---|---|
| `Proc` | `proc.c`, `sched.c`, `default_sched.c`, the tail of `mips_trap` | One action per stretch of code between the points where something else may happen. `pc[p]` says where a process resumes, `at_schedule` that the current one stands at `schedule()`. `SysFork`, `SysExit`, `SysWait`, `SysKill`, `SysSleep`, `SysRead`, `ClockInt`, `SerialInt` and so on carry the names of what they translate; `panic` records a failed assertion or a `panic()` |
| `GetPid`, `PidSpec` | `get_pid` (proc.c) | the walk over `proc_list` with `last_pid` and `next_safe`, one action per element; `PidSpec` promises some pid not in use |
| `ProcLinks`, `ProcTree` | `cptr`, `yptr`, `optr` in `set_links`, `remove_links`, the re-parenting loop of `do_exit` | pointers; `ProcTree` has the list of each process's children |
| `TimerList`, `TimerSpec` | `timer_list` | the delta list; `TimerSpec` gives each timer its absolute ticks left |
| `Sem`, `SemSpec` | `sem.c`, `wait.c` | down in two halves around `schedule()`, `up` with hand-over, kills; `SemSpec` is the counting semaphore |
| `Stdin` | `console.c`, `dev_stdin.c`, the receiving half of `uart_controller.v` | bytes from the FIFO through the ring into the buffer and to sleeping readers. The handler is one `Fetch` for every byte that `cons_intr` reads, which takes two out of the FIFO when two are waiting, and `HandlerEnd`; `Receive` may come between them. `input` is what the line carried, `taken` what the handler read |
| `Buddy`, `DefaultPmm`, `PageSpec` | `buddy_pmm.c`, `default_pmm.c` | blocks, flags, lists and counters of each manager; `PageSpec` has only the set of free pages |
| `Slab` | `kmalloc.c` | the thirteen caches with their real sizes, slabs inside and outside of their pages, growth that fails at either of its allocations, the self test at boot |
| `Vm`, `MemSpec` | `vmm.c`, `pmm.c`, `thumips_tlb.h`, the page faults of `trap.c`, the memory side of fork, exec and exit, the TLB of `mmu.v` | page directories and tables in pages that run out; `proc_run` loads `current_pgdir`; every access to user memory, by a program or by the kernel for it, goes through the TLB; `load_icode` page by page. `MemSpec`: each process has a memory of its own |
| `Files`, `FileSpec` | `file.c`, `fs.c`, `sysfile.c`, `vfs/`, inode hash, look-up, loading and reclaiming of `sfs_inode.c` and `sfs_fs.c` | every system call on files is an action, with memory running out at any allocation; a read of stdin is two, the process sleeps between them. `FileSpec`: what a descriptor promises |
| `SfsFile` | the block map, growth, truncation, saving in `sfs_inode.c`; positions of descriptors | each system call is one action; a call is an operator on a record of what it works on |
| `Mksfs`, `Bitmap` | `tools/mksfs.c`, `sfs_do_mount`, `bitmap.c` | the walk meets one entry a step, then the image is closed, mounted and allocated from |
| `Disk` | `ramdisk.c`, `dev_disk0.c`, `iobuf.c`, `sfs_io.c` | each transfer is one action on the disk and the two buffers |
| `RbTree` | `rb_tree.c` | insertion, deletion, creation and destruction; the fixups are recursive operators |
| `Shell` | `user/sh.c` | one action per token, fork, end of a command and end of a wait |
| `Bus` | `wishbone_bus.v`, `ctrl.v`, the pipeline registers, `wb_conmax`, `sram.v`, `uart_controller.v` | one action, `Clock`: every register behind the edge from the registers before it, what program runs being chosen freely |
| `MC...` | | instances; `MCLists`, `MCWaits` and `MCLib` put small independent modules side by side, and a behaviour exercises one of them (`part`) |
| `Facts` | | lemmas about numbers, least elements, loops and sequences that the proofs share |
| `ProcProofs`, `ListsProofs`, `WaitsProofs`, `VmProofs`, `FilesProofs`, `SfsProofs`, `BusProofs` | | theorems, see section 4 |

How the modules fit together. `Proc` names a process by its pid, keeps children
as a set, and keeps ticks left per timer: `GetPid`, `ProcLinks` and `TimerList`
are the data structures behind these, each shown to implement the abstract one,
so that `Proc` need not carry them. In `Proc` fork and exec may fail; `Vm` says
how and that nothing is lost. `Vm` takes single pages from a set; `Buddy` and
`DefaultPmm` implement that set (`PageSpec`), and `Slab` stands on it. `Files`
knows of a file only whether it holds anything; `SfsFile` has its blocks and
positions, `Disk` the transfers below. `Mksfs` ends where the kernel mounts.

Definitions whose name says what they get wrong (`RefillPastMax`, `WakeupFirst`,
`Abort_keeps_pages`) are variants of the definition that follows them, used to
see that a property notices the mistake; no specification uses them.

Abstractions.
* `Proc`: `schedule` puts the current process back, if it is runnable and not
  idleproc, and takes the first of the queue or else idleproc (`sched.c:15-20,
  82-94`); an idleproc that was woken or preempted is never queued (`Queueable`).
  The order in which several processes that wake at once are queued is any order
  (their timers' order in the list is not kept); system calls that neither block
  nor touch a process are `SysOther`; exec either returns, succeeds or ends the
  process. The assertions on free pages at the end of `init_main` are left out.
* `Stdin`: the kernel monitor's own `getchar` is left out; a byte that arrives
  between the two clocks of `fifo_rd` counts as one that arrives before or after
  them.
* `Vm`: addresses are page numbers, a page holds one value, no `mm` is shared
  (nobody passes `CLONE_VM`), a refill replaces any TLB entry. The page tables
  map four pages each instead of 1024.
* `Files`: contents are left out but for emptiness; names are resolved in one
  step; disk transfers never fail, as the RAM disk's never do.
* `SfsFile`: contents are left out, all descriptors are readable and writable,
  and `kmalloc` succeeds.
* `Mksfs`: names and the host's bytes are left out. `Shell`: descriptors and
  what a program does are left out; a command ends when it likes. `pipe()` is
  commented out in the source, so the descriptor given to `dup2` is
  uninitialised and the call may succeed or fail.
* `Bus`: instructions are kinds (load, store, serial access, branch, trap, ...),
  and the word at an address is that address. The kernel touches the serial port
  with interrupts off, and the model takes that from it.

## 3. Runs

| run | instance | shows |
|---|---|---|
| `proc` | 5 processes (3 user), slice 1, sleeps up to 2 ticks, user processes symmetric | the run queue is what is runnable but for `current` and idleproc, each once; states agree, no lost wakeup, no dead parent, no timer behind its sleep, no assertion fails, `nr_process` exact, a process goes only when its parent reaps it |
| `proc_live` | 4 processes, slice 2, no symmetry | every runnable process but idleproc gets the CPU; initproc reaps every zombie it inherits |
| `proc_kill` | as above; a violation | a killed process may live on: it enters `wait` or a read of the console with `PF_EXITING` set and goes to sleep |
| `lists` | pids up to 8 for 6 processes; families of 6 processes; 4 timers of up to 4 ticks | pids unique, the cached gap free, `PidSpec` implemented, the walk ends; the sibling lists are the families and nothing points to a freed process; every timer expires at its tick |
| `waits` | 4 processes on a semaphore of value 2; 2 readers, FIFO 3, ring 3, buffer 2, 4 bytes | units add up and are handed over safely from `try_down`, every waiter gets its turn; what the handler reads reaches the readers in order and once, with losses only where a buffer is full; what it does not read came right behind a byte it read, or met a full FIFO; no reader sleeps on a byte, waiting readers are served |
| `uart` | 1 reader, FIFO 2, ring 3, 2 bytes; a violation | a byte is taken out of the FIFO that the handler never reads, though no buffer overran |
| `vm` | 2 processes, 18 pages, 2 tables of 4 pages, programs "sh" and "bad", 3 forks and execs | every page is owned once and counted right, areas ordered and apart; the TLB shows only what the current page table maps; the kernel faults only with no page left; `MemSpec` implemented |
| `sfsfile` | 2 files, 2 descriptors, 3 blocks of 2 bytes, 1 direct and 2 indirect entries | every block owned once, no holes, close saves what it must, only the known assertions fail |
| `files` | init and 2 processes, 3 descriptors each, at most 3 in use, 1 directory, 1 file, the console | reference and open counts exact, no assertion on counts fails, `FileSpec` implemented |
| `files_ops` | as above; a violation | operations that an inode's table lacks are called |
| `lib` | 7 pages and orders 0 to 2; 5 pages first fit; 3 pages of heap, objects of 33, 2048 and 5000 bytes, 4 at a time; images of 21 blocks; trees of 8 nodes; a disk of 7 sectors; lines of 5 keys | lists, flags and counters of the page allocators exact, everything mergeable merged, every step of both a step of `PageSpec`; slabs exact, objects disjoint; the image accounts for every block, mounts and reads back; the tree stays red-black and complete; blocks keep what was written; commands run in order |
| `bus` | two code addresses, one data word of RAM, the serial port | every access done once and for its own instruction; again and again nothing is stalled |

Why the bounds are enough. Three user processes are a parent, its child and a
third that kills, wakes or inherits at the wrong moment; a fourth adds no
relation (the proofs remove this bound). `MaxTimeSlice` 1 and 2 give a slice
that ends at the next tick and one that does not. Eight pids for six processes
make `last_pid` wrap several times with every pattern of gaps around
`next_safe`. Six processes in `lists` give an exiting process two children
between two siblings. Every buffer of `waits` overruns within four
bytes: the FIFO by them all, the ring by the three that a handler fetches when they
arrive one at a time, the buffer of stdin by one more than it holds; three places
in the FIFO let a read of two leave one behind. Seven
pages are one block of each order, so that splitting, merging across sizes and a
buddy outside the zone occur, and a page inside a block keeps the order of any
block that once began there (`property`), with and without `PG_property`. Three pages
of heap are a slab with its control area inside, one with it outside and the
slab that holds that area; each can fail to be had. Eighteen pages are
what two processes with every page they need at the start take, to the last one:
a second process can run, can fail at each of its allocations (the stack, the
directory, each table and each page of fork and of exec), and every later fault
meets an empty memory until somebody exits; "bad" makes exec fail after it has mapped pages. Three disk blocks are
one direct block, one indirect block and one entry for one file, or too few as
soon as the other file has one; each allocation of each call meets a full disk
in some behaviour. Three descriptors are stdin, stdout and one that exec treats
differently (`fs_closeall`); `MaxLeaked` lets the leak of `vfsfile.c:45` happen
once, to the file: the root and the devices stay in memory in any case. `Depth`
says how far below the root a directory lies, so that the climb of
`sfs_namefile` is known to end; the image of the run has one directory, the
proofs allow any tree. Twenty-one blocks hold files on direct blocks, on one and on two
levels of indexes, with the freemap ending one bit into a word of four. Eight nodes give every
case of both fixups, equal keys included. Seven sectors are three blocks and an
odd one. Five keys are two commands with a symbol between them, or one with
quotes or a redirection, in a line buffer of four that fills up. `Bus` has no
bound: its registers are finite and every program is one of its behaviours.

`CHECK_DEADLOCK FALSE` stands in `waits` and `lib` (the bounds on bytes, keys
and blocks end every behaviour), and in `vm`, `sfsfile`, `files` and
`files_ops` (a panic stops the kernel). `Proc` shows a panic as the stuttering
action `Halted`.

Fairness.
* `Proc`: WF of `Kernel`, because kernel code with interrupts off runs on; SF of
  `ClockInt`, because the timer interrupt stays pending until `Compare` is
  rewritten (`cp0_reg.v`), so a window with interrupts on that returns again and
  again is hit. Nothing is assumed of user programs or the keyboard.
* `GetPid`: the walk runs on. `Sem`: a woken process is run (`RunnableRuns` of
  `Proc`) and a holder calls `up`. `Stdin`: the handler, which runs with
  interrupts off, runs on, and a woken reader is run; nothing is assumed of the
  line or of when the interrupt is taken.
* `Bus`: the clock ticks, and the transmitter of the serial port gets done with
  a character, as its bit counter makes it (`uart_async.v:43-68`).

## 4. Proofs

All for every value of the constants that the named assumptions allow. These are
`ProcAssumption` (finitely many processes, idleproc and initproc two of them, at
least one tick per slice), `PidAssumption` (more pids than processes, as
`static_assert` in `get_pid` has it), `ListsAssumption`, `SemAssumption`,
`WaitsAssumption` (buffers have at least one place), `FilesAssumption` (at least
three descriptors, and the directories of the image form a tree with the root its
own parent, as `mksfs` writes them), `VmAssumption` (memory for at least one
kernel stack, page tables of an even number of entries so that the two pages of a
TLB entry share one, and a user stack of at least two pages), `SfsAssumption`
(the disk has no more blocks than a file can address, as the RAM disk of the
Makefile) and `BusAssumption` (code addresses are neither the data word nor the
serial port). TLC evaluates each in its run.

Loops of the code that a proof is about are recursive functions of the round
(`unmapped[n]`, `checked[n]` in `Vm`, `loaded[n]`, `dropped[n]` in `SfsFile`). What
holds after every round is shown by the set of rounds after which it holds (`UpTo`
of `Facts`), or by the least round at which it would fail; that such a function
exists at all is `LoopRuns`.

**`ProcProofs`.** For any finite set of processes `Spec => []ProcInv`, and from it
`ProcTypes`, `RunQueueAlwaysExact`, `ParentsCanReap`, `WakeupsNeverLost`,
`TimersStayInsideSleep`. `ProcInv` is the conjunction of `TypeOK`,
`RunQueueExact`, `StatesAgree`, `ParentCanReap`, `NoLostWakeup` and
`TimerInsideSleep`. None of the others is inductive without `StatesAgree`: it
says which states, wait states and flags go with each place a process can
resume at, so that, for instance, a process that is woken is known to stand
behind its `schedule()` and will look again at what it waited for.
`RunQueueExact` leaves idleproc out, as `sched_class_enqueue` does: `EnqueuedFacts`
and `ScheduleFacts` say what waking and switching do to the queue. The proof
has one lemma per action, with one step per conjunct the action can disturb.

`AssertionsNeverFail` (`ProcsConsistent`) needs `ConsistentInv`. The assertions at
the end of `init_main` say that when initproc has no child left, only idleproc
and initproc are left. That is not a matter of counting: a group of processes
that are each other's parents would be missed. `NoFamilyCycle` excludes it
(in any set of user processes one has its parent outside of the set), and with
`InitLeavesAlone` and `ParentCanReap` the set of all user processes must be
empty. Fork keeps it because the child is new; the adoption in `do_exit` because
it points at initproc. `ZombiesOnlyReaped` is an action property from `ProcInv`.

**`ListsProofs`.** `get_pid`: `PidsAlwaysSound` (no pid twice, the cached gap free of
pids in use) and `PidsRefined` (implements `PidSpec`), for every `MAX_PID` above
`MAX_PROCESS`. The invariant follows the walk: the pids already passed do not
lie between `last_pid` and `next_safe`. The family pointers: `LinksInvariant`, whose `LinksInv` is local
(the neighbour of a process points back, a first child has no younger sibling, a
pointer leads to a process that exists) but for `NoSiblingCycle`, which says that
going to younger siblings ends. In the middle of `do_exit`'s loop the children
of the leaving process are excepted where the code has not yet mended them. That
the walk over a family meets each child once (`FamiliesAreExact`) follows from
lemmas about walks: each step is another process, so by a count the walk ends,
and the least step at which a child could be missed does not exist.
`TreesAreRefined` compares the walk before and after each of the pointer
operations, and so shows that they implement the lists of `ProcTree`.
The timers: `TimersAreRefined` shows that the list of differences implements
`TimerSpec`, from `TimerInv` (one timer per process, the first has time left, the
assertion in `run_timer_list` never failed) and lemmas about the running sums of
the list when an element is put in, taken out or counted down.

**`WaitsProofs`.** `SemAlwaysSound` and `SemRefined` for any number of processes and
any initial value: units held, units handed over and units free add up to the
initial value, and the queue holds each waiter once. `SleepersNeverMiss`: no
reader sleeps in `dev_stdin_read` with a byte in the buffer, for any readers and
kills. `ReadsAreAlwaysTheInput` for all sizes of FIFO, ring and buffer: it says
what becomes of the bytes the handler reads, and which bytes it does not read; that
every byte of the line arrives is false (run `uart`). Its
invariant `BytesInv` looks at all bytes on their way at once, from those read
back to those in the ring: none occurs twice, they are in order unless the
buffer of stdin overran, and they are all the handler read while neither buffer of the
kernel overran. `LineInv` ties that to the line: the FIFO is the end of the input
unless it overran, and of what came before it no two bytes in a row were missed,
since a read that takes two returns the first. Each
ring is a window of its buffer (`IsWindow`); a full ring of `console.c` loses all
of it at once, a full buffer of `dev_stdin.c` has its oldest byte overwritten
by the next one, and both are steps from one such sequence to another (a choice of
elements, in order or not).

**`VmProofs`.** For any number of processes, pages of memory, tables and programs,
any buffers, and with memory running out at any allocation: `MemoryStaysExact`,
`TlbStaysCoherent` and `KernelFaultsAreNoMemory`, all from `InvariantHolds`
(`Spec => []VmInv`). `MemoryExact` counts pages and so is far from inductive:
two mistakes could cancel. `VmInv` has instead
* `Owned`: a kind for each page (free, stack, directory, table, mapped, or in the
  hand of the code that has just allocated it), and for a table or a mapped page
  the one entry that points to it. An entry leads to a page whose place is that
  entry, so no page is used twice; a page of that kind has its entry, so none is
  lost; its reference count is one. Counting comes at the end: entries and pages
  match one to one, and the kinds divide the memory;
* `Covered`: what a directory maps, and every table it has, lies in an area of its
  address space. Without the second half `exit_mmap`, which only looks at areas,
  could leave a table behind; this is why a failing fork or exec loses nothing
  (`Destroyed`). `AreasSound` is the part of it that shows;
* `Reflects`: every entry of the TLB is the pair of entries of the current
  directory, and one of its two pages is mapped. The second half is needed where
  a space is given back: unmapping the page is then what clears the TLB, and
  nothing else does before the directory is reused. `TlbInv` says that the TLB is
  empty whenever the current process is not in user mode, since
  `proc_run`, `do_exit` and `do_execve` run with whatever directory was loaded last;
* `KaccInv`: what is left of a copy to or from user memory lies in areas that
  allow it, as `user_mem_check` found them, however many faults come between;
  `LoadInv`: the area of the segment `load_icode` is filling is in the new space.

The proof goes up from one entry (`get_pte`, `page_insert`, `page_remove_pte`) over
the loops (`unmap_range`, `exit_range`, `copy_range`, `dup_mmap`, `user_mem_check`) to
one lemma per action. `World` is carried from state to state by what a step
leaves alone (`Outside`: all directories but one). A fork that fails is `ForkFails`:
the pages it took, the half-made copy and its tables are free again.

**`FilesProofs`.** For any tree of directories, number of processes and size of the
tables, and with memory running out at any allocation: `RefCountsAlwaysExact`,
`CountAssertionsHold` and `FilesRefined`, all from `FilesAlwaysFit`. `FilesInv`
says that the counts of each inode are those that tables, current directories and
the boot file system account for (`Good`); that an entry of a table is free, or in
use with its own count, or in use with one more by the one read that sleeps on
it (`Settled`); and what is known before the first process (`Early`). As a call is
an operator on a record, the proof follows the calls from the bottom up: one lemma
says what `ref_dec` with its reclaiming does to the counts, the next what
`lookup_once` does with it, up to `dup_fs` and `Exec`. A reference on its way (an
inode that a look-up found and that nobody has stored yet) is the second argument
of `Good`. The loops over descriptors and the climb to the root are recursive
functions; what holds after every round is shown by the least round at which it
would fail, and the climb ends because `Depth` goes down.

**`SfsProofs`.** For any number of files, descriptors and blocks, with the disk full at
any allocation: `BlocksStayExact` (every block is free or belongs to one place of
one file, no file has a hole, and only the assertions the run names fail) and
`CloseAlwaysSaves` (the last close leaves size and blocks on the disk). `SfsInv`
says so file by file (`Each`: the file of a call is `Sound`), between files
(`Apart`), and of the disk (`Used`). Three facts it needs are not in
the properties. A call leaves alone every block that is neither free nor its own
(`Evolves`), which carries `Sound` from the operator level to all other files. A file
has as many blocks as its size needs, up to the one that a write to a full disk
leaves out (`Reach`), which is why truncation finds what it expects. And an
inode that is not marked dirty differs from the one on the disk at most in the
number of blocks (`Clean`): `sfs_bmap_load_nolock` counts a new block before the
caller marks the inode, and if the call fails nobody does.

**`BusProofs`.** `AccessesAlwaysMatch` for any set of code addresses. `BusInv` ties
the state of each master to the instruction it serves (`MastersServe`), the slave
that answers to the master it was given to (`ConmaxSound`, `RamSound`,
`UartSound`), and says that no interrupt meets an access to the serial
port (`SerialUninterrupted`). The one action is split by what the registers hold.

Only model-checked:
* all liveness, which is out of this prover's reach: `RunnableRuns` and the reaping
  of zombies in `Proc`, the end of the walk in `GetPid`, the turns in `Sem` and
  `Stdin`, `PipelineMoves` of `Bus`;
* that `Vm` implements `MemSpec` (`PrivateMemory`): every process keeps what it
  stores. `VmInv` has what the proof needs, one page for one entry; the contents of
  a page after each loop are still to be followed;
* `Buddy`, `Slab`, `Mksfs`, `Disk`, `RbTree` and `Shell`: their merges, walks, fixups
  and parses are RECURSIVE operators, and what these compute for every input needs
  induction over data; `DefaultPmm`, which `pmm.c` does not select, shares the
  properties of `Buddy`.

## 5. Findings

With a run:
* `proc_kill`, `process/proc.c:817`: a process killed while it is preempted that
  then enters `wait` or reads the console (`dev_stdin.c:52`) before its next tick
  sleeps with `PF_EXITING` set; a second kill is refused. The comment at
  `proc.c:59` and the test `user/spin.c` take it that a kill leads to `do_exit`.
  One that enters `sleep` does end, when its timer expires.
* `uart`, `uart_controller.v:53`: the acknowledge is registered, so `fifo_rd` is up
  for two clocks, and with two characters waiting one read takes both; the second
  is lost although `console.c:128-130` says that the handler stashes what is
  received.
* `files_ops`, `fs/vfs/vfsfile.c:42`: creating a file calls `vop_create`, which no
  inode has, and the assertion of `inode.h:196` stops the kernel; so do reading,
  seeking or executing a directory, `getdirentry` of a file and `fsync` of the
  console.

Met while modelling; the models contain them and the properties allow them by
name, or they lie outside of what is modelled:
* `driver/console.c:122` and `203`: one character per interrupt leaves the ring,
  so the ring can fill up, and a full ring looks empty.
* `fs/sfs/sfs_inode.c:289`: a write at a position that another descriptor's
  `O_TRUNC` left behind the end fails an assertion.
* `fs/sfs/sfs_inode.c:790`: a seek that meets a full disk leaves blocks the size
  does not tell of, and truncating to that size fails the assertion at line 780;
  a write that finds the disk full before its first byte still moves the size
  (line 521).
* `fs/vfs/vfsfile.c:45`: opening an existing file with `O_CREAT|O_EXCL` keeps a
  reference for ever (`leaked` in `Files`).
* `mm/pmm.c:271`: fork with too little memory stops at an assertion, although
  `do_fork` has a clean-up; `trap/trap.c:166`: a page fault of the kernel on
  user memory panics when memory is gone; `trap/trap.c:225`: a store to a page
  that is mapped read-only is an unhandled exception.
* `uart_controller.v`: an interrupt in the clock of a serial access's acknowledge
  would repeat the access: the kernel keeps interrupts off there.
* `user/sh.c`: the file name of a redirection is not ended before it is opened
  (147), so `a > f ; b` opens `f ; b`; a redirection before `;` carries over to
  the next command; what follows `|` is not waited for; `&` is a symbol that
  `runcmd` does not know; `cd` sets `shcwd` in the process of the line, which then
  ends. `sys_chdir` is missing from the table of system calls
  (`syscall/syscall.c:161`).
* `tools/mksfs.c`: writes symbolic links that the kernel panics on
  (`sfs_inode.c:29-38`) and a second level of indexes that it cannot read.
* `mm/default_pmm.c`, not selected by `pmm.c:33`, would break if callers freed a
  run that spans two of its blocks; nobody does.
* `mm/pmm.c:257`: the step over a missing table of `copy_range` assumes an
  aligned start, which every area has.

## 6. Plan

1. Done: the modules above.
2. Done: the proofs of section 4.
3. Done: `BlocksExact` and `CloseSaves` of `SfsFile`; `TlbCoherent`, `MemoryExact` and
   `KernelFaultsOnlyWithoutMemory` of `Vm`. Still to come: `PrivateMemory` of `Vm`,
   from `VmInv` and the contents of pages.
4. If the code grows: the flash and the receiver of the serial port in `Bus`
  (`Stdin` has its FIFO, byte by byte and not clock by clock); the
   register allocator of the compiler (`RegisterAllocator.java:180` spills the
   first register whose temporary has a slot, which may hold the operand loaded
   a moment ago).

## 7. Not modelled

Library, start-up, monitor and console output keep no state that outlives a
call. Path parsing and formatting are string work. The loops of `sysfile_read`
and `sysfile_write` that split a transfer, `vfsdev.c`'s list of devices (fixed
after start), the failure paths of `sfs_sync` and of disk transfers (the RAM disk
never fails), `sfs_lock.c` (never contended) and `ide.c` (passes calls on) add no
behaviour. Trap frames, context switches in assembly and what an instruction
computes are left to simulation, as are TLB probes and division. VGA, the UART
core under `new/` and the Vivado IP are vendored, generated or unused. The
Decaf compiler runs on the developer's machine and is sequential; the terminal
is a window. `PROJECT.json` lists each with its reason.
