# A TLA+ model of the ESP32 microkernel

The kernel under `src/kernel` runs protected user programs on an ESP32: a
watchdog preempts them, a PID controller and an MMU outside of the CPU isolate
them. This directory holds TLA+ modules that model it, the TLC configurations
that check them on small instances, and TLAPS proofs for every size.
`PROJECT.json` names, for each definition, the source lines it models.

## Inventory

| Component | State | Operations | Made correct by |
|---|---|---|---|
| Scheduler (`task/scheduler.c`) | run queue (intrusive list, size), `current_task`, preemption depth | ready, preempt, yield, park, drop, idle | no task lost or queued twice, FIFO turns, no spin, no starvation |
| Tasks (`task/task.c`) | status, saved registers in the `ucontext` page | create, CAS of the status, save, restore, release | registers private to a task |
| Syscalls (`task/syscall.c`) | the trap frame | park, yield, drop, log, invalid | result goes to the caller and to nobody else |
| Traps (`arch/interrupts.S`, `arch/interrupts.c`, `vdso/vectors.S`) | frame on the kernel stack, register windows | entry, exit, exception, interrupt | a frame is saved and restored exactly |
| Watchdog (`drivers/timg.c`) | enabled, counter, raised interrupt | init, enable, disable, feed, handle | always armed in user mode, resets only a kernel that hangs or prints for too long |
| Page allocator (`mem/umem.c`) | two bitmaps of 16 pages | allocate, free | a page has one owner, the vdso none |
| Loader (`task/loader.c`) | loop counters, allocated pages | load an application, clean up | pages mapped in order, page 15 kept |
| MMU and PID cache (`drivers/dport.c`, `drivers/pid.c`) | `mmu_t` of each task, hardware tables, bindings with LRU stamps, primary binding | map, activate, bind, rebind, load, unload | a pid reaches exactly its space's pages |
| Boot (`main.c`) | - | init, load the initrd, start | ends in the first dispatch or in a halt |
| First stage loader (`loader/src/main.c`) | memory shared with the boot rom | check the header, read the initrd, the vdso, data and code of the kernel, jump | the kernel is in place, the boot rom's memory untouched while it is called |
| Heap (`mem/mem.c`) | what the kernel's data and code leave of SRAM1 | init | lies in free memory, the initrd survives in it |
| Interrupt matrix (`drivers/dport.c`) | the wiring of sources to lines, free lines | init, map, enable | one source per line, only the watchdog traps |
| Printf, trace, uart (`util/`, `drivers/uart.c`) | parser state, sink, the uart's queue | format, put a character, transmit | within its buffer, the text of the C standard, nothing lost |
| Applications, build scripts | - | - | not modelled, see below |

How they interact: the first stage loader reads kernel and initrd and jumps to
`kmain`, which makes the heap, enables interrupts, copies the initrd to the heap
and loads the applications from there (loader -> `create_task` -> allocator,
`mmu_map`, `scheduler_ready_task`), maps the watchdog's interrupt and enters the
scheduler with a drop system call. From then on the kernel runs only in
handlers: a system call, a watchdog interrupt or an exception saves a frame,
the C handler may replace the frame by that of another task (`execute`, which
also activates that task's address space and sets the next pid), and the exit
restores the frame.

What is hard here: everything runs with interrupts masked, so a wrong task
status is a silent hang; one counter is both the preemption timer and the
crash guard; a raised interrupt outlives the handler in which it was raised;
the saved registers lie in a page its owner writes; six pids are shared by any
number of tasks; the assembly of a trap rotates the window its own pointers
are in; the loaders check sizes in words that wrap and copy over memory that
is still in use. `PROJECT.json` lists these hazards at their lines.

## Modules

* `RoundRobin` - the promise of the scheduler: a FIFO, a status and private
  registers for each task.
* `Scheduler` - the scheduler as it is. Its actions carry the names of the C
  functions. A handler is one step (interrupts are masked in it: the entries set
  INTLEVEL 15), some ticks after the trap that caused it; `trap` and `kticks`
  are that trap and those ticks. A handler that prints nothing takes at most
  `KMax` ticks, one that prints any number, as nothing limits a log; `printed`
  remembers how many until the next feed. `cas_task_state` is a guard. The run
  queue is the record `rq` with the links of all tasks; `runq` and `printed` are
  history variables no guard reads. The registers are abstracted to a pc and the
  return register a2, which is what the system calls write.
* `AddressSpace` - allocator, loading, page tables and pid cache. Any loaded
  task may be dispatched next. `age`, how long ago each space was dispatched
  last, is a history variable.
* `Kernel` - both together: it extends `AddressSpace` and instantiates
  `Scheduler` with the same tasks. Each of its actions is a step of both:
  `execute` makes a task current and activates its space, a task is ready once
  its pages are loaded, a reset starts both over, and the handlers that return
  to the same task leave the spaces alone. This is where what each takes for
  granted of the other is checked.
* `RegisterWindows` - one trap after the other on a small register file, step
  by step through `arch/interrupts.S`: the entry, the loop that spills every
  live window, the C handler (which may leave anything in its registers and
  may replace the frame by that of another task), and the restore. Panes and
  registers are as in the processor, `NPanes` is smaller. `Scheduler` takes a
  frame as saved and restored exactly; here that is checked.
* `AppImage` - `loader_load_app` for one application, cell by cell: the checks
  on the header in words of `Word` values, the allocation of code and data
  pages, the copies, the cleanup, and a log call of any length: `get_user_ptr`,
  the way back from an address of the program to memory, and the cells printed
  from there. A cell holds the offset in the file it was copied from.
* `FirstStage` - the boot from flash: the checks and reads of
  `loader/src/main.c` in their order, `init_mem` and the move of the initrd in
  the kernel. SRAM1 is one memory seen forwards by the data bus and backwards by
  the instruction bus. The sizes of the header are signed words, compared with
  and without their sign as C does (`Signed`, `Unsigned`); a read of a negative
  size takes the rest of the file, whatever the buffer holds (`ReadToTemp`), and a
  boot rom that was overwritten may never return (`BootromFails`).
* `Printf` - `_vsnprintf` as a state machine over the characters of the format
  (flags, width, precision, length, specifier), the conversions as functions,
  the four sinks, and the uart: `uart_write_char` waits for room in the queue,
  `Transmit` is the hardware. A call has one directive between two texts: at
  each `%` the parser starts afresh, so a second directive would only repeat the
  first one's cases. `Parts` says how a directive is written, and `Standard`,
  the reference, what the C standard makes of it.
* `InterruptMatrix` - `init_dport`, `dport_map_interrupt` with its two pools of
  lines, the enabling in `kmain`, and `common_interrupt_handler`. `mode` says
  what the cpu executes: an interrupt is taken in a program, not under a handler
  (masked), in the idle loop (a bare `rfe`) or in a halt. The only caller today
  is `init_wdt`; the module lets further drivers map their sources.
* `MC*` - what TLC needs: symmetry sets and the inputs (application headers,
  kernel images, printf calls) a run enumerates. `Scheduler` and
  `InterruptMatrix` have no MC module, their constants are plain numbers and sets.
* `SchedulerProofs`, `KernelProofs` (`AddressSpace` and `Kernel`),
  `RegisterWindowsProofs`, `AppImageProofs`, `FirstStageProofs`,
  `InterruptMatrixProofs`, `PrintfProofs` - the theorems.
* `LeastElement` - what several of them share: a nonempty set of naturals has a
  least element, so `__builtin_ffs` and the search for the least stamp find one,
  and with it induction and recursion over the naturals.

Boot in `Scheduler`: the applications are loaded one after the other in any
order; `BootFail` is every failing check of the boot, all of which end in an
ASSERT loop with the watchdog off. In `AddressSpace` the loading is modelled
page by page, the initrd may hold any number of applications, and each failure
is an action of its own; `AppImage` looks at one load closely and takes what
earlier ones left as input.

Hardware, modelled from how the code uses it and marked external: the
watchdog counts while it is enabled, raises its interrupt after `T0` ticks and
resets the system after `T0 + T1`; a raised level 1 interrupt is taken before
the next user instruction; while the kernel idles an interrupt only reaches
the kernel exception vector, a bare `rfe`. The page tables come out of reset
with no rights. The boot rom is functions that need the memory they were
linked to; the flash is files that are read or fail to be. A source of an
interrupt stays raised until its device is served. Access rights are 0 for
nobody, 1 for everybody, n for pid n.

## Runs

| Run | Bounds | Shows |
|---|---|---|
| `scheduler` | 3 tasks, `T0` 1, `T1` 2, `KMax` 1, printing of any length | queue, status and deadline stay consistent, only the hang in `release_task` and printing for all of stage 1 are reset, `RoundRobin` is implemented; no starvation but by a hang or a reset, the hang reboots |
| `address_space` | 4 spaces, 3 pids, 5 pages of each kind, 8 stamps | isolation, page ownership, the right pid, LRU eviction |
| `kernel` | 3 tasks, 2 pids, 4 pages, 5 stamps, `T0` 1, `T1` 2 | the running program reaches exactly its own pages and no other task's saved registers, across evictions and reboots; no task is picked before its load has ended |
| `register_windows` | 8 panes, bases 0, 1 and 7, every set of live windows | a trap saves every register, restores those of the same task or of another saved under the same base, and leaves nothing of the kernel |
| `app_image` | pages of 2 cells, 4 pages, 32 values in a word, 4 sets of free pages, logs of up to 3 cells | an application is refused, or every cell is at its address; reserved pages kept, failures clean up, how far the copies read, which log calls show the caller's own page |
| `first_stage` | pages of 2 cells, 8 pages, 128 values in a word, sizes from the most negative up, files that end early or late | a kernel image is refused, or kernel, heap and initrd are in place; which images reach the memory of the boot rom |
| `printf` | types of 4, 6, 8 and 12 bits, conversion buffer of 13, uart queue of 2 | within the buffer, terminated, the return value of snprintf, the text of the C standard; all of it is sent and the call ends |
| `interrupt_matrix` | 5 sources, 3 level lines, 1 edge line | one source per line, level stays level, only the watchdog traps, and it is served when a program runs |

Three tasks make a queue with a head, a middle and a tail while one runs.
With `T0` 1 the interrupt is raised in user mode or inside a handler, and a
handler that does not feed the watchdog returns with it raised or not. A longer
`T0`, where a log call returns to a slice half used, is left to the proofs. `KMax + 1 = T1` is
the tight case of the proved bound, and TLC counts the ticks of printing up to
the reset, so no bound is put on them. Four spaces on
three pids make every dispatch after the third a possible eviction, and eight
stamps let every space be evicted and come back; five pages let a load succeed,
fail for lack of pages and fail the size check. `MaxStamp` stands for a 64 bit
counter that does not wrap in practice. In `kernel`, two pids for three tasks
make the third dispatch an eviction, and five stamps let an evicted task come
back and run again.

Eight panes hold several live windows of one, two and three panes; the bases put
the end of the file below, above and inside of them; `Junk` is what the C
handler leaves in registers, zero or a number like a size. Pages of two cells
have a first, a last and a partly used page; the sizes of an application go past
all free pages and past the file, the entry below, at and behind the code, and
single sizes up to the largest word, so that code and data, and data and bss,
wrap. Logs of three cells leave the page. The images of the first stage have
sizes that fit exactly, are one too large in each memory, are negative, and so
negative that the unsigned comparison accepts them; files shorter and longer
than the header says and than the buffer; and initrds that end before, at and
behind the memory of the boot rom. With 8 bit integers the five numbers of a
directive are zero, one digit, the largest and the smallest signed value and -1;
the widths of 4, 5 and 20 and the buffers of 0, 1, 3 and 6 lie below and above
the lengths that occur. Two of the five sources exceed the level lines and end
in the ASSERT of `dport_map_interrupt`.

Deadlock is not checked: the system stops by design in the idle loop and in
the halt of an exception, `AddressSpace` stops at `MaxStamp`, and loading,
booting and formatting come to an end.

Fairness (`FairSpec`, liveness only): the boot code, the handlers, the taking
of a raised interrupt, the counter and the reset are weakly fair, since they
are running code or hardware that nothing stops. A user program gets no
fairness: it may compute for ever, and then the tick that stays enabled raises
the interrupt. In `Printf` the processor runs the call and the uart sends what
is queued; in `InterruptMatrix` the processor takes an interrupt that is raised
on an enabled line while a program runs, and a handler that neither idles nor
halts comes to its end.

`FormatsAsC` compares with the C standard wherever this printf means to follow
it (`Conforms`). A negative precision counts as 0 and not as absent, and the
kernel meets that: `SYSCALL_LOG` hands a program's `str_len` to `%.*s`, so a
length of 2^31 or more prints nothing. The other differences no caller in the
kernel meets: `#` drops digits of a number that fills its width, `-` ignores the
zeros of a precision above 0, `%hhd` takes an unsigned char, `%S` and `%R` are
specifiers of its own, `%p` has a fixed width, and a NULL string, undefined in
C, is printed as `(null)`. The sink for characters drops a NUL but counts it. A
format that ends inside of a directive reads past its end and is not among the
inputs.

Runs that end in a violation, each a disagreement between a comment and the
code (details under `findings` in `PROJECT.json`):

| Run | Comment | Code |
|---|---|---|
| `sched_timeslice` | "set a new timeslice of 10 milliseconds" | an interrupt raised during the handler takes the slice |
| `windows_other_base` | restores "an entire task_regs_t context" | a2 is read in the wrong window when the task was saved under another base |
| `windows_fresh_ps` | interrupts are masked because "while we are doing restore work we don't want this to happen" | the PS of a fresh task, written in the middle of the restore, opens interrupts before a0-a15 are loaded |
| `app_image_user_ptr` | "converting back to a full address" | the offset in the page is not added back |

What else the models show about the code and its comments is part of the
passing properties, which say exactly how far each promise holds:

* `scheduler_drop_current` is to "schedule a new one instead", but a failing
  ASSERT in `release_task` hangs the kernel. `ResetOnlyAfterStall` says that this
  is the only hang the watchdog resets, `HangReboots` that it does. After the
  last park nothing wakes the idle loop, although `find_runnable` "must return
  something eventually".
* A log that prints for as long as watchdog stage 1 lasts resets a healthy
  system, and nothing limits a log. Stage 1 is 10 ticks of 0.5 ms: at 115200
  baud, 57 characters. `ResetOnlyAfterStall` says that printing is the only other
  cause of a reset and has to last that long; `StarvationFree` makes no promise
  to a system that is reset.
* `scheduler_preempt_enable` increments the depth, so it never returns to zero.
  Only `scheduler_yield` reads it, and nothing calls that.
* The `binding` of an evicted space stays set, and as the stamps of unused
  bindings tie with the first used one, the second task to run evicts the first.
  `HardwareAgrees`, `RunsUnderItsPid` and `EvictsLeastRecent` hold all the same.
* A load that fails keeps the page of the ucontext (`FailureFreesLoaded`).
* The check of an application's sizes leaves out the header, so up to a header's
  length is read behind the file; and where `code_size + data_size` wraps it
  passes in a file of any size, and the copies read on to the end of the data
  pages (`ReadsBounded`). A bss close to 2^32 makes the size of the data wrap and
  the data is left behind (`ProgramInPlace`).
* A log call shows the caller's own page only if it has one there and asks for
  no more than the page (`LogShowsOwnPage`): an unmapped page is taken for
  physical page 0, and longer strings go on in the next physical page.
* The trap gets lost when the register file is full or the task had no window
  yet (`RestoresFrame`); WINDOWSIZE may be that of an earlier trap, which does no
  harm. The interrupt that `windows_fresh_ps` lets in would save the registers
  and the pc of the restore as the task's; the passing properties of
  `RegisterWindows` are about traps that none interrupts.
* A vdso larger than a page overwrites the start of the kernel's code, an initrd
  larger than 56K is overwritten by it (`KernelInPlace`, `InitrdHandedOver`).
  Nothing limits the initrd: one that ends behind 0x3FFE0000 is read over the
  boot rom's memory while the boot rom reads it. A negative vdso or data size,
  or a code size so negative that it passes the unsigned check of main.c:175,
  reads the rest of the file into the 64K buffer, and more than that lands in
  the boot rom too. `BootromUsable` leaves out exactly these cases: TLC violates
  it without any one of its conditions.
* More padding zeros than the conversion buffer holds are dropped (`Conforms`).
* `kmain` enables line 0 only, `dport_map_interrupt` enables none: a second
  driver's source would never interrupt.

The definitions whose names add a fault to that of the next definition
(`execute_no_deadline`, `pid_binding_bind_keeps_old`, ...) are seeded faults:
no action uses them, and each, put in the place of the original, must break
the property `PROJECT.json` pairs it with.

## Proofs

Every theorem holds for all values of the constants that meet the named
assumptions, and each module's inductive invariant was checked by TLC on the
bounds of its run before it was proved. Together they cover every safety
property of the passing runs but `LogShowsOwnPage`.

**Scheduler** (`SchedulerProofs`; any tasks and stage lengths), from
`NullAssumption` (the null pointer is no task) and `TimeAssumption` (the stage
lengths and bounds are positive):

* `TypeTheorem`, `QueueTheorem`, `StatusTheorem`, `NoSpinTheorem`,
  `PreemptibleTheorem` - the invariants of `scheduler`;
* `ResetTheorem` - `ResetOnlyAfterStall`, for printing of any length, from
  `KMax < T1`: a handler that prints nothing (microseconds of register accesses)
  is shorter than stage 1 (5 ms);
* `RefinementTheorem` - `Spec => RoundRobin!Spec` under the mapping of
  `Registers`.

`PutLemma` and `GetLemma` say what the list operations do to the sequence a list
represents. `ScheduleLemma` says that every handler that ends in `schedule` with
a consistent queue and nobody running restores the whole invariant. `Inv` adds to
the checked invariants `ModeInv` (which modes have the watchdog on, who is
current in them) and `TimeInv` (how far the counter can be: below `T0` in user
mode unless the interrupt is raised, `printed` more after a handler that
printed, `kticks` more in the interrupt handler). Without `TimeInv` neither
`Preemptible` nor `ResetOnlyAfterStall` is inductive: a log call returns to user
mode without a feed.

**Address spaces** (`KernelProofs`, first part; any number of spaces, pids and
pages), from `SpaceAssumption` and `SizeAssumption` (there are two pages and a
pid):

* `SpaceTypeTheorem`, `IsolationTheorem` (`HardwareAgrees`), `OwnershipTheorem`
  (`PagesOwnedOnce`), `PidTheorem` (`RunsUnderItsPid`), and the action property
  `EvictionTheorem` (`EvictsLeastRecent`).

`HardwareAgrees` is not inductive: `mmu_load` writes over whatever the table had
for a page, and `mmu_unload` goes by the space's own table. `SInv` therefore
carries the ownership of pages (`OwnInv`: two spaces never share one, so a load
cannot take an entry from another space), the agreement of bindings and spaces
(`BindInv`, in one direction only, as an evicted space keeps its binding) and
what the half loaded application holds (`LoadInv`). The eviction order needs
`AgeInv` and `LruInv`, that smaller stamps were dispatched longer ago.

**Kernel** (`KernelProofs`, second part), from the assumptions of both modules:

* `RunningTheorem` (`RunsInItsSpace`), `RegistersTheorem`
  (`OthersRegistersUnreachable`), `LoadedTheorem` (`RunnableIsLoaded`: whoever
  the scheduler can pick has its pages and is not being loaded);
* `RebootTheorem` - isolation and ownership hold in the composition, resets of
  the watchdog included;
* `SchedulerTheorem` - the kernel implements `Scheduler`, so what is proved of
  the safety of `Scheduler` is true of it.

`KInv` is `SInv` with `CurrentInv` (whoever runs or traps is the space
dispatched last) and `LoadedInv` (a task with a status has its pages).

**Register windows** (`RegisterWindowsProofs`; 5 to 16 panes, any bases and live
windows), from `WindowsAssumption`:

* `SavesTheorem`, `RestoresTheorem`, `LeaksTheorem` - `SavesExactly`,
  `RestoresFrame`, `NothingLeaks`, for tasks dispatched over one with the same
  base (`~OtherBases`); for others `windows_other_base` is the counterexample.

`WInv` says how far each of the three loops is: so many panes stored, loaded or
cleared, and the pointer and counter in the current window agree with it. The
lemmas `DownStep`, `UpStep`, `UpDown` and `UpAll` are the arithmetic around the
end of the file. `FrameInv` carries what a frame's WINDOWSIZE says about its
windows, also when it is left from an earlier trap: at most `NPanes - 2` in a
program that came back, which is why a stale size does no harm.

**Loader** (`AppImageProofs`; any page size, page count, word size, headers and
free pages), from `ImageAssumption`:

* `AppTypeTheorem`, `ProgramTheorem`, `ReservedTheorem`, `FailureTheorem`,
  `ReadsTheorem` (`ReadsBounded`, the wrap of the sizes included).

`AInv` follows the two copying loops (`LocalsInv`, `MemoryInv`, `ReadInv`), what
they took from the allocator (`FreeInv`) and the entry check (`EntryInv`). The
proof needs `PageSize <= USER_CODE_BASE`: a code size that wraps when it is
rounded up to pages has no page, and is refused only because the entry point is
then not below the end of the code. At 0x40080000 that is so.

**First stage** (`FirstStageProofs`; any page size, memory size, headers and
files), from `FirstStageAssumption` (the memories and addresses are words):

* `BootTypeTheorem`, `KernelInPlaceTheorem`, `BootromTheorem`, `InitrdTheorem`.

`FInv` says, stage by stage, which cells are where they belong; every step
writes intervals, and the checked sizes keep those apart. A first attempt at
`BootromTheorem` failed: the initrd has no limit. Its statement names that case
and the reads of a negative size that do not fit, and nothing else: what the
checks refuse after such a read, and files that end early, are covered.

**Interrupt matrix** (`InterruptMatrixProofs`; any sources and lines), from
`MatrixAssumption`:

* `MatrixTypeTheorem`, `OneSourceTheorem`, `TriggerTheorem`,
  `OnlyWatchdogTheorem`.

`MInv` adds `MappedInv` (a mapped line is not free) and `BootInv` (when the first
driver asks, the watchdog has line 0, the only one that is enabled, and no
program has run before).

**Printf** (`PrintfProofs`; any calls, arguments, buffers, queues and type
widths), from `PrintfAssumption` (a char is no longer than a short, and so on;
the conversion buffer has more characters than the longest type has bits; a
size fits a size_t) and `WrittenAssumption`: a call brings the arguments its
directive takes, the numbers written in it fit an int, the texts around it hold
no `%`. That is the contract of every printf, which its callers in the kernel
keep with literal formats; the code cannot check it, as `va_arg` reads whatever
is there. TLC evaluates both assumptions on the calls of the run.

* `SnprintfTheorem` - `SnprintfContract`. `BufferInv` adds that until the
  terminator the buffer is as long as the text or full. The proof does not look
  at what the conversions give to `out()`.
* `TypeTheorem` - `TypeOK`: width and precision do not wrap, the parser never
  leaves the format, and at the end `va_arg` has taken every argument.
* `FormatsTheorem` - `FormatsAsC`: what leaves is the text of the C standard.
* `ConvertsAsC`, `DigitsNumeral`, `DigitsFit` - the same of the conversions
  alone: the reversed digits of the division loop are the numeral, they fit the
  conversion buffer (so the model's loop may leave out the test for room), and
  sign, zeros and padding around them are those the standard asks for.

`TypeOK` is not inductive: that the width stays in range at the next digit
depends on the digits that follow. `ParserInv` therefore says, for each part of
a directive, what `_vsnprintf` has found out when it is at a given character:
the flags so far, the number that the digits up to here spell, the arguments
left (`Parsed`). At the specifier that is what the directive says (`Reads`), and
`ConvertsAsC` applies. `OutputInv` follows the text: as many characters of the
expected text are due as the parser has passed (`Due`), `pending` is the part
that is due and has not left, and the buffer, or the wire and the queue behind
it, hold the part that has. `QueueInv` keeps the queue in its size.

The digits of a number, the number that digits spell and the text without its
NULs are recursive functions. The induction theorems of the library cannot be
used with the installed provers, so `LeastElement` derives what is needed from
the least counterexample: `StrongInduction` takes a set where a predicate would
stand, and `Recursion` (with `Iteration` in `PrintfProofs`) gives the function
that a recursive definition chooses. `PowerOfTwo` comes from counting subsets.

Only model-checked:

* liveness under fairness, which the prover does not do: `StarvationFree`,
  `HangReboots`, `WatchdogServed`, `AllIsSent`;
* `LogShowsOwnPage`;
* the four violations.

## Not modelled, and the plan

What is left of the plan: every invariant but `LogShowsOwnPage` and every action
property has a proof. That `Kernel` implements `RoundRobin` follows from
`SchedulerTheorem` and `RefinementTheorem`, but has no theorem of its own: the
prover does not carry a theorem of `Scheduler` over to its instance in `Kernel`.
`Size` and `%p`, which have no counterpart in the standard, could be given
references of their own.

Left out for good:

* vendored or generated code: the heap's `umm_malloc` and littlefs (empty
  submodules), the register layouts (`drivers/*.h`, `arch/*.h`), the macros of
  `cpp_magic.h` and `defs.h`, the build scripts, `rtc_cntl.c` (one constant
  write sequence at boot);
* code with no caller or no effect: the second CPU (never started), the
  generated task pid (never read), peripheral rights and the `FOR_EACH_BIT` over
  them (always empty), `pid_binding_unbind`, the kernel-side `scheduler_yield`
  and `scheduler_park`;
* output only: `print_opcodes`, `trace_hex`, what the dumps look like; their
  time is counted as printing;
* the window overflow and underflow vectors (they follow the processor's manual
  word by word) and the emulation of a loop end in `syscall_entry`;
* pointers of a program outside of its data space: `get_user_ptr` reads an
  entry that does not exist;
* the applications: a program is any sequence of computing, system calls and
  faults.
