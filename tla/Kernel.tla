------------------------------- MODULE Kernel -------------------------------
(***************************************************************************)
(* The scheduler and the address spaces together: the task execute makes   *)
(* current is the one whose space it activates, a task is ready once its   *)
(* pages are loaded, and the watchdog's reset starts both over.  Scheduler *)
(* alone takes for granted that a program writes no registers but its own; *)
(* AddressSpace alone lets any loaded task be dispatched.                  *)
(***************************************************************************)
EXTENDS AddressSpace

CONSTANTS Vals, T0, T1, KMax        \* of Scheduler

VARIABLES cpu, trap, kticks, current, status, rq, depth, wdt, regs, uctx, runq, printed  \* of Scheduler

schedVars == <<cpu, trap, kticks, current, status, rq, depth, wdt, regs, uctx, runq, printed>>

\* A task is known by its mmu_t.
Sched == INSTANCE Scheduler WITH Tasks <- Spaces

KInit == Init /\ Sched!Init

-----------------------------------------------------------------------------
(* Boot: load_from_initrd. *)

LoadApp(t) ==
    \/ Sched!create_task(t) /\ create_task(t)
    \/ load # NULL /\ load.space = t /\ Sched!scheduler_ready_task(t) /\ LoadDone

LoadPages == (\E k \in Kinds : LoadPage(k)) /\ UNCHANGED schedVars

LoadError == Sched!BootFail /\ (RejectHeader \/ create_task_fails \/ LoadFails)

Start == Sched!scheduler_drop_current /\ scheduler_drop_current

-----------------------------------------------------------------------------
(* From then on. *)

\* The program and the handlers that return to it: nothing touches the mmu.
SameSpace ==
    /\ \/ Sched!User \/ Sched!WdtInterrupt \/ Sched!SyscallLog \/ Sched!SyscallInvalid
       \/ Sched!common_exception_handler \/ Sched!Tick
    /\ UNCHANGED vars

\* The handlers that end in schedule: execute, with restore_task_context and
\* pid_prepare, or the idle loop, or the hang.
Reschedule ==
    /\ \/ Sched!SyscallYield \/ Sched!SyscallPark \/ Sched!SyscallDrop
       \/ Sched!common_interrupt_handler
    /\ \/ cpu' = "user" /\ Dispatch(current')
       \/ cpu' # "user" /\ UNCHANGED vars

\* The first stage loads the kernel's data again and the hardware forgets its
\* tables; the task_t of before are lost, and create_task clears a new one.
RestartSpaces ==
    /\ phase' = "boot" /\ load' = NULL
    /\ free' = AllFree /\ entries' = NoEntries /\ table' = VdsoOnly
    /\ bound_space' = [b \in Bindings |-> NULL] /\ stamp' = [b \in Bindings |-> 0]
    /\ binding' = [s \in Spaces |-> NULL] /\ age' = [s \in Spaces |-> 0]
    /\ next_stamp' = 0 /\ primary' = NULL /\ pid_new' = 0

Restart == Sched!Reset /\ RestartSpaces

KNext ==
    \/ \E t \in Spaces : LoadApp(t)
    \/ LoadPages \/ LoadError \/ Start \/ SameSpace \/ Reschedule \/ Restart

kvars == <<vars, schedVars>>

KSpec == KInit /\ [][KNext]_kvars

-----------------------------------------------------------------------------
(* Properties. *)

\* Whoever runs in user mode, after any interleaving of preemptions, parks,
\* evictions of its space and reboots, runs under a pid that reaches exactly
\* the pages its own mmu_t maps and the vdso, its first page of code and its
\* ucontext among them.
RunsInItsSpace ==
    cpu = "user" =>
        /\ \A k \in Kinds, v \in Pages : Reaches(pid_new, k, v) = Mapped(current, k, v)
        /\ Mapped(current, "code", 0) # {}
        /\ Mapped(current, "data", UCTX_PAGE_INDEX) # {}

\* The saved registers of a task lie in a page no running program but itself
\* reaches at any address: what Scheduler's WriteUctx takes for granted.
OthersRegistersUnreachable ==
    cpu = "user" =>
        \A t \in Spaces \ {current}, v \in Pages :
            entries[t]["data"][UCTX_PAGE_INDEX] \notin Reaches(pid_new, "data", v)

\* A task the scheduler can pick, in the first boot and after a reset, is
\* loaded to its end: it has its code and its ucontext, and it is not the one
\* loader_load_app is at work on.  So no dispatch meets a half mapped space.
RunnableIsLoaded ==
    \A t \in Spaces : status[t] \in {"RUNNABLE", "RUNNING"} =>
        /\ entries[t]["code"][0] # NULL
        /\ entries[t]["data"][UCTX_PAGE_INDEX] # NULL
        /\ load = NULL \/ load.space # t
=============================================================================
