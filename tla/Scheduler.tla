------------------------------ MODULE Scheduler ------------------------------
(***************************************************************************)
(* The scheduler of the kernel on the PRO cpu, the only one it starts:     *)
(* kernel/src/task/scheduler.c with the parts of task.c, syscall.c,        *)
(* arch/interrupts.c, drivers/timg.c and main.c that drive it.             *)
(*                                                                         *)
(* A handler runs with interrupts masked, so it is one step, taken some    *)
(* watchdog ticks after the trap that started it.  The watchdog is both    *)
(* the preemption timer (stage 0 raises an interrupt) and the crash guard  *)
(* (stage 1 resets the system).                                            *)
(*                                                                         *)
(* cas_task_state and the ASSERTs are guards: where the C code would spin  *)
(* or hang, the handler is not enabled.  HandlersNeverSpin shows that this *)
(* never happens.                                                          *)
(***************************************************************************)
EXTENDS Integers, Sequences, FiniteSets

CONSTANTS
    Tasks,      \* the applications of the initrd
    NULL,       \* the null task_t*
    Vals,       \* what a program may leave in its registers
    T0,         \* ticks of watchdog stage 0 (WDTCONFIG2)
    T1,         \* ticks of watchdog stage 1 (WDTCONFIG3)
    KMax        \* bound: ticks from a trap to the end of a handler that does not print

ASSUME NullAssumption == NULL \notin Tasks

ASSUME TimeAssumption ==
    \A n \in {T0, T1, KMax} : n \in Nat \ {0}

VARIABLES
    cpu,        \* what the cpu executes
    trap,       \* the trap being handled, or the one the cpu hung in
    kticks,     \* ticks since that trap
    current,    \* per_cpu_context.current_task
    status,     \* task->status; "NONE" before the task is allocated
    rq,         \* m_global_run_queue, its size and every task->sched_link
    depth,      \* per_cpu_context.preempt_disable_depth
    wdt,        \* the watchdog: enabled, ticks since the feed, interrupt raised
    regs,       \* the user's registers, the frame of the handler in the kernel
    uctx,       \* task->ucontext->regs
    runq,       \* history: the tasks put in the run queue and not yet taken
    printed     \* history: ticks of the printing system call the program came out of last

vars == <<cpu, trap, kticks, current, status, rq, depth, wdt, regs, uctx, runq, printed>>

Syscalls == {"park", "yield", "drop", "log", "bad"}

\* A log prints as long a string as the program says, and an unknown call two
\* lines of error, on a uart that may still be busy: any number of ticks.
Printing == {"log", "bad"}

\* ret is a2: an argument the program left there, 0, or -ERROR_INVALID_SYSCALL.
Context == [pc : Vals \cup {"trampoline"}, ret : {"arg", "ok", "einval"}]

\* pc = task_trampoline, ar[2] = entry.
FreshContext == [pc |-> "trampoline", ret |-> "arg"]

-----------------------------------------------------------------------------
(* The run queue: a singly linked list through task->sched_link. *)

EmptyQueue == [head |-> NULL, tail |-> NULL, size |-> 0,
               link |-> [t \in Tasks |-> NULL]]

task_queue_push_back(q, t) ==
    [q EXCEPT !.head = IF q.tail = NULL THEN t ELSE @,
              !.tail = t,
              !.link = [u \in Tasks |-> IF u = q.tail THEN t
                                        ELSE IF u = t THEN NULL ELSE @[u]]]

task_queue_pop_keep_tail(q) ==
    IF q.head = NULL THEN q ELSE [q EXCEPT !.head = q.link[q.head]]

\* The queue left behind; the task taken is q.head.
task_queue_pop(q) ==
    IF q.head = NULL THEN q
    ELSE LET next == q.link[q.head]
         IN  [q EXCEPT !.head = next,
                       !.tail = IF next = NULL THEN NULL ELSE @]

global_run_queue_put(q, t) ==
    [task_queue_push_back(q, t) EXCEPT !.size = q.size + 1]

global_run_queue_get_unchecked(q) ==
    [task |-> q.head, queue |-> [task_queue_pop(q) EXCEPT !.size = q.size - 1]]

\* [task, queue]: what is taken and what is left.
global_run_queue_get(q) ==
    IF q.size = 0 THEN [task |-> NULL, queue |-> q]
    ELSE [task |-> q.head,
          queue |-> [task_queue_pop(q) EXCEPT !.size = q.size - 1]]

-----------------------------------------------------------------------------
(* The watchdog. *)

wdt_enable(w) == [w EXCEPT !.en = TRUE]

wdt_disable(w) == [w EXCEPT !.en = FALSE]

wdt_feed(w) == [w EXCEPT !.count = 0]

\* When the interrupt is raised; the other outcome is that of an interrupt
\* that is not the watchdog's, and no other is enabled.
wdt_handle(w) == [wdt_feed(w) EXCEPT !.int = FALSE]

scheduler_set_deadline(w) == wdt_enable(wdt_feed(w))

scheduler_cancel_deadline_forgotten(w) == w

scheduler_cancel_deadline(w) == wdt_disable(w)

WdtOff == [en |-> FALSE, count |-> 0, int |-> FALSE]

init_wdt == [en |-> TRUE, count |-> 0, int |-> FALSE]

-----------------------------------------------------------------------------
(* Boot: kmain up to scheduler_drop_current. *)

Init ==
    /\ cpu = "boot"
    /\ trap = "none"
    /\ kticks = 0
    /\ current = NULL
    /\ status = [t \in Tasks |-> "NONE"]
    /\ rq = EmptyQueue
    /\ depth = 0
    /\ wdt = WdtOff
    /\ regs = FreshContext
    /\ uctx = [t \in Tasks |-> FreshContext]
    /\ runq = <<>>
    /\ printed = 0

\* It is passed at once, or never: nobody else runs that could change the status.
cas_task_state(st, t, old) == st[t] = old

\* The initrd is loaded one application after the other.
create_task(t) ==
    /\ cpu = "boot"
    /\ status[t] = "NONE"
    /\ \A u \in Tasks : status[u] \in {"NONE", "RUNNABLE"}
    /\ status' = [status EXCEPT ![t] = "WAITING"]
    /\ uctx' = [uctx EXCEPT ![t] = FreshContext]
    /\ UNCHANGED <<cpu, trap, kticks, current, rq, depth, wdt, regs, runq, printed>>

scheduler_preempt_disable(d) == d + 1

scheduler_preempt_enable(d) == d + 1

scheduler_ready_task(t) ==
    /\ cpu = "boot"
    /\ cas_task_state(status, t, "WAITING")
    /\ status' = [status EXCEPT ![t] = "RUNNABLE"]
    /\ rq' = global_run_queue_put(rq, t)
    /\ runq' = Append(runq, t)
    /\ depth' = scheduler_preempt_enable(scheduler_preempt_disable(depth))
    /\ UNCHANGED <<cpu, trap, kticks, current, wdt, regs, uctx, printed>>

\* Any check of the boot path: the error ends in the ASSERT of kmain, and the
\* release of a half loaded task in the ASSERT of release_task.
BootFail ==
    /\ cpu = "boot"
    /\ cpu' = "halt"
    /\ UNCHANGED <<trap, kticks, current, status, rq, depth, wdt, regs, uctx, runq, printed>>

scheduler_drop_current ==
    /\ cpu = "boot"
    /\ \A t \in Tasks : status[t] = "RUNNABLE"
    /\ wdt' = init_wdt
    /\ cpu' = "kernel"
    /\ trap' = "drop"
    /\ kticks' = 0
    /\ UNCHANGED <<current, status, rq, depth, regs, uctx, runq, printed>>

-----------------------------------------------------------------------------
(* The running task.  A raised interrupt is taken before its next          *)
(* instruction.                                                            *)

UserRuns == cpu = "user" /\ ~wdt.int

Compute ==
    /\ UserRuns
    /\ \E v \in Vals : regs' = [pc |-> v, ret |-> "arg"]
    /\ UNCHANGED <<cpu, trap, kticks, current, status, rq, depth, wdt, uctx, runq, printed>>

\* The page of the ucontext is mapped in the task, which may write it.
WriteUctx ==
    /\ UserRuns
    /\ \E c \in Context : uctx' = [uctx EXCEPT ![current] = c]
    /\ UNCHANGED <<cpu, trap, kticks, current, status, rq, depth, wdt, regs, runq, printed>>

Enter(cause) ==
    /\ cpu' = "kernel"
    /\ trap' = cause
    /\ kticks' = 0
    /\ printed' = IF cause = "irq" THEN printed ELSE 0
    /\ UNCHANGED <<current, status, rq, depth, wdt, regs, uctx, runq>>

Syscall == UserRuns /\ \E n \in Syscalls : Enter(n)

Fault == UserRuns /\ Enter("fault")

WdtInterrupt == cpu = "user" /\ wdt.int /\ Enter("irq")

-----------------------------------------------------------------------------
(* The handlers. *)

Handles(cause) == cpu = "kernel" /\ trap = cause

\* Back to user mode through the frame f.
Resume(f) ==
    /\ cpu' = "user"
    /\ trap' = "none"
    /\ kticks' = 0
    /\ regs' = f

execute_no_deadline(t, st, u, w) ==
    /\ st[t] = "RUNNABLE"
    /\ current' = t
    /\ status' = [st EXCEPT ![t] = "RUNNING"]
    /\ wdt' = wdt_feed(w)
    /\ Resume(u[t])

\* st, u, w: the statuses, the saved contexts and the watchdog at the call.
execute(t, st, u, w) ==
    /\ cas_task_state(st, t, "RUNNABLE")
    /\ current' = t
    /\ status' = [st EXCEPT ![t] = "RUNNING"]
    /\ wdt' = scheduler_set_deadline(w)
    /\ Resume(u[t])

Sleep_returns_null(st, w) ==
    /\ current' = NULL
    /\ status' = st
    /\ wdt' = scheduler_set_deadline(w)
    /\ Resume(regs)

\* find_runnable with nothing to run: the WAITI loop.  Nothing the idle cpu
\* can be interrupted by makes a task runnable.
Sleep(st, w) ==
    /\ cpu' = "idle"
    /\ trap' = "none"
    /\ kticks' = 0
    /\ current' = NULL
    /\ status' = st
    /\ wdt' = w
    /\ regs' = regs

\* find_runnable and execute: q, s are the run queue and its history.
schedule(q, s, st, u, w) ==
    LET found == global_run_queue_get(q)
    IN  /\ rq' = found.queue
        /\ uctx' = u
        /\ printed' = 0
        /\ UNCHANGED depth
        /\ \/ /\ found.task # NULL
              /\ runq' = Tail(s)
              /\ execute(found.task, st, u, w)
           \/ /\ found.task = NULL
              /\ runq' = s
              /\ Sleep(st, w)

scheduler_on_schedule_lost(f, w) ==
    /\ current # NULL
    /\ schedule(rq, runq, [status EXCEPT ![current] = "RUNNABLE"],
                [uctx EXCEPT ![current] = f], w)

scheduler_on_schedule_unsaved(f, w) ==
    /\ current # NULL
    /\ cas_task_state(status, current, "RUNNING")
    /\ schedule(global_run_queue_put(rq, current), Append(runq, current),
                [status EXCEPT ![current] = "RUNNABLE"], uctx, w)

\* save_current_task(regs, false), schedule(regs); f is the frame.
scheduler_on_schedule(f, w) ==
    /\ current # NULL
    /\ cas_task_state(status, current, "RUNNING")
    /\ schedule(global_run_queue_put(rq, current), Append(runq, current),
                [status EXCEPT ![current] = "RUNNABLE"],
                [uctx EXCEPT ![current] = f], w)

\* save_current_task(regs, true), schedule(regs).  No caller sets a
\* park_callback.
scheduler_on_park(f) ==
    /\ current # NULL
    /\ cas_task_state(status, current, "RUNNING")
    /\ schedule(rq, runq, [status EXCEPT ![current] = "WAITING"],
                [uctx EXCEPT ![current] = f], scheduler_cancel_deadline(wdt))

release_task_cancels_deadline ==
    /\ cpu' = "halt"
    /\ wdt' = scheduler_cancel_deadline(wdt)
    /\ UNCHANGED <<trap, kticks, rq, depth, regs, uctx, runq, printed>>

\* release_task fails its ASSERT before the deadline is cancelled.
release_task ==
    /\ cpu' = "halt"
    /\ UNCHANGED <<trap, kticks, rq, depth, wdt, regs, uctx, runq, printed>>

scheduler_on_drop ==
    \/ /\ current = NULL
       /\ schedule(rq, runq, status, uctx, scheduler_cancel_deadline(wdt))
    \/ /\ current # NULL
       /\ cas_task_state(status, current, "RUNNING")
       /\ current' = NULL
       /\ status' = [status EXCEPT ![current] = "DEAD"]
       /\ release_task

\* regs->ar[SYSCALL_RET] = 0, before the dispatch.
Returned(r) == [regs EXCEPT !.ret = r]

SyscallYield == Handles("yield") /\ scheduler_on_schedule(Returned("ok"), wdt)

SyscallPark == Handles("park") /\ scheduler_on_park(Returned("ok"))

SyscallDrop == Handles("drop") /\ scheduler_on_drop

SyscallLog ==
    /\ Handles("log")
    /\ Resume(Returned("ok"))
    /\ printed' = kticks
    /\ UNCHANGED <<current, status, rq, depth, wdt, uctx, runq>>

SyscallInvalid ==
    /\ Handles("bad")
    /\ Resume(Returned("einval"))
    /\ printed' = kticks
    /\ UNCHANGED <<current, status, rq, depth, wdt, uctx, runq>>

common_interrupt_handler_only_feeds ==
    /\ Handles("irq")
    /\ wdt' = wdt_handle(wdt)
    /\ Resume(regs)
    /\ UNCHANGED <<current, status, rq, depth, uctx, runq, printed>>

common_interrupt_handler ==
    Handles("irq") /\ wdt.int /\ scheduler_on_schedule(regs, wdt_handle(wdt))

common_exception_handler ==
    /\ Handles("fault")
    /\ wdt' = wdt_disable(wdt)
    /\ cpu' = "halt"
    /\ UNCHANGED <<trap, kticks, current, status, rq, depth, regs, uctx, runq, printed>>

-----------------------------------------------------------------------------
(* Time: the watchdog hardware. *)

TimePasses ==
    /\ wdt.en
    /\ \/ UserRuns
       \/ cpu = "kernel" /\ (trap \in Printing \/ kticks < KMax)
       \/ cpu \in {"idle", "halt"}

Tick ==
    /\ TimePasses
    /\ wdt.count + 1 < T0 + T1
    /\ wdt' = [wdt EXCEPT !.count = @ + 1, !.int = @ \/ wdt.count + 1 = T0]
    /\ kticks' = IF cpu = "kernel" THEN kticks + 1 ELSE kticks
    /\ UNCHANGED <<cpu, trap, current, status, rq, depth, regs, uctx, runq, printed>>

\* Stage 1 runs out: the system reset, and the boot starts over.
Reset ==
    /\ TimePasses
    /\ wdt.count + 1 = T0 + T1
    /\ cpu' = "boot" /\ trap' = "none" /\ kticks' = 0 /\ current' = NULL
    /\ status' = [t \in Tasks |-> "NONE"]
    /\ rq' = EmptyQueue /\ depth' = 0 /\ wdt' = WdtOff
    /\ regs' = FreshContext /\ uctx' = [t \in Tasks |-> FreshContext]
    /\ runq' = <<>> /\ printed' = 0

-----------------------------------------------------------------------------
Boot == (\E t \in Tasks : create_task(t) \/ scheduler_ready_task(t))
        \/ BootFail \/ scheduler_drop_current

User == Compute \/ WriteUctx \/ Syscall \/ Fault

Handler ==
    \/ SyscallYield \/ SyscallPark \/ SyscallDrop \/ SyscallLog
    \/ SyscallInvalid \/ common_interrupt_handler \/ common_exception_handler

Next == Boot \/ User \/ WdtInterrupt \/ Handler \/ Tick \/ Reset

Spec == Init /\ [][Next]_vars

\* The kernel's own code and the watchdog do not stop; a program may.
Fairness == /\ WF_vars(Boot) /\ WF_vars(WdtInterrupt) /\ WF_vars(Handler)
            /\ WF_vars(Tick) /\ WF_vars(Reset)

FairSpec == Spec /\ Fairness

-----------------------------------------------------------------------------
(* Properties. *)

\* The variables have the types of the C declarations.
TypeOK ==
    /\ cpu \in {"boot", "user", "kernel", "idle", "halt"}
    /\ trap \in Syscalls \cup {"none", "irq", "fault"}
    /\ kticks \in Nat
    /\ current \in Tasks \cup {NULL}
    /\ status \in [Tasks -> {"NONE", "WAITING", "RUNNABLE", "RUNNING", "DEAD"}]
    /\ rq \in [head : Tasks \cup {NULL}, tail : Tasks \cup {NULL}, size : Nat,
               link : [Tasks -> Tasks \cup {NULL}]]
    /\ depth \in Nat
    /\ wdt \in [en : BOOLEAN, count : Nat, int : BOOLEAN]
    /\ regs \in Context
    /\ uctx \in [Tasks -> Context]
    /\ runq \in Seq(Tasks)
    /\ printed \in Nat

\* The list q through the links, from head to tail, holds exactly the
\* sequence s, and q.size is its length.
Represents(q, s) ==
    /\ q.size = Len(s)
    /\ q.head = IF s = <<>> THEN NULL ELSE s[1]
    /\ q.tail = IF s = <<>> THEN NULL ELSE s[Len(s)]
    /\ \A i \in 1..Len(s) : q.link[s[i]] = IF i = Len(s) THEN NULL ELSE s[i + 1]

NoDuplicates(s) == \A i, j \in 1..Len(s) : s[i] = s[j] => i = j

\* m_global_run_queue is always the queue of the tasks put and not yet taken,
\* in order and each once: a task that is put twice, or put while its link is
\* stale, would lose or loop the rest of the list.
QueueIntegrity == Represents(rq, runq) /\ NoDuplicates(runq)

\* A task is RUNNABLE exactly while the run queue holds it, and RUNNING
\* exactly while it is current_task: no task is lost between the two, none is
\* in both.
StatusAgrees ==
    \A t \in Tasks :
        /\ status[t] = "RUNNABLE" <=> \E i \in 1..Len(runq) : runq[i] = t
        /\ status[t] = "RUNNING" <=> t = current

\* No handler meets a status its cas_task_state would spin on, and the ASSERT
\* of save_current_task and the else branch of common_interrupt_handler are
\* unreachable.
HandlersNeverSpin ==
    cpu = "kernel" =>
        /\ current # NULL => status[current] = "RUNNING"
        /\ current = NULL => trap = "drop"
        /\ trap = "irq" => wdt.int
        /\ rq.size > 0 => rq.head # NULL /\ status[rq.head] = "RUNNABLE"

\* Whoever runs in user mode runs against an armed deadline: the watchdog is
\* on and its interrupt is raised or still ahead.
Preemptible ==
    cpu = "user" => wdt.en /\ (wdt.int \/ wdt.count < T0)

\* The watchdog resets the system only out of the hang in release_task or out
\* of printing: a log or an unknown call, with the interrupt handler right
\* behind it, held the cpu for the whole of stage 1.  Nothing limits what a log
\* prints.  Programs that compute, yield and park, or print in between for less
\* than that, are never reset, however often and in whatever order.
ResetOnlyAfterStall ==
    [][cpu # "boot" /\ cpu' = "boot" =>
          \/ cpu = "halt" /\ trap = "drop"
          \/ /\ cpu = "kernel"
             /\ trap \in Printing \/ printed > 0
             /\ printed + kticks >= T1]_vars

\* The registers of every task: in the cpu or the frame for the current one,
\* in its ucontext for the others.
Registers == [t \in Tasks |-> IF t = current THEN regs ELSE uctx[t]]

RR == INSTANCE RoundRobin WITH fifo <- runq, st <- status, ctx <- Registers

\* Programs take turns and their registers are private: the run queue, the
\* frames and the saved contexts implement RoundRobin.
TakesTurns == RR!Spec

\* A runnable task runs again whatever the others do, unless the kernel hangs
\* or the watchdog resets the system under a program that prints too long.
StarvationFree ==
    \A t \in Tasks :
        status[t] = "RUNNABLE" ~> status[t] = "RUNNING" \/ cpu \in {"halt", "boot"}

\* The hang in release_task is not forever: the watchdog is still on there
\* and reboots the system.
HangReboots == cpu = "halt" /\ trap = "drop" ~> cpu = "boot"

-----------------------------------------------------------------------------
(* What a comment of the code says and the code does not keep. *)

\* scheduler.c, execute: a dispatched task has a whole timeslice, so the
\* interrupt that ends it is raised only once the slice is used up.
FullTimeslice == cpu = "user" /\ wdt.int => wdt.count >= T0
=============================================================================
