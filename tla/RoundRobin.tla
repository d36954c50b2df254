------------------------------ MODULE RoundRobin ------------------------------
(***************************************************************************)
(* What the scheduler promises to the programs: they take turns in the     *)
(* order in which they became runnable, at most one runs at a time, and    *)
(* each has registers of its own that only its own steps change.  No run   *)
(* queue links, no watchdog, no saved frames.                              *)
(***************************************************************************)
EXTENDS Sequences

CONSTANTS Tasks, Context, FreshContext

VARIABLES
    fifo,   \* the runnable tasks, the next to run first
    st,     \* the status of every task
    ctx     \* the registers of every task

vars == <<fifo, st, ctx>>

Init ==
    /\ fifo = <<>>
    /\ st = [t \in Tasks |-> "NONE"]
    /\ ctx = [t \in Tasks |-> FreshContext]

Create(t) ==
    /\ st[t] = "NONE"
    /\ st' = [st EXCEPT ![t] = "WAITING"]
    /\ ctx' = [ctx EXCEPT ![t] = FreshContext]
    /\ UNCHANGED fifo

Ready(t) ==
    /\ st[t] = "WAITING"
    /\ st' = [st EXCEPT ![t] = "RUNNABLE"]
    /\ fifo' = Append(fifo, t)
    /\ UNCHANGED ctx

\* The first task of the queue f runs; s are the other statuses.
Dispatch(f, s) ==
    /\ f # <<>>
    /\ fifo' = Tail(f)
    /\ st' = [s EXCEPT ![Head(f)] = "RUNNING"]

Start ==
    /\ \A t \in Tasks : st[t] # "RUNNING"
    /\ Dispatch(fifo, st)
    /\ UNCHANGED ctx

\* The program's own step leaves no system call result behind.
Compute(t) ==
    /\ st[t] = "RUNNING"
    /\ \E c \in Context : c.ret = "arg" /\ ctx' = [ctx EXCEPT ![t] = c]
    /\ UNCHANGED <<fifo, st>>

Preempt(t) ==
    /\ st[t] = "RUNNING"
    /\ Dispatch(Append(fifo, t), [st EXCEPT ![t] = "RUNNABLE"])
    /\ UNCHANGED ctx

Yield(t) ==
    /\ st[t] = "RUNNING"
    /\ Dispatch(Append(fifo, t), [st EXCEPT ![t] = "RUNNABLE"])
    /\ ctx' = [ctx EXCEPT ![t].ret = "ok"]

Park(t) ==
    /\ st[t] = "RUNNING"
    /\ LET s == [st EXCEPT ![t] = "WAITING"]
       IN  \/ Dispatch(fifo, s)
           \/ fifo = <<>> /\ st' = s /\ UNCHANGED fifo
    /\ ctx' = [ctx EXCEPT ![t].ret = "ok"]

Return(t, r) ==
    /\ st[t] = "RUNNING"
    /\ ctx' = [ctx EXCEPT ![t].ret = r]
    /\ UNCHANGED <<fifo, st>>

\* A dead task's registers are nobody's.
Finish(t) ==
    /\ st[t] = "RUNNING"
    /\ st' = [st EXCEPT ![t] = "DEAD"]
    /\ \E c \in Context : ctx' = [ctx EXCEPT ![t] = c]
    /\ UNCHANGED fifo

\* The whole system starts over.
Restart ==
    /\ fifo' = <<>>
    /\ st' = [t \in Tasks |-> "NONE"]
    /\ ctx' = [t \in Tasks |-> FreshContext]

Next ==
    \/ \E t \in Tasks :
           \/ Create(t) \/ Ready(t) \/ Compute(t) \/ Preempt(t) \/ Yield(t)
           \/ Park(t) \/ Finish(t)
           \/ \E r \in {"ok", "einval"} : Return(t, r)
    \/ Start
    \/ Restart

Spec == Init /\ [][Next]_vars

=============================================================================
