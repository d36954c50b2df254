--------------------------- MODULE SchedulerProofs ---------------------------
(***************************************************************************)
(* Proofs about Scheduler for any set of tasks and any stage lengths.      *)
(*                                                                         *)
(* The queue lemmas say what the linked list operations do to the          *)
(* sequence the list represents.  ScheduleLemma says what every handler    *)
(* that ends in schedule establishes.  Inv is the inductive invariant.     *)
(***************************************************************************)
EXTENDS Scheduler, TLAPS

Statuses == {"NONE", "WAITING", "RUNNABLE", "RUNNING", "DEAD"}

QueueType ==
    [head : Tasks \cup {NULL}, tail : Tasks \cup {NULL}, size : Nat,
     link : [Tasks -> Tasks \cup {NULL}]]

WdtType == [en : BOOLEAN, count : Nat, int : BOOLEAN]

In(t, s) == \E i \in 1..Len(s) : s[i] = t

-----------------------------------------------------------------------------
(* The run queue. *)

\* task_queue_push_back through global_run_queue_put: a task that is not in
\* the list becomes its last element.
LEMMA PutLemma ==
    ASSUME NEW q \in QueueType, NEW s \in Seq(Tasks), NEW t \in Tasks,
           Represents(q, s), NoDuplicates(s), ~In(t, s)
    PROVE  LET p == global_run_queue_put(q, t)
           IN  /\ p \in QueueType
               /\ Represents(p, Append(s, t))
               /\ NoDuplicates(Append(s, t))
               /\ Append(s, t) \in Seq(Tasks)
               /\ \A u \in Tasks : In(u, Append(s, t)) <=> In(u, s) \/ u = t
PROOF
<1> DEFINE p == global_run_queue_put(q, t)
           r == Append(s, t)
<1> DEFINE b == task_queue_push_back(q, t)
<1>0. /\ b.head = IF q.tail = NULL THEN t ELSE q.head
      /\ b.tail = t
      /\ b.link = [u \in Tasks |-> IF u = q.tail THEN t
                                   ELSE IF u = t THEN NULL ELSE q.link[u]]
      /\ b \in QueueType
    BY DEF task_queue_push_back, QueueType
<1>p. p = [b EXCEPT !.size = q.size + 1]
    BY DEF global_run_queue_put
<1> HIDE DEF b, p
<1>1. /\ p.head = IF q.tail = NULL THEN t ELSE q.head
      /\ p.tail = t
      /\ p.size = q.size + 1
      /\ p.link = [u \in Tasks |-> IF u = q.tail THEN t
                                   ELSE IF u = t THEN NULL ELSE q.link[u]]
    BY <1>0, <1>p DEF QueueType
<1>2. p \in QueueType
    BY <1>0, <1>p DEF QueueType
<1>3. /\ r \in Seq(Tasks)
      /\ Len(r) = Len(s) + 1
      /\ r # <<>>
      /\ r[Len(r)] = t
      /\ \A i \in 1..Len(s) : r[i] = s[i]
    OBVIOUS
<1>4. NoDuplicates(r)
    BY <1>3 DEF NoDuplicates, In
<1>5. \A u \in Tasks : In(u, r) <=> In(u, s) \/ u = t
    BY <1>3 DEF In
<1>6. p.size = Len(r) /\ p.tail = r[Len(r)]
    BY <1>1, <1>3 DEF Represents
<1>7. p.head = r[1]
  <2>1. CASE s = <<>>
      BY <2>1, <1>1, <1>3 DEF Represents
  <2>2. CASE s # <<>>
    <3>1. q.tail = s[Len(s)] /\ q.head = s[1] /\ Len(s) \in Nat \ {0}
        BY <2>2 DEF Represents
    <3>2. q.tail # NULL
        BY <3>1, NullAssumption
    <3> QED BY <3>1, <3>2, <1>1, <1>3
  <2> QED BY <2>1, <2>2
<1>8. \A i \in 1..Len(r) : p.link[r[i]] = IF i = Len(r) THEN NULL ELSE r[i + 1]
  <2> SUFFICES ASSUME NEW i \in 1..Len(r)
               PROVE  p.link[r[i]] = IF i = Len(r) THEN NULL ELSE r[i + 1]
      OBVIOUS
  <2>0. r[i] \in Tasks
      BY <1>3
  <2>1. p.link[r[i]] = IF r[i] = q.tail THEN t
                       ELSE IF r[i] = t THEN NULL ELSE q.link[r[i]]
      BY <1>1, <2>0
  <2>2. CASE i = Len(r)
    <3>1. r[i] = t
        BY <2>2, <1>3
    <3>2. t # q.tail
        BY NullAssumption DEF Represents, In
    <3> QED BY <3>1, <3>2, <2>1, <2>2
  <2>3. CASE i = Len(s)
    <3>1. s # <<>> /\ r[i] = s[Len(s)] /\ i # Len(r) /\ i + 1 = Len(r)
        BY <2>3, <1>3
    <3>2. q.tail = r[i]
        BY <3>1 DEF Represents
    <3> QED BY <3>1, <3>2, <2>1, <1>3
  <2>4. CASE i # Len(r) /\ i # Len(s)
    <3>1. i \in 1..Len(s) /\ i + 1 \in 1..Len(s) /\ r[i] = s[i] /\ r[i + 1] = s[i + 1]
        BY <2>4, <1>3
    <3>2. s # <<>> /\ Len(s) \in 1..Len(s)
        BY <3>1
    <3>3. q.tail = s[Len(s)] /\ q.link[s[i]] = s[i + 1]
        BY <3>1, <3>2, <2>4 DEF Represents
    <3>4. s[i] # s[Len(s)]
        BY <3>1, <3>2, <2>4 DEF NoDuplicates
    <3>5. s[i] # t
        BY <3>1 DEF In
    <3> QED BY <3>1, <3>3, <3>4, <3>5, <2>1, <2>4
  <2> QED BY <2>2, <2>3, <2>4
<1>9. Represents(p, r)
    BY <1>6, <1>7, <1>8, <1>3 DEF Represents
<1> QED BY <1>2, <1>3, <1>4, <1>5, <1>9 DEF p

\* global_run_queue_get takes the first task of the list, and nothing when
\* the list is empty.
LEMMA GetLemma ==
    ASSUME NEW q \in QueueType, NEW s \in Seq(Tasks),
           Represents(q, s), NoDuplicates(s)
    PROVE  LET g == global_run_queue_get(q)
           IN  /\ s = <<>> => g.task = NULL /\ g.queue = q
               /\ s # <<>> =>
                    /\ g.task = s[1] /\ s[1] \in Tasks
                    /\ g.queue \in QueueType
                    /\ Represents(g.queue, Tail(s))
                    /\ NoDuplicates(Tail(s))
                    /\ Tail(s) \in Seq(Tasks)
                    /\ \A u \in Tasks : In(u, s) <=> In(u, Tail(s)) \/ u = s[1]
                    /\ ~In(s[1], Tail(s))
PROOF
<1> DEFINE g == global_run_queue_get(q)
           r == Tail(s)
<1>1. CASE s = <<>>
    BY <1>1 DEF global_run_queue_get, Represents
<1>2. CASE s # <<>>
  <2>1. /\ Len(s) \in Nat \ {0}
        /\ s[1] \in Tasks
        /\ r \in Seq(Tasks)
        /\ Len(r) = Len(s) - 1
        /\ \A i \in 1..Len(r) : r[i] = s[i + 1]
      BY <1>2
  <2> HIDE DEF r
  <2>0. 1 \in 1..Len(s) /\ 1 + 1 = 2
      BY <2>1
  <2>2. /\ q.head = s[1] /\ q.head # NULL /\ q.size = Len(s) /\ q.size # 0
        /\ q.link[s[1]] = IF Len(s) = 1 THEN NULL ELSE s[2]
      BY <1>2, <2>1, <2>0, NullAssumption DEF Represents
  <2> DEFINE next == q.link[q.head]
  <2>3. /\ g.task = s[1]
        /\ g.queue = [head |-> next,
                      tail |-> IF next = NULL THEN NULL ELSE q.tail,
                      size |-> q.size - 1,
                      link |-> q.link]
      BY <2>2 DEF global_run_queue_get, task_queue_pop, QueueType
  <2>4. g.queue \in QueueType
      BY <2>1, <2>2, <2>3 DEF QueueType
  <2>5. NoDuplicates(r)
      BY <2>1 DEF NoDuplicates
  <2>6. ~In(s[1], r)
      BY <2>1 DEF NoDuplicates, In
  <2>7. \A u \in Tasks : In(u, s) <=> In(u, r) \/ u = s[1]
    <3>1. ASSUME NEW u \in Tasks, In(u, s) PROVE In(u, r) \/ u = s[1]
      <4>1. PICK i \in 1..Len(s) : s[i] = u
          BY <3>1 DEF In
      <4>2. CASE i = 1
          BY <4>1, <4>2
      <4>3. CASE i # 1
        <5>1. i - 1 \in 1..Len(r) /\ (i - 1) + 1 = i
            BY <4>3, <2>1
        <5>2. r[i - 1] = s[i]
            BY <5>1, <2>1
        <5> QED BY <5>1, <5>2, <4>1 DEF In
      <4> QED BY <4>2, <4>3
    <3>2. ASSUME NEW u \in Tasks, In(u, r) PROVE In(u, s)
        BY <3>2, <2>1 DEF In
    <3>3. In(s[1], s)
        BY <2>1 DEF In
    <3> QED BY <3>1, <3>2, <3>3
  <2>8. Represents(g.queue, r)
    <3>1. g.queue.size = Len(r)
        BY <2>1, <2>2, <2>3
    <3>2. CASE Len(s) = 1
      <4>1. r = <<>> /\ next = NULL
          BY <3>2, <2>1, <2>2
      <4> QED BY <4>1, <3>1, <2>3 DEF Represents
    <3>3. CASE Len(s) # 1
      <4>1. r # <<>> /\ Len(r) \in Nat \ {0} /\ r[1] = s[2] /\ r[Len(r)] = s[Len(s)]
          BY <3>3, <2>1
      <4>2. next = s[2] /\ s[2] \in Tasks /\ next # NULL
          BY <3>3, <2>1, <2>2, NullAssumption
      <4>3. g.queue.head = r[1] /\ g.queue.tail = r[Len(r)]
          BY <4>1, <4>2, <2>3, <1>2 DEF Represents
      <4>4. \A i \in 1..Len(r) : g.queue.link[r[i]] = IF i = Len(r) THEN NULL ELSE r[i + 1]
        <5> SUFFICES ASSUME NEW i \in 1..Len(r)
                     PROVE  q.link[r[i]] = IF i = Len(r) THEN NULL ELSE r[i + 1]
            BY <2>3
        <5>1. i + 1 \in 1..Len(s) /\ r[i] = s[i + 1]
            BY <2>1
        <5>2. q.link[s[i + 1]] = IF i + 1 = Len(s) THEN NULL ELSE s[i + 2]
            BY <5>1 DEF Represents
        <5>3. ASSUME i # Len(r) PROVE r[i + 1] = s[i + 2]
          <6>1. i + 1 \in 1..Len(r) /\ (i + 1) + 1 = i + 2
              BY <5>3, <2>1
          <6> QED BY <6>1, <2>1
        <5> QED BY <5>1, <5>2, <5>3, <2>1
      <4> QED BY <4>1, <4>3, <4>4, <3>1 DEF Represents
    <3> QED BY <3>2, <3>3
  <2> QED BY <1>2, <2>1, <2>3, <2>4, <2>5, <2>6, <2>7, <2>8 DEF r
<1> QED BY <1>1, <1>2 DEF r

-----------------------------------------------------------------------------
(* The invariant. *)

\* What the mode of the cpu says about the rest.
ModeInv ==
    /\ cpu = "boot" => ~wdt.en /\ current = NULL
    /\ cpu = "user" => current # NULL /\ wdt.en
    /\ cpu = "kernel" => wdt.en /\ (current = NULL => trap = "drop")
    /\ cpu = "idle" => ~wdt.en
    /\ cpu = "halt" /\ wdt.en => trap = "drop"

\* How far the watchdog can be: a program runs below T0 until the interrupt
\* is raised, at T0 if it was computing and at most printed ticks behind if it
\* comes out of a system call; the interrupt handler adds its own time.
TimeInv ==
    /\ cpu \in {"user", "kernel"} => wdt.int \/ wdt.count < T0
    /\ cpu = "boot" => printed = 0
    /\ cpu = "user" =>
           /\ printed = 0 => wdt.count <= T0
           /\ printed > 0 => wdt.count < T0 + printed
    /\ cpu = "kernel" /\ trap = "irq" =>
           /\ wdt.int
           /\ printed = 0 => wdt.count <= T0 + kticks
           /\ printed > 0 => wdt.count < T0 + printed + kticks
    /\ cpu = "kernel" /\ trap # "irq" => printed = 0 /\ wdt.count < T0 + kticks

Inv == TypeOK /\ QueueIntegrity /\ StatusAgrees /\ ModeInv /\ TimeInv

\* s holds the runnable tasks of st, and r is the running one.
Agrees(st, s, r) ==
    \A t \in Tasks :
        /\ st[t] = "RUNNABLE" <=> In(t, s)
        /\ st[t] = "RUNNING" <=> t = r

LEMMA AgreesDef == StatusAgrees <=> Agrees(status, runq, current)
    BY DEF StatusAgrees, Agrees, In

\* A handler that ends in schedule, called with a consistent queue and nobody
\* running, leaves the kernel consistent: with the first task running on a
\* fresh deadline, or with the cpu asleep.
LEMMA ScheduleLemma ==
    ASSUME NEW q \in QueueType, NEW s \in Seq(Tasks),
           NEW st \in [Tasks -> Statuses], NEW u \in [Tasks -> Context],
           NEW w \in WdtType, TypeOK,
           Represents(q, s), NoDuplicates(s), Agrees(st, s, NULL),
           s = <<>> => ~w.en,
           schedule(q, s, st, u, w)
    PROVE  Inv'
PROOF
<1> DEFINE g == global_run_queue_get(q)
<1>0. TimeAssumption /\ NULL \notin Tasks
    BY TimeAssumption, NullAssumption
<1>1. rq' = g.queue /\ uctx' = u /\ depth' = depth /\ printed' = 0
    BY DEF schedule
<1>2. CASE s = <<>>
  <2>1. g.task = NULL /\ g.queue = q
      BY <1>2, GetLemma
  <2>2. runq' = s /\ Sleep(st, w)
    <3>1. \/ g.task # NULL
          \/ g.task = NULL /\ runq' = s /\ Sleep(st, w)
        BY DEF schedule
    <3> QED BY <3>1, <2>1
  <2>3. /\ cpu' = "idle" /\ trap' = "none" /\ kticks' = 0 /\ current' = NULL
        /\ status' = st /\ wdt' = w /\ regs' = regs
      BY <2>2 DEF Sleep
  <2>4. TypeOK'
      BY <1>1, <2>1, <2>2, <2>3 DEF TypeOK, QueueType, Statuses, WdtType
  <2>5. QueueIntegrity'
      BY <1>1, <2>1, <2>2 DEF QueueIntegrity
  <2>6. StatusAgrees'
      BY <2>2, <2>3 DEF StatusAgrees, Agrees, In
  <2>7. ModeInv' /\ TimeInv'
      BY <1>1, <1>2, <2>3 DEF ModeInv, TimeInv
  <2> QED BY <2>4, <2>5, <2>6, <2>7 DEF Inv
<1>3. CASE s # <<>>
  <2>1. /\ g.task = s[1] /\ s[1] \in Tasks /\ g.queue \in QueueType
        /\ Represents(g.queue, Tail(s)) /\ NoDuplicates(Tail(s))
        /\ Tail(s) \in Seq(Tasks)
        /\ \A v \in Tasks : In(v, s) <=> In(v, Tail(s)) \/ v = s[1]
        /\ ~In(s[1], Tail(s))
      BY <1>3, GetLemma
  <2>2. runq' = Tail(s) /\ execute(g.task, st, u, w)
    <3>1. \/ g.task # NULL /\ runq' = Tail(s) /\ execute(g.task, st, u, w)
          \/ g.task = NULL
        BY DEF schedule
    <3> QED BY <3>1, <2>1, <1>0
  <2> HIDE DEF g
  <2>3. /\ cpu' = "user" /\ trap' = "none" /\ kticks' = 0 /\ current' = s[1]
        /\ status' = [st EXCEPT ![s[1]] = "RUNNING"]
        /\ wdt' = scheduler_set_deadline(w) /\ regs' = u[s[1]]
      BY <2>1, <2>2 DEF execute, Resume
  <2>4. /\ wdt' \in WdtType /\ wdt'.en = TRUE /\ wdt'.count = 0
      BY <2>3 DEF scheduler_set_deadline, wdt_enable, wdt_feed, WdtType
  <2>5. TypeOK'
      BY <1>1, <2>1, <2>2, <2>3, <2>4 DEF TypeOK, QueueType, Statuses, WdtType
  <2>6. QueueIntegrity'
      BY <1>1, <2>1, <2>2 DEF QueueIntegrity
  <2>7. StatusAgrees'
    <3>1. Agrees(status', Tail(s), s[1])
      <4> SUFFICES ASSUME NEW v \in Tasks
                   PROVE  /\ status'[v] = "RUNNABLE" <=> In(v, Tail(s))
                          /\ status'[v] = "RUNNING" <=> v = s[1]
          BY DEF Agrees
      <4>1. CASE v = s[1]
          BY <4>1, <2>1, <2>3
      <4>2. CASE v # s[1]
        <5>1. status'[v] = st[v]
            BY <4>2, <2>3
        <5>2. /\ st[v] = "RUNNABLE" <=> In(v, s)
              /\ st[v] = "RUNNING" <=> v = NULL
            BY DEF Agrees
        <5> QED BY <5>1, <5>2, <4>2, <2>1, <1>0
      <4> QED BY <4>1, <4>2
    <3> QED BY <3>1, <2>2, <2>3 DEF StatusAgrees, Agrees, In
  <2>8. ModeInv' /\ TimeInv'
      BY <1>1, <2>1, <2>3, <2>4, <1>0, TimeAssumption DEF ModeInv, TimeInv, WdtType
  <2> QED BY <2>5, <2>6, <2>7, <2>8 DEF Inv
<1> QED BY <1>2, <1>3

-----------------------------------------------------------------------------
(* The handlers that end in schedule. *)

\* Preemption and yield: the running task goes to the end of the queue.
LEMMA OnScheduleLemma ==
    ASSUME Inv, NEW f \in Context, NEW w \in WdtType, scheduler_on_schedule(f, w)
    PROVE  Inv'
PROOF
<1> DEFINE q == global_run_queue_put(rq, current)
           s == Append(runq, current)
           st == [status EXCEPT ![current] = "RUNNABLE"]
           u == [uctx EXCEPT ![current] = f]
<1>0. /\ TypeOK /\ rq \in QueueType /\ runq \in Seq(Tasks)
      /\ Represents(rq, runq) /\ NoDuplicates(runq)
      /\ Agrees(status, runq, current)
    BY AgreesDef DEF Inv, TypeOK, QueueIntegrity, QueueType
<1>1. current \in Tasks /\ current # NULL /\ status[current] = "RUNNING"
    BY <1>0 DEF scheduler_on_schedule, cas_task_state, TypeOK
<1>2. ~In(current, runq)
    BY <1>0, <1>1 DEF Agrees
<1>3. /\ q \in QueueType /\ Represents(q, s) /\ NoDuplicates(s) /\ s \in Seq(Tasks)
      /\ \A v \in Tasks : In(v, s) <=> In(v, runq) \/ v = current
    BY <1>0, <1>1, <1>2, PutLemma
<1>4. st \in [Tasks -> Statuses] /\ u \in [Tasks -> Context] /\ s # <<>>
    BY <1>0, <1>1 DEF TypeOK, Statuses
<1>5. Agrees(st, s, NULL)
  <2> SUFFICES ASSUME NEW v \in Tasks
               PROVE  /\ st[v] = "RUNNABLE" <=> In(v, s)
                      /\ st[v] = "RUNNING" <=> v = NULL
      BY DEF Agrees
  <2>1. CASE v = current
      BY <2>1, <1>0, <1>3, NullAssumption DEF TypeOK
  <2>2. CASE v # current
    <3>1. st[v] = status[v]
        BY <2>2, <1>0 DEF TypeOK
    <3>2. /\ status[v] = "RUNNABLE" <=> In(v, runq)
          /\ status[v] = "RUNNING" <=> v = current
        BY <1>0 DEF Agrees
    <3> QED BY <3>1, <3>2, <2>2, <1>3, NullAssumption
  <2> QED BY <2>1, <2>2
<1>6. schedule(q, s, st, u, w)
    BY DEF scheduler_on_schedule
<1> HIDE DEF q, s, st, u
<1> QED BY <1>0, <1>3, <1>4, <1>5, <1>6, ScheduleLemma

\* Park: the running task is in no queue, and the deadline is cancelled.
LEMMA OnParkLemma ==
    ASSUME Inv, NEW f \in Context, scheduler_on_park(f)
    PROVE  Inv'
PROOF
<1> DEFINE st == [status EXCEPT ![current] = "WAITING"]
           u == [uctx EXCEPT ![current] = f]
           w == scheduler_cancel_deadline(wdt)
<1>0. /\ TypeOK /\ rq \in QueueType /\ runq \in Seq(Tasks)
      /\ Represents(rq, runq) /\ NoDuplicates(runq)
      /\ Agrees(status, runq, current)
    BY AgreesDef DEF Inv, TypeOK, QueueIntegrity, QueueType
<1>1. current \in Tasks /\ current # NULL /\ status[current] = "RUNNING"
    BY <1>0 DEF scheduler_on_park, cas_task_state, TypeOK
<1>2. ~In(current, runq)
    BY <1>0, <1>1 DEF Agrees
<1>3. w \in WdtType /\ ~w.en
    BY <1>0 DEF TypeOK, WdtType, scheduler_cancel_deadline, wdt_disable
<1>4. st \in [Tasks -> Statuses] /\ u \in [Tasks -> Context]
    BY <1>0, <1>1 DEF TypeOK, Statuses
<1>5. Agrees(st, runq, NULL)
  <2> SUFFICES ASSUME NEW v \in Tasks
               PROVE  /\ st[v] = "RUNNABLE" <=> In(v, runq)
                      /\ st[v] = "RUNNING" <=> v = NULL
      BY DEF Agrees
  <2>1. CASE v = current
      BY <2>1, <1>0, <1>2, NullAssumption DEF TypeOK
  <2>2. CASE v # current
    <3>1. st[v] = status[v]
        BY <2>2, <1>0 DEF TypeOK
    <3>2. /\ status[v] = "RUNNABLE" <=> In(v, runq)
          /\ status[v] = "RUNNING" <=> v = current
        BY <1>0 DEF Agrees
    <3> QED BY <3>1, <3>2, <2>2, NullAssumption
  <2> QED BY <2>1, <2>2
<1>6. schedule(rq, runq, st, u, w)
    BY DEF scheduler_on_park
<1> HIDE DEF st, u, w
<1> QED BY <1>0, <1>3, <1>4, <1>5, <1>6, ScheduleLemma

\* Drop: the first dispatch out of the boot, or the hang in release_task.
LEMMA OnDropLemma ==
    ASSUME Inv, SyscallDrop
    PROVE  Inv'
PROOF
<1>0. /\ TypeOK /\ rq \in QueueType /\ runq \in Seq(Tasks)
      /\ Represents(rq, runq) /\ NoDuplicates(runq)
      /\ Agrees(status, runq, current)
    BY AgreesDef DEF Inv, TypeOK, QueueIntegrity, QueueType
<1>1. cpu = "kernel" /\ trap = "drop" /\ scheduler_on_drop
    BY DEF SyscallDrop, Handles
<1>2. CASE current = NULL
  <2> DEFINE w == scheduler_cancel_deadline(wdt)
  <2>1. w \in WdtType /\ ~w.en
      BY <1>0 DEF TypeOK, WdtType, scheduler_cancel_deadline, wdt_disable
  <2>2. schedule(rq, runq, status, uctx, w)
      BY <1>1, <1>2 DEF scheduler_on_drop
  <2>3. status \in [Tasks -> Statuses] /\ uctx \in [Tasks -> Context]
      BY <1>0 DEF TypeOK, Statuses
  <2>4. Agrees(status, runq, NULL)
      BY <1>0, <1>2
  <2> HIDE DEF w
  <2> QED BY <1>0, <2>1, <2>2, <2>3, <2>4, ScheduleLemma
<1>3. CASE current # NULL
  <2>1. /\ current' = NULL /\ status' = [status EXCEPT ![current] = "DEAD"]
        /\ cpu' = "halt" /\ status[current] = "RUNNING" /\ current \in Tasks
        /\ UNCHANGED <<trap, kticks, rq, depth, wdt, regs, uctx, runq, printed>>
      BY <1>0, <1>1, <1>3 DEF scheduler_on_drop, release_task, cas_task_state, TypeOK
  <2>2. TypeOK'
      BY <1>0, <2>1 DEF TypeOK
  <2>3. QueueIntegrity'
      BY <1>0, <2>1 DEF QueueIntegrity
  <2>4. Agrees(status', runq, NULL)
    <3> SUFFICES ASSUME NEW v \in Tasks
                 PROVE  /\ status'[v] = "RUNNABLE" <=> In(v, runq)
                        /\ status'[v] = "RUNNING" <=> v = NULL
        BY DEF Agrees
    <3>1. /\ status[v] = "RUNNABLE" <=> In(v, runq)
          /\ status[v] = "RUNNING" <=> v = current
        BY <1>0 DEF Agrees
    <3>2. CASE v = current
        BY <3>1, <3>2, <2>1, <1>0, NullAssumption DEF TypeOK
    <3>3. CASE v # current
      <4>1. status'[v] = status[v]
          BY <3>3, <2>1, <1>0 DEF TypeOK
      <4> QED BY <4>1, <3>1, <3>3, NullAssumption
    <3> QED BY <3>2, <3>3
  <2>5. StatusAgrees'
      BY <2>4, <2>1 DEF StatusAgrees, Agrees, In
  <2>6. ModeInv' /\ TimeInv'
      BY <2>1, <1>1 DEF ModeInv, TimeInv
  <2> QED BY <2>2, <2>3, <2>5, <2>6 DEF Inv
<1> QED BY <1>2, <1>3

-----------------------------------------------------------------------------
(* Inv is inductive. *)

LEMMA InitInv == Init => Inv
PROOF
<1> SUFFICES ASSUME Init PROVE Inv
    OBVIOUS
<1>1. TypeOK
    BY DEF Init, TypeOK, EmptyQueue, WdtOff, FreshContext, Context
<1>2. QueueIntegrity
    BY DEF Init, QueueIntegrity, Represents, NoDuplicates, EmptyQueue
<1>3. StatusAgrees
    BY NullAssumption DEF Init, StatusAgrees
<1>4. ModeInv /\ TimeInv
    BY DEF Init, ModeInv, TimeInv, WdtOff
<1> QED BY <1>1, <1>2, <1>3, <1>4 DEF Inv

\* The steps that leave the tasks, the queue and current_task alone.
LEMMA QuietLemma ==
    ASSUME Inv, UNCHANGED <<current, status, rq, runq>>
    PROVE  QueueIntegrity' /\ StatusAgrees'
    BY DEF Inv, QueueIntegrity, StatusAgrees

LEMMA BootInv == ASSUME Inv, Boot PROVE Inv'
PROOF
<1>0. /\ TypeOK /\ QueueIntegrity /\ StatusAgrees /\ ModeInv /\ TimeInv
      /\ rq \in QueueType /\ runq \in Seq(Tasks)
      /\ Represents(rq, runq) /\ NoDuplicates(runq)
      /\ Agrees(status, runq, current)
    BY AgreesDef DEF Inv, TypeOK, QueueIntegrity, QueueType
<1>1. ASSUME NEW t \in Tasks, create_task(t) PROVE Inv'
  <2>1. /\ cpu = "boot" /\ status[t] = "NONE" /\ current = NULL
        /\ status' = [status EXCEPT ![t] = "WAITING"]
        /\ uctx' = [uctx EXCEPT ![t] = FreshContext]
        /\ UNCHANGED <<cpu, trap, kticks, current, rq, depth, wdt, regs, runq, printed>>
      BY <1>0, <1>1 DEF create_task, ModeInv
  <2>2. TypeOK'
      BY <1>0, <2>1 DEF TypeOK, FreshContext, Context
  <2>3. Agrees(status', runq, current)
      BY <1>0, <2>1, NullAssumption DEF Agrees, TypeOK
  <2>4. StatusAgrees' /\ QueueIntegrity'
      BY <1>0, <2>1, <2>3 DEF StatusAgrees, Agrees, In, QueueIntegrity
  <2>5. ModeInv' /\ TimeInv'
      BY <1>0, <2>1 DEF ModeInv, TimeInv
  <2> QED BY <2>2, <2>4, <2>5 DEF Inv
<1>2. ASSUME NEW t \in Tasks, scheduler_ready_task(t) PROVE Inv'
  <2>1. /\ cpu = "boot" /\ status[t] = "WAITING" /\ current = NULL
        /\ status' = [status EXCEPT ![t] = "RUNNABLE"]
        /\ rq' = global_run_queue_put(rq, t)
        /\ runq' = Append(runq, t)
        /\ depth' = depth + 1 + 1
        /\ UNCHANGED <<cpu, trap, kticks, current, wdt, regs, uctx, printed>>
      BY <1>0, <1>2 DEF scheduler_ready_task, ModeInv, cas_task_state,
            scheduler_preempt_disable, scheduler_preempt_enable
  <2>2. ~In(t, runq)
      BY <1>0, <2>1 DEF Agrees
  <2>3. /\ rq' \in QueueType /\ Represents(rq', runq') /\ NoDuplicates(runq')
        /\ runq' \in Seq(Tasks)
        /\ \A v \in Tasks : In(v, runq') <=> In(v, runq) \/ v = t
      BY <1>0, <2>1, <2>2, PutLemma
  <2>4. TypeOK'
      BY <1>0, <2>1, <2>3 DEF TypeOK, QueueType
  <2>5. Agrees(status', runq', current)
    <3> SUFFICES ASSUME NEW v \in Tasks
                 PROVE  /\ status'[v] = "RUNNABLE" <=> In(v, runq')
                        /\ status'[v] = "RUNNING" <=> v = current
        BY DEF Agrees
    <3>1. /\ status[v] = "RUNNABLE" <=> In(v, runq)
          /\ status[v] = "RUNNING" <=> v = current
        BY <1>0 DEF Agrees
    <3>2. CASE v = t
        BY <3>1, <3>2, <2>1, <2>3, <1>0, NullAssumption DEF TypeOK
    <3>3. CASE v # t
      <4>1. status'[v] = status[v]
          BY <3>3, <2>1, <1>0 DEF TypeOK
      <4> QED BY <4>1, <3>1, <3>3, <2>3
    <3> QED BY <3>2, <3>3
  <2>6. StatusAgrees'
      BY <2>1, <2>5 DEF StatusAgrees, Agrees, In
  <2>7. QueueIntegrity'
      BY <2>3 DEF QueueIntegrity
  <2>8. ModeInv' /\ TimeInv'
      BY <1>0, <2>1 DEF ModeInv, TimeInv
  <2> QED BY <2>4, <2>6, <2>7, <2>8 DEF Inv
<1>3. ASSUME BootFail PROVE Inv'
  <2>1. QueueIntegrity' /\ StatusAgrees'
      BY <1>3, QuietLemma DEF BootFail
  <2>2. TypeOK'
      BY <1>0, <1>3 DEF TypeOK, BootFail
  <2>3. ModeInv' /\ TimeInv'
      BY <1>0, <1>3 DEF ModeInv, TimeInv, BootFail
  <2> QED BY <2>1, <2>2, <2>3 DEF Inv
<1>4. ASSUME scheduler_drop_current PROVE Inv'
  <2>1. QueueIntegrity' /\ StatusAgrees'
      BY <1>4, QuietLemma DEF scheduler_drop_current
  <2>2. TypeOK'
      BY <1>0, <1>4 DEF TypeOK, scheduler_drop_current, init_wdt, Syscalls
  <2>3. ModeInv' /\ TimeInv'
      BY <1>0, <1>4, TimeAssumption
         DEF ModeInv, TimeInv, scheduler_drop_current, init_wdt
  <2> QED BY <2>1, <2>2, <2>3 DEF Inv
<1> QED BY <1>1, <1>2, <1>3, <1>4 DEF Boot

LEMMA UserInv == ASSUME Inv, User \/ WdtInterrupt PROVE Inv'
PROOF
<1>0. TypeOK /\ ModeInv /\ TimeInv
    BY DEF Inv
<1>1. QueueIntegrity' /\ StatusAgrees'
    BY QuietLemma DEF User, Compute, WriteUctx, Syscall, Fault, WdtInterrupt, Enter
<1>2. CASE Compute
  <2>1. regs' \in Context
      BY <1>2 DEF Compute, Context
  <2>2. TypeOK'
      BY <1>0, <1>2, <2>1 DEF TypeOK, Compute
  <2>3. ModeInv' /\ TimeInv'
      BY <1>0, <1>2 DEF Compute, ModeInv, TimeInv
  <2> QED BY <1>1, <2>2, <2>3 DEF Inv
<1>3. CASE WriteUctx
  <2>1. uctx' \in [Tasks -> Context]
      BY <1>0, <1>3 DEF TypeOK, WriteUctx
  <2>2. TypeOK'
      BY <1>0, <1>3, <2>1 DEF TypeOK, WriteUctx
  <2>3. ModeInv' /\ TimeInv'
      BY <1>0, <1>3 DEF WriteUctx, ModeInv, TimeInv
  <2> QED BY <1>1, <2>2, <2>3 DEF Inv
<1>4. CASE Syscall \/ Fault
  <2>1. PICK c \in Syscalls \cup {"fault"} : UserRuns /\ Enter(c)
      BY <1>4 DEF Syscall, Fault
  <2>2. TypeOK'
      BY <1>0, <2>1 DEF TypeOK, Enter
  <2>3. c # "irq"
      BY <2>1 DEF Syscalls
  <2>4. wdt.count \in Nat /\ wdt.count < T0
      BY <1>0, <2>1 DEF TypeOK, TimeInv, UserRuns
  <2>5. ModeInv' /\ TimeInv'
      BY <1>0, <2>1, <2>3, <2>4, TimeAssumption
         DEF ModeInv, TimeInv, Enter, UserRuns
  <2> QED BY <1>1, <2>2, <2>5 DEF Inv
<1>5. CASE WdtInterrupt
  <2>2. TypeOK'
      BY <1>0, <1>5 DEF TypeOK, Enter, WdtInterrupt
  <2>4. wdt.count \in Nat /\ printed \in Nat
      BY <1>0 DEF TypeOK
  <2>5. ModeInv' /\ TimeInv'
      BY <1>0, <1>5, <2>4, TimeAssumption
         DEF ModeInv, TimeInv, Enter, WdtInterrupt
  <2> QED BY <1>1, <2>2, <2>5 DEF Inv
<1> QED BY <1>2, <1>3, <1>4, <1>5 DEF User

LEMMA HandlerInv == ASSUME Inv, Handler PROVE Inv'
PROOF
<1>0. TypeOK /\ ModeInv /\ TimeInv
    BY DEF Inv
<1>1. \A r \in {"ok", "einval"} : Returned(r) \in Context
    BY <1>0 DEF TypeOK, Returned, Context
<1>2. wdt \in WdtType /\ wdt_handle(wdt) \in WdtType /\ regs \in Context
    BY <1>0 DEF TypeOK, WdtType, wdt_handle, wdt_feed
<1>3. CASE SyscallYield
    BY <1>1, <1>2, <1>3, OnScheduleLemma DEF SyscallYield
<1>4. CASE SyscallPark
    BY <1>1, <1>4, OnParkLemma DEF SyscallPark
<1>5. CASE SyscallDrop
    BY <1>5, OnDropLemma
<1>6. CASE common_interrupt_handler
    BY <1>2, <1>6, OnScheduleLemma DEF common_interrupt_handler
<1>7. CASE SyscallLog \/ SyscallInvalid
  <2>1. PICK r \in {"ok", "einval"} :
            /\ cpu = "kernel" /\ trap \in {"log", "bad"}
            /\ Resume(Returned(r)) /\ printed' = kticks
            /\ UNCHANGED <<current, status, rq, depth, wdt, uctx, runq>>
      BY <1>7 DEF SyscallLog, SyscallInvalid, Handles
  <2>2. QueueIntegrity' /\ StatusAgrees'
      BY <2>1, QuietLemma
  <2>3. TypeOK'
      BY <1>0, <1>1, <2>1 DEF TypeOK, Resume
  <2>4. ModeInv' /\ TimeInv'
      BY <1>0, <2>1, TimeAssumption DEF ModeInv, TimeInv, Resume, TypeOK
  <2> QED BY <2>2, <2>3, <2>4 DEF Inv
<1>8. CASE common_exception_handler
  <2>1. QueueIntegrity' /\ StatusAgrees'
      BY <1>8, QuietLemma DEF common_exception_handler
  <2>2. wdt' \in WdtType /\ ~wdt'.en
      BY <1>2, <1>8 DEF common_exception_handler, wdt_disable, WdtType
  <2>3. TypeOK'
      BY <1>0, <1>8, <2>2 DEF TypeOK, common_exception_handler, WdtType
  <2>4. ModeInv' /\ TimeInv'
      BY <1>8, <2>2 DEF ModeInv, TimeInv, common_exception_handler
  <2> QED BY <2>1, <2>3, <2>4 DEF Inv
<1> QED BY <1>3, <1>4, <1>5, <1>6, <1>7, <1>8 DEF Handler

\* The fields of the watchdog after a tick.
LEMMA TickedRecord ==
    ASSUME NEW w \in WdtType, NEW b \in BOOLEAN
    PROVE  LET v == [w EXCEPT !.count = w.count + 1, !.int = b]
           IN  v \in WdtType /\ v.en = w.en /\ v.count = w.count + 1 /\ v.int = b
PROOF
<1> DEFINE v == [w EXCEPT !.count = w.count + 1, !.int = b]
<1>1. w.count + 1 \in Nat
    BY DEF WdtType
<1>2. v \in WdtType
    BY <1>1 DEF WdtType
<1>3. v.en = w.en
    BY DEF WdtType
<1>4. v.count = w.count + 1
    BY DEF WdtType
<1>5. v.int = b
    BY DEF WdtType
<1> QED BY <1>2, <1>3, <1>4, <1>5

LEMMA ClockInv == ASSUME Inv, Tick \/ Reset PROVE Inv'
PROOF
<1>0. TypeOK /\ ModeInv /\ TimeInv
    BY DEF Inv
<1>1. CASE Tick
  <2>1. QueueIntegrity' /\ StatusAgrees'
      BY <1>1, QuietLemma DEF Tick
  <2>2. /\ wdt' \in WdtType /\ wdt'.en = wdt.en /\ wdt'.count = wdt.count + 1
        /\ wdt'.int <=> wdt.int \/ wdt.count + 1 = T0
        /\ wdt.count \in Nat /\ kticks \in Nat /\ printed \in Nat
    <3> DEFINE raised == wdt.int \/ wdt.count + 1 = T0
    <3>1. raised \in BOOLEAN
        OBVIOUS
    <3>2. /\ wdt' = [wdt EXCEPT !.count = wdt.count + 1, !.int = raised]
          /\ wdt \in WdtType /\ kticks \in Nat /\ printed \in Nat
        BY <1>0, <1>1 DEF Tick, TypeOK, WdtType
    <3> HIDE DEF raised
    <3>3. /\ wdt' \in WdtType /\ wdt'.en = wdt.en /\ wdt'.count = wdt.count + 1
          /\ wdt'.int = raised /\ wdt.count \in Nat
        BY <3>1, <3>2, TickedRecord DEF WdtType
    <3> QED BY <3>2, <3>3 DEF raised
  <2>3. /\ kticks' = IF cpu = "kernel" THEN kticks + 1 ELSE kticks
        /\ UNCHANGED <<cpu, trap, current, printed>>
        /\ cpu = "user" => ~wdt.int
      BY <1>1 DEF Tick, TimePasses, UserRuns
  <2>4. TypeOK'
      BY <1>0, <1>1, <2>2, <2>3 DEF TypeOK, Tick, WdtType
  <2>5. ModeInv'
      BY <1>0, <2>2, <2>3 DEF ModeInv
  <2>7. TimeInv'
    <3>1. (cpu \in {"user", "kernel"} => wdt.int \/ wdt.count < T0)'
        BY <1>0, <2>2, <2>3, TimeAssumption DEF TimeInv
    <3>2. (/\ cpu = "boot" => printed = 0
           /\ cpu = "user" =>
                /\ printed = 0 => wdt.count <= T0
                /\ printed > 0 => wdt.count < T0 + printed)'
        BY <1>0, <2>2, <2>3, TimeAssumption DEF TimeInv
    <3>3. (/\ cpu = "kernel" /\ trap = "irq" =>
                /\ wdt.int
                /\ printed = 0 => wdt.count <= T0 + kticks
                /\ printed > 0 => wdt.count < T0 + printed + kticks
           /\ cpu = "kernel" /\ trap # "irq" => printed = 0 /\ wdt.count < T0 + kticks)'
        BY <1>0, <2>2, <2>3, TimeAssumption DEF TimeInv
    <3> QED BY <3>1, <3>2, <3>3 DEF TimeInv
  <2> QED BY <2>1, <2>4, <2>5, <2>7 DEF Inv
<1>2. CASE Reset
  <2>1. Init'
      BY <1>2 DEF Reset, Init
  <2> QED BY <2>1, InitInv, PTL
<1> QED BY <1>1, <1>2

\* The step of the induction.
LEMMA NextInv == ASSUME Inv, [Next]_vars PROVE Inv'
PROOF
<1>1. CASE Next
    BY <1>1, BootInv, UserInv, HandlerInv, ClockInv DEF Next
<1>2. CASE UNCHANGED vars
    BY <1>2 DEF vars, Inv, TypeOK, QueueIntegrity, StatusAgrees, ModeInv, TimeInv
<1> QED BY <1>1, <1>2

-----------------------------------------------------------------------------
(* Invariance theorems. *)

\* Every reachable state of the scheduler satisfies the inductive invariant.
THEOREM Invariance == Spec => []Inv
PROOF
<1>1. Inv /\ [Next]_vars => Inv'
    BY NextInv
<1> QED BY InitInv, <1>1, PTL DEF Spec

\* The kernel's variables keep the types of their C declarations.
THEOREM TypeTheorem == Spec => []TypeOK
PROOF
<1>1. Inv => TypeOK
    BY DEF Inv
<1> QED BY Invariance, <1>1, PTL

\* The linked run queue never loses, repeats or reorders a task.
THEOREM QueueTheorem == Spec => []QueueIntegrity
PROOF
<1>1. Inv => QueueIntegrity
    BY DEF Inv
<1> QED BY Invariance, <1>1, PTL

\* task->status, the run queue and current_task always agree.
THEOREM StatusTheorem == Spec => []StatusAgrees
PROOF
<1>1. Inv => StatusAgrees
    BY DEF Inv
<1> QED BY Invariance, <1>1, PTL

\* No cas_task_state of a handler spins and no ASSERT of the scheduler fails
\* (but the one of release_task).
THEOREM NoSpinTheorem == Spec => []HandlersNeverSpin
PROOF
<1>1. Inv => HandlersNeverSpin
  <2> SUFFICES ASSUME Inv, cpu = "kernel" PROVE HandlersNeverSpin
      BY DEF HandlersNeverSpin
  <2>0. /\ TypeOK /\ Represents(rq, runq) /\ Agrees(status, runq, current)
        /\ ModeInv /\ TimeInv
      BY AgreesDef DEF Inv, QueueIntegrity
  <2>1. current # NULL => status[current] = "RUNNING"
      BY <2>0 DEF TypeOK, Agrees
  <2>2. (current = NULL => trap = "drop") /\ (trap = "irq" => wdt.int)
      BY <2>0 DEF ModeInv, TimeInv
  <2>3. ASSUME rq.size > 0 PROVE rq.head # NULL /\ status[rq.head] = "RUNNABLE"
    <3>1. runq \in Seq(Tasks) /\ runq # <<>> /\ 1 \in 1..Len(runq) /\ rq.head = runq[1]
        BY <2>0, <2>3 DEF Represents, TypeOK
    <3>2. runq[1] \in Tasks /\ In(runq[1], runq)
        BY <3>1 DEF In
    <3> QED BY <2>0, <3>1, <3>2, NullAssumption DEF Agrees
  <2> QED BY <2>1, <2>2, <2>3 DEF HandlersNeverSpin
<1> QED BY Invariance, <1>1, PTL

\* A task in user mode always runs against an armed deadline.
THEOREM PreemptibleTheorem == Spec => []Preemptible
PROOF
<1>1. Inv => Preemptible
    BY DEF Inv, ModeInv, TimeInv, Preemptible
<1> QED BY Invariance, <1>1, PTL

\* If a handler that does not print is shorter than watchdog stage 1, a reset
\* comes only out of the hang in release_task or out of a system call that
\* printed, alone or with the interrupt behind it, for the whole of stage 1:
\* however long logs may be.
THEOREM ResetTheorem ==
    ASSUME KMax < T1
    PROVE  Spec => ResetOnlyAfterStall
PROOF
<1> DEFINE Stall == /\ cpu = "kernel"
                    /\ trap \in Printing \/ printed > 0
                    /\ printed + kticks >= T1
           Step == cpu # "boot" /\ cpu' = "boot" => (cpu = "halt" /\ trap = "drop") \/ Stall
<1>1. ASSUME Inv, [Next]_vars PROVE [Step]_vars
  <2>0. TypeOK /\ ModeInv /\ TimeInv
      BY <1>1 DEF Inv
  <2>1. CASE Reset
    <3>1. TimePasses /\ wdt.en /\ wdt.count + 1 = T0 + T1
        BY <2>1 DEF Reset, TimePasses
    <3>2. wdt.count \in Nat /\ kticks \in Nat /\ printed \in Nat
        BY <2>0 DEF TypeOK
    <3>3. cpu # "user"
        BY <2>0, <3>1, <3>2, TimeAssumption DEF TimePasses, UserRuns, TimeInv
    <3>4. ASSUME cpu = "kernel" PROVE Stall
      <4>1. trap \in Printing \/ kticks < KMax
          BY <3>1, <3>4 DEF TimePasses, UserRuns
      <4>2. CASE trap = "irq"
        <5>1. kticks < KMax
            BY <4>1, <4>2 DEF Printing
        <5>2. printed > 0
            BY <2>0, <3>1, <3>2, <3>4, <4>2, <5>1, TimeAssumption DEF TimeInv
        <5>3. printed + kticks >= T1
            BY <2>0, <3>1, <3>2, <3>4, <4>2, <5>2, TimeAssumption DEF TimeInv
        <5> QED BY <3>4, <5>2, <5>3
      <4>3. CASE trap # "irq"
        <5>1. printed + kticks >= T1
            BY <2>0, <3>1, <3>2, <3>4, <4>3, TimeAssumption DEF TimeInv
        <5>2. trap \in Printing
            BY <2>0, <3>2, <3>4, <4>1, <4>3, <5>1, TimeAssumption DEF TimeInv
        <5> QED BY <3>4, <5>1, <5>2
      <4> QED BY <4>2, <4>3
    <3>5. ASSUME cpu # "kernel" PROVE cpu = "halt" /\ trap = "drop"
        BY <2>0, <3>1, <3>3, <3>5 DEF TimePasses, UserRuns, ModeInv
    <3>6. Step
        BY <3>4, <3>5
    <3> QED BY <3>6
  <2>2. ASSUME Boot, cpu' = "boot" PROVE cpu = "boot"
      BY <2>2 DEF Boot, create_task, scheduler_ready_task, BootFail, scheduler_drop_current
  <2>3. CASE User \/ WdtInterrupt
      BY <2>3 DEF User, Compute, WriteUctx, Syscall, Fault, WdtInterrupt, Enter, UserRuns
  <2>4. CASE Tick \/ UNCHANGED vars
      BY <2>4 DEF Tick, vars
  <2>5. CASE Handler
      BY <2>5 DEF Handler, SyscallYield, SyscallPark, SyscallDrop, SyscallLog,
            SyscallInvalid, common_interrupt_handler, common_exception_handler,
            scheduler_on_schedule, scheduler_on_park, scheduler_on_drop,
            release_task, schedule, execute, Sleep, Resume
  <2> QED BY <1>1, <2>1, <2>2, <2>3, <2>4, <2>5 DEF Next
<1> QED BY Invariance, <1>1, PTL DEF Spec, ResetOnlyAfterStall

-----------------------------------------------------------------------------
(* Scheduler implements RoundRobin. *)

\* What schedule does, seen from RoundRobin: the head of the queue runs, and
\* the registers of the tasks are the saved ones.
LEMMA ScheduleRefines ==
    ASSUME NEW q \in QueueType, NEW s \in Seq(Tasks), NEW st, NEW w,
           NEW u \in [Tasks -> Context],
           Represents(q, s), NoDuplicates(s),
           schedule(q, s, st, u, w)
    PROVE  /\ s # <<>> => RR!Dispatch(s, st)
           /\ s = <<>> => runq' = s /\ status' = st
           /\ Registers' = u
PROOF
<1> DEFINE g == global_run_queue_get(q)
<1>0. /\ uctx' = u
      /\ \/ g.task # NULL /\ runq' = Tail(s) /\ execute(g.task, st, u, w)
         \/ g.task = NULL /\ runq' = s /\ Sleep(st, w)
    BY DEF schedule
<1>1. CASE s = <<>>
  <2>1. g.task = NULL
      BY <1>1, GetLemma
  <2>2. runq' = s /\ status' = st /\ current' = NULL
      BY <1>0, <2>1 DEF Sleep
  <2>3. Registers' = u
      BY <1>0, <2>2, NullAssumption DEF Registers
  <2> QED BY <1>1, <2>2, <2>3
<1>2. CASE s # <<>>
  <2>1. g.task = s[1] /\ s[1] \in Tasks /\ g.task # NULL
      BY <1>2, GetLemma, NullAssumption
  <2>2. runq' = Tail(s) /\ execute(g.task, st, u, w)
      BY <1>0, <2>1
  <2> HIDE DEF g
  <2>3. /\ current' = s[1] /\ regs' = u[s[1]]
        /\ status' = [st EXCEPT ![s[1]] = "RUNNING"]
      BY <2>1, <2>2 DEF execute, Resume
  <2>4. Registers' = u
      BY <1>0, <2>1, <2>3 DEF Registers
  <2>5. Head(s) = s[1]
      BY <1>2
  <2>6. RR!Dispatch(s, st)
      BY <1>2, <2>2, <2>3, <2>5 DEF RR!Dispatch
  <2> QED BY <1>2, <2>4, <2>6
<1> QED BY <1>1, <1>2

\* Saving the frame f of the running task changes its registers to f.
LEMMA SavedRegisters ==
    ASSUME TypeOK, current \in Tasks, NEW f
    PROVE  [uctx EXCEPT ![current] = f] = [Registers EXCEPT ![current] = f]
    BY DEF TypeOK, Registers

\* The running task's registers are the frame.
LEMMA ReturnedRegisters ==
    ASSUME TypeOK, current \in Tasks, NEW r
    PROVE  [Registers EXCEPT ![current] = Returned(r)]
             = [Registers EXCEPT ![current].ret = r]
    BY DEF TypeOK, Registers, Returned

\* A step of the handlers is a step of RoundRobin or leaves it alone.
LEMMA HandlerRefines == ASSUME Inv, Handler PROVE [RR!Next]_(RR!vars)
PROOF
<1>0. /\ TypeOK /\ rq \in QueueType /\ runq \in Seq(Tasks)
      /\ Represents(rq, runq) /\ NoDuplicates(runq)
      /\ Agrees(status, runq, current) /\ ModeInv
    BY AgreesDef DEF Inv, TypeOK, QueueIntegrity, QueueType
<1>1. ASSUME NEW f \in Context, NEW w, scheduler_on_schedule(f, w)
      PROVE  /\ current \in Tasks /\ status[current] = "RUNNING"
             /\ RR!Dispatch(Append(runq, current), [status EXCEPT ![current] = "RUNNABLE"])
             /\ Registers' = [Registers EXCEPT ![current] = f]
  <2> DEFINE q == global_run_queue_put(rq, current)
             s == Append(runq, current)
             st == [status EXCEPT ![current] = "RUNNABLE"]
             u == [uctx EXCEPT ![current] = f]
  <2>1. current \in Tasks /\ status[current] = "RUNNING"
      BY <1>0, <1>1 DEF scheduler_on_schedule, cas_task_state, TypeOK
  <2>2. ~In(current, runq)
      BY <1>0, <2>1 DEF Agrees
  <2>3. /\ q \in QueueType /\ Represents(q, s) /\ NoDuplicates(s) /\ s \in Seq(Tasks)
      BY <1>0, <2>1, <2>2, PutLemma
  <2>4. u \in [Tasks -> Context] /\ s # <<>>
      BY <1>0, <1>1, <2>1 DEF TypeOK
  <2>5. schedule(q, s, st, u, w)
      BY <1>1 DEF scheduler_on_schedule
  <2>6. u = [Registers EXCEPT ![current] = f]
      BY <1>0, <2>1, SavedRegisters
  <2> HIDE DEF q, s, st, u
  <2>7. RR!Dispatch(s, st) /\ Registers' = u
      BY <2>3, <2>4, <2>5, ScheduleRefines
  <2> QED BY <2>1, <2>6, <2>7 DEF s, st
<1>2. CASE SyscallYield
  <2>1. Returned("ok") \in Context
      BY <1>0 DEF Returned, TypeOK, Context
  <2>2. RR!Yield(current) /\ current \in Tasks
      BY <1>0, <1>1, <1>2, <2>1, ReturnedRegisters DEF SyscallYield, RR!Yield
  <2> QED BY <2>2 DEF RR!Next
<1>3. CASE common_interrupt_handler
  <2>1. regs \in Context
      BY <1>0 DEF TypeOK
  <2>2. /\ current \in Tasks /\ status[current] = "RUNNING"
        /\ RR!Dispatch(Append(runq, current), [status EXCEPT ![current] = "RUNNABLE"])
        /\ Registers' = [Registers EXCEPT ![current] = regs]
      BY <1>1, <1>3, <2>1 DEF common_interrupt_handler
  <2>3. Registers' = Registers
      BY <2>2 DEF Registers
  <2>4. RR!Preempt(current)
      BY <2>2, <2>3 DEF RR!Preempt
  <2> QED BY <2>2, <2>4 DEF RR!Next
<1>4. CASE SyscallPark
  <2> DEFINE st == [status EXCEPT ![current] = "WAITING"]
             u == [uctx EXCEPT ![current] = Returned("ok")]
             w == scheduler_cancel_deadline(wdt)
  <2>1. /\ current \in Tasks /\ status[current] = "RUNNING"
        /\ schedule(rq, runq, st, u, w)
      BY <1>0, <1>4 DEF SyscallPark, scheduler_on_park, cas_task_state, TypeOK
  <2>2. u = [Registers EXCEPT ![current].ret = "ok"]
      BY <1>0, <2>1, SavedRegisters, ReturnedRegisters
  <2>3. u \in [Tasks -> Context]
      BY <1>0, <2>1 DEF TypeOK, Returned, Context
  <2> HIDE DEF st, u, w
  <2>4. /\ runq # <<>> => RR!Dispatch(runq, st)
        /\ runq = <<>> => runq' = runq /\ status' = st
        /\ Registers' = u
      BY <1>0, <2>1, <2>3, ScheduleRefines
  <2>5. RR!Park(current)
      BY <2>1, <2>2, <2>4 DEF RR!Park, st
  <2> QED BY <2>1, <2>5 DEF RR!Next
<1>5. CASE SyscallDrop /\ current = NULL
  <2> DEFINE w == scheduler_cancel_deadline(wdt)
  <2>1. schedule(rq, runq, status, uctx, w) /\ uctx \in [Tasks -> Context]
      BY <1>0, <1>5 DEF SyscallDrop, scheduler_on_drop, TypeOK
  <2> HIDE DEF w
  <2>2. /\ runq # <<>> => RR!Dispatch(runq, status)
        /\ runq = <<>> => runq' = runq /\ status' = status
        /\ Registers' = uctx
      BY <1>0, <2>1, ScheduleRefines
  <2>3. uctx = Registers
      BY <1>0, <1>5, NullAssumption DEF TypeOK, Registers
  <2>4. \A t \in Tasks : status[t] # "RUNNING"
      BY <1>0, <1>5, NullAssumption DEF Agrees
  <2>5. CASE runq = <<>>
      BY <2>2, <2>3, <2>5 DEF RR!vars
  <2>6. CASE runq # <<>>
      BY <2>2, <2>3, <2>4, <2>6 DEF RR!Start, RR!Next
  <2> QED BY <2>5, <2>6
<1>6. CASE SyscallDrop /\ current # NULL
  <2>1. /\ current \in Tasks /\ status[current] = "RUNNING" /\ current' = NULL
        /\ status' = [status EXCEPT ![current] = "DEAD"]
        /\ UNCHANGED <<uctx, runq>>
      BY <1>0, <1>6 DEF SyscallDrop, scheduler_on_drop, release_task,
            cas_task_state, TypeOK
  <2>2. Registers' = [Registers EXCEPT ![current] = uctx[current]]
      BY <1>0, <2>1, NullAssumption DEF TypeOK, Registers
  <2>3. uctx[current] \in Context
      BY <1>0, <2>1 DEF TypeOK
  <2>4. RR!Finish(current)
      BY <2>1, <2>2, <2>3 DEF RR!Finish
  <2> QED BY <2>1, <2>4 DEF RR!Next
<1>7. CASE SyscallLog \/ SyscallInvalid
  <2>1. PICK r \in {"ok", "einval"} :
            /\ cpu = "kernel" /\ trap \in {"log", "bad"} /\ regs' = Returned(r)
            /\ UNCHANGED <<current, status, uctx, runq>>
      BY <1>7 DEF SyscallLog, SyscallInvalid, Handles, Resume
  <2>2. current \in Tasks /\ status[current] = "RUNNING"
      BY <1>0, <2>1 DEF ModeInv, TypeOK, Agrees
  <2>3. Registers' = [Registers EXCEPT ![current] = Returned(r)]
      BY <2>1, <2>2 DEF Registers
  <2>4. RR!Return(current, r)
      BY <1>0, <2>1, <2>2, <2>3, ReturnedRegisters DEF RR!Return
  <2> QED BY <2>2, <2>4 DEF RR!Next
<1>8. CASE common_exception_handler
    BY <1>8 DEF common_exception_handler, RR!vars, Registers
<1> QED BY <1>2, <1>3, <1>4, <1>5, <1>6, <1>7, <1>8 DEF Handler

\* The remaining steps: the boot, the running program and the clock.
LEMMA OtherRefines ==
    ASSUME Inv, Boot \/ User \/ WdtInterrupt \/ Tick \/ Reset
    PROVE  [RR!Next]_(RR!vars)
PROOF
<1>0. TypeOK /\ ModeInv /\ Agrees(status, runq, current)
    BY AgreesDef DEF Inv
<1>1. ASSUME NEW t \in Tasks, create_task(t) PROVE RR!Next
  <2>1. Registers' = [Registers EXCEPT ![t] = FreshContext]
      BY <1>0, <1>1, NullAssumption DEF create_task, ModeInv, Registers, TypeOK
  <2>2. RR!Create(t)
      BY <1>1, <2>1 DEF create_task, RR!Create
  <2> QED BY <2>2 DEF RR!Next
<1>2. ASSUME NEW t \in Tasks, scheduler_ready_task(t) PROVE RR!Next
  <2>1. RR!Ready(t)
      BY <1>2 DEF scheduler_ready_task, cas_task_state, RR!Ready, Registers
  <2> QED BY <2>1 DEF RR!Next
<1>3. CASE BootFail \/ scheduler_drop_current \/ Syscall \/ Fault \/ WdtInterrupt \/ Tick
    BY <1>3 DEF BootFail, scheduler_drop_current, Syscall, Fault, WdtInterrupt,
          Tick, Enter, RR!vars, Registers
<1>4. CASE Compute
  <2>1. /\ current \in Tasks /\ status[current] = "RUNNING"
        /\ regs' \in Context /\ regs'.ret = "arg"
      BY <1>0, <1>4 DEF Compute, UserRuns, ModeInv, TypeOK, Agrees, Context
  <2>2. Registers' = [Registers EXCEPT ![current] = regs']
      BY <1>4, <2>1 DEF Compute, Registers
  <2>3. RR!Compute(current)
      BY <1>4, <2>1, <2>2 DEF Compute, RR!Compute
  <2> QED BY <2>1, <2>3 DEF RR!Next
<1>5. CASE WriteUctx
  <2>1. Registers' = Registers
      BY <1>0, <1>5 DEF WriteUctx, Registers, TypeOK
  <2> QED BY <1>5, <2>1 DEF WriteUctx, RR!vars
<1>6. CASE Reset
  <2>1. Registers' = [t \in Tasks |-> FreshContext]
      BY <1>6, NullAssumption DEF Reset, Registers
  <2>2. RR!Restart
      BY <1>6, <2>1 DEF Reset, RR!Restart
  <2> QED BY <2>2 DEF RR!Next
<1> QED BY <1>1, <1>2, <1>3, <1>4, <1>5, <1>6 DEF Boot, User

\* The scheduler with its links, frames and watchdog implements the
\* round-robin of RoundRobin: turns are taken in order, and a task's
\* registers are changed by its own steps only.
THEOREM RefinementTheorem == Spec => TakesTurns
PROOF
<1>1. Init => RR!Init
    BY NullAssumption DEF Init, RR!Init, Registers
<1>2. Inv /\ [Next]_vars => [RR!Next]_(RR!vars)
  <2> SUFFICES ASSUME Inv, [Next]_vars PROVE [RR!Next]_(RR!vars)
      OBVIOUS
  <2>1. CASE Next
      BY <2>1, HandlerRefines, OtherRefines DEF Next
  <2>2. CASE UNCHANGED vars
      BY <2>2 DEF vars, RR!vars, Registers
  <2> QED BY <2>1, <2>2
<1> QED BY Invariance, <1>1, <1>2, PTL DEF Spec, TakesTurns, RR!Spec

=============================================================================
