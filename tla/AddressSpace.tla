---------------------------- MODULE AddressSpace ----------------------------
(***************************************************************************)
(* The memory of the tasks: the page allocator (mem/umem.c), the loading   *)
(* of an application's pages (task/loader.c, create_task), the hardware    *)
(* page tables and their LRU cache of pids (drivers/dport.c,               *)
(* drivers/pid.c).                                                         *)
(*                                                                         *)
(* The hardware holds one table for code and one for data.  An entry       *)
(* belongs to a physical page and names the virtual page it appears at     *)
(* and who may use it: 0 nobody, 1 every pid, n only pid n.  A task runs   *)
(* under one of NBindings pids, so with more tasks than pids a task's      *)
(* entries are unloaded and loaded again.                                  *)
(***************************************************************************)
EXTENDS Integers

CONSTANTS
    Spaces,         \* the mmu_t of each task
    NULL,
    NPages,         \* MAX_PAGE_COUNT: pages of each kind
    NBindings,      \* PID_BINDING_COUNT
    MaxStamp        \* bound on next_stamp (a uint64_t in the code)

ASSUME SpaceAssumption == NULL \notin Spaces /\ NULL \notin Int

ASSUME SizeAssumption ==
    NPages \in Nat \ {0, 1} /\ NBindings \in Nat \ {0} /\ MaxStamp \in Nat

Kinds == {"code", "data"}
Pages == 0 .. NPages - 1
Bindings == 0 .. NBindings - 1

\* The last page of each kind: the vdso for code, the ucontext for data.
VDSO_PAGE_INDEX == NPages - 1
UCTX_PAGE_INDEX == NPages - 1

VARIABLES
    phase,          \* "boot" while the initrd is loaded, "run", "halt"
    load,           \* the locals of loader_load_app, NULL outside of it
    free,           \* m_code_pages, m_data_pages
    entries,        \* mmu_t: immu and dmmu, virtual page to physical page
    table,          \* DPORT_IMMU_TABLE and DPORT_DMMU_TABLE
    bound_space,    \* pid_bindings[b].bound_space
    stamp,          \* pid_bindings[b].primary_stamp
    binding,        \* mmu_t.binding
    next_stamp, primary,    \* per_cpu_context: next_stamp, primary_binding
    pid_new,        \* PIDCTRL_PID_NEW_REG: the pid of the next exit to user mode
    age             \* history: 1 for the space dispatched last, more the longer ago, 0 never

bindingVars == <<bound_space, stamp, binding, next_stamp, primary, pid_new, age>>

vars == <<phase, load, free, entries, table, bindingVars>>

Pid_off_by_one(b) == b + 3

\* pid_bindings[b].pid, set by init_pid.
Pid(b) == b + 2

-----------------------------------------------------------------------------
(* Boot. *)

\* m_code_pages, m_data_pages as they are linked.
AllFree == [k \in Kinds |-> IF k = "code" THEN Pages \ {VDSO_PAGE_INDEX} ELSE Pages]

NoEntries == [s \in Spaces |-> [k \in Kinds |-> [v \in Pages |-> NULL]]]

\* The tables come out of reset closed; init_mmu opens the vdso.
VdsoOnly ==
    [k \in Kinds |-> [p \in Pages |->
        [address |-> p, rights |-> IF k = "code" /\ p = VDSO_PAGE_INDEX THEN 1 ELSE 0]]]

\* After init_mmu and init_pid.
Init ==
    /\ phase = "boot"
    /\ load = NULL
    /\ free = AllFree
    /\ entries = NoEntries
    /\ table = VdsoOnly
    /\ bound_space = [b \in Bindings |-> NULL]
    /\ stamp = [b \in Bindings |-> 0]
    /\ binding = [s \in Spaces |-> NULL]
    /\ next_stamp = 0
    /\ primary = NULL
    /\ pid_new = 0
    /\ age = [s \in Spaces |-> 0]

\* umem_alloc_code_page, umem_alloc_data_page: __builtin_ffs of the free pages.
umem_alloc_page(k) == CHOOSE p \in free[k] : \A o \in free[k] : p <= o

pid_binding_is_primary(b) == b # NULL /\ primary = b

MapPage_leaves_it_free(s, k, virt, p) ==
    /\ entries' = [entries EXCEPT ![s][k][virt] = p]
    /\ UNCHANGED <<free, table>>

\* Maps virt to the physical page p and takes p off the free pages.
\* The update of the hardware goes to the code table whatever the kind.
MapPage(s, k, virt, p) ==
    /\ free' = [free EXCEPT ![k] = @ \ {p}]
    /\ entries' = [entries EXCEPT ![s][k][virt] = p]
    /\ table' = IF pid_binding_is_primary(binding[s])
                THEN [table EXCEPT !["code"][p] =
                          [address |-> virt, rights |-> Pid(binding[s])]]
                ELSE table

\* The checks of the header: nothing is allocated yet.
RejectHeader ==
    /\ phase = "boot" /\ load = NULL
    /\ phase' = "halt"
    /\ UNCHANGED <<load, free, entries, table, bindingVars>>

\* The ucontext is the first page of a task.  An accepted header has code.
create_task(s) ==
    /\ phase = "boot" /\ load = NULL
    /\ entries[s]["data"][UCTX_PAGE_INDEX] = NULL
    /\ free["data"] # {}
    /\ \E c \in 1..NPages, d \in 0..NPages :
           load' = [space |-> s, done |-> [k \in Kinds |-> 0],
                    size |-> [k \in Kinds |-> IF k = "code" THEN c ELSE d]]
    /\ MapPage(s, "data", UCTX_PAGE_INDEX, umem_alloc_page("data"))
    /\ UNCHANGED <<phase, bindingVars>>

create_task_fails ==
    /\ phase = "boot" /\ load = NULL
    /\ free["data"] = {}
    /\ phase' = "halt"
    /\ UNCHANGED <<load, free, entries, table, bindingVars>>

\* CHECK(code_pages < MAX_PAGE_COUNT), CHECK(data_pages < MAX_PAGE_COUNT)
SizesFit == \A k \in Kinds : load.size[k] < NPages

\* The loops over the code pages and then over the data pages.
Loads(k) ==
    /\ phase = "boot" /\ load # NULL
    /\ load.done[k] < load.size[k]
    /\ k = "data" => load.done["code"] = load.size["code"]

LoadPage(k) ==
    /\ Loads(k) /\ SizesFit
    /\ free[k] # {}
    /\ MapPage(load.space, k, load.done[k], umem_alloc_page(k))
    /\ load' = [load EXCEPT !.done[k] = @ + 1]
    /\ UNCHANGED <<phase, bindingVars>>

\* A failed check or no free page: the pages are freed, but not the ucontext,
\* and release_task hangs.
LoadFails ==
    /\ phase = "boot" /\ load # NULL
    /\ ~SizesFit \/ \E k \in Kinds : Loads(k) /\ free[k] = {}
    /\ free' = [k \in Kinds |->
                   free[k] \cup {entries[load.space][k][v] : v \in 0 .. load.done[k] - 1}]
    /\ phase' = "halt"
    /\ UNCHANGED <<load, entries, table, bindingVars>>

LoadDone_too_early ==
    /\ phase = "boot" /\ load # NULL /\ SizesFit
    /\ load' = NULL
    /\ UNCHANGED <<phase, free, entries, table, bindingVars>>

\* scheduler_ready_task, and the next entry of the initrd.
LoadDone ==
    /\ phase = "boot" /\ load # NULL /\ SizesFit
    /\ load.done = load.size
    /\ load' = NULL
    /\ UNCHANGED <<phase, free, entries, table, bindingVars>>

scheduler_drop_current ==
    /\ phase = "boot" /\ load = NULL
    /\ phase' = "run"
    /\ UNCHANGED <<load, free, entries, table, bindingVars>>

-----------------------------------------------------------------------------
(* The dispatch of a task: restore_task_context and pid_prepare. *)

mmu_unload(tab, pid) ==
    [k \in Kinds |-> [p \in Pages |->
        IF tab[k][p].rights = pid THEN [tab[k][p] EXCEPT !.rights = 0] ELSE tab[k][p]]]

mmu_load_from_one(tab, s, pid) ==
    [k \in Kinds |-> [p \in Pages |->
        LET at == {v \in Pages \ {0} : entries[s][k][v] = p}
        IN  IF at = {} THEN tab[k][p]
            ELSE [address |-> CHOOSE v \in at : \A w \in at : w <= v, rights |-> pid]]]

\* The loop runs upwards: of two virtual pages with one physical page the
\* last one stays.
mmu_load(tab, s, pid) ==
    [k \in Kinds |-> [p \in Pages |->
        LET at == {v \in Pages : entries[s][k][v] = p}
        IN  IF at = {} THEN tab[k][p]
            ELSE [address |-> CHOOSE v \in at : \A w \in at : w <= v, rights |-> pid]]]

\* The loop of mmu_activate keeps the first of the smallest stamps.
lru_pid ==
    CHOOSE b \in Bindings :
        \A c \in Bindings : stamp[b] < stamp[c] \/ (stamp[b] = stamp[c] /\ b <= c)

MakePrimary(b) ==
    /\ stamp' = [stamp EXCEPT ![b] = next_stamp]
    /\ next_stamp' = next_stamp + 1
    /\ primary' = b

pid_binding_rebind_not_primary(b) ==
    /\ stamp' = [stamp EXCEPT ![b] = next_stamp]
    /\ next_stamp' = next_stamp + 1
    /\ UNCHANGED <<primary, bound_space, binding, table>>

pid_binding_rebind_unstamped(b) ==
    /\ primary' = b
    /\ UNCHANGED <<stamp, next_stamp, bound_space, binding, table>>

pid_binding_rebind(b) ==
    /\ MakePrimary(b)
    /\ UNCHANGED <<bound_space, binding, table>>

pid_binding_bind_keeps_old(b, s) ==
    /\ bound_space' = [bound_space EXCEPT ![b] = s]
    /\ binding' = [binding EXCEPT ![s] = b]
    /\ table' = mmu_load(table, s, Pid(b))
    /\ MakePrimary(b)

\* mmu_unload goes by the pid of the old space's binding field.
pid_binding_bind(b, s) ==
    LET old == bound_space[b]
        unloaded == IF old = NULL THEN table ELSE mmu_unload(table, Pid(binding[old]))
    IN  /\ bound_space' = [bound_space EXCEPT ![b] = s]
        /\ binding' = [binding EXCEPT ![s] = b]
        /\ table' = mmu_load(unloaded, s, Pid(b))
        /\ MakePrimary(b)

mmu_activate(s) ==
    \/ \E b \in Bindings :
           /\ bound_space[b] = s
           /\ ~pid_binding_is_primary(b)
           /\ pid_binding_rebind(b)
    \/ \E b \in Bindings :
           /\ bound_space[b] = s
           /\ pid_binding_is_primary(b)
           /\ UNCHANGED <<bound_space, stamp, binding, next_stamp, primary, table>>
    \/ /\ \A b \in Bindings : bound_space[b] # s
       /\ pid_binding_bind(lru_pid, s)

\* s becomes the youngest; who was younger grows older.
Aged(s) ==
    [t \in Spaces |-> IF t = s THEN 1
                      ELSE IF age[t] # 0 /\ (age[s] = 0 \/ age[t] < age[s]) THEN age[t] + 1
                      ELSE age[t]]

\* execute: mmu_activate, then pid_prepare.  Any loaded task may be next.
Dispatch(s) ==
    /\ phase = "run"
    /\ entries[s]["data"][UCTX_PAGE_INDEX] # NULL
    /\ next_stamp < MaxStamp
    /\ mmu_activate(s)
    /\ pid_new' = Pid(primary')
    /\ age' = Aged(s)
    /\ UNCHANGED <<phase, load, free, entries>>

-----------------------------------------------------------------------------
Next ==
    \/ RejectHeader \/ create_task_fails \/ LoadFails \/ LoadDone
    \/ scheduler_drop_current
    \/ \E s \in Spaces : create_task(s) \/ Dispatch(s)
    \/ \E k \in Kinds : LoadPage(k)

Spec == Init /\ [][Next]_vars

-----------------------------------------------------------------------------
(* Properties. *)

\* The variables have the types of the C declarations.
TypeOK ==
    /\ phase \in {"boot", "run", "halt"}
    /\ load \in {NULL} \cup [space : Spaces, done : [Kinds -> 0..NPages],
                             size : [Kinds -> 0..NPages]]
    /\ free \in [Kinds -> SUBSET Pages]
    /\ entries \in [Spaces -> [Kinds -> [Pages -> Pages \cup {NULL}]]]
    /\ table \in [Kinds -> [Pages -> [address : Pages, rights : 0..NBindings + 1]]]
    /\ bound_space \in [Bindings -> Spaces \cup {NULL}]
    /\ stamp \in [Bindings -> Nat]
    /\ binding \in [Spaces -> Bindings \cup {NULL}]
    /\ next_stamp \in Nat
    /\ primary \in Bindings \cup {NULL}
    /\ pid_new \in 0..NBindings + 1
    /\ age \in [Spaces -> Nat]

\* The physical pages a program that runs under pid reaches at virt.
Reaches(pid, k, virt) ==
    {p \in Pages : table[k][p].address = virt /\ table[k][p].rights \in {1, pid}}

\* What it should reach there: the vdso, and what the mmu_t of the space says.
Mapped(s, k, virt) ==
    IF k = "code" /\ virt = VDSO_PAGE_INDEX THEN {VDSO_PAGE_INDEX}
    ELSE IF s = NULL THEN {}
    ELSE {entries[s][k][virt]} \ {NULL}

\* Isolation: under the pid of a binding a program reaches exactly the pages
\* of the space bound to it and the vdso, each at its own address, however
\* often spaces were evicted and loaded again.
HardwareAgrees ==
    \A b \in Bindings, k \in Kinds, v \in Pages :
        Reaches(Pid(b), k, v) = Mapped(bound_space[b], k, v)

\* A physical page is mapped at one place in one space, and then it is not
\* free; the vdso is never given to anyone.
PagesOwnedOnce ==
    phase # "halt" =>
        \A k \in Kinds, s, t \in Spaces, v, w \in Pages :
            entries[s][k][v] # NULL =>
                /\ entries[s][k][v] \notin free[k]
                /\ k = "code" => entries[s][k][v] # VDSO_PAGE_INDEX
                /\ entries[s][k][v] = entries[t][k][w] => s = t /\ v = w

\* The next exit to user mode enters the pid of the task that was dispatched
\* last: the primary binding is bound to it, and it to that binding.
RunsUnderItsPid ==
    \A s \in Spaces : age[s] = 1 =>
        /\ primary # NULL /\ pid_new = Pid(primary)
        /\ bound_space[primary] = s
        /\ binding[s] = primary

\* mmu_activate evicts the space that was dispatched the longest ago among
\* those that are bound.
EvictsLeastRecent ==
    [][\A b, c \in Bindings :
          /\ bound_space[b] # NULL /\ bound_space'[b] # bound_space[b]
          /\ bound_space[c] # NULL
          => age[bound_space[c]] <= age[bound_space[b]]]_vars

=============================================================================
