---------------------------- MODULE KernelProofs ----------------------------
(***************************************************************************)
(* Proofs about AddressSpace and about Kernel, which extends it, for any   *)
(* number of tasks, pages and pids.                                        *)
(*                                                                         *)
(* SInv is the inductive invariant of the address spaces.  Its heart is    *)
(* TableInv: an entry of the hardware carries the pid of a binding exactly *)
(* when the space bound there maps that page, at that address.  A load of  *)
(* the table writes over whatever was there, so TableInv rests on the      *)
(* ownership of pages (OwnInv), and the unload goes by the space's own     *)
(* binding field, so it rests on BindInv too.  The eviction order rests on *)
(* AgeInv and LruInv.                                                      *)
(*                                                                         *)
(* KInv joins SInv with what the scheduler promises about who is current:  *)
(* CurrentInv ties current_task to the space that was dispatched last, and *)
(* LoadedInv ties the statuses to the pages.                               *)
(***************************************************************************)
EXTENDS Kernel, LeastElement, Sequences

\* Until the scheduler starts no space is bound, and then nothing is loaded.
BootInv ==
    /\ phase # "run" =>
           /\ \A b \in Bindings : bound_space[b] = NULL
           /\ \A s \in Spaces : binding[s] = NULL /\ age[s] = 0
           /\ primary = NULL
    /\ phase = "run" => load = NULL

\* The pages the loops have allocated are mapped; the vdso's address is not.
LoadInv ==
    /\ load # NULL =>
           \A k \in Kinds : \A v \in 0 .. load.done[k] - 1 : entries[load.space][k][v] # NULL
    /\ \A s \in Spaces : entries[s]["code"][VDSO_PAGE_INDEX] = NULL

\* A physical page has one place in one space, also after a load that failed.
OwnInv ==
    /\ \A k \in Kinds, s, t \in Spaces, v, w \in Pages :
           entries[s][k][v] # NULL /\ entries[s][k][v] = entries[t][k][w] => s = t /\ v = w
    /\ \A s \in Spaces, v \in Pages : entries[s]["code"][v] # VDSO_PAGE_INDEX
    /\ VDSO_PAGE_INDEX \notin free["code"]
    /\ phase # "halt" =>
           \A k \in Kinds, s \in Spaces, v \in Pages : entries[s][k][v] \notin free[k]

\* A space is bound at the one binding its mmu_t names.
BindInv ==
    \A b \in Bindings : bound_space[b] # NULL => binding[bound_space[b]] = b

\* The entry of page p says that the space bound to b has p at v.
Granted(b, k, p, v) == table[k][p].rights = Pid(b) /\ table[k][p].address = v

\* The mmu_t of the space bound to b says so.
Holds(b, k, p, v) == bound_space[b] # NULL /\ entries[bound_space[b]][k][v] = p

TableInv ==
    /\ table["code"][VDSO_PAGE_INDEX] = [address |-> VDSO_PAGE_INDEX, rights |-> 1]
    /\ \A k \in Kinds, p \in Pages :
           table[k][p].rights = 1 => k = "code" /\ p = VDSO_PAGE_INDEX
    /\ \A b \in Bindings, k \in Kinds, p, v \in Pages : Granted(b, k, p, v) <=> Holds(b, k, p, v)

\* The primary binding is that of the space dispatched last.
PrimaryInv ==
    /\ \A s \in Spaces : age[s] = 1 =>
           /\ primary # NULL /\ pid_new = Pid(primary)
           /\ bound_space[primary] = s
    /\ primary # NULL => bound_space[primary] # NULL /\ age[bound_space[primary]] = 1

\* No two spaces were dispatched at the same time.
AgeInv == \A s, t \in Spaces : age[s] # 0 /\ age[s] = age[t] => s = t

\* Stamps order the bound spaces as the dispatches did.
LruInv ==
    /\ \A b \in Bindings : bound_space[b] # NULL =>
           stamp[b] < next_stamp /\ age[bound_space[b]] # 0
    /\ \A b, c \in Bindings : bound_space[b] # NULL /\ bound_space[c] # NULL /\ b # c =>
           \/ stamp[b] < stamp[c] /\ age[bound_space[c]] < age[bound_space[b]]
           \/ stamp[c] < stamp[b] /\ age[bound_space[b]] < age[bound_space[c]]

SInv ==
    /\ TypeOK /\ BootInv /\ LoadInv /\ OwnInv /\ BindInv /\ TableInv /\ PrimaryInv
    /\ AgeInv /\ LruInv

-----------------------------------------------------------------------------
(* The operators. *)

\* Page numbers and bindings are naturals, the vdso's page is one of them.
LEMMA Ranges ==
    /\ Pages \subseteq Nat /\ Bindings \subseteq Nat
    /\ VDSO_PAGE_INDEX \in Pages /\ UCTX_PAGE_INDEX \in Pages
    /\ 0 \in Pages /\ VDSO_PAGE_INDEX # 0
    /\ Bindings # {}
    /\ NULL \notin Pages /\ NULL \notin Bindings /\ NULL \notin Spaces
    /\ \A b \in Bindings : Pid(b) \in 2 .. NBindings + 1
    /\ \A b, c \in Bindings : Pid(b) = Pid(c) => b = c
PROOF
    BY SizeAssumption, SpaceAssumption DEF Pages, Bindings, VDSO_PAGE_INDEX, UCTX_PAGE_INDEX, Pid

\* umem_alloc_code_page, umem_alloc_data_page: the first free page is free.
LEMMA AllocLemma ==
    ASSUME NEW k \in Kinds, free \in [Kinds -> SUBSET Pages], free[k] # {}
    PROVE  umem_alloc_page(k) \in free[k]
PROOF
<1>1. free[k] \in SUBSET Nat
    BY Ranges
<1>2. \E p \in free[k] : \A o \in free[k] : p <= o
    BY <1>1, NatMin
<1> QED
    BY <1>2 DEF umem_alloc_page

\* The loop of mmu_activate ends with a binding that has the smallest stamp.
LEMMA LruLemma ==
    ASSUME stamp \in [Bindings -> Nat]
    PROVE  lru_pid \in Bindings /\ \A c \in Bindings : stamp[lru_pid] <= stamp[c]
PROOF
<1> DEFINE S == {stamp[b] : b \in Bindings}
<1>1. PICK m \in S : \A n \in S : m <= n
    <2>1. S \in SUBSET Nat /\ S # {}
        <3>1. PICK b \in Bindings : TRUE
            BY Ranges
        <3>2. stamp[b] \in S
            BY <3>1
        <3> QED
            BY <3>2
    <2> HIDE DEF S
    <2> QED
        BY <2>1, NatMin
<1> DEFINE B == {b \in Bindings : stamp[b] = m}
<1>2. PICK b \in B : \A c \in B : b <= c
    <2>1. B \in SUBSET Nat /\ B # {}
        BY <1>1, Ranges
    <2> HIDE DEF B
    <2> QED
        BY <2>1, NatMin
<1>3. ASSUME NEW c \in Bindings
      PROVE  stamp[b] < stamp[c] \/ (stamp[b] = stamp[c] /\ b <= c)
    <2>1. m <= stamp[c] /\ stamp[b] = m /\ m \in Nat /\ stamp[c] \in Nat
        BY <1>1, <1>2, <1>3
    <2>2. CASE stamp[c] = m
        BY <1>2, <2>1, <2>2
    <2> QED
        BY <2>1, <2>2
<1> DEFINE Least(x) == \A c \in Bindings : stamp[x] < stamp[c] \/ (stamp[x] = stamp[c] /\ x <= c)
<1>4. b \in Bindings /\ Least(b)
    BY <1>3
<1>5. lru_pid = CHOOSE x \in Bindings : Least(x)
    BY DEF lru_pid
<1>6. lru_pid \in Bindings /\ Least(lru_pid)
    BY <1>4, <1>5
<1> QED
    BY <1>6

-----------------------------------------------------------------------------
(* The boot. *)

\* create_task and the loops of the loader map a free page at an address that
\* is not the vdso's.
LEMMA MapLemma ==
    ASSUME SInv, phase = "boot", NEW s \in Spaces, NEW k \in Kinds, NEW virt \in Pages,
           free[k] # {}, k = "code" => virt # VDSO_PAGE_INDEX,
           MapPage(s, k, virt, umem_alloc_page(k)), phase' = phase
    PROVE  /\ UNCHANGED table
           /\ free' \in [Kinds -> SUBSET Pages]
           /\ entries' \in [Spaces -> [Kinds -> [Pages -> Pages \cup {NULL}]]]
           /\ entries'[s][k][virt] # NULL
           /\ \A t \in Spaces, l \in Kinds, v \in Pages :
                  t # s \/ l # k \/ v # virt => entries'[t][l][v] = entries[t][l][v]
           /\ OwnInv'
           /\ \A t \in Spaces : entries'[t]["code"][VDSO_PAGE_INDEX] = NULL
PROOF
<1> DEFINE p == umem_alloc_page(k)
<1>1. p \in free[k] /\ p \in Pages /\ p # NULL
    BY AllocLemma, Ranges DEF SInv, TypeOK
<1>2. /\ free' = [free EXCEPT ![k] = @ \ {p}]
      /\ entries' = [entries EXCEPT ![s][k][virt] = p]
      /\ UNCHANGED table
    BY DEF MapPage, pid_binding_is_primary, SInv, BootInv
<1> HIDE DEF p
<1>3. /\ free' \in [Kinds -> SUBSET Pages]
      /\ free'[k] = free[k] \ {p}
      /\ \A l \in Kinds : free'[l] \subseteq free[l]
    BY <1>2 DEF SInv, TypeOK
<1>4. /\ entries' \in [Spaces -> [Kinds -> [Pages -> Pages \cup {NULL}]]]
      /\ entries'[s][k][virt] = p
      /\ \A t \in Spaces, l \in Kinds, v \in Pages :
             t # s \/ l # k \/ v # virt => entries'[t][l][v] = entries[t][l][v]
    BY <1>1, <1>2 DEF SInv, TypeOK
<1>5. OwnInv'
    <2>1. \A t \in Spaces, v \in Pages : entries[t][k][v] # p
        BY <1>1 DEF SInv, OwnInv
    <2>2. ASSUME NEW l \in Kinds, NEW t \in Spaces, NEW u \in Spaces, NEW v \in Pages,
                 NEW w \in Pages, entries'[t][l][v] # NULL, entries'[t][l][v] = entries'[u][l][w]
          PROVE  t = u /\ v = w
        <3>1. CASE t = s /\ l = k /\ v = virt
            <4>1. entries'[u][k][w] = p
                BY <1>4, <2>2, <3>1
            <4>2. ASSUME u # s \/ w # virt PROVE FALSE
                <5>1. entries'[u][k][w] = entries[u][k][w]
                    BY <1>4, <4>2
                <5>2. entries[u][k][w] # p
                    BY <2>1
                <5> QED
                    BY <4>1, <5>1, <5>2
            <4> QED
                BY <3>1, <4>2
        <3>2. CASE u = s /\ l = k /\ w = virt
            <4>1. entries'[t][k][v] = p
                BY <1>4, <2>2, <3>2
            <4>2. ASSUME t # s \/ v # virt PROVE FALSE
                <5>1. entries'[t][k][v] = entries[t][k][v]
                    BY <1>4, <4>2
                <5>2. entries[t][k][v] # p
                    BY <2>1
                <5> QED
                    BY <4>1, <5>1, <5>2
            <4> QED
                BY <3>2, <4>2
        <3>3. CASE ~(t = s /\ l = k /\ v = virt) /\ ~(u = s /\ l = k /\ w = virt)
            <4>1. entries'[t][l][v] = entries[t][l][v] /\ entries'[u][l][w] = entries[u][l][w]
                BY <1>4, <3>3
            <4>2. entries[t][l][v] # NULL /\ entries[t][l][v] = entries[u][l][w]
                BY <2>2, <4>1
            <4>3. OwnInv
                BY DEF SInv
            <4> QED
                BY <4>2, <4>3 DEF OwnInv
        <3> QED
            BY <3>1, <3>2, <3>3
    <2>3. ASSUME NEW t \in Spaces, NEW v \in Pages
          PROVE  entries'[t]["code"][v] # VDSO_PAGE_INDEX
        <3>1. k = "code" => p # VDSO_PAGE_INDEX
            BY <1>1 DEF SInv, OwnInv
        <3>2. "code" \in Kinds /\ entries[t]["code"][v] # VDSO_PAGE_INDEX
            BY DEF SInv, OwnInv, Kinds
        <3>3. CASE t = s /\ k = "code" /\ v = virt
            BY <1>4, <3>1, <3>2, <3>3
        <3>4. CASE ~(t = s /\ k = "code" /\ v = virt)
            <4>1. entries'[t]["code"][v] = entries[t]["code"][v]
                BY <1>4, <3>2, <3>4
            <4> QED
                BY <3>2, <4>1
        <3> QED
            BY <3>3, <3>4
    <2>4. VDSO_PAGE_INDEX \notin free'["code"]
        BY <1>3 DEF SInv, OwnInv, Kinds
    <2>5. ASSUME NEW l \in Kinds, NEW t \in Spaces, NEW v \in Pages
          PROVE  entries'[t][l][v] \notin free'[l]
        <3>1. CASE t = s /\ l = k /\ v = virt
            BY <1>3, <1>4, <3>1
        <3>2. CASE ~(t = s /\ l = k /\ v = virt)
            <4>1. entries'[t][l][v] = entries[t][l][v] /\ entries[t][l][v] \notin free[l]
                BY <1>4, <3>2 DEF SInv, OwnInv
            <4> QED
                BY <1>3, <4>1
        <3> QED
            BY <3>1, <3>2
    <2> QED
        BY <2>2, <2>3, <2>4, <2>5 DEF OwnInv, VDSO_PAGE_INDEX
<1>6. \A t \in Spaces : entries'[t]["code"][VDSO_PAGE_INDEX] = NULL
    BY <1>4, Ranges DEF SInv, LoadInv, Kinds
<1> QED
    BY <1>1, <1>2, <1>3, <1>4, <1>5, <1>6

\* Out of reset everything is closed and free.
LEMMA InitSInv == Init => SInv
PROOF
<1> SUFFICES ASSUME Init PROVE SInv
    OBVIOUS
<1>1. TypeOK
    <2>1. load \in {NULL} \cup [space : Spaces, done : [Kinds -> 0..NPages], size : [Kinds -> 0..NPages]]
        BY DEF Init
    <2>2. free \in [Kinds -> SUBSET Pages] /\ entries \in [Spaces -> [Kinds -> [Pages -> Pages \cup {NULL}]]]
        BY DEF Init, AllFree, NoEntries
    <2>3. table \in [Kinds -> [Pages -> [address : Pages, rights : 0..NBindings + 1]]]
        <3>1. {0, 1} \subseteq 0 .. NBindings + 1
            BY SizeAssumption
        <3> QED
            BY <3>1 DEF Init, VdsoOnly
    <2> QED
        BY <2>1, <2>2, <2>3, SizeAssumption DEF Init, TypeOK
<1>2. /\ \A s \in Spaces, k \in Kinds, v \in Pages : entries[s][k][v] = NULL
      /\ "code" \in Kinds /\ "data" \in Kinds
    BY DEF Init, NoEntries, Kinds
<1>3. BootInv /\ BindInv /\ PrimaryInv /\ AgeInv /\ LruInv
    BY Ranges DEF Init, BootInv, BindInv, PrimaryInv, AgeInv, LruInv
<1>4. LoadInv
    BY <1>2, Ranges DEF Init, LoadInv
<1>5. OwnInv
    <2>1. free = AllFree
        BY DEF Init
    <2>2. VDSO_PAGE_INDEX \notin free["code"] /\ \A k \in Kinds : NULL \notin free[k]
        BY <1>2, <2>1, Ranges DEF AllFree
    <2> QED
        BY <1>2, <2>2, Ranges DEF OwnInv
<1>6. TableInv
    <2>1. \A k \in Kinds, p \in Pages :
              table[k][p] = [address |-> p,
                             rights |-> IF k = "code" /\ p = VDSO_PAGE_INDEX THEN 1 ELSE 0]
        BY DEF Init, VdsoOnly
    <2>2. \A b \in Bindings : bound_space[b] = NULL /\ Pid(b) # 0 /\ Pid(b) # 1
        BY Ranges DEF Init
    <2>3. table["code"][VDSO_PAGE_INDEX] = [address |-> VDSO_PAGE_INDEX, rights |-> 1]
        BY <1>2, <2>1, Ranges
    <2>4. ASSUME NEW k \in Kinds, NEW p \in Pages
          PROVE  /\ table[k][p].rights = 1 => k = "code" /\ p = VDSO_PAGE_INDEX
                 /\ \A b \in Bindings : table[k][p].rights # Pid(b)
        <3>1. table[k][p].rights = IF k = "code" /\ p = VDSO_PAGE_INDEX THEN 1 ELSE 0
            BY DEF Init, VdsoOnly
        <3>2. CASE k = "code" /\ p = VDSO_PAGE_INDEX
            BY <2>2, <3>1, <3>2
        <3>3. CASE ~(k = "code" /\ p = VDSO_PAGE_INDEX)
            BY <2>2, <3>1, <3>3
        <3> QED
            BY <3>2, <3>3
    <2> QED
        BY <2>2, <2>3, <2>4 DEF TableInv, Granted, Holds
<1> QED
    BY <1>1, <1>3, <1>4, <1>5, <1>6 DEF SInv

\* A step of the boot that leaves hardware and bindings alone keeps what is said
\* of them.
LEMMA BootKeeps ==
    ASSUME SInv, phase = "boot", phase' \in {"boot", "halt"} \/ load' = NULL,
           UNCHANGED <<table, bindingVars>>
    PROVE  BootInv' /\ BindInv' /\ TableInv' /\ PrimaryInv' /\ AgeInv' /\ LruInv'
PROOF
<1>1. UNCHANGED <<table, bound_space, stamp, binding, next_stamp, primary, pid_new, age>>
    BY DEF bindingVars
<1>2. /\ \A b \in Bindings : bound_space[b] = NULL
      /\ \A s \in Spaces : binding[s] = NULL /\ age[s] = 0
      /\ primary = NULL
    BY DEF SInv, BootInv
<1>3. BootInv'
    BY <1>1, <1>2 DEF BootInv
<1>4. TableInv'
    BY <1>1, <1>2 DEF SInv, TableInv, Granted, Holds, Pid, VDSO_PAGE_INDEX
<1> QED
    BY <1>1, <1>2, <1>3, <1>4 DEF SInv, BindInv, PrimaryInv, AgeInv, LruInv

\* The boot's checks that fail, and the end of the boot.
LEMMA QuietBootSInv ==
    ASSUME SInv, RejectHeader \/ create_task_fails \/ LoadDone \/ scheduler_drop_current
    PROVE  SInv'
PROOF
<1>1. /\ phase = "boot" /\ (phase' \in {"boot", "halt"} \/ load' = NULL)
      /\ phase' \in {"boot", "run", "halt"} /\ (load' = NULL \/ load' = load)
      /\ UNCHANGED <<free, entries, table, bindingVars>>
    BY DEF RejectHeader, create_task_fails, LoadDone, scheduler_drop_current
<1>2. TypeOK' /\ LoadInv' /\ OwnInv'
    BY <1>1 DEF SInv, TypeOK, LoadInv, OwnInv, bindingVars, VDSO_PAGE_INDEX
<1> QED
    BY <1>1, <1>2, BootKeeps DEF SInv

\* create_task takes the page of the ucontext.
LEMMA CreateSInv == ASSUME SInv, NEW s \in Spaces, create_task(s) PROVE SInv'
PROOF
<1>1. /\ phase = "boot" /\ phase' = phase /\ free["data"] # {}
      /\ MapPage(s, "data", UCTX_PAGE_INDEX, umem_alloc_page("data"))
      /\ UNCHANGED bindingVars
    BY DEF create_task
<1>2. "data" \in Kinds /\ UCTX_PAGE_INDEX \in Pages
    BY Ranges DEF Kinds
<1>3. /\ UNCHANGED table /\ OwnInv'
      /\ free' \in [Kinds -> SUBSET Pages]
      /\ entries' \in [Spaces -> [Kinds -> [Pages -> Pages \cup {NULL}]]]
      /\ \A t \in Spaces : entries'[t]["code"][VDSO_PAGE_INDEX] = NULL
    BY <1>1, <1>2, MapLemma
<1>4. PICK c \in 1..NPages, d \in 0..NPages :
          load' = [space |-> s, done |-> [k \in Kinds |-> 0],
                   size |-> [k \in Kinds |-> IF k = "code" THEN c ELSE d]]
    BY DEF create_task
<1>5. /\ load' \in [space : Spaces, done : [Kinds -> 0..NPages], size : [Kinds -> 0..NPages]]
      /\ \A k \in Kinds : load'.done[k] = 0
    BY <1>4, SizeAssumption
<1>6. TypeOK'
    BY <1>1, <1>3, <1>5 DEF SInv, TypeOK, bindingVars
<1>7. LoadInv'
    BY <1>3, <1>5 DEF LoadInv, VDSO_PAGE_INDEX
<1> QED
    BY <1>1, <1>3, <1>6, <1>7, BootKeeps DEF SInv

\* An iteration of the loops stays below the last page.
LEMMA LoadPageSInv == ASSUME SInv, NEW k \in Kinds, LoadPage(k) PROVE SInv'
PROOF
<1> DEFINE s == load.space
           virt == load.done[k]
<1>1. /\ phase = "boot" /\ phase' = phase /\ free[k] # {} /\ load # NULL
      /\ MapPage(s, k, virt, umem_alloc_page(k))
      /\ load' = [load EXCEPT !.done[k] = @ + 1]
      /\ UNCHANGED bindingVars
      /\ load.done[k] < load.size[k] /\ load.size[k] < NPages
    BY DEF LoadPage, Loads, SizesFit
<1>2. load \in [space : Spaces, done : [Kinds -> 0..NPages], size : [Kinds -> 0..NPages]]
    BY <1>1 DEF SInv, TypeOK
<1>3. s \in Spaces /\ virt \in Pages /\ virt # VDSO_PAGE_INDEX
    BY <1>1, <1>2, SizeAssumption DEF Pages, VDSO_PAGE_INDEX
<1>4. /\ UNCHANGED table /\ OwnInv'
      /\ free' \in [Kinds -> SUBSET Pages]
      /\ entries' \in [Spaces -> [Kinds -> [Pages -> Pages \cup {NULL}]]]
      /\ entries'[s][k][virt] # NULL
      /\ \A t \in Spaces, l \in Kinds, v \in Pages :
             t # s \/ l # k \/ v # virt => entries'[t][l][v] = entries[t][l][v]
      /\ \A t \in Spaces : entries'[t]["code"][VDSO_PAGE_INDEX] = NULL
    BY <1>1, <1>3, MapLemma
<1>5. /\ load' \in [space : Spaces, done : [Kinds -> 0..NPages], size : [Kinds -> 0..NPages]]
      /\ load'.space = s
      /\ \A l \in Kinds : load'.done[l] = IF l = k THEN load.done[l] + 1 ELSE load.done[l]
    BY <1>1, <1>2, SizeAssumption
<1>6. TypeOK'
    BY <1>1, <1>4, <1>5 DEF SInv, TypeOK, bindingVars
<1>7. LoadInv'
    <2>1. ASSUME NEW l \in Kinds, NEW v \in 0 .. load'.done[l] - 1
          PROVE  entries'[s][l][v] # NULL
        <3>1. CASE l = k /\ v = virt
            BY <1>4, <3>1
        <3>2. CASE ~(l = k /\ v = virt)
            <4>1. v \in 0 .. load.done[l] - 1 /\ v \in Pages
                BY <1>2, <1>5, <2>1, <3>2, SizeAssumption DEF Pages
            <4>2. entries[s][l][v] # NULL
                BY <1>1, <4>1 DEF SInv, LoadInv
            <4> QED
                BY <1>3, <1>4, <3>2, <4>1, <4>2
        <3> QED
            BY <3>1, <3>2
    <2> QED
        BY <1>4, <1>5, <2>1 DEF LoadInv, VDSO_PAGE_INDEX
<1> QED
    BY <1>1, <1>4, <1>6, <1>7, BootKeeps DEF SInv

\* The cleanup gives back pages, and none of them is the vdso's.
LEMMA LoadFailsSInv == ASSUME SInv, LoadFails PROVE SInv'
PROOF
<1>1. /\ phase = "boot" /\ phase' = "halt" /\ load # NULL
      /\ UNCHANGED <<load, entries, table, bindingVars>>
      /\ free' = [k \in Kinds |->
                     free[k] \cup {entries[load.space][k][v] : v \in 0 .. load.done[k] - 1}]
    BY DEF LoadFails
<1>2. load \in [space : Spaces, done : [Kinds -> 0..NPages], size : [Kinds -> 0..NPages]]
    BY <1>1 DEF SInv, TypeOK
<1>3. ASSUME NEW k \in Kinds, NEW v \in 0 .. load.done[k] - 1
      PROVE  /\ v \in Pages /\ entries[load.space][k][v] \in Pages
             /\ k = "code" => entries[load.space][k][v] # VDSO_PAGE_INDEX
    <2>1. v \in Pages
        BY <1>2, <1>3, SizeAssumption DEF Pages
    <2> QED
        BY <1>1, <1>2, <2>1 DEF SInv, TypeOK, LoadInv, OwnInv
<1>4. free' \in [Kinds -> SUBSET Pages] /\ VDSO_PAGE_INDEX \notin free'["code"]
    BY <1>1, <1>3 DEF SInv, TypeOK, OwnInv, Kinds
<1>5. TypeOK'
    BY <1>1, <1>4 DEF SInv, TypeOK, bindingVars
<1>6. LoadInv' /\ OwnInv'
    BY <1>1, <1>4 DEF SInv, LoadInv, OwnInv, VDSO_PAGE_INDEX
<1> QED
    BY <1>1, <1>5, <1>6, BootKeeps DEF SInv

-----------------------------------------------------------------------------
(* The dispatch. *)

\* Whichever way mmu_activate takes, s is bound to what is the primary binding
\* then, and no binding but that one changes.
LEMMA ActivateLemma ==
    ASSUME SInv, NEW s \in Spaces, mmu_activate(s)
    PROVE  /\ primary' \in Bindings
           /\ bound_space' = [bound_space EXCEPT ![primary'] = s]
           /\ binding' = [binding EXCEPT ![s] = primary']
           /\ \A c \in Bindings : c # primary' => bound_space[c] # s
           /\ \/ UNCHANGED <<stamp, next_stamp, primary>> /\ bound_space[primary] = s
              \/ /\ stamp' = [stamp EXCEPT ![primary'] = next_stamp]
                 /\ next_stamp' = next_stamp + 1
           /\ \/ UNCHANGED <<bound_space, table>>
              \/ /\ \A c \in Bindings : bound_space[c] # s
                 /\ pid_binding_bind(primary', s)
                 /\ \A c \in Bindings : stamp[primary'] <= stamp[c]
PROOF
<1>t. /\ bound_space \in [Bindings -> Spaces \cup {NULL}]
      /\ binding \in [Spaces -> Bindings \cup {NULL}]
      /\ stamp \in [Bindings -> Nat]
    BY DEF SInv, TypeOK
<1>0. ASSUME NEW b \in Bindings, bound_space[b] = s
      PROVE  /\ binding[s] = b
             /\ \A c \in Bindings : c # b => bound_space[c] # s
             /\ bound_space = [bound_space EXCEPT ![b] = s]
             /\ binding = [binding EXCEPT ![s] = b]
    <2>1. \A c \in Bindings : bound_space[c] = s => binding[s] = c
        BY Ranges DEF SInv, BindInv
    <2> QED
        BY <1>0, <1>t, <2>1
<1>1. CASE \E b \in Bindings : /\ bound_space[b] = s
                               /\ ~pid_binding_is_primary(b)
                               /\ pid_binding_rebind(b)
    <2>1. PICK b \in Bindings : bound_space[b] = s /\ pid_binding_rebind(b)
        BY <1>1
    <2> QED
        BY <1>0, <2>1 DEF pid_binding_rebind, MakePrimary
<1>2. CASE \E b \in Bindings :
               /\ bound_space[b] = s
               /\ pid_binding_is_primary(b)
               /\ UNCHANGED <<bound_space, stamp, binding, next_stamp, primary, table>>
    <2>1. PICK b \in Bindings :
               /\ bound_space[b] = s /\ primary = b
               /\ UNCHANGED <<bound_space, stamp, binding, next_stamp, primary, table>>
        BY <1>2 DEF pid_binding_is_primary
    <2> QED
        BY <1>0, <2>1
<1>3. CASE (\A b \in Bindings : bound_space[b] # s) /\ pid_binding_bind(lru_pid, s)
    <2>1. lru_pid \in Bindings /\ \A c \in Bindings : stamp[lru_pid] <= stamp[c]
        BY <1>t, LruLemma
    <2>2. primary' = lru_pid
        BY <1>3 DEF pid_binding_bind, MakePrimary
    <2>3. /\ bound_space' = [bound_space EXCEPT ![primary'] = s]
          /\ binding' = [binding EXCEPT ![s] = primary']
          /\ stamp' = [stamp EXCEPT ![primary'] = next_stamp]
          /\ next_stamp' = next_stamp + 1
        BY <1>3, <2>2 DEF pid_binding_bind, MakePrimary
    <2> QED
        BY <1>3, <2>1, <2>2, <2>3
<1> QED
    BY <1>1, <1>2, <1>3 DEF mmu_activate

\* mmu_unload and mmu_load, page by page: a page of the new space gets its
\* address and pid, any other loses the pid if it had it.
LEMMA BindLemma ==
    ASSUME SInv, NEW s \in Spaces, NEW b \in Bindings, pid_binding_bind(b, s)
    PROVE  /\ table' \in [Kinds -> [Pages -> [address : Pages, rights : 0..NBindings + 1]]]
           /\ \A k \in Kinds, p, v \in Pages :
                  entries[s][k][v] = p => table'[k][p] = [address |-> v, rights |-> Pid(b)]
           /\ \A k \in Kinds, p \in Pages :
                  (\A v \in Pages : entries[s][k][v] # p) =>
                      table'[k][p] = IF table[k][p].rights = Pid(b)
                                     THEN [table[k][p] EXCEPT !.rights = 0] ELSE table[k][p]
PROOF
<1> DEFINE old == bound_space[b]
           unloaded == IF old = NULL THEN table ELSE mmu_unload(table, Pid(binding[old]))
           At(k, p) == {v \in Pages : entries[s][k][v] = p}
<1>1. table' = mmu_load(unloaded, s, Pid(b))
    BY DEF pid_binding_bind
<1>2. ASSUME NEW k \in Kinds, NEW p \in Pages
      PROVE  unloaded[k][p] = IF table[k][p].rights = Pid(b)
                              THEN [table[k][p] EXCEPT !.rights = 0] ELSE table[k][p]
    <2>1. CASE old = NULL
        <3>1. table[k][p].address \in Pages
            BY DEF SInv, TypeOK
        <3>2. table[k][p].rights # Pid(b)
            BY <2>1, <3>1 DEF SInv, TableInv, Granted, Holds
        <3> QED
            BY <2>1, <3>2
    <2>2. CASE old # NULL
        <3>1. binding[old] = b
            BY <2>2 DEF SInv, BindInv
        <3> QED
            BY <2>2, <3>1 DEF mmu_unload
    <2> QED
        BY <2>1, <2>2
<1> HIDE DEF unloaded
<1>3. ASSUME NEW k \in Kinds, NEW p \in Pages
      PROVE  table'[k][p] = IF At(k, p) = {} THEN unloaded[k][p]
                            ELSE [address |-> CHOOSE v \in At(k, p) : \A w \in At(k, p) : w <= v,
                                  rights |-> Pid(b)]
    BY <1>1 DEF mmu_load
<1>4. ASSUME NEW k \in Kinds, NEW p \in Pages, NEW v \in Pages, entries[s][k][v] = p
      PROVE  table'[k][p] = [address |-> v, rights |-> Pid(b)]
    <2>1. p # NULL
        BY Ranges
    <2>2. \A w \in Pages : entries[s][k][w] = p => w = v
        BY <1>4, <2>1 DEF SInv, OwnInv
    <2>3. At(k, p) = {v}
        BY <1>4, <2>2
    <2>4. v <= v
        BY Ranges
    <2>5. (CHOOSE x \in {v} : \A w \in {v} : w <= x) = v
        BY <2>4
    <2> QED
        BY <1>3, <2>3, <2>5
<1>5. ASSUME NEW k \in Kinds, NEW p \in Pages, \A v \in Pages : entries[s][k][v] # p
      PROVE  table'[k][p] = IF table[k][p].rights = Pid(b)
                            THEN [table[k][p] EXCEPT !.rights = 0] ELSE table[k][p]
    <2>1. At(k, p) = {}
        BY <1>5
    <2>2. table'[k][p] = unloaded[k][p]
        BY <1>3, <2>1
    <2> QED
        BY <1>2, <2>2
<1>6. table' \in [Kinds -> [Pages -> [address : Pages, rights : 0..NBindings + 1]]]
    <2>1. ASSUME NEW k \in Kinds, NEW p \in Pages
          PROVE  table'[k][p] \in [address : Pages, rights : 0..NBindings + 1]
        <3>1. table[k][p] \in [address : Pages, rights : 0..NBindings + 1]
            BY DEF SInv, TypeOK
        <3>2. Pid(b) \in 0..NBindings + 1 /\ 0 \in 0..NBindings + 1
            BY Ranges, SizeAssumption
        <3>3. CASE \E v \in Pages : entries[s][k][v] = p
            <4>1. PICK v \in Pages : entries[s][k][v] = p
                BY <3>3
            <4>2. table'[k][p] = [address |-> v, rights |-> Pid(b)]
                BY <1>4, <4>1
            <4> QED
                BY <3>2, <4>2
        <3>4. CASE \A v \in Pages : entries[s][k][v] # p
            <4>1. [table[k][p] EXCEPT !.rights = 0] \in [address : Pages, rights : 0..NBindings + 1]
                BY <3>1, <3>2
            <4> QED
                BY <1>5, <3>1, <3>4, <4>1
        <3> QED
            BY <3>3, <3>4
    <2>2. table' = [k \in Kinds |-> [p \in Pages |-> table'[k][p]]]
        BY <1>1 DEF mmu_load
    <2> HIDE DEF At
    <2> QED
        BY <2>1, <2>2
<1> QED
    BY <1>4, <1>5, <1>6

\* Nothing but the primary binding changes, so spaces stay bound where they say.
LEMMA BindKept == ASSUME SInv, NEW s \in Spaces, mmu_activate(s) PROVE BindInv'
PROOF
<1>1. /\ primary' \in Bindings
      /\ bound_space' = [bound_space EXCEPT ![primary'] = s]
      /\ binding' = [binding EXCEPT ![s] = primary']
      /\ \A c \in Bindings : c # primary' => bound_space[c] # s
    BY ActivateLemma
<1> SUFFICES ASSUME NEW c \in Bindings, bound_space'[c] # NULL
             PROVE  binding'[bound_space'[c]] = c
    BY DEF BindInv
<1>2. CASE c = primary'
    BY <1>1, <1>2 DEF SInv, TypeOK
<1>3. CASE c # primary'
    <2>1. bound_space'[c] = bound_space[c] /\ bound_space[c] # s /\ bound_space[c] \in Spaces
        BY <1>1, <1>3 DEF SInv, TypeOK
    <2> QED
        BY <1>1, <2>1 DEF SInv, TypeOK, BindInv
<1> QED
    BY <1>2, <1>3

\* The tables after an eviction grant exactly what the mmu_t of the bound spaces
\* hold.
LEMMA TableKept ==
    ASSUME SInv, NEW s \in Spaces, mmu_activate(s), UNCHANGED entries
    PROVE  TableInv'
PROOF
<1>1. CASE UNCHANGED <<bound_space, table>>
    BY <1>1 DEF SInv, TableInv, Granted, Holds, VDSO_PAGE_INDEX
<1>2. CASE (\A c \in Bindings : bound_space[c] # s) /\ pid_binding_bind(primary', s)
    <2> DEFINE b == primary'
    <2>1. b \in Bindings /\ bound_space' = [bound_space EXCEPT ![b] = s]
        BY ActivateLemma
    <2> HIDE DEF b
    <2>2. /\ \A k \in Kinds, p, v \in Pages :
                 entries[s][k][v] = p => table'[k][p] = [address |-> v, rights |-> Pid(b)]
          /\ \A k \in Kinds, p \in Pages :
                 (\A v \in Pages : entries[s][k][v] # p) =>
                     table'[k][p] = IF table[k][p].rights = Pid(b)
                                    THEN [table[k][p] EXCEPT !.rights = 0] ELSE table[k][p]
        BY <1>2, <2>1, BindLemma DEF b
    <2>3. \A c \in Bindings : bound_space'[c] = IF c = b THEN s ELSE bound_space[c]
        BY <2>1 DEF SInv, TypeOK
    <2>4. \A c \in Bindings : Pid(c) # 0 /\ Pid(c) # 1 /\ (Pid(c) = Pid(b) => c = b)
        BY <2>1, Ranges
    <2>5. table'["code"][VDSO_PAGE_INDEX] = [address |-> VDSO_PAGE_INDEX, rights |-> 1]
        <3>1. \A v \in Pages : entries[s]["code"][v] # VDSO_PAGE_INDEX
            BY DEF SInv, OwnInv
        <3>2. table["code"][VDSO_PAGE_INDEX] = [address |-> VDSO_PAGE_INDEX, rights |-> 1]
            BY DEF SInv, TableInv
        <3>3. table["code"][VDSO_PAGE_INDEX].rights # Pid(b)
            BY <2>1, <2>4, <3>2
        <3> QED
            BY <2>2, <3>1, <3>2, <3>3, Ranges DEF Kinds
    <2>6. ASSUME NEW k \in Kinds, NEW p \in Pages, table'[k][p].rights = 1
          PROVE  k = "code" /\ p = VDSO_PAGE_INDEX
        <3>1. table[k][p] \in [address : Pages, rights : 0..NBindings + 1]
            BY DEF SInv, TypeOK
        <3>2. CASE \E v \in Pages : entries[s][k][v] = p
            <4>1. PICK v \in Pages : entries[s][k][v] = p
                BY <3>2
            <4>2. table'[k][p] = [address |-> v, rights |-> Pid(b)]
                BY <2>2, <4>1
            <4> QED
                BY <2>1, <2>4, <2>6, <4>2
        <3>3. CASE \A v \in Pages : entries[s][k][v] # p
            <4>1. table[k][p].rights = 1
                <5>1. CASE table[k][p].rights = Pid(b)
                    <6>1. table'[k][p] = [table[k][p] EXCEPT !.rights = 0]
                        BY <2>2, <3>3, <5>1
                    <6> QED
                        BY <2>6, <3>1, <6>1
                <5>2. CASE table[k][p].rights # Pid(b)
                    BY <2>2, <2>6, <3>3, <5>2
                <5> QED
                    BY <5>1, <5>2
            <4> QED
                BY <4>1 DEF SInv, TableInv
        <3> QED
            BY <3>2, <3>3
    <2>7. ASSUME NEW c \in Bindings, NEW k \in Kinds, NEW p \in Pages, NEW v \in Pages
          PROVE  (table'[k][p].rights = Pid(c) /\ table'[k][p].address = v) <=>
                 (bound_space'[c] # NULL /\ entries[bound_space'[c]][k][v] = p)
        <3>1. table[k][p] \in [address : Pages, rights : 0..NBindings + 1]
            BY DEF SInv, TypeOK
        <3>2. CASE \E w \in Pages : entries[s][k][w] = p
            <4>1. PICK w \in Pages : entries[s][k][w] = p
                BY <3>2
            <4>2. table'[k][p] = [address |-> w, rights |-> Pid(b)]
                BY <2>2, <4>1
            <4>3. p # NULL /\ s # NULL
                BY Ranges
            <4>4. \A t \in Spaces, x \in Pages : entries[t][k][x] = p => t = s /\ x = w
                BY <4>1, <4>3 DEF SInv, OwnInv
            <4>5. CASE c = b
                BY <2>3, <4>1, <4>2, <4>3, <4>4, <4>5
            <4>6. CASE c # b
                <5>1. bound_space'[c] = bound_space[c] /\ bound_space[c] # s
                    BY <1>2, <2>3, <4>6
                <5>2. bound_space[c] # NULL => entries[bound_space[c]][k][v] # p
                    BY <4>4, <5>1 DEF SInv, TypeOK
                <5> QED
                    BY <2>4, <4>2, <4>6, <5>1, <5>2
            <4> QED
                BY <4>5, <4>6
        <3>3. CASE \A w \in Pages : entries[s][k][w] # p
            <4>1. (table[k][p].rights = Pid(c) /\ table[k][p].address = v) <=>
                  (bound_space[c] # NULL /\ entries[bound_space[c]][k][v] = p)
                BY DEF SInv, TableInv, Granted, Holds
            <4>2. CASE table[k][p].rights = Pid(b)
                <5>1. table'[k][p].rights = 0
                    BY <2>2, <3>1, <3>3, <4>2
                <5>2. CASE c = b
                    BY <2>3, <2>4, <3>3, <5>1, <5>2
                <5>3. CASE c # b
                    BY <2>3, <2>4, <4>1, <4>2, <5>1, <5>3
                <5> QED
                    BY <5>2, <5>3
            <4>3. CASE table[k][p].rights # Pid(b)
                <5>1. table'[k][p] = table[k][p]
                    BY <2>2, <3>3, <4>3
                <5>2. CASE c = b
                    BY <2>3, <3>3, <4>3, <5>1, <5>2
                <5>3. CASE c # b
                    BY <2>3, <4>1, <5>1, <5>3
                <5> QED
                    BY <5>2, <5>3
            <4> QED
                BY <4>2, <4>3
        <3> QED
            BY <3>2, <3>3
    <2> QED
        BY <2>5, <2>6, <2>7 DEF TableInv, Granted, Holds, Pid, VDSO_PAGE_INDEX
<1> QED
    BY <1>1, <1>2, ActivateLemma

\* What Aged does to the ages: s is the youngest, the others keep their order.
LEMMA AgedLemma ==
    ASSUME age \in [Spaces -> Nat], AgeInv, NEW s \in Spaces
    PROVE  /\ Aged(s) \in [Spaces -> Nat]
           /\ Aged(s)[s] = 1
           /\ \A t \in Spaces : t # s => (Aged(s)[t] # 0 <=> age[t] # 0) /\ Aged(s)[t] # 1
           /\ \A t, u \in Spaces :
                  t # s /\ u # s /\ age[t] # 0 /\ age[t] < age[u] => Aged(s)[t] < Aged(s)[u]
           /\ age[s] = 1 => \A t \in Spaces : Aged(s)[t] = age[t]
PROOF
<1>1. /\ Aged(s) \in [Spaces -> Nat]
      /\ Aged(s)[s] = 1
      /\ \A t \in Spaces : t # s =>
             Aged(s)[t] = IF age[t] # 0 /\ (age[s] = 0 \/ age[t] < age[s]) THEN age[t] + 1 ELSE age[t]
    BY DEF Aged
<1>2. \A t \in Spaces : t # s /\ age[t] # 0 => age[t] # age[s]
    BY DEF AgeInv
<1>3. ASSUME NEW t \in Spaces, t # s
      PROVE  (Aged(s)[t] # 0 <=> age[t] # 0) /\ Aged(s)[t] # 1
    <2>1. age[t] \in Nat /\ age[s] \in Nat
        OBVIOUS
    <2> QED
        BY <1>1, <1>2, <1>3, <2>1
<1>4. ASSUME NEW t \in Spaces, NEW u \in Spaces, t # s, u # s, age[t] # 0, age[t] < age[u]
      PROVE  Aged(s)[t] < Aged(s)[u]
    <2>1. age[t] \in Nat /\ age[s] \in Nat /\ age[u] \in Nat
        OBVIOUS
    <2> QED
        BY <1>1, <1>2, <1>4, <2>1
<1>5. ASSUME age[s] = 1, NEW t \in Spaces
      PROVE  Aged(s)[t] = age[t]
    <2>1. age[t] \in Nat
        OBVIOUS
    <2> QED
        BY <1>1, <1>2, <1>5, <2>1
<1> QED
    BY <1>1, <1>3, <1>4, <1>5

\* The order of the stamps stays the order of the dispatches.
LEMMA LruKept ==
    ASSUME SInv, NEW s \in Spaces, mmu_activate(s), pid_new' = Pid(primary'), age' = Aged(s)
    PROVE  PrimaryInv' /\ AgeInv' /\ LruInv'
PROOF
<1>1. /\ primary' \in Bindings
      /\ bound_space' = [bound_space EXCEPT ![primary'] = s]
      /\ \A c \in Bindings : c # primary' => bound_space[c] # s
      /\ \/ UNCHANGED <<stamp, next_stamp, primary>> /\ bound_space[primary] = s
         \/ /\ stamp' = [stamp EXCEPT ![primary'] = next_stamp]
            /\ next_stamp' = next_stamp + 1
    BY ActivateLemma
<1> DEFINE b == primary'
<1>2. /\ b \in Bindings /\ s # NULL /\ b # NULL
      /\ bound_space'[b] = s
      /\ \A c \in Bindings : c # b => bound_space'[c] = bound_space[c] /\ bound_space[c] # s
      /\ \A c \in Bindings : bound_space[c] # NULL => bound_space[c] \in Spaces
    BY <1>1, Ranges DEF SInv, TypeOK
<1>3. /\ age' \in [Spaces -> Nat]
      /\ age'[s] = 1
      /\ \A t \in Spaces : t # s => (age'[t] # 0 <=> age[t] # 0) /\ age'[t] # 1
      /\ \A t, u \in Spaces :
             t # s /\ u # s /\ age[t] # 0 /\ age[t] < age[u] => age'[t] < age'[u]
      /\ age[s] = 1 => \A t \in Spaces : age'[t] = age[t]
    BY AgedLemma DEF SInv, TypeOK
<1>t. age \in [Spaces -> Nat] /\ stamp \in [Bindings -> Nat] /\ next_stamp \in Nat
    BY DEF SInv, TypeOK
<1>4. PrimaryInv'
    <2>1. \A t \in Spaces : age'[t] = 1 => t = s
        BY <1>3
    <2> QED
        BY <1>2, <1>3, <2>1 DEF PrimaryInv, Pid
<1>5. AgeInv'
    <2> SUFFICES ASSUME NEW t \in Spaces, NEW u \in Spaces, age'[t] # 0, age'[t] = age'[u], t # u
                 PROVE  FALSE
        BY DEF AgeInv
    <2>1. t # s /\ u # s /\ age[t] # 0 /\ age[u] # 0
        BY <1>3
    <2>2. age[t] # age[u]
        BY <2>1 DEF SInv, AgeInv
    <2>3. age[t] \in Nat /\ age[u] \in Nat /\ age'[t] \in Nat /\ age'[u] \in Nat
        BY <1>3, <1>t
    <2>4. age[t] < age[u] \/ age[u] < age[t]
        BY <2>2, <2>3
    <2>5. age'[t] < age'[u] \/ age'[u] < age'[t]
        BY <1>3, <2>1, <2>4
    <2> QED
        BY <2>3, <2>5
<1>6. LruInv'
    <2>1. ASSUME NEW c \in Bindings, c # b, bound_space[c] # NULL
          PROVE  /\ stamp'[c] = stamp[c] /\ stamp[c] < next_stamp /\ stamp[c] \in Nat
                 /\ bound_space[c] \in Spaces /\ bound_space[c] # s
                 /\ age[bound_space[c]] # 0 /\ age'[bound_space[c]] # 0
                 /\ age'[bound_space[c]] # 1 /\ age'[bound_space[c]] \in Nat
        BY <1>1, <1>2, <1>3, <1>t, <2>1 DEF SInv, LruInv
    <2>2. CASE UNCHANGED <<stamp, next_stamp, primary>> /\ bound_space[primary] = s
        <3>1. primary = b /\ bound_space[b] = s /\ age[s] = 1
            BY <1>2, <2>2 DEF SInv, PrimaryInv
        <3>2. \A c \in Bindings : bound_space'[c] = bound_space[c]
            BY <1>2, <3>1
        <3>3. \A t \in Spaces : age'[t] = age[t]
            BY <1>3, <3>1
        <3> QED
            BY <1>2, <2>2, <3>2, <3>3 DEF SInv, LruInv
    <2>3. CASE stamp' = [stamp EXCEPT ![b] = next_stamp] /\ next_stamp' = next_stamp + 1
        <3>1. stamp'[b] = next_stamp /\ next_stamp < next_stamp'
            BY <1>2, <1>t, <2>3
        <3>2. ASSUME NEW c \in Bindings, bound_space'[c] # NULL
              PROVE  stamp'[c] < next_stamp' /\ age'[bound_space'[c]] # 0
            <4>1. CASE c = b
                BY <1>2, <1>3, <3>1, <4>1
            <4>2. CASE c # b
                <5>1. bound_space'[c] = bound_space[c]
                    BY <1>2, <4>2
                <5> QED
                    BY <1>t, <2>1, <2>3, <3>2, <4>2, <5>1
            <4> QED
                BY <4>1, <4>2
        <3>3. ASSUME NEW c \in Bindings, c # b, bound_space[c] # NULL
              PROVE  stamp'[c] < stamp'[b] /\ age'[bound_space'[b]] < age'[bound_space'[c]]
            BY <1>2, <1>3, <2>1, <3>1, <3>3
        <3>4. ASSUME NEW c \in Bindings, NEW d \in Bindings, c # b, d # b, c # d,
                     bound_space[c] # NULL, bound_space[d] # NULL
              PROVE  \/ stamp'[c] < stamp'[d] /\ age'[bound_space'[d]] < age'[bound_space'[c]]
                     \/ stamp'[d] < stamp'[c] /\ age'[bound_space'[c]] < age'[bound_space'[d]]
            <4>1. \/ stamp[c] < stamp[d] /\ age[bound_space[d]] < age[bound_space[c]]
                  \/ stamp[d] < stamp[c] /\ age[bound_space[c]] < age[bound_space[d]]
                BY <3>4 DEF SInv, LruInv
            <4>2. bound_space'[c] = bound_space[c] /\ bound_space'[d] = bound_space[d]
                BY <1>2, <3>4
            <4> QED
                BY <1>3, <2>1, <3>4, <4>1, <4>2
        <3>5. ASSUME NEW c \in Bindings, NEW d \in Bindings, c # d,
                     bound_space'[c] # NULL, bound_space'[d] # NULL
              PROVE  \/ stamp'[c] < stamp'[d] /\ age'[bound_space'[d]] < age'[bound_space'[c]]
                     \/ stamp'[d] < stamp'[c] /\ age'[bound_space'[c]] < age'[bound_space'[d]]
            <4>1. \A x \in Bindings : x # b => bound_space'[x] = bound_space[x]
                BY <1>2
            <4>2. CASE c = b
                BY <3>3, <3>5, <4>1, <4>2
            <4>3. CASE d = b
                BY <3>3, <3>5, <4>1, <4>3
            <4>4. CASE c # b /\ d # b
                BY <3>4, <3>5, <4>1, <4>4
            <4> QED
                BY <4>2, <4>3, <4>4
        <3> QED
            BY <3>2, <3>5 DEF LruInv
    <2> QED
        BY <1>1, <2>2, <2>3
<1> QED
    BY <1>4, <1>5, <1>6

\* execute with restore_task_context and pid_prepare.
LEMMA DispatchSInv == ASSUME SInv, NEW s \in Spaces, Dispatch(s) PROVE SInv'
PROOF
<1>1. /\ phase = "run" /\ mmu_activate(s) /\ pid_new' = Pid(primary') /\ age' = Aged(s)
      /\ UNCHANGED <<phase, load, free, entries>>
    BY DEF Dispatch
<1>2. BindInv' /\ TableInv' /\ PrimaryInv' /\ AgeInv' /\ LruInv'
    BY <1>1, BindKept, TableKept, LruKept
<1>3. BootInv' /\ LoadInv' /\ OwnInv'
    BY <1>1 DEF SInv, BootInv, LoadInv, OwnInv, VDSO_PAGE_INDEX
<1>4. TypeOK'
    <2>1. /\ primary' \in Bindings
          /\ bound_space' = [bound_space EXCEPT ![primary'] = s]
          /\ binding' = [binding EXCEPT ![s] = primary']
          /\ \/ UNCHANGED <<stamp, next_stamp, primary>> /\ bound_space[primary] = s
             \/ /\ stamp' = [stamp EXCEPT ![primary'] = next_stamp]
                /\ next_stamp' = next_stamp + 1
          /\ UNCHANGED <<bound_space, table>> \/ pid_binding_bind(primary', s)
        BY <1>1, ActivateLemma
    <2>2. /\ bound_space' \in [Bindings -> Spaces \cup {NULL}]
          /\ binding' \in [Spaces -> Bindings \cup {NULL}]
          /\ stamp' \in [Bindings -> Nat] /\ next_stamp' \in Nat
        <3>1. /\ bound_space \in [Bindings -> Spaces \cup {NULL}]
              /\ binding \in [Spaces -> Bindings \cup {NULL}]
              /\ stamp \in [Bindings -> Nat] /\ next_stamp \in Nat
            BY DEF SInv, TypeOK
        <3>2. bound_space' \in [Bindings -> Spaces \cup {NULL}]
            BY <2>1, <3>1
        <3>3. binding' \in [Spaces -> Bindings \cup {NULL}]
            BY <2>1, <3>1
        <3> QED
            BY <2>1, <3>1, <3>2, <3>3
    <2>3. table' \in [Kinds -> [Pages -> [address : Pages, rights : 0..NBindings + 1]]]
        <3>1. CASE UNCHANGED table
            BY <3>1 DEF SInv, TypeOK
        <3>2. CASE pid_binding_bind(primary', s)
            BY <2>1, <3>2, BindLemma
        <3> QED
            BY <2>1, <3>1, <3>2
    <2>4. pid_new' \in 0..NBindings + 1 /\ age' \in [Spaces -> Nat]
        BY <1>1, <2>1, Ranges, AgedLemma DEF SInv, TypeOK
    <2> QED
        BY <1>1, <2>1, <2>2, <2>3, <2>4 DEF SInv, TypeOK
<1> QED
    BY <1>2, <1>3, <1>4 DEF SInv

-----------------------------------------------------------------------------
(* The theorems. *)

\* Every step of the boot and of the dispatch keeps the invariant.
LEMMA NextSInv == ASSUME SInv, [Next]_vars PROVE SInv'
PROOF
<1>1. CASE UNCHANGED vars
    BY <1>1 DEF vars, bindingVars, SInv, TypeOK, BootInv, LoadInv, OwnInv, BindInv, TableInv,
        Granted, Holds, PrimaryInv, AgeInv, LruInv, VDSO_PAGE_INDEX, Pid
<1> QED
    BY <1>1, QuietBootSInv, CreateSInv, LoadPageSInv, LoadFailsSInv, DispatchSInv DEF Next

\* SInv holds throughout.
THEOREM SpaceInvariance == Spec => []SInv
PROOF
<1>1. SInv /\ [Next]_vars => SInv'
    BY NextSInv
<1> QED
    BY <1>1, InitSInv, PTL DEF Spec

\* The bitmaps, the tables and the bindings keep their types.
THEOREM SpaceTypeTheorem == Spec => []TypeOK
PROOF
<1>1. SInv => TypeOK
    BY DEF SInv
<1> QED
    BY <1>1, SpaceInvariance, PTL

\* What the tables grant the pid of a binding is what the bound space maps.
LEMMA ReachLemma == SInv => HardwareAgrees
PROOF
<1> SUFFICES ASSUME SInv, NEW b \in Bindings, NEW k \in Kinds, NEW v \in Pages
             PROVE  Reaches(Pid(b), k, v) = Mapped(bound_space[b], k, v)
    BY DEF HardwareAgrees
<1> DEFINE s == bound_space[b]
<1>1. s \in Spaces \cup {NULL}
    BY DEF SInv, TypeOK
<1>2. \A p \in Pages : (table[k][p].rights = Pid(b) /\ table[k][p].address = v) <=>
                       (s # NULL /\ entries[s][k][v] = p)
    BY DEF SInv, TableInv, Granted, Holds
<1>3. \A p \in Pages : (table[k][p].rights = 1 /\ table[k][p].address = v) <=>
                       (k = "code" /\ p = VDSO_PAGE_INDEX /\ v = VDSO_PAGE_INDEX)
    <2> SUFFICES ASSUME NEW p \in Pages
                 PROVE  (table[k][p].rights = 1 /\ table[k][p].address = v) <=>
                        (k = "code" /\ p = VDSO_PAGE_INDEX /\ v = VDSO_PAGE_INDEX)
        OBVIOUS
    <2>1. table[k][p].rights = 1 => k = "code" /\ p = VDSO_PAGE_INDEX
        BY DEF SInv, TableInv
    <2>2. table["code"][VDSO_PAGE_INDEX] = [address |-> VDSO_PAGE_INDEX, rights |-> 1]
        BY DEF SInv, TableInv
    <2> QED
        BY <2>1, <2>2
<1>4. \A p : p \in Reaches(Pid(b), k, v) <=>
             /\ p \in Pages
             /\ \/ s # NULL /\ entries[s][k][v] = p
                \/ k = "code" /\ p = VDSO_PAGE_INDEX /\ v = VDSO_PAGE_INDEX
    BY <1>2, <1>3 DEF Reaches
<1> HIDE DEF s
<1>5. CASE k = "code" /\ v = VDSO_PAGE_INDEX
    <2>1. s # NULL => entries[s][k][v] = NULL
        BY <1>1, <1>5 DEF SInv, LoadInv
    <2>2. Mapped(s, k, v) = {VDSO_PAGE_INDEX}
        BY <1>5 DEF Mapped
    <2> QED
        BY <1>4, <1>5, <2>1, <2>2, Ranges DEF s
<1>6. CASE ~(k = "code" /\ v = VDSO_PAGE_INDEX)
    <2>1. s # NULL => entries[s][k][v] \in Pages \cup {NULL}
        BY <1>1 DEF SInv, TypeOK
    <2>2. Mapped(s, k, v) = IF s = NULL THEN {} ELSE {entries[s][k][v]} \ {NULL}
        BY <1>6 DEF Mapped
    <2> QED
        BY <1>4, <1>6, <2>1, <2>2, Ranges DEF s
<1> QED
    BY <1>5, <1>6

\* Isolation: under its pid a program reaches exactly its own pages and the vdso,
\* with any number of tasks sharing any number of pids.
THEOREM IsolationTheorem == Spec => []HardwareAgrees
PROOF
    BY SpaceInvariance, ReachLemma, PTL

\* OwnInv says of a page that is mapped all that PagesOwnedOnce promises.
LEMMA OwnedLemma == SInv => PagesOwnedOnce
PROOF
<1> SUFFICES ASSUME SInv, phase # "halt", NEW k \in Kinds, NEW s \in Spaces, NEW t \in Spaces,
                    NEW v \in Pages, NEW w \in Pages, entries[s][k][v] # NULL
             PROVE  /\ entries[s][k][v] \notin free[k]
                    /\ k = "code" => entries[s][k][v] # VDSO_PAGE_INDEX
                    /\ entries[s][k][v] = entries[t][k][w] => s = t /\ v = w
    BY DEF PagesOwnedOnce
<1>1. OwnInv
    BY DEF SInv
<1> QED
    BY <1>1 DEF OwnInv

\* No physical page is mapped twice, or mapped and free.
THEOREM OwnershipTheorem == Spec => []PagesOwnedOnce
PROOF
    BY SpaceInvariance, OwnedLemma, PTL

\* The exit to user mode enters the pid of the space that was dispatched last.
THEOREM PidTheorem == Spec => []RunsUnderItsPid
PROOF
<1>1. SInv => RunsUnderItsPid
    <2> SUFFICES ASSUME SInv, NEW s \in Spaces, age[s] = 1
                 PROVE  /\ primary # NULL /\ pid_new = Pid(primary)
                        /\ bound_space[primary] = s
                        /\ binding[s] = primary
        BY DEF RunsUnderItsPid
    <2>1. primary # NULL /\ pid_new = Pid(primary) /\ bound_space[primary] = s
        BY DEF SInv, PrimaryInv
    <2>2. primary \in Bindings /\ s # NULL
        BY <2>1, Ranges DEF SInv, TypeOK
    <2> QED
        BY <2>1, <2>2 DEF SInv, BindInv
<1> QED
    BY <1>1, SpaceInvariance, PTL

\* A binding that is taken from a space is the one dispatched the longest ago.
LEMMA EvictionStep ==
    ASSUME SInv, [Next]_vars, NEW b \in Bindings, NEW c \in Bindings,
           bound_space[b] # NULL, bound_space'[b] # bound_space[b], bound_space[c] # NULL
    PROVE  age[bound_space[c]] <= age[bound_space[b]]
PROOF
<1>1. PICK s \in Spaces : Dispatch(s)
    BY DEF Next, vars, bindingVars, RejectHeader, create_task_fails, LoadFails, LoadDone,
        scheduler_drop_current, create_task, LoadPage
<1>2. /\ mmu_activate(s)
      /\ bound_space' = [bound_space EXCEPT ![primary'] = s]
      /\ \/ UNCHANGED <<bound_space, table>>
         \/ \A x \in Bindings : stamp[primary'] <= stamp[x]
    BY <1>1, ActivateLemma DEF Dispatch
<1>3. b = primary' /\ stamp[b] <= stamp[c]
    BY <1>2 DEF SInv, TypeOK
<1>4. /\ stamp[b] \in Nat /\ stamp[c] \in Nat
      /\ age[bound_space[b]] \in Nat /\ age[bound_space[c]] \in Nat
    BY DEF SInv, TypeOK
<1>5. CASE b = c
    BY <1>4, <1>5
<1>6. CASE b # c
    <2>1. \/ stamp[b] < stamp[c] /\ age[bound_space[c]] < age[bound_space[b]]
          \/ stamp[c] < stamp[b] /\ age[bound_space[b]] < age[bound_space[c]]
        BY <1>6 DEF SInv, LruInv
    <2> QED
        BY <1>3, <1>4, <2>1
<1> QED
    BY <1>5, <1>6

\* The cache of pids is least recently used: the stamps never lie about who ran
\* last, although those of unused bindings tie with the first used one.
THEOREM EvictionTheorem == Spec => EvictsLeastRecent
PROOF
<1>1. SInv /\ [Next]_vars =>
          [\A b, c \in Bindings :
              /\ bound_space[b] # NULL /\ bound_space'[b] # bound_space[b]
              /\ bound_space[c] # NULL
              => age[bound_space[c]] <= age[bound_space[b]]]_vars
    BY EvictionStep
<1> QED
    BY <1>1, SpaceInvariance, PTL DEF Spec, EvictsLeastRecent

-----------------------------------------------------------------------------
(* The scheduler and the address spaces composed. *)

Statuses == {"NONE", "WAITING", "RUNNABLE", "RUNNING", "DEAD"}

QueueType ==
    [head : Spaces \cup {NULL}, tail : Spaces \cup {NULL}, size : Int,
     link : [Spaces -> Spaces \cup {NULL}]]

SchedType ==
    /\ current \in Spaces \cup {NULL}
    /\ status \in [Spaces -> Statuses]
    /\ rq \in QueueType

\* The boot of one is the boot of the other, and programs run after it.
PhaseInv ==
    /\ cpu \in {"boot", "user", "kernel", "idle", "halt"}
    /\ cpu = "boot" <=> phase = "boot"
    /\ cpu \in {"user", "kernel", "idle"} => phase = "run"

\* The task that runs, or whose trap is handled, was dispatched last.
CurrentInv ==
    /\ cpu = "boot" => current = NULL
    /\ cpu = "user" => current # NULL
    /\ cpu = "kernel" /\ trap # "drop" => current # NULL
    /\ cpu \in {"user", "kernel"} /\ current # NULL =>
           /\ age[current] = 1
           /\ status[current] = "RUNNING"
           /\ entries[current]["data"][UCTX_PAGE_INDEX] # NULL

\* Who is being loaded waits, has code to load and has its ucontext.
LoadedInv ==
    /\ load # NULL =>
           /\ status[load.space] = "WAITING" /\ load.size["code"] >= 1
           /\ entries[load.space]["data"][UCTX_PAGE_INDEX] # NULL
    /\ RunnableIsLoaded

KInv == SInv /\ SchedType /\ PhaseInv /\ CurrentInv /\ LoadedInv

-----------------------------------------------------------------------------
(* The scheduler's operators. *)

\* The run queue keeps its shape, and what it gives is a task or nothing.
LEMMA QueueLemma ==
    ASSUME NEW q \in QueueType
    PROVE  /\ Sched!global_run_queue_get(q).task \in Spaces \cup {NULL}
           /\ Sched!global_run_queue_get(q).queue \in QueueType
           /\ \A t \in Spaces : Sched!global_run_queue_put(q, t) \in QueueType
PROOF
<1>1. Sched!task_queue_pop(q) \in QueueType
    BY DEF Sched!task_queue_pop, QueueType
<1>2. [Sched!task_queue_pop(q) EXCEPT !.size = q.size - 1] \in QueueType
    BY <1>1 DEF QueueType
<1>3. /\ Sched!global_run_queue_get(q).task \in Spaces \cup {NULL}
      /\ Sched!global_run_queue_get(q).queue \in QueueType
    BY <1>2 DEF Sched!global_run_queue_get, QueueType
<1>4. ASSUME NEW t \in Spaces
      PROVE  Sched!global_run_queue_put(q, t) \in QueueType
    <2>1. Sched!task_queue_push_back(q, t) \in QueueType
        BY DEF Sched!task_queue_push_back, QueueType
    <2> QED
        BY <2>1 DEF Sched!global_run_queue_put, QueueType
<1> QED
    BY <1>3, <1>4

\* schedule takes the first task of the queue, which must be runnable, or sleeps.
LEMMA ScheduleLemma ==
    ASSUME NEW q \in QueueType, NEW s, NEW st \in [Spaces -> Statuses], NEW u, NEW w,
           Sched!schedule(q, s, st, u, w)
    PROVE  /\ rq' \in QueueType
           /\ \/ /\ cpu' = "user" /\ current' \in Spaces /\ st[current'] = "RUNNABLE"
                 /\ status' = [st EXCEPT ![current'] = "RUNNING"]
              \/ cpu' = "idle" /\ current' = NULL /\ status' = st
PROOF
<1> DEFINE found == Sched!global_run_queue_get(q)
<1>1. found.task \in Spaces \cup {NULL} /\ found.queue \in QueueType
    BY QueueLemma
<1>2. /\ rq' = found.queue
      /\ \/ found.task # NULL /\ Sched!execute(found.task, st, u, w)
         \/ found.task = NULL /\ Sched!Sleep(st, w)
    BY DEF Sched!schedule
<1> HIDE DEF found
<1>3. CASE found.task # NULL /\ Sched!execute(found.task, st, u, w)
    BY <1>1, <1>2, <1>3 DEF Sched!execute, Sched!cas_task_state, Sched!Resume
<1>4. CASE found.task = NULL /\ Sched!Sleep(st, w)
    BY <1>1, <1>2, <1>4 DEF Sched!Sleep
<1> QED
    BY <1>2, <1>3, <1>4

Active == {"RUNNABLE", "RUNNING"}

\* The statuses st make nobody active who was not, and nobody else's load ends.
NobodyNew(st) ==
    \A t \in Spaces :
        /\ st[t] \in Active => status[t] \in Active
        /\ st[t] = "NONE" => status[t] = "NONE"
        /\ status[t] = "WAITING" => st[t] = "WAITING"

\* The step leaves a running task in user mode, or nobody.
Scheduled ==
    /\ SchedType' /\ NobodyNew(status')
    /\ \/ cpu' = "user" /\ current' \in Spaces /\ status'[current'] = "RUNNING"
       \/ cpu' \in {"idle", "halt"} /\ current' = NULL

\* A handler that ends in schedule makes nobody active who was not, and whoever
\* it makes current is running.
LEMMA HandlerLemma ==
    ASSUME KInv, \/ Sched!SyscallYield \/ Sched!SyscallPark \/ Sched!SyscallDrop
                 \/ Sched!common_interrupt_handler
    PROVE  cpu = "kernel" /\ Scheduled
PROOF
<1>0. /\ current \in Spaces \cup {NULL} /\ status \in [Spaces -> Statuses] /\ rq \in QueueType
      /\ NULL \notin Spaces
    BY Ranges DEF KInv, SchedType
<1>1. ASSUME NEW q \in QueueType, NEW s, NEW st \in [Spaces -> Statuses], NEW u, NEW w,
             Sched!schedule(q, s, st, u, w), cpu = "kernel",
             NobodyNew(st)
      PROVE  Scheduled
    <2>1. /\ rq' \in QueueType
          /\ \/ /\ cpu' = "user" /\ current' \in Spaces /\ st[current'] = "RUNNABLE"
                /\ status' = [st EXCEPT ![current'] = "RUNNING"]
             \/ cpu' = "idle" /\ current' = NULL /\ status' = st
        BY <1>1, ScheduleLemma
    <2>2. CASE /\ cpu' = "user" /\ current' \in Spaces /\ st[current'] = "RUNNABLE"
               /\ status' = [st EXCEPT ![current'] = "RUNNING"]
        <3>1. SchedType'
            BY <2>1, <2>2 DEF SchedType, QueueType, Statuses
        <3>2. \A t \in Spaces : status'[t] = IF t = current' THEN "RUNNING" ELSE st[t]
            BY <2>2
        <3> QED
            BY <1>1, <2>2, <3>1, <3>2 DEF Scheduled, NobodyNew, Active
    <2>3. CASE cpu' = "idle" /\ current' = NULL /\ status' = st
        BY <1>1, <2>1, <2>3 DEF Scheduled, NobodyNew, SchedType, QueueType, Statuses
    <2> QED
        BY <2>1, <2>2, <2>3
<1>2. ASSUME NEW new \in {"RUNNABLE", "WAITING", "DEAD"}, current \in Spaces,
             status[current] = "RUNNING"
      PROVE  LET st == [status EXCEPT ![current] = new]
             IN  /\ st \in [Spaces -> Statuses]
                 /\ NobodyNew(st)
    BY <1>0, <1>2 DEF NobodyNew, Statuses, Active
<1>3. ASSUME NEW f, NEW w, Sched!scheduler_on_schedule(f, w), cpu = "kernel"
      PROVE  Scheduled
    <2> DEFINE st == [status EXCEPT ![current] = "RUNNABLE"]
               q == Sched!global_run_queue_put(rq, current)
    <2>1. current \in Spaces /\ status[current] = "RUNNING"
        BY <1>0, <1>3 DEF Sched!scheduler_on_schedule, Sched!cas_task_state
    <2>2. Sched!schedule(q, Append(runq, current), st, [uctx EXCEPT ![current] = f], w)
        BY <1>3 DEF Sched!scheduler_on_schedule
    <2>3. q \in QueueType
        BY <1>0, <2>1, QueueLemma
    <2>4. /\ st \in [Spaces -> Statuses]
          /\ NobodyNew(st)
        BY <1>2, <2>1
    <2> HIDE DEF st, q
    <2> QED
        BY <1>1, <1>3, <2>2, <2>3, <2>4
<1>4. CASE Sched!SyscallYield \/ Sched!common_interrupt_handler
    BY <1>3, <1>4 DEF Sched!SyscallYield, Sched!common_interrupt_handler, Sched!Handles
<1>5. CASE Sched!SyscallPark
    <2> DEFINE st == [status EXCEPT ![current] = "WAITING"]
    <2>1. /\ cpu = "kernel" /\ current \in Spaces /\ status[current] = "RUNNING"
          /\ Sched!schedule(rq, runq, st, [uctx EXCEPT ![current] = Sched!Returned("ok")],
                            Sched!scheduler_cancel_deadline(wdt))
        BY <1>0, <1>5 DEF Sched!SyscallPark, Sched!Handles, Sched!scheduler_on_park,
            Sched!cas_task_state
    <2>2. /\ st \in [Spaces -> Statuses]
          /\ NobodyNew(st)
        BY <1>2, <2>1
    <2> HIDE DEF st
    <2> QED
        BY <1>0, <1>1, <2>1, <2>2
<1>6. CASE Sched!SyscallDrop
    <2>1. cpu = "kernel" /\ Sched!scheduler_on_drop
        BY <1>6 DEF Sched!SyscallDrop, Sched!Handles
    <2>2. CASE current = NULL
        <3>1. Sched!schedule(rq, runq, status, uctx, Sched!scheduler_cancel_deadline(wdt))
            BY <2>1, <2>2 DEF Sched!scheduler_on_drop
        <3>2. NobodyNew(status)
            BY DEF NobodyNew
        <3> QED
            BY <1>0, <1>1, <2>1, <3>1, <3>2
    <2>3. CASE current # NULL
        <3>1. /\ current \in Spaces /\ status[current] = "RUNNING"
              /\ cpu' = "halt" /\ current' = NULL /\ UNCHANGED rq
              /\ status' = [status EXCEPT ![current] = "DEAD"]
            BY <1>0, <2>1, <2>3 DEF Sched!scheduler_on_drop, Sched!cas_task_state,
                Sched!release_task
        <3> QED
            BY <1>0, <1>2, <2>1, <3>1 DEF Scheduled, SchedType, QueueType, Statuses
    <2> QED
        BY <2>2, <2>3
<1> QED
    BY <1>4, <1>5, <1>6

-----------------------------------------------------------------------------
(* KInv is inductive. *)

\* A reset leaves both as Init does.
LEMMA InitKInv == KInit => KInv
PROOF
<1> SUFFICES ASSUME KInit PROVE KInv
    OBVIOUS
<1>1. SInv
    BY InitSInv DEF KInit
<1>2. SchedType
    BY DEF KInit, Sched!Init, Sched!EmptyQueue, SchedType, QueueType, Statuses
<1>3. PhaseInv /\ CurrentInv
    BY DEF KInit, Init, Sched!Init, PhaseInv, CurrentInv
<1>4. LoadedInv
    BY DEF KInit, Init, NoEntries, Sched!Init, LoadedInv, RunnableIsLoaded
<1> QED
    BY <1>1, <1>2, <1>3, <1>4 DEF KInv

\* create_task and scheduler_ready_task: who becomes runnable has its code.
LEMMA LoadAppKInv == ASSUME KInv, NEW t \in Spaces, LoadApp(t) PROVE KInv'
PROOF
<1>0. /\ current \in Spaces \cup {NULL} /\ status \in [Spaces -> Statuses] /\ rq \in QueueType
      /\ t # NULL /\ SInv
    BY Ranges DEF KInv, SchedType
<1>1. CASE Sched!create_task(t) /\ create_task(t)
    <2>1. /\ cpu = "boot" /\ status[t] = "NONE" /\ status' = [status EXCEPT ![t] = "WAITING"]
          /\ UNCHANGED <<cpu, trap, current, rq>>
        BY <1>1 DEF Sched!create_task
    <2>2. /\ phase = "boot" /\ load = NULL /\ phase' = phase /\ free["data"] # {}
          /\ MapPage(t, "data", UCTX_PAGE_INDEX, umem_alloc_page("data"))
        BY <1>1 DEF create_task
    <2>3. PICK c \in 1..NPages, d \in 0..NPages :
              load' = [space |-> t, done |-> [k \in Kinds |-> 0],
                       size |-> [k \in Kinds |-> IF k = "code" THEN c ELSE d]]
        BY <1>1 DEF create_task
    <2>4. load'.space = t /\ load'.size["code"] >= 1
        BY <2>3, SizeAssumption DEF Kinds
    <2>5. SInv'
        BY <1>0, <1>1, CreateSInv
    <2>6. SchedType'
        BY <1>0, <2>1 DEF SchedType, Statuses, QueueType
    <2>7. PhaseInv' /\ CurrentInv'
        BY <2>1, <2>2 DEF KInv, PhaseInv, CurrentInv
    <2>8. \A u \in Spaces, k \in Kinds, v \in Pages :
              u # t => entries'[u][k][v] = entries[u][k][v]
        <3>1. "data" \in Kinds /\ UCTX_PAGE_INDEX \in Pages
            BY Ranges DEF Kinds
        <3>2. \A u \in Spaces, k \in Kinds, v \in Pages :
                  u # t \/ k # "data" \/ v # UCTX_PAGE_INDEX => entries'[u][k][v] = entries[u][k][v]
            BY <1>0, <2>2, <3>1, MapLemma
        <3> QED
            BY <3>2
    <2>9. \A u \in Spaces : status'[u] = IF u = t THEN "WAITING" ELSE status[u]
        BY <1>0, <2>1
    <2>10. LoadedInv'
        <3>1. ASSUME NEW u \in Spaces, status'[u] \in {"RUNNABLE", "RUNNING"}
              PROVE  /\ entries'[u]["code"][0] # NULL
                     /\ entries'[u]["data"][UCTX_PAGE_INDEX] # NULL
                     /\ load'.space # u
            <4>1. u # t /\ status[u] \in {"RUNNABLE", "RUNNING"}
                BY <2>9, <3>1
            <4>2. entries[u]["code"][0] # NULL /\ entries[u]["data"][UCTX_PAGE_INDEX] # NULL
                BY <4>1 DEF KInv, LoadedInv, RunnableIsLoaded
            <4> QED
                BY <2>4, <2>8, <4>1, <4>2, Ranges DEF Kinds
        <3>2. entries'[t]["data"][UCTX_PAGE_INDEX] # NULL
            <4>1. "data" \in Kinds /\ UCTX_PAGE_INDEX \in Pages
                BY Ranges DEF Kinds
            <4> QED
                BY <1>0, <2>2, <4>1, MapLemma, Ranges
        <3> QED
            BY <2>4, <2>9, <3>1, <3>2 DEF LoadedInv, RunnableIsLoaded
    <2> QED
        BY <2>5, <2>6, <2>7, <2>10 DEF KInv
<1>2. CASE load # NULL /\ load.space = t /\ Sched!scheduler_ready_task(t) /\ LoadDone
    <2>1. /\ cpu = "boot" /\ status[t] = "WAITING" /\ status' = [status EXCEPT ![t] = "RUNNABLE"]
          /\ rq' = Sched!global_run_queue_put(rq, t)
          /\ UNCHANGED <<cpu, trap, current>>
        BY <1>2 DEF Sched!scheduler_ready_task, Sched!cas_task_state
    <2>2. /\ load.done = load.size /\ load' = NULL
          /\ UNCHANGED <<phase, free, entries, table, bindingVars>>
        BY <1>2 DEF LoadDone
    <2>3. SInv'
        BY <1>0, <1>2, QuietBootSInv
    <2>4. SchedType'
        BY <1>0, <2>1, QueueLemma DEF SchedType, Statuses, QueueType
    <2>5. PhaseInv' /\ CurrentInv'
        BY <2>1, <2>2 DEF KInv, PhaseInv, CurrentInv
    <2>6. entries[t]["code"][0] # NULL
        <3>1. load \in [space : Spaces, done : [Kinds -> 0..NPages], size : [Kinds -> 0..NPages]]
            BY <1>0, <1>2 DEF SInv, TypeOK
        <3>2. load.done["code"] >= 1 /\ load.done["code"] \in 0 .. NPages /\ "code" \in Kinds
            BY <1>2, <2>2, <3>1 DEF KInv, LoadedInv, Kinds
        <3>3. 0 \in 0 .. load.done["code"] - 1
            BY <3>2, SizeAssumption
        <3> QED
            BY <1>0, <1>2, <3>2, <3>3 DEF SInv, LoadInv
    <2>7. \A u \in Spaces : status'[u] = IF u = t THEN "RUNNABLE" ELSE status[u]
        BY <1>0, <2>1
    <2>8. LoadedInv'
        BY <1>2, <2>2, <2>6, <2>7 DEF KInv, LoadedInv, RunnableIsLoaded
    <2> QED
        BY <2>3, <2>4, <2>5, <2>8 DEF KInv
<1> QED
    BY <1>1, <1>2 DEF LoadApp

\* The loops write only to the task that is loaded, which waits.
LEMMA LoadPagesKInv == ASSUME KInv, LoadPages PROVE KInv'
PROOF
<1>1. PICK k \in Kinds : LoadPage(k)
    BY DEF LoadPages
<1>2. /\ SInv
      /\ UNCHANGED <<cpu, trap, current, status, rq>>
    BY DEF KInv, LoadPages, schedVars
<1>3. SInv'
    BY <1>1, <1>2, LoadPageSInv
<1>4. /\ phase = "boot" /\ phase' = phase /\ free[k] # {} /\ load # NULL
      /\ MapPage(load.space, k, load.done[k], umem_alloc_page(k))
      /\ load' = [load EXCEPT !.done[k] = @ + 1]
      /\ load.done[k] < load.size[k] /\ load.size[k] < NPages
    BY <1>1 DEF LoadPage, Loads, SizesFit
<1>5. load \in [space : Spaces, done : [Kinds -> 0..NPages], size : [Kinds -> 0..NPages]]
    BY <1>2, <1>4 DEF SInv, TypeOK
<1>6. /\ load.space \in Spaces /\ load.done[k] \in Pages /\ load.done[k] # VDSO_PAGE_INDEX
      /\ load'.space = load.space /\ load'.size = load.size
    <2>1. load.space \in Spaces /\ load.done[k] \in Pages /\ load.done[k] # VDSO_PAGE_INDEX
        BY <1>4, <1>5, SizeAssumption DEF Pages, VDSO_PAGE_INDEX
    <2>2. load'.space = load.space /\ load'.size = load.size
        BY <1>4, <1>5
    <2> QED
        BY <2>1, <2>2
<1>7. \A u \in Spaces, l \in Kinds, v \in Pages :
          u # load.space => entries'[u][l][v] = entries[u][l][v]
    BY <1>2, <1>4, <1>6, MapLemma
<1>8. SchedType' /\ PhaseInv' /\ CurrentInv'
    BY <1>2, <1>4 DEF KInv, SchedType, QueueType, PhaseInv, CurrentInv
<1>9. /\ status[load.space] = "WAITING" /\ load.size["code"] >= 1 /\ RunnableIsLoaded
      /\ entries[load.space]["data"][UCTX_PAGE_INDEX] # NULL
    BY <1>4 DEF KInv, LoadedInv
<1>10. LoadedInv'
    <2>1. ASSUME NEW u \in Spaces, status[u] \in {"RUNNABLE", "RUNNING"}
          PROVE  /\ entries'[u]["code"][0] # NULL
                 /\ entries'[u]["data"][UCTX_PAGE_INDEX] # NULL
                 /\ load'.space # u
        BY <1>6, <1>7, <1>9, <2>1, Ranges DEF RunnableIsLoaded, Kinds
    <2>2. entries'[load.space]["data"][UCTX_PAGE_INDEX] # NULL
        <3>1. /\ "data" \in Kinds /\ UCTX_PAGE_INDEX \in Pages
              /\ load.done[k] # UCTX_PAGE_INDEX
            BY <1>6, Ranges DEF Kinds, UCTX_PAGE_INDEX, VDSO_PAGE_INDEX
        <3> QED
            BY <1>2, <1>4, <1>6, <1>9, <3>1, MapLemma
    <2> QED
        BY <1>2, <1>6, <1>9, <2>1, <2>2 DEF LoadedInv, RunnableIsLoaded
<1> QED
    BY <1>3, <1>8, <1>10 DEF KInv

\* The failures of the boot and its end.
LEMMA QuietKInv == ASSUME KInv, LoadError \/ Start PROVE KInv'
PROOF
<1>1. SInv'
    BY QuietBootSInv, LoadFailsSInv DEF KInv, LoadError, Start
<1>2. /\ cpu = "boot" /\ UNCHANGED <<current, status, rq>>
      /\ \/ cpu' = "halt" /\ phase' = "halt"
         \/ cpu' = "kernel" /\ trap' = "drop" /\ phase' = "run"
      /\ UNCHANGED <<load, entries>>
    BY DEF LoadError, Start, Sched!BootFail, Sched!scheduler_drop_current, scheduler_drop_current,
        RejectHeader, create_task_fails, LoadFails
<1>3. SchedType' /\ PhaseInv' /\ CurrentInv'
    BY <1>2 DEF KInv, SchedType, QueueType, PhaseInv, CurrentInv
<1>4. LoadedInv'
    BY <1>2 DEF KInv, LoadedInv, RunnableIsLoaded
<1> QED
    BY <1>1, <1>3, <1>4 DEF KInv

\* A step that leaves the spaces alone keeps SInv.
LEMMA SameSInv == ASSUME SInv, UNCHANGED vars PROVE SInv'
PROOF
    BY NextSInv

\* The program, and the handlers that return to it or halt.
LEMMA SameSpaceKInv == ASSUME KInv, SameSpace PROVE KInv'
PROOF
<1>1. SInv' /\ UNCHANGED <<phase, load, entries, age>>
    BY SameSInv DEF KInv, SameSpace, vars, bindingVars
<1>2. UNCHANGED <<current, status, rq>>
    BY DEF SameSpace, Sched!User, Sched!Compute, Sched!WriteUctx, Sched!Syscall, Sched!Fault,
        Sched!Enter, Sched!WdtInterrupt, Sched!SyscallLog, Sched!SyscallInvalid,
        Sched!common_exception_handler, Sched!Tick
<1>3. \/ UNCHANGED <<cpu, trap>>
      \/ cpu = "user" /\ cpu' = "kernel"
      \/ cpu = "kernel" /\ trap # "drop" /\ cpu' = "user"
      \/ cpu = "kernel" /\ cpu' = "halt"
    BY DEF SameSpace, Sched!User, Sched!Compute, Sched!WriteUctx, Sched!Syscall, Sched!Fault,
        Sched!UserRuns, Sched!Enter, Sched!WdtInterrupt, Sched!SyscallLog, Sched!SyscallInvalid,
        Sched!Handles, Sched!Resume, Sched!common_exception_handler, Sched!Tick
<1>4. SchedType' /\ PhaseInv' /\ CurrentInv'
    BY <1>1, <1>2, <1>3 DEF KInv, SchedType, QueueType, PhaseInv, CurrentInv
<1>5. LoadedInv'
    BY <1>1, <1>2 DEF KInv, LoadedInv, RunnableIsLoaded
<1> QED
    BY <1>1, <1>4, <1>5 DEF KInv

\* The handlers that end in schedule: who becomes current is dispatched.
LEMMA RescheduleKInv == ASSUME KInv, Reschedule PROVE KInv'
PROOF
<1>1. cpu = "kernel" /\ Scheduled
    BY HandlerLemma DEF Reschedule
<1>2. phase = "run" /\ load = NULL /\ SInv
    BY <1>1 DEF KInv, PhaseInv, SInv, BootInv
<1>3. ASSUME UNCHANGED <<phase, load, entries>>, SInv',
             cpu' = "user" =>
                 age'[current'] = 1 /\ entries'[current']["data"][UCTX_PAGE_INDEX] # NULL
      PROVE  KInv'
    <2>1. SchedType'
        BY <1>1 DEF Scheduled
    <2>2. PhaseInv'
        BY <1>1, <1>2, <1>3 DEF Scheduled, PhaseInv
    <2>3. CurrentInv'
        BY <1>1, <1>3, Ranges DEF Scheduled, CurrentInv
    <2>4. LoadedInv'
        BY <1>1, <1>2, <1>3 DEF KInv, Scheduled, NobodyNew, Active, LoadedInv, RunnableIsLoaded
    <2> QED
        BY <1>3, <2>1, <2>2, <2>3, <2>4 DEF KInv
<1>4. CASE cpu' = "user" /\ Dispatch(current')
    <2>1. current' \in Spaces
        BY <1>1, <1>4 DEF Scheduled
    <2>2. SInv'
        BY <1>2, <1>4, <2>1, DispatchSInv
    <2>3. /\ UNCHANGED <<phase, load, entries>> /\ age' = Aged(current')
          /\ entries[current']["data"][UCTX_PAGE_INDEX] # NULL
        BY <1>4 DEF Dispatch
    <2>4. age'[current'] = 1
        BY <2>1, <2>3 DEF Aged
    <2> QED
        BY <1>3, <2>2, <2>3, <2>4
<1>5. CASE cpu' # "user" /\ UNCHANGED vars
    BY <1>2, <1>3, <1>5, SameSInv DEF vars
<1> QED
    BY <1>4, <1>5 DEF Reschedule

\* The watchdog's reset starts both over.
LEMMA RestartKInv == ASSUME KInv, Restart PROVE KInv'
PROOF
<1>1. KInit'
    BY DEF Restart, RestartSpaces, Sched!Reset, KInit, Init, Sched!Init, AllFree, NoEntries,
        VdsoOnly, VDSO_PAGE_INDEX, Sched!EmptyQueue, Sched!WdtOff, Sched!FreshContext
<1>2. KInit' => KInv'
    BY InitKInv, PTL
<1> QED
    BY <1>1, <1>2

\* KInv holds throughout.
THEOREM KernelInvariance == KSpec => []KInv
PROOF
<1>1. KInv /\ [KNext]_kvars => KInv'
    <2> SUFFICES ASSUME KInv, [KNext]_kvars PROVE KInv'
        OBVIOUS
    <2>1. CASE UNCHANGED kvars
        <3>1. UNCHANGED vars /\ UNCHANGED <<cpu, trap, current, status, rq>>
            BY <2>1 DEF kvars, schedVars
        <3>2. SInv' /\ UNCHANGED <<phase, load, entries, age>>
            BY <3>1, SameSInv DEF KInv, vars, bindingVars
        <3>3. SchedType' /\ PhaseInv' /\ CurrentInv' /\ LoadedInv'
            BY <3>1, <3>2 DEF KInv, SchedType, QueueType, PhaseInv, CurrentInv, LoadedInv,
                RunnableIsLoaded
        <3> QED
            BY <3>2, <3>3 DEF KInv
    <2> QED
        BY <2>1, LoadAppKInv, LoadPagesKInv, QuietKInv, SameSpaceKInv, RescheduleKInv,
            RestartKInv DEF KNext
<1> QED
    BY <1>1, InitKInv, PTL DEF KSpec

-----------------------------------------------------------------------------
(* The theorems. *)

\* Under the pid the cpu runs with, the current task reaches what it maps.
LEMMA RunningReaches ==
    ASSUME KInv, cpu = "user"
    PROVE  /\ current \in Spaces
           /\ \A k \in Kinds, v \in Pages : Reaches(pid_new, k, v) = Mapped(current, k, v)
           /\ entries[current]["code"][0] # NULL
           /\ entries[current]["data"][UCTX_PAGE_INDEX] # NULL
PROOF
<1>1. /\ current \in Spaces /\ age[current] = 1 /\ status[current] = "RUNNING"
      /\ entries[current]["data"][UCTX_PAGE_INDEX] # NULL
    BY DEF KInv, SchedType, CurrentInv
<1>2. entries[current]["code"][0] # NULL
    BY <1>1 DEF KInv, LoadedInv, RunnableIsLoaded
<1>3. primary # NULL /\ pid_new = Pid(primary) /\ bound_space[primary] = current
    BY <1>1 DEF KInv, SInv, PrimaryInv
<1>4. primary \in Bindings
    BY <1>3 DEF KInv, SInv, TypeOK
<1>5. HardwareAgrees
    BY ReachLemma DEF KInv
<1> QED
    BY <1>1, <1>2, <1>3, <1>4, <1>5 DEF HardwareAgrees

\* After any interleaving of preemptions, parks, evictions and reboots the
\* running program has its own space, its code and its ucontext.
THEOREM RunningTheorem == KSpec => []RunsInItsSpace
PROOF
<1>1. KInv => RunsInItsSpace
    <2> SUFFICES ASSUME KInv, cpu = "user"
                 PROVE  /\ \A k \in Kinds, v \in Pages : Reaches(pid_new, k, v) = Mapped(current, k, v)
                        /\ Mapped(current, "code", 0) # {}
                        /\ Mapped(current, "data", UCTX_PAGE_INDEX) # {}
        BY DEF RunsInItsSpace
    <2>1. Mapped(current, "code", 0) # {} /\ Mapped(current, "data", UCTX_PAGE_INDEX) # {}
        BY RunningReaches, Ranges DEF Mapped
    <2> QED
        BY <2>1, RunningReaches
<1> QED
    BY <1>1, KernelInvariance, PTL

\* No program reaches the saved registers of another task, at any address.
THEOREM RegistersTheorem == KSpec => []OthersRegistersUnreachable
PROOF
<1>1. KInv => OthersRegistersUnreachable
    <2> SUFFICES ASSUME KInv, cpu = "user", NEW t \in Spaces, t # current, NEW v \in Pages,
                        entries[t]["data"][UCTX_PAGE_INDEX] \in Reaches(pid_new, "data", v)
                 PROVE  FALSE
        BY DEF OthersRegistersUnreachable
    <2> DEFINE p == entries[t]["data"][UCTX_PAGE_INDEX]
    <2>1. current \in Spaces /\ p \in Mapped(current, "data", v) /\ "data" \in Kinds
        BY RunningReaches DEF Kinds
    <2>2. p = entries[current]["data"][v] /\ p # NULL
        BY <2>1, Ranges DEF Mapped
    <2>3. OwnInv /\ UCTX_PAGE_INDEX \in Pages
        BY Ranges DEF KInv, SInv
    <2> QED
        BY <2>1, <2>2, <2>3 DEF OwnInv
<1> QED
    BY <1>1, KernelInvariance, PTL

\* What the scheduler can pick is loaded, with its code and its ucontext.
THEOREM LoadedTheorem == KSpec => []RunnableIsLoaded
PROOF
<1>1. KInv => RunnableIsLoaded
    BY DEF KInv, LoadedInv
<1> QED
    BY <1>1, KernelInvariance, PTL

\* The isolation and the ownership of AddressSpace survive the reboots, which
\* its own specification does not have.
THEOREM RebootTheorem == KSpec => [](HardwareAgrees /\ PagesOwnedOnce)
PROOF
<1>1. KInv => HardwareAgrees /\ PagesOwnedOnce
    BY ReachLemma, OwnedLemma DEF KInv
<1> QED
    BY <1>1, KernelInvariance, PTL

\* Dispatching into address spaces takes nothing away from the scheduler: every
\* step of the kernel is a step of Scheduler or leaves it alone.
THEOREM SchedulerTheorem == KSpec => Sched!Spec
PROOF
<1>1. KInit => Sched!Init
    BY DEF KInit
<1>2. [KNext]_kvars => [Sched!Next]_(Sched!vars)
    BY DEF KNext, kvars, schedVars, Sched!vars, Sched!Next, Sched!Boot, Sched!Handler, LoadApp,
        LoadPages, LoadError, Start, SameSpace, Reschedule, Restart
<1> QED
    BY <1>1, <1>2, PTL DEF KSpec, Sched!Spec
=============================================================================
