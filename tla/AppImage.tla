------------------------------ MODULE AppImage ------------------------------
(***************************************************************************)
(* One application on its way from the initrd to the memory its program    *)
(* sees: loader_load_app (task/loader.c) cell by cell, with the arithmetic *)
(* of its checks, and the way back, get_user_ptr (task/syscall.c), which   *)
(* finds in memory what a program points at.                               *)
(*                                                                         *)
(* Sizes and addresses are words of the processor: they are added modulo   *)
(* Word.  A cell of memory holds the offset in the file it was copied      *)
(* from, or OLD when none of the copies wrote it.                          *)
(***************************************************************************)
EXTENDS Integers, FiniteSetsExt

CONSTANTS
    PageSize,       \* USER_PAGE_SIZE
    NPages,         \* MAX_PAGE_COUNT
    Word,           \* 2^32
    HeaderSize,     \* sizeof(app_header_t)
    USER_CODE_BASE, USER_DATA_BASE,
    Apps,           \* the headers and file sizes that may be in the initrd
    FreePages,      \* what earlier applications left of the pages
    MaxLog,         \* bound: the characters a log call prints
    NULL

Kinds == {"code", "data"}
Pages == 0 .. NPages - 1
OLD == -1

ASSUME ImageAssumption ==
    /\ PageSize \in Nat \ {0} /\ NPages \in Nat \ {0} /\ HeaderSize \in Nat \ {0}
    /\ Word \in Nat
    /\ USER_CODE_BASE \in Nat /\ PageSize <= USER_CODE_BASE /\ USER_DATA_BASE \in Nat
    /\ USER_CODE_BASE + NPages * PageSize < Word /\ USER_DATA_BASE + NPages * PageSize < Word
    /\ \A a \in Apps : /\ a.magic \in BOOLEAN
                       /\ {a.size, a.code, a.data, a.bss, a.entry} \subseteq 0 .. Word - 1
    /\ FreePages \subseteq [Kinds -> SUBSET Pages]
    /\ MaxLog \in Nat
    /\ NULL \notin Int

VARIABLES
    step,           \* how far loader_load_app is
    app,            \* the application: its header, and app_size
    before,         \* history: the free pages at the call
    free,           \* m_code_pages, m_data_pages
    entries,        \* task->mmu
    memory,         \* the cells of the physical pages
    ptr,            \* where the next page is copied from
    left,           \* code_size_left, data_size_left
    i,              \* the index of the loops
    user            \* the last log call: the pointer, what it became, what was printed

vars == <<step, app, before, free, entries, memory, ptr, left, i, user>>

Init ==
    /\ step = "header"
    /\ app \in Apps
    /\ before \in FreePages
    /\ free = before
    /\ entries = [k \in Kinds |-> [v \in Pages |-> NULL]]
    /\ memory = [k \in Kinds |-> [x \in 0 .. NPages * PageSize - 1 |-> OLD]]
    /\ ptr = 0
    /\ left = [k \in Kinds |-> 0]
    /\ i = 0
    /\ user = NULL

-----------------------------------------------------------------------------
Plus(x, y) == (x + y) % Word

MINU(a, b) == IF a <= b THEN a ELSE b

\* The sum wraps before the low bits are cleared.
ALIGN_UP(x) == LET up == Plus(x, PageSize - 1) IN up - (up % PageSize)

code_pages == ALIGN_UP(app.code) \div PageSize
data_pages == ALIGN_UP(Plus(app.data, app.bss)) \div PageSize

PagesOf(k) == IF k = "code" THEN code_pages ELSE data_pages

HeaderAccepted_data_only ==
    /\ app.magic
    /\ app.size >= HeaderSize
    /\ app.size >= app.data
    /\ USER_CODE_BASE <= app.entry /\ app.entry < Plus(USER_CODE_BASE, app.code)

\* The four checks before a task is made.
HeaderAccepted ==
    /\ app.magic
    /\ app.size >= HeaderSize
    /\ app.size >= Plus(app.code, app.data)
    /\ USER_CODE_BASE <= app.entry /\ app.entry < Plus(USER_CODE_BASE, app.code)

\* The task is not made yet: what the cleanup releases is not initialised.
RejectHeader ==
    /\ step = "header" /\ ~HeaderAccepted
    /\ step' = "failed"
    /\ UNCHANGED <<app, before, free, entries, memory, ptr, left, i, user>>

umem_alloc_page(k) == Min(free[k])

create_task_fails ==
    /\ step = "header" /\ HeaderAccepted /\ free["data"] = {}
    /\ step' = "failed"
    /\ UNCHANGED <<app, before, free, entries, memory, ptr, left, i, user>>

create_task_page_stays_free ==
    /\ step = "header" /\ HeaderAccepted /\ free["data"] # {}
    /\ entries' = [entries EXCEPT !["data"][NPages - 1] = umem_alloc_page("data")]
    /\ step' = "code"
    /\ ptr' = HeaderSize
    /\ left' = [k \in Kinds |-> IF k = "code" THEN app.code ELSE app.data]
    /\ UNCHANGED <<app, before, free, memory, i, user>>

\* The ucontext takes the last virtual page; then the locals are set.
create_task ==
    /\ step = "header" /\ HeaderAccepted /\ free["data"] # {}
    /\ free' = [free EXCEPT !["data"] = @ \ {umem_alloc_page("data")}]
    /\ entries' = [entries EXCEPT !["data"][NPages - 1] = umem_alloc_page("data")]
    /\ step' = "code"
    /\ ptr' = HeaderSize
    /\ left' = [k \in Kinds |-> IF k = "code" THEN app.code ELSE app.data]
    /\ UNCHANGED <<app, before, memory, i, user>>

SizesFit == code_pages < NPages /\ data_pages < NPages

\* The pages the loops have written down in pages[].
Taken(k) ==
    {entries[k][v] : v \in IF step = k THEN 0 .. i - 1
                           ELSE IF step = "data" THEN 0 .. code_pages - 1 ELSE {}}

FreeTaken_as_code == [free EXCEPT !["code"] = @ \cup Taken("code") \cup Taken("data")]

\* The cleanup of loader_load_app: the ucontext is not in pages[].
FreeTaken == [k \in Kinds |-> free[k] \cup Taken(k)]

\* The sizes are too large, or there is no page for the next iteration.
LoadFails ==
    /\ step \in Kinds
    /\ ~SizesFit \/ (i < PagesOf(step) /\ free[step] = {})
    /\ free' = FreeTaken
    /\ step' = "failed"
    /\ UNCHANGED <<app, before, entries, memory, ptr, left, i, user>>

Copied(k, page, n) ==
    [memory EXCEPT ![k] = [x \in DOMAIN @ |->
        IF x >= page * PageSize /\ x < page * PageSize + n
        THEN ptr + (x - page * PageSize) ELSE @[x]]]

LoadPage_whole_pages ==
    /\ step \in Kinds /\ SizesFit
    /\ i < PagesOf(step) /\ free[step] # {}
    /\ LET page == umem_alloc_page(step)
       IN  /\ free' = [free EXCEPT ![step] = @ \ {page}]
           /\ memory' = Copied(step, page, MINU(left[step], PageSize))
           /\ left' = [left EXCEPT ![step] = @ - MINU(@, PageSize)]
           /\ ptr' = ptr + PageSize
           /\ entries' = [entries EXCEPT ![step][i] = page]
    /\ i' = i + 1
    /\ UNCHANGED <<step, app, before, user>>

\* An iteration of the loop over the code or over the data.
LoadPage ==
    /\ step \in Kinds /\ SizesFit
    /\ i < PagesOf(step) /\ free[step] # {}
    /\ LET page == umem_alloc_page(step)
           to_copy == MINU(left[step], PageSize)
       IN  /\ free' = [free EXCEPT ![step] = @ \ {page}]
           /\ memory' = Copied(step, page, to_copy)
           /\ left' = [left EXCEPT ![step] = @ - to_copy]
           /\ ptr' = ptr + to_copy
           /\ entries' = [entries EXCEPT ![step][i] = page]
    /\ i' = i + 1
    /\ UNCHANGED <<step, app, before, user>>

\* From the code to the data, and from the data to scheduler_ready_task.
LoopEnds ==
    /\ step \in Kinds /\ SizesFit
    /\ i = PagesOf(step)
    /\ step' = IF step = "code" THEN "data" ELSE "ready"
    /\ i' = 0
    /\ UNCHANGED <<app, before, free, entries, memory, ptr, left, user>>

-----------------------------------------------------------------------------
(* The program runs and logs. *)

DATA_PAGE_INDEX(x) == (x - USER_DATA_BASE) \div PageSize

DATA_PAGE_ADDR_offset(p) == p * PageSize

DATA_PAGE_ADDR(p) == p * PageSize + USER_DATA_BASE

get_user_ptr_untranslated(p) == DATA_PAGE_ADDR(DATA_PAGE_INDEX(p))

\* An entry that is not mapped has page 0.
get_user_ptr(p) ==
    LET phys == entries["data"][DATA_PAGE_INDEX(p)]
    IN  DATA_PAGE_ADDR(IF phys = NULL THEN 0 ELSE phys)

\* The n cells the kernel finds at the address a; NULL behind the data pages.
Cells(a, n) ==
    [j \in 0 .. n - 1 |->
        LET x == (a - USER_DATA_BASE) + j
        IN  IF x < NPages * PageSize THEN memory["data"][x] ELSE NULL]

\* SYSCALL_LOG with a pointer into the data space: n characters are printed,
\* str_len or fewer up to a NUL, and nothing compares them with the page.
Log(p, n) ==
    /\ step = "ready"
    /\ user' = [ptr |-> p, became |-> get_user_ptr(p), shown |-> Cells(get_user_ptr(p), n), len |-> n]
    /\ UNCHANGED <<step, app, before, free, entries, memory, ptr, left, i>>

Next ==
    \/ RejectHeader \/ create_task_fails \/ create_task \/ LoadFails \/ LoadPage \/ LoopEnds
    \/ \E p \in USER_DATA_BASE .. USER_DATA_BASE + NPages * PageSize - 1, n \in 0 .. MaxLog : Log(p, n)

Spec == Init /\ [][Next]_vars

-----------------------------------------------------------------------------
(* Properties. *)

\* The locals stay in their ranges: the counters never wrap below zero and the
\* loops never leave the page arrays.
TypeOK ==
    /\ step \in {"header", "code", "data", "ready", "failed"}
    /\ app \in Apps /\ before \in FreePages
    /\ free \in [Kinds -> SUBSET Pages]
    /\ entries \in [Kinds -> [Pages -> Pages \cup {NULL}]]
    /\ ptr \in Nat
    /\ left \in [Kinds -> 0 .. Word - 1]
    /\ i \in 0 .. NPages - 1
    /\ user # NULL => user.became >= USER_DATA_BASE

\* What the program sees at a virtual cell of its code or its data.
Seen(k, x) ==
    LET page == entries[k][x \div PageSize]
    IN  IF page = NULL THEN NULL ELSE memory[k][(page * PageSize) + (x % PageSize)]

\* The size of data and bss, rounded up to pages, is a word: the code does not
\* check it, and a bss close to 2^32 leaves data behind.
DataFitsWord == app.data + app.bss + PageSize - 1 < Word

\* Loader: when the task is ready, the program sees every cell of its code and
\* of its data, in order, at the addresses it was linked for, whatever pages
\* were free, and its entry is one of its own instructions.  Code of any size
\* is safe, by the check of the entry.
ProgramInPlace ==
    step = "ready" /\ DataFitsWord =>
        /\ \A x \in 0 .. app.code - 1 : Seen("code", x) = HeaderSize + x
        /\ \A x \in 0 .. app.data - 1 : Seen("data", x) = HeaderSize + app.code + x
        /\ Seen("code", app.entry - USER_CODE_BASE) = HeaderSize + (app.entry - USER_CODE_BASE)

\* The last virtual page stays the vdso's for code, and for data it stays the
\* ucontext create_task wrote: no size a header can have lets the loops reach
\* it, and the copies leave the ucontext alone.
ReservedPagesKept ==
    step = "ready" =>
        /\ entries["code"][NPages - 1] = NULL
        /\ entries["data"][NPages - 1] = Min(before["data"])
        /\ \A x \in (NPages - 1) * PageSize .. NPages * PageSize - 1 : Seen("data", x) = OLD

\* The cleanup gives every page of the loops back to where it came from: after
\* a failure only the ucontext is missing.
FailureFreesLoaded ==
    step = "failed" =>
        /\ free["code"] = before["code"]
        /\ free["data"] \in {before["data"]} \cup {before["data"] \ {Min(before["data"])} : p \in before["data"]}

\* What a log call prints is the program's own memory as the program sees it,
\* from the start of the page it points into, as long as it has that page and
\* asks for no more than a page: the file's data, through the copies, the
\* mapping and the translation back.  Longer strings go on in the next physical
\* page, whoever has it, and an address without a page is physical page 0.
LogShowsOwnPage ==
    user # NULL =>
        LET page == DATA_PAGE_INDEX(user.ptr)
        IN  entries["data"][page] # NULL /\ user.len <= PageSize =>
                \A j \in 0 .. user.len - 1 : user.shown[j] = Seen("data", page * PageSize + j)

\* How far behind the application the copies read: at most a header, which the
\* check of the sizes leaves out (loader.c:19), as long as code_size + data_size
\* is a word.  Where the sum wraps, the check passes in a file of any size and
\* they go on to the end of the pages.
ReadsBounded ==
    \A k \in Kinds : \A x \in DOMAIN memory[k] :
        memory[k][x] < HeaderSize + IF app.code + app.data < Word THEN app.size
                                    ELSE app.code + data_pages * PageSize

-----------------------------------------------------------------------------
(* What a comment of the code says and the code does not keep. *)

\* syscall.c:12-14, "converting back to a full address": what get_user_ptr
\* returns is where the cell the program points at lies.
FullAddress ==
    (user # NULL /\ entries["data"][DATA_PAGE_INDEX(user.ptr)] # NULL) =>
        user.became = DATA_PAGE_ADDR(entries["data"][DATA_PAGE_INDEX(user.ptr)])
                      + ((user.ptr - USER_DATA_BASE) % PageSize)
=============================================================================
