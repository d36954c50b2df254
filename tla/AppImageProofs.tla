--------------------------- MODULE AppImageProofs ---------------------------
(***************************************************************************)
(* Proofs about AppImage for any page size, any number of pages, any       *)
(* headers and any pages earlier applications left.                        *)
(*                                                                         *)
(* AInv follows the two loops of loader_load_app: so many pages are in the *)
(* table, all different and all from what was free, each with its part of  *)
(* the file, and the two locals say where the next part starts.            *)
(***************************************************************************)
EXTENDS AppImage, LeastElement

\* A task has been made for the application.
Loading == {"code", "data", "ready"}

\* Where a section starts in the file, and how long it is.
Offset(k) == IF k = "code" THEN HeaderSize ELSE HeaderSize + app.code
Length(k) == IF k = "code" THEN app.code ELSE app.data

\* How many pages of a section are loaded, and which ones they are.
Loaded(k) ==
    IF step = k THEN i ELSE IF step \in {"data", "ready"} THEN PagesOf(k) ELSE 0

Mapped(k) == {entries[k][v] : v \in 0 .. Loaded(k) - 1}

\* The pages the loops take from: the first data page is the ucontext's.
ucontext == Min(before["data"])
Supply(k) == IF k = "code" THEN before["code"] ELSE before["data"] \ {ucontext}

LocalsInv ==
    /\ step \in Loading => HeaderAccepted
    /\ step \in {"data", "ready"} => SizesFit
    /\ step \in {"header", "ready"} => i = 0
    /\ \A k \in Kinds : step = k =>
        /\ i = 0 \/ (SizesFit /\ i <= PagesOf(k))
        /\ left[k] = Length(k) - MINU(i * PageSize, Length(k))
        /\ ptr + left[k] = Offset(k) + Length(k)
    /\ step = "code" => left["data"] = app.data

FreeInv ==
    /\ step = "header" => free = before
    /\ step \in Loading => /\ before["data"] # {}
                           /\ \A k \in Kinds : free[k] = Supply(k) \ Mapped(k)
    /\ FailureFreesLoaded

EntryInv ==
    /\ step = "header" => \A k \in Kinds, v \in Pages : entries[k][v] = NULL
    /\ step \in Loading => \A k \in Kinds :
        /\ \A v \in 0 .. Loaded(k) - 1 : entries[k][v] \in Supply(k)
        /\ \A v, w \in 0 .. Loaded(k) - 1 : entries[k][v] = entries[k][w] => v = w
        /\ \A v \in Loaded(k) .. NPages - 1 :
               entries[k][v] = IF k = "data" /\ v = NPages - 1 THEN ucontext ELSE NULL

\* Only the pages of the loops are written, and each has its part of the file.
MemoryInv ==
    /\ memory \in [Kinds -> [0 .. NPages * PageSize - 1 -> Int]]
    /\ step = "header" => \A k \in Kinds, x \in 0 .. NPages * PageSize - 1 : memory[k][x] = OLD
    /\ step \in Loading => \A k \in Kinds :
        /\ \A p \in Pages \ Mapped(k), y \in 0 .. PageSize - 1 : memory[k][p * PageSize + y] = OLD
        /\ \A v \in 0 .. Loaded(k) - 1, y \in 0 .. PageSize - 1 :
               v * PageSize + y < Length(k) =>
                   memory[k][entries[k][v] * PageSize + y] = Offset(k) + (v * PageSize + y)

\* Nothing behind the two sections is copied, and nothing that is behind the
\* pages of the data.
ReadInv ==
    \A k \in Kinds, x \in 0 .. NPages * PageSize - 1 :
        memory[k][x] # OLD =>
            /\ HeaderAccepted
            /\ memory[k][x] < HeaderSize + app.code + app.data
            /\ memory[k][x] < HeaderSize + app.code + data_pages * PageSize

UserInv ==
    user # NULL =>
        /\ step = "ready"
        /\ user.ptr \in USER_DATA_BASE .. USER_DATA_BASE + NPages * PageSize - 1
        /\ user.became = get_user_ptr(user.ptr)

AInv ==
    /\ TypeOK /\ LocalsInv /\ FreeInv /\ EntryInv /\ MemoryInv /\ ReadInv /\ UserInv
-----------------------------------------------------------------------------
(* Pages and words. *)

LEMMA ConstantFacts ==
    /\ PageSize \in Nat /\ PageSize >= 1 /\ NPages \in Nat /\ NPages >= 1
    /\ HeaderSize \in Nat /\ HeaderSize >= 1 /\ Word \in Nat /\ Word >= 1
    /\ USER_CODE_BASE \in Nat /\ PageSize <= USER_CODE_BASE /\ USER_CODE_BASE < Word
    /\ USER_DATA_BASE \in Nat /\ NPages * PageSize \in Nat
    /\ NULL \notin Int
PROOF
<1>1. PageSize \in Nat /\ NPages \in Nat /\ NPages * PageSize \in Nat
    BY ImageAssumption
<1> QED
    BY <1>1, ImageAssumption

LEMMA Header ==
    ASSUME app \in Apps
    PROVE  /\ app.size \in 0 .. Word - 1 /\ app.code \in 0 .. Word - 1
           /\ app.data \in 0 .. Word - 1 /\ app.bss \in 0 .. Word - 1
           /\ app.entry \in 0 .. Word - 1
PROOF
    BY ImageAssumption

LEMMA Products ==
    ASSUME NEW p \in Nat, NEW q \in Nat
    PROVE  /\ p * PageSize \in Nat
           /\ p < q => p * PageSize + PageSize <= q * PageSize
           /\ (p + 1) * PageSize = p * PageSize + PageSize
PROOF
<1>1. PageSize \in Nat /\ PageSize >= 1
    BY ConstantFacts
<1> QED
    BY <1>1

\* A cell of a page is a cell of the memory, and its address gives both back.
LEMMA PageCell ==
    ASSUME NEW p \in Pages, NEW y \in 0 .. PageSize - 1
    PROVE  /\ p * PageSize + y \in 0 .. NPages * PageSize - 1
           /\ (p * PageSize + y) \div PageSize = p
           /\ (p * PageSize + y) % PageSize = y
PROOF
<1>1. PageSize \in Nat \ {0} /\ p \in Nat /\ p < NPages /\ NPages \in Nat
    BY ConstantFacts DEF Pages
<1>2. p * PageSize + PageSize <= NPages * PageSize /\ p * PageSize \in Nat
    BY <1>1, Products
<1>3. NPages * PageSize \in Nat
    BY ConstantFacts
<1>4. (p * PageSize + y) \div PageSize = p /\ (p * PageSize + y) % PageSize = y
    BY <1>1
<1>5. p * PageSize + y \in 0 .. NPages * PageSize - 1
    <2> DEFINE a == p * PageSize
               b == NPages * PageSize
    <2>1. a \in Nat /\ b \in Nat /\ a + PageSize <= b
        BY <1>2, <1>3
    <2> HIDE DEF a, b
    <2>2. a + y \in 0 .. b - 1
        BY <1>1, <2>1
    <2> QED
        BY <2>2 DEF a, b
<1> QED
    BY <1>4, <1>5

\* Cells of different pages are different.
LEMMA PagesApart ==
    ASSUME NEW p \in Pages, NEW q \in Pages, p # q, NEW y \in 0 .. PageSize - 1
    PROVE  ~(/\ q * PageSize + y >= p * PageSize
             /\ q * PageSize + y < p * PageSize + PageSize)
PROOF
<1> DEFINE a == p * PageSize
           b == q * PageSize
<1>1. p \in Nat /\ q \in Nat /\ PageSize \in Nat /\ PageSize >= 1
    BY ConstantFacts DEF Pages
<1>2. a \in Nat /\ b \in Nat /\ (p < q => a + PageSize <= b) /\ (q < p => b + PageSize <= a)
    BY <1>1, Products
<1>3. a + PageSize <= b \/ b + PageSize <= a
    BY <1>1, <1>2
<1> HIDE DEF a, b
<1>4. ~(b + y >= a /\ b + y < a + PageSize)
    BY <1>1, <1>2, <1>3
<1> QED
    BY <1>4 DEF a, b

\* A cell of the memory is a cell of a page.
LEMMA CellPage ==
    ASSUME NEW x \in Nat
    PROVE  /\ x \div PageSize \in Nat /\ x % PageSize \in 0 .. PageSize - 1
           /\ x = (x \div PageSize) * PageSize + (x % PageSize)
           /\ \A n \in Nat : x < n * PageSize => x \div PageSize < n
PROOF
<1>1. PageSize \in Nat \ {0}
    BY ConstantFacts
<1>2. /\ x \div PageSize \in Nat /\ x % PageSize \in 0 .. PageSize - 1
      /\ x = (x \div PageSize) * PageSize + (x % PageSize)
    BY <1>1
<1>3. ASSUME NEW n \in Nat, x < n * PageSize PROVE x \div PageSize < n
    <2> DEFINE v == x \div PageSize
               y == x % PageSize
    <2>1. v \in Nat /\ y \in 0 .. PageSize - 1 /\ x = v * PageSize + y
        BY <1>2
    <2> HIDE DEF v, y
    <2>2. v * PageSize \in Nat /\ n * PageSize \in Nat
        BY <1>1, <2>1
    <2>3. ~(v >= n)
        <3>1. n = v => n * PageSize = v * PageSize
            OBVIOUS
        <3>2. n < v => n * PageSize + PageSize <= v * PageSize
            BY <2>1, Products
        <3> QED
            BY <1>1, <1>3, <2>1, <2>2, <3>1, <3>2
    <2>4. v < n
        BY <2>1, <2>3
    <2> QED
        BY <2>4 DEF v
<1> QED
    BY <1>2, <1>3

LEMMA WordSum ==
    ASSUME NEW x \in 0 .. Word - 1, NEW y \in 0 .. Word - 1
    PROVE  /\ Plus(x, y) \in 0 .. Word - 1
           /\ x + y < Word => Plus(x, y) = x + y
           /\ x + y >= Word => Plus(x, y) = x + y - Word
PROOF
    BY ConstantFacts DEF Plus

\* Rounding up to pages loses nothing as long as it stays a word.
LEMMA AlignUp ==
    ASSUME NEW x \in 0 .. Word - 1
    PROVE  /\ ALIGN_UP(x) \div PageSize \in Nat
           /\ x + PageSize - 1 < Word => x <= (ALIGN_UP(x) \div PageSize) * PageSize
PROOF
<1> DEFINE up == Plus(x, PageSize - 1)
           v == up \div PageSize
           y == up % PageSize
<1>1. PageSize \in Nat \ {0} /\ PageSize - 1 \in 0 .. Word - 1
    BY ConstantFacts
<1>2. up \in Nat /\ (x + PageSize - 1 < Word => up = x + PageSize - 1)
    BY <1>1, WordSum
<1>3. ALIGN_UP(x) = up - y
    BY DEF ALIGN_UP
<1> HIDE DEF up
<1>4. v \in Nat /\ y \in 0 .. PageSize - 1 /\ up = v * PageSize + y
    BY <1>2, CellPage
<1> HIDE DEF v, y
<1>5. v * PageSize \in Nat
    BY <1>1, <1>4
<1>6. ALIGN_UP(x) = v * PageSize
    <2> DEFINE a == v * PageSize
    <2>1. a \in Nat /\ up = a + y /\ ALIGN_UP(x) = up - y
        BY <1>3, <1>4, <1>5
    <2> HIDE DEF a
    <2>2. ALIGN_UP(x) = a
        BY <1>4, <2>1
    <2> QED
        BY <2>2 DEF a
<1>7. ALIGN_UP(x) \div PageSize = v
    BY <1>1, <1>4, <1>6
<1>8. x + PageSize - 1 < Word => x <= v * PageSize
    BY <1>1, <1>2, <1>4, <1>5
<1> QED
    BY <1>4, <1>7, <1>8

\* The check of the entry leaves no code whose size does not round up.
LEMMA PageCounts ==
    ASSUME app \in Apps
    PROVE  /\ code_pages \in Nat /\ data_pages \in Nat
           /\ HeaderAccepted => app.code <= code_pages * PageSize
           /\ DataFitsWord => app.data <= data_pages * PageSize
PROOF
<1>0. /\ app.code \in 0 .. Word - 1 /\ app.data \in 0 .. Word - 1 /\ app.bss \in 0 .. Word - 1
      /\ app.entry \in 0 .. Word - 1
    BY Header
<1>1. Plus(app.data, app.bss) \in 0 .. Word - 1
    BY <1>0, WordSum
<1>2. code_pages \in Nat /\ data_pages \in Nat
    BY <1>0, <1>1, AlignUp DEF code_pages, data_pages
<1>3. ASSUME HeaderAccepted PROVE app.code <= code_pages * PageSize
    <2>1. USER_CODE_BASE <= app.entry /\ app.entry < Plus(USER_CODE_BASE, app.code)
        BY <1>3 DEF HeaderAccepted
    <2>2. USER_CODE_BASE \in 0 .. Word - 1
        BY ConstantFacts
    <2>3. ~(USER_CODE_BASE + app.code >= Word)
        <3> SUFFICES ASSUME USER_CODE_BASE + app.code >= Word PROVE FALSE
            OBVIOUS
        <3>1. Plus(USER_CODE_BASE, app.code) = USER_CODE_BASE + app.code - Word
            BY <1>0, <2>2, WordSum
        <3> QED
            BY <1>0, <2>1, <2>2, <3>1, ConstantFacts
    <2>4. app.code + PageSize - 1 < Word
        BY <1>0, <2>2, <2>3, ConstantFacts
    <2> QED
        BY <1>0, <2>4, AlignUp DEF code_pages
<1>4. ASSUME DataFitsWord PROVE app.data <= data_pages * PageSize
    <2> DEFINE d == Plus(app.data, app.bss)
    <2>1. app.data + app.bss < Word /\ app.data + app.bss + PageSize - 1 < Word
        BY <1>0, <1>4, ConstantFacts DEF DataFitsWord
    <2>2. d = app.data + app.bss
        BY <1>0, <2>1, WordSum
    <2>3. d <= data_pages * PageSize
        BY <1>1, <2>1, <2>2, AlignUp DEF data_pages
    <2>4. data_pages * PageSize \in Nat
        BY <1>2, ConstantFacts
    <2> QED
        BY <1>0, <2>2, <2>3, <2>4
<1> QED
    BY <1>2, <1>3, <1>4

LEMMA FirstPage ==
    ASSUME NEW S \in SUBSET Pages, S # {}
    PROVE  Min(S) \in S
PROOF
<1>1. S \in SUBSET Nat
    BY ConstantFacts DEF Pages
<1>2. \E m \in S : \A n \in S : m <= n
    BY <1>1, NatMin
<1> QED
    BY <1>2 DEF Min

-----------------------------------------------------------------------------
(* The steps of the loader keep AInv. *)

LEMMA SameApp ==
    ASSUME app' = app
    PROVE  /\ HeaderAccepted' <=> HeaderAccepted
           /\ SizesFit' <=> SizesFit
           /\ code_pages' = code_pages /\ data_pages' = data_pages
           /\ \A k \in Kinds : /\ PagesOf(k)' = PagesOf(k)
                               /\ Offset(k)' = Offset(k) /\ Length(k)' = Length(k)
PROOF
<1>1. code_pages' = code_pages /\ data_pages' = data_pages
    BY DEF code_pages, data_pages, ALIGN_UP, Plus
<1> QED
    BY <1>1 DEF HeaderAccepted, SizesFit, PagesOf, Offset, Length, Plus

LEMMA SectionFacts ==
    ASSUME app \in Apps, NEW k \in Kinds
    PROVE  /\ PagesOf(k) \in Nat /\ Length(k) \in 0 .. Word - 1 /\ Offset(k) \in Nat
           /\ SizesFit => PagesOf(k) < NPages
PROOF
<1>1. code_pages \in Nat /\ data_pages \in Nat
    BY PageCounts
<1>2. app.code \in 0 .. Word - 1 /\ app.data \in 0 .. Word - 1 /\ HeaderSize \in Nat /\ Word \in Nat
    BY Header, ConstantFacts
<1> QED
    BY <1>1, <1>2 DEF PagesOf, Length, Offset, SizesFit, Kinds

LEMMA LoadedFacts ==
    ASSUME TypeOK, LocalsInv, NEW k \in Kinds
    PROVE  Loaded(k) \in Nat /\ Loaded(k) <= NPages - 1
PROOF
<1>1. /\ PagesOf(k) \in Nat /\ (SizesFit => PagesOf(k) < NPages)
      /\ i \in Nat /\ i <= NPages - 1 /\ NPages \in Nat /\ NPages >= 1
    BY SectionFacts, ConstantFacts DEF TypeOK
<1> QED
    BY <1>1 DEF Loaded, LocalsInv

LEMMA SupplyFacts ==
    ASSUME TypeOK
    PROVE  /\ before["code"] \in SUBSET Pages /\ before["data"] \in SUBSET Pages
           /\ before["data"] # {} => ucontext \in before["data"]
           /\ \A k \in Kinds : Supply(k) \in SUBSET Pages
PROOF
<1>1. before \in [Kinds -> SUBSET Pages]
    BY ImageAssumption DEF TypeOK
<1>2. before["code"] \in SUBSET Pages /\ before["data"] \in SUBSET Pages
    BY <1>1 DEF Kinds
<1> QED
    BY <1>2, FirstPage DEF ucontext, Supply

LEMMA InitAInv == Init => AInv
PROOF
<1> SUFFICES ASSUME Init PROVE AInv
    OBVIOUS
<1>1. app \in Apps /\ before \in FreePages /\ before \in [Kinds -> SUBSET Pages]
    BY ImageAssumption DEF Init
<1>2. TypeOK
    BY <1>1, ConstantFacts DEF Init, TypeOK, Kinds, Pages
<1>3. LocalsInv /\ FreeInv /\ EntryInv /\ ReadInv /\ UserInv
    BY DEF Init, LocalsInv, FreeInv, EntryInv, ReadInv, UserInv, Loading, Kinds,
        FailureFreesLoaded, OLD
<1>4. MemoryInv
    BY ConstantFacts DEF Init, MemoryInv, Loading, OLD
<1> QED
    BY <1>2, <1>3, <1>4 DEF AInv

LEMMA StutterAInv == ASSUME AInv, UNCHANGED vars PROVE AInv'
PROOF
<1>1. app' = app
    BY DEF vars
<1>2. TypeOK' /\ FailureFreesLoaded'
    BY DEF AInv, FreeInv, vars, TypeOK, FailureFreesLoaded
<1>3. \A k \in Kinds : /\ Loaded(k)' = Loaded(k) /\ Mapped(k)' = Mapped(k)
                       /\ Supply(k)' = Supply(k) /\ ucontext' = ucontext
    BY <1>1, SameApp DEF vars, Loaded, Mapped, Supply, ucontext
<1>4. LocalsInv'
    BY <1>1, SameApp DEF AInv, LocalsInv, vars
<1>5. FreeInv' /\ EntryInv'
    BY <1>2, <1>3 DEF AInv, FreeInv, EntryInv, vars
<1>6. MemoryInv' /\ ReadInv' /\ UserInv'
    BY <1>1, <1>3, SameApp DEF AInv, MemoryInv, ReadInv, UserInv, get_user_ptr, vars
<1> QED
    BY <1>2, <1>4, <1>5, <1>6 DEF AInv

\* A failure before there is a task takes nothing.
LEMMA RejectAInv == ASSUME AInv, RejectHeader \/ create_task_fails PROVE AInv'
PROOF
<1>1. /\ step = "header" /\ step' = "failed"
      /\ UNCHANGED <<app, before, free, entries, memory, ptr, left, i, user>>
    BY DEF RejectHeader, create_task_fails
<1>2. TypeOK' /\ LocalsInv' /\ EntryInv' /\ UserInv'
    BY <1>1 DEF AInv, TypeOK, LocalsInv, EntryInv, UserInv, Loading, Kinds
<1>3. FreeInv'
    BY <1>1 DEF AInv, FreeInv, FailureFreesLoaded, Loading
<1>4. MemoryInv' /\ ReadInv'
    BY <1>1, SameApp DEF AInv, MemoryInv, ReadInv, Loading
<1> QED
    BY <1>2, <1>3, <1>4 DEF AInv

\* create_task takes the first data page for the ucontext and writes nothing.
LEMMA CreateAInv == ASSUME AInv, create_task PROVE AInv'
PROOF
<1>0. /\ step = "header" /\ step' = "code" /\ HeaderAccepted /\ free = before /\ i = 0
      /\ before["data"] # {} /\ UNCHANGED <<app, before, memory, i, user>>
      /\ user = NULL
    BY DEF create_task, AInv, FreeInv, LocalsInv, UserInv
<1>1. ucontext \in before["data"] /\ ucontext \in Pages /\ ucontext' = ucontext
    BY <1>0, SupplyFacts DEF AInv, ucontext
<1>2. /\ free' = [free EXCEPT !["data"] = @ \ {ucontext}]
      /\ entries' = [entries EXCEPT !["data"][NPages - 1] = ucontext]
    BY <1>0 DEF create_task, umem_alloc_page, ucontext
<1>3. NPages - 1 \in Pages
    BY ConstantFacts DEF Pages
<1>4. /\ free \in [Kinds -> SUBSET Pages] /\ entries \in [Kinds -> [Pages -> Pages \cup {NULL}]]
    BY DEF AInv, TypeOK
<1>5. /\ free' \in [Kinds -> SUBSET Pages]
      /\ \A k \in Kinds : free'[k] = Supply(k)
    BY <1>0, <1>2, <1>4 DEF Supply, Kinds
<1>6. /\ entries' \in [Kinds -> [Pages -> Pages \cup {NULL}]]
      /\ \A k \in Kinds, v \in Pages :
             entries'[k][v] = IF k = "data" /\ v = NPages - 1 THEN ucontext ELSE NULL
    <2>1. entries' \in [Kinds -> [Pages -> Pages \cup {NULL}]]
        BY <1>1, <1>2, <1>3, <1>4 DEF Kinds
    <2>2. \A k \in Kinds, v \in Pages : entries[k][v] = NULL
        BY <1>0 DEF AInv, EntryInv
    <2> QED
        BY <1>2, <1>3, <1>4, <2>1, <2>2 DEF Kinds
<1>7. /\ app.code \in 0 .. Word - 1 /\ app.data \in 0 .. Word - 1 /\ HeaderSize \in Nat
      /\ app \in Apps
    BY Header, ConstantFacts DEF AInv, TypeOK
<1>8. /\ left' \in [Kinds -> 0 .. Word - 1] /\ left'["code"] = app.code
      /\ left'["data"] = app.data /\ ptr' = HeaderSize
    BY <1>7 DEF create_task, Kinds
<1>9. TypeOK'
    BY <1>0, <1>5, <1>6, <1>7, <1>8 DEF AInv, TypeOK
<1>10. \A k \in Kinds : /\ Loaded(k)' = 0 /\ Mapped(k)' = {} /\ Supply(k)' = Supply(k)
    BY <1>0 DEF Loaded, Mapped, Kinds, Supply, ucontext
<1>11. LocalsInv'
    <2>1. 0 * PageSize = 0
        BY ConstantFacts
    <2>2. MINU(0 * PageSize, app.code) = 0
        BY <1>7, <2>1 DEF MINU
    <2> QED
        BY <1>0, <1>7, <1>8, <2>1, <2>2, SameApp DEF LocalsInv, Kinds, Loading, Length, Offset
<1>12. FreeInv'
    BY <1>0, <1>5, <1>10 DEF FreeInv, FailureFreesLoaded
<1>13. EntryInv'
    <2>1. \A v \in 0 .. NPages - 1 : v \in Pages
        BY DEF Pages
    <2> QED
        BY <1>0, <1>1, <1>6, <1>10, <2>1 DEF EntryInv
<1>14. MemoryInv'
    <2>1. \A k \in Kinds, p \in Pages, y \in 0 .. PageSize - 1 : memory[k][p * PageSize + y] = OLD
        BY <1>0, PageCell DEF AInv, MemoryInv
    <2> QED
        BY <1>0, <1>10, <2>1 DEF AInv, MemoryInv
<1>15. ReadInv' /\ UserInv'
    BY <1>0, SameApp DEF AInv, ReadInv, UserInv
<1> QED
    BY <1>9, <1>11, <1>12, <1>13, <1>14, <1>15 DEF AInv

\* The cleanup gives back what the loops took: the supply is whole again.
LEMMA FailAInv == ASSUME AInv, LoadFails PROVE AInv'
PROOF
<1>0. /\ step \in Kinds /\ step \in Loading /\ step' = "failed" /\ free' = FreeTaken
      /\ UNCHANGED <<app, before, entries, memory, ptr, left, i, user>>
    BY DEF LoadFails, Loading, Kinds
<1>1. before["data"] # {} /\ \A k \in Kinds : free[k] = Supply(k) \ Mapped(k)
    BY <1>0 DEF AInv, FreeInv
<1>2. \A k \in Kinds : Mapped(k) \subseteq Supply(k)
    BY <1>0 DEF AInv, EntryInv, Mapped
<1>3. \A k \in Kinds : Taken(k) = Mapped(k)
    BY <1>0 DEF Taken, Mapped, Loaded, Kinds, PagesOf
<1>4. \A k \in Kinds : free'[k] = Supply(k)
    BY <1>0, <1>1, <1>2, <1>3 DEF FreeTaken
<1>5. \A k \in Kinds : Supply(k) \in SUBSET Pages
    BY SupplyFacts DEF AInv
<1>6. free' \in [Kinds -> SUBSET Pages]
    BY <1>0, <1>4, <1>5 DEF FreeTaken
<1>7. TypeOK' /\ LocalsInv' /\ EntryInv' /\ UserInv'
    BY <1>0, <1>6 DEF AInv, TypeOK, LocalsInv, EntryInv, UserInv, Loading, Kinds
<1>8. FreeInv'
    <2>1. free'["code"] = before["code"] /\ free'["data"] = before["data"] \ {Min(before["data"])}
        BY <1>4 DEF Supply, Kinds, ucontext
    <2> QED
        BY <1>0, <1>1, <2>1 DEF FreeInv, FailureFreesLoaded, Loading
<1>9. MemoryInv' /\ ReadInv'
    BY <1>0, SameApp DEF AInv, MemoryInv, ReadInv, Loading
<1> QED
    BY <1>7, <1>8, <1>9 DEF AInv

\* From the code to the data: all code is copied, so the data starts behind it.
LEMMA LoopEndsAInv == ASSUME AInv, LoopEnds PROVE AInv'
PROOF
<1>0. /\ step \in Kinds /\ SizesFit /\ i = PagesOf(step) /\ i' = 0
      /\ step' = IF step = "code" THEN "data" ELSE "ready"
      /\ UNCHANGED <<app, before, free, entries, memory, ptr, left, user>>
      /\ step \in Loading /\ HeaderAccepted
    BY DEF LoopEnds, AInv, LocalsInv, Loading, Kinds
<1>1. /\ app \in Apps /\ app.code \in Nat /\ app.data \in Nat /\ HeaderSize \in Nat
      /\ code_pages \in Nat /\ code_pages * PageSize \in Nat /\ app.code <= code_pages * PageSize
    BY <1>0, Header, PageCounts, ConstantFacts, Products DEF AInv, TypeOK
<1>2. TypeOK'
    BY <1>0, ConstantFacts DEF AInv, TypeOK, Kinds
<1>3. \A k \in Kinds : /\ Loaded(k)' = Loaded(k) /\ Mapped(k)' = Mapped(k)
                       /\ Supply(k)' = Supply(k) /\ ucontext' = ucontext
    <2>1. \A k \in Kinds : Loaded(k)' = Loaded(k)
        BY <1>0, SameApp DEF Loaded, Kinds
    <2> QED
        BY <1>0, <2>1 DEF Mapped, Supply, ucontext
<1>4. LocalsInv'
    <2>1. ASSUME step = "code"
          PROVE  /\ left["data"] = Length("data") - MINU(0 * PageSize, Length("data"))
                 /\ ptr + left["data"] = Offset("data") + Length("data")
        <3>1. /\ left["code"] = app.code - MINU(code_pages * PageSize, app.code)
              /\ ptr + left["code"] = HeaderSize + app.code /\ left["data"] = app.data
            BY <1>0, <2>1 DEF AInv, LocalsInv, Length, Offset, PagesOf, Kinds
        <3>2. left["code"] = 0
            BY <1>1, <3>1 DEF MINU
        <3>3. ptr = HeaderSize + app.code
            BY <1>1, <3>1, <3>2 DEF AInv, TypeOK
        <3>4. MINU(0 * PageSize, app.data) = 0
            BY <1>1, ConstantFacts DEF MINU
        <3> QED
            BY <1>1, <3>1, <3>3, <3>4 DEF Length, Offset
    <2> QED
        BY <1>0, <2>1, SameApp DEF LocalsInv, Kinds, Loading
<1>5. FreeInv' /\ EntryInv'
    BY <1>0, <1>3 DEF AInv, FreeInv, EntryInv, FailureFreesLoaded, Kinds
<1>6. MemoryInv' /\ ReadInv' /\ UserInv'
    BY <1>0, <1>3, SameApp DEF AInv, MemoryInv, ReadInv, UserInv, Kinds
<1> QED
    BY <1>2, <1>4, <1>5, <1>6 DEF AInv

\* get_user_ptr stays in the data space.
LEMMA LogAInv ==
    ASSUME AInv, NEW p \in USER_DATA_BASE .. USER_DATA_BASE + NPages * PageSize - 1,
           NEW n \in 0 .. MaxLog, Log(p, n)
    PROVE  AInv'
PROOF
<1>0. /\ step = "ready"
      /\ user' = [ptr |-> p, became |-> get_user_ptr(p), shown |-> Cells(get_user_ptr(p), n), len |-> n]
      /\ UNCHANGED <<step, app, before, free, entries, memory, ptr, left, i>>
    BY DEF Log
<1>1. get_user_ptr(p) >= USER_DATA_BASE
    <2> DEFINE x == p - USER_DATA_BASE
               e == entries["data"][DATA_PAGE_INDEX(p)]
               q == IF e = NULL THEN 0 ELSE e
    <2>1. x \in Nat /\ x < NPages * PageSize
        BY ConstantFacts
    <2>2. DATA_PAGE_INDEX(p) \in Pages
        <3>1. x \div PageSize \in Nat /\ x \div PageSize < NPages
            BY <2>1, CellPage, ConstantFacts
        <3> QED
            BY <3>1, ConstantFacts DEF DATA_PAGE_INDEX, Pages
    <2>3. e \in Pages \cup {NULL}
        BY <2>2 DEF AInv, TypeOK, Kinds
    <2>4. q \in Nat
        BY <2>3 DEF Pages
    <2>5. q * PageSize \in Nat
        BY <2>4, Products
    <2>6. get_user_ptr(p) = q * PageSize + USER_DATA_BASE
        BY DEF get_user_ptr, DATA_PAGE_ADDR
    <2> QED
        BY <2>5, <2>6, ConstantFacts
<1>2. TypeOK'
    BY <1>0, <1>1 DEF AInv, TypeOK
<1>3. \A k \in Kinds : /\ Loaded(k)' = Loaded(k) /\ Mapped(k)' = Mapped(k)
                       /\ Supply(k)' = Supply(k) /\ ucontext' = ucontext
    BY <1>0, SameApp DEF Loaded, Mapped, Supply, ucontext
<1>4. LocalsInv' /\ FreeInv' /\ EntryInv'
    BY <1>0, <1>3, SameApp DEF AInv, LocalsInv, FreeInv, EntryInv, FailureFreesLoaded, Kinds
<1>5. MemoryInv' /\ ReadInv'
    BY <1>0, <1>3, SameApp DEF AInv, MemoryInv, ReadInv
<1>6. UserInv'
    BY <1>0 DEF UserInv, get_user_ptr
<1> QED
    BY <1>2, <1>4, <1>5, <1>6 DEF AInv

\* An iteration: a new page from the supply, with the next part of the file.
LEMMA LoadPageAInv == ASSUME AInv, LoadPage PROVE AInv'
PROOF
<1> DEFINE page == Min(free[step])
           n == MINU(left[step], PageSize)
<1>0. /\ step \in Kinds /\ SizesFit /\ i < PagesOf(step) /\ free[step] # {}
      /\ free' = [free EXCEPT ![step] = @ \ {page}]
      /\ memory' = Copied(step, page, n)
      /\ left' = [left EXCEPT ![step] = @ - n]
      /\ ptr' = ptr + n
      /\ entries' = [entries EXCEPT ![step][i] = page]
      /\ i' = i + 1
      /\ UNCHANGED <<step, app, before, user>>
      /\ step \in Loading /\ HeaderAccepted
    BY DEF LoadPage, umem_alloc_page, AInv, LocalsInv, Loading, Kinds
<1>1. /\ free \in [Kinds -> SUBSET Pages] /\ entries \in [Kinds -> [Pages -> Pages \cup {NULL}]]
      /\ left \in [Kinds -> 0 .. Word - 1] /\ i \in Nat /\ ptr \in Nat /\ app \in Apps
    BY ConstantFacts DEF AInv, TypeOK
<1>2. page \in free[step] /\ page \in Pages
    BY <1>0, <1>1, FirstPage
<1>2a. page * PageSize \in Nat
    <2>1. page \in Nat
        BY <1>2 DEF Pages
    <2> QED
        BY <2>1, Products
<1>3. /\ free[step] = Supply(step) \ Mapped(step) /\ page \in Supply(step)
      /\ page \notin Mapped(step)
    BY <1>0, <1>2 DEF AInv, FreeInv
<1> HIDE DEF page
<1>4. PagesOf(step) \in Nat /\ PagesOf(step) < NPages /\ NPages \in Nat
    BY <1>0, <1>1, SectionFacts, ConstantFacts
<1>5. i \in Pages /\ i + 1 <= NPages - 1 /\ i + 1 \in 0 .. NPages - 1
    BY <1>0, <1>1, <1>4 DEF Pages
<1>6. /\ entries' \in [Kinds -> [Pages -> Pages \cup {NULL}]]
      /\ \A k \in Kinds, v \in Pages :
             entries'[k][v] = IF k = step /\ v = i THEN page ELSE entries[k][v]
    <2>1. entries' = [entries EXCEPT ![step] = [entries[step] EXCEPT ![i] = page]]
        BY <1>0, <1>1
    <2>2. entries[step] \in [Pages -> Pages \cup {NULL}]
        BY <1>0, <1>1
    <2>3. [entries[step] EXCEPT ![i] = page] \in [Pages -> Pages \cup {NULL}]
        BY <1>2, <1>5, <2>2
    <2>4. entries' \in [Kinds -> [Pages -> Pages \cup {NULL}]]
        BY <1>0, <1>1, <2>1, <2>3
    <2> QED
        BY <1>0, <1>1, <1>5, <2>1, <2>2, <2>4
<1>7. \A k \in Kinds : /\ Loaded(k)' = IF k = step THEN i + 1 ELSE Loaded(k)
                       /\ Supply(k)' = Supply(k) /\ ucontext' = ucontext
    BY <1>0, SameApp DEF Loaded, Supply, ucontext
<1>8. Loaded(step) = i
    BY DEF Loaded
<1>9. \A k \in Kinds : Loaded(k) \in Nat /\ \A v \in 0 .. Loaded(k) - 1 : v \in Pages
    BY <1>4, LoadedFacts DEF AInv, Pages
<1>10. \A k \in Kinds : Mapped(k)' = IF k = step THEN Mapped(k) \cup {page} ELSE Mapped(k)
    <2> SUFFICES ASSUME NEW k \in Kinds
                 PROVE  Mapped(k)' = IF k = step THEN Mapped(k) \cup {page} ELSE Mapped(k)
        OBVIOUS
    <2>0. Mapped(k)' = {entries'[k][v] : v \in 0 .. Loaded(k)' - 1}
        BY DEF Mapped
    <2>1. CASE k = step
        <3>1. Mapped(k)' = {entries'[k][v] : v \in 0 .. i}
            BY <1>1, <1>7, <2>0, <2>1
        <3>2. entries'[k][i] = page /\ \A v \in 0 .. i - 1 : entries'[k][v] = entries[k][v]
            BY <1>1, <1>5, <1>6, <1>8, <1>9, <2>1
        <3>3. Mapped(k) = {entries[k][v] : v \in 0 .. i - 1}
            BY <1>8, <2>1 DEF Mapped
        <3>4. 0 .. i = (0 .. i - 1) \cup {i}
            BY <1>1
        <3> QED
            BY <2>1, <3>1, <3>2, <3>3, <3>4
    <2>2. CASE k # step
        <3>1. \A v \in 0 .. Loaded(k) - 1 : entries'[k][v] = entries[k][v]
            BY <1>6, <1>9, <2>2
        <3>2. Mapped(k)' = {entries'[k][v] : v \in 0 .. Loaded(k) - 1}
            BY <1>7, <2>0, <2>2
        <3> QED
            BY <2>2, <3>1, <3>2 DEF Mapped
    <2> QED
        BY <2>1, <2>2
<1>11. /\ Length(step) \in Nat /\ Offset(step) \in Nat /\ PageSize \in Nat /\ PageSize >= 1
       /\ i * PageSize \in Nat /\ (i + 1) * PageSize = i * PageSize + PageSize
       /\ left[step] \in Nat /\ left[step] <= Word - 1 /\ Word \in Nat
    <2>1. i * PageSize \in Nat /\ (i + 1) * PageSize = i * PageSize + PageSize
        BY <1>1, Products
    <2> QED
        BY <1>0, <1>1, <2>1, SectionFacts, ConstantFacts
<1>12. /\ left[step] = Length(step) - MINU(i * PageSize, Length(step))
       /\ ptr + left[step] = Offset(step) + Length(step)
    BY <1>0 DEF AInv, LocalsInv
<1>13. n \in Nat /\ n <= left[step] /\ n <= PageSize
    BY <1>11 DEF MINU
<1>14. /\ left' \in [Kinds -> 0 .. Word - 1]
       /\ left'[step] = left[step] - n /\ \A k \in Kinds : k # step => left'[k] = left[k]
    BY <1>0, <1>1, <1>11, <1>13
<1>15. TypeOK'
    <2>1. free' \in [Kinds -> SUBSET Pages]
        BY <1>0, <1>1
    <2> QED
        BY <1>0, <1>1, <1>5, <1>6, <1>13, <1>14, <2>1 DEF AInv, TypeOK
<1>16. LocalsInv'
    <2>1. left'[step] = Length(step) - MINU((i + 1) * PageSize, Length(step))
        <3> DEFINE a == i * PageSize
        <3>1. /\ a \in Nat /\ (i + 1) * PageSize = a + PageSize
              /\ left[step] = Length(step) - MINU(a, Length(step))
            BY <1>11, <1>12
        <3> HIDE DEF a
        <3>2. left'[step] = Length(step) - MINU(a + PageSize, Length(step))
            BY <1>11, <1>14, <3>1 DEF MINU
        <3> QED
            BY <3>1, <3>2
    <2>2. ptr' + left'[step] = Offset(step) + Length(step)
        BY <1>0, <1>1, <1>11, <1>12, <1>13, <1>14
    <2>3. i + 1 <= PagesOf(step)
        BY <1>0, <1>1, <1>4
    <2>4. step = "code" => left'["data"] = app.data
        BY <1>0, <1>14 DEF AInv, LocalsInv, Kinds
    <2> QED
        BY <1>0, <2>1, <2>2, <2>3, <2>4, SameApp DEF LocalsInv, Kinds
<1>17. FreeInv'
    <2>1. \A k \in Kinds : free'[k] = Supply(k) \ Mapped(k)'
        BY <1>0, <1>1, <1>10 DEF AInv, FreeInv
    <2> QED
        BY <1>0, <1>7, <2>1 DEF AInv, FreeInv, FailureFreesLoaded, Kinds
<1>18. EntryInv'
    <2> SUFFICES ASSUME NEW k \in Kinds
                 PROVE  /\ \A v \in 0 .. Loaded(k)' - 1 : entries'[k][v] \in Supply(k)
                        /\ \A v, w \in 0 .. Loaded(k)' - 1 :
                               entries'[k][v] = entries'[k][w] => v = w
                        /\ \A v \in Loaded(k)' .. NPages - 1 : entries'[k][v] =
                               IF k = "data" /\ v = NPages - 1 THEN ucontext ELSE NULL
        BY <1>0, <1>7 DEF EntryInv, Kinds
    <2>1. /\ \A v \in 0 .. Loaded(k) - 1 : entries[k][v] \in Supply(k)
          /\ \A v, w \in 0 .. Loaded(k) - 1 : entries[k][v] = entries[k][w] => v = w
          /\ \A v \in Loaded(k) .. NPages - 1 : entries[k][v] =
                 IF k = "data" /\ v = NPages - 1 THEN ucontext ELSE NULL
        BY <1>0 DEF AInv, EntryInv
    <2>2. CASE k # step
        <3>1. Loaded(k)' = Loaded(k) /\ \A v \in Pages : entries'[k][v] = entries[k][v]
            BY <1>6, <1>7, <2>2
        <3>2. \A v \in Loaded(k) .. NPages - 1 : v \in Pages
            BY <1>4, <1>9 DEF Pages
        <3> QED
            BY <1>9, <2>1, <3>1, <3>2
    <2>3. CASE k = step
        <3>1. /\ Loaded(k)' = i + 1 /\ Loaded(k) = i /\ entries'[k][i] = page
              /\ \A v \in Pages : v # i => entries'[k][v] = entries[k][v]
            BY <1>5, <1>6, <1>7, <1>8, <2>3
        <3>2. \A v \in 0 .. i : v \in Pages /\ (v = i \/ v \in 0 .. Loaded(k) - 1)
            BY <1>1, <1>4, <1>5, <3>1 DEF Pages
        <3>3. \A v \in 0 .. i - 1 : entries[k][v] # page
            BY <1>3, <1>8, <2>3 DEF Mapped
        <3>4. \A v \in i + 1 .. NPages - 1 : v \in Pages /\ v # i /\ v \in Loaded(k) .. NPages - 1
            BY <1>1, <1>4, <3>1 DEF Pages
        <3>5. \A v \in 0 .. i : entries'[k][v] \in Supply(k)
            BY <1>3, <2>1, <2>3, <3>1, <3>2
        <3>6. \A v, w \in 0 .. i : entries'[k][v] = entries'[k][w] => v = w
            BY <2>1, <3>1, <3>2, <3>3
        <3>7. (i + 1) - 1 = i
            BY <1>1
        <3> QED
            BY <2>1, <3>1, <3>4, <3>5, <3>6, <3>7
    <2> QED
        BY <2>2, <2>3
<1>19. /\ memory' \in [Kinds -> [0 .. NPages * PageSize - 1 -> Int]]
       /\ \A k \in Kinds, x \in 0 .. NPages * PageSize - 1 :
              memory'[k][x] = IF /\ k = step
                                 /\ x >= page * PageSize /\ x < page * PageSize + n
                              THEN ptr + (x - page * PageSize) ELSE memory[k][x]
    <2> DEFINE C == 0 .. NPages * PageSize - 1
               a == page * PageSize
    <2>1. memory \in [Kinds -> [C -> Int]]
        BY DEF AInv, MemoryInv
    <2>2. memory' = [memory EXCEPT ![step] = [x \in DOMAIN memory[step] |->
              IF x >= a /\ x < a + n THEN ptr + (x - a) ELSE memory[step][x]]]
        BY <1>0, <2>1 DEF Copied
    <2>3. a \in Nat /\ C \in SUBSET Int
        BY <1>2, Products, ConstantFacts DEF Pages
    <2> HIDE DEF C, a
    <2>4. /\ memory' \in [Kinds -> [C -> Int]]
          /\ \A k \in Kinds, x \in C : memory'[k][x] =
                 IF k = step /\ x >= a /\ x < a + n THEN ptr + (x - a) ELSE memory[k][x]
        <3>1. DOMAIN memory[step] = C
            BY <1>0, <2>1
        <3>2. [x \in C |-> IF x >= a /\ x < a + n THEN ptr + (x - a) ELSE memory[step][x]]
                  \in [C -> Int]
            BY <1>0, <1>1, <2>1, <2>3
        <3> QED
            BY <1>0, <2>1, <2>2, <3>1, <3>2
    <2> QED
        BY <2>4 DEF C, a
<1>20. MemoryInv'
    <2> SUFFICES ASSUME NEW k \in Kinds
                 PROVE  /\ \A p \in Pages \ Mapped(k)', y \in 0 .. PageSize - 1 :
                               memory'[k][p * PageSize + y] = OLD
                        /\ \A v \in 0 .. Loaded(k)' - 1, y \in 0 .. PageSize - 1 :
                               v * PageSize + y < Length(k) =>
                                   memory'[k][entries'[k][v] * PageSize + y]
                                       = Offset(k) + (v * PageSize + y)
        BY <1>0, <1>19, SameApp DEF MemoryInv, Kinds
    <2>1. /\ \A p \in Pages \ Mapped(k), y \in 0 .. PageSize - 1 :
                 memory[k][p * PageSize + y] = OLD
          /\ \A v \in 0 .. Loaded(k) - 1, y \in 0 .. PageSize - 1 :
                 v * PageSize + y < Length(k) =>
                     memory[k][entries[k][v] * PageSize + y] = Offset(k) + (v * PageSize + y)
        BY <1>0 DEF AInv, MemoryInv
    \* Other pages keep their cells.
    <2>2. ASSUME NEW p \in Pages, NEW y \in 0 .. PageSize - 1, k # step \/ p # page
          PROVE  memory'[k][p * PageSize + y] = memory[k][p * PageSize + y]
        <3>1. p * PageSize + y \in 0 .. NPages * PageSize - 1
            BY PageCell
        <3>2. CASE k # step
            BY <1>19, <3>1, <3>2
        <3>3. CASE p # page
            <4>1. ~(/\ p * PageSize + y >= page * PageSize
                    /\ p * PageSize + y < page * PageSize + PageSize)
                BY <1>2, <3>3, PagesApart
            <4> DEFINE a == page * PageSize
                       x == p * PageSize + y
            <4>2. a \in Nat /\ x \in Int
                BY <1>2, <3>1, Products, ConstantFacts DEF Pages
            <4>3. ~(x >= a /\ x < a + PageSize)
                BY <4>1
            <4> HIDE DEF a, x
            <4>4. ~(x >= a /\ x < a + n)
                BY <1>11, <1>13, <4>2, <4>3
            <4>5. ~(p * PageSize + y >= page * PageSize /\ p * PageSize + y < page * PageSize + n)
                BY <4>4 DEF a, x
            <4> QED
                BY <1>19, <3>1, <4>5
        <3> QED
            BY <2>2, <3>2, <3>3
    <2>3. \A p \in Pages \ Mapped(k)', y \in 0 .. PageSize - 1 : memory'[k][p * PageSize + y] = OLD
        <3> SUFFICES ASSUME NEW p \in Pages \ Mapped(k)', NEW y \in 0 .. PageSize - 1
                     PROVE  memory'[k][p * PageSize + y] = OLD
            OBVIOUS
        <3>1. p \in Pages \ Mapped(k) /\ (k # step \/ p # page)
            BY <1>10
        <3> QED
            BY <2>1, <2>2, <3>1
    <2>4. ASSUME NEW v \in 0 .. Loaded(k) - 1, NEW y \in 0 .. PageSize - 1,
                 v * PageSize + y < Length(k), k = step => v # i
          PROVE  memory'[k][entries'[k][v] * PageSize + y] = Offset(k) + (v * PageSize + y)
        <3>1. v \in Pages /\ entries'[k][v] = entries[k][v]
            BY <1>6, <1>9, <2>4
        <3>2. entries[k][v] \in Mapped(k) /\ entries[k][v] \in Supply(k)
            BY <1>0 DEF Mapped, AInv, EntryInv
        <3>3. entries[k][v] \in Pages /\ (k # step \/ entries[k][v] # page)
            BY <1>3, <3>2, SupplyFacts DEF AInv
        <3> QED
            BY <2>1, <2>2, <2>4, <3>1, <3>3
    \* The new page has the cells from ptr on.
    <2>5. ASSUME k = step, NEW y \in 0 .. PageSize - 1, i * PageSize + y < Length(k)
          PROVE  memory'[k][entries'[k][i] * PageSize + y] = Offset(k) + (i * PageSize + y)
        <3> DEFINE a == i * PageSize
                   b == page * PageSize
        <3>1. entries'[k][i] = page /\ b + y \in 0 .. NPages * PageSize - 1 /\ b \in Nat
            <4>1. entries'[k][i] = page
                BY <1>5, <1>6, <2>5
            <4>2. b + y \in 0 .. NPages * PageSize - 1
                BY <1>2, PageCell
            <4> QED
                BY <1>2a, <4>1, <4>2
        <3>2. /\ a \in Nat /\ a + y < Length(k) /\ left[k] = Length(k) - MINU(a, Length(k))
              /\ ptr + left[k] = Offset(k) + Length(k)
            BY <1>11, <1>12, <2>5
        <3>3. memory'[k][b + y] = IF b + y >= b /\ b + y < b + n
                                  THEN ptr + ((b + y) - b) ELSE memory[k][b + y]
            BY <1>19, <2>5, <3>1
        <3> HIDE DEF a, b
        <3>4. left[k] = Length(k) - a /\ ptr = Offset(k) + a
            BY <1>1, <1>11, <2>5, <3>2 DEF MINU
        <3>5. y < n
            BY <1>11, <2>5, <3>2, <3>4 DEF MINU
        <3>6. memory'[k][b + y] = ptr + y
            BY <1>1, <1>13, <3>1, <3>3, <3>5
        <3>7. ptr + y = Offset(k) + (a + y)
            BY <1>11, <2>5, <3>2, <3>4
        <3> QED
            BY <3>1, <3>6, <3>7 DEF a, b
    <2>6. \A v \in 0 .. Loaded(k)' - 1 : v \in 0 .. Loaded(k) - 1 \/ (k = step /\ v = i)
        BY <1>1, <1>7, <1>8, <1>9
    <2>7. k = step => ~(i \in 0 .. Loaded(k) - 1)
        BY <1>1, <1>8
    <2> QED
        BY <2>3, <2>4, <2>5, <2>6, <2>7
<1>21. ReadInv'
    <2>0. /\ HeaderSize \in Nat /\ app.code \in Nat /\ app.data \in Nat
          /\ data_pages \in Nat /\ data_pages * PageSize \in Nat
        BY <1>1, Header, ConstantFacts, PageCounts, Products
    <2>1. Offset(step) + Length(step) <= HeaderSize + app.code + app.data
        BY <1>0, <1>1, Header, ConstantFacts DEF Offset, Length, Kinds
    <2>1a. ptr + n <= HeaderSize + app.code + data_pages * PageSize
        <3>1. CASE step = "code"
            <4>1. Offset(step) + Length(step) = HeaderSize + app.code
                BY <2>0, <3>1 DEF Offset, Length
            <4> QED
                BY <1>1, <1>11, <1>12, <1>13, <2>0, <4>1
        <3>2. CASE step = "data"
            <4>1. Offset(step) = HeaderSize + app.code /\ i < data_pages
                BY <1>0, <1>1, <2>0, <3>2 DEF Offset, PagesOf
            <4>2. ptr <= Offset(step) + i * PageSize
                BY <1>1, <1>11, <1>12 DEF MINU
            <4> DEFINE ip == i * PageSize
                       dp == data_pages * PageSize
            <4>3. ip \in Nat /\ dp \in Nat /\ ip + PageSize <= dp
                BY <1>1, <2>0, <4>1, Products
            <4>4. n \in Nat /\ n <= PageSize /\ PageSize \in Nat /\ ptr <= Offset(step) + ip
                BY <1>11, <1>13, <4>2
            <4> HIDE DEF ip, dp, n
            <4>5. ptr + n <= HeaderSize + app.code + dp
                BY <1>1, <2>0, <4>1, <4>3, <4>4
            <4> QED
                BY <4>5 DEF dp
        <3> QED
            BY <1>0, <3>1, <3>2 DEF Kinds
    <2> SUFFICES ASSUME NEW k \in Kinds, NEW x \in 0 .. NPages * PageSize - 1,
                        memory'[k][x] # OLD
                 PROVE  /\ memory'[k][x] < HeaderSize + app.code + app.data
                        /\ memory'[k][x] < HeaderSize + app.code + data_pages * PageSize
        BY <1>0, SameApp DEF ReadInv
    <2> DEFINE b == page * PageSize
    <2>2. CASE k = step /\ x >= b /\ x < b + n
        <3>1. b \in Nat /\ x \in Int
            BY <1>2a
        <3>2. memory'[k][x] = ptr + (x - b)
            BY <1>19, <2>2
        <3> HIDE DEF b
        <3>3. ptr + (x - b) < ptr + left[step] /\ ptr + (x - b) < ptr + n
            BY <1>1, <1>11, <1>13, <2>2, <3>1
        <3>4. memory'[k][x] < HeaderSize + app.code + app.data
            BY <1>1, <1>11, <1>12, <2>0, <2>1, <3>1, <3>2, <3>3
        <3>5. memory'[k][x] < HeaderSize + app.code + data_pages * PageSize
            BY <1>1, <1>13, <2>0, <2>1a, <3>1, <3>2, <3>3
        <3> QED
            BY <3>4, <3>5
    <2>3. CASE ~(k = step /\ x >= b /\ x < b + n)
        BY <1>19, <2>3 DEF AInv, ReadInv
    <2> QED
        BY <2>2, <2>3
<1>22. UserInv'
    BY <1>0 DEF AInv, UserInv, Kinds
<1> QED
    BY <1>15, <1>16, <1>17, <1>18, <1>20, <1>21, <1>22 DEF AInv

-----------------------------------------------------------------------------
(* What AInv gives. *)

\* What the program sees in a page of the table.
LEMMA SeenInPage ==
    ASSUME AInv, NEW k \in Kinds, NEW x \in 0 .. NPages * PageSize - 1,
           entries[k][x \div PageSize] \in Pages
    PROVE  Seen(k, x) = memory[k][entries[k][x \div PageSize] * PageSize + (x % PageSize)]
PROOF
<1>1. entries[k][x \div PageSize] # NULL
    BY ConstantFacts DEF Pages
<1> QED
    BY <1>1 DEF Seen

\* A section whose pages hold all of it is seen in order.
LEMMA SectionSeen ==
    ASSUME AInv, step = "ready", NEW k \in Kinds, Length(k) <= PagesOf(k) * PageSize,
           NEW x \in 0 .. Length(k) - 1
    PROVE  Seen(k, x) = Offset(k) + x
PROOF
<1> DEFINE v == x \div PageSize
           y == x % PageSize
<1>1. /\ PagesOf(k) \in Nat /\ Length(k) \in Nat /\ PagesOf(k) < NPages /\ Loaded(k) = PagesOf(k)
      /\ x \in Nat /\ x < Length(k) /\ NPages \in Nat
    BY SectionFacts, ConstantFacts DEF AInv, TypeOK, LocalsInv, Loaded, Kinds
<1>2. PagesOf(k) * PageSize \in Nat /\ NPages * PageSize \in Nat /\ PageSize \in Nat
      /\ PagesOf(k) * PageSize + PageSize <= NPages * PageSize
    BY <1>1, Products, ConstantFacts
<1>3. x < PagesOf(k) * PageSize /\ x \in 0 .. NPages * PageSize - 1
    BY <1>1, <1>2
<1>4. v \in Nat /\ y \in 0 .. PageSize - 1 /\ x = v * PageSize + y /\ v < PagesOf(k)
    BY <1>1, <1>3, CellPage
<1>5. v \in 0 .. Loaded(k) - 1
    BY <1>1, <1>4
<1>6. entries[k][v] \in Pages
    <2>1. entries[k][v] \in Supply(k)
        BY <1>5 DEF AInv, EntryInv, Loading
    <2> QED
        BY <2>1, SupplyFacts DEF AInv
<1>7. Seen(k, x) = memory[k][entries[k][v] * PageSize + y]
    BY <1>3, <1>6, SeenInPage
<1> HIDE DEF v, y
<1>8. v * PageSize + y < Length(k)
    BY <1>1, <1>4
<1>9. memory[k][entries[k][v] * PageSize + y] = Offset(k) + (v * PageSize + y)
    BY <1>4, <1>5, <1>8 DEF AInv, MemoryInv, Loading
<1> QED
    BY <1>4, <1>7, <1>9

LEMMA ProgramFromInv == AInv => ProgramInPlace
PROOF
<1> SUFFICES ASSUME AInv, step = "ready", DataFitsWord
             PROVE  /\ \A x \in 0 .. app.code - 1 : Seen("code", x) = HeaderSize + x
                    /\ \A x \in 0 .. app.data - 1 : Seen("data", x) = HeaderSize + app.code + x
                    /\ Seen("code", app.entry - USER_CODE_BASE)
                           = HeaderSize + (app.entry - USER_CODE_BASE)
    BY DEF ProgramInPlace
<1>0. app \in Apps /\ HeaderAccepted
    BY DEF AInv, TypeOK, LocalsInv, Loading
<1>1. app.code <= code_pages * PageSize /\ app.data <= data_pages * PageSize
    BY <1>0, PageCounts
<1>2. \A x \in 0 .. app.code - 1 : Seen("code", x) = HeaderSize + x
    <2>1. "code" \in Kinds /\ Length("code") = app.code /\ Offset("code") = HeaderSize
          /\ PagesOf("code") = code_pages
        BY DEF Kinds, Length, Offset, PagesOf
    <2> QED
        BY <1>1, <2>1, SectionSeen
<1>3. \A x \in 0 .. app.data - 1 : Seen("data", x) = HeaderSize + app.code + x
    <2>1. "data" \in Kinds /\ Length("data") = app.data /\ Offset("data") = HeaderSize + app.code
          /\ PagesOf("data") = data_pages
        BY DEF Kinds, Length, Offset, PagesOf
    <2> QED
        BY <1>1, <2>1, SectionSeen
<1>4. app.entry - USER_CODE_BASE \in 0 .. app.code - 1
    <2>1. /\ app.code \in 0 .. Word - 1 /\ app.entry \in 0 .. Word - 1
          /\ USER_CODE_BASE \in 0 .. Word - 1
        BY <1>0, Header, ConstantFacts
    <2>2. USER_CODE_BASE <= app.entry /\ app.entry < Plus(USER_CODE_BASE, app.code)
        BY <1>0 DEF HeaderAccepted
    <2>3. /\ Plus(USER_CODE_BASE, app.code) \in 0 .. Word - 1
          /\ USER_CODE_BASE + app.code < Word =>
                 Plus(USER_CODE_BASE, app.code) = USER_CODE_BASE + app.code
          /\ USER_CODE_BASE + app.code >= Word =>
                 Plus(USER_CODE_BASE, app.code) = USER_CODE_BASE + app.code - Word
        BY <2>1, WordSum
    <2>4. /\ Plus(USER_CODE_BASE, app.code) <= USER_CODE_BASE + app.code
          /\ Plus(USER_CODE_BASE, app.code) \in Int
        BY <2>1, <2>3, ConstantFacts
    <2> QED
        BY <2>1, <2>2, <2>4
<1> QED
    BY <1>2, <1>3, <1>4

LEMMA ReservedFromInv == AInv => ReservedPagesKept
PROOF
<1> SUFFICES ASSUME AInv, step = "ready" PROVE ReservedPagesKept
    BY DEF ReservedPagesKept
<1>1. /\ "code" \in Kinds /\ "data" \in Kinds /\ NPages - 1 \in Pages /\ NPages \in Nat
    BY ConstantFacts DEF Kinds, Pages
<1>2. \A k \in Kinds : Loaded(k) \in Nat /\ NPages - 1 \in Loaded(k) .. NPages - 1
    BY <1>1, LoadedFacts DEF AInv
<1>3. entries["code"][NPages - 1] = NULL /\ entries["data"][NPages - 1] = ucontext
    BY <1>1, <1>2 DEF AInv, EntryInv, Loading
<1>4. before["data"] # {} /\ ucontext \in Pages
    BY SupplyFacts DEF AInv, FreeInv, Loading
<1>5. ucontext \notin Mapped("data")
    BY <1>1 DEF Mapped, AInv, EntryInv, Loading, Supply
<1>6. ASSUME NEW x \in (NPages - 1) * PageSize .. NPages * PageSize - 1
      PROVE  Seen("data", x) = OLD
    <2> DEFINE a == (NPages - 1) * PageSize
               y == x - a
    <2>1. /\ a \in Nat /\ NPages * PageSize = a + PageSize /\ PageSize \in Nat
        <3>1. NPages - 1 \in Nat /\ (NPages - 1) + 1 = NPages
            BY ConstantFacts
        <3> QED
            BY <3>1, Products, ConstantFacts
    <2>2. x \in a .. (a + PageSize) - 1
        BY <1>6, <2>1
    <2>3. y \in 0 .. PageSize - 1 /\ x = a + y /\ x \in 0 .. (a + PageSize) - 1
        <3> HIDE DEF a
        <3> QED
            BY <2>1, <2>2
    <2>4. x \div PageSize = NPages - 1 /\ x % PageSize = y
        <3> HIDE DEF y
        <3> QED
            BY <1>1, <2>3, PageCell
    <2>5. Seen("data", x) = memory["data"][ucontext * PageSize + y]
        <3>1. x \in 0 .. NPages * PageSize - 1
            BY <2>1, <2>3
        <3> QED
            BY <1>1, <1>3, <1>4, <2>4, <3>1, SeenInPage
    <2> HIDE DEF y
    <2> QED
        BY <1>1, <1>4, <1>5, <2>3, <2>5 DEF AInv, MemoryInv, Loading
<1> QED
    BY <1>3, <1>6 DEF ReservedPagesKept, ucontext

LEMMA ReadsFromInv == AInv => ReadsBounded
PROOF
<1> DEFINE end == IF app.code + app.data < Word THEN app.size ELSE app.code + data_pages * PageSize
<1> SUFFICES ASSUME AInv, NEW k \in Kinds, NEW x \in DOMAIN memory[k]
             PROVE  memory[k][x] < HeaderSize + end
    BY DEF ReadsBounded
<1>0. /\ app \in Apps /\ app.size \in Nat /\ app.code \in 0 .. Word - 1
      /\ app.data \in 0 .. Word - 1 /\ HeaderSize \in Nat /\ data_pages * PageSize \in Nat
    BY Header, ConstantFacts, PageCounts, Products DEF AInv, TypeOK
<1>1. x \in 0 .. NPages * PageSize - 1 /\ memory[k][x] \in Int
    BY DEF AInv, MemoryInv
<1>2. CASE memory[k][x] = OLD
    BY <1>0, <1>2 DEF OLD
<1>3. CASE memory[k][x] # OLD
    <2>1. /\ HeaderAccepted /\ memory[k][x] < HeaderSize + app.code + app.data
          /\ memory[k][x] < HeaderSize + app.code + data_pages * PageSize
        BY <1>1, <1>3 DEF AInv, ReadInv
    <2>2. CASE app.code + app.data < Word
        <3>1. app.size >= Plus(app.code, app.data) /\ Plus(app.code, app.data) = app.code + app.data
            BY <1>0, <2>1, <2>2, WordSum DEF HeaderAccepted
        <3> QED
            BY <1>0, <1>1, <2>1, <2>2, <3>1
    <2>3. CASE ~(app.code + app.data < Word)
        BY <1>0, <1>1, <2>1, <2>3
    <2> QED
        BY <2>2, <2>3
<1> QED
    BY <1>2, <1>3

-----------------------------------------------------------------------------
\* loader_load_app and get_user_ptr keep AInv, whatever the header, the file and
\* the free pages are.
THEOREM AppInvariance == Spec => []AInv
PROOF
<1>1. ASSUME AInv, [Next]_vars PROVE AInv'
    <2>1. ASSUME NEW p \in USER_DATA_BASE .. USER_DATA_BASE + NPages * PageSize - 1,
                 NEW n \in 0 .. MaxLog, Log(p, n)
          PROVE  AInv'
        BY <1>1, <2>1, LogAInv
    <2> QED
        BY <1>1, <2>1, RejectAInv, CreateAInv, FailAInv, LoadPageAInv, LoopEndsAInv, StutterAInv
            DEF Next
<1> QED
    BY <1>1, InitAInv, PTL DEF Spec

\* The locals of loader_load_app stay in their ranges: code_size_left and
\* data_size_left never wrap below zero, and the loops stay in the page arrays.
THEOREM AppTypeTheorem == Spec => []TypeOK
PROOF
<1>1. AInv => TypeOK
    BY DEF AInv
<1> QED
    BY <1>1, AppInvariance, PTL

\* A ready program sees all its code and data in order where it was linked for.
THEOREM ProgramTheorem == Spec => []ProgramInPlace
PROOF
    BY AppInvariance, ProgramFromInv, PTL

\* The loops reach neither the page of the vdso nor that of the ucontext.
THEOREM ReservedTheorem == Spec => []ReservedPagesKept
PROOF
    BY AppInvariance, ReservedFromInv, PTL

\* The cleanup of loader_load_app gives back all pages but the ucontext's.
THEOREM FailureTheorem == Spec => []FailureFreesLoaded
PROOF
<1>1. AInv => FailureFreesLoaded
    BY DEF AInv, FreeInv
<1> QED
    BY <1>1, AppInvariance, PTL

\* The copies of loader_load_app end at most a header behind the application,
\* or, where code_size + data_size wraps, with the pages of the data.
THEOREM ReadsTheorem == Spec => []ReadsBounded
PROOF
    BY AppInvariance, ReadsFromInv, PTL
=============================================================================
