-------------------------- MODULE FirstStageProofs --------------------------
(***************************************************************************)
(* Proofs about FirstStage for any page size, any number of pages and any  *)
(* files on flash.                                                         *)
(*                                                                         *)
(* FInv says, stage by stage, which cells are already where they belong.   *)
(* Every step writes intervals of addresses; the sizes the header check    *)
(* lets pass keep them apart from what must survive.                       *)
(***************************************************************************)
EXTENDS FirstStage, TLAPS

\* The stages from a given one on, without the halt.
FromHeader == {"header", "code", "vdso", "data", "kernel", "heap", "copied", "run"}
FromCode == FromHeader \ {"header"}
FromVdso == FromCode \ {"code"}
FromData == FromVdso \ {"vdso"}
FromHeap == {"heap", "copied", "run"}

\* What the checks established, and where the heap is.
SizeInv ==
    /\ stage \in FromHeader => HeaderAccepted
    /\ stage \in FromCode => image.code >= 0
    /\ stage \in FromVdso => image.vdso >= 0
    /\ stage \in FromData => image.data >= 0
    /\ heap \in [start : Nat, size : Nat]
    /\ stage \in FromHeap =>
           /\ heap.start = KERNEL_DATA_BASE + image.data
           /\ heap.size = HeapSize(image.code, image.data)
    /\ stage \in {"copied", "run"} => image.initrd <= heap.size

\* The initrd is where the loader put it until the kernel has copied it, as far
\* as it ends before the buffer.
InitrdInv ==
    stage \in (FromHeader \ {"copied", "run"}) \cup {"initrd"} =>
        \A i \in 0 .. image.initrd - 1 : INITRD + i < TEMP => ram[INITRD + i] = Cell("initrd", i)

CodeInv ==
    stage \in FromCode =>
        \A i \in VdsoExcess .. image.code - 1 : ram[2 * K128 - 1 - i] = Cell("kernel", 1 + i)

VdsoInv ==
    stage \in FromVdso =>
        \A i \in 0 .. image.vdso - VdsoExcess - 1 : iram[KERNEL_VDSO_BASE + i] = Cell("kernel", vdso_offset + i)

\* The data waits in the buffer, and then is in its place.
DataInv ==
    /\ stage = "data" => \A i \in 0 .. image.data - 1 : ram[TEMP + i] = Cell("kernel", data_offset + i)
    /\ stage \in Running =>
           \A i \in 0 .. image.data - 1 : ram[KERNEL_DATA_BASE + i] = Cell("kernel", data_offset + i)

FInv ==
    /\ TypeOK /\ SizeInv /\ InitrdInv /\ CodeInv /\ VdsoInv /\ DataInv
    /\ BootromUsable /\ InitrdHandedOver

-----------------------------------------------------------------------------
\* The layout: two halves in each memory, and a page of vdso.
LEMMA Layout ==
    /\ Page \in Nat /\ K128 \in Nat /\ TEMP \in Nat
    /\ K128 = 2 * TEMP /\ Page >= 1 /\ TEMP >= 2 * Page
    /\ UINT16_MAX = TEMP - 1
    /\ Bootrom = K128 .. K128 + TEMP - 1
PROOF
<1>1. PICK m \in Nat : NPages = 2 * m /\ m >= 2
    <2>1. NPages \in Nat /\ NPages % 2 = 0 /\ NPages > 2
        BY FirstStageAssumption DEF ImageAssumption
    <2>2. NPages \div 2 \in Nat /\ NPages = 2 * (NPages \div 2) /\ NPages \div 2 >= 2
        BY <2>1
    <2> QED
        BY <2>2
<1>2. Page \in Nat /\ Page >= 1
    BY FirstStageAssumption DEF ImageAssumption
<1> DEFINE h == m * Page
<1>3. h \in Nat /\ h >= 2 * Page
    BY <1>1, <1>2
<1>4. K128 = 2 * h
    BY <1>1, <1>2 DEF K128
<1> HIDE DEF h
<1>5. K128 \div 2 = h
    BY <1>3, <1>4
<1> QED
    BY <1>2, <1>3, <1>4, <1>5 DEF TEMP, UINT16_MAX, Bootrom, KERNEL_DATA_BASE

\* The numbers of a header and of a file.
LEMMA ImageType ==
    ASSUME image \in Images
    PROVE  /\ image.code \in Int /\ image.data \in Int /\ image.vdso \in Int
           /\ image.entry \in Int /\ image.initrd \in Nat /\ image.initrd >= 1
           /\ image.file \in Nat
           /\ data_offset \in Int /\ vdso_offset \in Int
           /\ data_offset = 1 + image.code /\ vdso_offset = 1 + image.code + image.data
PROOF
    BY FirstStageAssumption DEF ImageAssumption, data_offset, vdso_offset, code_offset

LEMMA ExcessType == ASSUME TypeOK PROVE VdsoExcess \in Nat
PROOF
<1>1. image.vdso \in Int /\ Page \in Nat
    BY ImageType, Layout DEF TypeOK
<1> QED
    BY <1>1 DEF VdsoExcess

\* What a read leaves in memory: nothing outside the temp buffer, if it fits.
LEMMA Reads ==
    ASSUME TypeOK, NEW off \in Int, NEW n \in Int
    PROVE  /\ Got(off, n) \in Nat
           /\ n >= 0 => Got(off, n) <= n
           /\ n <= TEMP /\ ReadFits(off, n) /\ off >= 0 => Got(off, n) <= TEMP
           /\ DOMAIN ReadToTemp(off, n) = 0 .. 2 * K128 - 1
           /\ \A x \in 0 .. 2 * K128 - 1 :
                  ReadToTemp(off, n)[x] = IF off >= 0 /\ x >= TEMP /\ x < TEMP + Got(off, n)
                                          THEN Cell("kernel", off + (x - TEMP)) ELSE ram[x]
PROOF
<1>1. image.file \in Nat /\ TEMP \in Nat /\ K128 \div 2 = TEMP
    BY ImageType, Layout DEF TypeOK, TEMP
<1>2. Got(off, n) \in Nat /\ (n >= 0 => Got(off, n) <= n)
    BY <1>1 DEF Got
<1>3. n <= TEMP /\ ReadFits(off, n) /\ off >= 0 => Got(off, n) <= TEMP
    BY <1>1 DEF Got, ReadFits
<1>4. /\ DOMAIN ReadToTemp(off, n) = 0 .. 2 * K128 - 1
      /\ \A x \in 0 .. 2 * K128 - 1 :
             ReadToTemp(off, n)[x] = IF off >= 0 /\ x >= TEMP /\ x < TEMP + Got(off, n)
                                     THEN Cell("kernel", off + (x - TEMP)) ELSE ram[x]
    BY DEF TypeOK, ReadToTemp, Stored
<1> QED
    BY <1>2, <1>3, <1>4

-----------------------------------------------------------------------------
\* Out of reset.
LEMMA InitFInv == Init => FInv
PROOF
<1> SUFFICES ASSUME Init PROVE FInv
    OBVIOUS
<1>1. TypeOK
    BY Layout DEF Init, TypeOK
<1>2. SizeInv /\ InitrdInv /\ CodeInv /\ VdsoInv /\ DataInv /\ InitrdHandedOver
    BY DEF Init, SizeInv, InitrdInv, CodeInv, VdsoInv, DataInv, InitrdHandedOver, FromHeader,
        FromCode, FromVdso, FromData, FromHeap, Running
<1>3. BootromUsable
    <2>1. ASSUME NEW a \in Bootrom
          PROVE  ram[a].what = "bootrom"
        <3>1. a \in 0 .. 2 * K128 - 1
            BY <2>1, Layout
        <3> QED
            BY <2>1, <3>1 DEF Init, Cell
    <2> QED
        BY <2>1 DEF BootromUsable
<1> QED
    BY <1>1, <1>2, <1>3 DEF FInv

\* A failing check or a flash error stops everything.
LEMMA HaltFInv == ASSUME FInv, stage \in Loading, Halt PROVE FInv'
PROOF
<1>1. stage' = "halt" /\ UNCHANGED <<image, ram, iram, heap>>
    BY DEF Halt
<1>2. BootromUsable'
    BY <1>1 DEF FInv, BootromUsable, Loading, KernelFits, ReadFits, code_offset, data_offset,
        vdso_offset
<1> QED
    BY <1>1, <1>2 DEF FInv, TypeOK, SizeInv, InitrdInv, CodeInv, VdsoInv, DataInv,
        InitrdHandedOver, FromHeader, FromCode, FromVdso, FromData, FromHeap, Running

\* A damaged boot rom fails.
LEMMA BootromFailsFInv == ASSUME FInv, BootromFails PROVE FInv'
PROOF
<1>1. stage' = "lost" /\ UNCHANGED <<image, ram, iram, heap>>
    BY DEF BootromFails
<1> QED
    BY <1>1 DEF FInv, TypeOK, SizeInv, InitrdInv, CodeInv, VdsoInv, DataInv, BootromUsable,
        InitrdHandedOver, Loading, FromHeader, FromCode, FromVdso, FromData, FromHeap, Running

\* A read that gives too much or too little: what fits stays out of the boot rom.
LEMMA HaltAfterReadFInv ==
    ASSUME FInv, stage \in {"header", "code", "vdso"}, NEW off \in Int, NEW n \in Int, n <= TEMP,
           KernelFits => ReadFits(off, n), HaltAfterRead(off, n)
    PROVE  FInv'
PROOF
<1>1. stage' = "halt" /\ ram' = ReadToTemp(off, n) /\ UNCHANGED <<image, iram, heap>>
    BY DEF HaltAfterRead
<1>2. TypeOK
    BY DEF FInv
<1>3. DOMAIN ram' = 0 .. 2 * K128 - 1
    BY <1>1, <1>2, Reads
<1>4. TypeOK' /\ SizeInv' /\ InitrdInv' /\ CodeInv' /\ VdsoInv' /\ DataInv' /\ InitrdHandedOver'
    BY <1>1, <1>3 DEF FInv, TypeOK, SizeInv, InitrdInv, CodeInv, VdsoInv, DataInv,
        InitrdHandedOver, FromHeader, FromCode, FromVdso, FromData, FromHeap, Running
<1>5. BootromUsable'
    <2> SUFFICES ASSUME INITRD + image.initrd <= KERNEL_DATA_BASE, KernelFits, NEW a \in Bootrom
                 PROVE  ram'[a].what = "bootrom"
        BY <1>1 DEF BootromUsable, INITRD, KERNEL_DATA_BASE, Bootrom, K128, KernelFits, ReadFits,
            code_offset, data_offset, vdso_offset
    <2>1. ram[a].what = "bootrom"
        BY DEF FInv, BootromUsable, Loading
    <2>2. a \in 0 .. 2 * K128 - 1 /\ a >= 2 * TEMP
        BY Layout
    <2>3. Got(off, n) \in Nat /\ (off >= 0 => Got(off, n) <= TEMP)
        BY <1>2, Reads
    <2>4. ~(off >= 0 /\ a >= TEMP /\ a < TEMP + Got(off, n))
        BY <2>2, <2>3, Layout
    <2>5. ram'[a] = ram[a]
        BY <1>1, <1>2, <2>2, <2>4, Reads
    <2> QED
        BY <2>1, <2>5
<1> QED
    BY <1>4, <1>5 DEF FInv

\* load_initrd: without a limit on the file.
LEMMA LoadInitrdFInv == ASSUME FInv, load_initrd PROVE FInv'
PROOF
<1>1. /\ stage = "start" /\ stage' = "initrd" /\ UNCHANGED <<image, iram, heap>>
      /\ ram' = [x \in 0 .. 2 * K128 - 1 |->
                    IF x >= Page /\ x < Page + image.initrd THEN Cell("initrd", 0 + (x - Page)) ELSE ram[x]]
    BY Layout DEF load_initrd, Stored, INITRD, FInv, TypeOK
<1>2. image.initrd \in Nat
    BY ImageType DEF FInv, TypeOK
<1>3. TypeOK' /\ SizeInv' /\ CodeInv' /\ VdsoInv' /\ DataInv' /\ InitrdHandedOver'
    BY <1>1 DEF FInv, TypeOK, SizeInv, CodeInv, VdsoInv, DataInv, InitrdHandedOver, FromHeader,
        FromCode, FromVdso, FromData, FromHeap, Running
<1>4. InitrdInv'
    <2> SUFFICES ASSUME NEW i \in 0 .. image.initrd - 1, Page + i < TEMP
                 PROVE  ram'[Page + i] = Cell("initrd", i)
        BY <1>1 DEF InitrdInv, INITRD, TEMP, K128
    <2> QED
        BY <1>1, <1>2, Layout
<1>5. BootromUsable'
    <2> SUFFICES ASSUME Page + image.initrd <= K128, KernelFits, NEW a \in Bootrom
                 PROVE  ram'[a].what = "bootrom"
        BY <1>1 DEF BootromUsable, INITRD, KERNEL_DATA_BASE, Bootrom, K128, KernelFits,
                ReadFits, code_offset, data_offset, vdso_offset
    <2>1. ram[a].what = "bootrom"
        BY <1>1 DEF FInv, BootromUsable, Loading
    <2> QED
        BY <1>1, <1>2, <2>1, Layout
<1> QED
    BY <1>3, <1>4, <1>5 DEF FInv

\* The header, in the loader's own page.
LEMMA HeaderFInv == ASSUME FInv, LoadHeader PROVE FInv'
PROOF
<1>1. CASE ~HeaderAccepted
    BY <1>1, HaltFInv DEF LoadHeader, Loading
<1>2. CASE HeaderAccepted
    <2>1. /\ stage = "initrd" /\ stage' = "header" /\ UNCHANGED <<image, iram, heap>>
          /\ ram' = [ram EXCEPT ![0] = Cell("header", 0)]
        BY <1>2 DEF LoadHeader, LOADER_DATA
    <2>2. \A x \in 1 .. 2 * K128 - 1 : ram'[x] = ram[x]
        BY <2>1 DEF FInv, TypeOK
    <2>3. SizeInv'
        BY <1>2, <2>1 DEF FInv, SizeInv, HeaderAccepted, FromHeader, FromCode, FromVdso, FromData,
            FromHeap
    <2>4. TypeOK' /\ CodeInv' /\ VdsoInv' /\ DataInv' /\ InitrdHandedOver'
        BY <2>1 DEF FInv, TypeOK, CodeInv, VdsoInv, DataInv, InitrdHandedOver, FromHeader,
            FromCode, FromVdso, FromData, Running
    <2>5. InitrdInv'
        <3> SUFFICES ASSUME NEW i \in 0 .. image.initrd - 1, Page + i < TEMP
                     PROVE  ram'[Page + i] = Cell("initrd", i)
            BY <2>1 DEF InitrdInv, INITRD, TEMP, K128
        <3>1. ram[Page + i] = Cell("initrd", i)
            BY <2>1 DEF FInv, InitrdInv, INITRD
        <3>2. Page + i \in 1 .. 2 * K128 - 1
            BY Layout, ImageType DEF FInv, TypeOK
        <3> QED
            BY <2>2, <3>1, <3>2
    <2>6. BootromUsable'
        <3> SUFFICES ASSUME Page + image.initrd <= K128, KernelFits, NEW a \in Bootrom
                     PROVE  ram'[a].what = "bootrom"
            BY <2>1 DEF BootromUsable, INITRD, KERNEL_DATA_BASE, Bootrom, K128, KernelFits,
                ReadFits, code_offset, data_offset, vdso_offset
        <3>1. ram[a].what = "bootrom" /\ a \in 1 .. 2 * K128 - 1
            BY <2>1, Layout DEF FInv, BootromUsable, INITRD, KERNEL_DATA_BASE, Loading
        <3> QED
            BY <2>2, <3>1
    <2> QED
        BY <2>3, <2>4, <2>5, <2>6 DEF FInv
<1> QED
    BY <1>1, <1>2

\* The sizes of an accepted header.
LEMMA Accepted ==
    ASSUME FInv, HeaderAccepted
    PROVE  /\ image.code \in Int /\ image.code <= TEMP - 1
           /\ image.code >= 0 => image.code >= 1
           /\ image.data \in Int /\ image.data <= TEMP - 1
           /\ image.vdso \in Int /\ image.vdso <= TEMP - 1
           /\ image.initrd \in Nat
PROOF
<1>1. /\ image.code \in Int /\ image.code <= TEMP - 1
      /\ image.data \in Int /\ image.data <= TEMP - 1
      /\ image.vdso \in Int /\ image.vdso <= TEMP - 1
      /\ image.initrd \in Nat /\ image.entry \in Int
    BY ImageType, Layout DEF FInv, TypeOK, HeaderAccepted
<1>2. ASSUME image.code >= 0
      PROVE  image.code >= 1
    <2> DEFINE base == SRAM0 + K128
    <2>1. SRAM0 \in Nat /\ Word \in Nat /\ SRAM0 + 2 * K128 < Word
        BY FirstStageAssumption DEF ImageAssumption
    <2>2. base \in Nat /\ base + image.code \in 0 .. Word - 1
        BY <1>1, <1>2, <2>1, Layout
    <2>3. base <= image.entry /\ image.entry < (base + image.code) % Word
        BY DEF HeaderAccepted, Unsigned, KERNEL_CODE_BASE
    <2> HIDE DEF base
    <2>4. (base + image.code) % Word = base + image.code
        BY <2>1, <2>2
    <2> QED
        BY <1>1, <2>2, <2>3, <2>4
<1> QED
    BY <1>1, <1>2

\* The code goes through the buffer to the end of SRAM1, backwards.
LEMMA LoadCodeFInv == ASSUME FInv, LoadCode PROVE FInv'
PROOF
<1>0. stage = "header" /\ HeaderAccepted /\ TypeOK
    BY DEF LoadCode, FInv, SizeInv, FromHeader
<1>1. /\ image.code \in Int /\ image.code <= TEMP - 1 /\ image.initrd \in Nat
      /\ code_offset \in Int /\ code_offset = 1 /\ image.code <= TEMP
      /\ image.code >= 0 => image.code >= 1
    BY <1>0, Accepted, Layout DEF code_offset
<1>2. CASE ~ReadAll(code_offset, image.code)
    <2>1. HaltAfterRead(code_offset, image.code)
        BY <1>2 DEF LoadCode
    <2>2. KernelFits => ReadFits(code_offset, image.code)
        BY DEF KernelFits
    <2> QED
        BY <1>0, <1>1, <2>1, <2>2, HaltAfterReadFInv
<1>3. CASE ReadAll(code_offset, image.code)
    <2> DEFINE temp == ReadToTemp(code_offset, image.code)
    <2>0. stage' = "code" /\ UNCHANGED <<image, iram, heap>>
        BY <1>3 DEF LoadCode
    <2>1. Got(code_offset, image.code) = image.code /\ image.code \in Nat /\ image.code >= 1
        <3>1. Got(code_offset, image.code) = image.code
            BY <1>3 DEF ReadAll
        <3>2. Got(code_offset, image.code) \in Nat
            BY <1>0, <1>1, Reads
        <3> QED
            BY <1>1, <3>1, <3>2
    <2>2. /\ DOMAIN temp = 0 .. 2 * K128 - 1
          /\ \A x \in 0 .. 2 * K128 - 1 :
                 temp[x] = IF x >= TEMP /\ x < TEMP + image.code THEN Cell("kernel", 1 + (x - TEMP))
                           ELSE ram[x]
        <3>1. /\ DOMAIN temp = 0 .. 2 * K128 - 1
              /\ \A x \in 0 .. 2 * K128 - 1 :
                     temp[x] = IF code_offset >= 0 /\ x >= TEMP /\ x < TEMP + Got(code_offset, image.code)
                               THEN Cell("kernel", code_offset + (x - TEMP)) ELSE ram[x]
            BY <1>0, <1>1, Reads
        <3> HIDE DEF temp
        <3> QED
            BY <1>1, <2>1, <3>1
    <2>3. ram' = CopiedToCode(temp, KERNEL_CODE_BASE, image.code)
        BY <1>3 DEF LoadCode
    <2> HIDE DEF temp
    <2>4. /\ DOMAIN ram' = 0 .. 2 * K128 - 1
          /\ \A x \in 0 .. 2 * K128 - 1 :
                 ram'[x] = IF x >= K128 /\ 2 * K128 - 1 - x >= 0 /\ 2 * K128 - 1 - x < image.code
                           THEN temp[TEMP + (2 * K128 - 1 - x)] ELSE temp[x]
        <3>1. \A x \in 0 .. 2 * K128 - 1 : Alias(x) - KERNEL_CODE_BASE = 2 * K128 - 1 - x
            BY Layout DEF Alias, KERNEL_CODE_BASE
        <3> QED
            BY <2>2, <2>3, <3>1 DEF CopiedToCode
    <2>5. CodeInv'
        <3> SUFFICES ASSUME NEW i \in VdsoExcess .. image.code - 1
                     PROVE  ram'[2 * K128 - 1 - i] = Cell("kernel", 1 + i)
            BY <2>0 DEF CodeInv, VdsoExcess, K128
        <3>1. VdsoExcess \in Nat
            BY ExcessType DEF FInv
        <3>2. i \in 0 .. image.code - 1
            BY <2>1, <3>1
        <3>3. ram'[2 * K128 - 1 - i] = temp[TEMP + i]
            BY <1>1, <2>1, <2>4, <3>2, Layout
        <3>a. i \in Nat /\ i < image.code
            BY <2>1, <3>2
        <3>b. TEMP \in Nat /\ K128 \in Nat /\ K128 = 2 * TEMP
            BY Layout
        <3> DEFINE x == TEMP + i
        <3>4. x \in 0 .. 2 * K128 - 1 /\ x >= TEMP /\ x < TEMP + image.code /\ x - TEMP = i
            BY <1>1, <2>1, <3>a, <3>b
        <3> HIDE DEF x
        <3>5. temp[x] = Cell("kernel", 1 + (x - TEMP))
            BY <2>2, <3>4
        <3> QED
            BY <3>3, <3>4, <3>5 DEF x
    <2>6. ASSUME NEW x \in 0 .. 2 * K128 - 1, x < TEMP \/ x \in Bootrom
          PROVE  ram'[x] = ram[x]
        BY <1>1, <2>1, <2>2, <2>4, <2>6, Layout
    <2>7. InitrdInv'
        <3> SUFFICES ASSUME NEW i \in 0 .. image.initrd - 1, Page + i < TEMP
                     PROVE  ram'[Page + i] = Cell("initrd", i)
            BY <2>0 DEF InitrdInv, INITRD, TEMP, K128
        <3>1. ram[Page + i] = Cell("initrd", i)
            BY <1>0 DEF FInv, InitrdInv, INITRD, FromHeader
        <3>2. Page + i \in 0 .. 2 * K128 - 1
            BY <1>1, Layout
        <3>3. ram'[Page + i] = ram[Page + i]
            BY <2>6, <3>2
        <3> QED
            BY <3>1, <3>3
    <2>8. BootromUsable'
        <3> SUFFICES ASSUME Page + image.initrd <= K128, KernelFits, NEW a \in Bootrom
                     PROVE  ram'[a].what = "bootrom"
            BY <2>0 DEF BootromUsable, INITRD, KERNEL_DATA_BASE, Bootrom, K128, KernelFits,
                ReadFits, code_offset, data_offset, vdso_offset
        <3>1. ram[a].what = "bootrom"
            BY <1>0 DEF FInv, BootromUsable, INITRD, KERNEL_DATA_BASE, Loading
        <3> QED
            BY <2>6, <3>1, Layout
    <2>9. TypeOK' /\ SizeInv' /\ VdsoInv' /\ DataInv' /\ InitrdHandedOver'
        BY <1>0, <2>0, <2>1, <2>4 DEF FInv, TypeOK, SizeInv, HeaderAccepted, VdsoInv, DataInv,
            InitrdHandedOver, FromHeader, FromCode, FromVdso, FromData, FromHeap, Running
    <2> QED
        BY <2>5, <2>7, <2>8, <2>9 DEF FInv
<1> QED
    BY <1>2, <1>3

\* The vdso goes through the buffer to the end of SRAM0; what exceeds its page
\* goes on over the start of the code.
LEMMA LoadVdsoFInv == ASSUME FInv, LoadVdso PROVE FInv'
PROOF
<1>0. stage = "code" /\ HeaderAccepted /\ TypeOK /\ image.code >= 0
    BY DEF LoadVdso, FInv, SizeInv, FromHeader, FromCode
<1>a. /\ image.vdso \in Int /\ image.vdso <= TEMP - 1 /\ image.vdso <= TEMP
      /\ image.initrd \in Nat /\ image.code \in Nat /\ image.code <= TEMP - 1
      /\ vdso_offset \in Int
    BY <1>0, Accepted, ImageType, Layout DEF TypeOK
<1>1. CASE ~ReadAll(vdso_offset, image.vdso)
    <2>1. HaltAfterRead(vdso_offset, image.vdso)
        BY <1>1 DEF LoadVdso
    <2>2. KernelFits => ReadFits(vdso_offset, image.vdso)
        BY DEF KernelFits
    <2> QED
        BY <1>0, <1>a, <2>1, <2>2, HaltAfterReadFInv
<1>2. CASE ReadAll(vdso_offset, image.vdso)
    <2> DEFINE temp == ReadToTemp(vdso_offset, image.vdso)
    <2>0. stage = "code" /\ stage' = "vdso" /\ HeaderAccepted /\ UNCHANGED <<image, heap>>
        BY <1>0, <1>2 DEF LoadVdso
    <2>a. /\ Got(vdso_offset, image.vdso) = image.vdso /\ vdso_offset >= 0
          /\ image.vdso >= 0
        <3>1. Got(vdso_offset, image.vdso) = image.vdso /\ vdso_offset >= 0
            BY <1>2 DEF ReadAll
        <3>2. Got(vdso_offset, image.vdso) \in Nat
            BY <1>0, <1>a, Reads
        <3> QED
            BY <3>1, <3>2
    <2>1. /\ image.vdso \in Nat /\ image.vdso <= TEMP - 1 /\ image.initrd \in Nat
          /\ image.code \in Nat /\ image.code <= TEMP - 1
        BY <1>a, <2>a
    <2>2. /\ DOMAIN temp = 0 .. 2 * K128 - 1
          /\ \A x \in 0 .. 2 * K128 - 1 :
                 temp[x] = IF x >= TEMP /\ x < TEMP + image.vdso
                           THEN Cell("kernel", vdso_offset + (x - TEMP)) ELSE ram[x]
        BY <1>0, <1>a, <2>a, Reads
    <2>3. /\ ram' = CopiedToCode(temp, KERNEL_VDSO_BASE, image.vdso)
          /\ iram' = CopiedToIram(KERNEL_VDSO_BASE, temp, image.vdso)
        BY <1>2 DEF LoadVdso
    <2> HIDE DEF temp
    <2>4. /\ DOMAIN ram' = 0 .. 2 * K128 - 1
          /\ \A x \in 0 .. 2 * K128 - 1 :
                 ram'[x] = IF /\ x >= K128
                              /\ 2 * K128 - 1 + Page - x >= 0
                              /\ 2 * K128 - 1 + Page - x < image.vdso
                           THEN temp[TEMP + (2 * K128 - 1 + Page - x)] ELSE temp[x]
        <3>1. \A x \in 0 .. 2 * K128 - 1 : Alias(x) - KERNEL_VDSO_BASE = 2 * K128 - 1 + Page - x
            BY Layout DEF Alias, KERNEL_VDSO_BASE
        <3> QED
            BY <2>2, <2>3, <3>1 DEF CopiedToCode
    <2>5. /\ DOMAIN iram' = 0 .. K128 - 1
          /\ \A x \in 0 .. K128 - 1 :
                 x >= K128 - Page /\ x < K128 - Page + image.vdso =>
                     iram'[x] = temp[TEMP + (x - (K128 - Page))]
        BY <2>3 DEF CopiedToIram, KERNEL_VDSO_BASE, FInv, TypeOK
    <2>6. /\ VdsoExcess \in Nat
          /\ \A i \in Nat : i >= VdsoExcess => ~(Page + i < image.vdso)
          /\ \A i \in Nat : i < image.vdso - VdsoExcess => i < Page /\ i < image.vdso
        BY <2>1, Layout DEF VdsoExcess
    <2>7. VdsoInv'
        <3> SUFFICES ASSUME NEW i \in 0 .. image.vdso - VdsoExcess - 1
                     PROVE  iram'[K128 - Page + i] = Cell("kernel", vdso_offset + i)
            BY <2>0 DEF VdsoInv, VdsoExcess, KERNEL_VDSO_BASE, K128, vdso_offset, data_offset,
                code_offset
        <3>1. i \in Nat /\ i < Page /\ i < image.vdso
            BY <2>1, <2>6
        <3>2. K128 - Page + i \in 0 .. K128 - 1
            BY <3>1, Layout
        <3>3. iram'[K128 - Page + i] = temp[TEMP + i]
            BY <2>1, <2>5, <3>1, <3>2, Layout
        <3>4. TEMP + i \in 0 .. 2 * K128 - 1 /\ TEMP + i >= TEMP /\ TEMP + i < TEMP + image.vdso
            BY <2>1, <3>1, Layout
        <3>5. (TEMP + i) - TEMP = i
            BY <3>1, Layout
        <3> QED
            BY <2>2, <3>3, <3>4, <3>5
    <2>8. CodeInv'
        <3> SUFFICES ASSUME NEW i \in VdsoExcess .. image.code - 1
                     PROVE  ram'[2 * K128 - 1 - i] = Cell("kernel", 1 + i)
            BY <2>0 DEF CodeInv, VdsoExcess, K128
        <3>1. ram[2 * K128 - 1 - i] = Cell("kernel", 1 + i)
            BY <2>0 DEF FInv, CodeInv, FromCode, FromHeader
        <3>2. i \in Nat /\ i < image.code /\ ~(Page + i < image.vdso)
            BY <2>1, <2>6
        <3>3. 2 * K128 - 1 - i \in 0 .. 2 * K128 - 1 /\ 2 * K128 - 1 - i >= K128
            BY <2>1, <3>2, Layout
        <3>4. ram'[2 * K128 - 1 - i] = temp[2 * K128 - 1 - i]
            BY <2>1, <2>4, <3>2, <3>3, Layout
        <3> QED
            BY <2>1, <2>2, <3>1, <3>3, <3>4, Layout
    <2>9. ASSUME NEW x \in 0 .. 2 * K128 - 1, x < TEMP \/ x \in Bootrom
          PROVE  ram'[x] = ram[x]
        BY <2>1, <2>2, <2>4, <2>9, Layout
    <2>10. InitrdInv'
        <3> SUFFICES ASSUME NEW i \in 0 .. image.initrd - 1, Page + i < TEMP
                     PROVE  ram'[Page + i] = Cell("initrd", i)
            BY <2>0 DEF InitrdInv, INITRD, TEMP, K128
        <3>1. ram[Page + i] = Cell("initrd", i)
            BY <2>0 DEF FInv, InitrdInv, INITRD, FromHeader
        <3> QED
            BY <2>1, <2>9, <3>1, Layout
    <2>11. BootromUsable'
        <3> SUFFICES ASSUME Page + image.initrd <= K128, KernelFits, NEW a \in Bootrom
                     PROVE  ram'[a].what = "bootrom"
            BY <2>0 DEF BootromUsable, INITRD, KERNEL_DATA_BASE, Bootrom, K128, KernelFits,
                ReadFits, code_offset, data_offset, vdso_offset
        <3>1. ram[a].what = "bootrom"
            BY <2>0 DEF FInv, BootromUsable, INITRD, KERNEL_DATA_BASE, Loading
        <3> QED
            BY <2>9, <3>1, Layout
    <2>12. TypeOK' /\ SizeInv' /\ DataInv' /\ InitrdHandedOver'
        BY <1>0, <2>0, <2>a, <2>4, <2>5 DEF FInv, TypeOK, SizeInv, HeaderAccepted, DataInv,
            InitrdHandedOver, FromHeader, FromCode, FromVdso, FromData, FromHeap, Running
    <2> QED
        BY <2>7, <2>8, <2>10, <2>11, <2>12 DEF FInv
<1> QED
    BY <1>1, <1>2

\* The data is read to the buffer while the boot rom still works.
LEMMA ReadDataFInv == ASSUME FInv, ReadData PROVE FInv'
PROOF
<1>0. stage = "vdso" /\ HeaderAccepted /\ TypeOK /\ image.code >= 0
    BY DEF ReadData, FInv, SizeInv, FromHeader, FromCode
<1>a. /\ image.data \in Int /\ image.data <= TEMP - 1 /\ image.data <= TEMP
      /\ image.initrd \in Nat /\ image.code \in Nat /\ image.code <= TEMP - 1
      /\ data_offset \in Int
    BY <1>0, Accepted, ImageType, Layout DEF TypeOK
<1>1. CASE ~ReadAll(data_offset, image.data)
    <2>1. HaltAfterRead(data_offset, image.data)
        BY <1>1 DEF ReadData
    <2>2. KernelFits => ReadFits(data_offset, image.data)
        BY DEF KernelFits
    <2> QED
        BY <1>0, <1>a, <2>1, <2>2, HaltAfterReadFInv
<1>2. CASE ReadAll(data_offset, image.data)
    <2>0. stage = "vdso" /\ stage' = "data" /\ HeaderAccepted /\ UNCHANGED <<image, iram, heap>>
        BY <1>0, <1>2 DEF ReadData
    <2>a. /\ Got(data_offset, image.data) = image.data /\ data_offset >= 0
          /\ image.data >= 0
        <3>1. Got(data_offset, image.data) = image.data /\ data_offset >= 0
            BY <1>2 DEF ReadAll
        <3>2. Got(data_offset, image.data) \in Nat
            BY <1>0, <1>a, Reads
        <3> QED
            BY <3>1, <3>2
    <2>1. /\ image.data \in Nat /\ image.data <= TEMP - 1 /\ image.initrd \in Nat
          /\ image.code \in Nat /\ image.code <= TEMP - 1
        BY <1>a, <2>a
    <2>2. /\ DOMAIN ram' = 0 .. 2 * K128 - 1
          /\ \A x \in 0 .. 2 * K128 - 1 :
                 ram'[x] = IF x >= TEMP /\ x < TEMP + image.data
                           THEN Cell("kernel", data_offset + (x - TEMP)) ELSE ram[x]
        <3>1. ram' = ReadToTemp(data_offset, image.data)
            BY <1>2 DEF ReadData
        <3> QED
            BY <1>0, <1>a, <2>a, <3>1, Reads
    <2>3. ASSUME NEW x \in 0 .. 2 * K128 - 1, x < TEMP \/ x >= K128
          PROVE  ram'[x] = ram[x]
        BY <2>1, <2>2, <2>3, Layout
    <2>4. DataInv'
        <3> SUFFICES ASSUME NEW i \in 0 .. image.data - 1
                     PROVE  ram'[TEMP + i] = Cell("kernel", data_offset + i)
            BY <2>0 DEF DataInv, Running, TEMP, K128, data_offset, code_offset
        <3>1. TEMP + i \in 0 .. 2 * K128 - 1 /\ TEMP + i >= TEMP /\ TEMP + i < TEMP + image.data
            BY <2>1, Layout
        <3>2. (TEMP + i) - TEMP = i
            BY Layout
        <3> QED
            BY <2>2, <3>1, <3>2
    <2>5. CodeInv'
        <3> SUFFICES ASSUME NEW i \in VdsoExcess .. image.code - 1
                     PROVE  ram'[2 * K128 - 1 - i] = Cell("kernel", 1 + i)
            BY <2>0 DEF CodeInv, VdsoExcess, K128
        <3>1. ram[2 * K128 - 1 - i] = Cell("kernel", 1 + i)
            BY <2>0 DEF FInv, CodeInv, FromCode, FromHeader
        <3>2. VdsoExcess \in Nat
            BY ExcessType DEF FInv
        <3> QED
            BY <2>1, <2>3, <3>1, <3>2, Layout
    <2>6. InitrdInv'
        <3> SUFFICES ASSUME NEW i \in 0 .. image.initrd - 1, Page + i < TEMP
                     PROVE  ram'[Page + i] = Cell("initrd", i)
            BY <2>0 DEF InitrdInv, INITRD, TEMP, K128
        <3>1. ram[Page + i] = Cell("initrd", i)
            BY <2>0 DEF FInv, InitrdInv, INITRD, FromHeader
        <3> QED
            BY <2>1, <2>3, <3>1, Layout
    <2>7. BootromUsable'
        <3> SUFFICES ASSUME Page + image.initrd <= K128, KernelFits, NEW a \in Bootrom
                     PROVE  ram'[a].what = "bootrom"
            BY <2>0 DEF BootromUsable, INITRD, KERNEL_DATA_BASE, Bootrom, K128, KernelFits,
                ReadFits, code_offset, data_offset, vdso_offset
        <3>1. ram[a].what = "bootrom"
            BY <2>0 DEF FInv, BootromUsable, INITRD, KERNEL_DATA_BASE, Loading
        <3>2. a \in 0 .. 2 * K128 - 1 /\ a >= K128
            BY Layout
        <3> QED
            BY <2>3, <3>1, <3>2
    <2>8. VdsoInv'
        BY <2>0 DEF FInv, VdsoInv, VdsoExcess, KERNEL_VDSO_BASE, vdso_offset, data_offset,
            code_offset, FromVdso, FromCode, FromHeader
    <2>9. TypeOK' /\ SizeInv' /\ InitrdHandedOver'
        BY <1>0, <2>0, <2>a, <2>2 DEF FInv, TypeOK, SizeInv, HeaderAccepted,
            InitrdHandedOver, FromHeader, FromCode, FromVdso, FromData, FromHeap
    <2> QED
        BY <2>4, <2>5, <2>6, <2>7, <2>8, <2>9 DEF FInv
<1> QED
    BY <1>1, <1>2

\* In the stages of the kernel: its sizes, and the vdso, which nobody writes to.
LEMMA KernelSizes ==
    ASSUME FInv, stage \in FromData
    PROVE  /\ image.code \in Nat /\ image.code >= 1 /\ image.code <= TEMP - 1
           /\ image.data \in Nat /\ image.data <= TEMP - 1
           /\ image.vdso \in Nat /\ image.initrd \in Nat
           /\ image.code + image.data <= K128
           /\ VdsoExcess \in Nat
PROOF
<1>1. HeaderAccepted /\ image.data >= 0 /\ image.vdso >= 0 /\ image.code >= 0
    BY DEF FInv, SizeInv, FromData, FromVdso, FromCode, FromHeader
<1>2. VdsoExcess \in Nat
    BY ExcessType DEF FInv
<1> QED
    BY <1>1, <1>2, Accepted, Layout

\* From the jump on the boot rom is gone; a step that keeps code and data in
\* place, and what there is of the initrd, keeps the kernel in place.
LEMMA KernelStep ==
    ASSUME FInv, stage \in FromData, stage' \in Running, UNCHANGED image,
           TypeOK', SizeInv', VdsoInv', DataInv',
           \A x \in 0 .. 2 * K128 - 1 : x >= 2 * K128 - image.code => ram'[x] = ram[x],
           InitrdInv', InitrdHandedOver'
    PROVE  FInv'
PROOF
<1>1. CodeInv'
    <2> SUFFICES ASSUME NEW i \in VdsoExcess .. image.code - 1
                 PROVE  ram'[2 * K128 - 1 - i] = Cell("kernel", 1 + i)
        BY DEF CodeInv, VdsoExcess, K128
    <2>1. ram[2 * K128 - 1 - i] = Cell("kernel", 1 + i)
        BY DEF FInv, CodeInv, FromData, FromVdso
    <2>2. i \in Nat /\ i < image.code /\ image.code \in Nat /\ image.code <= TEMP - 1
        BY KernelSizes
    <2>3. 2 * K128 - 1 - i \in 0 .. 2 * K128 - 1 /\ 2 * K128 - 1 - i >= 2 * K128 - image.code
        BY <2>2, Layout
    <2> QED
        BY <2>1, <2>3
<1>2. BootromUsable'
    BY DEF BootromUsable, Running, Loading
<1> QED
    BY <1>1, <1>2 DEF FInv

\* The data takes the place of the boot rom.
LEMMA EnterKernelFInv == ASSUME FInv, EnterKernel PROVE FInv'
PROOF
<1>0. stage = "data" /\ stage' = "kernel" /\ UNCHANGED <<image, iram, heap>> /\ stage \in FromData
    BY DEF EnterKernel, FromData, FromVdso, FromCode, FromHeader
<1>1. /\ DOMAIN ram' = 0 .. 2 * K128 - 1
      /\ \A x \in 0 .. 2 * K128 - 1 :
             ram'[x] = IF x >= K128 /\ x < K128 + image.data THEN ram[TEMP + (x - K128)] ELSE ram[x]
    BY DEF EnterKernel, KERNEL_DATA_BASE, FInv, TypeOK
<1>2. DataInv'
    <2> SUFFICES ASSUME NEW i \in 0 .. image.data - 1
                 PROVE  ram'[K128 + i] = Cell("kernel", data_offset + i)
        BY <1>0 DEF DataInv, KERNEL_DATA_BASE, K128, data_offset, code_offset
    <2>1. ram[TEMP + i] = Cell("kernel", data_offset + i)
        BY <1>0 DEF FInv, DataInv
    <2>2. ram'[K128 + i] = ram[TEMP + i]
        BY SMTT(30), <1>0, <1>1, KernelSizes, Layout
    <2> QED
        BY <2>1, <2>2
<1>3. InitrdInv'
    <2> SUFFICES ASSUME NEW i \in 0 .. image.initrd - 1, Page + i < TEMP
                 PROVE  ram'[Page + i] = Cell("initrd", i)
        BY <1>0 DEF InitrdInv, INITRD, TEMP, K128
    <2>1. ram[Page + i] = Cell("initrd", i)
        BY <1>0 DEF FInv, InitrdInv, INITRD, FromHeader
    <2>2. Page + i \in 0 .. 2 * K128 - 1 /\ Page + i < K128
        BY <1>0, KernelSizes, Layout
    <2> QED
        BY <1>0, <1>1, <2>1, <2>2, KernelSizes, Layout
<1>4. TypeOK' /\ SizeInv' /\ VdsoInv' /\ InitrdHandedOver'
    BY <1>0, <1>1 DEF FInv, TypeOK, SizeInv, HeaderAccepted, VdsoInv, VdsoExcess, KERNEL_VDSO_BASE,
        vdso_offset, data_offset, code_offset,
        InitrdHandedOver, FromHeader, FromCode, FromVdso, FromData, FromHeap
<1>5. \A x \in 0 .. 2 * K128 - 1 : x >= 2 * K128 - image.code => ram'[x] = ram[x]
    BY SMTT(30), <1>0, <1>1, KernelSizes, Layout
<1>6. stage' \in Running
    BY <1>0 DEF Running
<1> QED
    BY <1>0, <1>2, <1>3, <1>4, <1>5, <1>6, KernelStep

\* The heap lies between the data and the code.
LEMMA InitMemFInv == ASSUME FInv, init_mem PROVE FInv'
PROOF
<1>0. /\ stage = "kernel" /\ stage' = "heap" /\ UNCHANGED <<image, iram>> /\ stage \in FromData
      /\ heap' = [start |-> K128 + image.data, size |-> K128 - image.code - image.data]
    BY DEF init_mem, KERNEL_DATA_BASE, HeapSize, FromData, FromVdso, FromCode, FromHeader
<1>1. /\ DOMAIN ram' = 0 .. 2 * K128 - 1
      /\ \A x \in 0 .. 2 * K128 - 1 :
             ram'[x] = IF x >= K128 + image.data /\ x < 2 * K128 - image.code
                       THEN Cell("heap", 0) ELSE ram[x]
    <2>1. heap'.start = K128 + image.data /\ heap'.start + heap'.size = 2 * K128 - image.code
        BY <1>0, KernelSizes, Layout
    <2> QED
        BY <2>1 DEF init_mem, FInv, TypeOK
<1>2. DataInv'
    <2> SUFFICES ASSUME NEW i \in 0 .. image.data - 1
                 PROVE  ram'[K128 + i] = Cell("kernel", data_offset + i)
        BY <1>0 DEF DataInv, KERNEL_DATA_BASE, K128, data_offset, code_offset
    <2>1. ram[K128 + i] = Cell("kernel", data_offset + i)
        BY <1>0 DEF FInv, DataInv, Running, KERNEL_DATA_BASE
    <2> QED
        BY SMTT(30), <1>0, <1>1, <2>1, KernelSizes, Layout
<1>3. InitrdInv'
    <2> SUFFICES ASSUME NEW i \in 0 .. image.initrd - 1, Page + i < TEMP
                 PROVE  ram'[Page + i] = Cell("initrd", i)
        BY <1>0 DEF InitrdInv, INITRD, TEMP, K128
    <2>1. ram[Page + i] = Cell("initrd", i)
        BY <1>0 DEF FInv, InitrdInv, INITRD, FromHeader
    <2> QED
        BY SMTT(30), <1>0, <1>1, <2>1, KernelSizes, Layout
<1>4. /\ heap' \in [start : Nat, size : Nat]
      /\ heap'.start = K128 + image.data /\ heap'.size = K128 - image.code - image.data
      /\ heap'.start + heap'.size <= 2 * K128
    BY SMTT(30), <1>0, KernelSizes, Layout
<1>5. SizeInv'
    BY <1>0, <1>4 DEF FInv, SizeInv, HeaderAccepted, HeapSize, KERNEL_DATA_BASE, FromHeader,
        FromCode, FromVdso, FromData, FromHeap
<1>6. TypeOK' /\ VdsoInv' /\ InitrdHandedOver'
    BY <1>0, <1>1, <1>4 DEF FInv, TypeOK, VdsoInv, VdsoExcess, KERNEL_VDSO_BASE,
        vdso_offset, data_offset, code_offset,
        InitrdHandedOver, FromHeader, FromCode, FromVdso
<1>7. \A x \in 0 .. 2 * K128 - 1 : x >= 2 * K128 - image.code => ram'[x] = ram[x]
    BY SMTT(30), <1>0, <1>1, KernelSizes, Layout
<1>8. stage' \in Running
    BY <1>0 DEF Running
<1> QED
    BY <1>0, <1>2, <1>3, <1>5, <1>6, <1>7, <1>8, KernelStep

\* The copy of the initrd stays in the heap.
LEMMA CopyFInv == ASSUME FInv, load_from_initrd PROVE FInv'
PROOF
<1>1. CASE ~(image.initrd <= heap.size)
    <2>1. stage = "heap" /\ stage' = "panic" /\ UNCHANGED <<image, ram, iram, heap>>
        BY <1>1 DEF load_from_initrd
    <2> QED
        BY <2>1 DEF FInv, TypeOK, SizeInv, InitrdInv, CodeInv, VdsoInv, DataInv, BootromUsable,
            InitrdHandedOver, Loading, FromHeader, FromCode, FromVdso, FromData, FromHeap, Running
<1>2. CASE image.initrd <= heap.size
    <2>0. /\ stage = "heap" /\ stage' = "copied" /\ UNCHANGED <<image, iram, heap>>
          /\ stage \in FromData
        BY <1>2 DEF load_from_initrd, FromData, FromVdso, FromCode, FromHeader
    <2>z. /\ image.code \in Nat /\ image.code >= 1 /\ image.data \in Nat /\ image.data <= TEMP - 1
          /\ image.initrd \in Nat /\ image.code + image.data <= K128 /\ image.code <= TEMP - 1
        BY <2>0, KernelSizes
    <2>1. /\ heap.start = K128 + image.data /\ heap.size = K128 - image.code - image.data
          /\ heap.start + image.initrd <= 2 * K128 - image.code
        <3>1. heap.start = K128 + image.data /\ heap.size = K128 - image.code - image.data
            BY <2>0 DEF FInv, SizeInv, FromHeap, KERNEL_DATA_BASE, HeapSize
        <3> QED
            BY <1>2, <2>z, <3>1, Layout
    <2>2. /\ DOMAIN ram' = 0 .. 2 * K128 - 1
          /\ \A x \in 0 .. 2 * K128 - 1 :
                 ram'[x] = IF x >= heap.start /\ x < heap.start + image.initrd
                           THEN ram[Page + (x - heap.start)] ELSE ram[x]
        BY <1>2 DEF load_from_initrd, CopyInitrd, INITRD, FInv, TypeOK
    <2>3. InitrdHandedOver'
        <3> SUFFICES ASSUME NEW i \in 0 .. image.initrd - 1, Page + i < TEMP
                     PROVE  ram'[heap.start + i] = Cell("initrd", i)
            BY <2>0 DEF InitrdHandedOver, INITRD, TEMP, K128
        <3>1. ram[Page + i] = Cell("initrd", i)
            BY <2>0 DEF FInv, InitrdInv, INITRD, FromHeader
        <3>2. heap.start \in Nat /\ i \in Nat /\ i < image.initrd
            BY SMTT(30), <2>1, <2>z, Layout
        <3>3. heap.start + i \in 0 .. 2 * K128 - 1
            <4>1. K128 \in Nat
                BY Layout
            <4>2. heap.start + i < heap.start + image.initrd
                BY <2>z, <3>2
            <4>3. 2 * K128 - image.code <= 2 * K128 - 1
                BY <2>z, <4>1
            <4>4. heap.start + i <= 2 * K128 - 1 /\ heap.start + i \in Nat
                BY <2>1, <2>z, <3>2, <4>1, <4>2, <4>3
            <4> QED
                BY <4>1, <4>4
        <3>4. /\ heap.start + i >= heap.start /\ heap.start + i < heap.start + image.initrd
              /\ (heap.start + i) - heap.start = i
            BY <2>z, <3>2
        <3> QED
            BY <2>2, <3>1, <3>3, <3>4
    <2>4. DataInv'
        <3> SUFFICES ASSUME NEW i \in 0 .. image.data - 1
                     PROVE  ram'[K128 + i] = Cell("kernel", data_offset + i)
            BY <2>0 DEF DataInv, KERNEL_DATA_BASE, K128, data_offset, code_offset
        <3>1. ram[K128 + i] = Cell("kernel", data_offset + i)
            BY <2>0 DEF FInv, DataInv, Running, KERNEL_DATA_BASE
        <3>2. K128 + i \in 0 .. 2 * K128 - 1 /\ K128 + i < heap.start
            BY SMTT(30), <2>0, <2>1, KernelSizes, Layout
        <3>3. ~(K128 + i >= heap.start)
            BY <2>1, <2>z, <3>2, Layout
        <3> QED
            BY <2>2, <3>1, <3>2, <3>3
    <2>5. TypeOK' /\ SizeInv'
        BY <1>2, <2>0, <2>2 DEF FInv, TypeOK, SizeInv, HeaderAccepted, FromHeader, FromCode,
            FromVdso, FromData, FromHeap
    <2>8. VdsoInv'
        BY <2>0, <2>2 DEF FInv, VdsoInv, VdsoExcess, KERNEL_VDSO_BASE, vdso_offset,
            data_offset, code_offset, FromVdso, FromData, FromHeap
    <2>9. InitrdInv'
        BY <2>0 DEF InitrdInv
    <2>6. \A x \in 0 .. 2 * K128 - 1 : x >= 2 * K128 - image.code => ram'[x] = ram[x]
        BY SMTT(30), <2>1, <2>2, <2>z, Layout
    <2>7. stage' \in Running
        BY <2>0 DEF Running
    <2> QED
        BY <2>0, <2>3, <2>4, <2>5, <2>6, <2>7, <2>8, <2>9, KernelStep
<1> QED
    BY <1>1, <1>2

\* Programs get the pages of DRAM and all of SRAM0 but the vdso.
LEMMA LoadAppsFInv == ASSUME FInv, LoadApps PROVE FInv'
PROOF
<1>0. stage = "copied" /\ stage' = "run" /\ UNCHANGED <<image, heap>> /\ stage \in FromData
    BY DEF LoadApps, FromData, FromVdso, FromCode, FromHeader
<1>z. /\ image.code \in Nat /\ image.code >= 1 /\ image.data \in Nat /\ image.data <= TEMP - 1
      /\ image.initrd \in Nat /\ image.code + image.data <= K128 /\ image.code <= TEMP - 1
    BY <1>0, KernelSizes
<1>1. /\ DOMAIN ram' = 0 .. 2 * K128 - 1 /\ DOMAIN iram' = 0 .. K128 - 1
      /\ \A x \in 0 .. 2 * K128 - 1 : x >= K128 => ram'[x] = ram[x]
      /\ \A x \in 0 .. K128 - 1 : x >= K128 - Page => iram'[x] = iram[x]
    BY Layout DEF LoadApps, KERNEL_VDSO_BASE, FInv, TypeOK
<1>2. /\ heap.start = K128 + image.data /\ heap.size = K128 - image.code - image.data
      /\ heap.start \in Nat /\ image.initrd <= heap.size
    BY <1>0 DEF FInv, SizeInv, FromHeap, KERNEL_DATA_BASE, HeapSize
<1>3. InitrdHandedOver'
    <2> SUFFICES ASSUME NEW i \in 0 .. image.initrd - 1, Page + i < TEMP
                 PROVE  ram'[heap.start + i] = Cell("initrd", i)
        BY <1>0 DEF InitrdHandedOver, INITRD, TEMP, K128
    <2>1. ram[heap.start + i] = Cell("initrd", i)
        BY <1>0 DEF FInv, InitrdHandedOver, INITRD
    <2>2. heap.start + i \in 0 .. 2 * K128 - 1 /\ heap.start + i >= K128
        BY SMTT(30), <1>2, <1>z, Layout
    <2> QED
        BY <1>1, <2>1, <2>2
<1>4. DataInv'
    <2> SUFFICES ASSUME NEW i \in 0 .. image.data - 1
                 PROVE  ram'[K128 + i] = Cell("kernel", data_offset + i)
        BY <1>0 DEF DataInv, KERNEL_DATA_BASE, K128, data_offset, code_offset
    <2>1. ram[K128 + i] = Cell("kernel", data_offset + i)
        BY <1>0 DEF FInv, DataInv, Running, KERNEL_DATA_BASE
    <2>2. K128 + i \in 0 .. 2 * K128 - 1 /\ K128 + i >= K128
        BY <1>0, KernelSizes, Layout
    <2> QED
        BY <1>1, <2>1, <2>2
<1>5. VdsoInv'
    <2> SUFFICES ASSUME NEW i \in 0 .. image.vdso - VdsoExcess - 1
                 PROVE  iram'[K128 - Page + i] = Cell("kernel", vdso_offset + i)
        BY <1>0 DEF VdsoInv, VdsoExcess, KERNEL_VDSO_BASE, K128, vdso_offset, data_offset,
            code_offset
    <2>1. iram[K128 - Page + i] = Cell("kernel", vdso_offset + i)
        BY <1>0 DEF FInv, VdsoInv, FromVdso, FromCode, FromHeader, KERNEL_VDSO_BASE
    <2>2. K128 - Page + i \in 0 .. K128 - 1 /\ K128 - Page + i >= K128 - Page
        BY <1>0, KernelSizes, Layout DEF VdsoExcess
    <2> QED
        BY <1>1, <2>1, <2>2
<1>6. TypeOK' /\ SizeInv' /\ InitrdInv'
    BY <1>0, <1>1 DEF FInv, TypeOK, SizeInv, HeaderAccepted, InitrdInv, FromHeader, FromCode,
        FromVdso, FromData, FromHeap
<1>7. \A x \in 0 .. 2 * K128 - 1 : x >= 2 * K128 - image.code => ram'[x] = ram[x]
    BY <1>1, <1>z, Layout
<1>8. stage' \in Running
    BY <1>0 DEF Running
<1> QED
    BY <1>0, <1>3, <1>4, <1>5, <1>6, <1>7, <1>8, KernelStep

\* FInv holds throughout.
THEOREM BootInvariance == Spec => []FInv
PROOF
<1>1. FInv /\ [Next]_vars => FInv'
    <2> SUFFICES ASSUME FInv, [Next]_vars PROVE FInv'
        OBVIOUS
    <2>1. CASE UNCHANGED vars
        BY <2>1 DEF vars, FInv, TypeOK, SizeInv, HeaderAccepted, InitrdInv, CodeInv, VdsoInv,
            DataInv, BootromUsable, InitrdHandedOver, VdsoExcess, KernelFits, ReadFits, code_offset,
            data_offset, vdso_offset
    <2>2. CASE FlashFails
        BY <2>2, HaltFInv DEF FlashFails, Loading
    <2> QED
        BY <2>1, <2>2, BootromFailsFInv, LoadInitrdFInv, HeaderFInv, LoadCodeFInv, LoadVdsoFInv, ReadDataFInv,
            EnterKernelFInv, InitMemFInv, CopyFInv, LoadAppsFInv DEF Next
<1> QED
    BY <1>1, InitFInv, PTL DEF Spec

-----------------------------------------------------------------------------
\* No file on flash makes a copy leave the memories, or the heap leave SRAM1.
THEOREM BootTypeTheorem == Spec => []TypeOK
PROOF
<1>1. FInv => TypeOK
    BY DEF FInv
<1> QED
    BY <1>1, BootInvariance, PTL

\* Every kernel that is started is in place, whatever sizes its header has and
\* however large the initrd is, and stays so while programs are loaded.
THEOREM KernelInPlaceTheorem == Spec => []KernelInPlace
PROOF
<1>1. FInv => KernelInPlace
    <2> SUFFICES ASSUME FInv, stage \in Running
                 PROVE  /\ \A i \in VdsoExcess .. image.code - 1 :
                               ram[Alias(KERNEL_CODE_BASE + i)] = Cell("kernel", 1 + i)
                        /\ \A i \in 0 .. image.data - 1 : ram[KERNEL_DATA_BASE + i] = Cell("kernel", data_offset + i)
                        /\ \A i \in 0 .. image.vdso - VdsoExcess - 1 :
                               iram[KERNEL_VDSO_BASE + i] = Cell("kernel", vdso_offset + i)
        BY DEF KernelInPlace, code_offset
    <2>1. stage \in FromData /\ stage \in FromVdso /\ stage \in FromCode
        BY DEF Running, FromData, FromVdso, FromCode, FromHeader
    <2>2. \A i \in VdsoExcess .. image.code - 1 : ram[2 * K128 - 1 - i] = Cell("kernel", 1 + i)
        BY <2>1 DEF FInv, CodeInv
    <2>3. \A i \in VdsoExcess .. image.code - 1 : Alias(KERNEL_CODE_BASE + i) = 2 * K128 - 1 - i
        BY <2>1, KernelSizes, Layout DEF Alias, KERNEL_CODE_BASE
    <2> QED
        BY <2>1, <2>2, <2>3 DEF FInv, DataInv, VdsoInv, code_offset
<1> QED
    BY <1>1, BootInvariance, PTL

\* The boot rom is whole as long as it is called, by a failing ASSERT too, unless
\* the initrd alone ends behind the user data or the read of a negative size
\* takes more of the file than the buffer holds.
THEOREM BootromTheorem == Spec => []BootromUsable
PROOF
<1>1. FInv => BootromUsable
    BY DEF FInv
<1> QED
    BY <1>1, BootInvariance, PTL

\* The kernel's copy of the initrd is the file, up to the buffer of the loader.
THEOREM InitrdTheorem == Spec => []InitrdHandedOver
PROOF
<1>1. FInv => InitrdHandedOver
    BY DEF FInv
<1> QED
    BY <1>1, BootInvariance, PTL
=============================================================================
