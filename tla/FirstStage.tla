----------------------------- MODULE FirstStage -----------------------------
(***************************************************************************)
(* The boot: the first stage loader (loader/src/main.c) reads the initrd   *)
(* and the kernel from flash into memory the boot rom still uses, jumps,   *)
(* and the kernel (main.c, mem/mem.c) makes its heap out of what is left   *)
(* and copies the initrd there before programs get the pages it lies in.   *)
(*                                                                         *)
(* Memory is counted in cells.  The data bus sees the user data (DRAM) and *)
(* the kernel data (SRAM1) one after the other; the instruction bus sees   *)
(* the user code (SRAM0) and then SRAM1 again, backwards.  Numbers in the  *)
(* comments are the bytes of the processor.                                *)
(***************************************************************************)
EXTENDS Integers

CONSTANTS
    Page,           \* cells of a page: 8K
    NPages,         \* pages of each memory: 16, that is 128K
    Word,           \* the numbers of a register: 2^32
    SRAM0,          \* the address of the user code: 0x40080000
    Images          \* what may be on flash: see ImageAssumption

K128 == NPages * Page

\* A kernel file has a header with sizes of any sign and an entry, and file
\* cells in all; initrd is the size of the initrd with the application.
ImageAssumption ==
    /\ Page \in Nat \ {0} /\ NPages \in Nat /\ NPages % 2 = 0 /\ NPages > 2
    /\ Word \in Nat /\ SRAM0 \in Nat /\ SRAM0 + 2 * K128 < Word
    /\ \A i \in Images :
           /\ i.code \in Int /\ i.data \in Int /\ i.vdso \in Int /\ i.entry \in 0 .. Word - 1
           /\ i.file \in Nat \ {0}
           /\ i.initrd \in Nat \ {0} /\ i.magic \in BOOLEAN /\ i.aligned \in BOOLEAN

ASSUME FirstStageAssumption == ImageAssumption

\* Addresses on the data bus.
LOADER_DATA == 0                                \* 0x3FFC0000
INITRD == Page                                  \* 0x3FFC2000
TEMP == K128 \div 2                             \* 0x3FFD0000
KERNEL_DATA_BASE == K128                        \* 0x3FFE0000

\* Addresses on the instruction bus.
KERNEL_VDSO_BASE == K128 - Page                 \* 0x4009E000
KERNEL_CODE_BASE == K128                        \* 0x400A0000

UINT16_MAX == (K128 \div 2) - 1

\* The header takes a cell of the kernel's file, the code follows.
code_offset == 1

VARIABLES
    stage,          \* how far the boot is
    image,          \* the files on flash
    ram,            \* DRAM and SRAM1, by data address
    iram,           \* SRAM0
    heap            \* where init_mem put the heap: [start, size]

vars == <<stage, image, ram, iram, heap>>

\* The boot rom keeps its data and the stack in the first half of SRAM1.
Bootrom == KERNEL_DATA_BASE .. KERNEL_DATA_BASE + (K128 \div 2) - 1

Cell(what, i) == [what |-> what, i |-> i]

Init ==
    /\ stage = "start"
    /\ image \in Images
    /\ ram = [a \in 0 .. 2 * K128 - 1 |-> Cell(IF a \in Bootrom THEN "bootrom" ELSE "none", 0)]
    /\ iram = [a \in 0 .. K128 - 1 |-> Cell("none", 0)]
    /\ heap = [start |-> 0, size |-> 0]

-----------------------------------------------------------------------------
\* n cells of a file, from its cell off on, written to data address a.
Stored(mem, a, what, off, n) ==
    [x \in DOMAIN mem |-> IF x >= a /\ x < a + n THEN Cell(what, off + (x - a)) ELSE mem[x]]

\* What lfs_file_read gives of the n cells asked for at off: it stops at the
\* end of the file.  A negative size is a huge size_t.
Got(off, n) ==
    LET rest == IF off < image.file THEN image.file - off ELSE 0
    IN  IF n >= 0 /\ n < rest THEN n ELSE rest

\* The temp buffer after a seek and a read; the seek to a negative offset fails.
ReadToTemp(off, n) == IF off >= 0 THEN Stored(ram, TEMP, "kernel", off, Got(off, n)) ELSE ram

ReadAll(off, n) == off >= 0 /\ Got(off, n) = n

\* The data address an instruction address above SRAM0 is an alias of.
Alias(y) == 3 * K128 - 1 - y

\* n cells from the temp buffer copied to instruction address y.
CopiedToCode(mem, y, n) ==
    [x \in DOMAIN mem |-> LET i == Alias(x) - y
                          IN  IF x >= K128 /\ i >= 0 /\ i < n THEN mem[TEMP + i] ELSE mem[x]]

CopiedToIram(y, mem, n) ==
    [x \in DOMAIN iram |-> IF x >= y /\ x < y + n THEN mem[TEMP + (x - y)] ELSE iram[x]]

\* An ASSERT of the loader: it prints and spins, with the watchdogs off.
Halt ==
    /\ stage' = "halt"
    /\ UNCHANGED <<image, ram, iram, heap>>

\* The ASSERT behind a read that gave something else than it was asked for,
\* with what it gave in the buffer and behind it.
HaltAfterRead(off, n) ==
    /\ stage' = "halt"
    /\ ram' = ReadToTemp(off, n)
    /\ UNCHANGED <<image, iram, heap>>

\* Flash that cannot be configured, mounted or read.
FlashFails ==
    /\ stage \in {"start", "initrd", "header", "code", "vdso"}
    /\ Halt

\* The stages that call the boot rom, for flash or to print.
Loading == {"start", "initrd", "header", "code", "vdso", "data", "halt"}

\* Once something of the boot rom is overwritten, its functions and the stack
\* may fail at any time, and nothing is known of what follows.
BootromFails ==
    /\ stage \in Loading
    /\ \E a \in Bootrom : ram[a].what # "bootrom"
    /\ stage' = "lost"
    /\ UNCHANGED <<image, ram, iram, heap>>

\* Waits for a character, sets up flash, and load_initrd: nothing limits the
\* file.
load_initrd ==
    /\ stage = "start"
    /\ stage' = "initrd"
    /\ ram' = Stored(ram, INITRD, "initrd", 0, image.initrd)
    /\ UNCHANGED <<image, iram, heap>>

\* The offsets of load_kernel.
data_offset == code_offset + image.code
vdso_offset == data_offset + image.data

\* A sum in a register as an int32_t, and as a uintptr_t.
Signed(v) == ((v + (Word \div 2)) % Word) - (Word \div 2)
Unsigned(v) == v % Word

HeaderAccepted_code_only ==
    /\ image.magic /\ image.aligned
    /\ Signed(image.code + image.data) <= K128
    /\ SRAM0 + KERNEL_CODE_BASE <= image.entry
    /\ image.entry < Unsigned(SRAM0 + KERNEL_CODE_BASE + image.code)
    /\ image.code <= UINT16_MAX /\ image.vdso <= UINT16_MAX

\* The checks of load_kernel.  The sizes are signed; the entry is compared
\* unsigned, and so lies before the end of a code whose very negative size
\* wraps around.
HeaderAccepted ==
    /\ image.magic /\ image.aligned
    /\ Signed(image.code + image.data) <= K128
    /\ SRAM0 + KERNEL_CODE_BASE <= image.entry
    /\ image.entry < Unsigned(SRAM0 + KERNEL_CODE_BASE + image.code)
    /\ image.code <= UINT16_MAX /\ image.data <= UINT16_MAX /\ image.vdso <= UINT16_MAX

\* A header that was not read stays zero, and has no magic.
LoadHeader ==
    /\ stage = "initrd"
    /\ IF HeaderAccepted
       THEN /\ stage' = "header"
            /\ ram' = [ram EXCEPT ![LOADER_DATA] = Cell("header", 0)]
            /\ UNCHANGED <<image, iram, heap>>
       ELSE Halt

LoadCode ==
    /\ stage = "header"
    /\ IF ReadAll(code_offset, image.code)
       THEN /\ stage' = "code"
            /\ ram' = CopiedToCode(ReadToTemp(code_offset, image.code), KERNEL_CODE_BASE, image.code)
            /\ UNCHANGED <<image, iram, heap>>
       ELSE HaltAfterRead(code_offset, image.code)

LoadVdso ==
    /\ stage = "code"
    /\ IF ReadAll(vdso_offset, image.vdso)
       THEN LET temp == ReadToTemp(vdso_offset, image.vdso)
            IN  /\ stage' = "vdso"
                /\ iram' = CopiedToIram(KERNEL_VDSO_BASE, temp, image.vdso)
                /\ ram' = CopiedToCode(temp, KERNEL_VDSO_BASE, image.vdso)
                /\ UNCHANGED <<image, heap>>
       ELSE HaltAfterRead(vdso_offset, image.vdso)

\* Reads the data to the temp buffer, with the boot rom.
ReadData ==
    /\ stage = "vdso"
    /\ IF ReadAll(data_offset, image.data)
       THEN /\ stage' = "data"
            /\ ram' = ReadToTemp(data_offset, image.data)
            /\ UNCHANGED <<image, iram, heap>>
       ELSE HaltAfterRead(data_offset, image.data)

\* Copies it over the boot rom, and jumps.
EnterKernel ==
    /\ stage = "data"
    /\ stage' = "kernel"
    /\ ram' = [x \in DOMAIN ram |->
                  IF x >= KERNEL_DATA_BASE /\ x < KERNEL_DATA_BASE + image.data
                  THEN ram[TEMP + (x - KERNEL_DATA_BASE)] ELSE ram[x]]
    /\ UNCHANGED <<image, iram, heap>>

HeapSize_all_of_sram(code, data) == K128 - data
HeapSize_code_end_from_start(code, data) == K128 + code - data

\* _heap_size of the linker script.
HeapSize(code, data) == K128 - code - data

\* The heap starts right after the data; umm_init writes into it.  A cell is at
\* least a word, and aligning to words changes nothing.
init_mem ==
    /\ stage = "kernel"
    /\ stage' = "heap"
    /\ heap' = [start |-> KERNEL_DATA_BASE + image.data, size |-> HeapSize(image.code, image.data)]
    /\ ram' = [x \in DOMAIN ram |-> IF x >= heap'.start /\ x < heap'.start + heap'.size
                                    THEN Cell("heap", 0) ELSE ram[x]]
    /\ UNCHANGED <<image, iram>>

CopyInitrd_in_place == ram

CopyInitrd ==
    [x \in DOMAIN ram |-> IF x >= heap.start /\ x < heap.start + image.initrd
                          THEN ram[INITRD + (x - heap.start)] ELSE ram[x]]

\* The first half of load_from_initrd: malloc fails without room (ASSERT in
\* kmain).  The place malloc chooses is the start of the heap.
load_from_initrd ==
    /\ stage = "heap"
    /\ IF image.initrd <= heap.size
       THEN /\ stage' = "copied"
            /\ ram' = CopyInitrd
            /\ UNCHANGED <<image, iram, heap>>
       ELSE stage' = "panic" /\ UNCHANGED <<image, ram, iram, heap>>

\* The second half: programs get pages of DRAM, and of SRAM0 but the last.
\* The application is read from the copy.
LoadApps ==
    /\ stage = "copied"
    /\ stage' = "run"
    /\ ram' = [x \in DOMAIN ram |-> IF x < K128 THEN Cell("user", 0) ELSE ram[x]]
    /\ iram' = [x \in DOMAIN iram |-> IF x < KERNEL_VDSO_BASE THEN Cell("user", 0) ELSE iram[x]]
    /\ UNCHANGED <<image, heap>>

Next ==
    \/ FlashFails \/ load_initrd \/ LoadHeader \/ LoadCode \/ LoadVdso \/ ReadData
    \/ BootromFails \/ EnterKernel \/ init_mem \/ load_from_initrd \/ LoadApps

Spec == Init /\ [][Next]_vars

-----------------------------------------------------------------------------
(* Properties. *)

\* The memories keep their size, the heap lies in SRAM1.
TypeOK ==
    /\ stage \in {"start", "initrd", "header", "code", "vdso", "data", "kernel", "heap",
                  "copied", "run", "halt", "lost", "panic"}
    /\ image \in Images
    /\ DOMAIN ram = 0 .. 2 * K128 - 1 /\ DOMAIN iram = 0 .. K128 - 1
    /\ heap.start >= 0 /\ heap.size >= 0 /\ heap.start + heap.size <= 2 * K128

Running == {"kernel", "heap", "copied", "run"}

\* What the vdso has more than its page, which nothing checks.
VdsoExcess == IF image.vdso > Page THEN image.vdso - Page ELSE 0

\* From the jump on, through the heap's set-up, the copy of the initrd and the
\* first programs, the kernel's code, seen through the instruction bus, its
\* data and the vdso are what is on flash, though the three are read through
\* one buffer and share a memory with the boot rom and the heap.  A vdso that
\* exceeds its page costs the code exactly the excess.
KernelInPlace ==
    stage \in Running =>
        /\ \A i \in VdsoExcess .. image.code - 1 : ram[Alias(KERNEL_CODE_BASE + i)] = Cell("kernel", code_offset + i)
        /\ \A i \in 0 .. image.data - 1 : ram[KERNEL_DATA_BASE + i] = Cell("kernel", data_offset + i)
        /\ \A i \in 0 .. image.vdso - VdsoExcess - 1 : iram[KERNEL_VDSO_BASE + i] = Cell("kernel", vdso_offset + i)

\* A read of n cells at off ends in the temp buffer.  Of a size that is not
\* negative the checks take care; the read of a negative size takes the rest of
\* the file, which then has to fit.
ReadFits(off, n) == n >= 0 \/ off < 0 \/ image.file - off <= K128 \div 2

KernelFits ==
    /\ ReadFits(code_offset, image.code)
    /\ ReadFits(vdso_offset, image.vdso)
    /\ ReadFits(data_offset, image.data)

\* main.c:196: until the data is copied nothing of the boot rom is overwritten:
\* its flash functions, its printing and its stack are still used, by a failing
\* ASSERT too.  Only an initrd that ends behind the user data and a negative
\* size with more than the buffer of file behind its offset can break this: a
\* size the checks of main.c:178-180 refuse, or a file that ends early, cannot.
BootromUsable ==
    /\ stage \in Loading
    /\ stage = "start" \/ INITRD + image.initrd <= KERNEL_DATA_BASE
    /\ KernelFits
    => \A a \in Bootrom : ram[a].what = "bootrom"

\* The initrd the loader left reaches the kernel's heap, and stays there while
\* programs are loaded into the pages it was handed over in: whole when it is
\* within the 56K of docs/memory.md:27, and up to there when it is larger.
InitrdHandedOver ==
    stage \in {"copied", "run"} =>
        \A i \in 0 .. image.initrd - 1 :
            INITRD + i < TEMP => ram[heap.start + i] = Cell("initrd", i)
=============================================================================
