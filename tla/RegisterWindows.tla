-------------------------- MODULE RegisterWindows --------------------------
(***************************************************************************)
(* The register file across a trap: arch/interrupts.S saves the window of  *)
(* the interrupted program and every live window under it to a             *)
(* task_regs_t, calls a C handler that may put another task's registers    *)
(* in that frame, and loads the register file from it again.               *)
(*                                                                         *)
(* The file is NPanes panes of four registers; WINDOWBASE names the pane   *)
(* that is a0-a3 now, WINDOWSTART the panes where a live window begins.    *)
(* Registers hold numbers.  One unit of a pointer stands for the 16 bytes  *)
(* of a pane.                                                              *)
(***************************************************************************)
EXTENDS Integers, FiniteSets

CONSTANTS
    NPanes,         \* panes of the file: 16 in the processor
    Bases,          \* the values of WINDOWBASE programs are interrupted at
    Junk,           \* what C code may leave in a register: small numbers
    OtherBases      \* whether a task may be dispatched over one with another base

ASSUME WindowsAssumption ==
    /\ NPanes \in 5 .. 16
    /\ Bases \subseteq 0 .. NPanes - 1 /\ Bases # {}
    /\ Junk \subseteq 0 .. NPanes /\ Junk # {}
    /\ OtherBases \in BOOLEAN

Panes == 0 .. NPanes - 1
Regs == 0 .. 3

SP == 50            \* the frame on the kernel stack
RET == 60           \* the return address of a call0
BITS == 70          \* WINDOWSTART or a mask of it, in a register
User == 100         \* from here on, values of programs

VARIABLES
    pc,             \* where the trap is
    windowbase, windowstart, ar,    \* the register file
    frame,          \* the task_regs_t at sp
    excsave1, sar,  \* scratch: the base at the restore, the base at the trap
    excm,           \* PS.EXCM
    was             \* history: the program's registers at the trap

vars == <<pc, windowbase, windowstart, ar, frame, excsave1, sar, excm, was>>

\* The panes where windows start, counted from the pane base (rotr16).
Mask(base, start) == {(p - base) % NPanes : p \in start}

\* The next window above base, NPanes when there is no other.
NextWindow(mask) == CHOOSE k \in 1..NPanes :
    /\ k \in mask \/ k = NPanes
    /\ \A j \in mask \ {0} : k <= j

\* What ENTRY leaves: each window starts at most three panes after its caller.
LiveWindows ==
    {w \in [windowbase: Bases, windowstart: SUBSET Panes] :
        LET depth == {(w.windowbase - p) % NPanes : p \in w.windowstart}
        IN  /\ 0 \in depth
            /\ \A d \in depth \ {0} : \E c \in depth : c < d /\ d - c <= 3}

\* The panes, from the base on, that hold registers a program can still read:
\* a0-a15 up to the next window, and the windows below.
Owned(mask) ==
    {j \in Panes : j < 4 /\ j < NextWindow(mask)} \cup {j \in Panes : j >= NextWindow(mask)}

\* The sizes of the frames programs were resumed from.
Sizes == 0 .. NPanes - 2

-----------------------------------------------------------------------------
\* A program in any window; the frame holds what the last trap left in it.
Init ==
    /\ pc = "user"
    /\ \E w \in LiveWindows :
           windowbase = w.windowbase /\ windowstart = w.windowstart
    /\ ar = [p \in Panes |-> [r \in Regs |-> User + 4 * p + r]]
    /\ \E size \in Sizes :
           frame = [ar |-> [j \in Panes |-> [r \in Regs |-> User - 1]],
                    windowbase |-> 0, windowstart |-> {0},
                    mask |-> {0}, windowsize |-> size, excm |-> 1]
    /\ excsave1 = 0
    /\ sar = 0
    /\ excm = 0
    /\ was = [windowbase |-> windowbase, windowstart |-> windowstart, ar |-> ar]

\* The first ENTRY of a task starts its first window.
Entry ==
    /\ pc = "resumed" /\ windowstart = {}
    /\ windowstart' = {windowbase}
    /\ pc' = "user"
    /\ UNCHANGED <<windowbase, ar, frame, excsave1, sar, excm, was>>

\* WINDOWSIZE as the spill computes it (nsau of the next bit, 32 for none);
\* with a single window nothing is stored and the size is what it was before.
StoredSize(mask, before) ==
    IF mask = {0} THEN before
    ELSE IF mask = {} THEN NPanes + 1
    ELSE NPanes - NextWindow(mask)

\* Which of a4-a15 are in the frame, or loaded from it: until a window starts.
Above(mask) == {j \in 1..3 : \A i \in 1..j : i \notin mask}

\* user_exception, and the first half of save_full_interrupt_context.
Trap ==
    /\ pc \in {"user", "resumed"}
    /\ LET mask == Mask(windowbase, windowstart)
           pane(j) == ar[(windowbase + j) % NPanes]
       IN  /\ frame' = [ar |-> [j \in Panes |-> IF j \in Above(mask) \cup {0}
                                                THEN pane(j) ELSE frame.ar[j]],
                        windowbase |-> windowbase, windowstart |-> windowstart,
                        mask |-> mask, windowsize |-> StoredSize(mask, frame.windowsize), excm |-> 1]
           /\ ar' = [ar EXCEPT ![windowbase] =
                         [r \in Regs |-> <<RET, SP, frame'.windowsize, BITS>>[r + 1]]]
           /\ pc' = IF mask = {0} THEN "handler" ELSE "spill"
    /\ sar' = windowbase
    /\ excm' = 1
    /\ was' = [windowbase |-> windowbase, windowstart |-> windowstart, ar |-> ar]
    /\ UNCHANGED <<windowbase, windowstart, excsave1>>

Below == (windowbase - 1) % NPanes

Slot_one_up(pointer) == NPanes - (SP - pointer)

\* The pane of the frame under AR_END - 16, counted from a moved pointer.
Slot(pointer) == NPanes - 1 - (SP - pointer)

\* .spill_loop: stores one pane down, and keeps pointer and count in it.
\* After the last pane the base is the trap's again and only its window is
\* live.  A slot below the frame is memory of the kernel stack.
SpillLoop ==
    LET p == Below
        slot == Slot(ar[windowbase][1])
        count == ar[windowbase][2] - 1
        ends == count = 0
    IN  /\ pc = "spill"
        /\ frame' = [frame EXCEPT !.ar = [j \in Panes |-> IF j = slot THEN ar[p] ELSE @[j]]]
        /\ ar' = [ar EXCEPT ![p][1] = ar[windowbase][1] - 1,
                            ![p][2] = IF ends THEN sar ELSE count,
                            ![p][3] = IF ends THEN BITS ELSE @]
        /\ windowbase' = IF ends THEN sar ELSE p
        /\ windowstart' = IF ends THEN {sar} ELSE windowstart
        /\ pc' = IF ~ends THEN "spill"
                 ELSE IF ar'[sar][1] = SP THEN "handler" ELSE "lost"
        /\ UNCHANGED <<excsave1, sar, excm, was>>

-----------------------------------------------------------------------------
(* The C handler. *)

\* The frame another task was saved with, over one it had been resumed from.
SavedFrame(w, before) ==
    LET mask == Mask(w.windowbase, w.windowstart)
    IN  [ar |-> [j \in Panes |-> [r \in Regs |-> 2 * User + 4 * j + r]],
         windowbase |-> w.windowbase, windowstart |-> w.windowstart,
         mask |-> mask, windowsize |-> StoredSize(mask, before), excm |-> 1]

\* The frame create_task makes: zeroes, but for the entry and the stack.
FreshFrame ==
    [ar |-> [j \in Panes |-> [r \in Regs |->
                IF j = 0 /\ r \in {1, 2} THEN 2 * User + r ELSE 0]],
     windowbase |-> 0, windowstart |-> {}, mask |-> {}, windowsize |-> 0, excm |-> 0]

\* The task goes on, or the scheduler puts another in its place.
Frames ==
    {frame} \cup {f \in {FreshFrame} \cup {SavedFrame(w, b) : w \in LiveWindows, b \in Sizes} :
                    f.windowbase = windowbase \/ OtherBases}

\* PS.EXCM after disable_kernel_exceptions; enable_kernel_exceptions clears it.
disable_kernel_exceptions == 1

\* enable_kernel_exceptions, the call4 of the handler (it returns to the same
\* window), disable_kernel_exceptions and the call0 of the restore.
Handler ==
    /\ pc = "handler"
    /\ \E junk \in Junk :
           ar' = [p \in Panes |-> [r \in Regs |->
                      IF p # windowbase \/ r > 1 THEN junk ELSE IF r = 1 THEN SP ELSE RET]]
    /\ frame' \in Frames
    /\ excm' = disable_kernel_exceptions
    /\ pc' = "restore"
    /\ UNCHANGED <<windowbase, windowstart, excsave1, sar, was>>

-----------------------------------------------------------------------------
(* restore_full_interrupt_context. *)

\* Moves sp and a0 to the frame's window, keeps its a2 as the original base
\* and goes one pane down with the count.
RestoreWindow ==
    /\ pc = "restore"
    /\ LET base == frame.windowbase
           p == (base - 1) % NPanes
           loaded == [ar EXCEPT ![windowbase][2] = base, ![windowbase][3] = BITS]
           moved == [loaded EXCEPT ![base][0] = RET, ![base][1] = SP,
                                   ![base][2] = frame.windowsize]
       IN  /\ excsave1' = loaded[base][2]
           /\ ar' = IF frame.windowsize = 0 THEN moved
                    ELSE [moved EXCEPT ![p][2] = frame.windowsize, ![p][3] = SP]
           /\ windowbase' = p
           /\ windowstart' = frame.windowstart
           /\ pc' = IF frame.windowsize = 0 THEN "zero_regs" ELSE "restore_loop"
    /\ UNCHANGED <<frame, sar, excm, was>>

\* .restore_loop: loads the pane and leaves pointer and count one pane down.
RestoreLoop ==
    LET p == Below
        pointer == ar[windowbase][3] - 1
        count == ar[windowbase][2] - 1
    IN  /\ pc = "restore_loop"
        /\ ar' = [ar EXCEPT ![windowbase] = frame.ar[Slot(pointer + 1)],
                            ![p][2] = count, ![p][3] = pointer]
        /\ windowbase' = p
        /\ pc' = IF count = 0 THEN "zero_regs" ELSE "restore_loop"
        /\ UNCHANGED <<windowstart, frame, excsave1, sar, excm, was>>

Distance_reversed == excsave1 - windowbase

Distance == windowbase - excsave1

\* .zero_regs: how many panes down to the original base.
ZeroRegs ==
    /\ pc = "zero_regs"
    /\ ar' = [ar EXCEPT ![windowbase][0] = windowbase,
                        ![windowbase][3] = Distance % NPanes]
    /\ pc' = IF Distance = 0 THEN "finish" ELSE "zero_loop"
    /\ UNCHANGED <<windowbase, windowstart, frame, excsave1, sar, excm, was>>

Cleared_but_a7(pane) == [r \in Regs |-> IF r = 3 THEN pane[r] ELSE 0]

Cleared(pane) == [r \in Regs |-> 0]

\* .zero_loop: clears the pane and goes one down.
ZeroLoop ==
    LET p == Below
        count == ar[windowbase][3] - 1
    IN  /\ pc = "zero_loop"
        /\ ar' = [ar EXCEPT ![windowbase] = Cleared(@), ![p][3] = count]
        /\ windowbase' = p
        /\ pc' = IF count >= 1 THEN "zero_loop" ELSE "finish"
        /\ UNCHANGED <<windowstart, frame, excsave1, sar, excm, was>>

\* .done_zeroing_regs: PS and a4-a15; only with sp and a0 does it load the
\* frame and return.
Finish ==
    /\ pc = "finish"
    /\ IF ar[windowbase][1] = SP /\ ar[windowbase][0] = RET
       THEN /\ pc' = "exit"
            /\ excm' = frame.excm
            /\ ar' = [p \in Panes |->
                         LET j == (p - windowbase) % NPanes
                         IN  IF j \in Above(frame.mask) THEN frame.ar[j] ELSE ar[p]]
       ELSE pc' = "lost" /\ UNCHANGED <<excm, ar>>
    /\ UNCHANGED <<windowbase, windowstart, frame, excsave1, sar, was>>

\* The end of common_interrupt_entry: a0-a3 and rfe.
Exit ==
    /\ pc = "exit"
    /\ ar' = [ar EXCEPT ![windowbase] = frame.ar[0]]
    /\ excm' = 0
    /\ pc' = "resumed"
    /\ UNCHANGED <<windowbase, windowstart, frame, excsave1, sar, was>>

Next ==
    \/ Entry \/ Trap \/ SpillLoop \/ Handler \/ RestoreWindow \/ RestoreLoop
    \/ ZeroRegs \/ ZeroLoop \/ Finish \/ Exit

Spec == Init /\ [][Next]_vars

-----------------------------------------------------------------------------
(* Properties. *)

\* task_regs_dump: pane p of the register file as the frame has it.
task_regs_dump(p) ==
    frame.ar[IF p < frame.windowbase THEN NPanes + p - frame.windowbase
             ELSE p - frame.windowbase]

\* When the C handler is called, the frame at sp holds every register the
\* program can still read, at the place task_regs_dump prints it from.
SavesExactly ==
    pc = "handler" =>
        \A p \in Panes : (p - was.windowbase) % NPanes \in Owned(frame.mask)
            => task_regs_dump(p) = was.ar[p]

\* A resumed program finds the window, the live windows under it and all
\* their registers as its frame has them.  The restore fails to come back
\* only when the register file was full (the next window starts one pane
\* above the base), the save only when no window was live.
RestoresFrame ==
    /\ pc = "resumed" =>
           /\ windowbase = frame.windowbase /\ windowstart = frame.windowstart
           /\ \A j \in Owned(frame.mask) : ar[(windowbase + j) % NPanes] = frame.ar[j]
    /\ pc = "lost" => 1 \in frame.mask \/ frame.mask = {}

\* .zero_regs (interrupts.S:250): nothing is leaked from the kernel.  A
\* resumed program finds no number of the handler and no pointer or count of
\* the loops in any of the registers, live or not.
NothingLeaks ==
    pc = "resumed" =>
        \A p \in Panes, r \in Regs : ar[p][r] = 0 \/ ar[p][r] >= User - 1

-----------------------------------------------------------------------------
(* What comments of the code say and the code does not keep. *)

\* interrupts.S:345-348: exceptions are enabled in the kernel, "but while we are
\* doing restore work we don't want this to happen".  From the end of the
\* handler to the rfe the processor is in exception mode, where an interrupt
\* that is pending, as one raised under the handler is, waits for the program.
RestoreMasked ==
    pc \in {"restore", "restore_loop", "zero_regs", "zero_loop", "finish", "exit"} => excm = 1

\* interrupts.S:176-179 and 286: the restore takes "an entire task_regs_t
\* context that was saved on exception or modified by the kernel", whatever
\* base it was saved under, and is "back to where we were", with sp and a0.
RestoresAnyFrame ==
    pc = "finish" /\ 1 \notin frame.mask => ar[windowbase][1] = SP /\ ar[windowbase][0] = RET

=============================================================================
