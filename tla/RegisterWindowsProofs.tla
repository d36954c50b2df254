----------------------- MODULE RegisterWindowsProofs -----------------------
(***************************************************************************)
(* Proofs about RegisterWindows for any number of panes up to the          *)
(* processor's, any bases and any live windows.                            *)
(*                                                                         *)
(* WInv says how far each of the three loops of arch/interrupts.S is:      *)
(* which panes are stored, loaded or cleared, and that the pointer and the *)
(* counter in the current window say the same.  Panes are counted from the *)
(* base of the frame: up for those above, down for those below.            *)
(***************************************************************************)
EXTENDS RegisterWindows, LeastElement

\* The pane j above a base, and the pane u below it.
Up(base, j) == (base + j) % NPanes
Down(base, u) == (base - u) % NPanes

File == [Panes -> [Regs -> Int]]

\* Nothing but numbers of programs, or zeroes.
Clean(pane) == \A r \in Regs : pane[r] = 0 \/ pane[r] >= User - 1

Restoring == {"restore", "restore_loop", "zero_regs", "zero_loop", "finish"}
AtRest == {"user", "resumed"}

\* No TypeOK is checked of this module: the registers hold what they are given.
TypeInv ==
    /\ pc \in AtRest \cup Restoring \cup {"spill", "handler", "exit", "lost"}
    /\ windowbase \in Panes /\ windowstart \in SUBSET Panes /\ ar \in File
    /\ frame \in [ar : File, windowbase : Panes, windowstart : SUBSET Panes,
                  mask : SUBSET Panes, windowsize : Nat, excm : {0, 1}]
    /\ was \in [windowbase : Panes, windowstart : SUBSET Panes, ar : File]
    /\ sar \in Panes /\ excsave1 \in Int /\ excm \in {0, 1}

\* What the size in a frame says of its windows.
SizeOK(f) ==
    /\ f.windowsize <= NPanes - 1
    /\ f.windowsize = NPanes - 1 => 1 \in f.mask
    /\ f.mask \notin {{}, {0}} => f.windowsize = NPanes - NextWindow(f.mask)

FrameOK(f) == SizeOK(f) /\ \A j \in Panes : Clean(f.ar[j])

FrameInv ==
    /\ pc = "lost" \/ (pc = "spill" /\ frame.mask = {}) \/ FrameOK(frame)
    /\ pc \in AtRest \cup {"exit"} => frame.windowsize <= NPanes - 2
    /\ pc = "lost" => 1 \in frame.mask \/ frame.mask = {}

\* The panes the trap itself and the spill have stored so far.
Spilled == frame.windowsize - ar[windowbase][2]
Stored(j) == j \in Above(frame.mask) \cup {0} \/ j >= NPanes - Spilled

SpillInv ==
    pc = "spill" =>
        /\ sar = was.windowbase /\ frame.windowbase = sar /\ frame.mask # {0}
        /\ frame.mask = {} => frame.windowsize = NPanes + 1
        /\ Spilled >= 0 /\ Spilled < frame.windowsize
        /\ windowbase = Down(sar, Spilled) /\ ar[windowbase][1] = SP - Spilled
        /\ frame.mask # {} =>
            /\ ar[sar][1] = SP
            /\ \A u \in 1 .. NPanes - 1 : u > Spilled => ar[Down(sar, u)] = was.ar[Down(sar, u)]
            /\ \A j \in Panes : Stored(j) => frame.ar[j] = was.ar[Up(sar, j)]
        /\ \A p \in Panes : Clean(was.ar[p])

HandlerInv ==
    pc = "handler" =>
        /\ windowbase = was.windowbase /\ frame.windowbase = windowbase
        /\ \A j \in Owned(frame.mask) : frame.ar[j] = was.ar[Up(windowbase, j)]

\* The restore keeps sp and a0 in the window it comes back to.
Anchored == ar[frame.windowbase][0] = RET /\ ar[frame.windowbase][1] = SP

\* The panes loaded so far, and the panes cleared so far.
LoadedTo(t) == \A u \in 1 .. NPanes - 1 : u <= t => ar[Down(frame.windowbase, u)] = frame.ar[NPanes - u]
ClearedFrom(c) ==
    \A j \in 1 .. NPanes - 1 : j >= c /\ j < NPanes - frame.windowsize =>
        \A r \in Regs : ar[Up(frame.windowbase, j)][r] = 0

Restored == frame.windowsize - ar[windowbase][2]

RestoreInv ==
    /\ pc = "restore" => windowbase = frame.windowbase
    /\ pc \in {"restore_loop", "zero_regs", "zero_loop", "finish"} =>
           /\ windowstart = frame.windowstart /\ excsave1 = frame.windowbase
    /\ pc = "restore_loop" =>
           /\ Restored >= 0 /\ Restored < frame.windowsize
           /\ windowbase = Down(frame.windowbase, 1 + Restored)
           /\ ar[windowbase][3] = SP - Restored
           /\ Anchored /\ LoadedTo(Restored)
    /\ pc = "zero_regs" =>
           /\ windowbase = Down(frame.windowbase, 1 + frame.windowsize)
           /\ Anchored /\ LoadedTo(frame.windowsize)
    /\ pc = "zero_loop" =>
           /\ ar[windowbase][3] \in 1 .. NPanes - 1 - frame.windowsize
           /\ windowbase = Up(frame.windowbase, ar[windowbase][3])
           /\ Anchored /\ LoadedTo(frame.windowsize) /\ ClearedFrom(ar[windowbase][3] + 1)
    /\ pc = "finish" =>
           /\ windowbase = frame.windowbase
           /\ frame.windowsize = NPanes - 1 => ar[windowbase][0] # RET
           /\ frame.windowsize < NPanes - 1 =>
                  Anchored /\ LoadedTo(frame.windowsize) /\ ClearedFrom(1)

\* What the program finds, but for a0-a3 until the last instructions.
ProgramInv ==
    /\ pc \in {"exit", "resumed"} =>
        /\ windowbase = frame.windowbase /\ windowstart = frame.windowstart
        /\ \A j \in Panes : (j # 0 \/ pc = "resumed") /\ j \in Owned(frame.mask) =>
               ar[Up(windowbase, j)] = frame.ar[j]
    /\ pc \in AtRest \cup {"exit"} =>
        \A p \in Panes : (p = windowbase /\ pc = "exit") \/ Clean(ar[p])

WInv == TypeInv /\ FrameInv /\ SpillInv /\ HandlerInv /\ RestoreInv /\ ProgramInv

-----------------------------------------------------------------------------
(* Counting panes around the file. *)

LEMMA FileSize ==
    /\ NPanes \in Nat /\ NPanes >= 5 /\ NPanes <= 16 /\ Panes = 0 .. NPanes - 1
    /\ Regs = {0, 1, 2, 3}
    /\ SP = 50 /\ RET = 60 /\ BITS = 70 /\ User = 100
PROOF
    BY WindowsAssumption DEF Panes, Regs, SP, RET, BITS, User

LEMMA ModPanes ==
    ASSUME NEW x \in Int
    PROVE  /\ x % NPanes \in Panes
           /\ x >= 0 /\ x < NPanes => x % NPanes = x
           /\ x < 0 /\ x >= 0 - NPanes => x % NPanes = x + NPanes
           /\ x >= NPanes /\ x < 2 * NPanes => x % NPanes = x - NPanes
PROOF
<1>1. NPanes \in Nat \ {0}
    BY FileSize
<1>2. x % NPanes \in 0 .. NPanes - 1
    BY <1>1
<1>3. x >= 0 /\ x < NPanes => x % NPanes = x
    BY <1>1
<1>4. x < 0 /\ x >= 0 - NPanes => x % NPanes = x + NPanes
    BY <1>1
<1>5. x >= NPanes /\ x < 2 * NPanes => x % NPanes = x - NPanes
    BY <1>1
<1> QED
    BY <1>2, <1>3, <1>4, <1>5 DEF Panes

LEMMA Wrapped ==
    ASSUME NEW x \in Int, x >= 0 - NPanes, x < 2 * NPanes
    PROVE  /\ x % NPanes = IF x < 0 THEN x + NPanes ELSE IF x < NPanes THEN x ELSE x - NPanes
           /\ x % NPanes \in Panes
PROOF
<1> DEFINE m == x % NPanes
<1>1. /\ m \in Panes
      /\ x >= 0 /\ x < NPanes => m = x
      /\ x < 0 /\ x >= 0 - NPanes => m = x + NPanes
      /\ x >= NPanes /\ x < 2 * NPanes => m = x - NPanes
    BY ModPanes
<1> HIDE DEF m
<1>2. m = IF x < 0 THEN x + NPanes ELSE IF x < NPanes THEN x ELSE x - NPanes
    BY <1>1, FileSize
<1> QED
    BY <1>1, <1>2 DEF m

LEMMA UpIs ==
    ASSUME NEW b \in Panes, NEW j \in Panes
    PROVE  /\ Up(b, j) = IF b + j < NPanes THEN b + j ELSE b + j - NPanes
           /\ Up(b, j) \in Panes
PROOF
<1> DEFINE x == b + j
<1>1. x \in Int /\ x >= 0 /\ x >= 0 - NPanes /\ x < 2 * NPanes
    BY FileSize
<1>2. Up(b, j) = x % NPanes
    BY DEF Up
<1> HIDE DEF x
<1>3. /\ Up(b, j) = IF x < 0 THEN x + NPanes ELSE IF x < NPanes THEN x ELSE x - NPanes
      /\ Up(b, j) \in Panes
    BY <1>1, <1>2, Wrapped
<1>4. Up(b, j) = IF x < NPanes THEN x ELSE x - NPanes
    BY <1>1, <1>3
<1>5. Up(b, j) = IF b + j < NPanes THEN b + j ELSE b + j - NPanes
    BY <1>1, <1>4, FileSize DEF x
<1> QED
    BY <1>3, <1>5

LEMMA DownIs ==
    ASSUME NEW b \in Panes, NEW u \in 0 .. NPanes
    PROVE  /\ Down(b, u) = IF b >= u THEN b - u ELSE b - u + NPanes
           /\ Down(b, u) \in Panes
PROOF
<1> DEFINE x == b - u
<1>1. x \in Int /\ x < NPanes /\ x >= 0 - NPanes /\ x < 2 * NPanes /\ (x < 0 <=> ~(b >= u))
    BY FileSize
<1>2. Down(b, u) = x % NPanes
    BY DEF Down
<1> HIDE DEF x
<1>3. /\ Down(b, u) = IF x < 0 THEN x + NPanes ELSE IF x < NPanes THEN x ELSE x - NPanes
      /\ Down(b, u) \in Panes
    BY <1>1, <1>2, Wrapped
<1>4. Down(b, u) = IF b >= u THEN x ELSE x + NPanes
    BY <1>1, <1>3
<1> QED
    BY <1>3, <1>4 DEF x

\* One pane down.
LEMMA OneDown ==
    ASSUME NEW p \in Panes
    PROVE  (p - 1) % NPanes = IF p >= 1 THEN p - 1 ELSE NPanes - 1
PROOF
<1>1. 1 \in 0 .. NPanes
    BY FileSize
<1>2. Down(p, 1) = IF p >= 1 THEN p - 1 ELSE p - 1 + NPanes
    BY <1>1, DownIs
<1>3. Down(p, 1) = IF p >= 1 THEN p - 1 ELSE NPanes - 1
    BY <1>2, FileSize
<1> QED
    BY <1>3 DEF Down

\* The pane under the u-th below is the next one.
LEMMA DownStep ==
    ASSUME NEW b \in Panes, NEW u \in 0 .. NPanes - 1
    PROVE  (Down(b, u) - 1) % NPanes = Down(b, u + 1)
PROOF
<1>1. u \in 0 .. NPanes /\ u + 1 \in 0 .. NPanes /\ b \in Nat /\ b < NPanes
    BY FileSize
<1>2. /\ Down(b, u) = (IF b >= u THEN b - u ELSE b - u + NPanes) /\ Down(b, u) \in Panes
    BY <1>1, DownIs
<1>3. Down(b, u + 1) = (IF b >= u + 1 THEN b - (u + 1) ELSE b - (u + 1) + NPanes)
    BY <1>1, DownIs
<1>4. (Down(b, u) - 1) % NPanes = IF Down(b, u) >= 1 THEN Down(b, u) - 1 ELSE NPanes - 1
    BY <1>2, OneDown
<1> DEFINE m == (Down(b, u) - 1) % NPanes
<1>5. m = IF Down(b, u) >= 1 THEN Down(b, u) - 1 ELSE NPanes - 1
    BY <1>4
<1> HIDE DEF m
<1>6. m = Down(b, u + 1)
    BY <1>1, <1>2, <1>3, <1>5, FileSize
<1> QED
    BY <1>6 DEF m

LEMMA UpStep ==
    ASSUME NEW b \in Panes, NEW c \in 1 .. NPanes - 1
    PROVE  (Up(b, c) - 1) % NPanes = Up(b, c - 1)
PROOF
<1>1. c \in Panes /\ c - 1 \in Panes /\ b \in Nat /\ b < NPanes
    BY FileSize
<1>2. /\ Up(b, c) = (IF b + c < NPanes THEN b + c ELSE b + c - NPanes) /\ Up(b, c) \in Panes
    BY <1>1, UpIs
<1>3. Up(b, c - 1) = (IF b + (c - 1) < NPanes THEN b + (c - 1) ELSE b + (c - 1) - NPanes)
    BY <1>1, UpIs
<1>4. (Up(b, c) - 1) % NPanes = IF Up(b, c) >= 1 THEN Up(b, c) - 1 ELSE NPanes - 1
    BY <1>2, OneDown
<1> DEFINE m == (Up(b, c) - 1) % NPanes
<1>5. m = IF Up(b, c) >= 1 THEN Up(b, c) - 1 ELSE NPanes - 1
    BY <1>4
<1> HIDE DEF m
<1>6. m = Up(b, c - 1)
    BY <1>1, <1>2, <1>3, <1>5, FileSize
<1> QED
    BY <1>6 DEF m

\* Panes counted differently are different, and u below is NPanes - u above.
LEMMA UpDown ==
    ASSUME NEW b \in Panes
    PROVE  /\ Up(b, 0) = b /\ Down(b, 0) = b /\ Down(b, NPanes) = b
           /\ \A u \in 1 .. NPanes - 1 : /\ Down(b, u) = Up(b, NPanes - u)
                                        /\ Down(b, u) \in Panes /\ Down(b, u) # b
           /\ \A u, w \in 1 .. NPanes - 1 : u # w => Down(b, u) # Down(b, w)
           /\ \A j \in 1 .. NPanes - 1 : Up(b, j) # b /\ Up(b, j) = Down(b, NPanes - j)
           /\ \A j, k \in Panes : j # k => Up(b, j) # Up(b, k)
PROOF
<1>0. b \in Nat /\ b < NPanes /\ 0 \in Panes /\ 0 \in 0 .. NPanes /\ NPanes \in 0 .. NPanes
    BY FileSize
<1>1. Up(b, 0) = b /\ Down(b, 0) = b /\ Down(b, NPanes) = b
    <2>1. /\ Up(b, 0) = (IF b + 0 < NPanes THEN b + 0 ELSE b + 0 - NPanes)
          /\ Down(b, 0) = (IF b >= 0 THEN b - 0 ELSE b - 0 + NPanes)
          /\ Down(b, NPanes) = (IF b >= NPanes THEN b - NPanes ELSE b - NPanes + NPanes)
        BY <1>0, UpIs, DownIs
    <2> QED
        BY <1>0, <2>1, FileSize
<1>2. ASSUME NEW u \in 1 .. NPanes - 1
      PROVE  Down(b, u) = Up(b, NPanes - u) /\ Down(b, u) \in Panes /\ Down(b, u) # b
    <2>1. u \in 0 .. NPanes /\ NPanes - u \in Panes
        BY FileSize
    <2>2. /\ Down(b, u) \in Panes /\ Down(b, u) = (IF b >= u THEN b - u ELSE b - u + NPanes)
          /\ Up(b, NPanes - u) = (IF b + (NPanes - u) < NPanes THEN b + (NPanes - u)
                                  ELSE b + (NPanes - u) - NPanes)
        BY <2>1, UpIs, DownIs
    <2> QED
        BY <1>0, <2>2, FileSize
<1>3. ASSUME NEW u \in 1 .. NPanes - 1, NEW w \in 1 .. NPanes - 1, u # w
      PROVE  Down(b, u) # Down(b, w)
    <2>1. u \in 0 .. NPanes /\ w \in 0 .. NPanes
        BY FileSize
    <2>2. /\ Down(b, u) = (IF b >= u THEN b - u ELSE b - u + NPanes)
          /\ Down(b, w) = (IF b >= w THEN b - w ELSE b - w + NPanes)
        BY <2>1, DownIs
    <2> QED
        BY <1>0, <1>3, <2>2, FileSize
<1>4. ASSUME NEW j \in 1 .. NPanes - 1 PROVE Up(b, j) # b /\ Up(b, j) = Down(b, NPanes - j)
    <2>1. NPanes - j \in 1 .. NPanes - 1 /\ NPanes - (NPanes - j) = j
        BY FileSize
    <2> QED
        BY <1>2, <2>1
<1>5. ASSUME NEW j \in Panes, NEW k \in Panes, j # k PROVE Up(b, j) # Up(b, k)
    <2>1. /\ Up(b, j) = (IF b + j < NPanes THEN b + j ELSE b + j - NPanes)
          /\ Up(b, k) = (IF b + k < NPanes THEN b + k ELSE b + k - NPanes)
        BY UpIs
    <2> QED
        BY <1>0, <1>5, <2>1, FileSize
<1> QED
    BY <1>1, <1>2, <1>3, <1>4, <1>5

\* Every pane is some pane above.
LEMMA UpAll ==
    ASSUME NEW b \in Panes, NEW p \in Panes
    PROVE  /\ (p - b) % NPanes \in Panes /\ Up(b, (p - b) % NPanes) = p
           /\ (p - b) % NPanes = IF p < b THEN NPanes + p - b ELSE p - b
PROOF
<1>1. b \in Nat /\ b < NPanes /\ p \in Nat /\ p < NPanes
    BY FileSize
<1> DEFINE m == (p - b) % NPanes
           n == IF p < b THEN NPanes + p - b ELSE p - b
<1>2. b \in 0 .. NPanes
    BY <1>1, FileSize
<1>3. m = Down(p, b) /\ m \in Panes
    BY <1>2, DownIs DEF Down
<1>4. Down(p, b) = IF p >= b THEN p - b ELSE p - b + NPanes
    BY <1>2, DownIs
<1> HIDE DEF m
<1>5. m = n /\ n \in Panes
    BY <1>1, <1>3, <1>4, FileSize
<1>6. Up(b, m) = IF b + m < NPanes THEN b + m ELSE b + m - NPanes
    BY <1>3, UpIs
<1>7. Up(b, m) = p
    BY <1>1, <1>5, <1>6, FileSize
<1> QED
    BY <1>3, <1>5, <1>7 DEF m

LEMMA MaskType ==
    ASSUME NEW b \in Panes, NEW S \in SUBSET Panes
    PROVE  Mask(b, S) \in SUBSET Panes
PROOF
    BY UpAll DEF Mask

LEMMA NextWindowFacts ==
    ASSUME NEW mask \in SUBSET Panes
    PROVE  /\ NextWindow(mask) \in 1 .. NPanes
           /\ NextWindow(mask) \in mask \/ NextWindow(mask) = NPanes
           /\ \A j \in mask \ {0} : NextWindow(mask) <= j
           /\ mask \notin {{}, {0}} => NextWindow(mask) \in mask /\ NextWindow(mask) < NPanes
PROOF
<1> DEFINE P(k) == /\ k \in mask \/ k = NPanes
                   /\ \A j \in mask \ {0} : k <= j
<1>1. \E k \in 1 .. NPanes : P(k)
    <2>1. CASE mask \ {0} = {}
        BY <2>1, FileSize
    <2>2. CASE mask \ {0} # {}
        <3>1. mask \ {0} \in SUBSET Nat
            BY FileSize
        <3>2. PICK m \in mask \ {0} : \A n \in mask \ {0} : m <= n
            BY <2>2, <3>1, NatMin
        <3>3. m \in 1 .. NPanes
            BY <3>2, FileSize
        <3> QED
            BY <3>2, <3>3
    <2> QED
        BY <2>1, <2>2
<1>2. NextWindow(mask) = CHOOSE k \in 1 .. NPanes : P(k)
    BY DEF NextWindow
<1>3. NextWindow(mask) \in 1 .. NPanes /\ P(NextWindow(mask))
    BY <1>1, <1>2
<1>4. ASSUME mask \notin {{}, {0}}
      PROVE  NextWindow(mask) \in mask /\ NextWindow(mask) < NPanes
    <2>1. PICK j \in mask : j # 0
        BY <1>4
    <2>2. NextWindow(mask) <= j /\ j < NPanes
        BY <1>3, <2>1, FileSize
    <2> QED
        BY <1>3, <2>2, FileSize
<1> QED
    BY <1>3, <1>4

\* What a program can still read is stored by the trap itself, or lies from the
\* next window on.
LEMMA OwnedFacts ==
    ASSUME NEW mask \in SUBSET Panes, NEW j \in Owned(mask)
    PROVE  j \in Panes /\ (j \in Above(mask) \cup {0} \/ j >= NextWindow(mask))
PROOF
<1>1. j \in Panes /\ (j >= NextWindow(mask) \/ (j < 4 /\ j < NextWindow(mask)))
    BY DEF Owned
<1>2. ASSUME j < 4, j < NextWindow(mask), j # 0 PROVE j \in Above(mask)
    <2>1. j \in 1 .. 3
        BY <1>1, <1>2, FileSize
    <2>2. ASSUME NEW i \in 1 .. j, i \in mask PROVE FALSE
        <3>1. NextWindow(mask) <= i /\ NextWindow(mask) \in Int
            BY <2>1, <2>2, NextWindowFacts
        <3> QED
            BY <1>2, <2>1, <2>2, <3>1
    <2> QED
        BY <2>1, <2>2 DEF Above
<1> QED
    BY <1>1, <1>2

LEMMA AboveFacts ==
    ASSUME NEW mask \in SUBSET Panes
    PROVE  Above(mask) \subseteq 1 .. 3 /\ Above(mask) \cup {0} \subseteq Panes
PROOF
    BY FileSize DEF Above

-----------------------------------------------------------------------------
(* The save. *)

LEMMA InitWInv == Init => WInv
PROOF
<1> SUFFICES ASSUME Init PROVE WInv
    OBVIOUS
<1>1. PICK w \in LiveWindows : windowbase = w.windowbase /\ windowstart = w.windowstart
    BY DEF Init
<1>2. windowbase \in Panes /\ windowstart \in SUBSET Panes
    BY <1>1, FileSize, WindowsAssumption DEF LiveWindows
<1>3. PICK size \in Sizes :
          frame = [ar |-> [j \in Panes |-> [r \in Regs |-> User - 1]], windowbase |-> 0,
                   windowstart |-> {0}, mask |-> {0}, windowsize |-> size, excm |-> 1]
    BY DEF Init
<1>4. ar = [p \in Panes |-> [r \in Regs |-> User + 4 * p + r]] /\ ar \in File
    BY FileSize DEF Init, File
<1>5. 0 \in Panes /\ size \in Nat /\ size <= NPanes - 2
    BY FileSize DEF Sizes
<1>6. TypeInv
    <2>1. frame.ar \in File
        BY <1>3, FileSize DEF File
    <2>2. frame \in [ar : File, windowbase : Panes, windowstart : SUBSET Panes,
                     mask : SUBSET Panes, windowsize : Nat, excm : {0, 1}]
        BY <1>3, <1>5, <2>1
    <2> QED
        BY <1>2, <1>4, <1>5, <2>2 DEF Init, TypeInv, AtRest
<1>7. FrameInv
    <2>1. \A j \in Panes : Clean(frame.ar[j])
        BY <1>3, FileSize DEF Clean
    <2>2. SizeOK(frame)
        BY <1>3, <1>5, FileSize DEF SizeOK
    <2> QED
        BY <1>3, <1>5, <2>1, <2>2, FileSize DEF Init, FrameInv, FrameOK, AtRest
<1>8. \A p \in Panes : Clean(ar[p])
    BY <1>4, FileSize DEF Clean
<1> QED
    BY <1>6, <1>7, <1>8 DEF Init, WInv, SpillInv, HandlerInv, RestoreInv, ProgramInv, AtRest

LEMMA StutterWInv == ASSUME WInv, UNCHANGED vars PROVE WInv'
PROOF
<1>1. TypeInv' /\ FrameInv' /\ HandlerInv'
    BY DEF WInv, TypeInv, FrameInv, FrameOK, SizeOK, HandlerInv, vars
<1>2. SpillInv'
    BY DEF WInv, SpillInv, Spilled, Stored, vars
<1>3. RestoreInv'
    BY DEF WInv, RestoreInv, Restored, Anchored, LoadedTo, ClearedFrom, vars
<1>4. ProgramInv'
    BY DEF WInv, ProgramInv, vars
<1> QED
    BY <1>1, <1>2, <1>3, <1>4 DEF WInv

LEMMA EntryWInv == ASSUME WInv, Entry PROVE WInv'
PROOF
<1>1. /\ pc = "resumed" /\ pc' = "user" /\ windowstart' = {windowbase}
      /\ UNCHANGED <<windowbase, ar, frame, excsave1, sar, excm, was>>
    BY DEF Entry
<1>2. TypeInv' /\ FrameInv'
    BY <1>1 DEF WInv, TypeInv, FrameInv, FrameOK, SizeOK, AtRest, Restoring
<1>3. SpillInv' /\ HandlerInv' /\ RestoreInv' /\ ProgramInv'
    BY <1>1 DEF WInv, SpillInv, HandlerInv, RestoreInv, ProgramInv, AtRest
<1> QED
    BY <1>2, <1>3 DEF WInv

\* The first half of save_full_interrupt_context, whatever the last trap left.
LEMMA TrapWInv == ASSUME WInv, Trap PROVE WInv'
PROOF
<1> DEFINE mask == Mask(windowbase, windowstart)
           size == StoredSize(mask, frame.windowsize)
<1>0. /\ pc \in AtRest /\ sar' = windowbase /\ excm' = 1
      /\ was' = [windowbase |-> windowbase, windowstart |-> windowstart, ar |-> ar]
      /\ UNCHANGED <<windowbase, windowstart, excsave1>>
      /\ pc' = (IF mask = {0} THEN "handler" ELSE "spill")
    BY DEF Trap, AtRest
<1>1. /\ frame' = [ar |-> [j \in Panes |-> IF j \in Above(mask) \cup {0}
                                           THEN ar[Up(windowbase, j)] ELSE frame.ar[j]],
                   windowbase |-> windowbase, windowstart |-> windowstart,
                   mask |-> mask, windowsize |-> size, excm |-> 1]
      /\ ar' = [ar EXCEPT ![windowbase] =
                    [r \in Regs |-> <<RET, SP, frame'.windowsize, BITS>>[r + 1]]]
    BY DEF Trap, Up
<1>2. /\ windowbase \in Panes /\ windowstart \in SUBSET Panes /\ ar \in File
      /\ frame.ar \in File /\ frame.windowsize \in Nat /\ excsave1 \in Int
    BY DEF WInv, TypeInv
<1>3. mask \in SUBSET Panes
    BY <1>2, MaskType
<1> HIDE DEF mask
<1>4. frame.windowsize <= NPanes - 2 /\ FrameOK(frame) /\ \A p \in Panes : Clean(ar[p])
    BY <1>0 DEF WInv, FrameInv, ProgramInv, AtRest
<1>5. /\ size \in Nat
      /\ mask = {} => size = NPanes + 1
      /\ mask = {0} => size <= NPanes - 2
      /\ mask \notin {{}, {0}} => /\ size = NPanes - NextWindow(mask) /\ size >= 1
                                  /\ size <= NPanes - 1 /\ (size = NPanes - 1 => 1 \in mask)
    <2>1. mask \notin {{}, {0}} =>
              NextWindow(mask) \in mask /\ NextWindow(mask) \in 1 .. NPanes
                  /\ NextWindow(mask) < NPanes
        BY <1>3, NextWindowFacts
    <2>2. mask = {} => size = NPanes + 1
        BY DEF StoredSize
    <2>3. mask = {0} => size = frame.windowsize
        BY DEF StoredSize
    <2>4. mask \notin {{}, {0}} => size = NPanes - NextWindow(mask)
        BY DEF StoredSize
    <2> HIDE DEF size
    <2> QED
        BY <1>2, <1>4, <2>1, <2>2, <2>3, <2>4, FileSize
<1> HIDE DEF size
<1>6. /\ ar' \in File /\ ar'[windowbase][1] = SP /\ ar'[windowbase][2] = size
      /\ \A p \in Panes : p # windowbase => ar'[p] = ar[p]
    <2> DEFINE new == [r \in Regs |-> <<RET, SP, size, BITS>>[r + 1]]
    <2>1. ar' = [ar EXCEPT ![windowbase] = new]
        BY <1>1
    <2>2. new[0] = RET /\ new[1] = SP /\ new[2] = size /\ new[3] = BITS /\ DOMAIN new = Regs
        BY FileSize
    <2>3. new \in [Regs -> Int]
        BY <1>5, <2>2, FileSize
    <2> HIDE DEF new
    <2> QED
        BY <1>2, <2>1, <2>2, <2>3 DEF File
<1>7. /\ frame'.ar \in File /\ \A j \in Panes : Clean(frame'.ar[j])
      /\ \A j \in Above(mask) \cup {0} : frame'.ar[j] = ar[Up(windowbase, j)]
    <2>1. \A j \in Panes : Up(windowbase, j) \in Panes
        BY <1>2, UpIs
    <2>2. frame'.ar = [j \in Panes |-> IF j \in Above(mask) \cup {0}
                                       THEN ar[Up(windowbase, j)] ELSE frame.ar[j]]
        BY <1>1
    <2>3. \A j \in Panes : frame'.ar[j] \in [Regs -> Int] /\ Clean(frame'.ar[j])
        BY <1>2, <1>4, <2>1, <2>2 DEF File, FrameOK
    <2>4. frame'.ar \in File
        BY <2>2, <2>3 DEF File
    <2> QED
        BY <1>3, <2>2, <2>3, <2>4, AboveFacts
<1>8. /\ frame'.windowbase = windowbase /\ frame'.windowstart = windowstart
      /\ frame'.mask = mask /\ frame'.windowsize = size
    BY <1>1
<1>9. TypeInv'
    <2>1. frame' \in [ar : File, windowbase : Panes, windowstart : SUBSET Panes,
                      mask : SUBSET Panes, windowsize : Nat, excm : {0, 1}]
        BY <1>1, <1>2, <1>3, <1>5, <1>7
    <2>2. was' \in [windowbase : Panes, windowstart : SUBSET Panes, ar : File]
        BY <1>0, <1>2
    <2> QED
        BY <1>0, <1>2, <1>6, <2>1, <2>2 DEF TypeInv, AtRest
<1>10. FrameInv'
    <2>1. mask # {} => SizeOK(frame')
        BY <1>5, <1>8, FileSize DEF SizeOK
    <2> QED
        BY <1>0, <1>7, <1>8, <2>1 DEF FrameInv, FrameOK, AtRest
<1>11. HandlerInv'
    <2> SUFFICES ASSUME pc' = "handler", NEW j \in Owned(mask)
                 PROVE  frame'.ar[j] = ar[Up(windowbase, j)]
        BY <1>0, <1>8 DEF HandlerInv
    <2>1. mask = {0}
        BY <1>0
    <2>2. NextWindow(mask) = NPanes
        BY <1>3, <2>1, NextWindowFacts, FileSize
    <2>3. j \in Panes /\ (j \in Above(mask) \cup {0} \/ j >= NextWindow(mask))
        BY <1>3, OwnedFacts
    <2> QED
        BY <1>7, <2>2, <2>3, FileSize
<1>12. SpillInv'
    <2> SUFFICES ASSUME pc' = "spill" PROVE SpillInv'
        BY DEF SpillInv
    <2>1. mask # {0} /\ size >= 1
        BY <1>0, <1>5, FileSize
    <2>2. Spilled' = 0
        BY <1>0, <1>5, <1>6, <1>8 DEF Spilled
    <2>3. windowbase = Down(windowbase, 0)
        BY <1>2, UpDown
    <2>4. \A u \in 1 .. NPanes - 1 : Down(windowbase, u) \in Panes /\ Down(windowbase, u) # windowbase
        BY <1>2, UpDown
    <2>5. \A j \in Panes : Stored(j)' => frame'.ar[j] = ar[Up(windowbase, j)]
        BY <1>7, <1>8, <2>2, FileSize DEF Stored
    <2>6. \A u \in 1 .. NPanes - 1 : ar'[Down(windowbase, u)] = ar[Down(windowbase, u)]
        BY <1>6, <2>4
    <2>7. was'.ar = ar /\ was'.windowbase = windowbase
        BY <1>0
    <2> QED
        BY <1>0, <1>4, <1>5, <1>6, <1>8, <2>1, <2>2, <2>3, <2>5, <2>6, <2>7, FileSize
            DEF SpillInv
<1> QED
    BY <1>0, <1>9, <1>10, <1>11, <1>12 DEF WInv, RestoreInv, ProgramInv, AtRest

\* .spill_loop: one more pane is in the frame, and the pointer and the counter
\* are in it.
LEMMA SpillWInv == ASSUME WInv, SpillLoop PROVE WInv'
PROOF
<1> DEFINE p == Below
           t == Spilled
           ends == ar[windowbase][2] - 1 = 0
<1>0. /\ pc = "spill"
      /\ frame' = [frame EXCEPT !.ar = [j \in Panes |->
                      IF j = Slot(ar[windowbase][1]) THEN ar[p] ELSE frame.ar[j]]]
      /\ ar' = [ar EXCEPT ![p][1] = ar[windowbase][1] - 1,
                          ![p][2] = IF ends THEN sar ELSE ar[windowbase][2] - 1,
                          ![p][3] = IF ends THEN BITS ELSE @]
      /\ windowbase' = (IF ends THEN sar ELSE p)
      /\ windowstart' = (IF ends THEN {sar} ELSE windowstart)
      /\ pc' = (IF ~ends THEN "spill" ELSE IF ar'[sar][1] = SP THEN "handler" ELSE "lost")
      /\ UNCHANGED <<excsave1, sar, excm, was>>
    BY DEF SpillLoop, WInv, TypeInv
<1>1. /\ windowbase \in Panes /\ windowstart \in SUBSET Panes /\ ar \in File /\ sar \in Panes
      /\ frame \in [ar : File, windowbase : Panes, windowstart : SUBSET Panes,
                    mask : SUBSET Panes, windowsize : Nat, excm : {0, 1}]
      /\ was.ar \in File
    BY DEF WInv, TypeInv
<1>2. /\ sar = was.windowbase /\ frame.windowbase = sar /\ frame.mask # {0}
      /\ frame.mask = {} => frame.windowsize = NPanes + 1
      /\ t >= 0 /\ t < frame.windowsize
      /\ windowbase = Down(sar, t) /\ ar[windowbase][1] = SP - t
      /\ \A q \in Panes : Clean(was.ar[q])
    BY <1>0 DEF WInv, SpillInv
<1>3. /\ ar[windowbase][1] \in Int /\ ar[windowbase][2] \in Int /\ frame.windowsize \in Nat
      /\ frame.mask \in SUBSET Panes /\ t \in Nat /\ ar[windowbase][2] = frame.windowsize - t
      /\ ends <=> t + 1 = frame.windowsize
    <2>1. ar[windowbase] \in [Regs -> Int] /\ 1 \in Regs /\ 2 \in Regs
        BY <1>1, FileSize DEF File
    <2>2. ar[windowbase][1] \in Int /\ ar[windowbase][2] \in Int
        BY <2>1
    <2>3. frame.windowsize \in Nat /\ frame.mask \in SUBSET Panes
        BY <1>1
    <2> DEFINE c == ar[windowbase][2]
               n == frame.windowsize
    <2>4. t = n - c /\ t >= 0 /\ c \in Int /\ n \in Nat /\ (ends <=> c - 1 = 0)
        BY <1>2, <2>2, <2>3 DEF Spilled
    <2> HIDE DEF c, n, t, ends
    <2>5. t \in Nat /\ c = n - t /\ (ends <=> t + 1 = n)
        BY <2>4
    <2> QED
        BY <2>2, <2>3, <2>5 DEF c, n
<1>4. /\ frame.mask # {} => /\ frame.windowsize = NPanes - NextWindow(frame.mask)
                            /\ frame.windowsize <= NPanes - 1
                            /\ NextWindow(frame.mask) \in 1 .. NPanes
    BY <1>0, <1>2, <1>3, NextWindowFacts DEF WInv, FrameInv, FrameOK, SizeOK
<1>5. t <= NPanes /\ p \in Panes /\ (t < NPanes => p = Down(sar, t + 1))
    <2>1. t <= NPanes
        BY <1>2, <1>3, <1>4, FileSize
    <2>2. p \in Panes
        <3>1. windowbase - 1 \in Int
            BY <1>1, FileSize
        <3> QED
            BY <3>1, ModPanes DEF Below
    <2>3. t < NPanes => t \in 0 .. NPanes - 1
        BY <1>3, FileSize
    <2>4. p = (Down(sar, t) - 1) % NPanes
        BY <1>2 DEF Below
    <2>5. t < NPanes => p = Down(sar, t + 1)
        BY <1>1, <2>3, <2>4, DownStep
    <2> QED
        BY <2>1, <2>2, <2>5
<1>6. Slot(ar[windowbase][1]) = NPanes - 1 - t
    BY <1>2, <1>3, FileSize DEF Slot
<1> HIDE DEF p, t, ends
<1>7. /\ ar' \in File
      /\ \A q \in Panes : q # p => ar'[q] = ar[q]
      /\ ar'[p][1] = SP - (t + 1)
      /\ ar'[p][2] = IF ends THEN sar ELSE frame.windowsize - (t + 1)
    <2> DEFINE x == ar[windowbase][1] - 1
               y == IF ends THEN sar ELSE ar[windowbase][2] - 1
               z == IF ends THEN BITS ELSE ar[p][3]
    <2>1. x \in Int /\ y \in Int /\ z \in Int /\ x = SP - (t + 1)
          /\ y = IF ends THEN sar ELSE frame.windowsize - (t + 1)
        <3>1. ar[p] \in [Regs -> Int]
            BY <1>1, <1>5 DEF File
        <3>1a. 3 \in Regs /\ sar \in Int /\ BITS \in Int
            BY <1>1, FileSize
        <3>1b. ar[p][3] \in Int
            BY <3>1, <3>1a
        <3>2. z \in Int /\ x \in Int /\ y \in Int
            BY <1>3, <3>1a, <3>1b
        <3>3. x = SP - (t + 1)
            BY <1>2, <1>3, FileSize DEF t
        <3>4. y = IF ends THEN sar ELSE frame.windowsize - (t + 1)
            <4> DEFINE n == frame.windowsize
            <4>1. n \in Nat /\ ar[windowbase][2] = n - t
                BY <1>3 DEF t
            <4> HIDE DEF n
            <4>2. ar[windowbase][2] - 1 = n - (t + 1)
                BY <1>3, <4>1 DEF t
            <4> QED
                BY <4>2 DEF n
        <3> QED
            BY <3>2, <3>3, <3>4
    <2>2. ar' = [ar EXCEPT ![p] = [ar[p] EXCEPT ![1] = x, ![2] = y, ![3] = z]]
        BY <1>0, <1>1, <1>5 DEF File
    <2> HIDE DEF x, y, z
    <2>3. ar[p] \in [Regs -> Int]
        BY <1>1, <1>5 DEF File
    <2> DEFINE new == [ar[p] EXCEPT ![1] = x, ![2] = y, ![3] = z]
    <2>4. new \in [Regs -> Int] /\ new[1] = x /\ new[2] = y
        BY SMTT(30), <2>1, <2>3, FileSize
    <2> HIDE DEF new
    <2>5. ar' = [ar EXCEPT ![p] = new]
        BY <2>2 DEF new
    <2> QED
        BY <1>1, <1>5, <2>1, <2>4, <2>5 DEF File
<1>8. /\ frame'.ar \in File
      /\ \A j \in Panes : frame'.ar[j] = IF j = NPanes - 1 - t THEN ar[p] ELSE frame.ar[j]
      /\ frame'.windowbase = sar /\ frame'.mask = frame.mask
      /\ frame'.windowsize = frame.windowsize
      /\ frame' \in [ar : File, windowbase : Panes, windowstart : SUBSET Panes,
                     mask : SUBSET Panes, windowsize : Nat, excm : {0, 1}]
    <2> DEFINE new == [j \in Panes |-> IF j = NPanes - 1 - t THEN ar[p] ELSE frame.ar[j]]
    <2>1. frame' = [frame EXCEPT !.ar = new]
        BY <1>0, <1>6
    <2>2. new \in File
        BY <1>1, <1>5 DEF File
    <2>3. \A j \in Panes : new[j] = IF j = NPanes - 1 - t THEN ar[p] ELSE frame.ar[j]
        OBVIOUS
    <2> HIDE DEF new
    <2> QED
        BY <1>1, <1>2, <2>1, <2>2, <2>3
<1>9. TypeInv'
    BY <1>0, <1>1, <1>5, <1>7, <1>8 DEF WInv, TypeInv
\* With no live window the loop goes once around the file and over its start.
<1>10. CASE frame.mask = {}
    <2>1. CASE ~ends
        <3>1. pc' = "spill" /\ windowbase' = p /\ t < NPanes
            BY <1>0, <1>2, <1>3, <1>5, <1>10, <2>1, FileSize DEF ends
        <3>2. Spilled' = t + 1
            BY <1>3, <1>7, <1>8, <2>1, <3>1 DEF Spilled
        <3>3. SpillInv'
            <4>1. t + 1 < frame.windowsize /\ t + 1 >= 0
                BY <1>2, <1>3, <2>1 DEF t, ends
            <4>2. windowbase' = Down(sar, t + 1) /\ ar'[windowbase'][1] = SP - (t + 1)
                BY <1>5, <1>7, <3>1
            <4> QED
                BY <1>0, <1>2, <1>8, <1>10, <3>1, <3>2, <4>1, <4>2 DEF SpillInv
        <3>4. FrameInv'
            BY <1>8, <1>10, <3>1 DEF FrameInv, AtRest
        <3> QED
            BY <1>9, <3>1, <3>3, <3>4 DEF WInv, HandlerInv, RestoreInv, ProgramInv, AtRest
    <2>2. CASE ends
        <3>1. t = NPanes
            BY <1>2, <1>3, <1>10, <2>2, FileSize
        <3>2. windowbase = sar /\ ar[sar][1] = SP - NPanes
            BY <1>1, <1>2, <3>1, UpDown
        <3>3. p # sar
            <4>1. p = Down(sar, 1) /\ 1 \in 1 .. NPanes - 1
                BY <3>2, FileSize DEF p, Below, Down
            <4> QED
                BY <1>1, <4>1, UpDown
        <3>4. ar'[sar][1] # SP
            BY <1>1, <1>7, <3>2, <3>3, FileSize
        <3>5. pc' = "lost"
            BY <1>0, <2>2, <3>4
        <3>6. FrameInv'
            BY <1>8, <1>10, <3>5 DEF FrameInv, AtRest
        <3> QED
            BY <1>9, <3>5, <3>6
                DEF WInv, SpillInv, HandlerInv, RestoreInv, ProgramInv, AtRest
    <2> QED
        BY <2>1, <2>2
<1>11. CASE frame.mask # {}
    <2>1. /\ ar[sar][1] = SP
          /\ \A u \in 1 .. NPanes - 1 : u > t => ar[Down(sar, u)] = was.ar[Down(sar, u)]
          /\ \A j \in Panes : Stored(j) => frame.ar[j] = was.ar[Up(sar, j)]
        BY <1>0, <1>11 DEF WInv, SpillInv, t
    <2>2. /\ t + 1 \in 1 .. NPanes - 1 /\ NPanes - 1 - t \in Panes /\ t < NPanes
          /\ p = Down(sar, t + 1) /\ p # sar /\ NPanes - (t + 1) = NPanes - 1 - t
          /\ p = Up(sar, NPanes - 1 - t)
        <3>1. /\ t + 1 \in 1 .. NPanes - 1 /\ NPanes - 1 - t \in Panes /\ t < NPanes
              /\ NPanes - (t + 1) = NPanes - 1 - t
            <4> DEFINE n == frame.windowsize
            <4>1. n \in Nat /\ t \in Nat /\ t < n /\ n <= NPanes - 1
                BY <1>2, <1>3, <1>4, <1>11 DEF t
            <4> HIDE DEF n
            <4> QED
                BY <4>1, FileSize
        <3> QED
            BY <1>1, <1>5, <3>1, UpDown
    <2>3. ar[p] = was.ar[Up(sar, NPanes - 1 - t)]
        <3>1. t + 1 > t
            BY <1>3
        <3> QED
            BY <2>1, <2>2, <3>1
    <2>4. \A j \in Panes : j \in Above(frame.mask) \cup {0} \/ j >= NPanes - (t + 1)
              => frame'.ar[j] = was.ar[Up(sar, j)]
        <3> SUFFICES ASSUME NEW j \in Panes,
                            j \in Above(frame.mask) \cup {0} \/ j >= NPanes - (t + 1)
                     PROVE  frame'.ar[j] = was.ar[Up(sar, j)]
            OBVIOUS
        <3>1. CASE j = NPanes - 1 - t
            BY <1>8, <2>3, <3>1
        <3>2. CASE j # NPanes - 1 - t
            <4>1. j \in Above(frame.mask) \cup {0} \/ j >= NPanes - t
                BY <1>3, <3>2, FileSize
            <4> QED
                BY <1>8, <2>1, <3>2, <4>1 DEF Stored, t
        <3> QED
            BY <3>1, <3>2
    <2>5. FrameOK(frame')
        <3>1. Up(sar, NPanes - 1 - t) \in Panes
            BY <1>1, <2>2, UpIs
        <3>2. Clean(ar[p])
            BY <1>2, <2>3, <3>1
        <3> QED
            BY <1>0, <1>8, <1>11, <3>2 DEF WInv, FrameInv, FrameOK, SizeOK
    <2>6. CASE ~ends
        <3>1. pc' = "spill" /\ windowbase' = p
            BY <1>0, <2>6
        <3>2. Spilled' = t + 1
            BY <1>3, <1>7, <1>8, <2>6, <3>1 DEF Spilled
        <3>3. \A u \in 1 .. NPanes - 1 : u > t + 1 => ar'[Down(sar, u)] = was.ar[Down(sar, u)]
            <4> SUFFICES ASSUME NEW u \in 1 .. NPanes - 1, u > t + 1
                         PROVE  ar'[Down(sar, u)] = was.ar[Down(sar, u)]
                OBVIOUS
            <4>1. u # t + 1 /\ u > t
                BY <1>3
            <4>2. Down(sar, u) \in Panes /\ Down(sar, u) # p
                BY <1>1, <2>2, <4>1, UpDown
            <4> QED
                BY <1>7, <2>1, <4>1, <4>2
        <3>4. ar'[sar][1] = SP
            BY <1>1, <1>7, <2>1, <2>2
        <3>5. t + 1 < frame.windowsize
            BY <1>2, <1>3, <2>6
        <3>6. \A j \in Panes : Stored(j)' => frame'.ar[j] = was.ar[Up(sar, j)]
            BY <1>8, <2>4, <3>2 DEF Stored
        <3>7. SpillInv'
            <4>1. t + 1 >= 0
                BY <1>3 DEF t
            <4>2. windowbase' = Down(sar, t + 1) /\ ar'[windowbase'][1] = SP - (t + 1)
                BY <1>7, <2>2, <3>1
            <4>3. /\ sar' = sar /\ was' = was /\ sar = was.windowbase /\ frame'.windowbase = sar
                  /\ frame'.mask # {0} /\ frame'.mask # {}
                  /\ frame'.windowsize = frame.windowsize
                BY <1>0, <1>2, <1>8, <1>11
            <4>4. \A q \in Panes : Clean(was'.ar[q])
                BY <1>2, <4>3
            <4> QED
                BY <3>2, <3>3, <3>4, <3>5, <3>6, <4>1, <4>2, <4>3, <4>4 DEF SpillInv
        <3>8. FrameInv'
            BY <2>5, <3>1 DEF FrameInv, AtRest
        <3> QED
            BY <1>9, <3>1, <3>7, <3>8 DEF WInv, HandlerInv, RestoreInv, ProgramInv, AtRest
    <2>7. CASE ends
        <3>1. pc' = "handler" /\ windowbase' = sar
            BY <1>0, <1>1, <1>7, <2>1, <2>2, <2>7
        <3>2. HandlerInv'
            <4> SUFFICES ASSUME NEW j \in Owned(frame.mask)
                         PROVE  frame'.ar[j] = was.ar[Up(sar, j)]
                BY SMTT(30), <1>0, <1>2, <1>8, <3>1 DEF HandlerInv
            <4>1. j \in Panes /\ (j \in Above(frame.mask) \cup {0} \/ j >= NextWindow(frame.mask))
                BY <1>3, OwnedFacts
            <4>2. NextWindow(frame.mask) = NPanes - (t + 1)
                BY <1>3, <1>4, <1>11, <2>7, FileSize
            <4> QED
                BY <2>4, <4>1, <4>2
        <3>3. FrameInv'
            BY <2>5, <3>1 DEF FrameInv, AtRest
        <3> QED
            BY <1>9, <3>1, <3>2, <3>3 DEF WInv, SpillInv, RestoreInv, ProgramInv, AtRest
    <2> QED
        BY <2>6, <2>7
<1> QED
    BY <1>10, <1>11

-----------------------------------------------------------------------------
(* The handler. *)

LEMMA LiveMask ==
    ASSUME NEW w \in LiveWindows
    PROVE  /\ w.windowbase \in Panes /\ w.windowstart \in SUBSET Panes
           /\ Mask(w.windowbase, w.windowstart) \in SUBSET Panes
           /\ Mask(w.windowbase, w.windowstart) # {}
PROOF
<1>1. w.windowbase \in Panes /\ w.windowstart \in SUBSET Panes /\ w.windowstart # {}
    BY WindowsAssumption, FileSize DEF LiveWindows
<1> QED
    BY <1>1, MaskType DEF Mask

\* A frame the scheduler may put in place of the trapped one is as sound.
LEMMA FramesOK ==
    ASSUME TypeInv, FrameOK(frame), frame.windowbase = windowbase, ~OtherBases,
           NEW f \in Frames
    PROVE  /\ f \in [ar : File, windowbase : Panes, windowstart : SUBSET Panes,
                     mask : SUBSET Panes, windowsize : Nat, excm : {0, 1}]
           /\ FrameOK(f) /\ f.windowbase = windowbase
PROOF
<1>1. \/ f = frame
      \/ f = FreshFrame /\ f.windowbase = windowbase
      \/ \E w \in LiveWindows, b \in Sizes : f = SavedFrame(w, b) /\ f.windowbase = windowbase
    BY DEF Frames
<1>2. CASE f = frame
    BY <1>2 DEF TypeInv
<1>3. CASE f = FreshFrame /\ f.windowbase = windowbase
    <2>1. /\ f.ar = [j \in Panes |-> [r \in Regs |->
                        IF j = 0 /\ r \in {1, 2} THEN 2 * User + r ELSE 0]]
          /\ f.windowbase = 0 /\ f.windowstart = {} /\ f.mask = {} /\ f.windowsize = 0
          /\ f.excm = 0
        BY <1>3 DEF FreshFrame
    <2>2. f.ar \in File
        BY <2>1, FileSize DEF File
    <2>3. \A j \in Panes : Clean(f.ar[j])
        BY <2>1, FileSize DEF Clean
    <2>4. SizeOK(f)
        BY <2>1, FileSize DEF SizeOK
    <2>5. 0 \in Panes
        BY FileSize
    <2>6. f \in [ar : File, windowbase : Panes, windowstart : SUBSET Panes,
                 mask : SUBSET Panes, windowsize : Nat, excm : {0, 1}]
        BY <1>3, <2>1, <2>2, <2>5 DEF FreshFrame
    <2> QED
        BY <1>3, <2>3, <2>4, <2>6 DEF FrameOK
<1>4. ASSUME NEW w \in LiveWindows, NEW b \in Sizes, f = SavedFrame(w, b),
             f.windowbase = windowbase
      PROVE  /\ f \in [ar : File, windowbase : Panes, windowstart : SUBSET Panes,
                       mask : SUBSET Panes, windowsize : Nat, excm : {0, 1}]
             /\ FrameOK(f) /\ f.windowbase = windowbase
    <2> DEFINE mask == Mask(w.windowbase, w.windowstart)
               size == StoredSize(mask, b)
               regs == [j \in Panes |-> [r \in Regs |-> 2 * User + 4 * j + r]]
    <2>1. f = [ar |-> regs, windowbase |-> w.windowbase, windowstart |-> w.windowstart,
               mask |-> mask, windowsize |-> size, excm |-> 1]
        BY <1>4 DEF SavedFrame
    <2>2. mask \in SUBSET Panes /\ mask # {}
        BY LiveMask
    <2>3. regs \in File /\ \A j \in Panes : Clean(regs[j])
        BY FileSize DEF File, Clean
    <2> HIDE DEF mask, regs
    <2>4. b \in Nat /\ b <= NPanes - 2
        BY FileSize DEF Sizes
    <2>5. /\ mask = {0} => size = b
          /\ mask # {0} => size = NPanes - NextWindow(mask)
        BY <2>2 DEF StoredSize
    <2>6. mask # {0} => /\ NextWindow(mask) \in mask /\ NextWindow(mask) \in 1 .. NPanes
                        /\ NextWindow(mask) < NPanes
        BY <2>2, NextWindowFacts
    <2> HIDE DEF size
    <2>7. size \in Nat /\ size <= NPanes - 1 /\ (size = NPanes - 1 => 1 \in mask)
        BY <2>4, <2>5, <2>6, FileSize
    <2>8. f \in [ar : File, windowbase : Panes, windowstart : SUBSET Panes,
                 mask : SUBSET Panes, windowsize : Nat, excm : {0, 1}]
        BY <2>1, <2>2, <2>3, <2>7, LiveMask
    <2>9. SizeOK(f)
        BY <2>1, <2>5, <2>7 DEF SizeOK
    <2> QED
        BY <1>4, <2>1, <2>3, <2>8, <2>9 DEF FrameOK
<1> QED
    BY <1>1, <1>2, <1>3, <1>4

LEMMA HandlerWInv == ASSUME WInv, ~OtherBases, Handler PROVE WInv'
PROOF
<1>0. /\ pc = "handler" /\ pc' = "restore" /\ frame' \in Frames
      /\ excm' = disable_kernel_exceptions
      /\ UNCHANGED <<windowbase, windowstart, excsave1, sar, was>>
    BY DEF Handler
<1>1. PICK junk \in Junk :
          ar' = [p \in Panes |-> [r \in Regs |->
                    IF p # windowbase \/ r > 1 THEN junk ELSE IF r = 1 THEN SP ELSE RET]]
    BY DEF Handler
<1>2. junk \in Int /\ SP \in Int /\ RET \in Int
    BY WindowsAssumption, FileSize
<1>3. ar' \in File
    BY <1>1, <1>2 DEF File
<1>4. /\ frame' \in [ar : File, windowbase : Panes, windowstart : SUBSET Panes,
                     mask : SUBSET Panes, windowsize : Nat, excm : {0, 1}]
      /\ FrameOK(frame') /\ frame'.windowbase = windowbase
    <2>1. TypeInv /\ FrameOK(frame) /\ frame.windowbase = windowbase
        BY <1>0 DEF WInv, FrameInv, HandlerInv
    <2> QED
        BY <1>0, <2>1, FramesOK
<1>5. TypeInv'
    BY <1>0, <1>3, <1>4 DEF WInv, TypeInv, Restoring, disable_kernel_exceptions
<1>6. FrameInv'
    BY <1>0, <1>4 DEF FrameInv, AtRest
<1> QED
    BY <1>0, <1>4, <1>5, <1>6 DEF WInv, SpillInv, HandlerInv, RestoreInv, ProgramInv, AtRest

-----------------------------------------------------------------------------
(* The restore. *)

\* What the type invariant says of the frame during the restore.
LEMMA RestoreFacts ==
    ASSUME WInv, pc \in Restoring
    PROVE  /\ windowbase \in Panes /\ ar \in File
           /\ frame.windowbase \in Panes /\ frame.windowsize \in Nat
           /\ frame.windowsize <= NPanes - 1 /\ frame.mask \in SUBSET Panes
           /\ frame.ar \in File /\ FrameOK(frame)
PROOF
<1>1. FrameOK(frame)
    BY DEF WInv, FrameInv, Restoring
<1> QED
    BY <1>1 DEF WInv, TypeInv, FrameOK, SizeOK

LEMMA RestoreWindowWInv == ASSUME WInv, RestoreWindow PROVE WInv'
PROOF
<1> DEFINE base == frame.windowbase
           p == (base - 1) % NPanes
           size == frame.windowsize
<1>0. pc = "restore" /\ pc \in Restoring /\ windowbase = base
    BY DEF RestoreWindow, WInv, RestoreInv, Restoring
<1>1. base \in Panes /\ ar \in File /\ size \in Nat /\ size <= NPanes - 1 /\ FrameOK(frame)
    BY <1>0, RestoreFacts
<1>2. p = Down(base, 1) /\ p \in Panes /\ p # base /\ 1 \in 1 .. NPanes - 1
    <2>1. 1 \in 1 .. NPanes - 1
        BY FileSize
    <2>2. p = Down(base, 1)
        BY DEF Down
    <2> QED
        BY <1>1, <2>1, <2>2, UpDown
<1> DEFINE loaded == [ar EXCEPT ![base][2] = base, ![base][3] = BITS]
           moved == [loaded EXCEPT ![base][0] = RET, ![base][1] = SP, ![base][2] = size]
<1>3. /\ excsave1' = loaded[base][2]
      /\ ar' = (IF size = 0 THEN moved ELSE [moved EXCEPT ![p][2] = size, ![p][3] = SP])
      /\ windowbase' = p /\ windowstart' = frame.windowstart
      /\ pc' = (IF size = 0 THEN "zero_regs" ELSE "restore_loop")
      /\ UNCHANGED <<frame, sar, excm, was>>
    <2>1. /\ windowbase' = p /\ windowstart' = frame.windowstart
          /\ pc' = (IF size = 0 THEN "zero_regs" ELSE "restore_loop")
          /\ UNCHANGED <<frame, sar, excm, was>>
        BY DEF RestoreWindow
    <2> DEFINE there == [ar EXCEPT ![windowbase][2] = base, ![windowbase][3] = BITS]
               m == [there EXCEPT ![base][0] = RET, ![base][1] = SP, ![base][2] = size]
    <2>2. excsave1' = there[base][2]
        BY DEF RestoreWindow
    <2>3. ar' = (IF size = 0 THEN m ELSE [m EXCEPT ![p][2] = size, ![p][3] = SP])
        BY DEF RestoreWindow
    <2>4. there = loaded
        BY <1>0
    <2> HIDE DEF there, loaded
    <2>5. m = moved
        BY <2>4
    <2> HIDE DEF m, moved, base, size, p
    <2> QED
        BY <2>1, <2>2, <2>3, <2>4, <2>5
<1>4. /\ loaded \in File /\ loaded[base][2] = base
    <2>1. ar[base] \in [Regs -> Int] /\ base \in Int /\ BITS \in Int /\ 2 \in Regs /\ 3 \in Regs
        <3>1. ar[base] \in [Regs -> Int]
            BY <1>1 DEF File
        <3> QED
            BY <1>1, <3>1, FileSize
    <2> DEFINE new == [ar[base] EXCEPT ![2] = base, ![3] = BITS]
    <2>2. new \in [Regs -> Int] /\ new[2] = base
        BY <2>1
    <2>3. loaded = [ar EXCEPT ![base] = new]
        BY <1>1, <2>1 DEF File
    <2> HIDE DEF new, loaded, base
    <2> QED
        BY <1>1, <2>2, <2>3 DEF File
<1> HIDE DEF loaded
<1>5. /\ moved \in File /\ moved[base][0] = RET /\ moved[base][1] = SP
    <2>1. /\ loaded[base] \in [Regs -> Int] /\ RET \in Int /\ SP \in Int /\ size \in Int
          /\ 0 \in Regs /\ 1 \in Regs /\ 2 \in Regs
        <3>1. loaded[base] \in [Regs -> Int]
            BY <1>1, <1>4 DEF File
        <3> QED
            BY <1>1, <3>1, FileSize
    <2> DEFINE new == [loaded[base] EXCEPT ![0] = RET, ![1] = SP, ![2] = size]
    <2>2. new \in [Regs -> Int] /\ new[0] = RET /\ new[1] = SP
        BY <2>1
    <2>3. moved = [loaded EXCEPT ![base] = new]
        BY <1>1, <1>4, <2>1 DEF File
    <2> HIDE DEF new, moved, base
    <2> QED
        BY <1>1, <1>4, <2>2, <2>3 DEF File
<1> HIDE DEF moved
<1>6. /\ ar' \in File /\ ar'[base][0] = RET /\ ar'[base][1] = SP
      /\ size # 0 => ar'[p][2] = size /\ ar'[p][3] = SP
    <2>1. /\ moved[p] \in [Regs -> Int] /\ SP \in Int /\ size \in Int /\ 2 \in Regs /\ 3 \in Regs
        <3>1. moved[p] \in [Regs -> Int]
            BY <1>2, <1>5 DEF File
        <3> QED
            BY <1>1, <3>1, FileSize
    <2> DEFINE new == [moved[p] EXCEPT ![2] = size, ![3] = SP]
    <2>2. new \in [Regs -> Int] /\ new[2] = size /\ new[3] = SP
        BY <2>1
    <2>3. size # 0 => ar' = [moved EXCEPT ![p] = new]
        BY <1>2, <1>3, <1>5, <2>1 DEF File
    <2>4. size = 0 => ar' = moved
        BY <1>3
    <2> HIDE DEF new, base, p, size
    <2> QED
        BY <1>1, <1>2, <1>5, <2>2, <2>3, <2>4 DEF File
<1>7. TypeInv'
    <2>1. excsave1' \in Int
        BY <1>1, <1>3, <1>4, FileSize
    <2>2. frame.windowstart \in SUBSET Panes
        BY DEF WInv, TypeInv
    <2> QED
        BY <1>2, <1>3, <1>6, <2>1, <2>2 DEF WInv, TypeInv, Restoring
<1>8. FrameInv'
    BY <1>1, <1>3 DEF FrameInv, AtRest
<1>9. RestoreInv'
    <2>1. excsave1' = base /\ windowstart' = frame'.windowstart /\ frame' = frame
        BY <1>3, <1>4
    <2>2. Anchored'
        BY <1>6, <2>1 DEF Anchored
    <2>3. CASE size = 0
        <3>1. pc' = "zero_regs"
            BY <1>3, <2>3
        <3>2. LoadedTo(size)'
            BY <2>1, <2>3, FileSize DEF LoadedTo
        <3>3. 1 + size = 1
            BY <2>3
        <3> QED
            BY <1>2, <1>3, <2>1, <2>2, <3>1, <3>2, <3>3 DEF RestoreInv
    <2>4. CASE size # 0
        <3>1. pc' = "restore_loop"
            BY <1>3, <2>4
        <3>2. Restored' = 0
            <4>1. Restored' = size - ar'[p][2]
                BY <1>3, <2>1 DEF Restored
            <4>2. ar'[p][2] = size
                BY <1>6, <2>4
            <4>3. size - size = 0
                BY <1>1
            <4> QED
                BY <4>1, <4>2, <4>3
        <3>3. LoadedTo(0)'
            BY FileSize DEF LoadedTo
        <3>4. 1 + 0 = 1 /\ SP - 0 = SP /\ 0 < size
            BY <1>1, <2>4, FileSize
        <3>5. windowbase' = Down(base, 1 + 0) /\ ar'[windowbase'][3] = SP - 0 /\ frame' = frame
            BY <1>2, <1>3, <1>6, <2>1, <2>4, <3>4
        <3> HIDE DEF size
        <3> QED
            BY <2>1, <2>2, <3>1, <3>2, <3>3, <3>4, <3>5 DEF RestoreInv, size
    <2> QED
        BY <2>3, <2>4
<1> QED
    BY <1>3, <1>7, <1>8, <1>9 DEF WInv, SpillInv, HandlerInv, ProgramInv, AtRest

\* .restore_loop: one more pane is loaded from where the spill stored it.
LEMMA RestoreLoopWInv == ASSUME WInv, RestoreLoop PROVE WInv'
PROOF
<1> DEFINE base == frame.windowbase
           size == frame.windowsize
           p == Below
           t == Restored
<1>0. /\ pc = "restore_loop" /\ pc \in Restoring
      /\ ar' = [ar EXCEPT ![windowbase] = frame.ar[Slot(ar[windowbase][3] - 1 + 1)],
                          ![p][2] = ar[windowbase][2] - 1, ![p][3] = ar[windowbase][3] - 1]
      /\ windowbase' = p
      /\ pc' = (IF ar[windowbase][2] - 1 = 0 THEN "zero_regs" ELSE "restore_loop")
      /\ UNCHANGED <<windowstart, frame, excsave1, sar, excm, was>>
    BY DEF RestoreLoop, Restoring
<1>1. /\ base \in Panes /\ ar \in File /\ size \in Nat /\ size <= NPanes - 1 /\ FrameOK(frame)
      /\ frame.ar \in File /\ windowbase \in Panes
    BY <1>0, RestoreFacts
<1>2. /\ windowstart = frame.windowstart /\ excsave1 = base
      /\ t >= 0 /\ t < size /\ windowbase = Down(base, 1 + t) /\ ar[windowbase][3] = SP - t
      /\ Anchored /\ LoadedTo(t)
    BY <1>0 DEF WInv, RestoreInv
<1>3. ar[windowbase][2] \in Int /\ t \in Nat /\ ar[windowbase][2] = size - t
    <2>1. ar[windowbase] \in [Regs -> Int] /\ 2 \in Regs
        BY <1>1, FileSize DEF File
    <2>2. ar[windowbase][2] \in Int
        BY <2>1
    <2> DEFINE c == ar[windowbase][2]
    <2>3. t = size - c /\ c \in Int /\ t >= 0
        BY <1>2, <2>2 DEF Restored
    <2> HIDE DEF c, t, size
    <2>4. t \in Nat /\ c = size - t
        BY <1>1, <2>3
    <2> QED
        BY <2>2, <2>4 DEF c
<1> HIDE DEF base, size, p, t
<1>4. /\ 1 + t \in 1 .. NPanes - 1 /\ 1 + t \in 0 .. NPanes - 1 /\ (1 + t) + 1 = 2 + t
      /\ NPanes - 1 - t \in Panes /\ NPanes - (1 + t) = NPanes - 1 - t
      /\ 2 + t \in 1 .. NPanes
    BY <1>1, <1>2, <1>3, FileSize
<1>5. p = Down(base, 2 + t) /\ p \in Panes /\ p # windowbase /\ windowbase # base
    <2>1. p = (windowbase - 1) % NPanes
        BY DEF p, Below
    <2>2. p = Down(base, 2 + t)
        BY <1>1, <1>2, <1>4, <2>1, DownStep
    <2>3. windowbase # base
        BY <1>1, <1>2, <1>4, UpDown
    <2>4. p = IF windowbase >= 1 THEN windowbase - 1 ELSE NPanes - 1
        BY <1>1, <2>1, OneDown
    <2>5. p \in Panes /\ p # windowbase
        BY <1>1, <2>4, FileSize
    <2> QED
        BY <2>2, <2>3, <2>5
<1>6. Slot(ar[windowbase][3] - 1 + 1) = NPanes - 1 - t
    BY <1>2, <1>3, FileSize DEF Slot
<1>7. /\ ar' \in File /\ ar'[windowbase] = frame.ar[NPanes - 1 - t]
      /\ \A q \in Panes : q # windowbase /\ q # p => ar'[q] = ar[q]
      /\ ar'[p][0] = ar[p][0] /\ ar'[p][1] = ar[p][1]
      /\ ar'[p][2] = size - (t + 1) /\ ar'[p][3] = SP - (t + 1)
    <2> DEFINE x == ar[windowbase][2] - 1
               y == ar[windowbase][3] - 1
               new == [ar[p] EXCEPT ![2] = x, ![3] = y]
    <2>1. x = size - (t + 1) /\ y = SP - (t + 1) /\ x \in Int /\ y \in Int
        BY <1>1, <1>2, <1>3, FileSize
    <2>2. ar[p] \in [Regs -> Int] /\ frame.ar[NPanes - 1 - t] \in [Regs -> Int]
        BY <1>1, <1>4, <1>5 DEF File
    <2>3. ar' = [ar EXCEPT ![windowbase] = frame.ar[NPanes - 1 - t], ![p] = new]
        BY <1>0, <1>1, <1>5, <1>6 DEF File
    <2>4. /\ new \in [Regs -> Int] /\ new[0] = ar[p][0] /\ new[1] = ar[p][1]
          /\ new[2] = x /\ new[3] = y
        <3> HIDE DEF x, y
        <3> QED
            BY SMTT(30), <2>1, <2>2, FileSize
    <2> HIDE DEF x, y, new
    <2> QED
        BY <1>1, <1>5, <2>1, <2>2, <2>3, <2>4 DEF File
<1>8. TypeInv' /\ FrameInv'
    <2>1. TypeInv'
        BY <1>0, <1>5, <1>7 DEF WInv, TypeInv, Restoring
    <2> QED
        BY <1>0, <1>1, <2>1 DEF FrameInv, AtRest
<1>9. Anchored'
    <2>1. ar'[base][0] = ar[base][0] /\ ar'[base][1] = ar[base][1]
        BY <1>1, <1>5, <1>7
    <2> QED
        BY <1>0, <1>2, <2>1 DEF Anchored, base
<1>10. \A u \in 1 .. NPanes - 1 : u <= t + 1 => ar'[Down(base, u)] = frame.ar[NPanes - u]
    <2> SUFFICES ASSUME NEW u \in 1 .. NPanes - 1, u <= t + 1
                 PROVE  ar'[Down(base, u)] = frame.ar[NPanes - u]
        OBVIOUS
    <2>1. CASE u = 1 + t
        BY <1>2, <1>4, <1>7, <2>1
    <2>2. CASE u # 1 + t
        <3>1. u <= t /\ u # 2 + t
            BY <1>3, <2>2
        <3>2. Down(base, u) \in Panes /\ Down(base, u) # windowbase /\ Down(base, u) # base
            BY <1>1, <1>2, <1>4, <2>2, UpDown
        <3>3. Down(base, u) # p
            <4>1. CASE 2 + t = NPanes
                BY <1>1, <1>5, <3>2, <4>1, UpDown
            <4>2. CASE 2 + t # NPanes
                <5>1. 2 + t \in 1 .. NPanes - 1
                    BY <1>3, <1>4, <4>2, FileSize
                <5> QED
                    BY <1>1, <1>5, <3>1, <5>1, UpDown
            <4> QED
                BY <4>1, <4>2
        <3> QED
            BY <1>2, <1>7, <3>1, <3>2, <3>3 DEF LoadedTo, base
    <2> QED
        BY <2>1, <2>2
<1>11. frame' = frame /\ windowbase' = p /\ windowstart' = frame.windowstart
           /\ excsave1' = base /\ t + 1 >= 0 /\ 1 + (t + 1) = 2 + t
    BY <1>0, <1>2, <1>3
<1>12. CASE ar[windowbase][2] - 1 = 0
    <2>1. pc' = "zero_regs"
        BY <1>0, <1>12
    <2>2. size = t + 1 /\ 1 + size = 2 + t
        BY <1>1, <1>3, <1>12
    <2>3. LoadedTo(frame.windowsize)'
        BY <1>10, <1>11, <2>2 DEF LoadedTo, base, size
    <2>4. windowbase' = Down(frame.windowbase, 1 + frame.windowsize)
        BY <1>5, <1>11, <2>2 DEF base, size
    <2>5. RestoreInv'
        BY <1>9, <1>11, <2>1, <2>3, <2>4 DEF RestoreInv, base
    <2> QED
        BY <1>8, <2>1, <2>5 DEF WInv, SpillInv, HandlerInv, ProgramInv, AtRest
<1>13. CASE ar[windowbase][2] - 1 # 0
    <2>1. pc' = "restore_loop"
        BY <1>0, <1>13
    <2>2. t + 1 < size
        BY <1>1, <1>2, <1>3, <1>13
    <2>3. Restored' = t + 1
        <3>1. Restored' = size - ar'[p][2]
            BY <1>11 DEF Restored, size
        <3> QED
            BY <1>1, <1>3, <1>7, <3>1
    <2>4. LoadedTo(Restored)'
        BY <1>10, <1>11, <2>3 DEF LoadedTo, base
    <2>5. windowbase' = Down(base, 1 + (t + 1)) /\ ar'[windowbase'][3] = SP - (t + 1)
        BY <1>5, <1>7, <1>11
    <2>6. RestoreInv'
        BY <1>9, <1>11, <2>1, <2>2, <2>3, <2>4, <2>5 DEF RestoreInv, base, size
    <2> QED
        BY <1>8, <2>1, <2>6 DEF WInv, SpillInv, HandlerInv, ProgramInv, AtRest
<1> QED
    BY <1>12, <1>13

\* The pane Up(b, j) is counted j from the base.
LEMMA UpIndex ==
    ASSUME NEW b \in Panes, NEW j \in Panes
    PROVE  Up(b, j) \in Panes /\ (Up(b, j) - b) % NPanes = j
PROOF
<1>1. Up(b, j) \in Panes
    BY UpIs
<1> DEFINE i == (Up(b, j) - b) % NPanes
<1>2. i \in Panes /\ Up(b, i) = Up(b, j)
    BY <1>1, UpAll
<1> HIDE DEF i
<1>3. i = j
    BY <1>2, UpDown
<1> QED
    BY <1>1, <1>3 DEF i

\* .zero_regs: the counter is the distance to the base, but a file whose every
\* pane was loaded has no pane left to clear and none to keep sp and a0 in.
LEMMA ZeroRegsWInv == ASSUME WInv, ZeroRegs PROVE WInv'
PROOF
<1> DEFINE base == frame.windowbase
           size == frame.windowsize
           d == Distance % NPanes
<1>0. /\ pc = "zero_regs" /\ pc \in Restoring
      /\ ar' = [ar EXCEPT ![windowbase][0] = windowbase, ![windowbase][3] = d]
      /\ pc' = (IF Distance = 0 THEN "finish" ELSE "zero_loop")
      /\ UNCHANGED <<windowbase, windowstart, frame, excsave1, sar, excm, was>>
    BY DEF ZeroRegs, Restoring
<1>1. /\ base \in Panes /\ ar \in File /\ size \in Nat /\ size <= NPanes - 1 /\ FrameOK(frame)
      /\ windowbase \in Panes
    BY <1>0, RestoreFacts
<1>2. /\ windowstart = frame.windowstart /\ excsave1 = base
      /\ windowbase = Down(base, 1 + size) /\ Anchored /\ LoadedTo(size)
    BY <1>0 DEF WInv, RestoreInv
<1>3. Distance = windowbase - base /\ d \in Panes /\ Up(base, d) = windowbase
    <2>1. Distance = windowbase - base
        BY <1>2 DEF Distance
    <2> QED
        BY <1>1, <2>1, UpAll
<1> HIDE DEF base, size, d
<1>4. /\ ar' \in File /\ ar'[windowbase][0] = windowbase /\ ar'[windowbase][3] = d
      /\ \A q \in Panes : q # windowbase => ar'[q] = ar[q]
    <2> DEFINE new == [ar[windowbase] EXCEPT ![0] = windowbase, ![3] = d]
    <2>1. ar[windowbase] \in [Regs -> Int]
        BY <1>1 DEF File
    <2>2. windowbase \in Int /\ d \in Int
        BY <1>1, <1>3, FileSize
    <2>3. new \in [Regs -> Int] /\ new[0] = windowbase /\ new[3] = d
        BY <2>1, <2>2, FileSize
    <2>4. ar' = [ar EXCEPT ![windowbase] = new]
        BY <1>0, <1>1, <2>1 DEF File
    <2> HIDE DEF new
    <2> QED
        BY <1>1, <2>3, <2>4 DEF File
<1>5. TypeInv' /\ FrameInv'
    <2>1. TypeInv'
        BY <1>0, <1>4 DEF WInv, TypeInv, Restoring
    <2> QED
        BY <1>0, <1>1, <2>1 DEF FrameInv, AtRest
<1>6. frame' = frame /\ windowbase' = windowbase /\ windowstart' = frame.windowstart
          /\ excsave1' = base
    BY <1>0, <1>2
<1>7. CASE size = NPanes - 1
    <2>1. 1 + size = NPanes
        BY <1>1, <1>7, FileSize
    <2>2. windowbase = base
        BY <1>1, <1>2, <2>1, UpDown
    <2>3. pc' = "finish"
        BY <1>0, <1>1, <1>3, <2>2, FileSize
    <2>4. ar'[windowbase][0] # RET
        BY <1>1, <1>4, FileSize
    <2>5. RestoreInv'
        <3>1. ~(frame.windowsize < NPanes - 1)
            BY <1>1, <1>7, FileSize DEF size
        <3> QED
            BY <1>6, <2>2, <2>3, <2>4, <3>1 DEF RestoreInv, base
    <2> QED
        BY <1>5, <2>3, <2>5 DEF WInv, SpillInv, HandlerInv, ProgramInv, AtRest
<1>8. CASE size # NPanes - 1
    <2>1. /\ 1 + size \in 1 .. NPanes - 1 /\ NPanes - (1 + size) \in Panes
          /\ NPanes - (1 + size) \in 1 .. NPanes - 1 - size
        BY <1>1, <1>8, FileSize
    <2>2. windowbase = Up(base, NPanes - (1 + size)) /\ windowbase # base
        BY <1>1, <1>2, <2>1, UpDown
    <2>3. d = NPanes - (1 + size)
        BY <1>1, <1>3, <2>1, <2>2, UpDown
    <2>4. pc' = "zero_loop"
        BY <1>0, <1>1, <1>3, <2>2, FileSize
    <2>5. Anchored'
        BY <1>1, <1>2, <1>4, <1>6, <2>2 DEF Anchored, base
    <2>6. LoadedTo(frame.windowsize)'
        <3> SUFFICES ASSUME NEW u \in 1 .. NPanes - 1, u <= size
                     PROVE  ar'[Down(base, u)] = frame.ar[NPanes - u]
            BY <1>6 DEF LoadedTo, base, size
        <3>1. u # 1 + size
            BY <1>1
        <3>2. Down(base, u) # windowbase /\ Down(base, u) \in Panes
            BY <1>1, <1>2, <2>1, <3>1, UpDown
        <3>3. ar[Down(base, u)] = frame.ar[NPanes - u]
            BY <1>2 DEF LoadedTo, base
        <3> QED
            BY <1>4, <3>2, <3>3
    <2>7. ClearedFrom(ar[windowbase][3] + 1)'
        <3>1. \A j \in 1 .. NPanes - 1 : ~(j >= d + 1 /\ j < NPanes - size)
            BY <1>1, <2>1, <2>3, FileSize
        <3> QED
            BY <1>4, <1>6, <3>1 DEF ClearedFrom, size
    <2>8. ar'[windowbase'][3] = d /\ d \in 1 .. NPanes - 1 - size /\ windowbase' = Up(base, d)
        BY <1>3, <1>4, <1>6, <2>1, <2>3
    <2>9. RestoreInv'
        BY <1>6, <2>4, <2>5, <2>6, <2>7, <2>8 DEF RestoreInv, base, size
    <2> QED
        BY <1>5, <2>4, <2>9 DEF WInv, SpillInv, HandlerInv, ProgramInv, AtRest
<1> QED
    BY <1>7, <1>8

\* .zero_loop: clears the panes that are neither loaded nor the base.
LEMMA ZeroLoopWInv == ASSUME WInv, ZeroLoop PROVE WInv'
PROOF
<1> DEFINE base == frame.windowbase
           size == frame.windowsize
           p == Below
           c == ar[windowbase][3]
<1>0. /\ pc = "zero_loop" /\ pc \in Restoring
      /\ ar' = [ar EXCEPT ![windowbase] = Cleared(ar[windowbase]), ![p][3] = c - 1]
      /\ windowbase' = p
      /\ pc' = (IF c - 1 >= 1 THEN "zero_loop" ELSE "finish")
      /\ UNCHANGED <<windowstart, frame, excsave1, sar, excm, was>>
    BY DEF ZeroLoop, Restoring
<1>1. /\ base \in Panes /\ ar \in File /\ size \in Nat /\ size <= NPanes - 1 /\ FrameOK(frame)
      /\ windowbase \in Panes
    BY <1>0, RestoreFacts
<1>2. /\ windowstart = frame.windowstart /\ excsave1 = base
      /\ c \in 1 .. NPanes - 1 - size /\ windowbase = Up(base, c)
      /\ Anchored /\ LoadedTo(size) /\ ClearedFrom(c + 1)
    BY <1>0 DEF WInv, RestoreInv
<1> HIDE DEF base, size, p, c
<1>3. c \in 1 .. NPanes - 1 /\ c \in Panes /\ c - 1 \in Panes /\ c + size < NPanes /\ c \in Nat
    BY <1>1, <1>2, FileSize
<1>4. p = Up(base, c - 1) /\ p \in Panes /\ p # windowbase /\ windowbase # base
    <2>1. p = (windowbase - 1) % NPanes
        BY DEF p, Below
    <2>2. p = Up(base, c - 1)
        BY <1>1, <1>2, <1>3, <2>1, UpStep
    <2>3. p \in Panes
        BY <1>1, <1>3, <2>2, UpIs
    <2>4. p # windowbase
        <3>1. c # c - 1
            BY <1>3
        <3> QED
            BY <1>1, <1>2, <1>3, <2>2, <3>1, UpDown
    <2> QED
        BY <1>1, <1>2, <1>3, <2>2, <2>3, <2>4, UpDown
<1>5. /\ ar' \in File /\ \A r \in Regs : ar'[windowbase][r] = 0
      /\ \A q \in Panes : q # windowbase /\ q # p => ar'[q] = ar[q]
      /\ ar'[p][0] = ar[p][0] /\ ar'[p][1] = ar[p][1] /\ ar'[p][3] = c - 1
    <2> DEFINE new == [ar[p] EXCEPT ![3] = c - 1]
               zero == Cleared(ar[windowbase])
    <2>1. ar[p] \in [Regs -> Int] /\ c - 1 \in Int
        BY <1>1, <1>3, <1>4 DEF File
    <2>2. ar' = [ar EXCEPT ![windowbase] = zero, ![p] = new]
        BY <1>0, <1>1, <1>4 DEF File
    <2>3. zero \in [Regs -> Int] /\ \A r \in Regs : zero[r] = 0
        BY DEF Cleared
    <2>4. new \in [Regs -> Int] /\ new[0] = ar[p][0] /\ new[1] = ar[p][1] /\ new[3] = c - 1
        BY <2>1, FileSize
    <2> HIDE DEF new, zero
    <2> QED
        BY <1>1, <1>4, <2>2, <2>3, <2>4 DEF File
<1>6. TypeInv' /\ FrameInv'
    <2>1. TypeInv'
        BY <1>0, <1>4, <1>5 DEF WInv, TypeInv, Restoring
    <2> QED
        BY <1>0, <1>1, <2>1 DEF FrameInv, AtRest
<1>7. frame' = frame /\ windowbase' = p /\ windowstart' = frame.windowstart
          /\ excsave1' = base
    BY <1>0, <1>2
<1>8. Anchored'
    <2>1. ar'[base][0] = ar[base][0] /\ ar'[base][1] = ar[base][1]
        BY <1>1, <1>4, <1>5
    <2> QED
        BY <1>2, <1>7, <2>1 DEF Anchored, base
\* The panes above the counter stay as they are.
<1>9. \A j \in Panes : j > c => Up(base, j) \in Panes /\ ar'[Up(base, j)] = ar[Up(base, j)]
    <2> SUFFICES ASSUME NEW j \in Panes, j > c
                 PROVE  Up(base, j) \in Panes /\ ar'[Up(base, j)] = ar[Up(base, j)]
        OBVIOUS
    <2>1. j # c /\ j # c - 1
        BY <1>3, FileSize
    <2>2. Up(base, j) # windowbase /\ Up(base, j) # p
        BY <1>1, <1>2, <1>3, <1>4, <2>1, UpDown
    <2>3. Up(base, j) \in Panes
        BY <1>1, UpIs
    <2> QED
        BY <1>5, <2>2, <2>3
<1>10. LoadedTo(frame.windowsize)'
    <2> SUFFICES ASSUME NEW u \in 1 .. NPanes - 1, u <= size
                 PROVE  ar'[Down(base, u)] = frame.ar[NPanes - u]
        BY <1>7 DEF LoadedTo, base, size
    <2>1. NPanes - u \in Panes /\ NPanes - u > c
        BY <1>1, <1>3, FileSize
    <2>2. Down(base, u) = Up(base, NPanes - u)
        BY <1>1, UpDown
    <2>3. ar[Down(base, u)] = frame.ar[NPanes - u]
        BY <1>2 DEF LoadedTo, base
    <2> QED
        BY <1>9, <2>1, <2>2, <2>3
<1>11. \A j \in 1 .. NPanes - 1 : j >= c /\ j < NPanes - size =>
           \A r \in Regs : ar'[Up(base, j)][r] = 0
    <2> SUFFICES ASSUME NEW j \in 1 .. NPanes - 1, j >= c, j < NPanes - size, NEW r \in Regs
                 PROVE  ar'[Up(base, j)][r] = 0
        OBVIOUS
    <2>1. CASE j = c
        BY <1>2, <1>5, <2>1
    <2>2. CASE j # c
        <3>1. j > c /\ j >= c + 1 /\ j \in Panes
            BY <1>3, <2>2, FileSize
        <3>2. ar[Up(base, j)][r] = 0
            BY <1>2, <3>1 DEF ClearedFrom, base, size
        <3> QED
            BY <1>9, <3>1, <3>2
    <2> QED
        BY <2>1, <2>2
<1>12. CASE c - 1 >= 1
    <2>1. pc' = "zero_loop" /\ ar'[windowbase'][3] = c - 1 /\ windowbase' = Up(base, c - 1)
        BY <1>0, <1>4, <1>5, <1>7, <1>12
    <2>2. c - 1 \in 1 .. NPanes - 1 - size /\ (c - 1) + 1 = c
        BY <1>1, <1>3, <1>12, FileSize
    <2>3. ClearedFrom(ar[windowbase][3] + 1)'
        BY <1>7, <1>11, <2>1, <2>2 DEF ClearedFrom, base, size
    <2>4. RestoreInv'
        BY <1>7, <1>8, <1>10, <2>1, <2>2, <2>3 DEF RestoreInv, base, size
    <2> QED
        BY <1>6, <2>1, <2>4 DEF WInv, SpillInv, HandlerInv, ProgramInv, AtRest
<1>13. CASE ~(c - 1 >= 1)
    <2>1. c = 1 /\ c - 1 = 0
        BY <1>3, <1>13
    <2>2. pc' = "finish" /\ windowbase' = base
        BY <1>0, <1>1, <1>4, <1>7, <1>13, <2>1, UpDown
    <2>3. ClearedFrom(1)'
        BY <1>7, <1>11, <2>1 DEF ClearedFrom, base, size
    <2>4. size # NPanes - 1
        BY <1>1, <1>3, FileSize
    <2>5. RestoreInv'
        BY <1>7, <1>8, <1>10, <2>2, <2>3, <2>4 DEF RestoreInv, base, size
    <2> QED
        BY <1>6, <2>2, <2>5 DEF WInv, SpillInv, HandlerInv, ProgramInv, AtRest
<1> QED
    BY <1>12, <1>13

\* .done_zeroing_regs: every pane but the base is loaded, or holds zeroes.
LEMMA FinishWInv == ASSUME WInv, Finish PROVE WInv'
PROOF
<1> DEFINE base == frame.windowbase
           size == frame.windowsize
           mask == frame.mask
<1>0. /\ pc = "finish" /\ pc \in Restoring
      /\ UNCHANGED <<windowbase, windowstart, frame, excsave1, sar, was>>
    BY DEF Finish, Restoring
<1>1. /\ base \in Panes /\ ar \in File /\ size \in Nat /\ size <= NPanes - 1 /\ FrameOK(frame)
      /\ windowbase \in Panes /\ mask \in SUBSET Panes /\ frame.ar \in File
    BY <1>0, RestoreFacts
<1>2. /\ windowstart = frame.windowstart /\ windowbase = base
      /\ size = NPanes - 1 => ar[windowbase][0] # RET
      /\ size < NPanes - 1 => Anchored /\ LoadedTo(size) /\ ClearedFrom(1)
    BY <1>0 DEF WInv, RestoreInv
<1>3. /\ size = NPanes - 1 => 1 \in mask
      /\ mask \notin {{}, {0}} => size = NPanes - NextWindow(mask)
      /\ \A j \in Panes : Clean(frame.ar[j])
    BY <1>1 DEF FrameOK, SizeOK
<1>4. excm' \in {0, 1}
    BY DEF Finish, WInv, TypeInv
<1>5. CASE size = NPanes - 1
    <2>1. pc' = "lost" /\ ar' = ar
        BY <1>2, <1>5 DEF Finish
    <2>2. TypeInv'
        BY <1>0, <1>4, <2>1 DEF WInv, TypeInv
    <2>3. FrameInv'
        BY <1>0, <1>3, <1>5, <2>1 DEF FrameInv, AtRest
    <2> QED
        BY <2>1, <2>2, <2>3 DEF WInv, SpillInv, HandlerInv, RestoreInv, ProgramInv, AtRest
<1>6. CASE size # NPanes - 1
    <2>1. Anchored /\ LoadedTo(size) /\ ClearedFrom(1) /\ size <= NPanes - 2
        BY <1>1, <1>2, <1>6, FileSize
    <2>2. /\ pc' = "exit"
          /\ ar' = [q \in Panes |-> IF (q - windowbase) % NPanes \in Above(mask)
                                    THEN frame.ar[(q - windowbase) % NPanes] ELSE ar[q]]
        BY <1>2, <2>1 DEF Finish, Anchored
    <2> HIDE DEF base, size, mask
    <2>3. /\ DOMAIN ar' = Panes
          /\ \A j \in Panes : ar'[Up(base, j)] = IF j \in Above(mask) THEN frame.ar[j]
                                                 ELSE ar[Up(base, j)]
        <3>1. DOMAIN ar' = Panes
            BY <2>2
        <3>2. ASSUME NEW j \in Panes
              PROVE  ar'[Up(base, j)] = IF j \in Above(mask) THEN frame.ar[j] ELSE ar[Up(base, j)]
            <4>1. Up(base, j) \in Panes /\ (Up(base, j) - base) % NPanes = j
                BY <1>1, UpIndex
            <4> QED
                BY <1>2, <2>2, <4>1
        <3> QED
            BY <3>1, <3>2
    \* What was loaded, counted upwards.
    <2>4. \A j \in Panes : j >= NPanes - size /\ j # 0 => ar[Up(base, j)] = frame.ar[j]
        <3> SUFFICES ASSUME NEW j \in Panes, j >= NPanes - size, j # 0
                     PROVE  ar[Up(base, j)] = frame.ar[j]
            OBVIOUS
        <3>1. /\ j \in 1 .. NPanes - 1 /\ NPanes - j \in 1 .. NPanes - 1
              /\ NPanes - j <= size /\ NPanes - (NPanes - j) = j
            BY <1>1, FileSize
        <3>2. Up(base, j) = Down(base, NPanes - j)
            BY <1>1, <3>1, UpDown
        <3> QED
            BY <2>1, <3>1, <3>2 DEF LoadedTo, base
    <2>5. ar' \in File
        <3>1. ASSUME NEW q \in Panes PROVE ar'[q] \in [Regs -> Int]
            <4> DEFINE j == (q - base) % NPanes
            <4>1. j \in Panes /\ Up(base, j) = q
                BY <1>1, UpAll
            <4> HIDE DEF j
            <4> QED
                BY <1>1, <2>3, <4>1 DEF File
        <3>2. ar' = [q \in Panes |-> ar'[q]]
            BY <2>2
        <3> QED
            BY <3>1, <3>2 DEF File
    <2>6. \A q \in Panes : q = windowbase \/ Clean(ar'[q])
        <3> SUFFICES ASSUME NEW q \in Panes, q # windowbase PROVE Clean(ar'[q])
            OBVIOUS
        <3> DEFINE j == (q - base) % NPanes
        <3>1. j \in Panes /\ Up(base, j) = q
            BY <1>1, UpAll
        <3> HIDE DEF j
        <3>2. j # 0
            BY <1>1, <1>2, <3>1, UpDown
        <3>3. CASE j \in Above(mask)
            BY <1>3, <2>3, <3>1, <3>3
        <3>4. CASE j \notin Above(mask) /\ j >= NPanes - size
            BY <1>3, <2>3, <2>4, <3>1, <3>2, <3>4
        <3>5. CASE j \notin Above(mask) /\ ~(j >= NPanes - size)
            <4>1. j \in 1 .. NPanes - 1 /\ j >= 1 /\ j < NPanes - size
                BY <1>1, <3>1, <3>2, <3>5, FileSize
            <4>2. \A r \in Regs : ar[Up(base, j)][r] = 0
                BY <2>1, <4>1 DEF ClearedFrom, base, size
            <4>3. ar'[q] = ar[Up(base, j)]
                BY <2>3, <3>1, <3>5
            <4> QED
                BY <4>2, <4>3 DEF Clean
        <3> QED
            BY <3>3, <3>4, <3>5
    <2>7. \A j \in Panes : j # 0 /\ j \in Owned(mask) => ar'[Up(windowbase, j)] = frame.ar[j]
        <3> SUFFICES ASSUME NEW j \in Panes, j # 0, j \in Owned(mask)
                     PROVE  ar'[Up(base, j)] = frame.ar[j]
            BY <1>2
        <3>1. j \in Above(mask) \/ j >= NextWindow(mask)
            BY <1>1, OwnedFacts
        <3>2. CASE j \in Above(mask)
            BY <2>3, <3>2
        <3>3. CASE j \notin Above(mask) /\ j >= NextWindow(mask)
            <4>1. mask \notin {{}, {0}}
                <5>1. NextWindow(mask) \in mask \/ NextWindow(mask) = NPanes
                    BY <1>1, NextWindowFacts
                <5>2. NextWindow(mask) \in 1 .. NPanes
                    BY <1>1, NextWindowFacts
                <5> QED
                    BY <3>3, <5>1, <5>2, FileSize
            <4>2. size = NPanes - NextWindow(mask) /\ NextWindow(mask) \in 1 .. NPanes
                BY <1>1, <1>3, <4>1, NextWindowFacts
            <4>3. j >= NPanes - size
                BY <1>1, <3>3, <4>2, FileSize
            <4> QED
                BY <2>3, <2>4, <3>3, <4>3
        <3> QED
            BY <3>1, <3>2, <3>3
    <2>8. TypeInv'
        BY <1>0, <1>4, <2>2, <2>5 DEF WInv, TypeInv
    <2>9. FrameInv'
        BY <1>0, <1>1, <2>1, <2>2 DEF FrameInv, AtRest, size
    <2>10. ProgramInv'
        BY <1>0, <1>2, <2>2, <2>6, <2>7 DEF ProgramInv, AtRest, base, mask
    <2> QED
        BY <2>2, <2>8, <2>9, <2>10 DEF WInv, SpillInv, HandlerInv, RestoreInv
<1> QED
    BY <1>5, <1>6

\* The end of common_interrupt_entry: the base holds a0-a3 again.
LEMMA ExitWInv == ASSUME WInv, Exit PROVE WInv'
PROOF
<1>0. /\ pc = "exit" /\ pc' = "resumed" /\ excm' = 0
      /\ ar' = [ar EXCEPT ![windowbase] = frame.ar[0]]
      /\ UNCHANGED <<windowbase, windowstart, frame, excsave1, sar, was>>
    BY DEF Exit
<1>1. windowbase \in Panes /\ ar \in File /\ frame.ar \in File /\ 0 \in Panes
    BY FileSize DEF WInv, TypeInv
<1>2. /\ ar' \in File /\ ar'[windowbase] = frame.ar[0]
      /\ \A q \in Panes : q # windowbase => ar'[q] = ar[q]
    <2> DEFINE new == frame.ar[0]
    <2>1. new \in [Regs -> Int] /\ ar' = [ar EXCEPT ![windowbase] = new]
        BY <1>0, <1>1 DEF File
    <2> HIDE DEF new
    <2>2. ar' \in File /\ ar'[windowbase] = new /\ \A q \in Panes : q # windowbase => ar'[q] = ar[q]
        BY <1>1, <2>1 DEF File
    <2> QED
        BY <2>2 DEF new
<1>3. TypeInv'
    BY <1>0, <1>2 DEF WInv, TypeInv, AtRest
<1>4. FrameOK(frame) /\ FrameInv'
    BY <1>0 DEF WInv, FrameInv, AtRest, FrameOK, SizeOK
<1>5. ProgramInv'
    <2>1. \A q \in Panes : Clean(ar'[q])
        BY <1>0, <1>1, <1>2, <1>4 DEF WInv, ProgramInv, FrameOK
    <2>2. ASSUME NEW j \in Panes, j \in Owned(frame.mask)
          PROVE  ar'[Up(windowbase, j)] = frame.ar[j]
        <3>1. CASE j = 0
            BY <1>1, <1>2, <3>1, UpDown
        <3>2. CASE j # 0
            <4>1. j \in 1 .. NPanes - 1
                BY <3>2, FileSize
            <4>2. Up(windowbase, j) # windowbase
                BY <1>1, <4>1, UpDown
            <4>3. Up(windowbase, j) \in Panes
                BY <1>1, UpIs
            <4>4. ar[Up(windowbase, j)] = frame.ar[j]
                BY <1>0, <2>2, <3>2 DEF WInv, ProgramInv
            <4> QED
                BY <1>2, <4>2, <4>3, <4>4
        <3> QED
            BY <3>1, <3>2
    <2> QED
        BY <1>0, <2>1, <2>2 DEF WInv, ProgramInv
<1> QED
    BY <1>0, <1>3, <1>4, <1>5 DEF WInv, SpillInv, HandlerInv, RestoreInv

-----------------------------------------------------------------------------
(* Theorems. *)

\* The three loops of arch/interrupts.S keep WInv as long as a task is
\* dispatched over one with the same base; the run windows_other_base shows
\* that with another base the restore does not even come back.
THEOREM WindowsInvariance == ASSUME ~OtherBases PROVE Spec => []WInv
PROOF
<1>1. Init => WInv
    BY InitWInv
<1>2. WInv /\ [Next]_vars => WInv'
    BY EntryWInv, TrapWInv, SpillWInv, HandlerWInv, RestoreWindowWInv, RestoreLoopWInv,
       ZeroRegsWInv, ZeroLoopWInv, FinishWInv, ExitWInv, StutterWInv DEF Next
<1> QED
    BY <1>1, <1>2, PTL DEF Spec

\* save_full_interrupt_context stores every register that the interrupted
\* program can still read where task_regs_dump prints it from.
THEOREM SavesTheorem == ASSUME ~OtherBases PROVE Spec => []SavesExactly
PROOF
<1>1. WInv => SavesExactly
    <2> SUFFICES ASSUME WInv, pc = "handler", NEW p \in Panes,
                        (p - was.windowbase) % NPanes \in Owned(frame.mask)
                 PROVE  task_regs_dump(p) = was.ar[p]
        BY DEF SavesExactly
    <2> DEFINE b == was.windowbase
               j == (p - b) % NPanes
    <2>1. windowbase = b /\ frame.windowbase = b /\ b \in Panes
        BY DEF WInv, HandlerInv, TypeInv
    <2>2. /\ j \in Panes /\ Up(b, j) = p
          /\ j = IF p < b THEN NPanes + p - b ELSE p - b
        BY <2>1, UpAll
    <2> HIDE DEF b
    <2>3. frame.ar[j] = was.ar[Up(b, j)]
        BY <2>1 DEF WInv, HandlerInv, b
    <2> HIDE DEF j
    <2>4. task_regs_dump(p) = frame.ar[j]
        BY <2>1, <2>2 DEF task_regs_dump
    <2> QED
        BY <2>2, <2>3, <2>4
<1> QED
    BY <1>1, WindowsInvariance, PTL

\* restore_full_interrupt_context brings back the window, the live windows and
\* their registers, unless the register file was full or no window was live.
THEOREM RestoresTheorem == ASSUME ~OtherBases PROVE Spec => []RestoresFrame
PROOF
<1>1. WInv => RestoresFrame
    <2> SUFFICES ASSUME WInv PROVE RestoresFrame
        OBVIOUS
    <2>1. pc = "lost" => 1 \in frame.mask \/ frame.mask = {}
        BY DEF WInv, FrameInv
    <2>2. ASSUME pc = "resumed", NEW j \in Owned(frame.mask)
          PROVE  ar[(windowbase + j) % NPanes] = frame.ar[j]
        <3>1. j \in Panes
            BY DEF Owned
        <3>2. ar[Up(windowbase, j)] = frame.ar[j]
            BY <2>2, <3>1 DEF WInv, ProgramInv
        <3> QED
            BY <3>2 DEF Up
    <2> QED
        BY <2>1, <2>2 DEF WInv, ProgramInv, RestoresFrame
<1> QED
    BY <1>1, WindowsInvariance, PTL

\* .zero_regs clears "the rest of the registers so nothing will get leaked":
\* with the loads it leaves no number of the kernel in any register of the file.
THEOREM LeaksTheorem == ASSUME ~OtherBases PROVE Spec => []NothingLeaks
PROOF
<1>1. WInv => NothingLeaks
    BY DEF WInv, ProgramInv, AtRest, Clean, NothingLeaks
<1> QED
    BY <1>1, WindowsInvariance, PTL
=============================================================================
