----------------------- MODULE InterruptMatrixProofs -----------------------
(***************************************************************************)
(* Proofs about InterruptMatrix for any number of sources, any lines and   *)
(* whatever wiring the boot rom left.                                      *)
(*                                                                         *)
(* MInv is the inductive invariant: a line leaves the bitmap when a source *)
(* gets it and never comes back, so what is mapped is apart from what is   *)
(* free, and before the first driver runs the watchdog has got line 0.     *)
(***************************************************************************)
EXTENDS InterruptMatrix, LeastElement

\* Mapped lines were free once and are not free now.
MappedInv ==
    /\ DOMAIN asked \subseteq Sources
    /\ \A s \in DOMAIN asked : int_map[s] \in FreeLines \ free

\* How far the boot is: nothing is mapped until init_wdt, what is not mapped is
\* on the unusable interrupt once init_dport ran, and the watchdog has line 0.
BootInv ==
    /\ phase \in {"rom", "dport", "enabled"} => DOMAIN asked = {} /\ free = FreeLines
    /\ phase \in {"rom", "dport"} => intenable = {}
    /\ phase # "rom" => \A s \in Sources \ DOMAIN asked : int_map[s] = UNUSABLE
    /\ phase = "run" => WDT \in DOMAIN asked /\ int_map[WDT] = 0
    /\ mode \in {"kernel", "user"} => phase = "run"

MInv == TypeOK /\ MappedInv /\ BootInv /\ OneSourcePerLine /\ TriggerKept

-----------------------------------------------------------------------------
\* __builtin_ffs on a bitmap with a line of the kind that is asked for gives a
\* free line of that kind.
LEMMA FirstFreeLemma ==
    ASSUME free \in SUBSET FreeLines, NEW edge \in BOOLEAN,
           Candidates(edge) # {}
    PROVE  /\ FirstFree(edge) \in free
           /\ FirstFree(edge) \in EdgeLines <=> edge
           /\ \A n \in Candidates(edge) : FirstFree(edge) <= n
PROOF
<1> DEFINE C == Candidates(edge)
<1>1. C \in SUBSET Nat /\ C \subseteq free /\ \A n \in C : n \in EdgeLines <=> edge
    BY MatrixAssumption DEF Candidates
<1> HIDE DEF C
<1>2. \E m \in C : \A n \in C : m <= n
    BY <1>1, NatMin DEF C
<1>3. Min(C) \in C /\ \A n \in C : Min(C) <= n
    BY <1>2 DEF Min
<1> QED
    BY <1>1, <1>3 DEF C, FirstFree

\* dport_map_interrupt takes a line for a source of its own kind that no other
\* source has, or changes nothing.
LEMMA MapLemma ==
    ASSUME MInv, NEW source \in Int, NEW edge \in BOOLEAN,
           Accepted(source, edge), MapInterrupt(source, edge)
    PROVE  /\ source \in Sources
           /\ DOMAIN asked' = DOMAIN asked \cup {source}
           /\ int_map'[source] = FirstFree(edge)
           /\ \A s \in Sources \ {source} : int_map'[s] = int_map[s]
           /\ int_map' \in [Sources -> FreeLines \cup BootLines \cup {UNUSABLE}]
           /\ free' \in SUBSET FreeLines
           /\ asked' \in [DOMAIN asked' -> BOOLEAN]
           /\ MappedInv' /\ OneSourcePerLine' /\ TriggerKept'
PROOF
<1> DEFINE l == FirstFree(edge)
<1>1. /\ source \in Sources
      /\ l \in free
      /\ l \in EdgeLines <=> edge
    BY FirstFreeLemma, MatrixAssumption DEF Accepted, MInv, TypeOK, Sources
<1>2. /\ free' = free \ {l}
      /\ int_map' = [int_map EXCEPT ![source] = l]
      /\ asked' = [s \in DOMAIN asked \cup {source} |-> IF s = source THEN edge ELSE asked[s]]
    BY DEF MapInterrupt
<1> HIDE DEF l
<1>3. /\ DOMAIN asked' = DOMAIN asked \cup {source}
      /\ asked'[source] = edge
      /\ \A s \in DOMAIN asked \ {source} : asked'[s] = asked[s]
      /\ asked' \in [DOMAIN asked' -> BOOLEAN]
    BY <1>2 DEF MInv, TypeOK
<1>4. /\ int_map'[source] = l
      /\ \A s \in Sources \ {source} : int_map'[s] = int_map[s]
      /\ int_map' \in [Sources -> FreeLines \cup BootLines \cup {UNUSABLE}]
      /\ free' \in SUBSET FreeLines
    BY <1>1, <1>2 DEF MInv, TypeOK
<1>5. MappedInv'
    BY <1>1, <1>2, <1>3, <1>4 DEF MInv, MappedInv, TypeOK
<1>6. OneSourcePerLine'
    BY <1>1, <1>3, <1>4 DEF MInv, MappedInv, OneSourcePerLine
<1>7. TriggerKept'
    BY <1>1, <1>3, <1>4 DEF MInv, MappedInv, TriggerKept
<1> QED
    BY <1>1, <1>3, <1>4, <1>5, <1>6, <1>7 DEF l

-----------------------------------------------------------------------------
\* Out of reset nothing is mapped.
LEMMA InitMInv == ASSUME Init PROVE MInv
PROOF
<1>1. DOMAIN asked = {} /\ asked \in [DOMAIN asked -> BOOLEAN]
    BY DEF Init
<1> QED
    BY <1>1 DEF Init, MInv, TypeOK, MappedInv, BootInv, OneSourcePerLine, TriggerKept

\* Every step of the boot, of a driver, of a device and of the handler keeps it.
LEMMA NextMInv == ASSUME MInv, [Next]_vars PROVE MInv'
PROOF
<1>1. CASE init_dport
    <2>1. DOMAIN asked = {} /\ asked' = asked /\ free' = free
        BY <1>1 DEF init_dport, MInv, BootInv
    <2> QED
        BY <1>1, <2>1 DEF init_dport, MInv, TypeOK, MappedInv, BootInv, OneSourcePerLine, TriggerKept
<1>2. CASE EnableInterrupts
    BY <1>2 DEF EnableInterrupts, MInv, TypeOK, MappedInv, BootInv, OneSourcePerLine, TriggerKept
<1>3. CASE init_wdt
    <2>1. /\ phase = "enabled" /\ free = FreeLines /\ DOMAIN asked = {}
          /\ UNCHANGED <<intenable, raised>>
        BY <1>3 DEF init_wdt, MInv, BootInv
    <2>2. /\ 0 \in Candidates(FALSE)
          /\ WDT \in Int /\ Accepted(WDT, FALSE)
        BY <2>1, MatrixAssumption DEF Candidates, Accepted, Sources
    <2>3. FirstFree(FALSE) = 0
        <3> DEFINE l == FirstFree(FALSE)
        <3>1. l <= 0 /\ l \in Nat
            BY <2>1, <2>2, FirstFreeLemma, MatrixAssumption DEF MInv, TypeOK
        <3> HIDE DEF l
        <3>2. l = 0
            BY <3>1
        <3> QED
            BY <3>2 DEF l
    <2>4. phase' = "run" /\ mode' = "kernel" /\ MapInterrupt(WDT, FALSE)
        BY <1>3, <2>2 DEF init_wdt, dport_map_interrupt
    <2>5. BootInv'
        BY <2>1, <2>2, <2>3, <2>4, MapLemma DEF MInv, BootInv
    <2>6. TypeOK'
        BY <2>1, <2>2, <2>4, MapLemma DEF MInv, TypeOK
    <2> QED
        BY <2>2, <2>4, <2>5, <2>6, MapLemma DEF MInv
<1>4. CASE common_interrupt_handler
    BY <1>4 DEF common_interrupt_handler, MInv, TypeOK, MappedInv, BootInv, OneSourcePerLine,
        TriggerKept
<1>5. ASSUME NEW s \in -1 .. MaxSource + 1, NEW edge \in BOOLEAN, Driver(s, edge)
      PROVE  MInv'
    <2>1. CASE ~Accepted(s, edge)
        BY <1>5, <2>1 DEF Driver, dport_map_interrupt, MapInterrupt, MInv, TypeOK, MappedInv,
            BootInv, OneSourcePerLine, TriggerKept
    <2>2. CASE Accepted(s, edge)
        <3>1. /\ s \in Int /\ MapInterrupt(s, edge) /\ s # WDT
              /\ phase = "run" /\ UNCHANGED <<phase, mode, intenable, raised>>
            BY <1>5, <2>2, MatrixAssumption DEF Driver, dport_map_interrupt, MInv, BootInv
        <3>2. BootInv'
            <4>1. /\ DOMAIN asked' = DOMAIN asked \cup {s}
                  /\ \A o \in Sources \ {s} : int_map'[o] = int_map[o]
                BY <2>2, <3>1, MapLemma
            <4>2. /\ \A o \in Sources \ DOMAIN asked : int_map[o] = UNUSABLE
                  /\ WDT \in DOMAIN asked /\ int_map[WDT] = 0
                BY <3>1 DEF MInv, BootInv
            <4>3. int_map'[WDT] = 0
                BY <3>1, <4>1, <4>2, MatrixAssumption
            <4>4. \A o \in Sources \ DOMAIN asked' : int_map'[o] = UNUSABLE
                BY <4>1, <4>2
            <4> QED
                BY <3>1, <4>1, <4>2, <4>3, <4>4 DEF BootInv
        <3>3. TypeOK'
            BY <2>2, <3>1, MapLemma DEF MInv, TypeOK
        <3> QED
            BY <2>2, <3>1, <3>2, <3>3, MapLemma DEF MInv
    <2> QED
        BY <2>1, <2>2
<1>6. ASSUME NEW s \in Sources, Raise(s)
      PROVE  MInv'
    BY <1>6 DEF Raise, MInv, TypeOK, MappedInv, BootInv, OneSourcePerLine, TriggerKept
<1>7. CASE UNCHANGED vars
    BY <1>7 DEF vars, MInv, TypeOK, MappedInv, BootInv, OneSourcePerLine, TriggerKept
<1>8. CASE Trap
    BY <1>8 DEF Trap, MInv, TypeOK, MappedInv, BootInv, OneSourcePerLine, TriggerKept
<1>9. CASE HandlerEnds
    BY <1>9 DEF HandlerEnds, MInv, TypeOK, MappedInv, BootInv, OneSourcePerLine, TriggerKept
<1> QED
    BY <1>1, <1>2, <1>3, <1>4, <1>5, <1>6, <1>7, <1>8, <1>9 DEF Next

\* MInv holds throughout.
THEOREM MatrixInvariance == Spec => []MInv
PROOF
<1>1. Init => MInv
    BY InitMInv
<1>2. MInv /\ [Next]_vars => MInv'
    BY NextMInv
<1> QED
    BY <1>1, <1>2, PTL DEF Spec

\* The bitmap and the registers of the matrix keep their types, whatever number
\* of sources, in range or not, drivers ask for.
THEOREM MatrixTypeTheorem == Spec => []TypeOK
PROOF
<1>1. MInv => TypeOK
    BY DEF MInv
<1> QED
    BY <1>1, MatrixInvariance, PTL

\* However often sources are mapped again, no two share a line.
THEOREM OneSourceTheorem == Spec => []OneSourcePerLine
PROOF
<1>1. MInv => OneSourcePerLine
    BY DEF MInv
<1> QED
    BY <1>1, MatrixInvariance, PTL

\* A source is on a line of the kind it was mapped with last.
THEOREM TriggerTheorem == Spec => []TriggerKept
PROOF
<1>1. MInv => TriggerKept
    BY DEF MInv
<1> QED
    BY <1>1, MatrixInvariance, PTL

\* Once interrupts are unmasked only the watchdog's source is on an enabled line.
THEOREM OnlyWatchdogTheorem == Spec => []NothingElseTraps
PROOF
<1>1. MInv => NothingElseTraps
    <2> SUFFICES ASSUME MInv, phase \in {"enabled", "run"}, NEW s \in Sources, s # WDT
                 PROVE  int_map[s] \notin intenable
        BY DEF NothingElseTraps
    <2>1. intenable \subseteq {0} /\ 0 \in FreeLines /\ UNUSABLE \notin FreeLines
        BY MatrixAssumption DEF MInv, TypeOK
    <2>2. CASE s \in DOMAIN asked
        <3>1. phase = "run" /\ WDT \in DOMAIN asked /\ int_map[WDT] = 0
            BY <2>2 DEF MInv, BootInv
        <3> QED
            BY <2>1, <2>2, <3>1 DEF MInv, OneSourcePerLine
    <2>3. CASE s \notin DOMAIN asked
        BY <2>1, <2>3 DEF MInv, BootInv
    <2> QED
        BY <2>2, <2>3
<1> QED
    BY <1>1, MatrixInvariance, PTL
=============================================================================
