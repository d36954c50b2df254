-------------------------- MODULE InterruptMatrix --------------------------
(***************************************************************************)
(* From a peripheral to the interrupt handler: the interrupt matrix        *)
(* (drivers/dport.c) wires a source to a line of the processor, kmain      *)
(* (main.c) enables lines, common_interrupt_handler (arch/interrupts.c)    *)
(* serves the watchdog and only prints what else it finds.  All lines are  *)
(* level 1.                                                                *)
(*                                                                         *)
(* A source stays raised until its device is served, and only that of the  *)
(* watchdog ever is: any other on an enabled line would trap for ever.     *)
(* Today init_wdt is the only caller of dport_map_interrupt; the module    *)
(* lets drivers call it after the boot, each for its own source.           *)
(***************************************************************************)
EXTENDS Integers, FiniteSetsExt

CONSTANTS
    MaxSource,      \* CACHE_IA_INT: 68
    WDT,            \* TG_WDT_LEVEL_INT
    FreeLines,      \* m_free_peripheral_interrupt at the start
    EdgeLines,      \* PERIPHERALS_EDGE_TRIGGERED
    UNUSABLE,       \* 16: an internal interrupt
    BootLines       \* what the boot rom may have wired sources to

Sources == 0 .. MaxSource

ASSUME MatrixAssumption ==
    /\ MaxSource \in Nat /\ WDT \in Sources
    /\ FreeLines \subseteq Nat /\ EdgeLines \subseteq Nat
    /\ 0 \in FreeLines \ EdgeLines
    /\ UNUSABLE \in Nat \ FreeLines /\ BootLines \subseteq Nat

VARIABLES
    phase,          \* of kmain: "rom", "dport", "enabled", "run", "halt"
    mode,           \* what runs then: kmain, a program, a handler, the idle loop, a hang
    int_map,        \* DPORT_PRO_INT_MAP
    free,           \* m_free_peripheral_interrupt
    intenable,      \* INTENABLE
    raised,         \* the sources that are raised
    asked           \* history: edge triggered or not, for each mapped source

vars == <<phase, mode, int_map, free, intenable, raised, asked>>

Init ==
    /\ phase = "rom"
    /\ mode = "boot"
    /\ int_map \in [Sources -> BootLines]
    /\ free = FreeLines
    /\ intenable = {}
    /\ raised = {}
    /\ asked = [s \in {} |-> FALSE]

init_dport_keeps_rom ==
    /\ phase = "rom"
    /\ phase' = "dport"
    /\ UNCHANGED <<mode, int_map, free, intenable, raised, asked>>

init_dport_invalid ==
    /\ phase = "rom"
    /\ phase' = "dport"
    /\ int_map' = [s \in Sources |-> -1]
    /\ UNCHANGED <<mode, free, intenable, raised, asked>>

\* Every source goes to the unusable interrupt.  The remapping, the caches and
\* the vector base it also sets have no part in the matrix.
init_dport ==
    /\ phase = "rom"
    /\ phase' = "dport"
    /\ int_map' = [s \in Sources |-> UNUSABLE]
    /\ UNCHANGED <<mode, free, intenable, raised, asked>>

\* PS.intlevel = 0 and INTENABLE = BIT0.  INTCLEAR does nothing to a level.
EnableInterrupts ==
    /\ phase = "dport"
    /\ phase' = "enabled"
    /\ intenable' = {0}
    /\ UNCHANGED <<mode, int_map, free, raised, asked>>

-----------------------------------------------------------------------------
Candidates_swapped(edge) == IF edge THEN free \ EdgeLines ELSE free \cap EdgeLines

\* The free lines of the kind that is asked for.
Candidates(edge) == IF edge THEN free \cap EdgeLines ELSE free \ EdgeLines

\* __builtin_ffs(free_peripheral_interrupt) - 1
FirstFree(edge) == Min(Candidates(edge))

MapInterrupt_stays_free(source, edge) ==
    /\ int_map' = [int_map EXCEPT ![source] = FirstFree(edge)]
    /\ asked' = [s \in DOMAIN asked \cup {source} |-> IF s = source THEN edge ELSE asked[s]]
    /\ UNCHANGED free

MapInterrupt(source, edge) ==
    /\ free' = free \ {FirstFree(edge)}
    /\ int_map' = [int_map EXCEPT ![source] = FirstFree(edge)]
    /\ asked' = [s \in DOMAIN asked \cup {source} |-> IF s = source THEN edge ELSE asked[s]]

Accepted(source, edge) == source >= 0 /\ source <= MaxSource /\ Candidates(edge) # {}

\* A source out of range, or no line left, is an error and changes nothing.
dport_map_interrupt(source, edge) ==
    \/ Accepted(source, edge) /\ MapInterrupt(source, edge)
    \/ ~Accepted(source, edge) /\ UNCHANGED <<free, int_map, asked>>

\* The watchdog asks for a level line before it is started; kmain goes on with
\* the system call scheduler_drop_current.
init_wdt ==
    /\ phase = "enabled"
    /\ IF Accepted(WDT, FALSE) THEN phase' = "run" /\ mode' = "kernel"
                               ELSE phase' = "halt" /\ mode' = "halt"
    /\ dport_map_interrupt(WDT, FALSE)
    /\ UNCHANGED <<intenable, raised>>

Driver(source, edge) ==
    /\ mode = "kernel" /\ source # WDT
    /\ dport_map_interrupt(source, edge)
    /\ UNCHANGED <<phase, mode, intenable, raised>>

-----------------------------------------------------------------------------
\* A device raises its source; the watchdog only while it counts, which it does
\* neither before init_wdt nor in the idle loop (scheduler_cancel_deadline).
Raise(source) ==
    /\ source \notin raised
    /\ source = WDT => phase = "run" /\ mode # "idle"
    /\ raised' = raised \cup {source}
    /\ UNCHANGED <<phase, mode, int_map, free, intenable, asked>>

\* The level 1 interrupt.
Interrupted == \E s \in raised : int_map[s] \in intenable

common_interrupt_handler_not_cleared ==
    /\ Interrupted /\ mode = "user"
    /\ mode' = "kernel"
    /\ UNCHANGED <<phase, int_map, free, intenable, raised, asked>>

\* PS masks the interrupt in the kernel, and the vector of the idle loop only
\* returns: it is taken from programs.  wdt_handle feeds the watchdog and clears
\* its interrupt; otherwise dport_log_interrupt prints the raised sources.
common_interrupt_handler ==
    /\ Interrupted /\ mode = "user"
    /\ mode' = "kernel"
    /\ raised' = raised \ {WDT}
    /\ UNCHANGED <<phase, int_map, free, intenable, asked>>

\* A program makes a system call or faults; a pending interrupt comes first.
Trap ==
    /\ mode = "user" /\ ~Interrupted
    /\ mode' = "kernel"
    /\ UNCHANGED <<phase, int_map, free, intenable, raised, asked>>

\* The end of a handler: rfe to a program, the WAITI loop of find_runnable, or
\* the hang of a fault, of release_task and of a failing ASSERT.
HandlerEnds ==
    /\ mode = "kernel"
    /\ mode' \in {"user", "idle", "halt"}
    /\ UNCHANGED <<phase, int_map, free, intenable, raised, asked>>

Next ==
    \/ init_dport \/ EnableInterrupts \/ init_wdt
    \/ common_interrupt_handler \/ Trap \/ HandlerEnds
    \/ \E s \in -1 .. MaxSource + 1, edge \in BOOLEAN : Driver(s, edge)
    \/ \E s \in Sources : Raise(s)

Spec == Init /\ [][Next]_vars

\* The processor takes an interrupt that is enabled, and runs the kernel.
FairSpec == Spec /\ WF_vars(common_interrupt_handler) /\ WF_vars(HandlerEnds)

-----------------------------------------------------------------------------
(* Properties. *)

\* The bitmap keeps lines of the initial one, the map names lines.
TypeOK ==
    /\ phase \in {"rom", "dport", "enabled", "run", "halt"}
    /\ mode \in {"boot", "user", "kernel", "idle", "halt"}
    /\ int_map \in [Sources -> FreeLines \cup BootLines \cup {UNUSABLE}]
    /\ free \in SUBSET FreeLines
    /\ intenable \subseteq {0}
    /\ raised \in SUBSET Sources
    /\ asked \in [DOMAIN asked -> BOOLEAN]

\* Two sources that drivers mapped never share a line, however often they map
\* theirs again and whatever runs out: the handler cannot tell them apart.
OneSourcePerLine ==
    \A s, t \in DOMAIN asked : int_map[s] = int_map[t] => s = t

\* dport.h: a source asked for as edge triggered is on an edge line, any other
\* on a level line: an edge line loses a level that stays high, a level line
\* repeats an edge.
TriggerKept ==
    \A s \in DOMAIN asked : (int_map[s] \in EdgeLines) <=> asked[s]

\* From the moment interrupts are unmasked only the watchdog is on an enabled
\* line: nothing else can trap, and the handler would never silence it.  It is
\* so though the lines are enabled before the first source is mapped, whatever
\* the boot rom left.
NothingElseTraps ==
    phase \in {"enabled", "run"} => \A s \in Sources \ {WDT} : int_map[s] \notin intenable

\* The watchdog's interrupt, once raised, is served, also when it is raised under
\* a handler that masks it, unless that handler never returns to a program: it
\* finds none to run, or hangs.
WatchdogServed == WDT \in raised ~> WDT \notin raised \/ mode \in {"idle", "halt"}
=============================================================================
