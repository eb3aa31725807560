----------------------------- MODULE Interrupts -----------------------------
(***************************************************************************)
(* interrupt/InterruptHandler.hpp - the handler table and the IDT that     *)
(* calls it - and the drivers of src/DriverManager.cpp and                 *)
(* drivers/DriverManager.hpp.                                              *)
(*                                                                         *)
(* registerISR writes priorityLevels, which nothing gives a size: what     *)
(* the write hits is undefined, and the code goes on when it hits nothing  *)
(* that matters.                                                           *)
(***************************************************************************)
EXTENDS Naturals, FiniteSets

CONSTANTS
    Vectors, DriverNames,
    MaxDrivers      \* bound: driver objects made

VARIABLES
    idt,            \* [Vectors -> "none", "default" (sends the EOI), "handler"]
    isrTable,       \* the vectors with a handler
    idtLoaded, flag,     \* lidt was done; the CPU's interrupt flag
    interruptsEnabled,
    switching,      \* "none", or between the instruction and the assignment: "enable", "disable"
    lost,           \* history: where handlers' interrupts were dropped
    corrupted,      \* registerISR wrote where it should not
    drivers,        \* name -> the object registered under it, 0 for none
    made,           \* driver objects made
    up,             \* the objects initialized and not shut down
    replaced        \* history: objects dropped because another took their name

vars == <<idt, isrTable, idtLoaded, flag, interruptsEnabled, switching, lost, corrupted,
          drivers, made, up, replaced>>

interruptVars == <<idt, isrTable, idtLoaded, flag, interruptsEnabled, switching, lost, corrupted>>
driverVars    == <<drivers, made, up, replaced>>

Init ==
    /\ idt = [v \in Vectors |-> "none"] /\ isrTable = {} /\ idtLoaded = FALSE /\ flag = FALSE
    /\ interruptsEnabled \in BOOLEAN    \* not initialized
    /\ switching = "none" /\ lost = {} /\ corrupted = FALSE
    /\ drivers = [n \in DriverNames |-> 0] /\ made = 0 /\ up = {} /\ replaced = {}

\* InterruptManager::initialize overwrites what was registered before it.
Initialize ==
    /\ ~ idtLoaded /\ switching = "none"
    /\ idt' = [v \in Vectors |-> "default"] /\ idtLoaded' = TRUE
    /\ flag' = TRUE /\ switching' = "enable"
    /\ UNCHANGED <<isrTable, interruptsEnabled, lost, corrupted, driverVars>>

RegisterInterruptHandler(v) ==
    /\ switching = "none"
    /\ isrTable' = isrTable \cup {v} /\ idt' = [idt EXCEPT ![v] = "handler"]
    /\ corrupted' \in {corrupted, TRUE}
    /\ UNCHANGED <<idtLoaded, flag, interruptsEnabled, switching, lost, driverVars>>

EnableInterrupts ==
    /\ idtLoaded /\ switching = "none"
    /\ flag' = TRUE /\ switching' = "enable"
    /\ UNCHANGED <<idt, isrTable, idtLoaded, interruptsEnabled, lost, corrupted, driverVars>>

\* Mutant: cli is left out.
DisableWithoutCli ==
    /\ switching = "none" /\ interruptsEnabled
    /\ interruptsEnabled' = FALSE
    /\ UNCHANGED <<idt, isrTable, idtLoaded, flag, switching, lost, corrupted, driverVars>>

DisableInterrupts ==
    /\ switching = "none"
    /\ flag' = FALSE /\ switching' = "disable"
    /\ UNCHANGED <<idt, isrTable, idtLoaded, interruptsEnabled, lost, corrupted, driverVars>>

Switched ==
    /\ switching # "none"
    /\ interruptsEnabled' = (switching = "enable") /\ switching' = "none"
    /\ UNCHANGED <<idt, isrTable, idtLoaded, flag, lost, corrupted, driverVars>>

\* An interrupt for a handler that comes when interruptsEnabled is not set is dropped.
Interrupt(v) ==
    /\ flag /\ idtLoaded /\ idt[v] = "handler"
    /\ lost' = IF interruptsEnabled THEN lost ELSE lost \cup {switching}
    /\ UNCHANGED <<idt, isrTable, idtLoaded, flag, interruptsEnabled, switching, corrupted, driverVars>>

-----------------------------------------------------------------------------
\* DriverManager

\* registerDriver; a driver whose initialize fails is destroyed.
RegisterDriver(name) ==
    /\ made < MaxDrivers /\ made' = made + 1
    /\ \/ UNCHANGED <<drivers, up, replaced>>
       \/ /\ drivers' = [drivers EXCEPT ![name] = made']
          /\ up' = up \cup {made'}
          /\ replaced' = replaced \cup ({drivers[name]} \ {0})
    /\ UNCHANGED interruptVars

\* Mutant: the driver leaves the map though its shutdown failed.
UnregisterAnyway(name) ==
    /\ drivers[name] # 0
    /\ up' \in {up, up \ {drivers[name]}}
    /\ drivers' = [drivers EXCEPT ![name] = 0]
    /\ UNCHANGED <<made, replaced, interruptVars>>

\* A driver whose shutdown throws stays.
UnregisterDriver(name) ==
    /\ drivers[name] # 0
    /\ up' = up \ {drivers[name]}
    /\ drivers' = [drivers EXCEPT ![name] = 0]
    /\ UNCHANGED <<made, replaced, interruptVars>>

\* shutdown goes on when one throws: its driver counts as replaced - nobody has it.
ShutdownDrivers ==
    /\ \E throwing \in SUBSET ({drivers[n] : n \in DriverNames} \ {0}) :
         /\ up' = up \ ({drivers[n] : n \in DriverNames} \ throwing)
         /\ replaced' = replaced \cup (throwing \cap up)
    /\ drivers' = [n \in DriverNames |-> 0]
    /\ UNCHANGED <<made, interruptVars>>

Next ==
    /\ ~ corrupted
    /\ \/ Initialize \/ EnableInterrupts \/ DisableInterrupts \/ Switched
       \/ \E v \in Vectors : RegisterInterruptHandler(v) \/ Interrupt(v)
       \/ \E n \in DriverNames : RegisterDriver(n) \/ UnregisterDriver(n)
       \/ ShutdownDrivers

TypeOK ==
    /\ idt \in [Vectors -> {"none", "default", "handler"}] /\ isrTable \subseteq Vectors
    /\ switching \in {"none", "enable", "disable"} /\ made <= MaxDrivers
    /\ drivers \in [DriverNames -> 0 .. MaxDrivers] /\ up \cup replaced \subseteq 1 .. MaxDrivers

\* Once enableInterrupts has returned, and as long as disableInterrupts has not, no
\* interrupt of a handler is dropped, however the two follow one another and handlers are
\* registered in between.  While enableInterrupts itself runs, between sti and the
\* assignment, they are dropped, and this says nothing else (45-49, 71-81).
LostOnlyWhileEnabling == lost \subseteq {"enable"}

\* A driver that runs can be reached by its name, unless another took the name or its
\* shutdown failed: none is forgotten (registerDriver, unregisterDriver, shutdown).
DriversReachable == up \subseteq {drivers[n] : n \in DriverNames} \cup replaced
=============================================================================
